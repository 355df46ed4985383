------------------------------ MODULE Webhook ------------------------------
(***************************************************************************)
(* The way of a LINE message through the bot: line_webhook of main.py,     *)
(* route_command of services/command_router.py, the access checks and the  *)
(* error replies of handlers/, the user mapping of                         *)
(* services/user_mapping_service.py, and the quota check (Quota).          *)
(*                                                                         *)
(* A request carries a batch of events, which are handled one after the    *)
(* other.  Requests interleave wherever one is suspended: at the fetch of  *)
(* the user mapping, in a handler, at the quota poll.  What lies between   *)
(* is one step; reply_message is a blocking call and takes none of its     *)
(* own.                                                                    *)
(*                                                                         *)
(* Requests that miss the user mapping at once each fetch it for           *)
(* themselves here, as they do when a refresh comes between them; that the *)
(* others wait for the first one is the subject of ResponseCache.          *)
(***************************************************************************)
EXTENDS Quota, Sequences

CONSTANTS
    Users,
    Other,          \* an event that is not a text message
    Batches,        \* events a request may carry: Other, or [user, command]
    CACHE_TTL,      \* lifetime of the user mapping
    FETCH_LIMIT,    \* longest time a fetch of it may take
    MaxEdits        \* bound: edits of the Users sheet

Open == {"ping", "version", "help", "today"}
Serving == {"portfolio", "summary", "allocation", "cash", "breakdown", "top",
            "winners", "losers", "symbol", "validate"}
Clearing == {"refresh", "reload"}
Admin == Clearing \cup {"status"}
Events == {Other} \cup [user : Users, command : Open \cup Serving \cup Admin]

ASSUME WebhookConstants ==
    /\ Batches \subseteq Seq(Events)
    /\ MaxEdits \in Nat
    /\ CACHE_TTL \in Nat \ {0} /\ FETCH_LIMIT \in Nat \ {0}

VARIABLES
    roles,      \* the Users sheet: "none" stands for disabled as well
    since,      \* ticks since the sheet gave a user a role
    edits,
    mapping,    \* the entry of _fetch_all_users in _cache: [age, roles]
    pc,         \* where each request is suspended
    batch,      \* the events it has still to handle
    spent,      \* ticks in its fetch of the user mapping
    found,      \* the mapping the fetch has read
    response,   \* the response that waits for the quota poll
    reply       \* the response passed to reply_message in this step

vars == <<quotaVars, roles, since, edits, mapping, pc, batch, spent, found,
          response, reply>>
users == <<roles, since, edits>>

Roles == {"none", "user", "admin"}
LongAgo == CACHE_TTL + FETCH_LIMIT

Nobody == [u \in Users |-> "none"]
NoMapping == [age |-> CACHE_TTL, roles |-> Nobody]
Known == mapping.age < CACHE_TTL

IsText(e) == e # Other
Command(r) == Head(batch[r]).command

Silent == reply' = "none"

(* The request is at a text event. *)
Handling(r) == pc[r] = "next" /\ batch[r] # <<>> /\ IsText(Head(batch[r]))

----------------------------------------------------------------------------
Init ==
    /\ QuotaInit
    /\ roles \in [Users -> Roles]
    /\ since = [u \in Users |-> [role \in Roles |->
                    IF roles[u] = role THEN 0 ELSE LongAgo]]
    /\ edits = 0
    /\ mapping = NoMapping
    /\ pc = [r \in Requests |-> "new"]
    /\ batch = [r \in Requests |-> <<>>]
    /\ spent = [r \in Requests |-> 0]
    /\ found = [r \in Requests |-> Nobody]
    /\ response = [r \in Requests |-> "none"]
    /\ reply = "none"

(* Lines 216-227: a signed request with its events. *)
Arrive(r) ==
    /\ pc[r] = "new"
    /\ pc' = [pc EXCEPT ![r] = "next"]
    /\ \E b \in Batches : batch' = [batch EXCEPT ![r] = b]
    /\ Silent
    /\ UNCHANGED <<quotaVars, users, mapping, spent, found, response>>

(* Lines 228-231. *)
Skip(r) ==
    /\ pc[r] = "next" /\ batch[r] # <<>>
    /\ ~IsText(Head(batch[r]))
    /\ batch' = [batch EXCEPT ![r] = Tail(@)]
    /\ Silent
    /\ UNCHANGED <<quotaVars, users, mapping, pc, spent, found, response>>

Finish(r) ==
    /\ pc[r] = "next" /\ batch[r] = <<>>
    /\ pc' = [pc EXCEPT ![r] = "done"]
    /\ Silent
    /\ UNCHANGED <<quotaVars, users, mapping, batch, spent, found, response>>

(* Lines 240-255: the reply is sent, with a warning if the quota status is *)
(* low.  A failure to send it is logged, and the loop goes on.             *)
Reply(r, kind) ==
    /\ reply' = kind
    /\ batch' = [batch EXCEPT ![r] = Tail(@)]
    /\ pc' = [pc EXCEPT ![r] = "next"]
    /\ response' = [response EXCEPT ![r] = "none"]

(* The fetch of the user mapping, if there was one, is over. *)
ForgetLookup(r) ==
    /\ spent' = [spent EXCEPT ![r] = 0]
    /\ found' = [found EXCEPT ![r] = Nobody]

(* Lines 238-239: the router has a response.  The quota status comes from  *)
(* the cache, or a poll is started.                                        *)
Conclude(r, kind) ==
    /\ ForgetLookup(r)
    /\ IF Throttled
       THEN /\ Reply(r, kind)
            /\ UNCHANGED quotaVars
       ELSE /\ StartPoll(r)
            /\ pc' = [pc EXCEPT ![r] = "polling"]
            /\ response' = [response EXCEPT ![r] = kind]
            /\ Silent
            /\ UNCHANGED batch
    /\ UNCHANGED users

(* What a handler does once get_user has answered with the roles m, kept   *)
(* in the cache as entry: it refuses, clears the cache, or goes on.        *)
DecideUnlessAbsent(r, m, entry) ==
    LET role == m[Head(batch[r]).user]
    IN  CASE role = "none" -> Conclude(r, "denied") /\ mapping' = entry
          [] role # "none" /\ Command(r) \in Clearing ->
                Conclude(r, "answer") /\ mapping' = NoMapping
          [] OTHER ->
                /\ pc' = [pc EXCEPT ![r] = "handling"]
                /\ mapping' = entry
                /\ ForgetLookup(r)
                /\ Silent
                /\ UNCHANGED <<quotaVars, users, batch, response>>
Decide(r, m, entry) ==
    LET role == m[Head(batch[r]).user]
    IN  CASE role = "none" -> Conclude(r, "denied") /\ mapping' = entry
          [] role = "user" /\ Command(r) \in Admin ->
                Conclude(r, "admin_only") /\ mapping' = entry
          [] role = "admin" /\ Command(r) \in Clearing ->
                Conclude(r, "answer") /\ mapping' = NoMapping
          [] OTHER ->
                /\ pc' = [pc EXCEPT ![r] = "handling"]
                /\ mapping' = entry
                /\ ForgetLookup(r)
                /\ Silent
                /\ UNCHANGED <<quotaVars, users, batch, response>>

(* Handlers that look nobody up. *)
AnswerOpen(r) ==
    /\ Handling(r) /\ Command(r) \in Open
    /\ Conclude(r, "answer")
    /\ UNCHANGED mapping

LookupHit(r) ==
    /\ Handling(r) /\ Command(r) \notin Open
    /\ Known
    /\ Decide(r, mapping.roles, mapping)

LookupMiss(r) ==
    /\ Handling(r) /\ Command(r) \notin Open
    /\ ~Known
    /\ pc' = [pc EXCEPT ![r] = "lookup"]
    /\ Silent
    /\ UNCHANGED <<quotaVars, users, mapping, batch, spent, found, response>>

(* _fetch_all_users reads the sheet at some moment of its run. *)
ReadUsers(r) ==
    /\ pc[r] = "lookup"
    /\ pc' = [pc EXCEPT ![r] = "read"]
    /\ found' = [found EXCEPT ![r] = roles]
    /\ Silent
    /\ UNCHANGED <<quotaVars, users, mapping, batch, spent, response>>

LookupDone(r) ==
    /\ pc[r] = "read"
    /\ Decide(r, found[r], [age |-> 0, roles |-> found[r]])

(* The fetch raises SheetsReadError or times out, or the handler's own     *)
(* reads raise.  The handler catches it, or else the router does: either   *)
(* way the response says that something failed.                            *)
Fail(r) ==
    /\ pc[r] \in {"lookup", "read", "handling"}
    /\ Conclude(r, "failed")
    /\ UNCHANGED mapping

HandlerAnswers(r) ==
    /\ pc[r] = "handling"
    /\ Conclude(r, "answer")
    /\ UNCHANGED mapping

(* The quota poll of r; get_quota_status never raises. *)
PollStep(r) ==
    /\ ReadUsage(r)
    /\ Silent
    /\ UNCHANGED <<users, mapping, pc, batch, spent, found, response>>

PollDone(r) ==
    /\ ReadLimit(r) \/ PollFails(r)
    /\ Reply(r, response[r])
    /\ UNCHANGED <<users, mapping, spent, found>>

----------------------------------------------------------------------------
(* The owner edits the Users sheet; the quota is used. *)
EditUsers ==
    /\ edits < MaxEdits
    /\ edits' = edits + 1
    /\ \E u \in Users, role \in Roles :
        /\ role # roles[u]
        /\ roles' = [roles EXCEPT ![u] = role]
        /\ since' = [since EXCEPT ![u][role] = 0]
    /\ Silent
    /\ UNCHANGED <<quotaVars, mapping, pc, batch, spent, found, response>>

ConsumeQuota ==
    /\ Consume
    /\ Silent
    /\ UNCHANGED <<users, mapping, pc, batch, spent, found, response>>

Fetching(r) == pc[r] \in {"lookup", "read"}

(* A fetch that has used up its time is timed out first (Fail). *)
TickUntimed ==
    /\ QuotaTick
    /\ spent' = [r \in Requests |-> IF Fetching(r) THEN spent[r] + 1 ELSE 0]
    /\ UNCHANGED <<users, mapping, pc, batch, found, response>>
    /\ Silent
Tick ==
    /\ \A r \in Requests : Fetching(r) => spent[r] < FETCH_LIMIT
    /\ QuotaTick
    /\ since' = [u \in Users |-> [role \in Roles |->
                    IF roles[u] = role THEN 0 ELSE UpTo(LongAgo, since[u][role] + 1)]]
    /\ mapping' = IF mapping.age + 1 < CACHE_TTL
                  THEN [age |-> mapping.age + 1, roles |-> mapping.roles] ELSE NoMapping
    /\ spent' = [r \in Requests |-> IF Fetching(r) THEN spent[r] + 1 ELSE 0]
    /\ Silent
    /\ UNCHANGED <<roles, edits, pc, batch, found, response>>

RequestStep(r) ==
    \/ Skip(r) \/ Finish(r)
    \/ AnswerOpen(r)
    \/ LookupHit(r) \/ LookupMiss(r) \/ ReadUsers(r) \/ LookupDone(r)
    \/ Fail(r) \/ HandlerAnswers(r)
    \/ PollStep(r) \/ PollDone(r)

Next ==
    \/ \E r \in Requests : Arrive(r) \/ RequestStep(r)
    \/ EditUsers
    \/ ConsumeQuota
    \/ Tick

Spec == Init /\ [][Next]_vars

----------------------------------------------------------------------------
Kinds == {"answer", "denied", "admin_only", "failed"}

TypeOK ==
    /\ QuotaTypeOK
    /\ roles \in [Users -> Roles]
    /\ since \in [Users -> [Roles -> 0 .. LongAgo]]
    /\ edits \in 0 .. MaxEdits
    /\ mapping \in [age : 0 .. CACHE_TTL, roles : [Users -> Roles]]
    /\ pc \in [Requests -> {"new", "next", "lookup", "read", "handling", "polling",
                            "done"}]
    /\ batch \in [Requests -> Seq(Events)]
    /\ spent \in [Requests -> 0 .. FETCH_LIMIT]
    /\ found \in [Requests -> [Users -> Roles]]
    /\ response \in [Requests -> Kinds \cup {"none"}]
    /\ reply \in Kinds \cup {"none"}

(* What a user of each role gets from a command: a refusal, an answer, or  *)
(* the attention of the handler.                                           *)
Due(role, command) ==
    CASE role = "none" -> "denied"
      [] role = "user" /\ command \in Admin -> "admin_only"
      [] role = "admin" /\ command \in Clearing -> "answer"
      [] OTHER -> "served"

(* What the user mapping has just got for request r. *)
Got(r) == CASE pc'[r] = "handling" -> "served"
            [] pc'[r] = "polling" -> response'[r]
            [] OTHER -> reply'

GotByLateRole(r) ==
    LET user == Head(batch[r]).user
    IN  \E role \in Roles :
            /\ since[user][role] < CACHE_TTL + FETCH_LIMIT
            /\ Got(r) = Due(role, Command(r))

(* Whoever is served, refused or allowed to clear the cache is so by a     *)
(* role that the Users sheet gave the user within a lifetime of the        *)
(* mapping and one fetch: a revoked right dies out and a new one arrives,  *)
(* however requests, edits and refreshes meet.                             *)
AccessTimely ==
    [][\A r \in Requests : LookupHit(r) \/ LookupDone(r) => GotByLateRole(r)]_vars

(* Request r has had the reply to a text. *)
Answered(r) ==
    batch[r] # <<>> /\ IsText(Head(batch[r])) /\ batch'[r] = Tail(batch[r])

(* As long as no poll outlasts the interval, the warning on a reply is     *)
(* timely: none is given while the quota is not low, and one is missing    *)
(* for an interval at most, unless a poll failed or is under way.          *)
WarnedInTime ==
    [][\A r \in Requests :
        Answered(r) /\ ~slow' /\ Polling' = {} => Timely(status)']_vars
=============================================================================
