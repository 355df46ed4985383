---------------------------- MODULE WebhookProofs ----------------------------
(***************************************************************************)
(* Access and quota warnings, for any requests, users and batches and all  *)
(* values of the time limits.  The invariant has three parts: the quota    *)
(* check (QuotaInv), where each request is in its batch (FlowInv and       *)
(* PollInv), and the roles that the cache and the fetches hold (UserInv).  *)
(***************************************************************************)
EXTENDS Webhook, SequenceTheorems, TLAPS

(* Unless a poll has outlasted the interval, polls exclude each other, and *)
(* what they have found is no older than the last check.                   *)
QuotaInv ==
    /\ QuotaTypeOK
    /\ \A r \in Requests : seen[r] <= used
    /\ ~IsLow(used) => lowFor = 0
    /\ status = "low" => IsLow(used)
    /\ ~slow /\ Polling # {} => checked < INTERVAL
    /\ ~slow => \A r \in Requests :
                    poll[r] = "limit" /\ ~IsLow(seen[r]) => lowFor <= checked
    /\ ~slow /\ Polling = {} /\ status = "ok" => lowFor <= checked

(* The request is at a text event. *)
At(r) == batch[r] # <<>> /\ IsText(Head(batch[r]))

FlowInv ==
    /\ pc \in [Requests -> {"new", "next", "lookup", "read", "handling", "polling",
                            "done"}]
    /\ batch \in [Requests -> Seq(Events)]
    /\ response \in [Requests -> Kinds \cup {"none"}]
    /\ reply \in Kinds \cup {"none"}
    /\ \A r \in Requests :
        /\ pc[r] = "new" => batch[r] = <<>>
        /\ pc[r] \in {"lookup", "read", "handling", "polling"} => At(r)

(* Only a request that waits for the quota has a poll. *)
PollInv == \A r \in Requests : poll[r] # "none" => pc[r] = "polling"

(* What is in the cache was the Users sheet's at most one fetch before it  *)
(* was stored.                                                             *)
UserInv ==
    /\ roles \in [Users -> Roles]
    /\ since \in [Users -> [Roles -> 0 .. LongAgo]]
    /\ edits \in 0 .. MaxEdits
    /\ mapping \in [age : 0 .. CACHE_TTL, roles : [Users -> Roles]]
    /\ spent \in [Requests -> 0 .. FETCH_LIMIT]
    /\ found \in [Requests -> [Users -> Roles]]
    /\ \A u \in Users :
        /\ since[u][roles[u]] = 0
        /\ \A r \in Requests : pc[r] = "read" => since[u][found[r][u]] <= spent[r]
        /\ Known => since[u][mapping.roles[u]] <= mapping.age + FETCH_LIMIT

IInv == QuotaInv /\ FlowInv /\ PollInv /\ UserInv

LEMMA Limits ==
    /\ INTERVAL \in Nat /\ INTERVAL >= 1 /\ THRESHOLD \in Nat /\ LIMIT \in Nat /\ MaxUsed \in Nat
    /\ CACHE_TTL \in Nat /\ CACHE_TTL >= 1 /\ FETCH_LIMIT \in Nat /\ FETCH_LIMIT >= 1
    /\ MaxEdits \in Nat /\ LongAgo \in Nat /\ LongAgo = CACHE_TTL + FETCH_LIMIT
BY QuotaConstants, WebhookConstants DEF LongAgo

LEMMA Sequences ==
    ASSUME NEW S, NEW s \in Seq(S), s # <<>>
    PROVE  Head(s) \in S /\ Tail(s) \in Seq(S) /\ Tail(s) # s
<1>1. Len(s) \in Nat
  OBVIOUS
<1>2. Len(Tail(s)) = Len(s) - 1
  BY HeadTailProperties
<1>3. ASSUME Tail(s) = s PROVE FALSE
  <2>1. Len(Tail(s)) = Len(s)
    BY <1>3, Zenon
  <2> QED
    BY <1>1, <1>2, <2>1
<1> QED
  BY <1>3, HeadTailProperties

LEMMA Nobodies == /\ Nobody \in [Users -> Roles] /\ ~(NoMapping.age < CACHE_TTL)
                  /\ NoMapping \in [age : 0 .. CACHE_TTL, roles : [Users -> Roles]]
BY Limits DEF Nobody, NoMapping, Roles

LEMMA InitInv == Init => IInv
<1> SUFFICES ASSUME Init PROVE IInv
  OBVIOUS
<1> USE Limits DEF Init
<1>1. QuotaInv
  <2>1. slow \in BOOLEAN
    BY Zenon DEF QuotaInit
  <2>2. Polling = {}
    BY DEF QuotaInit, Polling
  <2> QED
    BY <2>1, <2>2 DEF QuotaInv, QuotaInit, QuotaTypeOK
<1>2. FlowInv
  BY DEF FlowInv, At
<1>3. UserInv
  <2>1. since \in [Users -> [Roles -> 0 .. LongAgo]] /\ \A u \in Users : since[u][roles[u]] = 0
    OBVIOUS
  <2>2. mapping \in [age : 0 .. CACHE_TTL, roles : [Users -> Roles]] /\ ~Known
    BY Nobodies DEF Known
  <2> QED
    BY <2>1, <2>2, Nobodies DEF UserInv
<1>4. PollInv
  BY DEF PollInv, QuotaInit
<1> QED
  BY <1>1, <1>2, <1>3, <1>4 DEF IInv

----------------------------------------------------------------------------
(* What a step of a request may be.                                        *)

Ends(r) == \E kind \in Kinds : Conclude(r, kind)
GoesOn(r) ==
    /\ pc' = [pc EXCEPT ![r] = "handling"]
    /\ ForgetLookup(r)
    /\ Silent
    /\ UNCHANGED <<quotaVars, users, batch, response>>

(* The user mapping afterwards. *)
Entry(r) ==
    \/ mapping' \in {mapping, NoMapping}
    \/ pc[r] = "read" /\ mapping' = [age |-> 0, roles |-> found[r]]

LEMMA Decided ==
    ASSUME NEW r, NEW m, NEW entry, Decide(r, m, entry)
    PROVE  (Ends(r) \/ GoesOn(r)) /\ mapping' \in {entry, NoMapping}
<1>1. CASE m[Head(batch[r]).user] = "none"
  BY <1>1 DEF Decide, Ends, Kinds
<1>2. CASE m[Head(batch[r]).user] = "user" /\ Command(r) \in Admin
  BY <1>2 DEF Decide, Ends, Kinds
<1>3. CASE m[Head(batch[r]).user] = "admin" /\ Command(r) \in Clearing
  BY <1>3 DEF Decide, Ends, Kinds
<1>4. CASE /\ m[Head(batch[r]).user] # "none"
           /\ ~(m[Head(batch[r]).user] = "user" /\ Command(r) \in Admin)
           /\ ~(m[Head(batch[r]).user] = "admin" /\ Command(r) \in Clearing)
  BY <1>4 DEF Decide, GoesOn
<1> QED
  BY <1>1, <1>2, <1>3, <1>4

LEMMA Steps ==
    ASSUME FlowInv, NEW r \in Requests, RequestStep(r)
    PROVE  \/ Skip(r) \/ Finish(r) \/ LookupMiss(r) \/ ReadUsers(r) \/ PollStep(r)
           \/ PollDone(r)
           \/ /\ At(r) /\ pc[r] \notin {"new", "polling"} /\ Entry(r)
              /\ Ends(r) \/ GoesOn(r)
<1>1. CASE AnswerOpen(r)
  BY <1>1 DEF AnswerOpen, Handling, At, Entry, Ends, Kinds
<1>2. CASE LookupHit(r)
  BY <1>2, Decided DEF LookupHit, Handling, At, Entry
<1>3. CASE LookupDone(r)
  <2>1. pc[r] = "read" /\ At(r)
    BY <1>3 DEF LookupDone, FlowInv
  <2> QED
    BY <1>3, <2>1, Decided DEF LookupDone, Entry
<1>4. CASE Fail(r)
  <2>1. At(r)
    BY <1>4 DEF Fail, FlowInv
  <2> QED
    BY <1>4, <2>1 DEF Fail, Entry, Ends, Kinds
<1>5. CASE HandlerAnswers(r)
  <2>1. At(r)
    BY <1>5 DEF HandlerAnswers, FlowInv
  <2> QED
    BY <1>5, <2>1 DEF HandlerAnswers, Entry, Ends, Kinds
<1> QED
  BY <1>1, <1>2, <1>3, <1>4, <1>5 DEF RequestStep

----------------------------------------------------------------------------
(* The quota check.                                                        *)

LEMMA QuotaSteps ==
    ASSUME FlowInv, [Next]_vars
    PROVE  \/ UNCHANGED quotaVars
           \/ \E r \in Requests :
                (~Throttled /\ StartPoll(r)) \/ ReadUsage(r) \/ ReadLimit(r) \/ PollFails(r)
           \/ Consume \/ QuotaTick
<1>1. ASSUME NEW r \in Requests, RequestStep(r)
      PROVE  \/ UNCHANGED quotaVars
             \/ (~Throttled /\ StartPoll(r)) \/ ReadUsage(r) \/ ReadLimit(r) \/ PollFails(r)
  <2>1. CASE Ends(r)
    BY <2>1 DEF Ends, Conclude
  <2>2. CASE GoesOn(r)
    BY <2>2 DEF GoesOn
  <2>3. CASE Skip(r) \/ Finish(r) \/ LookupMiss(r) \/ ReadUsers(r)
    BY <2>3 DEF Skip, Finish, LookupMiss, ReadUsers
  <2>4. CASE PollStep(r) \/ PollDone(r)
    BY <2>4 DEF PollStep, PollDone
  <2> QED
    BY <1>1, <2>1, <2>2, <2>3, <2>4, Steps
<1>2. ASSUME NEW r \in Requests, Arrive(r) PROVE UNCHANGED quotaVars
  BY <1>2 DEF Arrive
<1>3. CASE EditUsers
  BY <1>3 DEF EditUsers
<1>4. CASE ConsumeQuota
  BY <1>4 DEF ConsumeQuota
<1>5. CASE Tick
  BY <1>5 DEF Tick
<1>6. CASE UNCHANGED vars
  BY <1>6 DEF vars
<1> QED
  BY <1>1, <1>2, <1>3, <1>4, <1>5, <1>6 DEF Next

LEMMA LowGrows ==
    ASSUME NEW m \in Nat, NEW n \in Nat, m <= n, IsLow(m)
    PROVE  IsLow(n)
BY Limits DEF IsLow

LEMMA QuotaKept == QuotaInv /\ FlowInv /\ [Next]_vars => QuotaInv'
<1> SUFFICES ASSUME QuotaInv, FlowInv, [Next]_vars PROVE QuotaInv'
  OBVIOUS
<1> USE Limits
<1>0. /\ QuotaTypeOK /\ used \in Nat /\ checked \in Nat /\ lowFor \in Nat
      /\ \A r \in Requests : seen[r] \in Nat
  BY DEF QuotaInv, QuotaTypeOK
<1>1. CASE UNCHANGED quotaVars
  BY <1>1 DEF QuotaInv, QuotaTypeOK, quotaVars, Polling, IsLow
<1>2. ASSUME NEW r \in Requests, ~Throttled, StartPoll(r) PROVE QuotaInv'
  <2>1. checked = INTERVAL /\ checked' = 0 /\ poll' = [poll EXCEPT ![r] = "usage"]
        /\ UNCHANGED <<status, seen, used, lowFor, slow>>
    BY <1>0, <1>2 DEF StartPoll, Throttled, QuotaTypeOK
  <2>2. ~slow => Polling = {}
    BY <1>0, <2>1 DEF QuotaInv
  <2>3. Polling' # {} /\ (~slow => \A q \in Requests : poll'[q] # "limit")
    BY <1>0, <2>1, <2>2 DEF Polling, QuotaTypeOK
  <2>4. QuotaTypeOK'
    BY <1>0, <2>1 DEF QuotaTypeOK
  <2>5. \A n : IsLow(n)' = IsLow(n)
    BY DEF IsLow
  <2> QED
    BY <1>0, <2>1, <2>3, <2>4 DEF QuotaInv, IsLow
<1>3. ASSUME NEW r \in Requests, ReadUsage(r) PROVE QuotaInv'
  <2>1. /\ poll[r] = "usage" /\ poll' = [poll EXCEPT ![r] = "limit"]
        /\ seen' = [seen EXCEPT ![r] = used]
        /\ UNCHANGED <<checked, status, used, lowFor, slow>>
    BY <1>3 DEF ReadUsage
  <2>2. Polling # {} /\ Polling' # {}
    BY <1>0, <2>1 DEF Polling, QuotaTypeOK
  <2>3. QuotaTypeOK'
    BY <1>0, <2>1 DEF QuotaTypeOK
  <2>4. ~slow => \A q \in Requests :
                    poll'[q] = "limit" /\ ~IsLow(seen'[q]) => lowFor <= checked
    <3> SUFFICES ASSUME ~slow, NEW q \in Requests, poll'[q] = "limit", ~IsLow(seen'[q])
                 PROVE  lowFor <= checked
      OBVIOUS
    <3>1. CASE q = r
      BY <1>0, <2>1, <3>1 DEF QuotaInv, QuotaTypeOK
    <3>2. CASE q # r
      BY <1>0, <2>1, <3>2 DEF QuotaInv, QuotaTypeOK
    <3> QED
      BY <3>1, <3>2
  <2>5. \A q \in Requests : seen'[q] <= used
    BY <1>0, <2>1 DEF QuotaInv, QuotaTypeOK
  <2> QED
    BY <1>0, <2>1, <2>2, <2>3, <2>4, <2>5 DEF QuotaInv, IsLow
<1>4. ASSUME NEW r \in Requests, NEW s \in {"none", "low", "ok"}, EndPoll(r, s),
             poll[r] # "none", s = "low" => IsLow(used),
             s = "ok" /\ ~slow => lowFor <= checked
      PROVE  QuotaInv'
  <2>1. /\ status' = s /\ poll' = [poll EXCEPT ![r] = "none"]
        /\ seen' = [seen EXCEPT ![r] = 0]
        /\ UNCHANGED <<checked, used, lowFor, slow>>
    BY <1>4 DEF EndPoll
  <2>2. Polling # {}
    BY <1>4 DEF Polling
  <2>3. QuotaTypeOK'
    BY <1>0, <2>1 DEF QuotaTypeOK
  <2>4. \A q \in Requests : seen'[q] <= used
    BY <1>0, <2>1 DEF QuotaInv, QuotaTypeOK
  <2>5. ~slow => \A q \in Requests :
                    poll'[q] = "limit" /\ ~IsLow(seen'[q]) => lowFor <= checked
    BY <1>0, <2>1 DEF QuotaInv, QuotaTypeOK
  <2> QED
    BY <1>4, <2>1, <2>2, <2>3, <2>4, <2>5 DEF QuotaInv, IsLow
<1>5. ASSUME NEW r \in Requests, ReadLimit(r) PROVE QuotaInv'
  <2>1. poll[r] = "limit"
    BY <1>5 DEF ReadLimit
  <2>2. CASE IsLow(seen[r])
    <3>1. EndPoll(r, "low")
      BY <1>5, <2>2 DEF ReadLimit
    <3>2. IsLow(used)
      BY <1>0, <2>2, LowGrows DEF QuotaInv
    <3> QED
      BY <1>4, <2>1, <3>1, <3>2
  <2>3. CASE ~IsLow(seen[r])
    <3>1. EndPoll(r, "ok")
      BY <1>5, <2>3 DEF ReadLimit
    <3>2. ~slow => lowFor <= checked
      BY <2>1, <2>3 DEF QuotaInv
    <3> QED
      BY <1>4, <2>1, <3>1, <3>2
  <2> QED
    BY <2>2, <2>3
<1>6. ASSUME NEW r \in Requests, PollFails(r) PROVE QuotaInv'
  BY <1>4, <1>6 DEF PollFails
<1>7. CASE Consume
  <2>1. /\ used < MaxUsed /\ used' = used + 1
        /\ UNCHANGED <<checked, status, poll, seen, lowFor, slow>>
    BY <1>7 DEF Consume
  <2>2. QuotaTypeOK'
    BY <1>0, <2>1 DEF QuotaTypeOK
  <2>3. IsLow(used) => IsLow(used')
    BY <1>0, <2>1, LowGrows
  <2>4. \A q \in Requests : seen'[q] <= used'
    BY <1>0, <2>1 DEF QuotaInv
  <2>5. Polling' = Polling
    BY <2>1 DEF Polling
  <2> QED
    BY <1>0, <2>1, <2>2, <2>3, <2>4, <2>5 DEF QuotaInv, IsLow
<1>8. CASE QuotaTick
  <2>1. /\ checked' = UpTo(INTERVAL, checked + 1)
        /\ lowFor' = IF IsLow(used) THEN UpTo(INTERVAL, lowFor + 1) ELSE 0
        /\ UNCHANGED <<status, poll, seen, used>>
    BY <1>8 DEF QuotaTick
  <2>2. slow' = (slow \/ (Polling # {} /\ checked + 1 >= INTERVAL))
    BY <1>8 DEF QuotaTick
  <2>3. checked \in 0 .. INTERVAL /\ lowFor \in 0 .. INTERVAL
    BY <1>0 DEF QuotaTypeOK
  <2>4. checked' \in 0 .. INTERVAL /\ lowFor' \in 0 .. INTERVAL
    BY <2>1, <2>3 DEF UpTo
  <2>5. lowFor <= checked => lowFor' <= checked'
    BY <2>1, <2>3 DEF UpTo
  <2>6. slow' \in BOOLEAN
    BY <1>0, <2>2, Zenon DEF QuotaTypeOK
  <2>7. ~slow' => ~slow /\ (Polling # {} => checked + 1 < INTERVAL)
    <3>1. ~(checked + 1 >= INTERVAL) => checked + 1 < INTERVAL
      BY <2>3
    <3> QED
      BY <2>2, <3>1, Zenon
  <2>8. Polling' = Polling
    BY <2>1 DEF Polling
  <2>9. ~slow' /\ Polling' # {} => checked' < INTERVAL
    BY <2>1, <2>3, <2>7, <2>8 DEF UpTo
  <2>10. QuotaTypeOK'
    BY <1>0, <2>1, <2>4, <2>6 DEF QuotaTypeOK
  <2>11. ~IsLow(used) => lowFor' = 0
    BY <2>1
  <2> QED
    BY <1>0, <2>1, <2>5, <2>7, <2>8, <2>9, <2>10, <2>11 DEF QuotaInv, IsLow
<1> QED
  BY <1>1, <1>2, <1>3, <1>5, <1>6, <1>7, <1>8, QuotaSteps
----------------------------------------------------------------------------
(* Where each request is.                                                  *)

(* FlowInv, the reply apart, of one request. *)
Places == {"new", "next", "lookup", "read", "handling", "polling", "done"}
Placed(place, b, answer) ==
    /\ place \in Places /\ b \in Seq(Events) /\ answer \in Kinds \cup {"none"}
    /\ place = "new" => b = <<>>
    /\ place \in {"lookup", "read", "handling", "polling"} => b # <<>> /\ IsText(Head(b))

(* A step of r leaves the others where they are. *)
LEMMA Moved ==
    ASSUME FlowInv, NEW r \in Requests, NEW place, NEW b, NEW answer,
           Placed(place, b, answer), reply' \in Kinds \cup {"none"},
           pc' = [pc EXCEPT ![r] = place], batch' = [batch EXCEPT ![r] = b],
           response' = [response EXCEPT ![r] = answer]
    PROVE  FlowInv'
<1>1. /\ pc' \in [Requests -> Places] /\ batch' \in [Requests -> Seq(Events)]
      /\ response' \in [Requests -> Kinds \cup {"none"}]
  BY DEF FlowInv, Placed, Places
<1>2. ASSUME NEW q \in Requests
      PROVE  /\ pc'[q] = "new" => batch'[q] = <<>>
             /\ pc'[q] \in {"lookup", "read", "handling", "polling"} => At(q)'
  <2>1. CASE q = r
    BY <2>1 DEF FlowInv, Placed, At, IsText
  <2>2. CASE q # r
    <3>1. pc'[q] = pc[q] /\ batch'[q] = batch[q]
      BY <2>2 DEF FlowInv
    <3> QED
      BY <3>1 DEF FlowInv, At, IsText
  <2> QED
    BY <2>1, <2>2
<1> QED
  BY <1>1, <1>2 DEF FlowInv, Places

LEMMA FlowKept == FlowInv /\ PollInv /\ [Next]_vars => FlowInv'
<1> SUFFICES ASSUME FlowInv, PollInv, [Next]_vars PROVE FlowInv'
  OBVIOUS
<1>1. /\ pc \in [Requests -> Places] /\ batch \in [Requests -> Seq(Events)]
      /\ response \in [Requests -> Kinds \cup {"none"}]
  BY DEF FlowInv, Places
<1>2. ASSUME NEW r \in Requests
      PROVE  /\ pc = [pc EXCEPT ![r] = pc[r]] /\ batch = [batch EXCEPT ![r] = batch[r]]
             /\ response = [response EXCEPT ![r] = response[r]]
             /\ Placed(pc[r], batch[r], response[r])
  BY <1>1 DEF FlowInv, Placed, At
<1>3. ASSUME NEW r \in Requests, batch[r] # <<>> PROVE Tail(batch[r]) \in Seq(Events)
  BY <1>1, <1>3, Sequences
<1>4. ASSUME NEW r \in Requests, Arrive(r) PROVE FlowInv'
  <2>1. PICK b \in Batches : batch' = [batch EXCEPT ![r] = b]
    BY <1>4 DEF Arrive
  <2>2. Placed("next", b, response[r])
    BY <1>2, WebhookConstants DEF Placed, Places
  <2>3. /\ pc' = [pc EXCEPT ![r] = "next"] /\ response' = [response EXCEPT ![r] = response[r]]
        /\ reply' \in Kinds \cup {"none"}
    BY <1>2, <1>4 DEF Arrive, Silent
  <2> QED
    BY <2>1, <2>2, <2>3, Moved
<1>5. ASSUME NEW r \in Requests, Skip(r) PROVE FlowInv'
  <2>1. /\ pc[r] = "next" /\ batch[r] # <<>> /\ batch' = [batch EXCEPT ![r] = Tail(batch[r])]
        /\ pc' = [pc EXCEPT ![r] = pc[r]] /\ response' = [response EXCEPT ![r] = response[r]]
        /\ reply' \in Kinds \cup {"none"}
    BY <1>2, <1>5 DEF Skip, Silent
  <2>2. Placed(pc[r], Tail(batch[r]), response[r])
    BY <1>2, <1>3, <2>1 DEF Placed
  <2> QED
    BY <2>1, <2>2, Moved
<1>6. ASSUME NEW r \in Requests, NEW place \in {"next", "done", "lookup", "read", "handling"},
             pc' = [pc EXCEPT ![r] = place], UNCHANGED <<batch, response>>, Silent,
             place \in {"next", "done"} \/ At(r)
      PROVE  FlowInv'
  <2>1. Placed(place, batch[r], response[r])
    BY <1>2, <1>6 DEF Placed, Places, At
  <2>2. /\ batch' = [batch EXCEPT ![r] = batch[r]] /\ response' = [response EXCEPT ![r] = response[r]]
        /\ reply' \in Kinds \cup {"none"}
    BY <1>2, <1>6 DEF Silent
  <2>3. pc' = [pc EXCEPT ![r] = place]
    BY <1>6
  <2> QED
    BY <2>1, <2>2, <2>3, Moved
<1>7. ASSUME NEW r \in Requests, Finish(r) PROVE FlowInv'
  BY <1>6, <1>7 DEF Finish
<1>8. ASSUME NEW r \in Requests, LookupMiss(r) PROVE FlowInv'
  BY <1>6, <1>8 DEF LookupMiss, Handling, At
<1>9. ASSUME NEW r \in Requests, ReadUsers(r) PROVE FlowInv'
  <2>1. At(r)
    BY <1>9 DEF ReadUsers, FlowInv
  <2> QED
    BY <1>6, <1>9, <2>1 DEF ReadUsers
<1>10. ASSUME NEW r \in Requests, GoesOn(r), At(r) PROVE FlowInv'
  BY <1>6, <1>10 DEF GoesOn
<1>11. ASSUME NEW r \in Requests, NEW kind \in Kinds \cup {"none"}, Reply(r, kind), At(r)
       PROVE  FlowInv'
  <2>1. Placed("next", Tail(batch[r]), "none")
    BY <1>3, <1>11 DEF Placed, Places, At
  <2> QED
    BY <1>11, <2>1, Moved DEF Reply
<1>12. ASSUME NEW r \in Requests, Ends(r), At(r) PROVE FlowInv'
  <2>1. PICK kind \in Kinds : Conclude(r, kind)
    BY <1>12 DEF Ends
  <2>2. CASE Throttled
    BY <1>11, <1>12, <2>1, <2>2 DEF Conclude
  <2>3. CASE ~Throttled
    <3>1. /\ pc' = [pc EXCEPT ![r] = "polling"] /\ response' = [response EXCEPT ![r] = kind]
          /\ batch' = [batch EXCEPT ![r] = batch[r]] /\ reply' \in Kinds \cup {"none"}
      BY <1>2, <2>1, <2>3 DEF Conclude, Silent
    <3>2. Placed("polling", batch[r], kind)
      BY <1>2, <1>12 DEF Placed, Places, At
    <3> QED
      BY <3>1, <3>2, Moved
  <2> QED
    BY <2>2, <2>3
<1>13. ASSUME NEW r \in Requests, PollDone(r) PROVE FlowInv'
  <2>1. At(r) /\ response[r] \in Kinds \cup {"none"}
    BY <1>13 DEF FlowInv, PollInv, PollDone, ReadLimit, PollFails
  <2> QED
    BY <1>11, <1>13, <2>1 DEF PollDone
<1>14. CASE UNCHANGED <<pc, batch, response>> /\ reply' \in Kinds \cup {"none"}
  BY <1>14 DEF FlowInv, At, IsText
<1>15. ASSUME NEW r \in Requests, RequestStep(r) PROVE FlowInv'
  <2>1. CASE PollStep(r)
    BY <1>14, <2>1 DEF PollStep, Silent
  <2> QED
    BY <1>5, <1>7, <1>8, <1>9, <1>10, <1>12, <1>13, <1>15, <2>1, Steps
<1>16. CASE EditUsers \/ ConsumeQuota \/ Tick
  BY <1>14, <1>16 DEF EditUsers, ConsumeQuota, Tick, Silent
<1>17. CASE UNCHANGED vars
  BY <1>14, <1>17 DEF vars, FlowInv
<1> QED
  BY <1>4, <1>15, <1>16, <1>17 DEF Next

LEMMA PollKept == QuotaTypeOK /\ FlowInv /\ PollInv /\ [Next]_vars => PollInv'
<1> SUFFICES ASSUME QuotaTypeOK, FlowInv, PollInv, [Next]_vars PROVE PollInv'
  OBVIOUS
<1>1. DOMAIN pc = Requests /\ DOMAIN poll = Requests
  BY DEF QuotaTypeOK, FlowInv
<1>2. ASSUME NEW r \in Requests, NEW place, NEW p, p # "none" => place = "polling",
             pc' = [pc EXCEPT ![r] = place], poll' = [poll EXCEPT ![r] = p]
      PROVE  PollInv'
  BY <1>1, <1>2 DEF PollInv, QuotaTypeOK, FlowInv
<1>3. ASSUME NEW r \in Requests, NEW place, pc[r] # "polling",
             pc' = [pc EXCEPT ![r] = place], UNCHANGED quotaVars
      PROVE  PollInv'
  BY <1>1, <1>3 DEF PollInv, QuotaTypeOK, FlowInv, quotaVars
<1>4. CASE UNCHANGED <<pc, poll>>
  BY <1>4 DEF PollInv
<1>5. ASSUME NEW r \in Requests, RequestStep(r) PROVE PollInv'
  <2>1. CASE Skip(r)
    BY <1>4, <2>1 DEF Skip, quotaVars
  <2>2. CASE Finish(r) \/ LookupMiss(r) \/ ReadUsers(r)
    BY <1>3, <2>2 DEF Finish, LookupMiss, Handling, ReadUsers
  <2>3. CASE PollStep(r)
    <3>1. poll[r] # "none" /\ poll' = [poll EXCEPT ![r] = "limit"] /\ pc' = pc
      BY <2>3 DEF PollStep, ReadUsage
    <3> QED
      BY <1>1, <3>1 DEF PollInv, QuotaTypeOK
  <2>4. CASE PollDone(r)
    <3>1. pc' = [pc EXCEPT ![r] = "next"] /\ poll' = [poll EXCEPT ![r] = "none"]
      BY <2>4 DEF PollDone, Reply, ReadLimit, PollFails, EndPoll
    <3> QED
      BY <1>2, <3>1
  <2>5. CASE GoesOn(r) /\ pc[r] # "polling"
    BY <1>3, <2>5 DEF GoesOn
  <2>6. CASE Ends(r) /\ pc[r] # "polling"
    <3>1. PICK kind \in Kinds : Conclude(r, kind)
      BY <2>6 DEF Ends
    <3>2. CASE Throttled
      BY <1>3, <2>6, <3>1, <3>2 DEF Conclude, Reply
    <3>3. CASE ~Throttled
      <4>1. pc' = [pc EXCEPT ![r] = "polling"] /\ poll' = [poll EXCEPT ![r] = "usage"]
        BY <3>1, <3>3 DEF Conclude, StartPoll
      <4> QED
        BY <1>2, <4>1
    <3> QED
      BY <3>2, <3>3
  <2> QED
    BY <1>5, <2>1, <2>2, <2>3, <2>4, <2>5, <2>6, Steps
<1>6. ASSUME NEW r \in Requests, Arrive(r) PROVE PollInv'
  BY <1>3, <1>6 DEF Arrive
<1>7. CASE EditUsers \/ ConsumeQuota \/ Tick
  BY <1>4, <1>7 DEF EditUsers, ConsumeQuota, Consume, Tick, QuotaTick, quotaVars
<1>8. CASE UNCHANGED vars
  BY <1>4, <1>8 DEF vars, quotaVars
<1> QED
  BY <1>5, <1>6, <1>7, <1>8 DEF Next

----------------------------------------------------------------------------
(* The roles in the cache and in the fetches.                              *)

LEMMA UserKept == FlowInv /\ UserInv /\ [Next]_vars => UserInv'
<1> SUFFICES ASSUME FlowInv, UserInv, [Next]_vars PROVE UserInv'
  OBVIOUS
<1> USE Limits
<1>1. /\ roles \in [Users -> Roles] /\ since \in [Users -> [Roles -> 0 .. LongAgo]]
      /\ edits \in 0 .. MaxEdits
      /\ mapping \in [age : 0 .. CACHE_TTL, roles : [Users -> Roles]]
      /\ spent \in [Requests -> 0 .. FETCH_LIMIT] /\ found \in [Requests -> [Users -> Roles]]
      /\ pc \in [Requests -> Places]
  BY DEF UserInv, FlowInv, Places
(* A step of r, whatever it does to its own lookup. *)
<1>2. ASSUME NEW r \in Requests, NEW place, NEW n \in 0 .. FETCH_LIMIT,
             NEW m \in [Users -> Roles], UNCHANGED users, Entry(r),
             pc' = [pc EXCEPT ![r] = place], spent' = [spent EXCEPT ![r] = n],
             found' = [found EXCEPT ![r] = m],
             place = "read" => \A u \in Users : since[u][m[u]] <= n
      PROVE  UserInv'
  <2>1. UNCHANGED <<roles, since, edits>>
    BY <1>2 DEF users
  <2>2. /\ spent' \in [Requests -> 0 .. FETCH_LIMIT]
        /\ found' \in [Requests -> [Users -> Roles]]
    BY <1>1, <1>2
  <2>3. ASSUME NEW u \in Users, NEW q \in Requests, pc'[q] = "read"
        PROVE  since[u][found'[q][u]] <= spent'[q]
    <3>1. CASE q = r
      BY <1>1, <1>2, <2>3, <3>1
    <3>2. CASE q # r
      <4>1. pc[q] = "read" /\ found'[q] = found[q] /\ spent'[q] = spent[q]
        BY <1>1, <1>2, <2>3, <3>2
      <4> QED
        BY <4>1 DEF UserInv
    <3> QED
      BY <3>1, <3>2
  <2>4. /\ mapping' \in [age : 0 .. CACHE_TTL, roles : [Users -> Roles]]
        /\ Known' => \A u \in Users : since[u][mapping'.roles[u]] <= mapping'.age + FETCH_LIMIT
    <3>1. CASE mapping' = mapping
      BY <1>1, <3>1 DEF UserInv, Known
    <3>2. CASE mapping' = NoMapping
      BY <3>2, Nobodies DEF Known
    <3>3. CASE pc[r] = "read" /\ mapping' = [age |-> 0, roles |-> found[r]]
      <4>1. \A u \in Users : since[u][found[r][u]] <= spent[r]
        BY <3>3 DEF UserInv
      <4>2. found[r] \in [Users -> Roles] /\ spent[r] \in 0 .. FETCH_LIMIT
        BY <1>1
      <4>3. \A u \in Users : since[u][found[r][u]] \in Nat
        BY <1>1, <4>2
      <4> QED
        BY <3>3, <4>1, <4>2, <4>3
    <3> QED
      BY <1>2, <3>1, <3>2, <3>3 DEF Entry
  <2> QED
    BY <1>1, <2>1, <2>2, <2>3, <2>4 DEF UserInv
<1>3. ASSUME NEW r \in Requests
      PROVE  /\ pc = [pc EXCEPT ![r] = pc[r]] /\ spent = [spent EXCEPT ![r] = spent[r]]
             /\ found = [found EXCEPT ![r] = found[r]]
             /\ spent[r] \in 0 .. FETCH_LIMIT /\ found[r] \in [Users -> Roles]
  BY <1>1
<1>4. ASSUME NEW r \in Requests, NEW place, place # "read", pc' = [pc EXCEPT ![r] = place],
             UNCHANGED <<users, mapping, spent, found>>
      PROVE  UserInv'
  <2>1. /\ UNCHANGED users /\ Entry(r) /\ spent' = [spent EXCEPT ![r] = spent[r]]
        /\ found' = [found EXCEPT ![r] = found[r]]
    BY <1>3, <1>4 DEF Entry
  <2> QED
    BY <1>2, <1>3, <1>4, <2>1
<1>5. ASSUME NEW r \in Requests, NEW place, place # "read", pc' = [pc EXCEPT ![r] = place],
             UNCHANGED users, Entry(r), ForgetLookup(r)
      PROVE  UserInv'
  <2>1. /\ UNCHANGED users /\ Entry(r) /\ pc' = [pc EXCEPT ![r] = place]
        /\ spent' = [spent EXCEPT ![r] = 0] /\ found' = [found EXCEPT ![r] = Nobody]
    BY <1>5 DEF ForgetLookup
  <2>2. 0 \in 0 .. FETCH_LIMIT /\ Nobody \in [Users -> Roles] /\ place # "read"
    BY <1>5, Nobodies
  <2> QED
    BY <1>2, <2>1, <2>2
<1>6. CASE UNCHANGED <<users, mapping, pc, spent, found>>
  BY <1>6 DEF UserInv, users, Known
<1>7. ASSUME NEW r \in Requests, RequestStep(r) PROVE UserInv'
  <2>1. CASE Skip(r)
    BY <1>6, <2>1 DEF Skip
  <2>2. CASE Finish(r)
    BY <1>4, <2>2 DEF Finish
  <2>3. CASE LookupMiss(r)
    BY <1>4, <2>3 DEF LookupMiss
  <2>4. CASE ReadUsers(r)
    <3>1. /\ pc' = [pc EXCEPT ![r] = "read"] /\ found' = [found EXCEPT ![r] = roles]
          /\ UNCHANGED users /\ Entry(r) /\ spent' = [spent EXCEPT ![r] = spent[r]]
      BY <1>3, <2>4 DEF ReadUsers, Entry
    <3>2. \A u \in Users : since[u][roles[u]] <= spent[r]
      BY <1>3 DEF UserInv
    <3> QED
      BY <1>1, <1>2, <1>3, <3>1, <3>2
  <2>5. CASE PollStep(r)
    BY <1>6, <2>5 DEF PollStep
  <2>6. CASE PollDone(r)
    BY <1>4, <2>6 DEF PollDone, Reply
  <2>7. CASE Entry(r) /\ GoesOn(r)
    BY <1>5, <2>7 DEF GoesOn
  <2>8. CASE Entry(r) /\ Ends(r)
    <3>1. PICK kind \in Kinds : Conclude(r, kind)
      BY <2>8 DEF Ends
    <3>2. CASE Throttled
      BY <1>5, <2>8, <3>1, <3>2 DEF Conclude, Reply
    <3>3. CASE ~Throttled
      BY <1>5, <2>8, <3>1, <3>3 DEF Conclude
    <3> QED
      BY <3>2, <3>3
  <2> QED
    BY <1>7, <2>1, <2>2, <2>3, <2>4, <2>5, <2>6, <2>7, <2>8, Steps
<1>8. ASSUME NEW r \in Requests, Arrive(r) PROVE UserInv'
  BY <1>4, <1>8 DEF Arrive
<1>9. CASE EditUsers
  <2>1. PICK u \in Users, role \in Roles :
            /\ roles' = [roles EXCEPT ![u] = role] /\ since' = [since EXCEPT ![u][role] = 0]
    BY <1>9 DEF EditUsers
  <2>2. /\ edits < MaxEdits /\ edits' = edits + 1 /\ UNCHANGED <<mapping, pc, spent, found>>
    BY <1>9 DEF EditUsers
  <2>3. since' \in [Users -> [Roles -> 0 .. LongAgo]] /\ roles' \in [Users -> Roles]
    BY <1>1, <2>1
  <2>4. ASSUME NEW v \in Users, NEW x \in Roles
        PROVE  since'[v][x] <= since[v][x] /\ since[v][x] \in Nat /\ since'[v][x] \in Nat
    BY <1>1, <2>1
  <2>5. \A v \in Users : since'[v][roles'[v]] = 0
    BY <1>1, <2>1 DEF UserInv
  <2>6. ASSUME NEW v \in Users, NEW q \in Requests, pc[q] = "read"
        PROVE  since'[v][found[q][v]] <= spent[q]
    <3>1. found[q][v] \in Roles /\ spent[q] \in Nat /\ since[v][found[q][v]] <= spent[q]
      BY <1>1, <2>6 DEF UserInv
    <3> QED
      BY <2>4, <3>1
  <2>7. ASSUME NEW v \in Users, Known
        PROVE  since'[v][mapping.roles[v]] <= mapping.age + FETCH_LIMIT
    <3>1. /\ mapping.roles[v] \in Roles /\ mapping.age \in Nat
          /\ since[v][mapping.roles[v]] <= mapping.age + FETCH_LIMIT
      BY <1>1, <2>7 DEF UserInv
    <3> QED
      BY <2>4, <3>1
  <2> QED
    BY <1>1, <2>2, <2>3, <2>5, <2>6, <2>7 DEF UserInv, Known
<1>10. CASE ConsumeQuota
  BY <1>6, <1>10 DEF ConsumeQuota
<1>11. CASE Tick
  <2>1. /\ \A r \in Requests : Fetching(r) => spent[r] < FETCH_LIMIT
        /\ since' = [u \in Users |-> [role \in Roles |->
                IF roles[u] = role THEN 0 ELSE UpTo(LongAgo, since[u][role] + 1)]]
        /\ mapping' = IF mapping.age + 1 < CACHE_TTL
                      THEN [age |-> mapping.age + 1, roles |-> mapping.roles] ELSE NoMapping
        /\ spent' = [r \in Requests |-> IF Fetching(r) THEN spent[r] + 1 ELSE 0]
        /\ UNCHANGED <<roles, edits, pc, found>>
    BY <1>11 DEF Tick
  <2>2. ASSUME NEW u \in Users, NEW x \in Roles
        PROVE  /\ since[u][x] \in Nat /\ since'[u][x] \in 0 .. LongAgo
               /\ since'[u][x] <= since[u][x] + 1
    BY <1>1, <2>1 DEF UpTo
  <2>3. since' \in [Users -> [Roles -> 0 .. LongAgo]]
    BY <2>1, <2>2
  <2>4. \A u \in Users : since'[u][roles[u]] = 0
    BY <1>1, <2>1
  <2>5. spent' \in [Requests -> 0 .. FETCH_LIMIT]
    BY <1>1, <2>1
  <2>6. ASSUME NEW u \in Users, NEW q \in Requests, pc[q] = "read"
        PROVE  since'[u][found[q][u]] <= spent'[q]
    <3>1. found[q][u] \in Roles /\ spent[q] \in Nat /\ since[u][found[q][u]] <= spent[q]
      BY <1>1, <2>6 DEF UserInv
    <3>2. spent'[q] = spent[q] + 1
      BY <2>1, <2>6 DEF Fetching
    <3> QED
      BY <2>2, <3>1, <3>2
  <2>7. /\ mapping' \in [age : 0 .. CACHE_TTL, roles : [Users -> Roles]]
        /\ mapping'.age < CACHE_TTL => \A u \in Users :
                since'[u][mapping'.roles[u]] <= mapping'.age + FETCH_LIMIT
    <3>1. CASE mapping.age + 1 < CACHE_TTL
      <4>1. /\ mapping'.age = mapping.age + 1 /\ mapping'.roles = mapping.roles
            /\ mapping.age \in Nat /\ mapping.roles \in [Users -> Roles] /\ Known
            /\ mapping' = [age |-> mapping.age + 1, roles |-> mapping.roles]
        BY <1>1, <2>1, <3>1 DEF Known
      <4>2. ASSUME NEW u \in Users
            PROVE  since'[u][mapping.roles[u]] <= mapping.age + 1 + FETCH_LIMIT
        <5>1. mapping.roles[u] \in Roles
              /\ since[u][mapping.roles[u]] <= mapping.age + FETCH_LIMIT
          BY <4>1 DEF UserInv
        <5> QED
          BY <2>2, <4>1, <5>1
      <4> QED
        BY <3>1, <4>1, <4>2
    <3>2. CASE ~(mapping.age + 1 < CACHE_TTL)
      BY <2>1, <3>2, Nobodies
    <3> QED
      BY <3>1, <3>2
  <2>8. roles' = roles /\ edits' = edits /\ pc' = pc /\ found' = found
    BY <2>1
  <2>9. \A u \in Users :
            /\ since'[u][roles'[u]] = 0
            /\ \A q \in Requests : pc'[q] = "read" => since'[u][found'[q][u]] <= spent'[q]
            /\ mapping'.age < CACHE_TTL =>
                    since'[u][mapping'.roles[u]] <= mapping'.age + FETCH_LIMIT
    BY <2>4, <2>6, <2>7, <2>8
  <2>10. /\ roles' \in [Users -> Roles] /\ edits' \in 0 .. MaxEdits
         /\ found' \in [Requests -> [Users -> Roles]]
    BY <1>1, <2>8
  <2> QED
    BY <2>3, <2>5, <2>7, <2>9, <2>10, Zenon DEF UserInv, Known
<1>12. CASE UNCHANGED vars
  BY <1>6, <1>12 DEF vars, users
<1> QED
  BY <1>7, <1>8, <1>9, <1>10, <1>11, <1>12 DEF Next

(* The quota check, the batches and the user mapping keep IInv, whatever   *)
(* the requests, edits and ticks do.                                       *)
THEOREM Invariance == Spec => []IInv
<1>1. IInv /\ [Next]_vars => IInv'
  <2>1. QuotaInv => QuotaTypeOK
    BY DEF QuotaInv
  <2> QED
    BY <2>1, QuotaKept, FlowKept, PollKept, UserKept DEF IInv
<1> QED
  BY <1>1, InitInv, PTL DEF Spec

(* The variables keep their types, the response among the kinds of reply.  *)
THEOREM TypeCorrect == Spec => []TypeOK
<1>1. IInv => TypeOK
  BY DEF IInv, QuotaInv, FlowInv, UserInv, TypeOK
<1> QED
  BY <1>1, Invariance, PTL

(* get_user and the handlers' checks: whatever is decided on a mapping is  *)
(* due to a role the sheet gave the user within CACHE_TTL + FETCH_LIMIT.   *)
THEOREM AccessIsTimely == Spec => AccessTimely
<1>1. ASSUME IInv, NEW r \in Requests, LookupHit(r) \/ LookupDone(r)
      PROVE  GotByLateRole(r)
  <2> DEFINE user == Head(batch[r]).user
  <2> USE Limits
  <2>1. /\ batch[r] \in Seq(Events) /\ pc[r] \in Places /\ At(r)
        /\ pc \in [Requests -> Places] /\ response \in [Requests -> Kinds \cup {"none"}]
    BY <1>1 DEF IInv, FlowInv, Places, LookupHit, LookupDone, Handling, At
  <2>2. user \in Users
    <3>1. Head(batch[r]) \in Events /\ Head(batch[r]) # Other
      BY <2>1, Sequences DEF At, IsText
    <3> QED
      BY <3>1 DEF Events
  <2>3. ASSUME NEW kind, kind # "served", Conclude(r, kind) PROVE Got(r) = kind
    <3>1. CASE Throttled
      <4>1. reply' = kind /\ pc'[r] = "next"
        BY <2>1, <2>3, <3>1 DEF Conclude, Reply
      <4> QED
        BY <4>1 DEF Got
    <3>2. CASE ~Throttled
      <4>1. response'[r] = kind /\ pc'[r] = "polling"
        BY <2>1, <2>3, <3>2 DEF Conclude
      <4> QED
        BY <4>1 DEF Got
    <3> QED
      BY <3>1, <3>2
  <2>4. ASSUME GoesOn(r) PROVE Got(r) = "served"
    BY <2>1, <2>4 DEF GoesOn, Got
  <2>5. ASSUME NEW m, NEW entry, Decide(r, m, entry)
        PROVE  Got(r) = Due(m[user], Command(r))
    <3>1. CASE m[user] = "none"
      BY <2>3, <2>5, <3>1 DEF Decide, Due
    <3>2. CASE m[user] = "user" /\ Command(r) \in Admin
      BY <2>3, <2>5, <3>2 DEF Decide, Due
    <3>3. CASE m[user] = "admin" /\ Command(r) \in Clearing
      BY <2>3, <2>5, <3>3 DEF Decide, Due
    <3>4. CASE /\ m[user] # "none" /\ ~(m[user] = "user" /\ Command(r) \in Admin)
               /\ ~(m[user] = "admin" /\ Command(r) \in Clearing)
      <4>1. GoesOn(r)
        BY <2>5, <3>4 DEF Decide, GoesOn
      <4>2. Due(m[user], Command(r)) = "served"
        BY <3>4 DEF Due
      <4> QED
        BY <2>4, <4>1, <4>2
    <3> QED
      BY <3>1, <3>2, <3>3, <3>4
  <2>6. ASSUME NEW m \in [Users -> Roles], NEW entry, Decide(r, m, entry),
               since[user][m[user]] < CACHE_TTL + FETCH_LIMIT
        PROVE  GotByLateRole(r)
    BY <2>2, <2>5, <2>6 DEF GotByLateRole
  <2>7. /\ since \in [Users -> [Roles -> 0 .. LongAgo]]
        /\ mapping \in [age : 0 .. CACHE_TTL, roles : [Users -> Roles]]
        /\ spent \in [Requests -> 0 .. FETCH_LIMIT] /\ found \in [Requests -> [Users -> Roles]]
    BY <1>1 DEF IInv, UserInv
  <2>8. CASE LookupHit(r)
    <3>1. Known /\ Decide(r, mapping.roles, mapping) /\ mapping.roles \in [Users -> Roles]
      BY <2>7, <2>8 DEF LookupHit
    <3>2. since[user][mapping.roles[user]] <= mapping.age + FETCH_LIMIT
      BY <1>1, <2>2, <3>1 DEF IInv, UserInv
    <3>3. since[user][mapping.roles[user]] < CACHE_TTL + FETCH_LIMIT
      BY <2>2, <2>7, <3>1, <3>2 DEF Known
    <3> QED
      BY <2>6, <3>1, <3>3
  <2>9. CASE LookupDone(r)
    <3>1. /\ pc[r] = "read" /\ Decide(r, found[r], [age |-> 0, roles |-> found[r]])
          /\ found[r] \in [Users -> Roles]
      BY <2>7, <2>9 DEF LookupDone
    <3>2. since[user][found[r][user]] <= spent[r]
      BY <1>1, <2>2, <3>1 DEF IInv, UserInv
    <3>3. since[user][found[r][user]] < CACHE_TTL + FETCH_LIMIT
      BY <2>2, <2>7, <3>1, <3>2
    <3> QED
      BY <2>6, <3>1, <3>3
  <2> QED
    BY <1>1, <2>8, <2>9
<1>2. IInv /\ [Next]_vars =>
        [\A r \in Requests : LookupHit(r) \/ LookupDone(r) => GotByLateRole(r)]_vars
  BY <1>1
<1> QED
  BY <1>2, Invariance, PTL DEF Spec, AccessTimely

(* The warning of main.py lines 238-241: unless a poll has outlasted the   *)
(* interval, or is under way, it is neither false nor late by an interval. *)
THEOREM WarningIsTimely == Spec => WarnedInTime
<1>1. ASSUME IInv, IInv', [Next]_vars, NEW r \in Requests, Answered(r), ~slow', Polling' = {}
      PROVE  Timely(status)'
  <2> USE Limits
  <2>1. /\ FlowInv /\ QuotaInv /\ QuotaInv' /\ checked \in Nat
        /\ batch \in [Requests -> Seq(Events)]
    BY <1>1 DEF IInv, FlowInv, QuotaInv, QuotaTypeOK
  <2>2. pc[r] # "new" /\ batch'[r] # batch[r]
    <3>1. batch[r] \in Seq(Events) /\ batch[r] # <<>> /\ batch'[r] = Tail(batch[r])
      BY <1>1, <2>1 DEF Answered
    <3>2. Tail(batch[r]) # batch[r]
      BY <3>1, Sequences
    <3> QED
      BY <2>1, <3>1, <3>2 DEF FlowInv
  (* What the step leaves behind is timely if the time of the check is. *)
  <2>3. ASSUME checked' = checked, checked < INTERVAL PROVE Timely(status)'
    <3>1. /\ status' = "low" => IsLow(used)'
          /\ status' = "ok" => lowFor' <= checked'
      BY <1>1, <2>1 DEF QuotaInv
    <3>2. lowFor' \in Nat
      BY <2>1 DEF QuotaInv, QuotaTypeOK
    <3> QED
      BY <2>1, <2>3, <3>1, <3>2 DEF Timely
  <2>4. CASE RequestStep(r)
    <3>1. CASE Skip(r)
      BY <1>1, <3>1 DEF Skip, Answered
    <3>2. CASE Finish(r) \/ LookupMiss(r) \/ ReadUsers(r) \/ PollStep(r) \/ GoesOn(r)
      BY <2>2, <3>2 DEF Finish, LookupMiss, ReadUsers, PollStep, GoesOn
    <3>3. CASE Ends(r)
      <4>1. PICK kind \in Kinds : Conclude(r, kind)
        BY <3>3 DEF Ends
      <4>2. Throttled
        BY <2>2, <4>1 DEF Conclude
      <4>3. UNCHANGED quotaVars
        BY <4>1, <4>2 DEF Conclude
      <4> QED
        BY <2>3, <4>2, <4>3 DEF Throttled, quotaVars
    <3>4. CASE PollDone(r)
      <4>1. poll[r] # "none" /\ slow' = slow /\ checked' = checked
        BY <3>4 DEF PollDone, ReadLimit, PollFails, EndPoll
      <4>2. Polling # {}
        BY <4>1 DEF Polling
      <4>3. checked < INTERVAL
        BY <1>1, <2>1, <4>1, <4>2 DEF QuotaInv
      <4> QED
        BY <2>3, <4>1, <4>3
    <3> QED
      BY <2>1, <2>4, <3>1, <3>2, <3>3, <3>4, Steps
  <2>5. ASSUME NEW q \in Requests, q # r, RequestStep(q) \/ Arrive(q) PROVE FALSE
    <3>1. \/ UNCHANGED batch
          \/ \E b : batch' = [batch EXCEPT ![q] = b]
      <4>1. CASE Arrive(q)
        BY <4>1 DEF Arrive
      <4>2. CASE Ends(q)
        BY <4>2 DEF Ends, Conclude, Reply
      <4>3. CASE Skip(q) \/ Finish(q) \/ LookupMiss(q) \/ ReadUsers(q) \/ PollStep(q)
                 \/ PollDone(q) \/ GoesOn(q)
        BY <4>3 DEF Skip, Finish, LookupMiss, ReadUsers, PollStep, PollDone, Reply, GoesOn
      <4> QED
        BY <2>1, <2>5, <4>1, <4>2, <4>3, Steps
    <3> QED
      BY <2>1, <2>2, <2>5, <3>1
  <2>6. CASE Arrive(r)
    BY <2>2, <2>6 DEF Arrive
  <2>7. CASE EditUsers \/ ConsumeQuota \/ Tick \/ UNCHANGED vars
    BY <2>2, <2>7 DEF EditUsers, ConsumeQuota, Tick, vars
  <2> QED
    BY <1>1, <2>4, <2>5, <2>6, <2>7 DEF Next
<1>2. IInv /\ IInv' /\ [Next]_vars =>
        [\A r \in Requests :
            Answered(r) /\ ~slow' /\ Polling' = {} => Timely(status)']_vars
  BY <1>1
<1> QED
  BY <1>2, Invariance, PTL DEF Spec, WarnedInTime
=============================================================================
