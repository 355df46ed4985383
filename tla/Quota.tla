------------------------------- MODULE Quota -------------------------------
(***************************************************************************)
(* The throttled check of the LINE message quota: get_quota_status of      *)
(* main.py and QuotaService of services/quota_service.py.                  *)
(*                                                                         *)
(* A poll is two calls of the LINE API, made off the event loop, one after *)
(* the other: the messages used this month and the limit.  While a poll    *)
(* runs, other requests go on with the status that is cached; a poll that  *)
(* outlasts the interval meets the next one.                               *)
(***************************************************************************)
EXTENDS Naturals

CONSTANTS
    Requests,
    INTERVAL,   \* QUOTA_CHECK_INTERVAL_SECONDS in ticks
    THRESHOLD,  \* QUOTA_LOW_THRESHOLD
    LIMIT,      \* the monthly limit, 0 if there is none
    MaxUsed     \* bound: messages used in the month

ASSUME QuotaConstants ==
    /\ INTERVAL \in Nat \ {0}
    /\ THRESHOLD \in Nat \ {0}
    /\ LIMIT \in Nat
    /\ MaxUsed \in Nat

VARIABLES
    checked,    \* ticks since _last_quota_check, INTERVAL if it is due
    status,     \* _quota_status_cache: "none", "low" or "ok"
    poll,       \* the call each request's poll is at
    seen,       \* the usage it has read
    used,       \* messages used, as LINE counts them
    lowFor,     \* ticks since the quota became low
    slow        \* a poll has outlasted the interval

quotaVars == <<checked, status, poll, seen, used, lowFor, slow>>

QuotaInit ==
    /\ checked = INTERVAL
    /\ status = "none"
    /\ poll = [r \in Requests |-> "none"]
    /\ seen = [r \in Requests |-> 0]
    /\ used = 0
    /\ lowFor = 0
    /\ slow = FALSE

(* get_status: fewer than THRESHOLD messages are left of the limit. *)
IsLow(n) == LIMIT > 0 /\ LIMIT < n + THRESHOLD

Throttled == checked < INTERVAL
Polling == {r \in Requests : poll[r] # "none"}

(* Line 89: the time is noted before the poll, so that a failure is not    *)
(* tried again at once.                                                    *)
StartPoll(r) ==
    /\ checked' = 0
    /\ poll' = [poll EXCEPT ![r] = "usage"]
    /\ UNCHANGED <<status, seen, used, lowFor, slow>>

(* get_message_quota_consumption answers. *)
ReadUsage(r) ==
    /\ poll[r] = "usage"
    /\ poll' = [poll EXCEPT ![r] = "limit"]
    /\ seen' = [seen EXCEPT ![r] = used]
    /\ UNCHANGED <<checked, status, used, lowFor, slow>>

EndPoll(r, s) ==
    /\ status' = s
    /\ poll' = [poll EXCEPT ![r] = "none"]
    /\ seen' = [seen EXCEPT ![r] = 0]
    /\ UNCHANGED <<checked, used, lowFor, slow>>

(* get_message_quota answers. *)
ReadLimit(r) ==
    /\ poll[r] = "limit"
    /\ EndPoll(r, IF IsLow(seen[r]) THEN "low" ELSE "ok")

(* Lines 95-97. *)
PollFailsKeepingStatus(r) == poll[r] # "none" /\ EndPoll(r, status)
PollFails(r) == poll[r] # "none" /\ EndPoll(r, "none")

(* The bot, or another client of the channel, sends a message.  The count  *)
(* starts again each month, which is longer than anything else here.       *)
Consume ==
    /\ used < MaxUsed
    /\ used' = used + 1
    /\ UNCHANGED <<checked, status, poll, seen, lowFor, slow>>

UpTo(bound, n) == IF n < bound THEN n ELSE bound

QuotaTick ==
    /\ checked' = UpTo(INTERVAL, checked + 1)
    /\ lowFor' = IF IsLow(used) THEN UpTo(INTERVAL, lowFor + 1) ELSE 0
    /\ slow' = (slow \/ (Polling # {} /\ checked + 1 >= INTERVAL))
    /\ UNCHANGED <<status, poll, seen, used>>

QuotaTypeOK ==
    /\ checked \in 0 .. INTERVAL
    /\ status \in {"none", "low", "ok"}
    /\ poll \in [Requests -> {"none", "usage", "limit"}]
    /\ seen \in [Requests -> 0 .. MaxUsed]
    /\ used \in 0 .. MaxUsed
    /\ lowFor \in 0 .. INTERVAL
    /\ slow \in BOOLEAN

(* What a status may say, short of "none": it is low only if the quota is, *)
(* and ok only if the quota was, less than an interval ago.                *)
Timely(s) ==
    /\ s = "low" => IsLow(used)
    /\ s = "ok" => lowFor < INTERVAL
=============================================================================
