----------------------------- MODULE SheetsRead -----------------------------
(***************************************************************************)
(* One logical read of a sheet: the retry loop that get_sheet_as_dict,     *)
(* get_sheet_records, get_master_sheet_records and get_raw_range of        *)
(* services/sheets_service.py share.  It runs in a worker thread; every    *)
(* attempt runs in a thread of its own and is given up after               *)
(* ATTEMPT_TIMEOUT.                                                        *)
(***************************************************************************)
EXTENDS Naturals

CONSTANTS
    MAX_ATTEMPTS,       \* READ_MAX_ATTEMPTS
    ATTEMPT_TIMEOUT,    \* READ_ATTEMPT_TIMEOUT in ticks
    BACKOFF             \* READ_BACKOFF_SECONDS in ticks

ASSUME SheetsReadConstants ==
    /\ MAX_ATTEMPTS \in Nat \ {0}
    /\ ATTEMPT_TIMEOUT \in Nat \ {0}
    /\ BACKOFF \in Nat

VARIABLES
    phase,      \* "none", "attempt", "backoff", "ok" or "raised"
    attempt,    \* the attempt, from 1
    spent,      \* ticks in this attempt or back-off
    error       \* what the read has raised

readVars == <<phase, attempt, spent, error>>

(* A network timeout or connection error, or a 5xx answer, is worth a      *)
(* retry (lines 57-73); an auth error, a 4xx answer or a malformed sheet   *)
(* is not, and neither is a worksheet that does not exist.                 *)
Transient == {"timeout", "network"}
Lasting == {"refused", "missing"}
Errors == Transient \cup Lasting \cup {"none"}

ReadIdle ==
    /\ phase = "none" /\ attempt = 0 /\ spent = 0 /\ error = "none"

ForgetRead ==
    /\ phase' = "none" /\ attempt' = 0 /\ spent' = 0 /\ error' = "none"

StartRead ==
    /\ phase' = "attempt" /\ attempt' = 1 /\ spent' = 0 /\ error' = "none"

(* Line 100: the attempt returns the sheet's values. *)
Answer ==
    /\ phase = "attempt"
    /\ phase' = "ok"
    /\ UNCHANGED <<attempt, spent, error>>

(* Lines 101-117: an attempt that failed with e is the last one if e is    *)
(* lasting or the attempts are used up; otherwise the loop backs off.      *)
AttemptFailsUncounted(e) ==
    /\ IF e \in Transient /\ attempt <= MAX_ATTEMPTS
       THEN phase' = "backoff" /\ UNCHANGED error
       ELSE phase' = "raised" /\ error' = e
    /\ spent' = 0
    /\ UNCHANGED attempt
AttemptFails(e) ==
    /\ IF e \in Transient /\ attempt < MAX_ATTEMPTS
       THEN phase' = "backoff" /\ UNCHANGED error
       ELSE phase' = "raised" /\ error' = e
    /\ spent' = 0
    /\ UNCHANGED attempt

(* Line 80: the executor's future has no result in time.  The attempt's    *)
(* thread is abandoned; its requests are bounded only by HTTP_TIMEOUT,     *)
(* which is four times as long.                                            *)
HttpLimit == 4 * ATTEMPT_TIMEOUT
AttemptLimit == ATTEMPT_TIMEOUT

AttemptTimesOut ==
    /\ phase = "attempt" /\ spent = AttemptLimit
    /\ AttemptFails("timeout")

AttemptRaises ==
    /\ phase = "attempt"
    /\ \E e \in Errors \ {"none", "timeout"} : AttemptFails(e)

(* Line 126: time.sleep is over. *)
NextAttempt ==
    /\ phase = "backoff" /\ spent = BACKOFF
    /\ phase' = "attempt"
    /\ attempt' = attempt + 1
    /\ spent' = 0
    /\ UNCHANGED error

ReadStep == Answer \/ AttemptTimesOut \/ AttemptRaises \/ NextAttempt

(* A tick.  A due timeout, the end of a sleep and the end of the read are   *)
(* acted on first.                                                         *)
ReadTick ==
    /\ phase \notin {"ok", "raised"}
    /\ phase = "attempt" => spent < AttemptLimit
    /\ phase = "backoff" => spent < BACKOFF
    /\ IF phase \in {"attempt", "backoff"}
       THEN spent' = spent + 1
       ELSE UNCHANGED spent
    /\ UNCHANGED <<phase, attempt, error>>

(* The longest a read can take (comment at lines 49-51). *)
LongestRead == MAX_ATTEMPTS * ATTEMPT_TIMEOUT + (MAX_ATTEMPTS - 1) * BACKOFF

ReadTypeOK ==
    /\ phase \in {"none", "attempt", "backoff", "ok", "raised"}
    /\ attempt \in 0 .. MAX_ATTEMPTS
    /\ spent \in 0 .. ATTEMPT_TIMEOUT + BACKOFF
    /\ error \in Errors
=============================================================================
