----------------------------- MODULE WriteBack -----------------------------
(***************************************************************************)
(* services/writeback_service.py: the validation report written back to    *)
(* the user's spreadsheet, with the idempotency keys of services/cache.py  *)
(* and the save of services/sheets_service.py (batch_update_values).       *)
(*                                                                         *)
(* A writer is one call of write_validation_result.  Each of its attempts  *)
(* runs the save in a worker thread.  wait_for gives up on the thread      *)
(* after ten seconds, but nothing stops a thread: it goes on calling the   *)
(* Sheets API beside the attempts that follow.                             *)
(*                                                                         *)
(* One spreadsheet.  A summary is known by the number of rows it writes    *)
(* below the header; a row is known by the writer (run_id) it is from.     *)
(***************************************************************************)
EXTENDS Naturals, FiniteSets

CONSTANTS
    Writers,        \* calls of write_validation_result
    Summaries,      \* summaries, each the number of its rows
    MaxAttempts,    \* max_retries of the code
    InitialGrids,   \* rows the result tab's grid may have at first, 0 if it is absent
    MaxClears,      \* bound: cache refreshes
    MaxCrashes      \* bound: restarts of the process

ASSUME WriteBackConstants ==
    /\ Summaries \subseteq Nat \ {0}
    /\ MaxAttempts \in Nat \ {0}
    /\ InitialGrids \subseteq Nat
    /\ MaxClears \in Nat
    /\ MaxCrashes \in Nat

VARIABLES
    owner,      \* idempotency keys in _cache, each with the writer that set it
    pc,         \* where each writer is
    summary,    \* the summary a writer writes, 0 before it has begun
    attempt,    \* its attempt, from 1
    thread,     \* the save thread of each attempt: where it is, and the grid it has found
    grid,       \* rows of the result tab, 0 while it does not exist
    wide,       \* its grid has the columns of a report
    sheet,      \* the writer each row below the header is from; partial
    recent,     \* the writer whose save was started last
    overlap,    \* a save was started while another one was running
    clears,
    crashes

tabVars == <<grid, wide, sheet>>
vars == <<owner, pc, summary, attempt, thread, tabVars, recent, overlap,
          clears, crashes>>
memory == <<owner, pc, summary, attempt, recent, overlap, clears, crashes>>

Attempts == 1 .. MaxAttempts
Saves == Writers \X Attempts
At(line) == [at |-> line, grid |-> 0, wide |-> FALSE]
NoWriter == {}

Running(s) == thread[s].at \in {"open", "add", "resize", "clear", "update"}
Active(w) == pc[w] \in {"saving", "backoff"}

Put(f, k, v) == [j \in DOMAIN f \cup {k} |-> IF j = k THEN v ELSE f[j]]
Cut(f, S) == [j \in DOMAIN f \cap S |-> f[j]]

(* The row of the header and those of the summary (to_rows). *)
RowCount(w) == 1 + summary[w]

----------------------------------------------------------------------------
Init ==
    /\ owner = <<>>
    /\ pc = [w \in Writers |-> "new"]
    /\ summary = [w \in Writers |-> 0]
    /\ attempt = [w \in Writers |-> 0]
    /\ thread = [s \in Saves |-> At("none")]
    /\ grid \in InitialGrids
    /\ wide \in BOOLEAN /\ (wide => grid > 0)
    /\ sheet = <<>>
    /\ recent = NoWriter
    /\ overlap = FALSE
    /\ clears = 0
    /\ crashes = 0

(* Lines 47-53: the next attempt of w and its thread. *)
StartSave(w, n) ==
    /\ pc' = [pc EXCEPT ![w] = "saving"]
    /\ attempt' = [attempt EXCEPT ![w] = n]
    /\ thread' = [thread EXCEPT ![<<w, n>>] = At("open")]
    /\ recent' = {w}
    /\ overlap' = (overlap \/ \E s \in Saves : Running(s))

(* Lines 34-47, and check_and_set_idempotency: a summary whose key is set  *)
(* is not written again.                                                   *)
BeginUnmarked(w, s) ==
    /\ pc[w] = "new"
    /\ s \notin DOMAIN owner
    /\ StartSave(w, 1)
    /\ summary' = [summary EXCEPT ![w] = s]
    /\ UNCHANGED <<owner, tabVars, clears, crashes>>
Begin(w, s) ==
    /\ pc[w] = "new"
    /\ summary' = [summary EXCEPT ![w] = s]
    /\ IF s \in DOMAIN owner
       THEN /\ pc' = [pc EXCEPT ![w] = "skipped"]
            /\ UNCHANGED <<owner, attempt, thread, recent, overlap>>
       ELSE /\ owner' = Put(owner, s, w)
            /\ StartSave(w, 1)
    /\ UNCHANGED <<tabVars, clears, crashes>>

(* Lines 54-55. *)
Succeed(w) ==
    /\ pc[w] = "saving"
    /\ thread[<<w, attempt[w]>>].at = "done"
    /\ pc' = [pc EXCEPT ![w] = "ok"]
    /\ UNCHANGED <<owner, summary, attempt, thread, tabVars, recent,
                   overlap, clears, crashes>>

(* Lines 64-68 and 77-81: the last attempt drops the key, whoever set it,  *)
(* and raises; the others back off.                                        *)
AttemptLostUncounted(w) == pc' = [pc EXCEPT ![w] = "backoff"] /\ UNCHANGED owner
AttemptLostKeepingKey(w) ==
    /\ pc' = [pc EXCEPT ![w] = IF attempt[w] = MaxAttempts THEN "failed"
                               ELSE "backoff"]
    /\ UNCHANGED owner
AttemptLost(w) ==
    IF attempt[w] = MaxAttempts
    THEN /\ pc' = [pc EXCEPT ![w] = "failed"]
         /\ owner' = Cut(owner, DOMAIN owner \ {summary[w]})
    ELSE /\ pc' = [pc EXCEPT ![w] = "backoff"]
         /\ UNCHANGED owner

SaveRaised(w) ==
    /\ pc[w] = "saving"
    /\ thread[<<w, attempt[w]>>].at = "failed"
    /\ AttemptLost(w)
    /\ UNCHANGED <<summary, attempt, thread, tabVars, recent, overlap,
                   clears, crashes>>

(* Line 52: ten seconds have passed; the thread is left to itself. *)
SaveTimedOutAsDone(w) ==
    /\ pc[w] = "saving"
    /\ pc' = [pc EXCEPT ![w] = "ok"]
    /\ UNCHANGED <<owner, summary, attempt, thread, tabVars, recent,
                   overlap, clears, crashes>>
SaveTimedOut(w) ==
    /\ pc[w] = "saving"
    /\ AttemptLost(w)
    /\ UNCHANGED <<summary, attempt, thread, tabVars, recent, overlap,
                   clears, crashes>>

(* The back-off is over: the loop of line 47 goes round. *)
RetryForever(w) ==
    /\ pc[w] = "backoff"
    /\ StartSave(w, attempt[w])
    /\ UNCHANGED <<owner, summary, tabVars, clears, crashes>>
Retry(w) ==
    /\ pc[w] = "backoff"
    /\ StartSave(w, attempt[w] + 1)
    /\ UNCHANGED <<owner, summary, tabVars, clears, crashes>>

----------------------------------------------------------------------------
(* batch_update_values in a worker thread, one step per request.  Saves of *)
(* other threads go on between them.                                       *)

Goes(s, line) == thread' = [thread EXCEPT ![s] = At(line)] /\ UNCHANGED memory

(* Lines 278-283: the tab is looked up; ws.row_count and ws.col_count are  *)
(* as of now.                                                              *)
Open(s) ==
    /\ thread[s].at = "open"
    /\ thread' = [thread EXCEPT ![s] =
                    IF grid = 0 THEN At("add")
                    ELSE [at |-> "resize", grid |-> grid, wide |-> wide]]
    /\ UNCHANGED <<memory, tabVars>>

(* What each request does to the tab.  Line 283: a tab just large enough,  *)
(* refused if one exists by now.                                           *)
AddTab(s) ==
    /\ grid = 0
    /\ grid' = RowCount(s[1]) /\ wide' = TRUE
    /\ UNCHANGED sheet

(* Lines 285-288: the grid is made as large as it was when it was looked   *)
(* up and the summary needs; rows outside the new grid are gone.           *)
TooSmall(s) == thread[s].grid < RowCount(s[1]) \/ ~thread[s].wide
Enlarged(s) ==
    IF thread[s].grid < RowCount(s[1]) THEN RowCount(s[1]) ELSE thread[s].grid
ResizeTab(s) ==
    /\ grid' = Enlarged(s) /\ wide' = TRUE
    /\ sheet' = Cut(sheet, 1 .. Enlarged(s) - 1)

(* Line 290. *)
EmptyTab == sheet' = <<>> /\ UNCHANGED <<grid, wide>>

(* Lines 292-295: the rows, from A1 on.  The API refuses a range outside   *)
(* the grid.                                                               *)
Written(w) ==
    [r \in DOMAIN sheet \cup 1 .. summary[w] |->
        IF r <= summary[w] THEN w ELSE sheet[r]]
WriteTab(s) ==
    /\ RowCount(s[1]) <= grid /\ wide
    /\ sheet' = Written(s[1])
    /\ UNCHANGED <<grid, wide>>

Add(s) ==
    /\ thread[s].at = "add"
    /\ AddTab(s)
    /\ thread' = [thread EXCEPT ![s] =
                    [at |-> "resize", grid |-> RowCount(s[1]), wide |-> TRUE]]
    /\ UNCHANGED memory

Resize(s) ==
    /\ thread[s].at = "resize"
    /\ IF TooSmall(s) THEN ResizeTab(s) ELSE UNCHANGED tabVars
    /\ Goes(s, "clear")

ClearTabSkipped(s) ==
    thread[s].at = "clear" /\ UNCHANGED tabVars /\ Goes(s, "update")
ClearTab(s) == thread[s].at = "clear" /\ EmptyTab /\ Goes(s, "update")

Update(s) == thread[s].at = "update" /\ WriteTab(s) /\ Goes(s, "done")

(* A request raises (network, API error, refused by the state of the tab), *)
(* and the exception leaves save_result.  The API may have done what was   *)
(* asked all the same, the answer being lost: AnswerLost.                  *)
RequestRaises(s) == Running(s) /\ UNCHANGED tabVars /\ Goes(s, "failed")

AnswerLost(s) ==
    /\ \/ thread[s].at = "add" /\ AddTab(s)
       \/ thread[s].at = "resize" /\ TooSmall(s) /\ ResizeTab(s)
       \/ thread[s].at = "clear" /\ EmptyTab
       \/ thread[s].at = "update" /\ WriteTab(s)
    /\ Goes(s, "failed")

----------------------------------------------------------------------------
(* clear_cache (the admin's refresh) drops the keys with the rest of       *)
(* _cache.                                                                 *)
Refresh ==
    /\ clears < MaxClears
    /\ clears' = clears + 1
    /\ owner' = <<>>
    /\ UNCHANGED <<pc, summary, attempt, thread, tabVars, recent, overlap,
                   crashes>>

(* A key is void 300 seconds after it was set: well after its writer's     *)
(* three attempts of ten seconds and back-offs of one and two.             *)
Expire(s) ==
    /\ s \in DOMAIN owner
    /\ ~Active(owner[s])
    /\ owner' = Cut(owner, DOMAIN owner \ {s})
    /\ UNCHANGED <<pc, summary, attempt, thread, tabVars, recent, overlap,
                   clears, crashes>>

(* The process stops and starts again: the tab keeps what it holds. *)
Crash ==
    /\ crashes < MaxCrashes
    /\ \E w \in Writers : Active(w)
    /\ crashes' = crashes + 1
    /\ owner' = <<>>
    /\ pc' = [w \in Writers |-> IF Active(w) THEN "lost" ELSE pc[w]]
    /\ thread' = [s \in Saves |-> At("none")]
    /\ UNCHANGED <<summary, attempt, tabVars, recent, overlap, clears>>

WriterStep(w) ==
    \/ Succeed(w) \/ SaveRaised(w) \/ SaveTimedOut(w)
    \/ Retry(w)

SaveStep(s) ==
    \/ Open(s) \/ Add(s) \/ Resize(s) \/ ClearTab(s) \/ Update(s)
    \/ RequestRaises(s) \/ AnswerLost(s)

Next ==
    \/ \E w \in Writers :
        \/ \E s \in Summaries : Begin(w, s)
        \/ WriterStep(w)
    \/ \E s \in Saves : SaveStep(s)
    \/ Refresh
    \/ \E s \in Summaries : Expire(s)
    \/ Crash

Spec == Init /\ [][Next]_vars

(* The event loop fires the timers of wait_for and sleep, and resumes what *)
(* is ready.  Nothing is assumed of the threads and the API.               *)
FairSpec == Spec /\ \A w \in Writers : WF_vars(WriterStep(w))

----------------------------------------------------------------------------
States == {"none", "open", "add", "resize", "clear", "update", "done",
           "failed"}
Threads == [at : States, grid : Nat, wide : BOOLEAN]

TypeOK ==
    /\ DOMAIN owner \subseteq Summaries
    /\ \A s \in DOMAIN owner : owner[s] \in Writers
    /\ pc \in [Writers -> {"new", "saving", "backoff", "ok", "skipped",
                           "failed", "lost"}]
    /\ summary \in [Writers -> Summaries \cup {0}]
    /\ attempt \in [Writers -> 0 .. MaxAttempts]
    /\ thread \in [Saves -> Threads]
    /\ grid \in Nat /\ wide \in BOOLEAN
    /\ \A r \in DOMAIN sheet : r + 1 \in 2 .. grid /\ sheet[r] \in Writers
    /\ recent \subseteq Writers
    /\ overlap \in BOOLEAN
    /\ clears \in 0 .. MaxClears
    /\ crashes \in 0 .. MaxCrashes

Shows(w) == sheet = [r \in 1 .. summary[w] |-> w]
Blank == sheet = <<>>

(* A key stands only for a write that is under way or that succeeded: one  *)
(* that failed for good can be asked for again at once, also when keys     *)
(* were dropped by a refresh or by another writer's failure meanwhile.     *)
KeyOfFailureDropped ==
    \A s \in DOMAIN owner : Active(owner[s]) \/ pc[owner[s]] = "ok"

(* While nobody refreshes the cache, no two calls write the same summary   *)
(* at the same time.                                                       *)
OneWriterPerSummary ==
    clears = 0 =>
        \A v, w \in Writers :
            Active(v) /\ Active(w) /\ summary[v] = summary[w] => v = w

(* As long as no save starts beside a running one, the tab never mixes the *)
(* rows of two runs or keeps part of one, whatever request fails and       *)
(* wherever the process stops: it is blank or shows one whole report.      *)
WholeUnlessOverlap ==
    ~overlap => Blank \/ \E w \in Writers : Shows(w)

(* And the last save's report is on the tab if its caller was told so.     *)
OkIsShownUnlessOverlap ==
    ~overlap => \A w \in recent : pc[w] = "ok" => Shows(w)

(* Every call of write_validation_result ends, by its attempts and         *)
(* timeouts alone.                                                         *)
WritesEnd == \A w \in Writers : Active(w) ~> ~Active(w)

----------------------------------------------------------------------------
(* sheets_service.py:277: "Replace a result sheet with the supplied rows   *)
(* using one batch update."  Once the threads are done, the tab shows the  *)
(* report of the last save whose caller was told that it succeeded.        *)
OkIsShown ==
    (\A s \in Saves : ~Running(s)) =>
        \A w \in recent : pc[w] = "ok" => Shows(w)
=============================================================================
