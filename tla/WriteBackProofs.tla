--------------------------- MODULE WriteBackProofs ---------------------------
(***************************************************************************)
(* The safety properties of the write-back, for any number of calls,       *)
(* attempts, refreshes and restarts.  The inductive invariant has three    *)
(* layers: types and counters; the idempotency keys, each of which belongs *)
(* to the call that writes its summary; and, while saves do not overlap,   *)
(* how far the one save that runs has come with the tab.                   *)
(***************************************************************************)
EXTENDS WriteBack, TLAPS

(* A call backs off only with attempts left; one that has not begun has    *)
(* left no trace.                                                          *)
Counted ==
    /\ \A w \in Writers : pc[w] = "backoff" => attempt[w] < MaxAttempts
    /\ \A w \in Writers : pc[w] = "new" => summary[w] = 0 /\ w \notin recent

(* A key is that of its owner's summary, and its owner has not failed.     *)
KeysOwned ==
    \A s \in DOMAIN owner :
        /\ Active(owner[s]) \/ pc[owner[s]] = "ok"
        /\ summary[owner[s]] = s

(* Until the first refresh a call at work still owns its key.              *)
KeysKept ==
    clears = 0 =>
        \A w \in Writers : Active(w) =>
            summary[w] \in DOMAIN owner /\ owner[summary[w]] = w

(* Without overlap a save that runs is the current attempt of the call     *)
(* whose save was started last.                                            *)
Alone ==
    /\ \A v, w \in recent : v = w
    /\ ~overlap => \A s \in Saves :
        Running(s) => s[1] \in recent /\ s[2] = attempt[s[1]]

Whole == Blank \/ \E w \in Writers : Shows(w)

(* It finds the grid as it was when it looked, and writes on a blank tab.  *)
TabFollows ==
    ~overlap =>
        /\ Whole
        /\ \A s \in Saves :
            /\ thread[s].at = "resize" => thread[s].grid = grid
            /\ thread[s].at = "update" => Blank

Through(w) ==
    \/ pc[w] = "ok"
    \/ pc[w] = "saving" /\ thread[<<w, attempt[w]>>].at = "done"

(* Once it is through, nothing touches the tab. *)
ThroughIsShown ==
    ~overlap => \A w \in recent : Through(w) =>
        Shows(w) /\ \A s \in Saves : ~Running(s)

Base == TypeOK /\ Counted
Keys == KeysOwned /\ KeysKept
Tab == Alone /\ TabFollows /\ ThroughIsShown
IInv == Base /\ Keys /\ Tab

----------------------------------------------------------------------------
LEMMA InitInv == Init => IInv
<1> SUFFICES ASSUME Init PROVE IInv
  OBVIOUS
<1>1. TypeOK
  <2>1. /\ 0 \in 0 .. MaxAttempts /\ 0 \in 0 .. MaxClears /\ 0 \in 0 .. MaxCrashes
        /\ InitialGrids \subseteq Nat
    BY WriteBackConstants
  <2>2. thread \in [Saves -> Threads]
    BY DEF Init, At, Threads, States
  <2>3. DOMAIN owner = {} /\ DOMAIN sheet = {}
    BY DEF Init
  <2>4. /\ pc \in [Writers -> {"new", "saving", "backoff", "ok", "skipped",
                              "failed", "lost"}]
        /\ summary \in [Writers -> Summaries \cup {0}]
        /\ attempt \in [Writers -> 0 .. MaxAttempts]
    BY <2>1 DEF Init
  <2> QED
    BY <2>1, <2>2, <2>3, <2>4 DEF Init, TypeOK, NoWriter
<1>2. Counted
  BY DEF Init, Counted, NoWriter
<1>3. Keys
  BY DEF Init, Keys, KeysOwned, KeysKept, Active
<1>4. Tab
  <2>1. \A s \in Saves : thread[s].at = "none"
    BY DEF Init, At
  <2> QED
    BY <2>1 DEF Init, Tab, Alone, TabFollows, ThroughIsShown, Whole, Blank, NoWriter,
            Running
<1> QED
  BY <1>1, <1>2, <1>3, <1>4 DEF IInv, Base

----------------------------------------------------------------------------
(* Types and counters.                                                     *)

LEMMA AttemptCounted ==
    ASSUME Base PROVE \A w \in Writers : attempt[w] \in 0 .. MaxAttempts /\ summary[w] \in Nat
<1>1. attempt \in [Writers -> 0 .. MaxAttempts] /\ summary \in [Writers -> Summaries \cup {0}]
  BY DEF Base, TypeOK
<1>2. Summaries \cup {0} \subseteq Nat
  BY WriteBackConstants
<1> QED
  BY <1>1, <1>2

(* What a writer's step does with calls, keys and threads is typed.        *)
LEMMA StartTyped ==
    ASSUME Base, NEW w \in Writers, NEW n \in Attempts, StartSave(w, n)
    PROVE  /\ pc' \in [Writers -> {"new", "saving", "backoff", "ok", "skipped",
                                   "failed", "lost"}]
           /\ attempt' \in [Writers -> 0 .. MaxAttempts]
           /\ thread' \in [Saves -> Threads]
           /\ recent' \subseteq Writers /\ overlap' \in BOOLEAN
           /\ w \in recent' /\ pc'[w] = "saving"
           /\ \A v \in Writers : v # w => pc'[v] = pc[v] /\ v \notin recent'
<1>1. <<w, n>> \in Saves /\ At("open") \in Threads
  BY DEF Saves, At, Threads, States
<1>2. n \in 0 .. MaxAttempts
  BY WriteBackConstants DEF Attempts
<1> QED
  BY <1>1, <1>2 DEF Base, TypeOK, StartSave

LEMMA LossTyped ==
    ASSUME Base, NEW w \in Writers, AttemptLost(w)
    PROVE  /\ pc' \in [Writers -> {"new", "saving", "backoff", "ok", "skipped",
                                   "failed", "lost"}]
           /\ DOMAIN owner' \subseteq DOMAIN owner
           /\ \A s \in DOMAIN owner' : owner'[s] = owner[s]
           /\ pc'[w] \in {"backoff", "failed"}
           /\ pc'[w] = "backoff" => attempt[w] < MaxAttempts
           /\ \A v \in Writers : v # w => pc'[v] = pc[v]
<1>1. CASE attempt[w] = MaxAttempts
  <2>1. /\ pc' = [pc EXCEPT ![w] = "failed"]
        /\ owner' = Cut(owner, DOMAIN owner \ {summary[w]})
    BY <1>1 DEF AttemptLost
  <2>2. /\ DOMAIN owner' \subseteq DOMAIN owner
        /\ \A s \in DOMAIN owner' : owner'[s] = owner[s]
    BY <2>1 DEF Cut
  <2>3. pc \in [Writers -> {"new", "saving", "backoff", "ok", "skipped",
                           "failed", "lost"}]
    BY DEF Base, TypeOK
  <2> QED
    BY <2>1, <2>2, <2>3
<1>2. CASE attempt[w] # MaxAttempts
  <2>1. attempt[w] < MaxAttempts
    BY <1>2, WriteBackConstants DEF Base, TypeOK
  <2> QED
    BY <1>2, <2>1 DEF Base, TypeOK, AttemptLost
<1> QED
  BY <1>1, <1>2

LEMMA BaseByWriter ==
    ASSUME Base, NEW w \in Writers, WriterStep(w) \/ \E s \in Summaries : Begin(w, s)
    PROVE  Base'
<1> USE DEF Base
<1>1. ASSUME NEW s \in Summaries, Begin(w, s) PROVE Base'
  <2>1. CASE s \in DOMAIN owner
    BY <1>1, <2>1 DEF tabVars, Begin, TypeOK, Counted
  <2>2. CASE s \notin DOMAIN owner
    <3>1. StartSave(w, 1) /\ owner' = Put(owner, s, w) /\ 1 \in Attempts
      BY <1>1, <2>2, WriteBackConstants DEF Begin, Attempts
    <3>2. /\ DOMAIN owner' \subseteq Summaries
          /\ \A t \in DOMAIN owner' : owner'[t] \in Writers
      <4>1. /\ DOMAIN owner \subseteq Summaries
            /\ \A t \in DOMAIN owner : owner[t] \in Writers
        BY DEF TypeOK
      <4> QED
        BY <3>1, <4>1 DEF Put
    <3>3. summary' \in [Writers -> Summaries \cup {0}]
      BY <1>1 DEF Begin, TypeOK
    <3>4. TypeOK'
      BY <1>1, <3>1, <3>2, <3>3, StartTyped DEF tabVars, Begin, TypeOK
    <3>5. Counted'
      BY <1>1, <3>1, StartTyped DEF Begin, TypeOK, Counted, StartSave
    <3> QED
      BY <3>4, <3>5
  <2> QED
    BY <2>1, <2>2
<1>2. CASE Succeed(w)
  BY <1>2 DEF tabVars, Succeed, TypeOK, Counted
<1>3. CASE SaveRaised(w) \/ SaveTimedOut(w)
  BY <1>3, LossTyped DEF tabVars, SaveRaised, SaveTimedOut, TypeOK, Counted
<1>4. CASE Retry(w)
  <2>1. attempt[w] + 1 \in Attempts /\ StartSave(w, attempt[w] + 1)
    BY <1>4, AttemptCounted, WriteBackConstants DEF Retry, Counted, Attempts
  <2>2. TypeOK'
    BY <1>4, <2>1, StartTyped DEF tabVars, Retry, TypeOK
  <2>3. Counted'
    BY <1>4, <2>1, StartTyped DEF Retry, TypeOK, Counted, StartSave
  <2> QED
    BY <2>2, <2>3
<1> QED
  BY <1>1, <1>2, <1>3, <1>4 DEF WriterStep

(* A step of a save leaves the calls alone and keeps the tab in its grid.  *)
LEMMA BaseBySave ==
    ASSUME Base, NEW s \in Saves, SaveStep(s)
    PROVE  Base' /\ UNCHANGED memory
<1> DEFINE w == s[1]
<1>1. w \in Writers /\ summary[w] \in Nat /\ RowCount(w) \in Nat /\ grid \in Nat
      /\ RowCount(w) = summary[w] + 1
  BY AttemptCounted DEF Saves, RowCount, Base, TypeOK
<1>2. UNCHANGED memory
  BY DEF SaveStep, Open, Add, Resize, ClearTab, Update, RequestRaises, AnswerLost, Goes
<1>3. thread' \in [Saves -> Threads]
  <2>1. thread \in [Saves -> Threads] /\ wide \in BOOLEAN
    BY DEF Base, TypeOK
  <2>2. ASSUME NEW x \in Threads, thread' = [thread EXCEPT ![s] = x]
        PROVE  thread' \in [Saves -> Threads]
    BY <2>1, <2>2
  <2>3. ASSUME NEW a \in States, Goes(s, a) PROVE thread' \in [Saves -> Threads]
    BY <2>2, <2>3 DEF Goes, At, Threads
  <2>4. At("add") \in Threads
        /\ \A g \in Nat, b \in BOOLEAN :
            [at |-> "resize", grid |-> g, wide |-> b] \in Threads
    BY DEF At, Threads, States
  <2>5. CASE Open(s)
    BY <1>1, <2>1, <2>2, <2>4, <2>5 DEF Open
  <2>6. CASE Add(s)
    BY <1>1, <2>2, <2>4, <2>6 DEF Add
  <2>7. CASE Resize(s) \/ ClearTab(s) \/ Update(s) \/ RequestRaises(s) \/ AnswerLost(s)
    <3>1. "clear" \in States /\ "update" \in States /\ "done" \in States
          /\ "failed" \in States
      BY DEF States
    <3> QED
      BY <2>3, <2>7, <3>1 DEF Resize, ClearTab, Update, RequestRaises, AnswerLost
  <2> QED
    BY <2>5, <2>6, <2>7 DEF SaveStep
<1>4. Enlarged(s) \in Nat
  BY <1>1 DEF Enlarged, Base, TypeOK, Threads
<1>5. \/ UNCHANGED tabVars
      \/ AddTab(s)
      \/ ResizeTab(s)
      \/ EmptyTab
      \/ WriteTab(s)
  BY DEF SaveStep, Open, Add, Resize, ClearTab, Update, RequestRaises, AnswerLost
<1>6. grid' \in Nat /\ wide' \in BOOLEAN
  BY <1>1, <1>4, <1>5
     DEF Base, TypeOK, tabVars, AddTab, ResizeTab, EmptyTab, WriteTab
<1>7. \A r \in DOMAIN sheet' : r + 1 \in 2 .. grid' /\ sheet'[r] \in Writers
  <2>1. \A r \in DOMAIN sheet : r + 1 \in 2 .. grid /\ sheet[r] \in Writers
    BY DEF Base, TypeOK
  <2>2. CASE UNCHANGED tabVars
    BY <2>1, <2>2 DEF tabVars
  <2>3. CASE AddTab(s)
    BY <1>1, <2>1, <2>3 DEF AddTab
  <2>4. CASE ResizeTab(s)
    <3>1. /\ DOMAIN sheet' = DOMAIN sheet \cap 1 .. Enlarged(s) - 1
          /\ \A r \in DOMAIN sheet' : sheet'[r] = sheet[r]
      BY <2>4 DEF ResizeTab, Cut
    <3>2. grid' = Enlarged(s)
      BY <2>4 DEF ResizeTab
    <3> QED
      BY <1>4, <2>1, <3>1, <3>2
  <2>5. CASE EmptyTab
    BY <2>5 DEF EmptyTab
  <2>6. CASE WriteTab(s)
    <3>1. /\ DOMAIN sheet' = DOMAIN sheet \cup 1 .. summary[w]
          /\ \A r \in DOMAIN sheet' :
                sheet'[r] = IF r <= summary[w] THEN w ELSE sheet[r]
      BY <2>6 DEF WriteTab, Written
    <3>2. grid' = grid /\ RowCount(w) <= grid
      BY <2>6 DEF WriteTab
    <3> QED
      BY <1>1, <2>1, <3>1, <3>2
  <2> QED
    BY <1>5, <2>2, <2>3, <2>4, <2>5, <2>6
<1> QED
  BY <1>2, <1>3, <1>6, <1>7 DEF Base, TypeOK, Counted, memory

LEMMA BaseByOthers ==
    ASSUME Base, Refresh \/ (\E s \in Summaries : Expire(s)) \/ Crash \/ UNCHANGED vars
    PROVE  Base'
<1> USE DEF Base
<1>1. CASE Refresh
  BY <1>1, WriteBackConstants DEF tabVars, Refresh, TypeOK, Counted
<1>2. ASSUME NEW s \in Summaries, Expire(s) PROVE Base'
  BY <1>2 DEF tabVars, Expire, Cut, TypeOK, Counted
<1>3. CASE Crash
  BY <1>3, WriteBackConstants DEF tabVars, Crash, TypeOK, Counted, Active, At, States, Threads
<1>4. CASE UNCHANGED vars
  BY <1>4 DEF tabVars, vars, TypeOK, Counted
<1> QED
  BY <1>1, <1>2, <1>3, <1>4

LEMMA BaseKept == Base /\ [Next]_vars => Base'
BY BaseByWriter, BaseBySave, BaseByOthers DEF Next

----------------------------------------------------------------------------
(* The keys.                                                               *)

LEMMA KeysByBegin ==
    ASSUME Base, Keys, NEW w \in Writers, NEW s \in Summaries, Begin(w, s)
    PROVE  Keys'
<1> USE DEF Base, Keys, Active
<1>1. CASE s \in DOMAIN owner
  BY <1>1 DEF Begin, TypeOK, KeysOwned, KeysKept
<1>2. CASE s \notin DOMAIN owner
  <2>1. /\ StartSave(w, 1) /\ owner' = Put(owner, s, w) /\ 1 \in Attempts
        /\ summary' = [summary EXCEPT ![w] = s] /\ pc[w] = "new" /\ clears' = clears
    BY <1>2, WriteBackConstants DEF Begin, Attempts
  <2>2. /\ DOMAIN owner' = DOMAIN owner \cup {s} /\ owner'[s] = w
        /\ \A t \in DOMAIN owner : owner'[t] = owner[t]
    BY <1>2, <2>1 DEF Put
  <2>3. /\ pc'[w] = "saving" /\ summary'[w] = s
        /\ \A v \in Writers : v # w => pc'[v] = pc[v] /\ summary'[v] = summary[v]
    BY <2>1, StartTyped DEF TypeOK
  <2>4. \A t \in DOMAIN owner : owner[t] \in Writers /\ owner[t] # w
    BY <2>1 DEF TypeOK, KeysOwned
  <2>5. KeysOwned'
    BY <2>2, <2>3, <2>4 DEF KeysOwned
  <2>6. KeysKept'
    BY <1>2, <2>1, <2>2, <2>3 DEF KeysKept
  <2> QED
    BY <2>5, <2>6
<1> QED
  BY <1>1, <1>2

(* The key that the last attempt drops is its own, whoever holds it by     *)
(* then; no other key was set by this call.                                *)
LEMMA KeysByLoss ==
    ASSUME Base, Keys, NEW w \in Writers, Active(w), AttemptLost(w),
           UNCHANGED <<summary, clears>>
    PROVE  Keys'
<1> USE DEF Base, Keys, Active
<1>1. CASE attempt[w] = MaxAttempts
  <2>1. owner' = Cut(owner, DOMAIN owner \ {summary[w]}) /\ pc' = [pc EXCEPT ![w] = "failed"]
    BY <1>1 DEF AttemptLost
  <2>2. /\ DOMAIN owner' = DOMAIN owner \ {summary[w]}
        /\ \A s \in DOMAIN owner' : owner'[s] = owner[s]
    BY <2>1 DEF Cut
  <2>3. pc'[w] = "failed" /\ \A v \in Writers : v # w => pc'[v] = pc[v]
    BY <2>1 DEF TypeOK
  <2>4. \A s \in DOMAIN owner : owner[s] \in Writers
    BY DEF TypeOK
  <2>5. KeysOwned'
    BY <2>2, <2>3, <2>4 DEF KeysOwned
  <2>6. KeysKept'
    BY <2>2, <2>3 DEF KeysKept
  <2> QED
    BY <2>5, <2>6
<1>2. CASE attempt[w] # MaxAttempts
  BY <1>2 DEF AttemptLost, TypeOK, KeysOwned, KeysKept
<1> QED
  BY <1>1, <1>2

LEMMA KeysKeptUp == Base /\ Keys /\ [Next]_vars => Keys'
<1> SUFFICES ASSUME Base, Keys, [Next]_vars PROVE Keys'
  OBVIOUS
<1>1. ASSUME NEW w \in Writers, NEW s \in Summaries, Begin(w, s) PROVE Keys'
  BY <1>1, KeysByBegin
<1>2. ASSUME NEW w \in Writers, WriterStep(w) PROVE Keys'
  <2>1. CASE Succeed(w)
    BY <2>1 DEF Succeed, Base, TypeOK, Keys, KeysOwned, KeysKept, Active
  <2>2. CASE SaveRaised(w) \/ SaveTimedOut(w)
    BY <2>2, KeysByLoss DEF SaveRaised, SaveTimedOut, Active
  <2>3. CASE Retry(w)
    BY <2>3 DEF Retry, StartSave, Base, TypeOK, Keys, KeysOwned, KeysKept, Active
  <2> QED
    BY <1>2, <2>1, <2>2, <2>3 DEF WriterStep
<1>3. ASSUME NEW s \in Saves, SaveStep(s) PROVE Keys'
  BY <1>3, BaseBySave DEF memory, Keys, KeysOwned, KeysKept, Active
<1>4. CASE Refresh
  BY <1>4, WriteBackConstants DEF Refresh, Base, TypeOK, Keys, KeysOwned, KeysKept
<1>5. ASSUME NEW s \in Summaries, Expire(s) PROVE Keys'
  BY <1>5 DEF Expire, Cut, Keys, KeysOwned, KeysKept, Active
<1>6. CASE Crash
  BY <1>6 DEF Crash, Base, TypeOK, Keys, KeysOwned, KeysKept, Active
<1>7. CASE UNCHANGED vars
  BY <1>7 DEF vars, Keys, KeysOwned, KeysKept, Active
<1> QED
  BY <1>1, <1>2, <1>3, <1>4, <1>5, <1>6, <1>7 DEF Next

----------------------------------------------------------------------------
(* The tab.                                                                *)

(* A call that begins is not the one whose report is on the tab. *)
LEMMA WholeKept ==
    ASSUME Base, UNCHANGED sheet,
           \A v \in Writers : summary'[v] # summary[v] => pc[v] = "new"
    PROVE  Whole => Whole'
<1>1. ASSUME NEW v \in Writers, Shows(v) PROVE Blank \/ Shows(v)'
  <2>1. CASE summary'[v] = summary[v]
    BY <1>1, <2>1 DEF Shows
  <2>2. CASE summary'[v] # summary[v]
    <3>1. summary[v] = 0 /\ 1 .. 0 = {}
      BY <2>2 DEF Base, Counted
    <3>2. sheet = [r \in {} |-> v]
      BY <1>1, <3>1 DEF Shows
    <3> QED
      BY <3>2 DEF Blank
  <2> QED
    BY <2>1, <2>2
<1> QED
  BY <1>1 DEF Whole, Blank

(* A new save begins: whatever has been on the tab is no longer the        *)
(* question, and if another one runs the saves overlap from now on.        *)
LEMMA TabByStart ==
    ASSUME Base, Tab, NEW w \in Writers, NEW n \in Attempts, StartSave(w, n),
           UNCHANGED <<sheet, grid>>,
           \A v \in Writers : v # w => summary'[v] = summary[v],
           summary'[w] # summary[w] => pc[w] = "new"
    PROVE  Tab'
<1> USE DEF Base, Tab
<1>1. /\ recent' = {w} /\ w \in recent' /\ pc'[w] = "saving" /\ attempt'[w] = n
      /\ <<w, n>> \in Saves /\ thread'[<<w, n>>] = At("open")
      /\ \A s \in Saves : s # <<w, n>> => thread'[s] = thread[s]
      /\ overlap' = (overlap \/ \E s \in Saves : Running(s))
  BY DEF StartSave, TypeOK, Saves
<1>2. ASSUME ~overlap' PROVE ~overlap /\ \A s \in Saves : ~Running(s)
  BY <1>1, <1>2 DEF TypeOK
<1>3. Alone'
  <2>1. ASSUME ~overlap', NEW s \in Saves, Running(s)' PROVE s = <<w, n>>
    BY <1>1, <1>2, <2>1 DEF Running
  <2> QED
    BY <1>1, <2>1 DEF Alone
<1>4. TabFollows'
  <2>1. Whole => Whole'
    BY WholeKept
  <2>2. ASSUME ~overlap', NEW s \in Saves
        PROVE  thread'[s].at \notin {"resize", "update"}
    BY <1>1, <1>2, <2>2 DEF At, Running
  <2> QED
    BY <1>2, <2>1, <2>2 DEF TabFollows
<1>5. ThroughIsShown'
  BY <1>1 DEF ThroughIsShown, Through, At
<1> QED
  BY <1>3, <1>4, <1>5

(* The other steps of the calls touch neither threads nor tab; none but    *)
(* Succeed comes through, and only after its save has.                     *)
LEMMA TabByCall ==
    ASSUME Base, Tab, UNCHANGED <<summary, attempt, thread, grid, sheet, recent, overlap>>,
           \A w \in Writers : Through(w)' => Through(w)
    PROVE  Tab'
BY DEF Base, Tab, TypeOK, Alone, TabFollows, ThroughIsShown, Whole, Blank, Shows, Running

(* A save that runs alone: it looks up the grid, makes it large enough     *)
(* without cutting a row off, blanks the tab, and writes one whole report. *)
LEMMA TabBySave ==
    ASSUME Base, Tab, NEW s \in Saves, SaveStep(s)
    PROVE  Tab'
<1> USE DEF Base, Tab
<1>1. /\ UNCHANGED <<pc, summary, attempt, recent, overlap>>
      /\ Running(s)
      /\ \A u \in Saves : u # s => thread'[u] = thread[u]
      /\ thread'[s].at \in States
  <2>1. UNCHANGED memory /\ thread' \in [Saves -> Threads]
    BY BaseBySave DEF TypeOK
  <2>2. Running(s) /\ \A u \in Saves : u # s => thread'[u] = thread[u]
    BY DEF SaveStep, Open, Add, Resize, ClearTab, Update, RequestRaises, AnswerLost,
           Goes, TypeOK, Running
  <2>3. thread'[s].at \in States
    BY <2>1 DEF Threads
  <2> QED
    BY <2>1, <2>2, <2>3 DEF memory
<1>2. \A u \in Saves : Running(u)' => Running(u)
  BY <1>1 DEF Running
<1>3. Alone'
  BY <1>1, <1>2 DEF Alone
<1>4. CASE overlap
  BY <1>1, <1>3, <1>4 DEF TabFollows, ThroughIsShown
<1>5. CASE ~overlap
  <2> DEFINE w == s[1]
  <2>1. /\ w \in Writers /\ w \in recent /\ s = <<w, attempt[w]>>
        /\ \A v \in recent : v = w
        /\ \A u \in Saves : Running(u) => u = s
    BY <1>1, <1>5 DEF Alone, Saves
  <2>2. \A v \in recent : ~Through(v)
    BY <1>1, <1>5 DEF ThroughIsShown
  <2>3. summary[w] \in Nat /\ RowCount(w) = summary[w] + 1
    BY <2>1, AttemptCounted DEF RowCount
  <2>4. /\ Whole'
        /\ thread'[s].at = "resize" => thread'[s].grid = grid'
        /\ thread'[s].at = "update" => Blank'
        /\ thread'[s].at = "done" => Shows(w)'
    <3>1. Whole /\ (thread[s].at = "resize" => thread[s].grid = grid)
          /\ (thread[s].at = "update" => Blank)
      BY <1>5 DEF TabFollows
    <3>2. ASSUME UNCHANGED sheet PROVE Whole'
      BY <1>1, <3>1, <3>2 DEF Whole, Blank, Shows
    <3>3. ASSUME Blank, sheet' = Written(w) PROVE Shows(w)' /\ Whole'
      <4>1. DOMAIN sheet \cup 1 .. summary[w] = 1 .. summary[w]
        BY <3>3 DEF Blank
      <4>2. sheet' = [r \in 1 .. summary[w] |-> w]
        BY <2>3, <3>3, <4>1 DEF Written
      <4> QED
        BY <1>1, <2>1, <4>2 DEF Shows, Whole
    <3>4. ASSUME thread[s].at = "resize", ResizeTab(s) PROVE UNCHANGED sheet
      <4>1. /\ sheet' = [r \in DOMAIN sheet \cap 1 .. Enlarged(s) - 1 |-> sheet[r]]
            /\ thread[s].grid = grid
        BY <3>1, <3>4 DEF ResizeTab, Cut
      <4>2. grid \in Nat /\ Enlarged(s) \in Nat /\ grid <= Enlarged(s)
        BY <2>3, <4>1 DEF Enlarged, TypeOK
      <4>3. CASE Blank
        BY <4>1, <4>3 DEF Blank
      <4>4. ASSUME NEW v \in Writers, Shows(v) PROVE UNCHANGED sheet
        <5>1. summary[v] \in Nat /\ DOMAIN sheet = 1 .. summary[v]
          BY <4>4, AttemptCounted DEF Shows
        <5>2. \A r \in 1 .. summary[v] : r + 1 \in 2 .. grid
          BY <5>1 DEF TypeOK
        <5>3. DOMAIN sheet \cap 1 .. Enlarged(s) - 1 = 1 .. summary[v]
          BY <4>2, <5>1, <5>2
        <5> QED
          BY <4>1, <4>4, <5>3 DEF Shows
      <4> QED
        BY <3>1, <4>3, <4>4 DEF Whole
    <3>5. CASE Open(s) \/ RequestRaises(s)
      BY <1>1, <3>2, <3>5 DEF Open, RequestRaises, Goes, At, TypeOK, tabVars
    <3>6. CASE Add(s)
      BY <1>1, <3>2, <3>6 DEF Add, AddTab, TypeOK
    <3>7. CASE Resize(s)
      <4>1. UNCHANGED sheet
        BY <3>4, <3>7 DEF Resize, tabVars
      <4> QED
        BY <3>2, <3>7, <4>1 DEF Resize, Goes, At, TypeOK
    <3>8. CASE ClearTab(s)
      BY <3>8 DEF ClearTab, EmptyTab, Goes, At, TypeOK, Whole, Blank
    <3>9. CASE Update(s)
      BY <3>1, <3>3, <3>9 DEF Update, WriteTab, Goes, At, TypeOK
    <3>10. CASE AnswerLost(s)
      <4>1. thread'[s].at = "failed"
        BY <3>10 DEF AnswerLost, Goes, At, TypeOK
      <4>2. CASE thread[s].at = "add" /\ AddTab(s)
        BY <3>2, <4>1, <4>2 DEF AddTab
      <4>3. CASE thread[s].at = "resize" /\ ResizeTab(s)
        BY <3>2, <3>4, <4>1, <4>3
      <4>4. CASE EmptyTab
        BY <4>1, <4>4 DEF EmptyTab, Whole, Blank
      <4>5. CASE thread[s].at = "update" /\ WriteTab(s)
        BY <3>1, <3>3, <4>1, <4>5 DEF WriteTab
      <4> QED
        BY <3>10, <4>2, <4>3, <4>4, <4>5 DEF AnswerLost
    <3> QED
      BY <3>5, <3>6, <3>7, <3>8, <3>9, <3>10 DEF SaveStep
  <2>5. TabFollows'
    BY <1>1, <2>1, <2>4 DEF TabFollows, Running
  <2>6. ThroughIsShown'
    <3>1. ASSUME NEW v \in recent, Through(v)'
          PROVE  v = w /\ thread'[s].at = "done"
      BY <1>1, <2>1, <2>2, <3>1 DEF Through
    <3>2. ASSUME thread'[s].at = "done" PROVE \A u \in Saves : ~Running(u)'
      BY <1>2, <2>1, <3>2 DEF Running
    <3> QED
      BY <1>1, <2>4, <3>1, <3>2 DEF ThroughIsShown
  <2> QED
    BY <1>3, <2>5, <2>6
<1> QED
  BY <1>4, <1>5

LEMMA TabByCrash == ASSUME Base, Tab, Crash PROVE Tab'
<1> USE DEF Base, Tab
<1>1. /\ UNCHANGED <<summary, attempt, grid, sheet, recent, overlap>>
      /\ \A s \in Saves : thread'[s].at = "none" /\ ~Running(s)'
      /\ \A w \in Writers : Through(w)' => Through(w)
  BY DEF tabVars, Crash, At, Running, Through, TypeOK, Active, Saves
<1>2. Whole => Whole'
  BY <1>1 DEF Whole, Blank, Shows
<1> QED
  BY <1>1, <1>2 DEF TypeOK, Alone, TabFollows, ThroughIsShown, Shows

LEMMA TabKeptUp == Base /\ Tab /\ [Next]_vars => Tab'
<1> SUFFICES ASSUME Base, Tab, [Next]_vars PROVE Tab'
  OBVIOUS
<1>1. ASSUME NEW w \in Writers, NEW s \in Summaries, Begin(w, s) PROVE Tab'
  <2>1. CASE s \in DOMAIN owner
    <3>1. pc' = [pc EXCEPT ![w] = "skipped"] /\ summary' = [summary EXCEPT ![w] = s]
      BY <1>1, <2>1 DEF Begin
    <3>2. UNCHANGED <<attempt, thread, grid, sheet, recent, overlap>> /\ pc[w] = "new"
      BY <1>1, <2>1 DEF tabVars, Begin
    <3>3. \A v \in Writers : v # w => pc'[v] = pc[v] /\ summary'[v] = summary[v]
      BY <3>1 DEF Base, TypeOK
    <3>4. Whole => Whole'
      BY <3>2, <3>3, WholeKept
    <3>5. w \notin recent /\ \A v \in recent : v \in Writers
      BY <3>2 DEF Base, Counted, TypeOK
    <3>6. Alone' /\ TabFollows'
      BY <3>2, <3>4 DEF Tab, Alone, TabFollows, Blank, Running
    <3>7. ThroughIsShown'
      BY <3>2, <3>3, <3>5 DEF Tab, ThroughIsShown, Through, Shows, Running
    <3> QED
      BY <3>6, <3>7 DEF Tab
  <2>2. CASE s \notin DOMAIN owner
    BY <1>1, <2>2, TabByStart, WriteBackConstants DEF tabVars, Begin, Attempts, Base, TypeOK
  <2> QED
    BY <2>1, <2>2
<1>2. ASSUME NEW w \in Writers, WriterStep(w) PROVE Tab'
  <2>1. CASE Succeed(w)
    BY <2>1, TabByCall DEF tabVars, Succeed, Through, Base, TypeOK
  <2>2. CASE SaveRaised(w) \/ SaveTimedOut(w)
    BY <2>2, LossTyped, TabByCall DEF tabVars, SaveRaised, SaveTimedOut, Through
  <2>3. CASE Retry(w)
    <3>1. attempt[w] + 1 \in Attempts
      BY <2>3, AttemptCounted, WriteBackConstants DEF Retry, Base, Counted, Attempts
    <3> QED
      BY <2>3, <3>1, TabByStart DEF tabVars, Retry
  <2> QED
    BY <1>2, <2>1, <2>2, <2>3 DEF WriterStep
<1>3. ASSUME NEW s \in Saves, SaveStep(s) PROVE Tab'
  BY <1>3, TabBySave
<1>4. CASE Refresh \/ \E s \in Summaries : Expire(s)
  BY <1>4, TabByCall DEF tabVars, Refresh, Expire, Through
<1>5. CASE Crash
  BY <1>5, TabByCrash
<1>6. CASE UNCHANGED vars
  BY <1>6, TabByCall DEF tabVars, vars, Through
<1> QED
  BY <1>1, <1>2, <1>3, <1>4, <1>5, <1>6 DEF Next

----------------------------------------------------------------------------
LEMMA NextInv == IInv /\ [Next]_vars => IInv'
BY BaseKept, KeysKeptUp, TabKeptUp DEF IInv

(* However saves, time-outs, refreshes and restarts of WriteBack meet, the *)
(* invariant holds: keys are owned, and the tab follows the running save.  *)
THEOREM Invariance == Spec => []IInv
BY InitInv, NextInv, PTL DEF Spec

(* Every reachable state is well typed: no row lies outside the grid of    *)
(* the tab, and no call makes more attempts than it may.                   *)
THEOREM TypeCorrect == Spec => []TypeOK
<1>1. IInv => TypeOK
  BY DEF IInv, Base
<1> QED
  BY <1>1, Invariance, PTL

(* clear_idempotency and the attempts: a key stands for a live or a        *)
(* successful write.                                                       *)
THEOREM KeysOfLiveWrites == Spec => []KeyOfFailureDropped
<1>1. IInv => KeyOfFailureDropped
  BY DEF IInv, Keys, KeysOwned, KeyOfFailureDropped
<1> QED
  BY <1>1, Invariance, PTL

(* check_and_set_idempotency: one writer per summary, before any refresh.  *)
THEOREM WritersExclusive == Spec => []OneWriterPerSummary
<1>1. IInv => OneWriterPerSummary
  BY DEF IInv, Keys, KeysKept, OneWriterPerSummary
<1> QED
  BY <1>1, Invariance, PTL

(* batch_update_values, with any request failing anywhere: without overlap *)
(* the tab is blank or holds one whole report.                             *)
THEOREM TabWhole == Spec => []WholeUnlessOverlap
<1>1. IInv => WholeUnlessOverlap
  BY DEF IInv, Tab, TabFollows, Whole, WholeUnlessOverlap
<1> QED
  BY <1>1, Invariance, PTL

(* And a success that was reported is the one on the tab.                  *)
THEOREM SuccessShown == Spec => []OkIsShownUnlessOverlap
<1>1. IInv => OkIsShownUnlessOverlap
  BY DEF IInv, Tab, ThroughIsShown, Through, OkIsShownUnlessOverlap
<1> QED
  BY <1>1, Invariance, PTL
=============================================================================
