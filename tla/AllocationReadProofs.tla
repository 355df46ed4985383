------------------------ MODULE AllocationReadProofs ------------------------
(***************************************************************************)
(* Reads and cached results behind cash, allocation and summary, for all   *)
(* time limits, lifetimes and numbers of attempts.  The invariant has four *)
(* parts: the retry loop (Loop), the command around it (Flow), the entries *)
(* of the cache with the lag each layer adds (Entries), and how long a     *)
(* read of the sheet has taken by its attempt (Pace).                      *)
(***************************************************************************)
EXTENDS AllocationRead, TLAPS

Loop ==
    /\ phase \in {"none", "attempt", "backoff", "ok", "raised"}
    /\ attempt \in 0 .. MAX_ATTEMPTS /\ spent \in Nat /\ error \in Errors
    /\ phase # "none" => attempt >= 1
    /\ phase = "backoff" => attempt < MAX_ATTEMPTS /\ spent <= BACKOFF
    /\ phase # "backoff" => spent <= ATTEMPT_TIMEOUT

Flow ==
    /\ goal \in Goals \cup {"none"}
    /\ stage \in DrStages \cup Settling \cup {"idle", "sheet"}
    /\ nested \in BOOLEAN /\ (nested => stage \in DrStages)
    /\ out \in {"none", "value", "SheetsReadError", "TimeoutError"}
    /\ outer \in Nat /\ inner \in Nat /\ inner <= FETCH_TIMEOUT
    /\ outer <= FETCH_TIMEOUT + 1
    /\ stage # "late" => outer <= FETCH_TIMEOUT
    /\ stage = "idle" => outer = 0

Parts == [sheet : Nat, dr : Nat]
Functions == {"cash", "allocation", "dr"}

(* How much older than its entry a part of it may be. *)
DrLag(f) ==
    IF f = "dr" THEN FETCH_TIMEOUT
    ELSE IF f = "allocation" THEN CACHE_TTL + FETCH_TIMEOUT
    ELSE CACHE_TTL + CACHE_TTL + FETCH_TIMEOUT
SheetLag(f) ==
    IF f = "dr" THEN 0
    ELSE IF f = "allocation" THEN FETCH_TIMEOUT + 1
    ELSE FETCH_TIMEOUT + CACHE_TTL

EntryOK(f, e) ==
    /\ e \in [age : Nat, parts : Parts]
    /\ e.age < CACHE_TTL
    /\ e.parts.dr <= DrLag(f) + e.age
    /\ e.parts.sheet <= SheetLag(f) + e.age

Entries ==
    /\ DOMAIN memo \subseteq Functions
    /\ \A f \in DOMAIN memo : EntryOK(f, memo[f])
    /\ taken \in Parts /\ taken.sheet <= CACHE_TTL
    /\ taken.dr <= CACHE_TTL + FETCH_TIMEOUT
    /\ stage # "late" => taken.dr < CACHE_TTL + FETCH_TIMEOUT

(* The ticks that n - 1 attempts and their back-offs take at most.         *)
Before(n) == (n - 1) * (ATTEMPT_TIMEOUT + BACKOFF)

Pace ==
    stage = "sheet" =>
        /\ phase # "none"
        /\ phase = "attempt" => outer <= Before(attempt) + spent
        /\ phase = "backoff" => outer <= Before(attempt) + ATTEMPT_TIMEOUT + spent
        /\ phase \in {"ok", "raised"} => outer <= Before(attempt) + ATTEMPT_TIMEOUT

IInv == Loop /\ Flow /\ Entries /\ Pace

LEMMA Limits ==
    /\ MAX_ATTEMPTS \in Nat /\ MAX_ATTEMPTS >= 1
    /\ ATTEMPT_TIMEOUT \in Nat /\ ATTEMPT_TIMEOUT >= 1 /\ BACKOFF \in Nat
    /\ CACHE_TTL \in Nat /\ CACHE_TTL >= 1
    /\ FETCH_TIMEOUT \in Nat /\ FETCH_TIMEOUT >= 1
BY SheetsReadConstants, AllocationReadConstants

LEMMA BeforeGrows ==
    /\ Before(1) = 0
    /\ \A n \in Nat \ {0} :
        /\ Before(n) \in Nat
        /\ Before(n + 1) = Before(n) + ATTEMPT_TIMEOUT + BACKOFF
    /\ \A n \in 1 .. MAX_ATTEMPTS : Before(n) + ATTEMPT_TIMEOUT <= LongestRead
<1> DEFINE P == ATTEMPT_TIMEOUT + BACKOFF
<1>1. P \in Nat
  BY Limits
<1>2. \A m, p \in Nat : m * p \in Nat /\ (m + 1) * p = m * p + p
  OBVIOUS
<1>3. Before(1) = 0
  BY <1>1 DEF Before
<1>4. ASSUME NEW n \in Nat \ {0}
      PROVE  /\ Before(n) \in Nat
             /\ Before(n + 1) = Before(n) + ATTEMPT_TIMEOUT + BACKOFF
  <2>1. n - 1 \in Nat /\ (n + 1) - 1 = (n - 1) + 1
    OBVIOUS
  <2>2. (n - 1) * P \in Nat /\ ((n - 1) + 1) * P = (n - 1) * P + P
    BY <1>1, <1>2, <2>1
  <2> QED
    BY <2>1, <2>2, Limits DEF Before
<1>5. ASSUME NEW n \in 1 .. MAX_ATTEMPTS
      PROVE  Before(n) + ATTEMPT_TIMEOUT <= LongestRead
  <2> DEFINE m == n - 1
             k == MAX_ATTEMPTS - n
             M == MAX_ATTEMPTS - 1
  <2>1. m \in Nat /\ k \in Nat /\ M \in Nat /\ M = m + k /\ MAX_ATTEMPTS = M + 1
    BY Limits
  <2>2. \A i, j, p \in Nat : (i + j) * p = i * p + j * p /\ j * p \in Nat /\ i * p \in Nat
    OBVIOUS
  <2>3. M * P = m * P + k * P /\ k * P \in Nat /\ m * P \in Nat
    BY <1>1, <2>1, <2>2
  <2>4. M * P = M * ATTEMPT_TIMEOUT + M * BACKOFF
    <3>1. \A i, p, q \in Nat : i * (p + q) = i * p + i * q
      OBVIOUS
    <3> QED
      BY <2>1, <3>1, Limits
  <2>5. MAX_ATTEMPTS * ATTEMPT_TIMEOUT = M * ATTEMPT_TIMEOUT + ATTEMPT_TIMEOUT
    BY <1>2, <2>1, Limits
  <2>6. M * ATTEMPT_TIMEOUT \in Nat /\ M * BACKOFF \in Nat
    BY <1>2, <2>1, Limits
  <2>7. LongestRead = M * P + ATTEMPT_TIMEOUT
    BY <2>4, <2>5, <2>6, Limits DEF LongestRead
  <2> QED
    BY <2>3, <2>7, Limits DEF Before
<1> QED
  BY <1>3, <1>4, <1>5

LEMMA InitInv == Init => IInv
<1> SUFFICES ASSUME Init PROVE IInv
  OBVIOUS
<1> USE Limits DEF Init
<1>1. Loop
  <2>1. phase = "none" /\ attempt = 0 /\ spent = 0 /\ error = "none"
    BY DEF ReadIdle
  <2>2. 0 \in 0 .. MAX_ATTEMPTS /\ 0 <= ATTEMPT_TIMEOUT /\ "none" \in Errors
    BY DEF Errors
  <2> QED
    BY <2>1, <2>2 DEF Loop
<1>2. Flow
  <2>1. nested \in BOOLEAN /\ ~nested
    BY Zenon
  <2>2. goal = "none" /\ stage = "idle" /\ out = "none" /\ outer = 0 /\ inner = 0
    OBVIOUS
  <2> QED
    BY <2>1, <2>2, Limits DEF Flow, DrStages, Settling
<1>3. Entries
  <2>1. DOMAIN memo = {}
    OBVIOUS
  <2>2. NoParts \in Parts /\ NoParts.sheet = 0 /\ NoParts.dr = 0
    BY DEF NoParts, Parts
  <2> QED
    BY <2>1, <2>2 DEF Entries
<1>4. Pace
  BY DEF Pace
<1> QED
  BY <1>1, <1>2, <1>3, <1>4 DEF IInv

----------------------------------------------------------------------------
(* The cache.                                                              *)

LEMMA StoredOK ==
    ASSUME Entries, NEW F \in SUBSET Functions, NEW p \in Parts,
           \A f \in F : p.dr <= DrLag(f) /\ p.sheet <= SheetLag(f),
           memo' = Stored(memo, F, p)
    PROVE  DOMAIN memo' \subseteq Functions /\ \A f \in DOMAIN memo' : EntryOK(f, memo'[f])
<1> DEFINE e == [age |-> 0, parts |-> p]
<1>1. e \in [age : Nat, parts : Parts] /\ e.age = 0 /\ e.parts = p
  OBVIOUS
<1>2. ASSUME NEW f \in F PROVE EntryOK(f, e)
  <2>1. DrLag(f) \in Nat /\ SheetLag(f) \in Nat /\ p.dr \in Nat /\ p.sheet \in Nat
    BY Limits DEF DrLag, SheetLag, Parts
  <2> QED
    BY <1>1, <1>2, <2>1, Limits DEF EntryOK
<1>3. DOMAIN memo' = DOMAIN memo \cup F
  BY DEF Stored
<1>4. \A f \in DOMAIN memo' : memo'[f] = IF f \in F THEN e ELSE memo[f]
  BY <1>3 DEF Stored
<1> QED
  BY <1>2, <1>3, <1>4 DEF Entries

LEMMA AgedOK ==
    ASSUME Entries,
           memo' = [f \in {g \in DOMAIN memo : Lives(memo[g])} |-> Older(memo[f])]
    PROVE  DOMAIN memo' \subseteq Functions /\ \A f \in DOMAIN memo' : EntryOK(f, memo'[f])
<1>1. ASSUME NEW f \in DOMAIN memo, Lives(memo[f]) PROVE EntryOK(f, Older(memo[f]))
  <2> DEFINE e == memo[f]
  <2>1. /\ EntryOK(f, e) /\ e \in [age : Nat, parts : Parts] /\ e.parts \in Parts
        /\ e.age \in Nat /\ e.parts.dr \in Nat /\ e.parts.sheet \in Nat
    BY DEF Entries, EntryOK, Parts
  <2>3. DrLag(f) \in Nat /\ SheetLag(f) \in Nat
    BY Limits DEF DrLag, SheetLag
  <2>2. /\ Older(e) \in [age : Nat, parts : Parts]
        /\ Older(e).age = e.age + 1
        /\ Older(e).parts.dr = e.parts.dr + 1
        /\ Older(e).parts.sheet = e.parts.sheet + 1
    BY <2>1 DEF Older, Parts
  <2> QED
    BY <1>1, <2>1, <2>2, <2>3, Limits DEF Lives, EntryOK
<1> QED
  BY <1>1 DEF Entries

----------------------------------------------------------------------------
(* The retry loop is stepped in five ways, whatever the command.           *)

LEMMA LoopStep ==
    ASSUME [Next]_vars
    PROVE  ForgetRead \/ StartRead \/ ReadStep \/ ReadTick \/ UNCHANGED readVars
BY Zenon DEF Next, vars, CashFromCache, AllocationFromCache, SummaryFromCache, AskSheet,
   AskTotals, Reading, SheetRead, SheetFails, FinishAllocation, FinishTotals, DrRead,
   DrReadFails, FetchTimesOut, Refresh, Tick, Fetch, End, Take

LEMMA LoopKept == IInv /\ [Next]_vars => Loop'
<1> SUFFICES ASSUME IInv, [Next]_vars PROVE Loop'
  OBVIOUS
<1> USE Limits
<1>0. Loop
  BY DEF IInv
<1>1. CASE ForgetRead
  <2>1. 0 \in 0 .. MAX_ATTEMPTS /\ 0 <= ATTEMPT_TIMEOUT /\ "none" \in Errors
    BY DEF Errors
  <2> QED
    BY <1>1, <2>1 DEF ForgetRead, Loop
<1>2. CASE StartRead
  <2>1. 1 \in 0 .. MAX_ATTEMPTS /\ 0 <= ATTEMPT_TIMEOUT /\ "none" \in Errors
    BY DEF Errors
  <2> QED
    BY <1>2, <2>1 DEF StartRead, Loop
<1>3. ASSUME NEW e \in Errors, phase = "attempt", AttemptFails(e) PROVE Loop'
  BY <1>0, <1>3 DEF AttemptFails, Loop
<1>4. CASE ReadStep
  <2>1. CASE Answer
    BY <1>0, <2>1 DEF Answer, Loop
  <2>2. CASE AttemptTimesOut
    <3>1. "timeout" \in Errors
      BY DEF Errors, Transient
    <3> QED
      BY <1>3, <2>2, <3>1 DEF AttemptTimesOut
  <2>3. CASE AttemptRaises
    BY <1>3, <2>3 DEF AttemptRaises
  <2>4. CASE NextAttempt
    BY <1>0, <2>4 DEF NextAttempt, Loop
  <2> QED
    BY <1>4, <2>1, <2>2, <2>3, <2>4 DEF ReadStep
<1>5. CASE ReadTick
  BY <1>0, <1>5 DEF ReadTick, AttemptLimit, Loop
<1>6. CASE UNCHANGED readVars
  BY <1>0, <1>6 DEF readVars, Loop
<1> QED
  BY <1>1, <1>2, <1>4, <1>5, <1>6, LoopStep

LEMMA FlowKept == IInv /\ [Next]_vars => Flow'
<1> SUFFICES ASSUME IInv, [Next]_vars PROVE Flow'
  OBVIOUS
<1> USE Limits
<1>0. Flow
  BY DEF IInv
<1>1. ASSUME NEW o, End(o), o \in {"value", "SheetsReadError", "TimeoutError"} PROVE Flow'
  <2>1. nested' \in BOOLEAN /\ ~nested'
    BY <1>1, Zenon DEF End
  <2>2. goal' = "none" /\ stage' = "idle" /\ out' = o /\ outer' = 0 /\ inner' = 0
    BY <1>1 DEF End
  <2> QED
    BY <1>1, <2>1, <2>2, Limits DEF Flow, DrStages, Settling
<1>2. ASSUME NEW p, Take(p), stage # "late" PROVE Flow'
  <2>1. nested' \in BOOLEAN /\ ~nested'
    BY <1>2, Zenon DEF Take
  <2> QED
    BY <1>0, <1>2, <2>1 DEF Take, Flow, Settling
<1>3. CASE CashFromCache
  BY <1>1, <1>3 DEF CashFromCache
<1>4. CASE AllocationFromCache
  BY <1>1, <1>4 DEF AllocationFromCache
<1>5. CASE SummaryFromCache
  BY <1>1, <1>5 DEF SummaryFromCache
<1>6. ASSUME NEW g \in Goals, AskSheet(g) PROVE Flow'
  BY <1>0, <1>6 DEF AskSheet, Fetch, Flow, DrStages
<1>7. CASE AskTotals
  BY <1>0, <1>7 DEF AskTotals, Fetch, Flow, DrStages, Goals
<1>8. CASE Reading
  BY <1>0, <1>8 DEF Reading, Flow
<1>9. CASE SheetRead
  <2>1. CASE Fresh("dr")
    BY <1>2, <1>9, <2>1 DEF SheetRead
  <2>2. CASE ~Fresh("dr")
    BY <1>0, <1>9, <2>2 DEF SheetRead, Fetch, Flow, DrStages
  <2> QED
    BY <2>1, <2>2
<1>10. CASE SheetFails
  BY <1>1, <1>10 DEF SheetFails
<1>11. CASE FinishAllocation
  <2>1. CASE End("value")
    BY <1>1, <2>1
  <2>2. CASE Fetch("dr1") /\ outer' = 0 /\ UNCHANGED <<goal, nested, inner>>
    BY <1>0, <2>2 DEF Fetch, Flow, DrStages
  <2> QED
    BY <1>11, <2>1, <2>2 DEF FinishAllocation
<1>12. ASSUME FinishTotals, stage \in DrStages PROVE Flow'
  <2>1. stage # "late"
    BY <1>12 DEF DrStages
  <2> QED
    BY <1>1, <1>2, <1>12, <2>1 DEF FinishTotals
<1>13. CASE DrRead
  <2>1. CASE stage = "dr3"
    BY <1>12, <1>13, <2>1 DEF DrRead
  <2>2. CASE stage # "dr3"
    BY <1>0, <1>13, <2>2 DEF DrRead, Fetch, Flow, DrStages, After
  <2> QED
    BY <2>1, <2>2
<1>14. CASE DrReadFails
  BY <1>12, <1>14 DEF DrReadFails
<1>15. CASE FetchTimesOut
  BY <1>1, <1>15 DEF FetchTimesOut
<1>16. CASE Refresh
  BY <1>0, <1>16 DEF Refresh, Flow
<1>17. CASE Tick
  <2>1. CASE stage = "total"
    BY <1>0, <1>17, <2>1 DEF Tick, Flow, DrStages, Settling
  <2>2. CASE stage # "total"
    <3>1. /\ stage' = stage /\ nested' = nested /\ goal' = goal /\ out' = out
          /\ stage # "late"
      BY <1>17, <2>2 DEF Tick
    <3>2. outer' \in Nat /\ outer' <= FETCH_TIMEOUT
      BY <1>0, <1>17, <2>2 DEF Tick, Flow
    <3>3. inner' \in Nat /\ inner' <= FETCH_TIMEOUT
      BY <1>0, <1>17 DEF Tick, Flow
    <3>4. stage = "idle" => outer' = 0
      BY <1>0, <1>17 DEF Tick, Flow, DrStages
    <3> QED
      BY <1>0, <3>1, <3>2, <3>3, <3>4 DEF Flow
  <2> QED
    BY <2>1, <2>2
<1>18. CASE UNCHANGED vars
  BY <1>0, <1>18 DEF vars, Flow
<1> QED
  BY <1>3, <1>4, <1>5, <1>6, <1>7, <1>8, <1>9, <1>10, <1>11, <1>13, <1>14, <1>15, <1>16,
     <1>17, <1>18 DEF Next

(* What the entries and the DR totals in hand need of a step.              *)
LEMMA EntriesKept == IInv /\ [Next]_vars => Entries'
<1> SUFFICES ASSUME IInv, [Next]_vars PROVE Entries'
  OBVIOUS
<1> USE Limits
<1>0. /\ Entries /\ Flow /\ NoParts \in Parts /\ NoParts.sheet = 0 /\ NoParts.dr = 0
  BY DEF IInv, NoParts, Parts
<1> DEFINE MemoOK == DOMAIN memo \subseteq Functions /\ \A f \in DOMAIN memo : EntryOK(f, memo[f])
           TakenOK == /\ taken \in Parts /\ taken.sheet <= CACHE_TTL
                      /\ taken.dr <= CACHE_TTL + FETCH_TIMEOUT
                      /\ stage # "late" => taken.dr < CACHE_TTL + FETCH_TIMEOUT
<1>1. (MemoOK' /\ TakenOK' => Entries') /\ MemoOK /\ TakenOK
  BY <1>0 DEF Entries
<1> HIDE DEF MemoOK, TakenOK
<1>2. UNCHANGED memo => MemoOK'
  BY <1>1 DEF MemoOK
<1>3. ASSUME NEW o, End(o) PROVE TakenOK'
  BY <1>0, <1>3 DEF End, TakenOK
<1>4. ASSUME NEW s, Fetch(s), s # "late", stage # "late", UNCHANGED taken PROVE TakenOK'
  BY <1>1, <1>4 DEF Fetch, TakenOK
<1>5. ASSUME NEW p \in Parts, Take(p), p.sheet <= CACHE_TTL,
             p.dr < CACHE_TTL + FETCH_TIMEOUT
      PROVE  TakenOK'
  BY <1>5 DEF Take, TakenOK, Parts
<1>6. CASE CashFromCache
  <2>1. CASE UNCHANGED memo
    BY <1>1, <1>2, <1>3, <1>6, <2>1 DEF CashFromCache
  <2>2. CASE /\ Fresh("allocation") /\ End("value")
             /\ memo' = Stored(memo, {"cash"}, memo["allocation"].parts)
    <3> DEFINE p == memo["allocation"].parts
    <3>1. EntryOK("allocation", memo["allocation"])
      BY <1>0, <2>2 DEF Fresh, Entries
    <3>2. /\ p \in Parts /\ p.dr \in Nat /\ p.sheet \in Nat
          /\ memo["allocation"].age \in Nat
      BY <3>1 DEF EntryOK, Parts
    <3>3. p.dr <= DrLag("cash") /\ p.sheet <= SheetLag("cash")
      BY <3>1, <3>2 DEF EntryOK, DrLag, SheetLag
    <3>4. MemoOK'
      <4>1. {"cash"} \in SUBSET Functions
        BY DEF Functions
      <4> QED
        BY <1>0, <2>2, <3>2, <3>3, <4>1, StoredOK DEF MemoOK
    <3> QED
      BY <1>1, <1>3, <2>2, <3>4
  <2> QED
    BY <1>6, <2>1, <2>2 DEF CashFromCache
<1>7. CASE AllocationFromCache
  BY <1>1, <1>2, <1>3, <1>7 DEF AllocationFromCache
<1>8. CASE SummaryFromCache
  BY <1>1, <1>2, <1>3, <1>8 DEF SummaryFromCache
<1>9. ASSUME NEW g \in Goals, AskSheet(g) PROVE Entries'
  BY <1>1, <1>2, <1>4, <1>9 DEF AskSheet
<1>10. CASE AskTotals
  BY <1>1, <1>2, <1>4, <1>10 DEF AskTotals
<1>11. CASE Reading
  BY <1>1, <1>2, <1>11 DEF Reading, TakenOK
<1>12. CASE SheetRead
  <2>1. CASE Fresh("dr")
    <3> DEFINE p == memo["dr"].parts
    <3>1. EntryOK("dr", memo["dr"]) /\ Take(p) /\ UNCHANGED memo
      BY <1>0, <1>12, <2>1 DEF Fresh, Entries, SheetRead
    <3>2. p \in Parts /\ p.dr \in Nat /\ p.sheet \in Nat /\ memo["dr"].age \in Nat
      BY <3>1 DEF EntryOK, Parts
    <3>3. p.sheet <= CACHE_TTL /\ p.dr < CACHE_TTL + FETCH_TIMEOUT
      BY <3>1, <3>2 DEF EntryOK, DrLag, SheetLag
    <3> QED
      BY <1>1, <1>2, <1>5, <3>1, <3>2, <3>3
  <2>2. CASE ~Fresh("dr")
    BY <1>1, <1>2, <1>4, <1>12, <2>2 DEF SheetRead
  <2> QED
    BY <2>1, <2>2
<1>13. CASE SheetFails
  BY <1>1, <1>2, <1>3, <1>13 DEF SheetFails
<1>14. CASE FinishAllocation
  <2> DEFINE p == [taken EXCEPT !.sheet = outer]
             F == {"allocation"} \cup (IF goal = "cash" THEN {"cash"} ELSE {})
  <2>1. memo' = Stored(memo, F, p) /\ F \in SUBSET Functions
    BY <1>14 DEF FinishAllocation, Functions
  <2>2. /\ p \in Parts /\ p.sheet = outer /\ p.dr = taken.dr
        /\ outer \in Nat /\ taken.dr \in Nat
    BY <1>0, <1>1 DEF TakenOK, Flow, Parts
  <2>3. p.dr <= CACHE_TTL + FETCH_TIMEOUT /\ p.sheet <= FETCH_TIMEOUT + 1
    BY <1>0, <1>1, <2>2 DEF TakenOK, Flow
  <2>4. ASSUME NEW f \in {"allocation", "cash"}
        PROVE  p.dr <= DrLag(f) /\ p.sheet <= SheetLag(f)
    BY <2>2, <2>3 DEF DrLag, SheetLag
  <2>5. MemoOK'
    BY <1>0, <2>1, <2>2, <2>4, StoredOK DEF MemoOK
  <2>6. TakenOK'
    <3>1. CASE End("value")
      BY <1>3, <3>1
    <3>2. CASE taken' = NoParts
      BY <1>0, <3>2 DEF TakenOK
    <3> QED
      BY <1>14, <3>1, <3>2 DEF FinishAllocation
  <2> QED
    BY <1>1, <2>5, <2>6
<1>15. ASSUME FinishTotals PROVE Entries'
  <2> DEFINE p == [sheet |-> 0, dr |-> inner]
  <2>1. /\ p \in Parts /\ p.sheet = 0 /\ p.dr = inner /\ inner \in Nat
        /\ inner <= FETCH_TIMEOUT
    BY <1>0 DEF Flow, Parts
  <2>2. MemoOK'
    <3>1. memo' = Stored(memo, {"dr"}, p) /\ {"dr"} \in SUBSET Functions
      BY <1>15 DEF FinishTotals, Functions
    <3>2. p.dr <= DrLag("dr") /\ p.sheet <= SheetLag("dr")
      BY <2>1 DEF DrLag, SheetLag
    <3> QED
      BY <1>0, <2>1, <3>1, <3>2, StoredOK DEF MemoOK
  <2>3. TakenOK'
    BY <1>3, <1>5, <1>15, <2>1 DEF FinishTotals
  <2> QED
    BY <1>1, <2>2, <2>3
<1>16. CASE DrRead
  <2>1. CASE stage = "dr3"
    BY <1>15, <1>16, <2>1 DEF DrRead
  <2>2. CASE stage # "dr3"
    <3>1. stage # "late" /\ After(stage) # "late"
      BY <1>16, <2>2 DEF DrRead, DrStages, After
    <3> QED
      BY <1>1, <1>2, <1>4, <1>16, <2>2, <3>1 DEF DrRead
  <2> QED
    BY <2>1, <2>2
<1>17. CASE DrReadFails
  BY <1>15, <1>17 DEF DrReadFails
<1>18. CASE FetchTimesOut
  BY <1>1, <1>2, <1>3, <1>18 DEF FetchTimesOut
<1>19. CASE Refresh
  <2>1. TakenOK'
    BY <1>1, <1>19 DEF Refresh, TakenOK
  <2>2. DOMAIN memo' = {}
    BY <1>19 DEF Refresh
  <2> QED
    BY <1>1, <2>1, <2>2 DEF MemoOK
<1>20. CASE Tick
  <2>1. MemoOK'
    BY <1>0, <1>20, AgedOK DEF Tick, MemoOK
  <2>2. TakenOK'
    <3>1. CASE stage = "total"
      <4>1. taken' = [taken EXCEPT !.dr = @ + 1] /\ stage' = "late"
        BY <1>20, <3>1 DEF Tick
      <4>2. taken.dr < CACHE_TTL + FETCH_TIMEOUT /\ taken.dr \in Nat /\ taken.sheet \in Nat
        BY <1>1, <3>1 DEF TakenOK, Parts
      <4>3. taken' \in Parts /\ taken'.dr = taken.dr + 1 /\ taken'.sheet = taken.sheet
        BY <1>1, <4>1, <4>2 DEF TakenOK, Parts
      <4> QED
        BY <1>1, <4>1, <4>2, <4>3 DEF TakenOK
    <3>2. CASE stage # "total"
      BY <1>1, <1>20, <3>2 DEF Tick, TakenOK
    <3> QED
      BY <3>1, <3>2
  <2> QED
    BY <1>1, <2>1, <2>2
<1>21. CASE UNCHANGED vars
  BY <1>1, <1>2, <1>21 DEF vars, TakenOK
<1> QED
  BY <1>6, <1>7, <1>8, <1>9, <1>10, <1>11, <1>12, <1>13, <1>14, <1>16, <1>17, <1>18, <1>19,
     <1>20, <1>21 DEF Next

(* The clock of a read of the sheet: every attempt and every back-off is   *)
(* cut off at its limit, and an answer or an error takes no tick.          *)
LEMMA PaceKept == IInv /\ [Next]_vars => Pace'
<1> SUFFICES ASSUME IInv, [Next]_vars, stage' = "sheet" PROVE Pace'
  BY DEF Pace
<1> USE Limits
<1>0. Loop /\ Flow /\ Pace
  BY DEF IInv
<1> DEFINE Kept == stage = "sheet" /\ outer' = outer
<1>1. CASE Kept /\ UNCHANGED readVars
  BY <1>0, <1>1 DEF Pace, Before, readVars
<1>2. ASSUME NEW g \in Goals, AskSheet(g) PROVE Pace'
  <2>1. outer' = outer /\ phase' = "attempt" /\ attempt' = 1 /\ spent' = 0
    BY <1>2 DEF AskSheet, Fetch, StartRead
  <2>2. outer = 0
    BY <1>0, <1>2 DEF AskSheet, Flow
  <2> QED
    BY <2>1, <2>2, BeforeGrows DEF Pace, Before
<1>3. ASSUME NEW e, AttemptFails(e), phase = "attempt", Kept PROVE Pace'
  <2>1. attempt' = attempt /\ spent' = 0 /\ phase' \in {"backoff", "raised"}
    BY <1>3 DEF AttemptFails
  <2>2. attempt \in Nat \ {0} /\ spent \in Nat /\ spent <= ATTEMPT_TIMEOUT
    BY <1>0, <1>3 DEF Loop
  <2>3. outer \in Nat /\ outer <= Before(attempt) + spent /\ Before(attempt) \in Nat
    BY <1>0, <1>3, <2>2, BeforeGrows DEF Pace, Flow
  <2>4. Before(attempt)' = Before(attempt)
    BY <2>1 DEF Before
  <2> HIDE DEF Before
  <2> QED
    BY <1>3, <2>1, <2>2, <2>3, <2>4 DEF Pace
<1>4. CASE Reading
  <2>1. Kept /\ ReadStep
    BY <1>4 DEF Reading
  <2>2. CASE Answer
    <3>1. attempt' = attempt /\ spent' = spent /\ phase' = "ok" /\ phase = "attempt"
      BY <2>2 DEF Answer
    <3>2. attempt \in Nat \ {0} /\ spent \in Nat /\ spent <= ATTEMPT_TIMEOUT
      BY <1>0, <3>1 DEF Loop
    <3>3. outer \in Nat /\ outer <= Before(attempt) + spent /\ Before(attempt) \in Nat
      BY <1>0, <2>1, <3>1, <3>2, BeforeGrows DEF Pace, Flow
    <3>4. Before(attempt)' = Before(attempt)
      BY <3>1 DEF Before
    <3> QED
      BY <2>1, <3>1, <3>2, <3>3, <3>4 DEF Pace
  <2>3. CASE AttemptTimesOut
    BY <1>3, <2>1, <2>3 DEF AttemptTimesOut
  <2>4. CASE AttemptRaises
    BY <1>3, <2>1, <2>4 DEF AttemptRaises
  <2>5. CASE NextAttempt
    <3>1. /\ attempt' = attempt + 1 /\ spent' = 0 /\ phase' = "attempt"
          /\ phase = "backoff" /\ spent = BACKOFF
      BY <2>5 DEF NextAttempt
    <3>2. attempt \in Nat \ {0}
      BY <1>0, <3>1 DEF Loop
    <3>3. /\ outer \in Nat /\ outer <= Before(attempt) + ATTEMPT_TIMEOUT + BACKOFF
          /\ Before(attempt) \in Nat
      BY <1>0, <2>1, <3>1, <3>2, BeforeGrows DEF Pace, Flow
    <3>4. Before(attempt)' = Before(attempt) + ATTEMPT_TIMEOUT + BACKOFF
      <4>1. Before(attempt)' = Before(attempt + 1)
        BY <3>1 DEF Before
      <4> QED
        BY <3>2, <4>1, BeforeGrows
    <3> QED
      BY <2>1, <3>1, <3>3, <3>4 DEF Pace
  <2> QED
    BY <2>1, <2>2, <2>3, <2>4, <2>5 DEF ReadStep
<1>5. CASE Tick
  <2>1. /\ stage = "sheet" /\ outer' = outer + 1 /\ attempt' = attempt /\ phase' = phase
        /\ phase \notin {"ok", "raised"}
        /\ phase \in {"attempt", "backoff"} => spent' = spent + 1
    BY <1>5 DEF Tick, ReadTick
  <2>2. phase \in {"attempt", "backoff"}
    BY <1>0, <2>1 DEF Loop, Pace
  <2>3. attempt \in Nat \ {0} /\ spent \in Nat
    BY <1>0, <2>2 DEF Loop
  <2>4. Before(attempt) \in Nat /\ Before(attempt)' = Before(attempt) /\ outer \in Nat
    BY <1>0, <2>1, <2>3, BeforeGrows DEF Before, Flow
  <2>5. /\ phase = "attempt" => outer <= Before(attempt) + spent
        /\ phase = "backoff" => outer <= Before(attempt) + ATTEMPT_TIMEOUT + spent
    BY <1>0, <2>1 DEF Pace
  <2> QED
    BY <2>1, <2>2, <2>3, <2>4, <2>5 DEF Pace
<1>6. CASE UNCHANGED vars
  BY <1>1, <1>6 DEF vars
<1>7. CASE Refresh
  BY <1>1, <1>7 DEF Refresh
<1>8. ~ \/ CashFromCache \/ AllocationFromCache \/ SummaryFromCache \/ SheetFails
        \/ FetchTimesOut
  BY DEF CashFromCache, AllocationFromCache, SummaryFromCache, SheetFails, FetchTimesOut, End
<1>9. ~ \/ AskTotals \/ SheetRead \/ FinishAllocation
  BY DEF AskTotals, SheetRead, FinishAllocation, End, Take, Fetch
<1>10. ~ \/ DrRead \/ DrReadFails
  BY DEF DrRead, DrReadFails, FinishTotals, End, Take, Fetch, After, DrStages
<1> QED
  BY <1>2, <1>4, <1>5, <1>6, <1>7, <1>8, <1>9, <1>10 DEF Next

(* However slow the reads are, and however the entries of the three cached *)
(* functions expire, the invariant of AllocationRead holds.                *)
THEOREM Invariance == Spec => []IInv
<1>1. IInv /\ [Next]_vars => IInv'
  BY LoopKept, FlowKept, EntriesKept, PaceKept DEF IInv
<1> QED
  BY <1>1, InitInv, PTL DEF Spec

----------------------------------------------------------------------------
(* Every entry is younger than its lifetime and no part of one older than  *)
(* three lifetimes and a fetch; no clock runs past its limit.              *)
THEOREM TypeCorrect == Spec => []TypeOK
<1>1. IInv => TypeOK
  <2> SUFFICES ASSUME IInv PROVE TypeOK
    OBVIOUS
  <2> USE Limits
  <2>1. Loop /\ Flow /\ Entries
    BY DEF IInv
  <2>2. ReadTypeOK
    BY <2>1 DEF Loop, ReadTypeOK
  <2>3. PartsOK(taken)
    <3>1. taken.sheet \in Nat /\ taken.dr \in Nat
      BY <2>1 DEF Entries, Parts
    <3> QED
      BY <2>1, <3>1 DEF Entries, PartsOK, Oldest
  <2>4. ASSUME NEW f \in DOMAIN memo
        PROVE  memo[f].age \in 0 .. CACHE_TTL - 1 /\ PartsOK(memo[f].parts)
    <3>1. EntryOK(f, memo[f])
      BY <2>1 DEF Entries
    <3>2. /\ memo[f].age \in Nat /\ memo[f].parts.sheet \in Nat
          /\ memo[f].parts.dr \in Nat
      BY <3>1 DEF EntryOK, Parts
    <3>3. DrLag(f) <= CACHE_TTL + CACHE_TTL + FETCH_TIMEOUT
      BY DEF DrLag
    <3>4. SheetLag(f) <= CACHE_TTL + CACHE_TTL + FETCH_TIMEOUT
      BY DEF SheetLag
    <3>5. DrLag(f) \in Nat /\ SheetLag(f) \in Nat
      BY DEF DrLag, SheetLag
    <3> QED
      BY <3>1, <3>2, <3>3, <3>4, <3>5 DEF EntryOK, PartsOK, Oldest
  <2> QED
    BY <2>1, <2>2, <2>3, <2>4 DEF Flow, Entries, Functions, TypeOK
<1> QED
  BY <1>1, Invariance, PTL

(* The layers of the cache add up, and nothing else does: the DR totals    *)
(* shown are at most three lifetimes and one fetch old.                    *)
THEOREM LayersAddUp == Spec => []StalenessByLayers
<1>1. IInv => StalenessByLayers
  <2> SUFFICES ASSUME IInv, NEW f \in DOMAIN memo
               PROVE  LET p == memo[f].parts
                          layers == CASE f = "dr" -> 1 [] f = "allocation" -> 2 [] OTHER -> 3
                      IN  /\ p.dr < layers * CACHE_TTL + FETCH_TIMEOUT
                          /\ f # "dr" => p.sheet <= (layers - 1) * CACHE_TTL + FETCH_TIMEOUT
    BY DEF StalenessByLayers
  <2> USE Limits
  <2>1. EntryOK(f, memo[f]) /\ f \in Functions
    BY DEF IInv, Entries
  <2>2. /\ memo[f].age \in Nat /\ memo[f].parts.sheet \in Nat
        /\ memo[f].parts.dr \in Nat
    BY <2>1 DEF EntryOK, Parts
  <2>3. CASE f = "dr"
    BY <2>1, <2>2, <2>3 DEF EntryOK, DrLag
  <2>4. CASE f = "allocation"
    BY <2>1, <2>2, <2>4 DEF EntryOK, DrLag, SheetLag
  <2>5. CASE f = "cash"
    BY <2>1, <2>2, <2>5 DEF EntryOK, DrLag, SheetLag
  <2> QED
    BY <2>1, <2>3, <2>4, <2>5 DEF Functions
<1> QED
  BY <1>1, Invariance, PTL

(* sheets_service.py:49-51: as long as the longest read is shorter than    *)
(* the fetch's limit, no number of attempts cuts the one read of the       *)
(* allocation short.                                                       *)
THEOREM RetriesFit == Spec => SingleReadFits
<1>1. IInv /\ stage = "sheet" => outer <= LongestRead
  <2> SUFFICES ASSUME IInv, stage = "sheet" PROVE outer <= LongestRead
    OBVIOUS
  <2> USE Limits
  <2>1. Loop /\ Flow /\ Pace
    BY DEF IInv
  <2>2. attempt \in 1 .. MAX_ATTEMPTS /\ spent \in Nat /\ outer \in Nat
    BY <2>1 DEF Loop, Flow, Pace
  <2>3. /\ Before(attempt) \in Nat
        /\ Before(attempt) + ATTEMPT_TIMEOUT <= LongestRead
        /\ Before(attempt + 1) = Before(attempt) + ATTEMPT_TIMEOUT + BACKOFF
    BY <2>2, BeforeGrows
  <2>4. LongestRead \in Nat
    BY DEF LongestRead
  <2>5. CASE phase = "backoff"
    <3>1. attempt + 1 \in 1 .. MAX_ATTEMPTS /\ spent <= BACKOFF
      BY <2>1, <2>2, <2>5 DEF Loop
    <3>2. Before(attempt + 1) + ATTEMPT_TIMEOUT <= LongestRead
      BY <3>1, BeforeGrows
    <3>3. outer <= Before(attempt) + ATTEMPT_TIMEOUT + spent
      BY <2>1, <2>5 DEF Pace
    <3> QED
      BY <2>2, <2>3, <2>4, <3>1, <3>2, <3>3
  <2>6. CASE phase = "attempt"
    BY <2>1, <2>2, <2>3, <2>4, <2>6 DEF Loop, Pace
  <2>7. CASE phase \in {"ok", "raised"}
    BY <2>1, <2>2, <2>3, <2>4, <2>7 DEF Pace
  <2> QED
    BY <2>1, <2>5, <2>6, <2>7 DEF Loop, Pace
<1>2. IInv /\ [Next]_vars
      => [FetchTimesOut /\ LongestRead < FETCH_TIMEOUT => stage \in DrStages]_vars
  <2> SUFFICES ASSUME IInv, FetchTimesOut, LongestRead < FETCH_TIMEOUT, stage \notin DrStages
               PROVE  FALSE
    OBVIOUS
  <2>1. stage = "sheet" /\ outer = FETCH_TIMEOUT
    BY DEF FetchTimesOut
  <2>2. LongestRead \in Nat
    BY Limits DEF LongestRead
  <2> QED
    BY <1>1, <2>1, <2>2, Limits
<1> QED
  BY <1>2, Invariance, PTL DEF Spec, SingleReadFits
=============================================================================
