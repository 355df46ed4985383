------------------------- MODULE SheetsClientProofs -------------------------
(***************************************************************************)
(* The client of sheets_service.py, for any number of worker threads and   *)
(* reloads.  Two strengthenings carry the proofs: a thread past line 34    *)
(* that would find no client has seen a reload (Crossed), and once there   *)
(* is a client only the threads already at line 35 make another (Budget).  *)
(***************************************************************************)
EXTENDS SheetsClient, FiniteSetTheorems, TLAPS

Crossed ==
    \A t \in Threads :
        /\ pc[t] = "raised" => t \in crossed
        /\ pc[t] \in {"bound", "return"} /\ client = 0 => t \in crossed

Creating == {t \in Threads : pc[t] = "create"}
N == Cardinality(Threads)

Budget ==
    IF client = 0 THEN made <= reloads * N
    ELSE made + Cardinality(Creating) <= reloads * N + N

Base == TypeOK /\ PublishedClientBounded /\ Crossed
IInv == Base /\ Budget

Line == {"idle", "create", "bound", "return", "using", "raised"}

(* Threads and their subsets are counted in Nat; products too.             *)
LEMMA Counts ==
    /\ N \in Nat
    /\ \A S \in SUBSET Threads :
        IsFiniteSet(S) /\ Cardinality(S) \in Nat /\ Cardinality(S) <= N
    /\ \A n \in Nat : n * N \in Nat /\ (n + 1) * N = n * N + N
<1>1. N \in Nat
  BY SheetsClientConstants, FS_CardinalityType DEF N
<1>2. ASSUME NEW S \in SUBSET Threads
      PROVE  IsFiniteSet(S) /\ Cardinality(S) \in Nat /\ Cardinality(S) <= N
  BY SheetsClientConstants, FS_Subset, FS_CardinalityType DEF N
<1>3. \A m, n \in Nat : n * m \in Nat /\ (n + 1) * m = n * m + m
  OBVIOUS
<1> QED
  BY <1>1, <1>2, <1>3

LEMMA InitInv == Init => IInv
<1> SUFFICES ASSUME Init PROVE IInv
  OBVIOUS
<1>1. Base
  BY SheetsClientConstants DEF Init, Base, TypeOK, PublishedClientBounded, Crossed
<1>2. Budget
  BY Counts DEF Init, Budget
<1> QED
  BY <1>1, <1>2 DEF IInv

----------------------------------------------------------------------------
LEMMA BaseKept == Base /\ [Next]_vars => Base'
<1> SUFFICES ASSUME Base, [Next]_vars PROVE Base'
  OBVIOUS
<1> USE DEF Base, TypeOK, PublishedClientBounded, Crossed
<1>1. ASSUME NEW t \in Threads, Check(t) PROVE Base'
  BY <1>1 DEF Check
<1>2. ASSUME NEW t \in Threads, Create(t) PROVE Base'
  <2>1. made' \in 0 .. MaxClients /\ client' \in 0 .. made' /\ client' # 0
        /\ 0 .. made \subseteq 0 .. made' /\ 1 .. made \subseteq 1 .. made'
    BY <1>2, SheetsClientConstants DEF Create
  <2> QED
    BY <1>2, <2>1 DEF Create
<1>3. ASSUME NEW t \in Threads, Bound(t) PROVE Base'
  <2>1. client # 0 => client \in 1 .. made
    BY SheetsClientConstants
  <2> QED
    BY <1>3, <2>1 DEF Bound
<1>4. ASSUME NEW t \in Threads, Return(t) PROVE Base'
  BY <1>4 DEF Return
<1>5. ASSUME NEW t \in Threads, Done(t) PROVE Base'
  <2>1. 0 \in 0 .. made
    BY SheetsClientConstants
  <2> QED
    BY <1>5, <2>1 DEF Done
<1>6. CASE Invalidate
  <2>1. 0 \in 0 .. made /\ reloads' \in 0 .. MaxReloads
    BY <1>6, SheetsClientConstants DEF Invalidate
  <2> QED
    BY <1>6, <2>1 DEF Invalidate
<1>7. CASE UNCHANGED vars
  BY <1>7 DEF vars
<1> QED
  BY <1>1, <1>2, <1>3, <1>4, <1>5, <1>6, <1>7 DEF Next

LEMMA BudgetKept == IInv /\ [Next]_vars => Budget'
<1> SUFFICES ASSUME IInv, [Next]_vars PROVE Budget'
  OBVIOUS
<1>1. /\ pc \in [Threads -> Line] /\ made \in Nat /\ reloads \in Nat
      /\ Budget
  BY SheetsClientConstants DEF IInv, Base, TypeOK, Line
<1>2. /\ Creating \in SUBSET Threads /\ Creating' \in SUBSET Threads
      /\ Cardinality(Creating) \in Nat /\ Cardinality(Creating') \in Nat
      /\ Cardinality(Creating') <= N
  <2>1. Creating \in SUBSET Threads /\ Creating' \in SUBSET Threads
    BY DEF Creating
  <2> QED
    BY <2>1, Counts
<1>3. ASSUME Creating' \subseteq Creating, UNCHANGED <<client, made, reloads>>
      PROVE  Budget'
  <2>1. Cardinality(Creating') <= Cardinality(Creating)
    BY <1>2, <1>3, Counts, FS_Subset
  <2> QED
    BY <1>1, <1>2, <1>3, <2>1, Counts DEF Budget
<1>4. ASSUME NEW t \in Threads, Check(t) PROVE Budget'
  <2>1. CASE client = 0
    BY <1>1, <1>4, <2>1 DEF Check, Budget
  <2>2. CASE client # 0
    BY <1>1, <1>3, <1>4, <2>2 DEF Check, Creating
  <2> QED
    BY <2>1, <2>2
<1>5. ASSUME NEW t \in Threads, Create(t) PROVE Budget'
  <2>1. Creating' = Creating \ {t} /\ t \in Creating
    BY <1>1, <1>5 DEF Create, Creating
  <2>2. Cardinality(Creating') = Cardinality(Creating) - 1
    BY <1>2, <2>1, Counts, FS_RemoveElement
  <2>3. client' # 0 /\ made' = made + 1 /\ reloads' = reloads
    BY <1>1, <1>5 DEF Create
  <2>4. Cardinality(Creating) <= N /\ reloads * N \in Nat /\ N \in Nat
    BY <1>1, <1>2, Counts
  <2> QED
    BY <1>1, <1>2, <2>2, <2>3, <2>4 DEF Budget
<1>6. ASSUME NEW t \in Threads, Bound(t) \/ Return(t) \/ Done(t) PROVE Budget'
  BY <1>1, <1>3, <1>6 DEF Bound, Return, Done, Creating
<1>7. CASE Invalidate
  <2>1. client' = 0 /\ made' = made /\ reloads' = reloads + 1
    BY <1>7 DEF Invalidate
  <2>2. reloads * N \in Nat /\ N \in Nat /\ (reloads + 1) * N = reloads * N + N
    BY <1>1, Counts
  <2>3. made <= reloads * N + N
    BY <1>1, <1>2, <2>2 DEF Budget
  <2> QED
    BY <2>1, <2>2, <2>3 DEF Budget
<1>8. CASE UNCHANGED vars
  BY <1>3, <1>8 DEF vars, Creating
<1> QED
  BY <1>4, <1>5, <1>6, <1>7, <1>8 DEF Next

LEMMA NextInv == IInv /\ [Next]_vars => IInv'
BY BaseKept, BudgetKept DEF IInv

(* However the threads in _get_client and invalidate_client interleave,    *)
(* the invariant holds: what each thread has seen, and how many made one.  *)
THEOREM Invariance == Spec => []IInv
BY InitInv, NextInv, PTL DEF Spec

----------------------------------------------------------------------------
(* Every reachable state of the module's globals is well typed.            *)
THEOREM TypeCorrect == Spec => []TypeOK
<1>1. IInv => TypeOK
  BY DEF IInv, Base
<1> QED
  BY <1>1, Invariance, PTL

(* Lines 36-39: whenever the thread that made the published client is not  *)
(* between publication and time-out, that client has its time-out.         *)
THEOREM PublishedBounded == Spec => []PublishedClientBounded
<1>1. IInv => PublishedClientBounded
  BY DEF IInv, Base
<1> QED
  BY <1>1, Invariance, PTL

(* The AttributeError on None needs a reload in the middle of a call.      *)
THEOREM RaisesOnlyCrossed == Spec => []FailsOnlyAcrossReload
<1>1. IInv => FailsOnlyAcrossReload
  BY DEF IInv, Base, Crossed, FailsOnlyAcrossReload
<1> QED
  BY <1>1, Invariance, PTL

(* However the threads race, no more than one client per thread is made    *)
(* between two reloads.                                                    *)
THEOREM ClientsBounded == Spec => []ClientsPerReload
<1>1. IInv => ClientsPerReload
  <2> SUFFICES ASSUME IInv PROVE ClientsPerReload
    OBVIOUS
  <2>1. made \in Nat /\ reloads \in Nat /\ Budget
    BY SheetsClientConstants DEF IInv, Base, TypeOK
  <2>2. Creating \in SUBSET Threads
    BY DEF Creating
  <2>3. /\ N \in Nat /\ reloads * N \in Nat /\ Cardinality(Creating) \in Nat
        /\ (reloads + 1) * N = reloads * N + N
    BY <2>1, <2>2, Counts
  <2>4. made <= (reloads + 1) * N
    BY <2>1, <2>3 DEF Budget
  <2> QED
    BY <2>4 DEF ClientsPerReload, N
<1> QED
  BY <1>1, Invariance, PTL
=============================================================================
