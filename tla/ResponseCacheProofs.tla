------------------------- MODULE ResponseCacheProofs -------------------------
(***************************************************************************)
(* Proofs about services/cache.py, for any number of tasks and keys and    *)
(* any time limits.  The inductive invariant CacheInv says of the state    *)
(* what the properties of ResponseCache rest on.                           *)
(***************************************************************************)
EXTENDS ResponseCache, TLAPS

(* A task inside the wrapper has chosen its lock. *)
LockChosen == \A t \in Tasks : pc[t] # "idle" => lock[t] \in Keys \X Era

(* What a fetch has read is no older than the fetch, and was not read      *)
(* after more calls of clear_cache than there have been.                   *)
DataLag ==
    \A t \in Tasks : data[t].old <= fetching[t] /\ data[t].era <= clears

(* A stored value is older than its entry by the lag of one fetch. *)
EntryLag == \A k \in DOMAIN cache : cache[k].val.old <= MaxLag + cache[k].age

(* While a task fetches, no fresh entry of its key is from its own lock. *)
EntryOfOther ==
    \A t \in Tasks :
        Fetching(t) /\ Fresh(lock[t][1]) => cache[lock[t][1]].by # lock[t][2]

TaskInv ==
    /\ TaskTypeOK
    /\ LockChosen
    /\ DataLag
    /\ LockSafety
    /\ StalenessBounded

EntryInv ==
    /\ CacheTypeOK
    /\ EntryLag
    /\ EntryOfOther

CacheInv == TaskInv /\ EntryInv

----------------------------------------------------------------------------
(* Facts about the data the module is built from. *)

LEMMA LimitsTyped ==
    /\ MaxLag \in Nat
    /\ MaxLag = FETCH_TIMEOUT + LATE
    /\ MaxLag < CACHE_TTL + MaxLag
    /\ CACHE_TTL \in Nat
    /\ MaxLag + CACHE_TTL \in Nat
    /\ 0 \in Era
  BY CacheConstants DEF MaxLag, Era

LEMMA ConstantsTyped ==
    /\ NoData \in Value
    /\ Pending \in Outcome
    /\ Raised \in Outcome
    /\ Pending.how # "returned" /\ Raised.how # "returned"
    /\ \A v \in Value : Returned(v) \in Outcome /\ Returned(v).val = v
  BY LimitsTyped DEF NoData, Value, Pending, Raised, Returned, Outcome

(* The lock a task takes or queues for is one of its key. *)
LEMMA LockOfTyped ==
    ASSUME CacheTypeOK, clears \in Era, NEW k \in Keys
    PROVE  /\ LockOf(k) \in Keys \X Era
           /\ LockOf(k)[1] = k
           /\ LockOf(k)[2] \in Era
  BY DEF LockOf, CacheTypeOK

(* An entry that may be served is young, and its value not much older. *)
LEMMA FreshIsYoung ==
    ASSUME CacheTypeOK, EntryLag, NEW k, Fresh(k)
    PROVE  /\ cache[k].val \in Value
           /\ cache[k].val.old < CACHE_TTL + MaxLag
  <1>1. cache[k] \in Entry /\ cache[k].age < CACHE_TTL
    BY DEF Fresh, CacheTypeOK
  <1>2. cache[k].val.old <= MaxLag + cache[k].age
    BY DEF Fresh, EntryLag
  <1>3. cache[k].age \in Nat /\ cache[k].val \in Value
    BY <1>1, LimitsTyped DEF Entry
  <1>4. cache[k].val.old \in Nat
    BY <1>3, LimitsTyped DEF Value
  <1> QED
    BY <1>1, <1>2, <1>3, <1>4, LimitsTyped

----------------------------------------------------------------------------
LEMMA InitInv == Init => CacheInv
  <1> SUFFICES ASSUME Init PROVE CacheInv
    OBVIOUS
  <1>1. DOMAIN cache = {} /\ DOMAIN key_locks = {}
    BY DEF Init
  <1>2. TaskTypeOK
    BY ConstantsTyped, CacheConstants, LimitsTyped DEF Init, TaskTypeOK
  <1>3. TaskInv
    BY <1>2, ConstantsTyped, LimitsTyped
    DEF Init, TaskInv, LockChosen, DataLag, LockSafety, StalenessBounded,
        Fetching, NoData, Era
  <1>4. EntryInv
    BY <1>1 DEF EntryInv, CacheTypeOK, EntryLag, EntryOfOther, Fetching, Init
  <1> QED
    BY <1>3, <1>4 DEF CacheInv

(* However a call ends, what the other tasks rest on is kept: the lock it  *)
(* held is free, and the lock of every other fetch is still held.          *)
LEMMA LeaveKeeps ==
    ASSUME TaskInv,
           NEW t \in Tasks,
           NEW a \in Outcome,
           a.how = "returned" => a.val.old < CACHE_TTL + MaxLag,
           Leave(t, a),
           UNCHANGED clears
    PROVE  TaskInv'
  <1> USE DEF TaskInv
  <1>1. TaskTypeOK'
    BY ConstantsTyped, LimitsTyped, CacheConstants DEF TaskTypeOK, Leave
  <1>2. /\ pc'[t] = "idle"
        /\ \A u \in Tasks \ {t} : /\ pc'[u] = pc[u]
                                  /\ lock'[u] = lock[u]
                                  /\ data'[u] = data[u]
                                  /\ fetching'[u] = fetching[u]
                                  /\ out'[u] = out[u]
    BY DEF TaskTypeOK, Leave
  <1>3. LockChosen'
    BY <1>2 DEF LockChosen
  <1>4. DataLag'
    <2>1. data'[t].old = 0 /\ data'[t].era = 0 /\ fetching'[t] = 0
      BY DEF TaskTypeOK, Leave, NoData
    <2> QED
      BY <1>1, <1>2, <2>1 DEF DataLag, TaskTypeOK, Era
  <1>5. LockSafety'
    <2>1. \A u \in Tasks : Fetching(u)' => u # t /\ Fetching(u)
      BY <1>2 DEF Fetching
    <2>2. \A u \in Tasks : Fetching(u) /\ u # t => Fetching(u)'
      BY <1>2 DEF Fetching
    <2>3. held' = IF Fetching(t) THEN held \ {lock[t]} ELSE held
      BY DEF Leave
    <2> QED
      BY <1>2, <2>1, <2>2, <2>3 DEF LockSafety
  <1>6. StalenessBounded'
    BY <1>2 DEF StalenessBounded, TaskTypeOK, Leave
  <1> QED
    BY <1>1, <1>3, <1>4, <1>5, <1>6
----------------------------------------------------------------------------
(* Storing the result of a fetch under its key. *)
Stored(t) ==
    cache' = Put(cache, lock[t][1],
                 [age |-> 0, val |-> data[t], by |-> lock[t][2]])

(* The invariant of the entries is kept when nothing is stored and no task *)
(* that fetches now did not fetch before, under the same lock.             *)
LEMMA EntriesKept ==
    ASSUME EntryInv,
           UNCHANGED <<cache, key_locks>>,
           \A t \in Tasks : Fetching(t)' => Fetching(t) /\ lock'[t] = lock[t]
    PROVE  EntryInv'
  BY DEF EntryInv, CacheTypeOK, EntryLag, EntryOfOther, Fresh

LEMMA CallHitKeeps ==
    ASSUME CacheInv, NEW t \in Tasks, NEW k \in Keys, CallHit(t, k)
    PROVE  CacheInv'
  <1> USE DEF CacheInv
  <1>1. cache[k].val \in Value /\ cache[k].val.old < CACHE_TTL + MaxLag
    BY FreshIsYoung DEF CallHit, EntryInv
  <1>2. TaskTypeOK'
    BY <1>1, ConstantsTyped DEF TaskInv, TaskTypeOK, CallHit
  <1>3. StalenessBounded'
    BY <1>1, ConstantsTyped
    DEF TaskInv, StalenessBounded, TaskTypeOK, CallHit
  <1>4. LockChosen' /\ DataLag' /\ LockSafety'
    BY DEF TaskInv, CallHit, LockChosen, DataLag, LockSafety, Fetching
  <1>5. EntryInv'
    BY EntriesKept DEF CallHit, Fetching
  <1> QED
    BY <1>2, <1>3, <1>4, <1>5 DEF TaskInv

(* A miss on a lock that is free starts the one fetch under it; a miss on  *)
(* one that is not puts the task behind all that wait.                     *)
LEMMA CallMissKeeps ==
    ASSUME CacheInv, NEW t \in Tasks, NEW k \in Keys, CallMiss(t, k)
    PROVE  CacheInv'
  <1> USE DEF CacheInv
  <1> DEFINE l == LockOf(k)
  <1>1. l \in Keys \X Era /\ l[1] = k /\ l[2] \in Era
    BY LockOfTyped DEF EntryInv, TaskInv, TaskTypeOK
  <1>2. /\ lock'[t] = l
        /\ pc'[t] \in {"wait", "fetch"}
        /\ \A u \in Tasks \ {t} : pc'[u] = pc[u] /\ lock'[u] = lock[u]
        /\ ~Fetching(t)
    BY DEF TaskInv, TaskTypeOK, CallMiss, Fetching
  <1>3. TaskTypeOK'
    BY <1>1, ConstantsTyped DEF TaskInv, TaskTypeOK, CallMiss, Waiters
  <1>4. LockChosen'
    BY <1>1, <1>2 DEF TaskInv, LockChosen
  <1>5. DataLag' /\ StalenessBounded'
    BY ConstantsTyped
    DEF TaskInv, TaskTypeOK, DataLag, StalenessBounded, CallMiss
  <1>6. LockSafety'
    <2>1. CASE Free(l)
      <3>1. pc'[t] = "fetch" /\ held' = held \cup {l}
        BY <2>1 DEF CallMiss, TaskInv, TaskTypeOK
      <3>2. l \notin held
        BY <2>1 DEF Free
      <3>3. \A u \in Tasks : Fetching(u)' <=> u = t \/ Fetching(u)
        BY <1>2, <3>1 DEF Fetching
      <3> QED
        BY <1>2, <3>1, <3>2, <3>3 DEF TaskInv, LockSafety
    <2>2. CASE ~Free(l)
      <3>1. pc'[t] = "wait" /\ held' = held
        BY <2>2 DEF CallMiss, TaskInv, TaskTypeOK
      <3>2. \A u \in Tasks : Fetching(u)' <=> Fetching(u)
        BY <1>2, <3>1 DEF Fetching
      <3> QED
        BY <1>2, <3>1, <3>2 DEF TaskInv, LockSafety
    <2> QED
      BY <2>1, <2>2
  <1>7. EntryInv'
    <2>1. CacheTypeOK'
      <3>1. /\ DOMAIN key_locks' = DOMAIN key_locks \cup {k}
            /\ key_locks'[k] = l[2]
            /\ \A j \in DOMAIN key_locks : j # k => key_locks'[j] = key_locks[j]
        BY DEF CallMiss, Put
      <3> QED
        BY <1>1, <3>1 DEF EntryInv, CacheTypeOK, CallMiss
    <2>2. EntryLag'
      BY DEF EntryInv, EntryLag, CallMiss
    <2>3. ~Fresh(k) /\ cache' = cache
      BY DEF CallMiss
    <2>4. EntryOfOther'
      BY <1>1, <1>2, <2>3 DEF EntryInv, EntryOfOther, Fetching, Fresh
    <2> QED
      BY <2>1, <2>2, <2>4 DEF EntryInv
  <1> QED
    BY <1>3, <1>4, <1>5, <1>6, <1>7 DEF TaskInv

(* A task at its turn finds a fresh entry and leaves, or starts the one    *)
(* fetch under the lock it has been handed.                                *)
LEMMA WakeKeeps ==
    ASSUME CacheInv, NEW t \in Tasks, Wake(t)
    PROVE  CacheInv'
  <1> USE DEF CacheInv
  <1> DEFINE k == lock[t][1]
  <1>1. pc[t] = "wait" /\ lock[t] \notin held /\ ~Fetching(t)
    BY DEF Wake, Turn, Fetching
  <1>2. CASE Fresh(k)
    <2>1. cache[k].val \in Value /\ cache[k].val.old < CACHE_TTL + MaxLag
      BY <1>2, FreshIsYoung DEF EntryInv
    <2>2. Leave(t, Returned(cache[k].val)) /\ UNCHANGED <<cache, key_locks, clears>>
      BY <1>2 DEF Wake
    <2>3. TaskInv'
      BY <2>1, <2>2, LeaveKeeps, ConstantsTyped
    <2>4. \A u \in Tasks : Fetching(u)' => Fetching(u) /\ lock'[u] = lock[u]
      BY <2>2 DEF Leave, Fetching, TaskInv, TaskTypeOK
    <2>5. EntryInv'
      BY <2>2, <2>4, EntriesKept
    <2> QED
      BY <2>3, <2>5
  <1>3. CASE ~Fresh(k)
    <2>1. /\ pc' = [pc EXCEPT ![t] = "fetch"]
          /\ held' = held \cup {lock[t]}
          /\ ahead' = [u \in Tasks |-> ahead[u] \ {t}]
          /\ UNCHANGED <<cache, key_locks, clears, lock, parked, fetching,
                         data, out>>
      BY <1>3 DEF Wake
    <2>2. lock[t] \in Keys \X Era
      BY <1>1 DEF TaskInv, LockChosen
    <2>3. /\ pc'[t] = "fetch"
          /\ \A u \in Tasks \ {t} : pc'[u] = pc[u]
          /\ \A u \in Tasks : Fetching(u)' <=> u = t \/ Fetching(u)
      BY <2>1 DEF TaskInv, TaskTypeOK, Fetching
    <2>4. TaskTypeOK'
      BY <2>1, <2>2 DEF TaskInv, TaskTypeOK
    <2>5. LockChosen' /\ DataLag' /\ StalenessBounded'
      BY <2>1, <2>2, <2>3
      DEF TaskInv, LockChosen, DataLag, StalenessBounded
    <2>6. LockSafety'
      BY <1>1, <2>1, <2>3 DEF TaskInv, LockSafety
    <2>7. EntryInv'
      <3>1. EntryOfOther'
        BY <1>3, <2>1, <2>3 DEF EntryInv, EntryOfOther, Fresh
      <3> QED
        BY <2>1, <3>1 DEF EntryInv, CacheTypeOK, EntryLag
    <2> QED
      BY <2>4, <2>5, <2>6, <2>7 DEF TaskInv
  <1> QED
    BY <1>2, <1>3

LEMMA SourceReadKeeps ==
    ASSUME CacheInv, NEW t \in Tasks, SourceRead(t)
    PROVE  CacheInv'
  <1> USE DEF CacheInv
  <1> DEFINE d == [era |-> clears, old |-> 0]
  <1>1. d \in Value
    BY LimitsTyped DEF TaskInv, TaskTypeOK, Value
  <1>2. TaskTypeOK'
    BY <1>1 DEF TaskInv, TaskTypeOK, SourceRead
  <1>3. \A u \in Tasks : /\ Fetching(u)' <=> Fetching(u)
                         /\ pc'[u] = "wait" <=> pc[u] = "wait"
                         /\ pc'[u] # "idle" => pc[u] # "idle"
    BY DEF SourceRead, Fetching, TaskInv, TaskTypeOK
  <1>4. LockChosen' /\ LockSafety' /\ StalenessBounded'
    BY <1>3 DEF TaskInv, LockChosen, LockSafety, StalenessBounded,
                SourceRead
  <1>5. DataLag'
    BY LimitsTyped DEF TaskInv, TaskTypeOK, DataLag, SourceRead, Era
  <1>6. EntryInv'
    BY <1>3, EntriesKept DEF SourceRead
  <1> QED
    BY <1>2, <1>4, <1>5, <1>6 DEF TaskInv

(* The result of a fetch is stored while it is young, and its lock is      *)
(* released; the fetches under other locks of the key do not notice.       *)
LEMMA StoreKeeps ==
    ASSUME CacheInv, NEW t \in Tasks, Store(t)
    PROVE  CacheInv'
  <1> USE DEF CacheInv
  <1> DEFINE k == lock[t][1]
             e == [age |-> 0, val |-> data[t], by |-> lock[t][2]]
  <1>1. Fetching(t) /\ lock[t] \in Keys \X Era
    BY DEF Store, Fetching, TaskInv, LockChosen
  <1>2. /\ data[t] \in Value
        /\ data[t].old <= MaxLag
    <2>1. data[t] \in Value /\ fetching[t] \in 0 .. MaxLag
      BY DEF TaskInv, TaskTypeOK, MaxLag
    <2>2. data[t].old \in Nat /\ data[t].old <= fetching[t]
      BY <2>1, LimitsTyped DEF TaskInv, DataLag, Value
    <2> QED
      BY <2>1, <2>2, LimitsTyped
  <1>3. data[t].old \in Nat /\ data[t].old < CACHE_TTL + MaxLag
    BY <1>2, LimitsTyped DEF Value
  <1>4. Leave(t, Returned(data[t])) /\ UNCHANGED <<key_locks, clears>>
    BY DEF Store
  <1>5. TaskInv'
    BY <1>2, <1>3, <1>4, LeaveKeeps, ConstantsTyped
  <1>6. /\ DOMAIN cache' = DOMAIN cache \cup {k}
        /\ cache'[k] = e
        /\ \A j \in DOMAIN cache : j # k => cache'[j] = cache[j]
    BY DEF Store, Put
  <1>7. e \in Entry
    BY <1>1, <1>2, LimitsTyped DEF Entry
  <1>8. CacheTypeOK'
    BY <1>1, <1>4, <1>6, <1>7 DEF EntryInv, CacheTypeOK
  <1>9. EntryLag'
    BY <1>2, <1>3, <1>6, LimitsTyped DEF EntryInv, EntryLag
  <1>10. EntryOfOther'
    <2> SUFFICES ASSUME NEW u \in Tasks, Fetching(u)', Fresh(lock[u][1])'
                 PROVE  cache'[lock'[u][1]].by # lock'[u][2]
      BY DEF EntryOfOther
    <2>1. u # t /\ Fetching(u) /\ lock'[u] = lock[u]
      BY <1>4 DEF Leave, Fetching, TaskInv, TaskTypeOK
    <2>2. lock[u] \in Keys \X Era /\ lock[u] # lock[t]
      BY <1>1, <2>1 DEF TaskInv, LockChosen, LockSafety, Fetching
    <2>3. CASE lock[u][1] = k
      BY <1>1, <1>6, <2>1, <2>2, <2>3
    <2>4. CASE lock[u][1] # k
      <3>1. lock[u][1] \in DOMAIN cache /\ cache'[lock[u][1]] = cache[lock[u][1]]
        BY <1>6, <2>1, <2>4 DEF Fresh
      <3>2. Fresh(lock[u][1])
        BY <2>1, <3>1 DEF Fresh
      <3> QED
        BY <2>1, <3>1, <3>2 DEF EntryInv, EntryOfOther
    <2> QED
      BY <2>3, <2>4
  <1> QED
    BY <1>5, <1>8, <1>9, <1>10 DEF EntryInv

(* A call that ends with an exception, by itself, by cancellation or by a  *)
(* timeout. *)
LEMMA RaisedKeeps ==
    ASSUME CacheInv, NEW t \in Tasks, Leave(t, Raised),
           UNCHANGED <<cache, key_locks, clears>>
    PROVE  CacheInv'
  <1>1. TaskInv'
    BY LeaveKeeps, ConstantsTyped DEF CacheInv
  <1>2. \A u \in Tasks : Fetching(u)' => Fetching(u) /\ lock'[u] = lock[u]
    BY DEF Leave, Fetching, CacheInv, TaskInv, TaskTypeOK
  <1> QED
    BY <1>1, <1>2, EntriesKept DEF CacheInv

LEMMA ClearKeeps ==
    ASSUME CacheInv, Clear
    PROVE  CacheInv'
  <1> USE DEF CacheInv
  <1>1. DOMAIN cache' = {} /\ DOMAIN key_locks' = {}
    BY DEF Clear
  <1>2. EntryInv'
    BY <1>1 DEF EntryInv, CacheTypeOK, EntryLag, EntryOfOther, Fresh
  <1>3. clears \in Era /\ clears' \in Era /\ clears < clears'
    BY CacheConstants DEF TaskInv, TaskTypeOK, Clear, Era
  <1>4. DataLag'
    <2> SUFFICES ASSUME NEW t \in Tasks
                 PROVE  data'[t].old <= fetching'[t] /\ data'[t].era <= clears'
      BY DEF DataLag
    <2>1. data[t].era \in Era
      BY DEF TaskInv, TaskTypeOK, Value
    <2> QED
      BY <1>3, <2>1, CacheConstants DEF TaskInv, DataLag, Clear, Era
  <1>5. TaskInv'
    BY <1>3, <1>4
    DEF TaskInv, TaskTypeOK, LockChosen, LockSafety, StalenessBounded,
        Fetching, Clear
  <1> QED
    BY <1>2, <1>5

(* A tick ages the timers, which none has passed by more than LATE, and    *)
(* the entries, which stop ageing when they have expired.                  *)
LEMMA TickKeeps ==
    ASSUME CacheInv, Tick
    PROVE  CacheInv'
  <1> USE DEF CacheInv
  <1>1. ASSUME NEW t \in Tasks
        PROVE  /\ parked'[t] \in 0 .. LOCK_WAIT_TIMEOUT + LATE
               /\ fetching'[t] \in 0 .. FETCH_TIMEOUT + LATE
               /\ data'[t] \in Value
               /\ data'[t].old <= fetching'[t] /\ data'[t].era <= clears'
    <2>1. parked[t] \in Nat /\ fetching[t] \in 0 .. MaxLag /\ data[t] \in Value
      BY CacheConstants DEF TaskInv, TaskTypeOK, MaxLag
    <2>2. parked'[t] = IF pc[t] = "idle" THEN 0 ELSE parked[t] + 1
      BY DEF Tick
    <2>3. parked'[t] \in 0 .. LOCK_WAIT_TIMEOUT + LATE
      BY <2>1, <2>2, CacheConstants DEF Tick, Overdue
    <2>4. fetching'[t] = IF Fetching(t) THEN fetching[t] + 1 ELSE 0
      BY DEF Tick
    <2>5. fetching'[t] \in 0 .. MaxLag
      BY <2>1, <2>4, CacheConstants, LimitsTyped DEF Tick, Overdue
    <2>6. data[t].old \in Nat /\ data[t].era \in Era
      BY <2>1, LimitsTyped DEF Value
    <2>7. clears \in Era /\ clears' = clears /\ \A n \in Era : n \in Nat
      BY CacheConstants DEF Tick, TaskInv, TaskTypeOK, Era
    <2>8. CASE pc[t] = "read"
      <3>1. /\ data'[t].old = data[t].old + 1
            /\ data'[t].era = data[t].era
            /\ data'[t] = [data[t] EXCEPT !.old = data[t].old + 1]
        BY <2>1, <2>8 DEF Tick, Value
      <3>2. Fetching(t) /\ data[t].old <= fetching[t] /\ data[t].era <= clears
        BY <2>8 DEF Fetching, TaskInv, DataLag
      <3>3. data'[t].old <= fetching'[t] /\ data'[t].era <= clears'
        BY <2>1, <2>4, <2>6, <2>7, <3>1, <3>2, LimitsTyped
      <3>4. data[t].old + 1 \in 0 .. MaxLag + CACHE_TTL
        BY <2>1, <2>5, <2>6, <3>1, <3>3, LimitsTyped
      <3>5. data'[t] \in Value
        BY <2>1, <3>1, <3>4 DEF Value
      <3> QED
        BY <2>3, <2>5, <3>3, <3>5, LimitsTyped
    <2>9. CASE pc[t] # "read"
      <3>1. data'[t] = NoData
        BY <2>9 DEF Tick
      <3>2. data'[t].old = 0 /\ data'[t].era = 0 /\ data'[t] \in Value
        BY <3>1, ConstantsTyped DEF NoData
      <3> QED
        BY <2>3, <2>5, <2>7, <3>2, LimitsTyped
    <2> QED
      BY <2>8, <2>9
  <1>2. TaskTypeOK'
    BY <1>1 DEF Tick, TaskInv, TaskTypeOK
  <1>3. DataLag'
    BY <1>1 DEF DataLag
  <1>4. LockChosen' /\ LockSafety' /\ StalenessBounded'
    BY DEF Tick, TaskInv, LockChosen, LockSafety, StalenessBounded,
           Fetching
  <1>5. ASSUME NEW k \in DOMAIN cache
        PROVE  /\ cache'[k] \in Entry
               /\ cache'[k].val.old <= MaxLag + cache'[k].age
               /\ cache'[k].by = cache[k].by
               /\ cache'[k].age < CACHE_TTL => cache[k].age < CACHE_TTL
    <2>1. /\ cache[k] \in Entry
          /\ cache[k].val \in Value
          /\ cache[k].age \in 0 .. CACHE_TTL
          /\ cache[k].val.old \in Nat
          /\ cache[k].val.old <= MaxLag + cache[k].age
      BY LimitsTyped DEF EntryInv, CacheTypeOK, EntryLag, Entry, Value
    <2>2. cache'[k] = IF Fresh(k) THEN Older(cache[k]) ELSE cache[k]
      BY DEF Tick
    <2>3. CASE Fresh(k)
      <3>1. cache[k].age < CACHE_TTL
        BY <2>3 DEF Fresh
      <3> DEFINE v == [era |-> cache[k].val.era, old |-> cache[k].val.old + 1]
      <3>2. cache'[k] = [age |-> cache[k].age + 1, val |-> v, by |-> cache[k].by]
        BY <2>1, <2>2, <2>3 DEF Older, Entry, Value
      <3>3. cache[k].age + 1 \in 0 .. CACHE_TTL
        BY <2>1, <3>1, LimitsTyped
      <3>4. cache[k].val.old + 1 \in 0 .. MaxLag + CACHE_TTL
        BY <2>1, <3>1, LimitsTyped
      <3>5. v \in Value
        BY <2>1, <3>4 DEF Value
      <3>6. cache[k].val.old + 1 <= MaxLag + (cache[k].age + 1)
        BY <2>1, LimitsTyped
      <3>7. cache'[k] \in Entry
        BY <2>1, <3>2, <3>3, <3>5 DEF Entry
      <3>8. /\ cache'[k].val.old = cache[k].val.old + 1
            /\ cache'[k].age = cache[k].age + 1
            /\ cache'[k].by = cache[k].by
        BY <3>2
      <3> QED
        BY <3>1, <3>6, <3>7, <3>8
    <2>4. CASE ~Fresh(k)
      BY <2>1, <2>2, <2>4
    <2> QED
      BY <2>3, <2>4
  <1>6. DOMAIN cache' = DOMAIN cache
    BY DEF Tick
  <1>7. CacheTypeOK' /\ EntryLag'
    BY <1>5, <1>6 DEF EntryInv, CacheTypeOK, EntryLag, Tick
  <1>8. EntryOfOther'
    BY <1>5, <1>6 DEF EntryInv, EntryOfOther, Fresh, Fetching, Tick
  <1> QED
    BY <1>2, <1>3, <1>4, <1>7, <1>8 DEF TaskInv, EntryInv

----------------------------------------------------------------------------
LEMMA NextInv == CacheInv /\ [Next]_vars => CacheInv'
  <1> SUFFICES ASSUME CacheInv, [Next]_vars PROVE CacheInv'
    OBVIOUS
  <1>1. ASSUME NEW t \in Tasks, NEW k \in Keys, CallHit(t, k) PROVE CacheInv'
    BY <1>1, CallHitKeeps
  <1>2. ASSUME NEW t \in Tasks, NEW k \in Keys, CallMiss(t, k) PROVE CacheInv'
    BY <1>2, CallMissKeeps
  <1>3. ASSUME NEW t \in Tasks, Wake(t) PROVE CacheInv'
    BY <1>3, WakeKeeps
  <1>4. ASSUME NEW t \in Tasks, SourceRead(t) PROVE CacheInv'
    BY <1>4, SourceReadKeeps
  <1>5. ASSUME NEW t \in Tasks, Store(t) PROVE CacheInv'
    BY <1>5, StoreKeeps
  <1>6. ASSUME NEW t \in Tasks, Raise(t) \/ TimeOut(t) PROVE CacheInv'
    BY <1>6, RaisedKeeps DEF Raise, TimeOut
  <1>7. CASE Clear
    BY <1>7, ClearKeeps
  <1>8. CASE Tick
    BY <1>8, TickKeeps
  <1>9. CASE UNCHANGED vars
    BY <1>9
    DEF vars, CacheInv, TaskInv, EntryInv, TaskTypeOK, CacheTypeOK, LockChosen,
        DataLag, LockSafety, StalenessBounded, EntryLag,
        EntryOfOther, Fetching, Fresh
  <1> QED
    BY <1>1, <1>2, <1>3, <1>4, <1>5, <1>6, <1>7, <1>8, <1>9 DEF Next

LEMMA Invariance == Spec => []CacheInv
  BY InitInv, NextInv, PTL DEF Spec

----------------------------------------------------------------------------
(* The values stay in their types: in particular no timer runs past its    *)
(* limit, and no value in the cache is older than its entry and one fetch. *)
THEOREM TypeCorrect == Spec => []TypeOK
  <1>1. CacheInv => TypeOK
    BY DEF CacheInv, TaskInv, EntryInv, TypeOK
  <1> QED
    BY Invariance, <1>1, PTL

(* However calls are answered, fail, are cancelled or time out, lock       *)
(* objects are held by exactly the tasks that fetch, one task each.        *)
THEOREM LockSafe == Spec => []LockSafety
  <1>1. CacheInv => LockSafety
    BY DEF CacheInv, TaskInv
  <1> QED
    BY Invariance, <1>1, PTL

(* No answer is older than a lifetime and one, possibly late, fetch. *)
THEOREM AnswersYoung == Spec => []StalenessBounded
  <1>1. CacheInv => StalenessBounded
    BY DEF CacheInv, TaskInv
  <1> QED
    BY Invariance, <1>1, PTL

(* One lock object stores one result of its key within a lifetime. *)
THEOREM Coalesced == Spec => StoresCoalesced
  <1> DEFINE Apart == \A t \in Tasks, k \in Keys :
                 Store(t) /\ lock[t][1] = k /\ Fresh(k)
                 => cache[k].by # lock[t][2]
  <1>1. CacheInv => Apart
    BY DEF CacheInv, EntryInv, EntryOfOther, Store, Fetching
  <1>2. CacheInv => [Apart]_vars
    BY <1>1
  <1> QED
    BY Invariance, <1>2, PTL DEF StoresCoalesced

----------------------------------------------------------------------------
(* The refinement of TtlMemo: its memo and its open calls, as mapped in    *)
(* ResponseCache.                                                          *)
MemoOf == [k \in DOMAIN cache |-> [age |-> cache[k].age, val |-> cache[k].val]]
OpenOf == {t \in Tasks : pc[t] # "idle"}

LEMMA MemoInit == Init => Memo!Init
  <1> SUFFICES ASSUME Init PROVE Memo!Init
    OBVIOUS
  <1>1. MemoOf = <<>>
    BY DEF Init, MemoOf
  <1>2. OpenOf = {}
    BY DEF Init, OpenOf
  <1> QED
    BY <1>1, <1>2 DEF Init, Memo!Init, MemoOf, OpenOf, Pending, NoData,
                      Memo!Nothing

(* A call that ends leaves the set of open calls. *)
LEMMA LeaveCloses ==
    ASSUME TaskTypeOK, NEW t \in Tasks, NEW a, Leave(t, a)
    PROVE  OpenOf' = OpenOf \ {t} /\ out' = [out EXCEPT ![t] = a]
  BY DEF TaskTypeOK, Leave, OpenOf

LEMMA MemoSteps ==
    ASSUME CacheInv, Next
    PROVE  Memo!Next \/ UNCHANGED Memo!vars
  <1> USE DEF CacheInv, TaskInv, EntryInv
  <1>1. ASSUME NEW t \in Tasks, NEW k \in Keys, CallHit(t, k)
        PROVE  Memo!Serve(t, k)
    BY <1>1 DEF CallHit, Fresh, Returned, Memo!Serve, Memo!Live, Memo!Returned
  <1>2. ASSUME NEW t \in Tasks, NEW k \in Keys, CallMiss(t, k)
        PROVE  Memo!Ask(t)
    <2>1. OpenOf' = OpenOf \cup {t} /\ t \notin OpenOf
      BY <1>2 DEF OpenOf, CallMiss, TaskTypeOK
    <2> QED
      BY <1>2, <2>1 DEF OpenOf, CallMiss, Pending, NoData, Memo!Ask, Memo!Nothing
  <1>3. ASSUME NEW t \in Tasks, Wake(t)
        PROVE  Memo!Next \/ UNCHANGED Memo!vars
    <2> PICK k \in Keys : k = lock[t][1]
      BY <1>3 DEF Wake, Turn, LockChosen
    <2>1. CASE Fresh(k)
      <3>1. Leave(t, Returned(cache[k].val)) /\ UNCHANGED <<cache, key_locks, clears>>
        BY <1>3, <2>1 DEF Wake
      <3>2. Memo!Serve(t, k)
        BY <2>1, <3>1, LeaveCloses
        DEF Fresh, OpenOf, Returned, Memo!Serve, Memo!Live, Memo!Returned
      <3> QED
        BY <3>2 DEF Memo!Next
    <2>2. CASE ~Fresh(k)
      <3>1. OpenOf' = OpenOf
        BY <1>3, <2>2 DEF Wake, Turn, OpenOf, TaskTypeOK
      <3> QED
        BY <1>3, <2>2, <3>1 DEF Wake, OpenOf, Memo!vars
    <2> QED
      BY <2>1, <2>2
  <1>4. ASSUME NEW t \in Tasks, SourceRead(t)
        PROVE  UNCHANGED Memo!vars
    <2>1. OpenOf' = OpenOf
      BY <1>4 DEF SourceRead, OpenOf, TaskTypeOK
    <2> QED
      BY <1>4, <2>1 DEF SourceRead, OpenOf, Memo!vars
  <1>5. ASSUME NEW t \in Tasks, Store(t)
        PROVE  \E k \in Keys : Memo!Publish(t, k)
    <2> DEFINE v == data[t]
    <2> PICK k \in Keys : k = lock[t][1]
      BY <1>5 DEF Store, LockChosen
    <2>1. t \in OpenOf
      BY <1>5 DEF Store, OpenOf
    <2>2. v \in Value /\ v \in Memo!Value /\ v.era <= clears /\ v.old <= MaxLag
      <3>1. v \in Value /\ fetching[t] \in 0 .. MaxLag
        BY DEF TaskTypeOK, MaxLag
      <3>2. v.old \in Nat /\ v.old <= fetching[t] /\ v.era <= clears
        BY <3>1, LimitsTyped DEF DataLag, Value
      <3> QED
        BY <3>1, <3>2, LimitsTyped DEF Value, Memo!Value, Era
    <2>3. MemoOf' = [j \in DOMAIN MemoOf \cup {k} |->
                        IF j = k THEN [age |-> 0, val |-> v] ELSE MemoOf[j]]
      BY <1>5 DEF Store, Put, MemoOf
    <2>4. /\ OpenOf' = OpenOf \ {t}
          /\ out' = [out EXCEPT ![t] = Returned(v)]
          /\ UNCHANGED clears
      BY <1>5, LeaveCloses DEF Store
    <2>5. Memo!Publish(t, k)
      BY <2>1, <2>2, <2>3, <2>4
      DEF Memo!Publish, MemoOf, OpenOf, Returned, Memo!Returned
    <2> QED
      BY <2>1, <2>5
  <1>6. ASSUME NEW t \in Tasks, Raise(t) \/ TimeOut(t)
        PROVE  Memo!Fail(t)
    <2>1. /\ Leave(t, Raised) /\ UNCHANGED <<cache, key_locks, clears>>
          /\ t \in OpenOf
      BY <1>6 DEF Raise, TimeOut, FetchDue, CallDue, Fetching, OpenOf
    <2> QED
      BY <2>1, LeaveCloses
      DEF OpenOf, Raised, NoData, Memo!Fail, Memo!Nothing
  <1>7. ASSUME Clear PROVE Memo!Clear
    <2>1. MemoOf' = <<>>
      BY <1>7 DEF Clear, MemoOf
    <2> QED
      BY <1>7, <2>1 DEF Clear, MemoOf, Memo!Clear
  <1>8. ASSUME Tick PROVE Memo!Tick
    <2>1. ASSUME NEW k \in DOMAIN cache
          PROVE  MemoOf'[k] = IF Memo!Live(k)
                              THEN [age |-> MemoOf[k].age + 1,
                                    val |-> [MemoOf[k].val EXCEPT !.old = @ + 1]]
                              ELSE MemoOf[k]
      <3>1. cache[k] \in Entry /\ cache[k].val \in Value
        BY DEF CacheTypeOK, Entry
      <3>2. Memo!Live(k) <=> Fresh(k)
        BY DEF Memo!Live, Fresh
      <3>3. cache'[k] = IF Fresh(k) THEN Older(cache[k]) ELSE cache[k]
        BY <1>8 DEF Tick
      <3>4. DOMAIN cache' = DOMAIN cache
        BY <1>8 DEF Tick
      <3> QED
        BY <3>1, <3>2, <3>3, <3>4 DEF MemoOf, Older, Entry, Value
    <2>2. MemoOf' = [k \in DOMAIN MemoOf |->
                        IF Memo!Live(k)
                        THEN [age |-> MemoOf[k].age + 1,
                              val |-> [MemoOf[k].val EXCEPT !.old = @ + 1]]
                        ELSE MemoOf[k]]
      BY <1>8, <2>1 DEF Tick, MemoOf
    <2> QED
      BY <1>8, <2>2 DEF Tick, MemoOf, Memo!Tick
  <1> QED
    BY <1>1, <1>2, <1>3, <1>4, <1>5, <1>6, <1>7, <1>8 DEF Next, Memo!Next

(* Locks, queues and timeouts are an implementation of the memo: every     *)
(* behaviour of the wrapper is one of TtlMemo.                             *)
THEOREM Refinement == Spec => ImplementsMemo
  <1>1. CacheInv /\ [Next]_vars => [Memo!Next]_(Memo!vars)
    <2>1. UNCHANGED vars => UNCHANGED Memo!vars
      BY DEF vars, Memo!vars
    <2> QED
      BY <2>1, MemoSteps
  <1> QED
    BY Invariance, MemoInit, <1>1, PTL DEF Spec, ImplementsMemo, Memo!Spec
=============================================================================
