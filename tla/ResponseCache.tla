--------------------------- MODULE ResponseCache ---------------------------
(***************************************************************************)
(* services/cache.py: the TTL cache in front of every spreadsheet read.    *)
(*                                                                         *)
(* Tasks are coroutines inside the wrapper of @cached; they run on one     *)
(* event loop, so what lies between two suspension points is one step.     *)
(* _cache_lock is never held across a suspension and therefore never       *)
(* contended: it has no state here.  The suspension points are the wait    *)
(* for a per-key lock (line 45) and the wait for the fetched function      *)
(* (line 52).                                                              *)
(*                                                                         *)
(* Timestamps are kept as ages: time.time() - entry[0] is `age`.  An entry *)
(* stops ageing when it has expired, for nothing tells two expired entries *)
(* apart.                                                                  *)
(***************************************************************************)
EXTENDS Naturals

CONSTANTS
    Tasks,              \* coroutines that call cached functions
    Keys,               \* cache keys: key_prefix and arguments
    CACHE_TTL,          \* ticks an entry is served for
    FETCH_TIMEOUT,      \* ticks the wrapped function may take
    LOCK_WAIT_TIMEOUT,  \* ticks from the first wait to the end of the call
    LATE,               \* ticks a due timer may be delayed by a busy event loop
    MaxClears           \* bound: calls of clear_cache in a behaviour

ASSUME CacheConstants ==
    /\ CACHE_TTL \in Nat \ {0}
    /\ FETCH_TIMEOUT \in Nat \ {0}
    /\ LOCK_WAIT_TIMEOUT \in Nat \ {0}
    /\ LATE \in Nat
    /\ MaxClears \in Nat

VARIABLES
    cache,      \* _cache: a partial function from keys to entries
    key_locks,  \* _key_locks: a partial function from keys to lock objects
    clears,     \* calls of clear_cache so far; names the lock objects
    held,       \* the lock objects that are locked
    pc,         \* where each task is suspended
    lock,       \* <<key, lock object>> a task waits for or holds
    ahead,      \* the tasks queued before it on the same lock (FIFO)
    parked,     \* ticks since it entered asyncio.timeout (line 44)
    fetching,   \* ticks since it entered wait_for (line 52)
    data,       \* what its fetch has read from the source
    out         \* the outcome of its last call

vars == <<cache, key_locks, clears, held, pc, lock, ahead, parked, fetching,
          data, out>>

----------------------------------------------------------------------------
(* A value is known by when it was read at the source: `era` is the number *)
(* of clear_cache calls before the read, `old` the ticks since.            *)

Era == 0 .. MaxClears
MaxLag == FETCH_TIMEOUT + LATE
Value == [era : Era, old : 0 .. MaxLag + CACHE_TTL]
Entry == [age : 0 .. CACHE_TTL, val : Value, by : Era]

NoLock == <<>>
NoData == [era |-> 0, old |-> 0]

(* The outcome of a call: none yet, an exception, or a returned value. *)
Outcome == [how : {"none", "raised", "returned"}, val : Value]
Pending == [how |-> "none", val |-> NoData]
Raised == [how |-> "raised", val |-> NoData]
Returned(v) == [how |-> "returned", val |-> v]

Put(f, k, v) == [j \in DOMAIN f \cup {k} |-> IF j = k THEN v ELSE f[j]]

(* Lines 35 and 49. *)
FreshOffByOne(k) == k \in DOMAIN cache /\ cache[k].age <= CACHE_TTL
Fresh(k) == k \in DOMAIN cache /\ cache[k].age < CACHE_TTL

(* Lines 39-41.  clear_cache drops every lock object, so the objects of    *)
(* one key are told apart by the number of clears before they were made.   *)
LockOf(k) == <<k, IF k \in DOMAIN key_locks THEN key_locks[k] ELSE clears>>

Fetching(t) == pc[t] \in {"fetch", "read"}
Waiters(l) == {t \in Tasks : pc[t] = "wait" /\ lock[t] = l}

(* asyncio.Lock.acquire does not suspend when the lock is free and nobody  *)
(* is queued; a task that suspends takes the lock at its turn.             *)
Free(l) == l \notin held /\ Waiters(l) = {}

Turn(t) == pc[t] = "wait" /\ lock[t] \notin held /\ ahead[t] = {}

----------------------------------------------------------------------------
Init ==
    /\ cache = <<>>
    /\ key_locks = <<>>
    /\ clears = 0
    /\ held = {}
    /\ pc = [t \in Tasks |-> "idle"]
    /\ lock = [t \in Tasks |-> NoLock]
    /\ ahead = [t \in Tasks |-> {}]
    /\ parked = [t \in Tasks |-> 0]
    /\ fetching = [t \in Tasks |-> 0]
    /\ data = [t \in Tasks |-> NoData]
    /\ out = [t \in Tasks |-> Pending]

(* The call of t ends with answer a: the lock is released if t holds it,   *)
(* and t leaves the queue if it waits (asyncio.Lock wakes the next one).   *)
LeaveLocked(t, a) ==
    /\ pc' = [pc EXCEPT ![t] = "idle"]
    /\ lock' = [lock EXCEPT ![t] = NoLock]
    /\ ahead' = [u \in Tasks |-> IF u = t THEN {} ELSE ahead[u] \ {t}]
    /\ parked' = [parked EXCEPT ![t] = 0]
    /\ fetching' = [fetching EXCEPT ![t] = 0]
    /\ data' = [data EXCEPT ![t] = NoData]
    /\ out' = [out EXCEPT ![t] = a]
    /\ held' = IF a = Raised THEN held ELSE held \ {lock[t]}
Leave(t, a) ==
    /\ pc' = [pc EXCEPT ![t] = "idle"]
    /\ lock' = [lock EXCEPT ![t] = NoLock]
    /\ ahead' = [u \in Tasks |-> IF u = t THEN {} ELSE ahead[u] \ {t}]
    /\ parked' = [parked EXCEPT ![t] = 0]
    /\ fetching' = [fetching EXCEPT ![t] = 0]
    /\ data' = [data EXCEPT ![t] = NoData]
    /\ out' = [out EXCEPT ![t] = a]
    /\ held' = IF Fetching(t) THEN held \ {lock[t]} ELSE held

(* Lines 33-36: served without touching the key's lock. *)
CallHit(t, k) ==
    /\ pc[t] = "idle"
    /\ Fresh(k)
    /\ out' = [out EXCEPT ![t] = Returned(cache[k].val)]
    /\ UNCHANGED <<cache, key_locks, clears, held, pc, lock, ahead, parked,
                   fetching, data>>

(* Lines 38-53: a miss.  The lock object is made if the key has none; the  *)
(* task takes it and starts the fetch, or queues.                          *)
CallMiss(t, k) ==
    /\ pc[t] = "idle"
    /\ ~Fresh(k)
    /\ key_locks' = Put(key_locks, k, LockOf(k)[2])
    /\ lock' = [lock EXCEPT ![t] = LockOf(k)]
    /\ out' = [out EXCEPT ![t] = Pending]
    /\ IF Free(LockOf(k))
       THEN /\ pc' = [pc EXCEPT ![t] = "fetch"]
            /\ held' = held \cup {LockOf(k)}
            /\ UNCHANGED ahead
       ELSE /\ pc' = [pc EXCEPT ![t] = "wait"]
            /\ ahead' = [ahead EXCEPT ![t] = Waiters(LockOf(k))]
            /\ UNCHANGED held
    /\ UNCHANGED <<cache, clears, parked, fetching, data>>

(* Lines 45-53: the lock is handed to t, which looks at the cache again.   *)
WakeNoRecheck(t) ==
    /\ Turn(t)
    /\ pc' = [pc EXCEPT ![t] = "fetch"]
    /\ held' = held \cup {lock[t]}
    /\ ahead' = [u \in Tasks |-> ahead[u] \ {t}]
    /\ UNCHANGED <<cache, key_locks, clears, lock, parked, fetching, data, out>>
Wake(t) ==
    /\ Turn(t)
    /\ IF Fresh(lock[t][1])
       THEN /\ Leave(t, Returned(cache[lock[t][1]].val))
            /\ UNCHANGED <<cache, key_locks, clears>>
       ELSE /\ pc' = [pc EXCEPT ![t] = "fetch"]
            /\ held' = held \cup {lock[t]}
            /\ ahead' = [u \in Tasks |-> ahead[u] \ {t}]
            /\ UNCHANGED <<cache, key_locks, clears, lock, parked, fetching,
                           data, out>>

(* The wrapped function reads the source at some moment of its run. *)
SourceRead(t) ==
    /\ pc[t] = "fetch"
    /\ pc' = [pc EXCEPT ![t] = "read"]
    /\ data' = [data EXCEPT ![t] = [era |-> clears, old |-> 0]]
    /\ UNCHANGED <<cache, key_locks, clears, held, lock, ahead, parked,
                   fetching, out>>

(* Lines 56-61: the result is stored and returned. *)
Store(t) ==
    /\ pc[t] = "read"
    /\ cache' = Put(cache, lock[t][1],
                    [age |-> 0, val |-> data[t], by |-> lock[t][2]])
    /\ Leave(t, Returned(data[t]))
    /\ UNCHANGED <<key_locks, clears>>

(* The wrapped function raises, or the caller is cancelled because an      *)
(* enclosing cached call has timed out: the lock is released, nothing is   *)
(* stored and the exception propagates.                                    *)
RaiseStoring(t) ==
    /\ pc[t] = "read"
    /\ cache' = Put(cache, lock[t][1],
                    [age |-> 0, val |-> data[t], by |-> lock[t][2]])
    /\ Leave(t, Raised)
    /\ UNCHANGED <<key_locks, clears>>
Raise(t) ==
    /\ pc[t] # "idle"
    /\ Leave(t, Raised)
    /\ UNCHANGED <<cache, key_locks, clears>>

(* Line 53: wait_for.  Line 44: asyncio.timeout, which covers the wait for *)
(* the lock and the fetch together.  Both are re-raised at lines 62-64.    *)
FetchDue(t) == Fetching(t) /\ fetching[t] >= FETCH_TIMEOUT
CallDue(t) == pc[t] # "idle" /\ parked[t] >= LOCK_WAIT_TIMEOUT

TimeOutOfFetch(t) ==
    /\ FetchDue(t)
    /\ Leave(t, Raised)
    /\ UNCHANGED <<cache, key_locks, clears>>
TimeOut(t) ==
    /\ FetchDue(t) \/ CallDue(t)
    /\ Leave(t, Raised)
    /\ UNCHANGED <<cache, key_locks, clears>>

(* Lines 69-73.  Tasks in the queue of a dropped lock, and its holder,     *)
(* keep their reference to it.                                             *)
Clear ==
    /\ clears < MaxClears
    /\ cache' = <<>>
    /\ key_locks' = <<>>
    /\ clears' = clears + 1
    /\ UNCHANGED <<held, pc, lock, ahead, parked, fetching, data, out>>

(* Time passes.  The event loop runs a due timer at most LATE ticks after  *)
(* its deadline.                                                           *)
OverdueFetch(t) == Fetching(t) /\ fetching[t] >= FETCH_TIMEOUT + LATE
Overdue(t) ==
    \/ Fetching(t) /\ fetching[t] >= FETCH_TIMEOUT + LATE
    \/ pc[t] # "idle" /\ parked[t] >= LOCK_WAIT_TIMEOUT + LATE

Older(e) == [e EXCEPT !.age = @ + 1, !.val.old = @ + 1]

Tick ==
    /\ \A t \in Tasks : ~Overdue(t)
    /\ cache' = [k \in DOMAIN cache |->
                    IF Fresh(k) THEN Older(cache[k]) ELSE cache[k]]
    /\ parked' = [t \in Tasks |-> IF pc[t] = "idle" THEN 0 ELSE parked[t] + 1]
    /\ fetching' = [t \in Tasks |-> IF Fetching(t) THEN fetching[t] + 1 ELSE 0]
    /\ data' = [t \in Tasks |-> IF pc[t] = "read"
                                THEN [data[t] EXCEPT !.old = @ + 1]
                                ELSE NoData]
    /\ UNCHANGED <<key_locks, clears, held, pc, lock, ahead, out>>

Next ==
    \/ \E t \in Tasks :
        \/ \E k \in Keys : CallHit(t, k) \/ CallMiss(t, k)
        \/ Wake(t)
        \/ SourceRead(t)
        \/ Store(t)
        \/ Raise(t)
        \/ TimeOut(t)
    \/ Clear
    \/ Tick

(* The event loop runs what is ready and fires due timers, and time        *)
(* passes.  Nothing is assumed of the source: a fetch may never answer.    *)
Fairness ==
    /\ \A t \in Tasks : WF_vars(Wake(t)) /\ WF_vars(TimeOut(t))
    /\ WF_vars(Tick)

Spec == Init /\ [][Next]_vars
FairSpec == Spec /\ Fairness

----------------------------------------------------------------------------
CacheTypeOK ==
    /\ DOMAIN cache \subseteq Keys
    /\ \A k \in DOMAIN cache : cache[k] \in Entry
    /\ DOMAIN key_locks \subseteq Keys
    /\ \A k \in DOMAIN key_locks : key_locks[k] \in Era

TaskTypeOK ==
    /\ clears \in Era
    /\ held \subseteq Keys \X Era
    /\ pc \in [Tasks -> {"idle", "wait", "fetch", "read"}]
    /\ lock \in [Tasks -> (Keys \X Era) \cup {NoLock}]
    /\ ahead \in [Tasks -> SUBSET Tasks]
    /\ parked \in [Tasks -> 0 .. LOCK_WAIT_TIMEOUT + LATE]
    /\ fetching \in [Tasks -> 0 .. FETCH_TIMEOUT + LATE]
    /\ data \in [Tasks -> Value]
    /\ out \in [Tasks -> Outcome]

(* The values of the cache and of the wrapper's local state; no timer      *)
(* passes its limit by more than the event loop's lateness.                *)
TypeOK == CacheTypeOK /\ TaskTypeOK

(* A lock object is locked exactly while one task fetches under it: no     *)
(* two fetches of a key run at once under the same lock, and no exit from  *)
(* the wrapper (answer, exception, cancellation, either timeout) leaks it. *)
LockSafety ==
    /\ \A t \in Tasks : Fetching(t) => lock[t] \in held
    /\ \A t, u \in Tasks :
        Fetching(t) /\ Fetching(u) /\ lock[t] = lock[u] => t = u
    /\ \A l \in held : \E t \in Tasks : Fetching(t) /\ lock[t] = l

(* Whatever a call answers was read at the source less than a lifetime and *)
(* one (possibly late) fetch ago.                                          *)
StalenessBounded ==
    \A t \in Tasks :
        out[t].how = "returned" => out[t].val.old < CACHE_TTL + MaxLag

(* Coalescing: one lock object never stores two results of a key within a  *)
(* lifetime.  A fresh entry is overwritten only by a fetch that runs under *)
(* another lock object, that is, one a clear_cache call has separated.     *)
StoresCoalesced ==
    [][\A t \in Tasks, k \in Keys :
        Store(t) /\ lock[t][1] = k /\ Fresh(k) => cache[k].by # lock[t][2]]_vars

(* The wrapper implements the memo its callers are promised. *)
Memo == INSTANCE TtlMemo WITH
    Callers <- Tasks,
    Lifetime <- CACHE_TTL,
    memo <- [k \in DOMAIN cache |-> [age |-> cache[k].age, val |-> cache[k].val]],
    open <- {t \in Tasks : pc[t] # "idle"}
ImplementsMemo == Memo!Spec

(* Every call ends, whatever the source does and whoever is cancelled. *)
CallsEnd == \A t \in Tasks : pc[t] # "idle" ~> pc[t] = "idle"

----------------------------------------------------------------------------
(* What the tests say of clear_cache (tests/test_cache.py:61): "After      *)
(* clear_cache, the function should be re-fetched."  A call made after a   *)
(* clear is not answered with a value that was read before it.             *)
RefetchedAfterClear ==
    [][\A t \in Tasks, k \in Keys :
        CallHit(t, k) => cache[k].val.era = clears]_vars
=============================================================================
