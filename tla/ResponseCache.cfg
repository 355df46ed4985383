\* Three callers of one key.  LOCK_WAIT_TIMEOUT is twice FETCH_TIMEOUT, as in the
\* code, so that a third caller can lose its turn to two fetches.
SPECIFICATION FairSpec
CONSTANTS
    Tasks = {t1, t2, t3}
    Keys = {k1}
    CACHE_TTL = 2
    FETCH_TIMEOUT = 1
    LOCK_WAIT_TIMEOUT = 2
    LATE = 1
    MaxClears = 1
INVARIANTS TypeOK LockSafety StalenessBounded
PROPERTIES StoresCoalesced ImplementsMemo CallsEnd
