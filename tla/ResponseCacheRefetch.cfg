\* Two callers are enough for a fetch that outlives a clear_cache.
SPECIFICATION Spec
CONSTANTS
    Tasks = {t1, t2}
    Keys = {k1}
    CACHE_TTL = 2
    FETCH_TIMEOUT = 2
    LOCK_WAIT_TIMEOUT = 4
    LATE = 0
    MaxClears = 1
PROPERTIES RefetchedAfterClear
