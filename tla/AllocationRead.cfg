\* In ticks of about 1.2 s: an attempt takes 2.5 s in the code, a back-off 0.5 s (rounded
\* up here) and a fetch 7 s.  The lifetime (300 s) is only scaled down to be longer than
\* a fetch.
SPECIFICATION Spec
CONSTANTS
    MAX_ATTEMPTS = 2
    ATTEMPT_TIMEOUT = 2
    BACKOFF = 1
    CACHE_TTL = 7
    FETCH_TIMEOUT = 6
INVARIANTS TypeOK StalenessByLayers
PROPERTIES SingleReadFits
