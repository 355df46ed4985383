SPECIFICATION Spec
CONSTANTS
    Requests = {r1, r2}
    INTERVAL = 2
    THRESHOLD = 1
    LIMIT = 1
    MaxUsed = 1
    Users <- MCUsers
    Batches <- MCBatches
    Other = other
    CACHE_TTL = 2
    FETCH_LIMIT = 1
    MaxEdits = 1
INVARIANTS TypeOK
PROPERTIES AccessTimely WarnedInTime
