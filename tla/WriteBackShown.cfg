\* One call with two attempts, the first of which times out.
SPECIFICATION Spec
CONSTANTS
    Writers = {w1}
    Summaries = {1}
    MaxAttempts = 2
    InitialGrids = {5}
    MaxClears = 0
    MaxCrashes = 0
INVARIANTS OkIsShown
CHECK_DEADLOCK FALSE
