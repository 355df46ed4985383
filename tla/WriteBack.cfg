\* Two calls, two attempts each (three in the code), a tab that does not exist yet or has rows enough.
SPECIFICATION FairSpec
CONSTANTS
    Writers = {w1, w2}
    Summaries = {1, 2}
    MaxAttempts = 2
    InitialGrids = {0, 3}
    MaxClears = 1
    MaxCrashes = 1
INVARIANTS TypeOK KeyOfFailureDropped OneWriterPerSummary WholeUnlessOverlap OkIsShownUnlessOverlap
PROPERTIES WritesEnd
CHECK_DEADLOCK FALSE
