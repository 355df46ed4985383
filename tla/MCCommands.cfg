SPECIFICATION MCSpec
CONSTANTS
    RawRows <- MCRawRows
    Symbols <- MCSymbols
    Folded <- MCFolded
    Tickers <- MCTickers
    MaxRows = 3
    Normal <- MCNormal
    MainRows <- MCMainRows
    DcaRows <- MCDcaRows
    MainSize = 2
    DcaSize = 1
    SATANG = 2
    MaxEdits = 2
    AllocationRows <- MCAllocationRows
    MaxAllocationRows = 3
    Stripped <- MCStripped
    Lowered <- MCLowered
    ErrorNames <- MCErrorNames
    DR_ALLOCATION_NAME = "stock world (dr)"
    CASH = "cash"
    ALLOCATION_TOLERANCE = 50
    Rates <- MCRates
    HOLDINGS_LIMIT = 2
    MaxReplies = 2
CHECK_DEADLOCK FALSE
INVARIANTS TypeOK RowsAccounted ValidMeansNoIssue RowNumbersRightInFullSheet
    ExactWhenQuiet Accounted OthersUndisturbed
    ValidMeansShownWhole EmptyOnlyIfNegligible DrAgrees WarnedOnlyIfNothingToShare
