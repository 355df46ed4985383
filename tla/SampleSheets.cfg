SPECIFICATION Spec
CONSTANTS
    Ids = {a, b, c}
    Titles = {t, u}
    None = None
CHECK_DEADLOCK FALSE
PROPERTY ProductionUntouched
