SPECIFICATION Spec
CONSTANTS
    MaxNodes = 12
    Statements <- LeftSubquery
INVARIANTS
    NeverDies
CHECK_DEADLOCK FALSE
