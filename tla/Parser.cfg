SPECIFICATION Spec
CONSTANTS
    MaxNodes = 24
    Statements <- MCStatements
INVARIANTS
    TypeOK
    WholeTree
    MarkersPaired
    FromKept
    NeverDies
CHECK_DEADLOCK FALSE
