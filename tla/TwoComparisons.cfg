SPECIFICATION Spec
CONSTANTS
    MaxNodes = 40
    Statements <- TwoComparisons
    Databases <- MCDatabases
    convert_cp_to_join = FALSE
INVARIANTS
    SameResult
CHECK_DEADLOCK FALSE
