SPECIFICATION Spec
CONSTANTS
    MaxNodes = 40
    Statements <- MCStatements
    Databases <- MCDatabases
    convert_cp_to_join = FALSE
INVARIANTS
    NeverDies
    SameResult
    WholeForest
PROPERTIES
    Finished
CHECK_DEADLOCK FALSE
