SPECIFICATION Spec
CONSTANTS
    MaxNodes = 48
    Statements <- NestedStatements
    Databases <- MCDatabases
    convert_cp_to_join = FALSE
INVARIANTS
    WholeForest
    CteBeforeUse
    ForestKept
    TreesKept
PROPERTIES
    NodesKept
    OthersKept
    AlwaysLower
CHECK_DEADLOCK FALSE
