SPECIFICATION Spec
CONSTANTS
    MaxNodes = 40
    Statements <- HavingStatements
    Databases <- MCDatabases
    convert_cp_to_join = FALSE
PROPERTIES
    Finished
CHECK_DEADLOCK FALSE
