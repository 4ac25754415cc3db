SPECIFICATION Spec
CONSTANTS
    MaxNodes = 16
    Trees <- BehindMarker
    convert_cp_to_join = FALSE
INVARIANTS
    AllConjunctsAdded
CHECK_DEADLOCK FALSE
