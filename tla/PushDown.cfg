SPECIFICATION Spec
CONSTANTS
    MaxNodes = 24
    Trees <- MCTrees
    convert_cp_to_join = FALSE
INVARIANTS
    TypeOK
    TreeShape
    LostOnlyToMarker
    PlacedLowest
PROPERTIES
    BlockKept
    Terminates
CHECK_DEADLOCK FALSE
