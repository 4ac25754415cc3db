SPECIFICATION Spec
CONSTANTS
    MaxNodes = 13
    Trees <- MCTrees
    convert_cp_to_join = TRUE
INVARIANTS
    IInv
    PInv
    Connected
    Conserved
    NotDuplicated
    NoEmptySelection
PROPERTIES
    Implements
CHECK_DEADLOCK FALSE
