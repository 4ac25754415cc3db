SPECIFICATION Spec
CONSTANTS
    MaxNodes = 12
    Trees <- SameName
    convert_cp_to_join = FALSE
PROPERTIES
    BlockAlwaysKept
CHECK_DEADLOCK FALSE
