SPECIFICATION Spec
CONSTANTS
    MaxNodes = 12
    Statements <- Correlations
INVARIANTS
    CorrelationExact
CHECK_DEADLOCK FALSE
