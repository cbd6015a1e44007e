SPECIFICATION Spec
CONSTANTS
    Codes = {"A", "B"}
    ForeignCode = "B"
    Recodes = {"B"}
    Identities <- SomeIdentities
    Foreign = {"plain"}
    MaxNodes = 3
    MaxSuppressed = 2
CHECK_DEADLOCK FALSE
INVARIANTS
    TraversalEnds
