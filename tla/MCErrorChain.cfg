SPECIFICATION Spec
CONSTANTS
    Codes = {"A", "B"}
    ForeignCode = "B"
    Recodes = {"B"}
    Identities <- SomeIdentities
    Foreign = {"coded"}
    MaxNodes = 3
    MaxSuppressed = 2
CHECK_DEADLOCK FALSE
INVARIANTS
    TypeOK
    InspectorsAgree
    WrapKeepsIdentity
    AppendKeepsBoth
PROPERTIES
    MatchesStay
    TraceIsHistory
