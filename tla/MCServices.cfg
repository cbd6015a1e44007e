SPECIFICATION Spec
CONSTANTS
    Names = {s1, s2}
    Codes = {"A", "B", "C"}
    Coined = {"A"}
    Sites = {"f", "g"}
    Traces = {"t"}
    Finds <- MCFinds
    Spans = {"u"}
    NoError = NoError
    Minting = {s1}
    Renamed <- MCRenamed
    Migrating = {s2}
    Extracting = {s2}
    Bridging = {s2}
    MaxHops = 2
    MaxSent = 2
    MaxBuilt = 2
    MaxExtractors = 1
CHECK_DEADLOCK FALSE
INVARIANTS
    TypeOK
    CacheHonest
    RoundTrip
    UnsafeStays
    MigrationSettles
PROPERTIES
    TraceSticks
