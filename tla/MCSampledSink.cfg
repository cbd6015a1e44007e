SPECIFICATION FairSpec
CONSTANTS
    Emitters = {e1, e2}
    Fps = {f1, none}
    NoFp = none
    Window = 2
    Burst = 2
    NoBucket = NoBucket
    Nobody = Nobody
    MaxClock = 4
    MaxDropped = 2
CHECK_DEADLOCK FALSE
INVARIANTS
    TypeOK
    BurstPerWindow
    WindowsSpaced
    DropOnlyWhenFull
    DropsAccounted
PROPERTIES
    ImplementsRateLimiter
    EmitReturns
