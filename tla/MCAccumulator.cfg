SPECIFICATION FairSpec
CONSTANTS
    N = 3
    R = 1
    Errs = {e1, e2}
    NoErr = NoErr
CHECK_DEADLOCK FALSE
INVARIANTS
    TypeOK
    NothingLost
    CombinedIsComplete
    SequentialOrder
    AnswersExact
PROPERTIES
    ImplementsCollectAll
    CallsReturn
