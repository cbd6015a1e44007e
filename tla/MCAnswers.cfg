SPECIFICATION Spec
CONSTANTS
    Asked <- MCAsked
    Requests <- MCRequests
    Foreign = Foreign
    NoError = NoError
    Codes <- MCCodes
    Statuses = {42, 418, 503}
    Types = {"u"}
    TypeBaseURL = "base/"
    MaxInt = 5
    Docs = {"d1", "d2"}
    MaxChanges = 2
INVARIANTS
    TypeOK
    LookupsCurrent
    FaultsAgree
    UnderlinesTrue
