SPECIFICATION Spec
CONSTANTS
    Orders <- NoDefers
    Returned = {"bare", "wrap-nil"}
    Calls = {}
    Closing = {"nil"}
    Panics = {}
    Callbacks = {"ok"}
CHECK_DEADLOCK FALSE
INVARIANTS
    SuccessReturnsNil
