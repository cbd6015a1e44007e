SPECIFICATION Spec
CONSTANTS
    Orders <- RecoverThenClose
    Returned = {"bare"}
    Calls = {}
    Closing = {"nil", "plain"}
    Panics = {"error"}
    Callbacks = {"ok"}
CHECK_DEADLOCK FALSE
INVARIANTS
    PanicErrorMatchable
