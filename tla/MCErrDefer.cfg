SPECIFICATION Spec
CONSTANTS
    Orders <- AllOrders
    Returned = {"bare", "errx", "plain", "wrap-nil"}
    Calls = {"ok", "errx", "wrap-nil"}
    Closing = {"nil", "errx", "plain"}
    Panics = {"error", "value"}
    Callbacks = {"ok", "panic"}
CHECK_DEADLOCK FALSE
INVARIANTS
    TypeOK
    NothingLost
    PrimaryStaysPrimary
    PanicStaysDefect
    CallbacksExact
