---------------------------- MODULE StatusMapping ----------------------------
(***************************************************************************)
(* What the adapters of contrib/ and diag make of an error: the tables     *)
(* from error codes to the statuses of each protocol, and what happens to  *)
(* a code that is in no table.  The table of httpx can be extended, those  *)
(* of grpc and connect cannot.  Then the names that sentry, otel and diag  *)
(* have for an error and its severity.                                     *)
(***************************************************************************)
EXTENDS Integers, FiniteSets

NoCode == ""

\* httpx
statusFor0 ==
    [NOT_FOUND |-> 404, ALREADY_EXISTS |-> 409, CONFLICT |-> 409, VALIDATION |-> 422,
     INVALID_ARGUMENT |-> 400, UNAUTHENTICATED |-> 401, PERMISSION_DENIED |-> 403,
     FORBIDDEN |-> 403, RESOURCE_EXHAUSTED |-> 429, FAILED_PRECONDITION |-> 412,
     UNAVAILABLE |-> 503, UNIMPLEMENTED |-> 501, TIMEOUT |-> 504]

\* grpc
grpcCodeFor ==
    [NOT_FOUND |-> "NotFound", ALREADY_EXISTS |-> "AlreadyExists", CONFLICT |-> "Aborted",
     VALIDATION |-> "InvalidArgument", INVALID_ARGUMENT |-> "InvalidArgument",
     UNAUTHENTICATED |-> "Unauthenticated", PERMISSION_DENIED |-> "PermissionDenied",
     FORBIDDEN |-> "PermissionDenied", RESOURCE_EXHAUSTED |-> "ResourceExhausted",
     FAILED_PRECONDITION |-> "FailedPrecondition", UNAVAILABLE |-> "Unavailable",
     UNIMPLEMENTED |-> "Unimplemented", TIMEOUT |-> "DeadlineExceeded"]

\* connect
connectCodeFor ==
    [NOT_FOUND |-> "NotFound", ALREADY_EXISTS |-> "AlreadyExists", CONFLICT |-> "Aborted",
     VALIDATION |-> "InvalidArgument", INVALID_ARGUMENT |-> "InvalidArgument",
     UNAUTHENTICATED |-> "Unauthenticated", PERMISSION_DENIED |-> "PermissionDenied",
     FORBIDDEN |-> "PermissionDenied", RESOURCE_EXHAUSTED |-> "ResourceExhausted",
     FAILED_PRECONDITION |-> "FailedPrecondition", UNAVAILABLE |-> "Unavailable",
     UNIMPLEMENTED |-> "Unimplemented", TIMEOUT |-> "DeadlineExceeded"]

ByClass(e, defect, cancelled, transient, fault) ==
    CASE e.class = "defect"    -> defect
      [] e.class = "cancelled" -> cancelled
      [] OTHER                 -> IF e.retryable THEN transient ELSE fault

StatusNoneCancelled(table, e) ==
    IF e.code \in DOMAIN table THEN table[e.code] ELSE ByClass(e, 500, 0, 503, 400)

StatusForBuiltin(table, e) ==
    IF e.code \in DOMAIN statusFor0 THEN statusFor0[e.code] ELSE ByClass(e, 500, 499, 503, 400)

StatusFor(table, e) ==
    IF e.code \in DOMAIN table THEN table[e.code] ELSE ByClass(e, 500, 499, 503, 400)

GrpcCode(e) ==
    IF e.code \in DOMAIN grpcCodeFor THEN grpcCodeFor[e.code]
    ELSE ByClass(e, "Internal", "Canceled", "Unavailable", "InvalidArgument")

ConnectCodeRetryFirst(e) ==
    IF e.code \in DOMAIN connectCodeFor THEN connectCodeFor[e.code]
    ELSE IF e.retryable THEN "Unavailable" ELSE ByClass(e, "Internal", "Canceled", "", "InvalidArgument")

ConnectCode(e) ==
    IF e.code \in DOMAIN connectCodeFor THEN connectCodeFor[e.code]
    ELSE ByClass(e, "Internal", "Canceled", "Unavailable", "InvalidArgument")

-----------------------------------------------------------------------------
(* sentry, otel, diag *)

\* What is not in the table is an error.
levelOf(severity) ==
    LET levels == [debug |-> "debug", info |-> "info", warn |-> "warning", fatal |-> "fatal"]
    IN  IF severity \in DOMAIN levels THEN levels[severity] ELSE "error"

sevWord(severity) ==
    LET words == [debug |-> "note", info |-> "note", warn |-> "warning", fatal |-> "fatal"]
    IN  IF severity \in DOMAIN words THEN words[severity] ELSE "error"

\* domain/code, or the code alone, or, with neither here, "errx.Error".
SentryType(e) ==
    CASE e.domain /\ e.code # NoCode -> [domain |-> TRUE, code |-> e.code]
      [] ~e.domain /\ e.code # NoCode -> [domain |-> FALSE, code |-> e.code]
      [] OTHER -> [domain |-> FALSE, code |-> NoCode]

OtelType(e) ==
    IF e.code # NoCode
    THEN IF e.domain THEN [domain |-> TRUE, code |-> e.code] ELSE [domain |-> FALSE, code |-> e.code]
    ELSE [domain |-> FALSE, code |-> NoCode]

\* Cancelled work is not a fault of the server.
OtelFails(e) == e.class # "cancelled"
=============================================================================
