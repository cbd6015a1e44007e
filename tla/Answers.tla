------------------------------- MODULE Answers -------------------------------
(***************************************************************************)
(* Handlers answer errors through httpx, grpc, connect or graphql, report  *)
(* them to sentry, otel or prometheus, or show them with diag, while       *)
(* other goroutines register statuses, problem types and documentation.    *)
(* Each table is behind an RWMutex of its own that is released after every *)
(* look-up, and answering one error takes several of them: Snapshot looks  *)
(* its code up twice in docReg, for the hint and for the URL, and httpx    *)
(* then reads statusFor and typeFor.  diag asks the error itself for the   *)
(* same two texts, in the same order.                                      *)
(*                                                                         *)
(* A handler owns its error and handlers only read, so one of them stands  *)
(* for all.  What StatusFor and CodeFor find again in a Snapshot of their  *)
(* own is what they found before, but for documentation they do not use.   *)
(***************************************************************************)
EXTENDS StatusMapping, Diag

CONSTANTS
    Asked,       \* the errors a handler may have to answer
    Requests,    \* which of them, or of the two below, through which adapter
    Foreign,     \* an error that is no *Error
    NoError,     \* nil
    Codes,       \* the codes that may be registered
    Statuses,    \* the statuses they may be given
    Types,       \* the problem types they may be given
    TypeBaseURL, \* what httpx puts before a code with no type, set by the program
    Docs,        \* the documentation they may be given
    MaxChanges   \* bound on registrations

ASSUME ConstantsAssumption ==
    /\ NoError \notin Asked /\ Foreign \notin Asked /\ Foreign # NoError
    /\ Statuses \subseteq Int
    /\ MaxChanges \in Nat

Adapters == {"http", "grpc", "connect", "graphql", "sentry", "otel", "prometheus", "graphical", "narrated"}

ASSUME RequestsAssumption == Requests \subseteq Adapters \X (Asked \cup {Foreign, NoError})

ASSUME DrawingsAssumption == \A e \in Asked : e.drawing \in Drawings

VARIABLES
    statusFor, typeFor,  \* the tables of httpx
    docReg,              \* documentation by code
    err,                 \* what the handler is to answer
    via,                 \* with which adapter
    pc,                  \* where it is
    rep,                 \* what it has looked up
    seen,                \* history: the entries for its code since it began
    answer,              \* its answer
    changes              \* how many registrations there were

tables == <<statusFor, typeFor, docReg>>
handler == <<err, via, rep, seen, answer>>
vars == <<tables, handler, pc, changes>>

Blank == "about:blank"
NoDoc == "none"
Own == "own"  \* a hint or URL set on the error itself

NoRep == [hint |-> NoDoc, url |-> NoDoc, status |-> 0, type |-> Blank]
NoAnswer == [via |-> "none"]

\* The problem type of a code with none registered.
DefaultType(c) == IF TypeBaseURL = Blank THEN Blank ELSE TypeBaseURL \o c

Lookup(table, c, default) == IF c \in DOMAIN table THEN table[c] ELSE default

\* The tables with c as one of their keys.
Set(table, c, v) == [d \in DOMAIN table \cup {c} |-> IF d = c THEN v ELSE table[d]]

\* The status is in a set, which is empty when there is none.
Entry(c) ==
    [doc |-> Lookup(docReg, c, NoDoc), type |-> Lookup(typeFor, c, DefaultType(c)),
     status |-> {statusFor[d] : d \in DOMAIN statusFor \cap {c}}]

Init ==
    /\ statusFor = statusFor0
    /\ typeFor = [c \in {} |-> Blank]
    /\ docReg = [c \in {} |-> NoDoc]
    /\ err = NoError /\ via = "none" /\ pc = "idle"
    /\ rep = NoRep /\ seen = {} /\ answer = NoAnswer
    /\ changes = 0

-----------------------------------------------------------------------------
(* Registration *)

Looking == pc \notin {"idle", "answered"} /\ err \in Asked

Registered(c) ==
    /\ changes < MaxChanges
    /\ changes' = changes + 1
    /\ seen' = IF Looking /\ err.code = c THEN seen \cup {Entry(c)'} ELSE seen
    /\ UNCHANGED <<err, via, pc, rep, answer>>

RegisterStatus(c, status) ==
    /\ statusFor' = Set(statusFor, c, status)
    /\ UNCHANGED <<typeFor, docReg>>
    /\ Registered(c)

RegisterType(c, uri) ==
    /\ typeFor' = Set(typeFor, c, uri)
    /\ UNCHANGED <<statusFor, docReg>>
    /\ Registered(c)

RegisterDoc(c, doc) ==
    /\ docReg' = Set(docReg, c, doc)
    /\ UNCHANGED <<statusFor, typeFor>>
    /\ Registered(c)

-----------------------------------------------------------------------------
(* Snapshot *)

\* An error has arrived.
Request(a, e) ==
    /\ pc = "idle"
    /\ err' = e /\ via' = a
    /\ seen' = IF e \in Asked THEN {Entry(e.code)} ELSE {}
    /\ pc' = IF e \in Asked THEN "hint" ELSE "write"
    /\ UNCHANGED <<tables, rep, answer, changes>>

Goto(l) == pc' = l /\ UNCHANGED <<tables, err, via, seen, answer, changes>>

DocFor(c) == Lookup(docReg, c, NoDoc)

\* What is set on the error itself comes before what is registered; no
\* documentation is registered for the empty code.
Resolve(own, c) == IF own THEN Own ELSE IF c = NoCode THEN NoDoc ELSE DocFor(c)

Remediation ==
    /\ pc = "hint"
    /\ rep' = [rep EXCEPT !.hint = Resolve(err.hint, err.code)]
    /\ Goto("url")

URL ==
    /\ pc = "url"
    /\ rep' = [rep EXCEPT !.url = Resolve(err.url, err.code)]
    /\ Goto(IF via = "http" THEN "status" ELSE "write")

-----------------------------------------------------------------------------
(* httpx *)

HttpStatus ==
    /\ pc = "status"
    /\ rep' = [rep EXCEPT !.status = StatusFor(statusFor, err)]
    /\ Goto("type")

problemType ==
    /\ pc = "type"
    /\ rep' = [rep EXCEPT !.type = IF err.code = NoCode THEN Blank
                                   ELSE Lookup(typeFor, err.code, DefaultType(err.code))]
    /\ Goto("write")

Answered(a) ==
    /\ answer' = a
    /\ pc' = "answered"
    /\ UNCHANGED <<tables, err, via, rep, seen, changes>>

\* The answer has been sent: there may be another request.
Sent ==
    /\ pc = "answered"
    /\ pc' = "idle" /\ err' = NoError /\ via' = "none" /\ rep' = NoRep /\ seen' = {} /\ answer' = NoAnswer
    /\ UNCHANGED <<tables, changes>>

\* The statuses WriteHeader of net/http takes; it panics on others, which leaves
\* the request without the answer.
HeaderStatuses == 100 .. 999

\* The text of the status stands in for a title, where the error has no code,
\* and for a detail, where it has no public message; both are left out.
HttpWrite ==
    /\ via = "http" /\ pc = "write"
    /\ Answered(IF err \in Asked
                THEN [via |-> via, status |-> rep.status, type |-> rep.type, url |-> rep.url,
                      panics |-> rep.status \notin HeaderStatuses]
                ELSE [via |-> via, status |-> 500, type |-> Blank, url |-> NoDoc, panics |-> FALSE])

-----------------------------------------------------------------------------
(* grpc, connect, graphql *)

\* What Err makes of an error that is no *Error: nil stays nil.
GrpcErr(e) == IF e = NoError THEN "OK" ELSE "Unknown"

GrpcWrite ==
    /\ via = "grpc" /\ pc = "write"
    /\ Answered(IF err \in Asked
                THEN [via |-> via, code |-> GrpcCode(err), retryInfo |-> err.retryable,
                      help |-> rep.hint # NoDoc \/ rep.url # NoDoc, hint |-> rep.hint, url |-> rep.url]
                ELSE [via |-> via, code |-> GrpcErr(err), retryInfo |-> FALSE,
                      help |-> FALSE, hint |-> NoDoc, url |-> NoDoc])

ConnectWrite ==
    /\ via = "connect" /\ pc = "write"
    /\ Answered([via |-> via, code |-> IF err \in Asked THEN ConnectCode(err) ELSE "Unknown"])

\* Of an *Error its public message is shown, or a generic text, never the
\* operator's message; of any other error what its Error method returns.
GraphqlWrite ==
    /\ via = "graphql" /\ pc = "write"
    /\ Answered(IF err \in Asked
                THEN [via |-> via, extensions |-> TRUE, message |-> IF err.public THEN "public" ELSE "generic",
                      retryable |-> err.retryable, url |-> rep.url]
                ELSE [via |-> via, extensions |-> FALSE, message |-> "own",
                      retryable |-> FALSE, url |-> NoDoc])

-----------------------------------------------------------------------------
(* sentry, otel, prometheus: sinks, which Report hands no other error.  They *)
(* copy the report's fields, stack and fingerprint, which are left out.      *)

NoEvent == [via |-> via, event |-> FALSE]

\* There is nothing to send to where the program has set up no hub.
SentryWrite ==
    /\ via = "sentry" /\ pc = "write"
    /\ \E hub \in BOOLEAN :
        Answered(IF err \in Asked /\ hub
                 THEN [via |-> via, event |-> TRUE, level |-> levelOf(err.severity),
                       type |-> SentryType(err), hint |-> rep.hint]
                 ELSE NoEvent)

\* The context may have no span, or one that is not recording.
OtelWrite ==
    /\ via = "otel" /\ pc = "write"
    /\ \E recording \in BOOLEAN :
        Answered(IF err \in Asked /\ recording
                 THEN [via |-> via, event |-> TRUE, type |-> OtelType(err), error |-> OtelFails(err)]
                 ELSE NoEvent)

PrometheusWrite ==
    /\ via = "prometheus" /\ pc = "write"
    /\ Answered(IF err \in Asked
                THEN [via |-> via, event |-> TRUE, class |-> err.class, domain |-> err.domain,
                      code |-> IF err.code = NoCode THEN "unknown" ELSE err.code]
                ELSE NoEvent)

-----------------------------------------------------------------------------
(* diag *)

\* Of an error that is no *Error there is its message, of nil nothing.
DiagWrite(places) ==
    Answered(IF err \in Asked
             THEN [via |-> via, severity |-> sevWord(err.severity), places |-> places,
                   hint |-> rep.hint, url |-> rep.url]
             ELSE [via |-> via, message |-> err # NoError])

GraphicalWrite == via = "graphical" /\ pc = "write" /\ DiagWrite(Drawn(err.drawing))

NarratedWrite == via = "narrated" /\ pc = "write" /\ DiagWrite(Told(err.drawing))

Next ==
    \/ \E c \in Codes :
        \/ \E status \in Statuses : RegisterStatus(c, status)
        \/ \E uri \in Types : RegisterType(c, uri)
        \/ \E doc \in Docs : RegisterDoc(c, doc)
    \/ \E r \in Requests : Request(r[1], r[2])
    \/ Remediation \/ URL \/ HttpStatus \/ problemType
    \/ HttpWrite \/ GrpcWrite \/ ConnectWrite \/ GraphqlWrite
    \/ SentryWrite \/ OtelWrite \/ PrometheusWrite \/ GraphicalWrite \/ NarratedWrite \/ Sent

Spec == Init /\ [][Next]_vars

-----------------------------------------------------------------------------
(* Properties *)

Places == {"idle", "hint", "url", "status", "type", "write", "answered"}
RpcCodes ==
    {grpcCodeFor[c] : c \in DOMAIN grpcCodeFor} \cup {"OK", "Unknown", "Internal", "Canceled"}

DefaultTypes == {DefaultType(e.code) : e \in Asked}

\* Every answer is one its protocol has.  That of httpx is an error's status,
\* which net/http takes, unless the error's code has been registered with a
\* status of its own, which may be any number: only then can an answer panic.
TypeOK ==
    /\ err \in Asked \cup {Foreign, NoError} /\ via \in Adapters \cup {"none"} /\ pc \in Places
    /\ statusFor \in [DOMAIN statusFor0 \cup DOMAIN statusFor -> Int]
    /\ {rep.hint, rep.url} \subseteq Docs \cup {NoDoc, Own}
    /\ rep.type \in Types \cup {Blank} \cup DefaultTypes
    /\ answer.via = "http" =>
        \/ answer.status \in 400 .. 599 /\ ~ answer.panics
        \/ err \in Asked /\ err.code \in Codes /\ answer.status \in Statuses
    /\ answer.via \in {"grpc", "connect"} => answer.code \in RpcCodes

Gave(a) == answer.via = a

\* What the tables held for err since the request arrived.
SeenDocs(own) == IF own THEN {Own} ELSE IF err.code = NoCode THEN {NoDoc} ELSE {s.doc : s \in seen}

SeenStatuses == UNION {IF s.status = {} THEN {StatusFor(statusFor0, err)} ELSE s.status : s \in seen}

SeenTypes == IF err.code = NoCode THEN {Blank} ELSE {s.type : s \in seen}

\* No answer is made from what the tables held before it was begun: status,
\* type, hint and URL are each the error's own, or were in their table at some
\* moment in between.
LookupsCurrent ==
    err \in Asked =>
        /\ Gave("http") => answer.status \in SeenStatuses /\ answer.type \in SeenTypes
        /\ "url" \in DOMAIN answer => answer.url \in SeenDocs(err.url)
        /\ "hint" \in DOMAIN answer => answer.hint \in SeenDocs(err.hint)

ServersFault == {"Unknown", "Internal", "Unavailable", "DeadlineExceeded", "Unimplemented"}

Builtin(e) == IF e \in Asked THEN StatusFor(statusFor0, e) ELSE 500

\* An error is answered alike through every adapter: grpc and connect call it
\* the server's fault when httpx, with the table it comes with, gives it a
\* status of 500 or more, and worth a retry when that is 503.  It is never
\* answered as a success.  A span fails unless httpx would call an error that
\* has no status of its own the client's closed request; sentry has the name
\* for it that otel has.
FaultsAgree ==
    /\ (Gave("grpc") \/ Gave("connect")) /\ err # NoError =>
        /\ answer.code # "OK"
        /\ answer.code \in ServersFault <=> Builtin(err) >= 500
        /\ answer.code = "Unavailable" <=> Builtin(err) = 503
    /\ Gave("otel") /\ answer.event /\ err.code \notin DOMAIN statusFor0 =>
        answer.error <=> Builtin(err) # 499
    /\ Gave("sentry") /\ answer.event => answer.type = OtelType(err)

\* diag shows a label where it is: every label that starts on a byte of the
\* source, a newline or another, has an underline of its own, in the order of
\* the labels, under the part of it on its first line, one caret where that is
\* empty.  No such label goes missing, whatever labels outside of the source
\* there are, and both forms name the same places.  A length that makes the
\* sum of column and length overflow is left out: diag does not clip it.
UnderlinesTrue ==
    (Gave("graphical") \/ Gave("narrated")) /\ err \in Asked =>
        LET src    == err.drawing.src
            labels == err.drawing.labels
            places == answer.places
            inText == {i \in DOMAIN labels : labels[i].start \in 0 .. Len(src) - 1}
        IN  /\ Gave("graphical") =>
                \E at \in [inText -> DOMAIN places] :
                    /\ \A i, j \in inText : i < j => at[i] < at[j]
                    /\ \A i \in inText : Fits(src, labels[i]) => Under(src, labels[i], places[at[i]])
            /\ Gave("narrated") =>
                \A i \in inText : i \in DOMAIN places /\ places[i] = Place(src, labels[i].start)
=============================================================================
