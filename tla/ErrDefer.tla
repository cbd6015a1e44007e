------------------------------ MODULE ErrDefer ------------------------------
(***************************************************************************)
(* One call of a function  func f() (err error)  that registers deferred   *)
(* calls of errdefer.go and recover.go, then returns or panics.  Go runs   *)
(* the deferred calls last in, first out; each sees in err what the ones   *)
(* before it left there.  A deferred call may itself panic: the runtime    *)
(* then goes on with the remaining ones under the new panic.               *)
(***************************************************************************)
EXTENDS Results, FiniteSets

CONSTANTS
    Orders,     \* registration orders under study, sequences of Kinds
    Returned,   \* what the body may return: "bare", "errx", "plain", "wrap-nil"
    Calls,      \* what a function that gives a Result may return: "ok" or as above
    Closing,    \* what a Close may return: "nil", "errx", "plain"
    Panics,     \* what may be panicked with: "error", "value"
    Callbacks   \* what cleanup and fn may do: "ok", "panic"

Kinds == {"OnError", "OnSuccess", "Close", "Recover"}

ASSUME ConstantsAssumption ==
    /\ Orders \subseteq Seq(Kinds)
    /\ Returned \subseteq {"bare", "errx", "plain", "wrap-nil"}
    /\ Calls \subseteq {"ok", "errx", "plain", "wrap-nil"}
    /\ Closing \subseteq {"nil", "errx", "plain"}
    /\ Panics \subseteq {"error", "value"}
    /\ Callbacks \subseteq {"ok", "panic"}

VARIABLES
    order,     \* the deferred calls the function registers, never changed
    phase,     \* "body", "unwinding" or "done"
    defers,    \* those not yet run
    errp,      \* *errp, the named result
    panicking, \* whether a panic is in flight
    panicVal,  \* its value: an error, or Nil if it is not one
    heap,
    primary,   \* history: *errp when the body ended
    failures,  \* history: errors returned by the body or by a Close
    discarded, \* history: those of a Close that a panic in CloseSuppressing took with it
    thrown,    \* history: errors panicked with
    panicked,  \* history: there was a panic
    ran,       \* history: kinds of callbacks that ran
    skipped    \* history: and of those that did not

result == <<errp, panicking, panicVal, heap>>
vars == <<order, phase, defers, result, primary, failures, discarded, thrown, panicked, ran, skipped>>

Init ==
    /\ order \in Orders
    /\ phase = "body"
    /\ defers = order
    /\ errp = Nil /\ panicking = FALSE /\ panicVal = Nil /\ heap = <<>>
    /\ primary = Nil /\ failures = {} /\ discarded = {} /\ thrown = {} /\ panicked = FALSE
    /\ ran = {} /\ skipped = {}

Leaf(kind) ==
    IF kind = "plain" THEN [Blank EXCEPT !.kind = "foreign"]
    ELSE [Blank EXCEPT !.code = "A", !.class = "cancelled"]

\* The panic takes the place of one in flight, if any.
ThrowValue(h, v) ==
    /\ heap' = h
    /\ panicking' = TRUE /\ panicked' = TRUE
    /\ panicVal' = v
    /\ thrown' = thrown \cup ({v} \ {Nil})

Throw(h, p) ==
    LET made == IF p = "error" THEN Alloc(h, Leaf("plain")) ELSE InPlace(h, Nil)
    IN  ThrowValue(made.heap, made.val)

\* The body assigns err and goes on.
SetError ==
    /\ phase = "body" /\ errp = Nil
    /\ \E k \in Returned \ {"bare", "wrap-nil"} :
        LET made == Alloc(heap, Leaf(k)) IN heap' = made.heap /\ errp' = made.val
    /\ UNCHANGED <<order, phase, defers, panicking, panicVal, primary, failures, discarded, thrown, panicked, ran, skipped>>

\* return; return e; return errx.Wrap(g(), "g") when g() is nil.
Return ==
    /\ phase = "body" /\ phase' = "unwinding"
    /\ \E r \in Returned :
        LET made == CASE r = "bare" -> InPlace(heap, errp)
                      [] r = "wrap-nil" -> Wrap(heap, Nil)
                      [] OTHER -> Alloc(heap, Leaf(r))
        IN  heap' = made.heap /\ errp' = made.val
    /\ primary' = errp' /\ failures' = {errp'} \ {Nil, TypedNil}
    /\ UNCHANGED <<order, defers, panicking, panicVal, discarded, thrown, panicked, ran, skipped>>

Panic ==
    /\ phase = "body" /\ phase' = "unwinding"
    /\ \E p \in Panics : Throw(heap, p)
    /\ primary' = errp /\ failures' = {errp} \ {Nil}
    /\ UNCHANGED <<order, defers, errp, discarded, ran, skipped>>

\* What the function called returns, as From makes a Result of it.
Try(h, call) ==
    CASE call = "ok"       -> InPlace(h, Nil)
      [] call = "wrap-nil" -> Wrap(h, Nil)
      [] OTHER             -> Alloc(h, Leaf(call))

\* Two calls, the second after the first, or after the first has been handled,
\* or both of them whatever happens; or one, wrapped or noted where it fails.
Railway(form, c, d) ==
    LET first  == Try(heap, c)
        second == Try(first.heap, d)
    IN  CASE form = "then"      -> AndThen(first, second)
          [] form = "recovered" -> AndThen(RecoverResult(first), second)
          [] form = "collected" -> InPlace(second.heap, Collect(<<first.val, second.val>>))
          [] form = "wrapped"   -> MapErr(first, Wrap(first.heap, first.val))
          [] form = "noted"     -> MapErr(first, Note(first.heap, first.val))

Railways == {"then", "recovered", "collected", "wrapped", "noted"}

\* MapErr calls the function on a typed nil too, and Wrap and Note panic on it.
RailwayPanics(form, c) ==
    LET first == Try(heap, c)
    IN  form \in {"wrapped", "noted"} /\ PanicsOnNil(first.heap, first.val)

\* return r.Err()
ReturnResult ==
    /\ phase = "body" /\ phase' = "unwinding"
    /\ \E form \in Railways, c, d \in Calls :
        /\ ~RailwayPanics(form, c)
        /\ LET r == Railway(form, c, d) IN heap' = r.heap /\ errp' = r.val
    /\ primary' = errp' /\ failures' = {errp'} \ {Nil, TypedNil}
    /\ UNCHANGED <<order, defers, panicking, panicVal, discarded, thrown, panicked, ran, skipped>>

\* r.Unwrap() of a failure panics with its error.
UnwrapResult ==
    /\ phase = "body" /\ phase' = "unwinding"
    /\ \E form \in Railways, c, d \in Calls :
        /\ ~RailwayPanics(form, c)
        /\ LET r == Railway(form, c, d) IN IsErr(r.val) /\ ThrowValue(r.heap, r.val)
    /\ primary' = errp /\ failures' = {errp} \ {Nil}
    /\ UNCHANGED <<order, defers, errp, discarded, ran, skipped>>

\* The runtime panics with an error of its own before there is a result.
PanicInRailway ==
    /\ phase = "body" /\ phase' = "unwinding"
    /\ \E form \in Railways, c \in Calls :
        RailwayPanics(form, c) /\ Throw(Try(heap, c).heap, "error")
    /\ primary' = errp /\ failures' = {errp} \ {Nil}
    /\ UNCHANGED <<order, defers, errp, discarded, ran, skipped>>

\* The deferred call that runs next is of this kind.
Run(kind) ==
    /\ phase = "unwinding" /\ defers # <<>> /\ Last(defers) = kind
    /\ defers' = Front(defers)
    /\ UNCHANGED <<order, phase, primary>>

RunsOnError(p) == p # Nil

RunsOnSuccessAlways(p) == TRUE

RunsOnSuccess(p) == p = Nil

\* Run the callback, which may panic, or skip it.
Callback(kind, runs) ==
    IF runs
    THEN /\ ran' = ran \cup {kind} /\ UNCHANGED <<skipped, errp, failures, discarded>>
         /\ \E c \in Callbacks :
             IF c = "ok" THEN UNCHANGED <<heap, panicking, panicVal, thrown, panicked>>
             ELSE \E p \in Panics : Throw(heap, p)
    ELSE /\ skipped' = skipped \cup {kind}
         /\ UNCHANGED <<ran, result, failures, discarded, thrown, panicked>>

\* defer errx.OnError(&err, cleanup)
OnError == Run("OnError") /\ Callback("OnError", RunsOnError(errp))

\* defer errx.OnSuccess(&err, fn)
OnSuccess == Run("OnSuccess") /\ Callback("OnSuccess", RunsOnSuccess(errp))

\* defer errx.CloseSuppressing(&err, c)
CloseOk ==
    /\ Run("Close") /\ "nil" \in Closing
    /\ UNCHANGED <<result, failures, discarded, thrown, panicked, ran, skipped>>

CloseFails ==
    /\ Run("Close") /\ ~PanicsOnNil(heap, errp)
    /\ \E c \in Closing \ {"nil"} :
        LET cerr == Alloc(heap, Leaf(c))
            r    == AppendSuppressed(cerr.heap, errp, cerr.val)
        IN  /\ heap' = r.heap /\ errp' = r.val
            /\ failures' = failures \cup {cerr.val}
    /\ UNCHANGED <<panicking, panicVal, discarded, thrown, panicked, ran, skipped>>

\* The first *Error of a typed nil is nil: Suppress dereferences it, and what
\* Close returned goes with the panic.
CloseFailsOnTypedNil ==
    /\ Run("Close") /\ PanicsOnNil(heap, errp)
    /\ \E c \in Closing \ {"nil"} :
        LET cerr == Alloc(heap, Leaf(c))
        IN  /\ Throw(cerr.heap, "error")
            /\ failures' = failures \cup {cerr.val}
            /\ discarded' = discarded \cup {cerr.val}
    /\ UNCHANGED <<errp, ran, skipped>>

\* defer errx.Recover(&err)
RecoverPanic ==
    /\ Run("Recover") /\ panicking
    /\ LET r == Recover(heap, errp, panicVal) IN heap' = r.heap /\ errp' = r.val
    /\ panicking' = FALSE /\ panicVal' = Nil
    /\ UNCHANGED <<failures, discarded, thrown, panicked, ran, skipped>>

RecoverNothing ==
    /\ Run("Recover") /\ ~panicking
    /\ UNCHANGED <<result, failures, discarded, thrown, panicked, ran, skipped>>

\* f returns err, or the panic goes on in its caller.
Finish ==
    /\ phase = "unwinding" /\ defers = <<>>
    /\ phase' = "done"
    /\ UNCHANGED <<order, defers, result, primary, failures, discarded, thrown, panicked, ran, skipped>>

Next ==
    \/ SetError \/ Return \/ Panic \/ ReturnResult \/ UnwrapResult \/ PanicInRailway
    \/ OnError \/ OnSuccess
    \/ CloseOk \/ CloseFails \/ CloseFailsOnTypedNil
    \/ RecoverPanic \/ RecoverNothing
    \/ Finish

Spec == Init /\ [][Next]_vars

-----------------------------------------------------------------------------
(* Properties *)

Failed == errp # Nil \/ panicking

\* The shape of the state.
TypeOK ==
    /\ order \in Orders /\ phase \in {"body", "unwinding", "done"}
    /\ IsPrefix(defers, order)
    /\ errp \in DOMAIN heap \cup {Nil, TypedNil} /\ panicVal \in DOMAIN heap \cup {Nil, TypedNil}
    /\ panicking \in BOOLEAN /\ (~panicking => panicVal = Nil)
    /\ \A v \in DOMAIN heap : Finite(heap, v)

\* Every error the body returned and every error a Close returned is found by
\* errors.Is in the final result, for any order of defers, panics included.
\* The exception are the errors of Closes that ran while the result was a typed
\* nil: AppendSuppressed panics on it and they are gone.  That takes a body
\* that returned a typed nil, and it never happens without a panic.
NothingLost ==
    phase = "done" =>
        /\ \A x \in failures \ discarded : errp # Nil /\ Is(heap, errp, x)
        /\ discarded # {} => primary = TypedNil /\ panicked

\* "A failing Close never masks the real failure": when the body returned an
\* *Error and nothing panicked, that is what the inspectors still find.
PrimaryStaysPrimary ==
    phase = "done" /\ ~panicked /\ primary > 0 =>
        (heap[primary].kind = "errx" => Get(heap, errp) = primary)

\* A panic is never mistaken for an ordinary error: it is either still in
\* flight, or the final error is classified as a recovered defect, whatever
\* Close errors came before and after.
PanicStaysDefect ==
    phase = "done" /\ panicked /\ ~panicking => Recovered(heap, errp) /\ ClassOf(heap, errp) = "defect"

\* The order that makes the callbacks exact: those that may set err (Close,
\* Recover) are registered after, hence run before, those that look at it.
Disciplined(o) ==
    \A i, j \in DOMAIN o : o[i] \in {"Close", "Recover"} /\ o[j] \in {"OnError", "OnSuccess"} => j < i

\* Once a deferred call has been told of failure the function fails: OnError
\* never undoes work that then counts as done, OnSuccess never skips it.  That
\* is so in every order.  With the order above, when no panic leaves the
\* function, OnError runs exactly when the function fails and OnSuccess exactly
\* when it succeeds.  The examples (README.md:168-169, docs/snippets.md:63-65)
\* register the Close first, so that it runs last: a commit may then have run
\* in a function that fails.
CallbacksExact ==
    phase = "done" =>
        /\ "OnError" \in ran \/ "OnSuccess" \in skipped => Failed
        /\ Disciplined(order) /\ ~panicking /\ ("OnSuccess" \in ran \/ "OnError" \in skipped) => errp = Nil

-----------------------------------------------------------------------------
(* What the documentation says and the code does not do *)

\* README.md:192, "original preserved as cause", and recover_ctx_test.go:34,
\* "panic(error) should keep the error matchable as cause".
PanicErrorMatchable ==
    phase = "done" /\ ~panicking => \A x \in thrown : Is(heap, errp, x)

\* construct.go:36-37, "Returns nil if err is nil so it is safe at the tail of
\* a function": if nothing went wrong, the function returns nil.
SuccessReturnsNil ==
    phase = "done" /\ failures = {} /\ ~panicked => errp = Nil
=============================================================================
