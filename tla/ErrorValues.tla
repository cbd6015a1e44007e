---------------------------- MODULE ErrorValues ----------------------------
(***************************************************************************)
(* Error values as a heap, and the functions of errx.go, construct.go,     *)
(* inspect.go, stack.go, errdefer.go and recover.go over it.  A heap is a  *)
(* sequence of nodes; an error value is Nil (a nil interface), TypedNil (a *)
(* non-nil interface around a nil *Error), or the position of a node.      *)
(*                                                                         *)
(* A node is an *Error ("errx"), the result of Join ("join"), an error of  *)
(* other packages ("foreign", which may have a Code method and an Unwrap), *)
(* or a context cancellation ("ctx").  Messages, fields and severities are *)
(* left out, and so is the cached fingerprint; class, code and             *)
(* retryability stand for the identity that Wrap copies.                   *)
(* An operation that allocates returns the new heap with its result.       *)
(***************************************************************************)
EXTENDS Integers, Sequences, SequencesExt

Nil == 0

TypedNil == -1

NoCode == ""

Blank ==
    [kind |-> "errx", code |-> NoCode, class |-> "expected", retry |-> FALSE,
     cause |-> Nil, supp |-> <<>>, opaque |-> FALSE, panic |-> FALSE]

Alloc(h, node) == [heap |-> Append(h, node), val |-> Len(h) + 1]

InPlace(h, v) == [heap |-> h, val |-> v]

IsErrx(h, v) == v = TypedNil \/ (v > 0 /\ h[v].kind = "errx")

-----------------------------------------------------------------------------
(* The unwrap graph *)

Exposed(n) == (IF n.cause = Nil THEN <<>> ELSE <<n.cause>>) \o n.supp

\* (*Error).Unwrap, (*multiError).Unwrap, and what foreign errors unwrap to.
Unwrap(h, v) ==
    IF v \notin DOMAIN h THEN <<>>
    ELSE IF h[v].opaque THEN <<>>
    ELSE Exposed(h[v])

(***************************************************************************)
(* The order in which errors.Is and errors.As of the standard library      *)
(* visit a graph: the error, then what it unwraps to, depth first.  The    *)
(* first argument of visit is the depth still allowed: an acyclic heap is  *)
(* never deeper than it is long.                                           *)
(***************************************************************************)
Visits(h) ==
    LET visit[d \in Nat] == [x \in Int |->
            IF d = 0 THEN <<>>
            ELSE <<x>> \o FlattenSeq([i \in 1 .. Len(Unwrap(h, x)) |-> visit[d - 1][Unwrap(h, x)[i]]])]
    IN  visit

Preorder(h, v) == IF v = Nil THEN <<>> ELSE Visits(h)[Len(h) + 1][v]

\* Is there a path of so many nodes from v?  One longer than the heap repeats.
HasPath(h) ==
    LET path[d \in Nat] == [x \in Int |->
            \/ d = 0
            \/ \E i \in 1 .. Len(Unwrap(h, x)) : path[d - 1][Unwrap(h, x)[i]]]
    IN  path

\* Traversals of v end: no node can be reached from itself.
Finite(h, v) == ~HasPath(h)[Len(h) + 1][v]

\* The first in a search that passes the test.
FirstThat(s, Test(_), none) ==
    LET i == SelectInSeq(s, Test) IN IF i = 0 THEN none ELSE s[i]

\* errors.As(err, *Error): the first *Error, a typed nil included.
As(h, v) == FirstThat(Preorder(h, v), LAMBDA x : IsErrx(h, x), Nil)

\* errors.Is: errors are compared by identity.
Is(h, v, target) == target \in ToSet(Preorder(h, v))

-----------------------------------------------------------------------------
(* inspect.go *)

Get(h, v) == LET e == As(h, v) IN IF e = TypedNil THEN Nil ELSE e

FirstChildCode(s) == IF s = <<>> THEN NoCode ELSE s[1]

FirstCode(s) == FirstThat(s, LAMBDA c : c # NoCode, NoCode)

\* Code, HasCode and FindByCode each walk by themselves: down while there is
\* one child, calling themselves for each child of a multi-unwrap.  Where they
\* meet a typed nil they dereference it: they have no value there.
CodeWalk(h) ==
    LET walk[d \in Nat] == [x \in Int |->
            IF d = 0 \/ x = Nil THEN NoCode
            ELSE IF h[x].code # NoCode THEN h[x].code
            ELSE FirstCode([i \in 1 .. Len(Unwrap(h, x)) |-> walk[d - 1][Unwrap(h, x)[i]]])]
    IN  walk

Code(h, v) == CodeWalk(h)[Len(h) + 1][v]

HasCodeWalk(h, c) ==
    LET walk[d \in Nat] == [x \in Int |->
            /\ d > 0 /\ x # Nil
            /\ \/ h[x].code = c
               \/ \E i \in 1 .. Len(Unwrap(h, x)) : walk[d - 1][Unwrap(h, x)[i]]]
    IN  walk

HasCode(h, v, c) == HasCodeWalk(h, c)[Len(h) + 1][v]

FirstChildHit(s) == IF s = <<>> THEN Nil ELSE s[1]

FirstHit(s) == FirstThat(s, LAMBDA x : x # Nil, Nil)

\* Only an *Error is returned: a foreign error with that code is passed by.
FindByCodeWalk(h, c) ==
    LET walk[d \in Nat] == [x \in Int |->
            IF d = 0 \/ x = Nil THEN Nil
            ELSE IF IsErrx(h, x) /\ h[x].code = c THEN x
            ELSE FirstHit([i \in 1 .. Len(Unwrap(h, x)) |-> walk[d - 1][Unwrap(h, x)[i]]])]
    IN  walk

FindByCode(h, v, c) == FindByCodeWalk(h, c)[Len(h) + 1][v]

HasCancellation(h, v) == \E x \in ToSet(Preorder(h, v)) : x > 0 /\ h[x].kind = "ctx"

ClassOf(h, v) ==
    IF Get(h, v) # Nil THEN h[Get(h, v)].class
    ELSE IF HasCancellation(h, v) THEN "cancelled"
    ELSE "expected"

IsRetryable(h, v) == Get(h, v) # Nil /\ h[Get(h, v)].retry

Recovered(h, v) == Get(h, v) # Nil /\ h[Get(h, v)].panic

-----------------------------------------------------------------------------
(* stack.go *)

\* Wrap and Note record where they were called; what Recover builds does not.
HasWrapPC(n) == n.kind = "errx" /\ n.cause # Nil /\ ~n.panic

TraceUnwrapping(h, v) ==
    LET walk[d \in Nat] == [x \in Int |->
            IF d = 0 \/ x \notin DOMAIN h \/ ~IsErrx(h, x) THEN <<>>
            ELSE (IF HasWrapPC(h[x]) THEN <<x>> ELSE <<>>) \o walk[d - 1][FirstThat(Unwrap(h, x), LAMBDA y : TRUE, Nil)]]
    IN  walk[Len(h) + 1][v]

\* The layers whose call sites Trace lists.  It follows the causes, through
\* barriers too, up to the first that is no *Error.
TraceWalk(h) ==
    LET walk[d \in Nat] == [x \in Int |->
            IF d = 0 \/ x \notin DOMAIN h \/ ~IsErrx(h, x) THEN <<>>
            ELSE (IF HasWrapPC(h[x]) THEN <<x>> ELSE <<>>) \o walk[d - 1][h[x].cause]]
    IN  walk

Trace(h, v) == TraceWalk(h)[Len(h) + 1][v]

-----------------------------------------------------------------------------
(* construct.go and the builders of errx.go *)

InheritCodeOnly(n, inner) == [n EXCEPT !.code = inner.code]

Inherit(n, inner) ==
    [n EXCEPT !.code = inner.code, !.class = inner.class, !.retry = inner.retry]

\* Wrap, Note and AppendSuppressed use the first *Error that errors.As finds
\* in v, and panic where that is nil.  Below is what they do to other values.
PanicsOnNil(h, v) == As(h, v) = TypedNil

\* Wrap of a nil error is a nil *Error, which an error variable holds as TypedNil.
Wrap(h, v) ==
    IF v = Nil THEN InPlace(h, TypedNil)
    ELSE LET w == [Blank EXCEPT !.cause = v]
             e == As(h, v)
         IN  Alloc(h, IF e = Nil THEN w ELSE Inherit(w, h[e]))

\* Note adds a field to the nearest *Error itself, or wraps.
Note(h, v) ==
    LET e == As(h, v)
    IN  IF v = Nil THEN InPlace(h, Nil)
        ELSE IF e = Nil THEN Alloc(h, [Blank EXCEPT !.cause = v])
        ELSE InPlace(h, v)

JoinKeepingNils(h, errs) == Alloc(h, [Blank EXCEPT !.kind = "join", !.supp = errs])

JoinKeepingFirst(h, errs) == InPlace(h, FirstThat(errs, LAMBDA x : x # Nil, Nil))

Join(h, errs) ==
    LET kept[i \in 0 .. Len(errs)] ==
            IF i = 0 THEN <<>>
            ELSE IF errs[i] = Nil THEN kept[i - 1]
            ELSE Append(kept[i - 1], errs[i])
        some == kept[Len(errs)]
    IN  CASE Len(some) = 0 -> InPlace(h, Nil)
          [] Len(some) = 1 -> InPlace(h, some[1])
          [] OTHER -> Alloc(h, [Blank EXCEPT !.kind = "join", !.supp = some])

SuppressItself(h, e, s) == IF s = Nil THEN h ELSE [h EXCEPT ![e].supp = Append(@, e)]

SuppressReplacing(h, e, s) == IF s = Nil THEN h ELSE [h EXCEPT ![e].supp = <<s>>]

Suppress(h, e, s) == IF s = Nil THEN h ELSE [h EXCEPT ![e].supp = Append(@, s)]

WithCode(h, e, c) == [h EXCEPT ![e].code = c]

Opaque(h, e) == [h EXCEPT ![e].opaque = TRUE]

-----------------------------------------------------------------------------
(* errdefer.go and recover.go *)

AppendSuppressedOverwriting(h, p, extra) == InPlace(h, IF extra = Nil THEN p ELSE extra)

\* Attach extra to the error p.
AppendSuppressed(h, p, extra) ==
    LET e == As(h, p)
    IN  IF extra = Nil THEN InPlace(h, p)
        ELSE IF p = Nil THEN InPlace(h, extra)
        ELSE IF e # Nil THEN InPlace(Suppress(h, e, extra), p)
        ELSE Join(h, <<p, extra>>)

\* r is the panic value if that is an error, Nil if it is anything else.
PanicError(r) == [Blank EXCEPT !.class = "defect", !.panic = TRUE, !.cause = r]

RecoverForgetting(h, p, r) == Alloc(h, PanicError(r))

RecoverKeepingOld(h, p, r) == IF p = Nil THEN Alloc(h, PanicError(r)) ELSE InPlace(h, p)

\* The error Recover stores: an error already there replaces the panic's own.
Recover(h, p, r) == Alloc(h, IF p = Nil THEN PanicError(r) ELSE [PanicError(r) EXCEPT !.cause = p])
=============================================================================
