----------------------------- MODULE ErrorChain -----------------------------
(***************************************************************************)
(* A program that builds, wraps, joins, annotates and suppresses errors,   *)
(* in any order and through any name it holds.  Builders mutate in place,  *)
(* so what one part of the program does to an error another part has       *)
(* wrapped is visible to both.  No typed nil gets into these errors, so    *)
(* none of the operations panics (ErrDefer has the typed nils).            *)
(***************************************************************************)
EXTENDS ErrorValues, FiniteSets

CONSTANTS
    Codes,        \* non-empty error codes
    ForeignCode,  \* the one that coded errors of other packages have
    Recodes,      \* codes that WithCode gives to an error already in use
    Identities,   \* the code, class and retryability of freshly built errors
    Foreign,      \* "plain", "coded" and "ctx" leaves other packages return
    MaxNodes,     \* bound on the heap
    MaxSuppressed \* bound on the suppressed errors in the heap

ASSUME ConstantsAssumption ==
    /\ NoCode \notin Codes /\ Codes # {} /\ Recodes \subseteq Codes /\ ForeignCode \in Codes
    /\ Identities \subseteq [code : Codes \cup {NoCode}, class : {"expected", "defect", "cancelled"}, retry : BOOLEAN]
    /\ Foreign \subseteq {"plain", "coded", "ctx"}
    /\ MaxNodes \in Nat /\ MaxSuppressed \in Nat

VARIABLE heap

Values == DOMAIN heap

Errors == {v \in Values : heap[v].kind = "errx"}

Room == Len(heap) < MaxNodes

Init == heap = <<>>

DoNew ==
    /\ Room
    /\ \E id \in Identities :
        heap' = Append(heap, [Blank EXCEPT !.code = id.code, !.class = id.class, !.retry = id.retry])

ForeignNode(kind, cause) ==
    [Blank EXCEPT !.kind = IF kind = "ctx" THEN "ctx" ELSE "foreign",
                  !.code = IF kind = "coded" THEN ForeignCode ELSE NoCode,
                  !.cause = cause]

DoForeign ==
    /\ Room
    /\ \E k \in Foreign : heap' = Append(heap, ForeignNode(k, Nil))

\* fmt.Errorf with one %w.
DoErrorf ==
    /\ Room
    /\ \E v \in Values : heap' = Append(heap, ForeignNode("plain", v))

DoWrap ==
    /\ Room
    /\ \E v \in Values : heap' = Wrap(heap, v).heap

DoNote ==
    /\ Room
    /\ \E v \in Values : heap' = Note(heap, v).heap

DoJoin ==
    /\ Room
    /\ \E v, w \in Values \cup {Nil} : heap' = Join(heap, <<v, w>>).heap

\* Suppressing s on e makes e reachable from itself when s contains e.  The
\* code does not prevent it (see TraversalEnds); the program here does.
CanSuppress(e, s) ==
    /\ Len(FlattenSeq([i \in Values |-> IF i \in Errors THEN heap[i].supp ELSE <<>>])) < MaxSuppressed
    /\ ~Is(heap, s, e)

DoSuppress ==
    \E e \in Errors, s \in Values :
        /\ CanSuppress(e, s)
        /\ heap' = Suppress(heap, e, s)

CanAppend(p, s) == As(heap, p) # Nil => CanSuppress(As(heap, p), s)

DoAppendSuppressed ==
    /\ Room
    /\ \E p, s \in Values :
        /\ CanAppend(p, s)
        /\ heap' = AppendSuppressed(heap, p, s).heap

DoWithCode ==
    \E e \in Errors, c \in Recodes : heap' = WithCode(heap, e, c)

DoOpaque ==
    \E e \in Errors : heap' = Opaque(heap, e)

Next ==
    \/ DoNew \/ DoForeign \/ DoErrorf
    \/ DoWrap \/ DoNote \/ DoJoin
    \/ DoSuppress \/ DoAppendSuppressed
    \/ DoWithCode \/ DoOpaque

Spec == Init /\ [][Next]_heap

-----------------------------------------------------------------------------
(* Properties *)

\* Nodes refer to nodes, and the graph of every value is finite.
TypeOK ==
    \A v \in Values :
        /\ heap[v].cause \in Values \cup {Nil}
        /\ ToSet(heap[v].supp) \subseteq Values
        /\ Finite(heap, v)

FirstErrorWith(v, c) == FirstThat(Preorder(heap, v), LAMBDA x : x \in Errors /\ heap[x].code = c, Nil)

\* The library's own walks (Code, HasCode, FindByCode) look at a graph in the
\* order the standard library's do: they never disagree on what comes first.
\* Code is the code of the first that has one, FindByCode the first *Error with
\* that code, and HasCode tells whether there is any error with it.
InspectorsAgree ==
    \A v \in Values :
        LET coded == FirstThat(Preorder(heap, v), LAMBDA x : heap[x].code # NoCode, Nil)
        IN  /\ Code(heap, v) = IF coded = Nil THEN NoCode ELSE heap[coded].code
            /\ \A c \in Codes :
                /\ HasCode(heap, v, c) <=> \E x \in ToSet(Preorder(heap, v)) : heap[x].code = c
                /\ FindByCode(heap, v, c) = FirstErrorWith(v, c)

\* Whatever was matchable in a value stays matchable in it, whatever is done
\* to any part of its graph: only Opaque hides.
MatchesStay ==
    [][(\A v \in Values : heap'[v].opaque = heap[v].opaque) =>
        \A v, x \in Values : Is(heap, v, x) => Is(heap', v, x)]_heap

\* Wrapping a graph that has an *Error keeps its class and retryability, and
\* its code if that *Error is the first to have one.
WrapKeepsIdentity ==
    \A v \in Values :
        LET w == Wrap(heap, v)
            e == Get(heap, v)
        IN  e # Nil =>
            /\ ClassOf(w.heap, w.val) = ClassOf(heap, v)
            /\ IsRetryable(w.heap, w.val) = IsRetryable(heap, v)
            /\ heap[e].code = Code(heap, v) => Code(w.heap, w.val) = Code(heap, v)

\* AppendSuppressed loses neither error: both graphs stay matchable in what
\* it leaves, unless the error it attaches to is a barrier.  And the secondary
\* one comes last in every search: a chain (no Join in it) that has a code
\* keeps it.
AppendKeepsBoth ==
    \A p, s \in Values :
        LET r == AppendSuppressed(heap, p, s)
            e == As(heap, p)
        IN  CanAppend(p, s) =>
            /\ e = Nil \/ ~heap[e].opaque =>
                \A x \in Values : Is(heap, p, x) \/ Is(heap, s, x) => Is(r.heap, r.val, x)
            /\ Code(heap, p) # NoCode =>
                \/ \E x \in ToSet(Preorder(heap, p)) : heap[x].kind = "join" \/ heap[x].supp # <<>>
                \/ Code(r.heap, r.val) = Code(heap, p)

\* The return trace is a record of the past: the sites of all the layers an
\* error went through, each once.  Nothing done later to any part of the graph,
\* barriers and suppressed errors included, changes what an error says of its
\* way; a new layer that records its site says what the error inside says, and
\* that site.  In which order the sites come is left open here: see README.md.
TraceIsHistory ==
    [][/\ \A v \in Errors : Trace(heap', v) = Trace(heap, v)
       /\ \A w \in DOMAIN heap' \ Values : HasWrapPC(heap'[w]) =>
            LET inside == Trace(heap, heap'[w].cause)
            IN  /\ ToSet(Trace(heap', w)) = ToSet(inside) \cup {w}
                /\ Len(Trace(heap', w)) = Len(inside) + 1]_heap

-----------------------------------------------------------------------------
(* What the documentation says and the code does not do *)

\* errdefer.go:33-34, "records extra as a secondary error on *errp without
\* letting it mask the primary": the answer of ClassOf is the primary's.
SecondaryNeverMasks ==
    \A p, s \in Values :
        LET r == AppendSuppressed(heap, p, s)
        IN  CanAppend(p, s) => ClassOf(r.heap, r.val) = ClassOf(heap, p)

\* errx.go:139-140, "so errors.Is/As traverse the whole chain": the chain that
\* AppendSuppressed leaves has an end, also when a Close returns an error
\* that the function has already returned.
TraversalEnds ==
    \A p, s \in Values :
        LET r == AppendSuppressed(heap, p, s) IN Finite(r.heap, r.val)
=============================================================================
