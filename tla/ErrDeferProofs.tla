--------------------------- MODULE ErrDeferProofs ---------------------------
(***************************************************************************)
(* Proofs, for any registration order of any length and any outcome of the *)
(* body, of the Closes and of the callbacks, of what ErrDefer promises of  *)
(* the error that a function with deferred helpers ends with.              *)
(***************************************************************************)
EXTENDS ErrDefer, ErrorValuesProofs

-----------------------------------------------------------------------------
(* Heaps that such a function makes *)

LeafCodes == {NoCode, "A"}

\* There are no barriers, no cycles, and a typed nil is only inside an *Error.
GoodHeap(h) ==
    /\ h \in Heaps(LeafCodes) /\ Ranked(h)
    /\ \A v \in DOMAIN h : ~h[v].opaque /\ (TypedNil \in Children(h, v) => h[v].kind = "errx")

\* What an error variable can hold.
Held(h) == Refs(h) \cup {Nil}

\* Errors stay what they are and contain what they contained.
Grown(h, k) ==
    /\ DOMAIN h \subseteq DOMAIN k /\ Refs(h) \subseteq Refs(k)
    /\ \A x \in DOMAIN h : k[x].kind = h[x].kind /\ k[x].class = h[x].class /\ k[x].panic = h[x].panic
    /\ \A v \in Int : \A y : Is(h, v, y) => Is(k, v, y)

LEMMA GrownTransitive ==
    /\ \A h : Grown(h, h)
    /\ \A h, k, m : Grown(h, k) /\ Grown(k, m) => Grown(h, m)
BY DEF Grown

LEMMA HeldType ==
    ASSUME NEW h, GoodHeap(h)
    PROVE  /\ Held(h) \subseteq Int /\ Refs(h) \subseteq Int /\ Nil \notin Refs(h)
           /\ DOMAIN h = 1 .. Len(h) /\ Len(h) \in Nat
           /\ Nil \in Held(h) /\ TypedNil \in Refs(h) /\ DOMAIN h \subseteq Refs(h)
           /\ \A v \in Held(h) : v # Nil /\ v # TypedNil <=> v \in DOMAIN h
           /\ \A v \in DOMAIN h : v > 0
<1>1. h \in Heaps(LeafCodes)
    BY DEF GoodHeap
<1>2. Refs(h) \subseteq Int /\ Nil \notin Refs(h) /\ DOMAIN h = 1 .. Len(h) /\ Len(h) \in Nat
    BY <1>1, RefsType
<1> QED
    BY <1>2 DEF Held, Refs, Nil, TypedNil

\* Building an error out of errors at hand.
LEMMA GoodAlloc ==
    ASSUME NEW h, GoodHeap(h), NEW n \in Node(LeafCodes), ~n.opaque,
           n.cause \in Held(h), ToSet(n.supp) \subseteq DOMAIN h, n.cause = TypedNil => n.kind = "errx"
    PROVE  LET a == Alloc(h, n)
           IN  /\ GoodHeap(a.heap) /\ Grown(h, a.heap) /\ Extends(a.heap, h, n)
               /\ a.val \in DOMAIN a.heap /\ a.val \notin Refs(h) /\ a.heap[a.val] = n
               /\ Children(a.heap, a.val) = ({n.cause} \ {Nil}) \cup ToSet(n.supp)
<1> DEFINE k == Append(h, n)
           m == Len(h) + 1
<1>1. Alloc(h, n).heap = k /\ Alloc(h, n).val = m
    BY DEF Alloc
<1>2. h \in Heaps(LeafCodes) /\ Ranked(h)
    BY DEF GoodHeap
<1>3. k \in Heaps(LeafCodes) /\ Extends(k, h, n) /\ Ranked(k)
    <2>1. ToSet(n.supp) \subseteq Refs(h)
        BY HeldType
    <2> QED
        BY <1>2, <2>1, AllocHeap DEF Held
<1> HIDE DEF k
<1>4. m \in DOMAIN k /\ m \notin Refs(h) /\ k[m] = n
    BY <1>3 DEF Extends
<1>5. Children(k, m) = ({n.cause} \ {Nil}) \cup ToSet(n.supp)
    BY <1>3, <1>4, ChildrenOf
<1>6. Grown(h, k)
    BY <1>3 DEF Extends, Grown
<1>7. ASSUME NEW v \in DOMAIN k PROVE ~k[v].opaque /\ (TypedNil \in Children(k, v) => k[v].kind = "errx")
    <2>1. CASE v = m
        <3>1. TypedNil \notin DOMAIN h
            BY HeldType DEF TypedNil
        <3> QED
            BY <1>4, <1>5, <2>1, <3>1
    <2>2. CASE v # m
        <3>1. v \in DOMAIN h /\ v \in Refs(h)
            BY <1>3, <2>2 DEF Extends, Refs
        <3>2. k[v] = h[v] /\ Children(k, v) = Children(h, v)
            BY <1>3, <3>1 DEF Extends
        <3> QED
            BY <3>1, <3>2 DEF GoodHeap
    <2> QED
        BY <2>1, <2>2
<1>8. GoodHeap(k)
    BY <1>3, <1>7 DEF GoodHeap
<1> QED
    BY <1>1, <1>3, <1>4, <1>5, <1>6, <1>8

LEMMA BlankType ==
    /\ Blank \in Node(LeafCodes)
    /\ Blank.kind = "errx" /\ Blank.cause = Nil /\ Blank.supp = <<>> /\ ToSet(<<>>) = {} /\ ~Blank.opaque
<1>1. <<>> \in Seq(Int) /\ ToSet(<<>>) = {}
    BY DEF ToSet
<1> DEFINE none == <<>>
<1>2. none \in Seq(Int)
    BY <1>1
<1>3. Blank = [kind |-> "errx", code |-> NoCode, class |-> "expected", retry |-> FALSE,
               cause |-> 0, supp |-> none, opaque |-> FALSE, panic |-> FALSE]
    BY DEF Blank, Nil
<1> HIDE DEF none
<1>4. Blank \in Node(LeafCodes)
    BY <1>2, <1>3 DEF Node, LeafCodes
<1>5. Blank.kind = "errx" /\ Blank.cause = Nil /\ Blank.supp = none /\ ~Blank.opaque
    BY <1>3 DEF Nil
<1> QED
    BY <1>1, <1>4, <1>5 DEF none

LEMMA LeafType ==
    ASSUME NEW c
    PROVE  /\ Leaf(c) \in Node(LeafCodes) /\ ~Leaf(c).opaque /\ Leaf(c).cause = Nil
           /\ Leaf(c).supp = <<>> /\ ToSet(Leaf(c).supp) = {}
<1>2. \/ Leaf(c) = [Blank EXCEPT !.kind = "foreign"]
      \/ Leaf(c) = [Blank EXCEPT !.code = "A", !.class = "cancelled"]
    BY DEF Leaf
<1>3. \A n \in Node(LeafCodes) :
        LET f == [n EXCEPT !.kind = "foreign"]
            g == [n EXCEPT !.code = "A", !.class = "cancelled"]
        IN  /\ f \in Node(LeafCodes) /\ f.opaque = n.opaque /\ f.cause = n.cause /\ f.supp = n.supp
            /\ g \in Node(LeafCodes) /\ g.opaque = n.opaque /\ g.cause = n.cause /\ g.supp = n.supp
    BY DEF Node, LeafCodes
<1> QED
    BY <1>2, <1>3, BlankType

\* An error of its own, new.
LEMMA NewLeaf ==
    ASSUME NEW h, GoodHeap(h), NEW c
    PROVE  LET a == Alloc(h, Leaf(c))
           IN  /\ GoodHeap(a.heap) /\ Grown(h, a.heap) /\ Extends(a.heap, h, Leaf(c))
               /\ a.val \in DOMAIN a.heap /\ a.val \notin Refs(h)
               /\ Children(a.heap, a.val) = {}
               /\ a.val \in Held(a.heap) /\ a.val # Nil /\ a.val # TypedNil
<1> DEFINE a == Alloc(h, Leaf(c))
<1>1. Nil \in Held(h) /\ Nil # TypedNil
    BY HeldType DEF Nil, TypedNil
<1>0. Leaf(c) \in Node(LeafCodes) /\ ~Leaf(c).opaque /\ Leaf(c).cause = Nil /\ ToSet(Leaf(c).supp) = {}
    BY LeafType
<1>2. /\ GoodHeap(a.heap) /\ Grown(h, a.heap) /\ Extends(a.heap, h, Leaf(c))
      /\ a.val \in DOMAIN a.heap /\ a.val \notin Refs(h)
      /\ Children(a.heap, a.val) = ({Leaf(c).cause} \ {Nil}) \cup ToSet(Leaf(c).supp)
    BY <1>0, <1>1, GoodAlloc
<1> HIDE DEF a
<1>3. Children(a.heap, a.val) = {}
    BY <1>2, LeafType
<1>4. a.val \in Held(a.heap) /\ a.val # Nil /\ a.val # TypedNil
    BY <1>2, HeldType DEF Held, Refs
<1> QED
    BY <1>2, <1>3, <1>4 DEF a

\* errors.As never stops at a typed nil inside another error: an *Error is
\* in front of it.
LEMMA AsInHeap ==
    ASSUME NEW h, GoodHeap(h), NEW v \in DOMAIN h
    PROVE  As(h, v) = Nil \/ (As(h, v) \in DOMAIN h /\ h[As(h, v)].kind = "errx" /\ Is(h, v, As(h, v)))
<1> DEFINE S == {x \in Refs(h) : x \in DOMAIN h => As(h, x) # TypedNil}
<1>1. h \in Heaps(LeafCodes) /\ Ranked(h)
    BY DEF GoodHeap
<1>2. ASSUME NEW x \in Refs(h), \A c \in Children(h, x) : c \in S PROVE x \in S
    <2> SUFFICES ASSUME x \in DOMAIN h PROVE As(h, x) # TypedNil
        OBVIOUS
    <2>1. x \in Int /\ x # Nil /\ x > 0
        BY HeldType
    <2>2. CASE h[x].kind = "errx"
        <3>1. As(h, x) = x
            BY <1>1, <2>1, <2>2, AsErrx DEF IsErrx
        <3> QED
            BY <2>1, <3>1 DEF TypedNil
    <2>3. CASE h[x].kind # "errx"
        <3>1. ~IsErrx(h, x)
            BY <2>1, <2>3 DEF IsErrx, TypedNil
        <3>2. As(h, x) = Nil \/ \E c \in Children(h, x) : As(h, x) = As(h, c)
            BY <1>1, <3>1, AsBelow
        <3>3. TypedNil \notin Children(h, x)
            BY <2>3 DEF GoodHeap
        <3>4. \A c \in Children(h, x) : c \in DOMAIN h
            BY <1>2, <3>3 DEF Refs
        <3>5. \A c \in Children(h, x) : As(h, c) # TypedNil
            BY <1>2, <3>4
        <3> QED
            BY <3>2, <3>5 DEF Nil, TypedNil
    <2> QED
        BY <2>2, <2>3
<1>3. v \in S
    <2>1. \A x \in Refs(h) : x \in S
        <3> HIDE DEF S
        <3> QED
            BY <1>1, <1>2, GraphInduction
    <2> QED
        BY <2>1 DEF Refs
<1>4. As(h, v) # TypedNil
    BY <1>3
<1>5. v \in Int /\ v # Nil /\ v \in Refs(h)
    BY HeldType
<1>6. As(h, v) = Nil \/ (Is(h, v, As(h, v)) /\ IsErrx(h, As(h, v)) /\ As(h, v) \in Int)
    BY <1>1, <1>5, AsType
<1>7. ASSUME As(h, v) # Nil PROVE As(h, v) \in DOMAIN h /\ h[As(h, v)].kind = "errx" /\ Is(h, v, As(h, v))
    <2>1. As(h, v) \in Refs(h)
        BY <1>1, <1>5, <1>6, <1>7, IsTransitive
    <2> QED
        BY <1>4, <1>6, <1>7, <2>1 DEF Refs, IsErrx
<1> QED
    BY <1>7

-----------------------------------------------------------------------------
(* What the calls that the function makes leave *)

\* A result that is in the heap it comes with, and that heap has grown from h.
Made(h, r) == GoodHeap(r.heap) /\ Grown(h, r.heap) /\ r.val \in Held(r.heap)

LEMMA MadeInPlace ==
    ASSUME NEW h, GoodHeap(h), NEW v \in Held(h)
    PROVE  Made(h, InPlace(h, v))
BY GrownTransitive DEF Made, InPlace

LEMMA MadeLater ==
    ASSUME NEW h, NEW k, NEW r, Grown(h, k), Made(k, r)
    PROVE  Made(h, r)
BY GrownTransitive DEF Made

LEMMA MadeHeld ==
    ASSUME NEW h, NEW k, Grown(h, k), NEW v \in Held(h)
    PROVE  v \in Held(k)
BY DEF Grown, Held

LEMMA MadeLeaf ==
    ASSUME NEW h, GoodHeap(h), NEW c
    PROVE  Made(h, Alloc(h, Leaf(c)))
BY NewLeaf DEF Made

\* Only a typed nil itself is one that errors.As finds first.
LEMMA PanicsIff ==
    ASSUME NEW h, GoodHeap(h), NEW v \in Held(h)
    PROVE  /\ PanicsOnNil(h, v) <=> v = TypedNil
           /\ v # TypedNil => As(h, v) = Nil \/ As(h, v) \in DOMAIN h
<1>1. v \in Int /\ h \in Heaps(LeafCodes) /\ TypedNil # Nil /\ TypedNil \notin DOMAIN h
    BY HeldType DEF GoodHeap, Nil, TypedNil
<1>2. CASE v = TypedNil
    <2>1. IsErrx(h, v)
        BY <1>2 DEF IsErrx
    <2>2. As(h, v) = v
        BY <1>1, <1>2, <2>1, AsErrx
    <2> QED
        BY <1>2, <2>2 DEF PanicsOnNil
<1>3. CASE v = Nil
    <2> DEFINE s == <<>>
    <2>1. s \in Seq(Int) /\ Preorder(h, v) = s /\ \A i \in 1 .. Len(s) : FALSE
        BY <1>3 DEF Preorder
    <2> HIDE DEF s
    <2>2. As(h, v) = FirstIn(s, ErrxIn(h))
        <3>1. {i \in 1 .. Len(s) : IsErrx(h, s[i])} = {i \in 1 .. Len(s) : s[i] \in ErrxIn(h)}
            BY <2>1
        <3>2. SelectInSeq(s, LAMBDA x : IsErrx(h, x)) = SelectInSeq(s, LAMBDA x : x \in ErrxIn(h))
            BY <3>1 DEF SelectInSeq
        <3> QED
            BY <2>1, <3>2 DEF As, FirstIn, FirstThat
    <2>3. As(h, v) = Nil
        BY <2>1, <2>2, FirstInIndex
    <2> QED
        BY <1>1, <1>3, <2>3 DEF PanicsOnNil
<1>4. CASE v # TypedNil /\ v # Nil
    <2>1. v \in DOMAIN h
        BY <1>4, HeldType
    <2>2. As(h, v) = Nil \/ As(h, v) \in DOMAIN h
        BY <2>1, AsInHeap
    <2> QED
        BY <1>1, <1>4, <2>2 DEF PanicsOnNil
<1> QED
    BY <1>2, <1>3, <1>4

\* A wrapper of its own around an error.
LEMMA MadeAround ==
    ASSUME NEW h, GoodHeap(h), NEW v \in Held(h),
           NEW n \in Node(LeafCodes), ~n.opaque, n.kind = "errx", n.cause = v, ToSet(n.supp) = {}
    PROVE  Made(h, Alloc(h, n))
<1> DEFINE a == Alloc(h, n)
<1>1. GoodHeap(a.heap) /\ Grown(h, a.heap) /\ a.val \in DOMAIN a.heap
    BY GoodAlloc
<1> HIDE DEF a
<1>2. Made(h, a)
    BY <1>1 DEF Made, Held, Refs
<1> QED
    BY <1>2 DEF a

LEMMA BlankAround ==
    ASSUME NEW v \in Int
    PROVE  LET w == [Blank EXCEPT !.cause = v]
           IN  w \in Node(LeafCodes) /\ ~w.opaque /\ w.kind = "errx" /\ w.cause = v /\ ToSet(w.supp) = {}
<1>1. \A b \in Node(LeafCodes) :
        LET f == [b EXCEPT !.cause = v]
        IN  f \in Node(LeafCodes) /\ f.opaque = b.opaque /\ f.kind = b.kind /\ f.cause = v /\ f.supp = b.supp
    BY DEF Node
<1> QED
    BY <1>1, BlankType

LEMMA MadeWrapNil ==
    ASSUME NEW h, GoodHeap(h)
    PROVE  Made(h, Wrap(h, Nil)) /\ Wrap(h, Nil) = InPlace(h, TypedNil)
<1>1. TypedNil \in Held(h)
    BY HeldType DEF Held
<1>2. Wrap(h, Nil) = InPlace(h, TypedNil)
    BY DEF Wrap
<1> QED
    BY <1>1, <1>2, MadeInPlace

LEMMA MadeWrap ==
    ASSUME NEW h, GoodHeap(h), NEW v \in Held(h), v # Nil, ~PanicsOnNil(h, v)
    PROVE  Made(h, Wrap(h, v))
<1> DEFINE w == [Blank EXCEPT !.cause = v]
           e == As(h, v)
           n == IF e = Nil THEN w ELSE Inherit(w, h[e])
<1>1. Wrap(h, v) = Alloc(h, n)
    BY DEF Wrap
<1>2. v \in Int /\ h \in Heaps(LeafCodes)
    BY HeldType DEF GoodHeap
<1>3. w \in Node(LeafCodes) /\ ~w.opaque /\ w.kind = "errx" /\ w.cause = v /\ ToSet(w.supp) = {}
    BY <1>2, BlankAround
<1> HIDE DEF w
<1>4. e = Nil \/ e \in DOMAIN h
    BY PanicsIff
<1> HIDE DEF e
<1>5. n \in Node(LeafCodes) /\ ~n.opaque /\ n.kind = "errx" /\ n.cause = v /\ ToSet(n.supp) = {}
    <2>1. CASE e = Nil
        BY <1>3, <2>1
    <2>2. CASE e # Nil
        <3>1. h[e] \in Node(LeafCodes)
            BY <1>2, <1>4, <2>2 DEF Heaps
        <3>2. \A b, i \in Node(LeafCodes) :
                LET f == Inherit(b, i)
                IN  f \in Node(LeafCodes) /\ f.opaque = b.opaque /\ f.kind = b.kind /\ f.cause = b.cause /\ f.supp = b.supp
            BY DEF Inherit, Node
        <3> QED
            BY <1>3, <2>2, <3>1, <3>2
    <2> QED
        BY <2>1, <2>2
<1> HIDE DEF n
<1> QED
    BY <1>1, <1>5, MadeAround

LEMMA MadeNote ==
    ASSUME NEW h, GoodHeap(h), NEW v \in Held(h), v # Nil
    PROVE  Made(h, Note(h, v))
<1> DEFINE w == [Blank EXCEPT !.cause = v]
<1>1. Note(h, v) = Alloc(h, w) \/ Note(h, v) = InPlace(h, v)
    BY DEF Note
<1>2. w \in Node(LeafCodes) /\ ~w.opaque /\ w.kind = "errx" /\ w.cause = v /\ ToSet(w.supp) = {}
    BY HeldType, BlankAround
<1> HIDE DEF w
<1> QED
    BY <1>1, <1>2, MadeAround, MadeInPlace

LEMMA MadeTry ==
    ASSUME NEW h, GoodHeap(h), NEW c
    PROVE  /\ Made(h, Try(h, c))
           /\ Try(h, c) = InPlace(Try(h, c).heap, Try(h, c).val)
<1>1. Nil \in Held(h)
    BY HeldType
<1>2. \/ Try(h, c) = InPlace(h, Nil)
      \/ Try(h, c) = Wrap(h, Nil)
      \/ Try(h, c) = Alloc(h, Leaf(c))
    BY DEF Try
<1>3. Made(h, InPlace(h, Nil)) /\ Made(h, Wrap(h, Nil)) /\ Made(h, Alloc(h, Leaf(c)))
    BY <1>1, MadeInPlace, MadeWrapNil, MadeLeaf
<1>4. Wrap(h, Nil) = InPlace(h, TypedNil)
    BY MadeWrapNil
<1>5. Try(h, c) = InPlace(Try(h, c).heap, Try(h, c).val)
    BY <1>2, <1>4 DEF InPlace, Alloc
<1> QED
    BY <1>2, <1>3, <1>5

\* The first error of two.
LEMMA CollectOfTwo ==
    ASSUME NEW a \in Int, NEW b \in Int
    PROVE  Collect(<<a, b>>) \in {Nil, a, b}
<1> DEFINE s == <<a, b>>
           T == {x \in Int : x # Nil}
<1>1. s \in Seq(Int) /\ Len(s) = 2 /\ s[1] = a /\ s[2] = b
    OBVIOUS
<1> HIDE DEF s
<1>2. {i \in 1 .. Len(s) : IsErr(s[i])} = {i \in 1 .. Len(s) : s[i] \in T}
    BY <1>1 DEF IsErr
<1>3. Collect(s) = FirstIn(s, T)
    <2>1. SelectInSeq(s, IsErr) = SelectInSeq(s, LAMBDA x : x \in T)
        BY <1>2 DEF SelectInSeq
    <2> QED
        BY <2>1 DEF Collect, FirstIn, FirstThat
<1>4. FirstIn(s, T) = Nil \/ FirstIn(s, T) \in ToSet(s)
    BY <1>1, FirstInType
<1>5. ToSet(s) \subseteq {a, b}
    <2>1. \A i \in 1 .. 2 : i = 1 \/ i = 2
        OBVIOUS
    <2>2. DOMAIN s = 1 .. 2
        BY <1>1
    <2> QED
        BY <1>1, <2>1, <2>2 DEF ToSet
<1> QED
    BY <1>3, <1>4, <1>5 DEF s

LEMMA MadeRailway ==
    ASSUME GoodHeap(heap), NEW form \in Railways, NEW c, NEW d, ~RailwayPanics(form, c)
    PROVE  Made(heap, Railway(form, c, d))
<1> DEFINE first == Try(heap, c)
           second == Try(first.heap, d)
<1>1. Made(heap, first) /\ first = InPlace(first.heap, first.val)
    BY MadeTry
<1>2. GoodHeap(first.heap) /\ Grown(heap, first.heap) /\ first.val \in Held(first.heap)
    BY <1>1 DEF Made
<1>3. Made(first.heap, second)
    BY <1>2, MadeTry
<1>4. Made(heap, second)
    BY <1>2, <1>3, MadeLater
<1>5. Railway(form, c, d) =
        CASE form = "then"      -> AndThen(first, second)
          [] form = "recovered" -> AndThen(RecoverResult(first), second)
          [] form = "collected" -> InPlace(second.heap, Collect(<<first.val, second.val>>))
          [] form = "wrapped"   -> MapErr(first, Wrap(first.heap, first.val))
          [] form = "noted"     -> MapErr(first, Note(first.heap, first.val))
    BY DEF Railway
<1>10. form = "wrapped" => ~PanicsOnNil(first.heap, first.val)
    BY DEF RailwayPanics
<1> HIDE DEF first, second
<1>6. CASE form = "then"
    <2>1. Railway(form, c, d) = AndThen(first, second)
        BY <1>5, <1>6
    <2> QED
        BY <1>1, <1>4, <2>1 DEF AndThen
<1>7. CASE form = "recovered"
    <2>1. Railway(form, c, d) = AndThen(RecoverResult(first), second)
        BY <1>5, <1>7
    <2>2. RecoverResult(first).val = Nil
        BY <1>1 DEF RecoverResult, InPlace
    <2> QED
        BY <1>4, <2>1, <2>2 DEF AndThen, IsErr
<1>8. CASE form = "collected"
    <2>1. Railway(form, c, d) = InPlace(second.heap, Collect(<<first.val, second.val>>))
        BY <1>5, <1>8
    <2>2. GoodHeap(second.heap) /\ Grown(first.heap, second.heap) /\ second.val \in Held(second.heap)
        BY <1>3 DEF Made
    <2>3. first.val \in Held(second.heap) /\ Nil \in Held(second.heap)
        BY <1>2, <2>2, MadeHeld, HeldType
    <2>4. first.val \in Int /\ second.val \in Int
        BY <2>2, <2>3, HeldType
    <2>5. Collect(<<first.val, second.val>>) \in Held(second.heap)
        BY <2>2, <2>3, <2>4, CollectOfTwo
    <2>6. Made(second.heap, Railway(form, c, d))
        BY <2>1, <2>2, <2>5, MadeInPlace
    <2>7. Grown(heap, second.heap)
        BY <1>2, <2>2, GrownTransitive
    <2> QED
        BY <2>6, <2>7, MadeLater
<1>9. CASE form = "wrapped"
    <2>1. Railway(form, c, d) = MapErr(first, Wrap(first.heap, first.val))
        BY <1>5, <1>9
    <2>2. CASE first.val = Nil
        BY <1>1, <2>1, <2>2 DEF MapErr, IsErr
    <2>3. CASE first.val # Nil
        <3>1. Made(first.heap, Wrap(first.heap, first.val))
            BY <1>2, <1>9, <1>10, <2>3, MadeWrap
        <3>2. Made(heap, Wrap(first.heap, first.val))
            BY <1>2, <3>1, MadeLater
        <3> QED
            BY <1>1, <2>1, <3>2 DEF MapErr
    <2> QED
        BY <2>2, <2>3
<1>11. CASE form = "noted"
    <2>1. Railway(form, c, d) = MapErr(first, Note(first.heap, first.val))
        BY <1>5, <1>11
    <2>2. CASE first.val = Nil
        BY <1>1, <2>1, <2>2 DEF MapErr, IsErr
    <2>3. CASE first.val # Nil
        <3>1. Made(first.heap, Note(first.heap, first.val))
            BY <1>2, <2>3, MadeNote
        <3>2. Made(heap, Note(first.heap, first.val))
            BY <1>2, <3>1, MadeLater
        <3> QED
            BY <1>1, <2>1, <3>2 DEF MapErr
    <2> QED
        BY <2>2, <2>3
<1> QED
    BY <1>6, <1>7, <1>8, <1>9, <1>11 DEF Railways

\* The error that Recover stores: a defect, with the error there was inside.
LEMMA MadeRecover ==
    ASSUME NEW h, GoodHeap(h), NEW p \in Held(h), NEW x \in Held(h)
    PROVE  LET r == Recover(h, p, x)
           IN  /\ GoodHeap(r.heap) /\ Grown(h, r.heap) /\ r.val \in DOMAIN r.heap
               /\ r.heap[r.val].kind = "errx" /\ r.heap[r.val].panic /\ r.heap[r.val].class = "defect"
               /\ p # Nil => \A y : Is(h, p, y) => Is(r.heap, r.val, y)
<1> DEFINE n == IF p = Nil THEN PanicError(x) ELSE [PanicError(x) EXCEPT !.cause = p]
           a == Alloc(h, n)
<1>1. Recover(h, p, x) = a
    BY DEF Recover
<1>2. p \in Int /\ x \in Int
    BY HeldType
<1>3. /\ n \in Node(LeafCodes) /\ ~n.opaque /\ n.kind = "errx" /\ n.panic /\ n.class = "defect"
      /\ n.cause = (IF p = Nil THEN x ELSE p) /\ ToSet(n.supp) = {}
    <2>1. \A b \in Node(LeafCodes) :
            LET f == [b EXCEPT !.class = "defect", !.panic = TRUE, !.cause = x]
                g == [f EXCEPT !.cause = p]
            IN  /\ f \in Node(LeafCodes) /\ f.opaque = b.opaque /\ f.kind = b.kind /\ f.panic /\ f.class = "defect"
                /\ f.cause = x /\ f.supp = b.supp
                /\ g \in Node(LeafCodes) /\ g.opaque = b.opaque /\ g.kind = b.kind /\ g.panic /\ g.class = "defect"
                /\ g.cause = p /\ g.supp = b.supp
        BY <1>2 DEF Node
    <2> QED
        BY <2>1, BlankType DEF PanicError
<1> HIDE DEF n
<1>4. /\ GoodHeap(a.heap) /\ Grown(h, a.heap) /\ a.val \in DOMAIN a.heap /\ a.heap[a.val] = n
      /\ Children(a.heap, a.val) = ({n.cause} \ {Nil}) \cup ToSet(n.supp)
    BY <1>3, GoodAlloc
<1> HIDE DEF a
<1>5. ASSUME p # Nil, NEW y, Is(h, p, y) PROVE Is(a.heap, a.val, y)
    <2>1. p \in Children(a.heap, a.val)
        BY <1>3, <1>4, <1>5
    <2>2. Is(a.heap, p, y)
        BY <1>2, <1>4, <1>5 DEF Grown
    <2>3. a.val \in Refs(a.heap) /\ a.heap \in Heaps(LeafCodes) /\ Ranked(a.heap)
        BY <1>4 DEF GoodHeap, Refs
    <2> QED
        BY <2>1, <2>2, <2>3, IsUnfold
<1> QED
    BY <1>1, <1>3, <1>4, <1>5

\* What AppendSuppressed leaves of a new error, as long as it is not asked to
\* attach it to a typed nil: both errors are in the result, and if the first
\* is an *Error it is the result.
LEMMA MadeAppend ==
    ASSUME NEW h, GoodHeap(h), NEW p \in Held(h), p # TypedNil, NEW c
    PROVE  LET cerr == Alloc(h, Leaf(c))
               r    == AppendSuppressed(cerr.heap, p, cerr.val)
           IN  /\ GoodHeap(r.heap) /\ Grown(h, r.heap) /\ r.val \in DOMAIN r.heap
               /\ Is(r.heap, r.val, cerr.val)
               /\ cerr.val \in DOMAIN r.heap
               /\ p # Nil => \A y : Is(h, p, y) => Is(r.heap, r.val, y)
               /\ p # Nil /\ h[p].kind = "errx" => r.val = p
<1> DEFINE cerr == Alloc(h, Leaf(c))
           k == cerr.heap
           x == cerr.val
           e == As(k, p)
           r == AppendSuppressed(k, p, x)
<1>1. /\ GoodHeap(k) /\ Grown(h, k) /\ Extends(k, h, Leaf(c)) /\ x \in DOMAIN k /\ x \notin Refs(h)
      /\ Children(k, x) = {} /\ x \in Held(k) /\ x # Nil /\ x # TypedNil
    BY NewLeaf
<1> HIDE DEF cerr, k, x
<1>2. h \in Heaps(LeafCodes) /\ Ranked(h) /\ k \in Heaps(LeafCodes) /\ Ranked(k)
    BY <1>1 DEF GoodHeap
<1>3. x \in Refs(k) /\ x \in Int /\ Is(k, x, x) /\ DOMAIN k \subseteq Refs(k) /\ DOMAIN h \subseteq Refs(h)
    BY <1>1, <1>2, IsTransitive, HeldType DEF Refs
<1>4. CASE p = Nil
    <2>1. r = InPlace(k, x)
        BY <1>1, <1>4 DEF AppendSuppressed
    <2> QED
        <3>1. r.heap = k /\ r.val = x
            BY <2>1 DEF InPlace
        <3> QED
            BY <1>1, <1>3, <1>4, <3>1 DEF cerr, k, x, r
<1>5. CASE p # Nil /\ e # Nil
    <2>1. p \in DOMAIN h /\ p \in Int /\ p \in Refs(h) /\ p \in DOMAIN k
        BY <1>1, <1>3, <1>5, HeldType DEF Grown
    <2>2. e \in DOMAIN k /\ k[e].kind = "errx" /\ Is(k, p, e)
        BY <1>1, <1>5, <2>1, AsInHeap
    <2>3. Is(h, p, e)
        BY <1>1, <1>2, <2>1, <2>2, ExtendsReflects
    <2>4. e \in Refs(h) /\ e # x
        BY <1>1, <1>2, <2>1, <2>3, IsTransitive
    <2>5. ~Is(k, x, e)
        BY <1>1, <1>2, <1>3, <2>4, IsUnfold
    <2>6. r = InPlace(Suppress(k, e, x), p)
        BY <1>1, <1>5 DEF AppendSuppressed
    <2> HIDE DEF e, r
    <2> DEFINE m == Suppress(k, e, x)
    <2>7. /\ m \in Heaps(LeafCodes) /\ Len(m) = Len(k) /\ DOMAIN m = DOMAIN k /\ Refs(m) = Refs(k)
          /\ \A z \in DOMAIN k : z # e => m[z] = k[z]
          /\ m[e] = [k[e] EXCEPT !.supp = Append(@, x)]
          /\ \A z : z # e => Children(m, z) = Children(k, z)
          /\ Children(m, e) = IF k[e].opaque THEN {} ELSE Children(k, e) \cup {x}
          /\ \A v \in Int : \A y : Is(k, v, y) => Is(m, v, y)
          /\ Ranked(m)
        BY <1>2, <1>3, <2>2, <2>5, SuppressHeap
    <2> HIDE DEF m
    <2>8. k[e] \in Node(LeafCodes) /\ ~k[e].opaque
        BY <1>1, <1>2, <2>2 DEF GoodHeap, Heaps
    <2>9. m[e].kind = "errx" /\ m[e].opaque = k[e].opaque /\ m[e].class = k[e].class /\ m[e].panic = k[e].panic
        BY <2>2, <2>7, <2>8 DEF Node
    <2>10. GoodHeap(m)
        <3>1. ASSUME NEW v \in DOMAIN m PROVE ~m[v].opaque /\ (TypedNil \in Children(m, v) => m[v].kind = "errx")
            <4>1. CASE v = e
                BY <2>8, <2>9, <4>1
            <4>2. CASE v # e
                BY <1>1, <2>7, <4>2 DEF GoodHeap
            <4> QED
                BY <4>1, <4>2
        <3> QED
            BY <2>7, <3>1 DEF GoodHeap
    <2>11. Grown(k, m)
        <3>1. ASSUME NEW v \in DOMAIN k
              PROVE  m[v].kind = k[v].kind /\ m[v].class = k[v].class /\ m[v].panic = k[v].panic
            BY <2>2, <2>7, <2>9
        <3> QED
            BY <2>7, <3>1 DEF Grown
    <2>12. Is(m, p, x)
        <3>1. Is(m, p, e) /\ e \in Refs(m) /\ p \in Refs(m)
            BY <1>3, <2>1, <2>2, <2>7
        <3>2. Is(m, x, x)
            BY <1>3, <2>7
        <3>3. Is(m, e, x)
            BY <2>7, <2>8, <3>1, <3>2, IsUnfold
        <3> QED
            BY <2>7, <3>1, <3>3, IsTransitive
    <2>13. \A y : Is(h, p, y) => Is(m, p, y)
        BY <1>1, <2>1, <2>7 DEF Grown
    <2>14. Grown(h, m)
        BY <1>1, <2>11, GrownTransitive
    <2>15. r.heap = m /\ r.val = p
        BY <2>6 DEF InPlace, m
    <2> QED
        BY <1>1, <2>1, <2>7, <2>10, <2>12, <2>13, <2>14, <2>15 DEF cerr, k, x, r
<1>6. CASE p # Nil /\ e = Nil
    <2>1. p \in DOMAIN h /\ p \in Int /\ p \in Refs(h) /\ p \in DOMAIN k
        BY <1>1, <1>3, <1>6, HeldType DEF Grown
    <2>2. h[p].kind # "errx"
        <3>1. k[p].kind = h[p].kind
            BY <1>1, <2>1 DEF Grown
        <3>2. p > 0
            BY <2>1, HeldType
        <3>3. k[p].kind = "errx" => e = p
            BY <1>2, <1>6, <2>1, <3>2, AsErrx DEF IsErrx
        <3> QED
            BY <1>6, <3>1, <3>3
    <2> DEFINE n == JoinNode(<<p, x>>)
               b == Alloc(k, n)
    <2>3. r = b
        BY <1>1, <1>3, <1>6, <2>1, JoinOfTwo DEF AppendSuppressed
    <2>4. /\ n \in Node(LeafCodes) /\ ~n.opaque /\ n.cause = Nil /\ n.supp = <<p, x>>
        <3> DEFINE q == <<p, x>>
        <3>1. q \in Seq(Int)
            BY <1>3, <2>1
        <3> HIDE DEF q
        <3>2. \A m \in Node(LeafCodes) :
                LET f == [m EXCEPT !.kind = "join", !.supp = q]
                IN  f \in Node(LeafCodes) /\ f.opaque = m.opaque /\ f.cause = m.cause /\ f.supp = q
            BY <3>1 DEF Node
        <3> QED
            BY <3>2, BlankType DEF JoinNode, q
    <2>5. ToSet(n.supp) = {p, x}
        <3>1. ToSet(<<p, x>>) = {p, x}
            <4> DEFINE q == <<p, x>>
            <4>1. DOMAIN q = 1 .. 2 /\ q[1] = p /\ q[2] = x
                OBVIOUS
            <4>2. \A i : i \in 1 .. 2 <=> i = 1 \/ i = 2
                OBVIOUS
            <4> HIDE DEF q
            <4>3. ToSet(q) = {p, x}
                BY <4>1, <4>2 DEF ToSet
            <4> QED
                BY <4>3 DEF q
        <3> QED
            BY <2>4, <3>1
    <2> HIDE DEF n, e, r
    <2>6. /\ GoodHeap(b.heap) /\ Grown(k, b.heap) /\ b.val \in DOMAIN b.heap
          /\ Children(b.heap, b.val) = ({n.cause} \ {Nil}) \cup ToSet(n.supp)
        <3>1. ToSet(n.supp) \subseteq DOMAIN k
            BY <1>1, <2>1, <2>5
        <3>2. n.cause \in Held(k) /\ n.cause # TypedNil
            BY <1>1, <2>4, HeldType DEF Nil, TypedNil
        <3> QED
            BY <1>1, <2>4, <3>1, <3>2, GoodAlloc
    <2> HIDE DEF b
    <2>7. Children(b.heap, b.val) = {p, x}
        BY <2>4, <2>5, <2>6
    <2>8. b.heap \in Heaps(LeafCodes) /\ Ranked(b.heap) /\ b.val \in Refs(b.heap)
        BY <2>6 DEF GoodHeap, Refs
    <2>9. Is(b.heap, b.val, x)
        <3>1. Is(b.heap, x, x)
            BY <1>3, <2>6 DEF Grown
        <3> QED
            BY <2>7, <2>8, <3>1, IsUnfold
    <2>10. ASSUME NEW y, Is(h, p, y) PROVE Is(b.heap, b.val, y)
        <3>1. Is(b.heap, p, y)
            BY <1>1, <2>1, <2>6, <2>10 DEF Grown
        <3> QED
            BY <2>7, <2>8, <3>1, IsUnfold
    <2>11. Grown(h, b.heap) /\ x \in DOMAIN b.heap
        BY <1>1, <2>6, GrownTransitive DEF Grown
    <2> QED
        BY <2>2, <2>3, <2>6, <2>9, <2>10, <2>11 DEF cerr, k, x, r
<1> QED
    BY <1>4, <1>5, <1>6 DEF cerr, k, x, r, e

-----------------------------------------------------------------------------
(* The inductive invariant *)

ShapeInv ==
    /\ order \in Orders /\ phase \in {"body", "unwinding", "done"}
    /\ defers \in Seq(Kinds) /\ IsPrefix(defers, order)
    /\ GoodHeap(heap)
    /\ errp \in Held(heap) /\ panicVal \in Held(heap) /\ primary \in Held(heap)
    /\ panicking \in BOOLEAN /\ (~panicking => panicVal = Nil)
    /\ panicked \in BOOLEAN /\ (panicking => panicked)

\* Before the body ends nothing has failed and nothing has run.
BodyInv == phase = "body" => failures = {} /\ discarded = {} /\ ~panicked /\ ran = {} /\ skipped = {}

\* At any time, not only at the end.
KeptInv == \A x \in failures \ discarded : errp # Nil /\ Is(heap, errp, x)

\* A typed nil in err is what the body returned: nothing else stores one.
LostInv ==
    /\ discarded # {} => primary = TypedNil /\ panicked
    /\ phase # "body" /\ errp = TypedNil => primary = TypedNil

PrimaryInv ==
    phase # "body" /\ ~panicked /\ primary > 0 /\ heap[primary].kind = "errx" => errp = primary

DefectInv ==
    panicked /\ ~panicking =>
        errp \in DOMAIN heap /\ heap[errp].kind = "errx" /\ heap[errp].panic /\ heap[errp].class = "defect"

ToldInv == "OnError" \in ran \/ "OnSuccess" \in skipped => errp # Nil

\* With Close and Recover registered after what looks at the error, whoever
\* saw none has none of them left to run.
PromisedInv ==
    Disciplined(order) /\ ("OnSuccess" \in ran \/ "OnError" \in skipped) =>
        /\ errp = Nil
        /\ \E j \in DOMAIN order : Len(defers) < j /\ order[j] \in {"OnError", "OnSuccess"}

IndInv == ShapeInv /\ BodyInv /\ KeptInv /\ LostInv /\ PrimaryInv /\ DefectInv /\ ToldInv /\ PromisedInv

LEMMA EmptyHeap == GoodHeap(<<>>)
<1>1. <<>> \in Heaps(LeafCodes) /\ DOMAIN <<>> = {}
    BY DEF Heaps
<1> DEFINE h == <<>>
<1>2. h \in Heaps(LeafCodes) /\ DOMAIN h = {}
    BY <1>1
<1> HIDE DEF h
<1>3. Refs(h) = {TypedNil}
    BY <1>2 DEF Refs
<1>4. \A x : Children(h, x) = {}
    BY <1>2, ChildrenOf
<1> DEFINE r == [x \in Refs(h) |-> 0]
<1>5. r \in Ranks(h)
    BY <1>4 DEF Ranks
<1> HIDE DEF r
<1>6. Ranked(h)
    BY <1>5 DEF Ranked
<1>7. GoodHeap(h)
    BY <1>2, <1>6 DEF GoodHeap
<1> QED
    BY <1>7 DEF h

LEMMA OrderType ==
    ASSUME NEW o \in Orders
    PROVE  o \in Seq(Kinds)
BY ConstantsAssumption

LEMMA InitInv == Init => IndInv
<1> SUFFICES ASSUME Init PROVE IndInv
    OBVIOUS
<1>1. order \in Seq(Kinds) /\ defers = order
    BY OrderType DEF Init
<1>2. IsPrefix(defers, order)
    BY <1>1 DEF IsPrefix
<1>3. GoodHeap(heap) /\ Nil \in Held(heap)
    BY EmptyHeap, HeldType DEF Init
<1>4. ShapeInv
    BY <1>1, <1>2, <1>3 DEF Init, ShapeInv
<1> QED
    BY <1>4 DEF Init, IndInv, BodyInv, KeptInv, LostInv, PrimaryInv, DefectInv, ToldInv, PromisedInv, Nil

-----------------------------------------------------------------------------
(* The body *)

\* What holds of a heap holds of one that has grown from it.
LEMMA GrownKeeps ==
    ASSUME IndInv, GoodHeap(heap'), Grown(heap, heap')
    PROVE  /\ panicVal \in Held(heap') /\ primary \in Held(heap') /\ errp \in Held(heap')
           /\ primary > 0 => primary \in DOMAIN heap /\ heap'[primary].kind = heap[primary].kind
           /\ \A x : errp # Nil /\ Is(heap, errp, x) => Is(heap', errp, x)
<1>1. GoodHeap(heap) /\ panicVal \in Held(heap) /\ primary \in Held(heap) /\ errp \in Held(heap)
    BY DEF IndInv, ShapeInv
<1>2. panicVal \in Held(heap') /\ primary \in Held(heap') /\ errp \in Held(heap')
    BY <1>1, MadeHeld
<1>3. primary > 0 => primary \in DOMAIN heap
    BY <1>1, HeldType DEF Nil, TypedNil
<1>4. errp \in Int
    BY <1>1, HeldType
<1> QED
    BY <1>2, <1>3, <1>4 DEF Grown

\* The body ends with an error in err, that it returned or had assigned.
LEMMA BodyEnds ==
    ASSUME IndInv, phase = "body", phase' = "unwinding",
           GoodHeap(heap'), Grown(heap, heap'), errp' \in Held(heap'), primary' = errp',
           failures' = {errp'} \ {Nil, TypedNil},
           UNCHANGED <<order, defers, panicking, panicVal, discarded, thrown, panicked, ran, skipped>>
    PROVE  IndInv'
<1>1. ShapeInv'
    BY GrownKeeps DEF IndInv, ShapeInv
<1>2. KeptInv'
    <2> SUFFICES ASSUME NEW x \in failures' PROVE errp' # Nil /\ Is(heap', errp', x)
        BY DEF KeptInv
    <2>1. x = errp' /\ errp' # Nil /\ errp' \in Refs(heap')
        BY DEF Held
    <2>2. heap' \in Heaps(LeafCodes) /\ Ranked(heap')
        BY DEF GoodHeap
    <2> QED
        BY <2>1, <2>2, IsTransitive
<1>3. ~panicked /\ discarded = {} /\ ran = {} /\ skipped = {}
    BY DEF IndInv, BodyInv
<1> QED
    BY <1>1, <1>2, <1>3 DEF IndInv, BodyInv, LostInv, PrimaryInv, DefectInv, ToldInv, PromisedInv

\* Or with a panic, and what it had assigned.
LEMMA BodyPanics ==
    ASSUME IndInv, phase = "body", phase' = "unwinding",
           GoodHeap(heap'), Grown(heap, heap'), panicVal' \in Held(heap'), panicking', panicked',
           panicking' \in BOOLEAN, panicked' \in BOOLEAN,
           primary' = errp, failures' = {errp} \ {Nil},
           UNCHANGED <<order, defers, errp, discarded, ran, skipped>>
    PROVE  IndInv'
<1>1. ShapeInv'
    BY GrownKeeps DEF IndInv, ShapeInv
<1>2. KeptInv'
    <2> SUFFICES ASSUME NEW x \in failures' PROVE errp' # Nil /\ Is(heap', errp', x)
        BY DEF KeptInv
    <2>1. x = errp' /\ errp' # Nil /\ errp' \in Refs(heap')
        BY GrownKeeps DEF Held
    <2>2. heap' \in Heaps(LeafCodes) /\ Ranked(heap')
        BY DEF GoodHeap
    <2> QED
        BY <2>1, <2>2, IsTransitive
<1>3. discarded = {} /\ ran = {} /\ skipped = {}
    BY DEF IndInv, BodyInv
<1> QED
    BY <1>1, <1>2, <1>3 DEF IndInv, BodyInv, LostInv, PrimaryInv, DefectInv, ToldInv, PromisedInv

LEMMA ThrowMade ==
    ASSUME NEW h, GoodHeap(h), Grown(heap, h), NEW p, Throw(h, p)
    PROVE  /\ GoodHeap(heap') /\ Grown(heap, heap') /\ panicVal' \in Held(heap')
           /\ panicking' = TRUE /\ panicked' = TRUE
<1> DEFINE made == IF p = "error" THEN Alloc(h, Leaf("plain")) ELSE InPlace(h, Nil)
<1>1. heap' = made.heap /\ panicVal' = made.val /\ panicking' = TRUE /\ panicked' = TRUE
    BY DEF Throw, ThrowValue
<1>2. Nil \in Held(h)
    BY HeldType
<1>3. Made(h, Alloc(h, Leaf("plain"))) /\ Made(h, InPlace(h, Nil))
    BY <1>2, MadeLeaf, MadeInPlace
<1>4. Made(heap, made)
    BY <1>3, MadeLater
<1> QED
    BY <1>1, <1>4 DEF Made

LEMMA SetErrorInv == IndInv /\ SetError => IndInv'
<1> SUFFICES ASSUME IndInv, SetError PROVE IndInv'
    OBVIOUS
<1>1. GoodHeap(heap) /\ phase = "body" /\ phase' = "body"
    BY DEF SetError, IndInv, ShapeInv
<1>2. PICK k : heap' = Alloc(heap, Leaf(k)).heap /\ errp' = Alloc(heap, Leaf(k)).val
    BY DEF SetError
<1>3. GoodHeap(heap') /\ Grown(heap, heap') /\ errp' \in Held(heap')
    BY <1>1, <1>2, MadeLeaf DEF Made
<1>4. UNCHANGED <<order, phase, defers, panicking, panicVal, primary, failures, discarded, thrown, panicked, ran, skipped>>
    BY DEF SetError
<1>5. ShapeInv'
    BY <1>3, <1>4, GrownKeeps DEF IndInv, ShapeInv
<1>6. failures' = {} /\ discarded' = {} /\ ~panicked' /\ ran' = {} /\ skipped' = {}
    BY <1>1, <1>4 DEF IndInv, BodyInv
<1> QED
    BY <1>1, <1>5, <1>6 DEF IndInv, BodyInv, KeptInv, LostInv, PrimaryInv, DefectInv, ToldInv, PromisedInv

LEMMA ReturnInv == IndInv /\ Return => IndInv'
<1> SUFFICES ASSUME IndInv, Return PROVE IndInv'
    OBVIOUS
<1>1. GoodHeap(heap) /\ errp \in Held(heap) /\ Nil \in Held(heap)
    BY HeldType DEF IndInv, ShapeInv
<1>2. PICK r : LET made == CASE r = "bare" -> InPlace(heap, errp)
                             [] r = "wrap-nil" -> Wrap(heap, Nil)
                             [] OTHER -> Alloc(heap, Leaf(r))
               IN  heap' = made.heap /\ errp' = made.val
    BY DEF Return
<1>3. Made(heap, InPlace(heap, errp)) /\ Made(heap, Wrap(heap, Nil)) /\ Made(heap, Alloc(heap, Leaf(r)))
    BY <1>1, MadeInPlace, MadeWrapNil, MadeLeaf
<1>4. GoodHeap(heap') /\ Grown(heap, heap') /\ errp' \in Held(heap')
    BY <1>2, <1>3 DEF Made
<1> QED
    BY <1>4, BodyEnds DEF Return

LEMMA ReturnResultInv == IndInv /\ ReturnResult => IndInv'
<1> SUFFICES ASSUME IndInv, ReturnResult PROVE IndInv'
    OBVIOUS
<1>1. PICK form \in Railways, c \in Calls, d \in Calls :
            /\ ~RailwayPanics(form, c)
            /\ heap' = Railway(form, c, d).heap /\ errp' = Railway(form, c, d).val
    BY DEF ReturnResult
<1>2. GoodHeap(heap') /\ Grown(heap, heap') /\ errp' \in Held(heap')
    BY <1>1, MadeRailway DEF Made, IndInv, ShapeInv
<1> QED
    BY <1>2, BodyEnds DEF ReturnResult

LEMMA PanicInv == IndInv /\ Panic => IndInv'
<1> SUFFICES ASSUME IndInv, Panic PROVE IndInv'
    OBVIOUS
<1>1. PICK p \in Panics : Throw(heap, p)
    BY DEF Panic
<1>2. /\ GoodHeap(heap') /\ Grown(heap, heap') /\ panicVal' \in Held(heap')
      /\ panicking' = TRUE /\ panicked' = TRUE
    BY <1>1, ThrowMade, GrownTransitive DEF IndInv, ShapeInv
<1> QED
    BY <1>2, BodyPanics DEF Panic

LEMMA UnwrapResultInv == IndInv /\ UnwrapResult => IndInv'
<1> SUFFICES ASSUME IndInv, UnwrapResult PROVE IndInv'
    OBVIOUS
<1>1. PICK form \in Railways, c \in Calls, d \in Calls :
            /\ ~RailwayPanics(form, c)
            /\ ThrowValue(Railway(form, c, d).heap, Railway(form, c, d).val)
    BY DEF UnwrapResult
<1>2. Made(heap, Railway(form, c, d))
    BY <1>1, MadeRailway DEF IndInv, ShapeInv
<1>3. /\ GoodHeap(heap') /\ Grown(heap, heap') /\ panicVal' \in Held(heap')
      /\ panicking' = TRUE /\ panicked' = TRUE
    BY <1>1, <1>2 DEF Made, ThrowValue
<1> QED
    BY <1>3, BodyPanics DEF UnwrapResult

LEMMA PanicInRailwayInv == IndInv /\ PanicInRailway => IndInv'
<1> SUFFICES ASSUME IndInv, PanicInRailway PROVE IndInv'
    OBVIOUS
<1>1. PICK c \in Calls : Throw(Try(heap, c).heap, "error")
    BY DEF PanicInRailway
<1>2. GoodHeap(Try(heap, c).heap) /\ Grown(heap, Try(heap, c).heap)
    BY MadeTry DEF Made, IndInv, ShapeInv
<1>3. /\ GoodHeap(heap') /\ Grown(heap, heap') /\ panicVal' \in Held(heap')
      /\ panicking' = TRUE /\ panicked' = TRUE
    BY <1>1, <1>2, ThrowMade
<1> QED
    BY <1>3, BodyPanics DEF PanicInRailway

-----------------------------------------------------------------------------
(* The deferred calls *)

LEMMA PrefixElements ==
    ASSUME NEW o \in Seq(Kinds), NEW d \in Seq(Kinds)
    PROVE  IsPrefix(d, o) <=> Len(d) <= Len(o) /\ \A i \in 1 .. Len(d) : d[i] = o[i]
<1>1. Len(d) \in Nat /\ Len(o) \in Nat
    OBVIOUS
<1>2. ASSUME Len(d) <= Len(o)
      PROVE  SubSeq(d, 1, Len(d)) = SubSeq(o, 1, Len(d)) <=> \A i \in 1 .. Len(d) : d[i] = o[i]
    <2> DEFINE n == Len(d)
               a == SubSeq(d, 1, n)
               b == SubSeq(o, 1, n)
    <2>1. n \in Nat /\ \A i \in 1 .. n : i \in 1 .. Len(o)
        BY <1>1, <1>2
    <2>2. a \in Seq(Kinds) /\ Len(a) = n /\ \A i \in 1 .. n : a[i] = d[i]
        BY <1>1
    <2>3. b \in Seq(Kinds) /\ Len(b) = n /\ \A i \in 1 .. n : b[i] = o[i]
        BY <1>1, <2>1
    <2> HIDE DEF a, b, n
    <2>4. a = b <=> \A i \in 1 .. n : a[i] = b[i]
        BY <2>2, <2>3, SeqEqual
    <2>5. a = b <=> \A i \in 1 .. n : d[i] = o[i]
        BY <2>2, <2>3, <2>4
    <2> QED
        BY <2>5 DEF a, b, n
<1> QED
    BY <1>2 DEF IsPrefix

LEMMA FrontElements ==
    ASSUME NEW d \in Seq(Kinds), Len(d) >= 1
    PROVE  LET f == SubSeq(d, 1, Len(d) - 1)
           IN  f \in Seq(Kinds) /\ Len(f) = Len(d) - 1 /\ \A i \in 1 .. Len(d) - 1 : f[i] = d[i]
<1>1. Len(d) \in Nat /\ \A i \in 1 .. Len(d) - 1 : i \in 1 .. Len(d) /\ d[i] \in Kinds
    OBVIOUS
<1>2. Len(d) - 1 \in Int /\ 1 \in Int
    BY <1>1
<1>3. \A i \in 1 .. Len(d) - 1 : d[1 + i - 1] = d[i]
    BY <1>1
<1>4. /\ SubSeq(d, 1, Len(d) - 1) \in Seq(Kinds)
      /\ Len(SubSeq(d, 1, Len(d) - 1)) = IF 1 <= Len(d) - 1 THEN (Len(d) - 1) - 1 + 1 ELSE 0
      /\ \A i \in 1 .. (Len(d) - 1) - 1 + 1 : SubSeq(d, 1, Len(d) - 1)[i] = d[1 + i - 1]
    BY <1>1, <1>2, SubSeqProperties
<1>5. (Len(d) - 1) - 1 + 1 = Len(d) - 1 /\ ~ (1 <= Len(d) - 1) => Len(d) - 1 = 0
    BY <1>1
<1>6. Len(SubSeq(d, 1, Len(d) - 1)) = Len(d) - 1
    BY <1>1, <1>4, <1>5
<1>7. 1 .. (Len(d) - 1) - 1 + 1 = 1 .. Len(d) - 1
    BY <1>1
<1> QED
    BY <1>3, <1>4, <1>6, <1>7

\* The deferred call that runs is the last one of those left.
LEMMA RunNext ==
    ASSUME IndInv, NEW kind, Run(kind)
    PROVE  /\ defers' \in Seq(Kinds) /\ IsPrefix(defers', order)
           /\ Len(defers) \in DOMAIN order /\ order[Len(defers)] = kind
           /\ Len(defers') < Len(defers) /\ Len(defers) \in Nat /\ Len(defers') \in Nat
           /\ DOMAIN order \subseteq Nat
           /\ phase = "unwinding" /\ UNCHANGED <<order, phase, primary>>
<1>1. order \in Seq(Kinds) /\ defers \in Seq(Kinds) /\ IsPrefix(defers, order)
    BY OrderType DEF IndInv, ShapeInv
<1>2. phase = "unwinding" /\ defers # <<>> /\ Last(defers) = kind /\ defers' = Front(defers) /\ UNCHANGED <<order, phase, primary>>
    BY DEF Run
<1> DEFINE n == Len(defers)
<1>3. n \in Nat /\ n >= 1 /\ n <= Len(order) /\ \A i \in 1 .. n : defers[i] = order[i]
    BY <1>1, <1>2, PrefixElements
<1>4. defers' = SubSeq(defers, 1, n - 1)
    BY <1>2 DEF Front
<1>5. defers' \in Seq(Kinds) /\ Len(defers') = n - 1 /\ \A i \in 1 .. n - 1 : defers'[i] = defers[i]
    BY <1>1, <1>3, <1>4, FrontElements
<1>6. IsPrefix(defers', order)
    <2>1. Len(defers') <= Len(order) /\ \A i \in 1 .. Len(defers') : defers'[i] = order[i]
        BY <1>1, <1>3, <1>5
    <2> QED
        BY <1>1, <1>5, <2>1, PrefixElements
<1>7. n \in DOMAIN order /\ order[n] = kind
    BY <1>1, <1>2, <1>3 DEF Last
<1>8. DOMAIN order \subseteq Nat
    BY <1>1
<1> QED
    BY <1>2, <1>3, <1>5, <1>6, <1>7, <1>8

\* While err is left alone, who was promised something still has it.
LEMMA PromisedStays ==
    ASSUME IndInv, NEW kind, Run(kind), UNCHANGED <<errp, ran, skipped>>
    PROVE  PromisedInv' /\ ToldInv'
<1>1. Len(defers') < Len(defers) /\ Len(defers) \in Nat /\ Len(defers') \in Nat /\ DOMAIN order \subseteq Nat /\ order' = order
    BY RunNext
<1>2. ASSUME NEW j \in DOMAIN order, Len(defers) < j PROVE Len(defers') < j
    BY <1>1, <1>2
<1> QED
    BY <1>1, <1>2 DEF IndInv, PromisedInv, ToldInv

\* A Close or a Recover runs only before anyone was promised anything.
LEMMA NothingPromised ==
    ASSUME IndInv, NEW kind \in {"Close", "Recover"}, Run(kind)
    PROVE  ~ (Disciplined(order) /\ ("OnSuccess" \in ran \/ "OnError" \in skipped))
<1> SUFFICES ASSUME Disciplined(order), "OnSuccess" \in ran \/ "OnError" \in skipped PROVE FALSE
    OBVIOUS
<1>1. PICK j \in DOMAIN order : Len(defers) < j /\ order[j] \in {"OnError", "OnSuccess"}
    BY DEF IndInv, PromisedInv
<1>2. Len(defers) \in DOMAIN order /\ order[Len(defers)] = kind /\ DOMAIN order \subseteq Nat
    BY RunNext
<1>3. j < Len(defers)
    BY <1>1, <1>2 DEF Disciplined
<1> QED
    BY <1>1, <1>2, <1>3

\* A step that stores no new error, and loses nothing of the one there is.
LEMMA HeapGrows ==
    ASSUME IndInv, NEW kind, Run(kind), GoodHeap(heap'), Grown(heap, heap'), panicVal' \in Held(heap'),
           panicking' \in BOOLEAN, panicked' \in BOOLEAN, panicking' => panicked', ~panicking' => panicVal' = Nil,
           panicked => panicked', panicked' /\ ~panicking' => panicked /\ ~panicking,
           UNCHANGED errp, failures' \ discarded' \subseteq failures \ discarded,
           discarded' # {} => discarded # {} \/ (errp = TypedNil /\ panicked')
    PROVE  ShapeInv' /\ BodyInv' /\ KeptInv' /\ LostInv' /\ PrimaryInv' /\ DefectInv'
<1>1. /\ defers' \in Seq(Kinds) /\ IsPrefix(defers', order)
      /\ phase = "unwinding" /\ UNCHANGED <<order, phase, primary>>
    BY RunNext
<1>2. /\ primary \in Held(heap') /\ errp \in Held(heap')
      /\ primary > 0 => primary \in DOMAIN heap /\ heap'[primary].kind = heap[primary].kind
      /\ \A x : errp # Nil /\ Is(heap, errp, x) => Is(heap', errp, x)
    BY GrownKeeps
<1>3. ShapeInv' /\ BodyInv'
    BY <1>1, <1>2 DEF IndInv, ShapeInv, BodyInv
<1>4. KeptInv'
    BY <1>2 DEF IndInv, KeptInv
<1>7. LostInv'
    BY <1>1 DEF IndInv, LostInv
<1>5. PrimaryInv'
    BY <1>1, <1>2 DEF IndInv, PrimaryInv, ShapeInv
<1>6. DefectInv'
    <2> SUFFICES ASSUME panicked', ~panicking'
                 PROVE  /\ errp \in DOMAIN heap' /\ heap'[errp].kind = "errx"
                        /\ heap'[errp].panic /\ heap'[errp].class = "defect"
        BY DEF DefectInv
    <2>1. errp \in DOMAIN heap /\ heap[errp].kind = "errx" /\ heap[errp].panic /\ heap[errp].class = "defect"
        BY DEF IndInv, DefectInv
    <2> QED
        BY <2>1 DEF Grown
<1> QED
    BY <1>3, <1>4, <1>5, <1>6, <1>7

\* What a callback does to everything but who has been told what.
LEMMA CallbackGrows ==
    ASSUME IndInv, NEW kind, Run(kind), NEW runs \in BOOLEAN, Callback(kind, runs)
    PROVE  /\ ShapeInv' /\ BodyInv' /\ KeptInv' /\ LostInv' /\ PrimaryInv' /\ DefectInv'
           /\ errp' = errp
           /\ ran' = (IF runs THEN ran \cup {kind} ELSE ran)
           /\ skipped' = (IF runs THEN skipped ELSE skipped \cup {kind})
<1>1. GoodHeap(heap) /\ panicVal \in Held(heap) /\ panicking \in BOOLEAN /\ panicked \in BOOLEAN
      /\ (panicking => panicked) /\ (~panicking => panicVal = Nil)
    BY DEF IndInv, ShapeInv
<1>2. errp' = errp /\ failures' = failures /\ discarded' = discarded
      /\ ran' = (IF runs THEN ran \cup {kind} ELSE ran)
      /\ skipped' = (IF runs THEN skipped ELSE skipped \cup {kind})
    BY DEF Callback, result
<1>3. CASE UNCHANGED <<heap, panicking, panicVal, panicked>>
    <2>1. GoodHeap(heap') /\ Grown(heap, heap') /\ panicVal' \in Held(heap')
        BY <1>1, <1>3, GrownTransitive
    <2> QED
        BY <1>1, <1>2, <1>3, <2>1, HeapGrows
<1>4. CASE \E p \in Panics : Throw(heap, p)
    <2>1. /\ GoodHeap(heap') /\ Grown(heap, heap') /\ panicVal' \in Held(heap')
          /\ panicking' = TRUE /\ panicked' = TRUE
        BY <1>1, <1>4, ThrowMade, GrownTransitive
    <2> QED
        BY <1>2, <2>1, HeapGrows
<1>5. UNCHANGED <<heap, panicking, panicVal, panicked>> \/ \E p \in Panics : Throw(heap, p)
    BY DEF Callback, result
<1> QED
    BY <1>2, <1>3, <1>4, <1>5

LEMMA OnErrorInv == IndInv /\ OnError => IndInv'
<1> SUFFICES ASSUME IndInv, OnError PROVE IndInv'
    OBVIOUS
<1>1. Run("OnError") /\ Callback("OnError", RunsOnError(errp)) /\ RunsOnError(errp) \in BOOLEAN
    BY DEF OnError, RunsOnError
<1>2. /\ ShapeInv' /\ BodyInv' /\ KeptInv' /\ LostInv' /\ PrimaryInv' /\ DefectInv' /\ errp' = errp
      /\ ran' = (IF errp # Nil THEN ran \cup {"OnError"} ELSE ran)
      /\ skipped' = (IF errp # Nil THEN skipped ELSE skipped \cup {"OnError"})
    BY <1>1, CallbackGrows DEF RunsOnError
<1>3. /\ Len(defers) \in DOMAIN order /\ order[Len(defers)] = "OnError" /\ order' = order
      /\ Len(defers') < Len(defers) /\ Len(defers) \in Nat /\ Len(defers') \in Nat /\ DOMAIN order \subseteq Nat
    BY <1>1, RunNext
<1>4. ToldInv'
    BY <1>2 DEF IndInv, ToldInv
<1>5. PromisedInv'
    <2>1. CASE errp = Nil
        BY <1>2, <1>3, <2>1 DEF PromisedInv
    <2>2. CASE errp # Nil
        BY <1>2, <1>3, <2>2 DEF IndInv, PromisedInv
    <2> QED
        BY <2>1, <2>2
<1> QED
    BY <1>2, <1>4, <1>5 DEF IndInv

LEMMA OnSuccessInv == IndInv /\ OnSuccess => IndInv'
<1> SUFFICES ASSUME IndInv, OnSuccess PROVE IndInv'
    OBVIOUS
<1>1. Run("OnSuccess") /\ Callback("OnSuccess", RunsOnSuccess(errp)) /\ RunsOnSuccess(errp) \in BOOLEAN
    BY DEF OnSuccess, RunsOnSuccess
<1>2. /\ ShapeInv' /\ BodyInv' /\ KeptInv' /\ LostInv' /\ PrimaryInv' /\ DefectInv' /\ errp' = errp
      /\ ran' = (IF errp = Nil THEN ran \cup {"OnSuccess"} ELSE ran)
      /\ skipped' = (IF errp = Nil THEN skipped ELSE skipped \cup {"OnSuccess"})
    BY <1>1, CallbackGrows DEF RunsOnSuccess
<1>3. /\ Len(defers) \in DOMAIN order /\ order[Len(defers)] = "OnSuccess" /\ order' = order
      /\ Len(defers') < Len(defers) /\ Len(defers) \in Nat /\ Len(defers') \in Nat /\ DOMAIN order \subseteq Nat
    BY <1>1, RunNext
<1>4. ToldInv'
    BY <1>2 DEF IndInv, ToldInv
<1>5. PromisedInv'
    <2>1. CASE errp = Nil
        BY <1>2, <1>3, <2>1 DEF PromisedInv
    <2>2. CASE errp # Nil
        BY <1>2, <1>3, <2>2 DEF IndInv, PromisedInv
    <2> QED
        BY <2>1, <2>2
<1> QED
    BY <1>2, <1>4, <1>5 DEF IndInv

LEMMA CloseOkInv == IndInv /\ CloseOk => IndInv'
<1> SUFFICES ASSUME IndInv, CloseOk PROVE IndInv'
    OBVIOUS
<1>1. Run("Close") /\ UNCHANGED <<errp, panicking, panicVal, heap, failures, discarded, thrown, panicked, ran, skipped>>
    BY DEF CloseOk, result
<1>2. GoodHeap(heap') /\ Grown(heap, heap') /\ panicVal' \in Held(heap')
    BY <1>1, GrownTransitive DEF IndInv, ShapeInv
<1>3. ShapeInv' /\ BodyInv' /\ KeptInv' /\ LostInv' /\ PrimaryInv' /\ DefectInv'
    BY <1>1, <1>2, HeapGrows DEF IndInv, ShapeInv
<1>4. PromisedInv' /\ ToldInv'
    BY <1>1, PromisedStays
<1> QED
    BY <1>3, <1>4 DEF IndInv

LEMMA CloseFailsOnTypedNilInv == IndInv /\ CloseFailsOnTypedNil => IndInv'
<1> SUFFICES ASSUME IndInv, CloseFailsOnTypedNil PROVE IndInv'
    OBVIOUS
<1>0. GoodHeap(heap) /\ errp \in Held(heap)
    BY DEF IndInv, ShapeInv
<1>1. Run("Close") /\ PanicsOnNil(heap, errp) /\ UNCHANGED <<errp, ran, skipped>>
    BY DEF CloseFailsOnTypedNil
<1>2. errp = TypedNil
    BY <1>0, <1>1, PanicsIff
<1>3. PICK c : LET cerr == Alloc(heap, Leaf(c))
               IN  /\ Throw(cerr.heap, "error")
                   /\ failures' = failures \cup {cerr.val}
                   /\ discarded' = discarded \cup {cerr.val}
    BY DEF CloseFailsOnTypedNil
<1> DEFINE cerr == Alloc(heap, Leaf(c))
<1>4. /\ Throw(cerr.heap, "error")
      /\ failures' = failures \cup {cerr.val} /\ discarded' = discarded \cup {cerr.val}
    BY <1>3
<1>5. GoodHeap(cerr.heap) /\ Grown(heap, cerr.heap)
    BY <1>0, MadeLeaf DEF Made
<1> HIDE DEF cerr
<1>6. /\ GoodHeap(heap') /\ Grown(heap, heap') /\ panicVal' \in Held(heap')
      /\ panicking' = TRUE /\ panicked' = TRUE
    BY <1>4, <1>5, ThrowMade
<1>7. failures' \ discarded' \subseteq failures \ discarded
    BY <1>4
<1>8. ShapeInv' /\ BodyInv' /\ KeptInv' /\ LostInv' /\ PrimaryInv' /\ DefectInv'
    BY <1>1, <1>2, <1>6, <1>7, HeapGrows
<1>9. PromisedInv' /\ ToldInv'
    BY <1>1, PromisedStays
<1> QED
    BY <1>8, <1>9 DEF IndInv

LEMMA RecoverNothingInv == IndInv /\ RecoverNothing => IndInv'
<1> SUFFICES ASSUME IndInv, RecoverNothing PROVE IndInv'
    OBVIOUS
<1>1. Run("Recover") /\ UNCHANGED <<errp, panicking, panicVal, heap, failures, discarded, thrown, panicked, ran, skipped>>
    BY DEF RecoverNothing, result
<1>2. GoodHeap(heap') /\ Grown(heap, heap') /\ panicVal' \in Held(heap')
    BY <1>1, GrownTransitive DEF IndInv, ShapeInv
<1>3. ShapeInv' /\ BodyInv' /\ KeptInv' /\ LostInv' /\ PrimaryInv' /\ DefectInv'
    BY <1>1, <1>2, HeapGrows DEF IndInv, ShapeInv
<1>4. PromisedInv' /\ ToldInv'
    BY <1>1, PromisedStays
<1> QED
    BY <1>3, <1>4 DEF IndInv

\* A deferred call that may set err, to an error with all there was in it.
LEMMA ErrorReplaced ==
    ASSUME IndInv, NEW kind \in {"Close", "Recover"}, Run(kind),
           GoodHeap(heap'), Grown(heap, heap'), errp' \in DOMAIN heap', panicVal' \in Held(heap'),
           errp # Nil => \A y : Is(heap, errp, y) => Is(heap', errp', y),
           \A x \in failures' : x \in failures \/ Is(heap', errp', x),
           panicking' \in BOOLEAN, ~panicking' => panicVal' = Nil, panicking' => panicked,
           UNCHANGED <<discarded, panicked, ran, skipped>>
    PROVE  ShapeInv' /\ BodyInv' /\ KeptInv' /\ LostInv' /\ ToldInv' /\ PromisedInv' /\ errp' # Nil
<1>1. /\ defers' \in Seq(Kinds) /\ IsPrefix(defers', order)
      /\ phase = "unwinding" /\ UNCHANGED <<order, phase, primary>>
    BY RunNext
<1>2. primary \in Held(heap')
    BY GrownKeeps
<1>3. errp' \in Held(heap') /\ errp' # Nil
    BY HeldType DEF Held
<1>4. ShapeInv' /\ BodyInv'
    BY <1>1, <1>2, <1>3 DEF IndInv, ShapeInv, BodyInv
<1>5. KeptInv'
    BY <1>3 DEF IndInv, KeptInv
<1>8. LostInv'
    <2>1. errp' # TypedNil
        BY HeldType DEF TypedNil
    <2> QED
        BY <1>1, <2>1 DEF IndInv, LostInv
<1>6. ToldInv'
    BY <1>3 DEF ToldInv
<1>7. PromisedInv'
    BY <1>1, NothingPromised DEF PromisedInv
<1> QED
    BY <1>3, <1>4, <1>5, <1>6, <1>7, <1>8

LEMMA CloseFailsInv == IndInv /\ CloseFails => IndInv'
<1> SUFFICES ASSUME IndInv, CloseFails PROVE IndInv'
    OBVIOUS
<1>1. /\ GoodHeap(heap) /\ errp \in Held(heap) /\ panicVal \in Held(heap) /\ primary \in Held(heap)
      /\ panicking \in BOOLEAN /\ (~panicking => panicVal = Nil) /\ (panicking => panicked)
    BY DEF IndInv, ShapeInv
<1>2. /\ Run("Close") /\ errp # TypedNil
      /\ UNCHANGED <<panicking, panicVal, discarded, thrown, panicked, ran, skipped>>
    BY <1>1, PanicsIff DEF CloseFails
<1>3. PICK c : LET cerr == Alloc(heap, Leaf(c))
                   r    == AppendSuppressed(cerr.heap, errp, cerr.val)
               IN  /\ heap' = r.heap /\ errp' = r.val
                   /\ failures' = failures \cup {cerr.val}
    BY DEF CloseFails
<1>4. /\ GoodHeap(heap') /\ Grown(heap, heap') /\ errp' \in DOMAIN heap'
      /\ \A x \in failures' : x \in failures \/ Is(heap', errp', x)
      /\ errp # Nil => \A y : Is(heap, errp, y) => Is(heap', errp', y)
      /\ errp # Nil /\ heap[errp].kind = "errx" => errp' = errp
    BY <1>1, <1>2, <1>3, MadeAppend
<1>5. panicVal' \in Held(heap')
    BY <1>1, <1>2, <1>4, MadeHeld
<1>6. ShapeInv' /\ BodyInv' /\ KeptInv' /\ LostInv' /\ ToldInv' /\ PromisedInv'
    <2>1. panicking' \in BOOLEAN /\ (~panicking' => panicVal' = Nil) /\ (panicking' => panicked)
        BY <1>1, <1>2
    <2> QED
        BY <1>2, <1>4, <1>5, <2>1, ErrorReplaced
<1>7. phase = "unwinding" /\ phase' = phase /\ primary' = primary
    BY <1>2, RunNext
<1>8. PrimaryInv'
    <2> SUFFICES ASSUME ~panicked, primary > 0, heap'[primary].kind = "errx" PROVE errp' = primary
        BY <1>2, <1>7 DEF PrimaryInv
    <2>1. heap[primary].kind = "errx"
        BY <1>4, GrownKeeps
    <2>2. errp = primary
        BY <1>7, <2>1 DEF IndInv, PrimaryInv
    <2>3. errp # Nil
        BY <1>1, <2>2, HeldType DEF Nil
    <2> QED
        BY <1>4, <2>1, <2>2, <2>3
<1>9. DefectInv'
    <2> SUFFICES ASSUME panicked, ~panicking
                 PROVE  /\ errp' \in DOMAIN heap' /\ heap'[errp'].kind = "errx"
                        /\ heap'[errp'].panic /\ heap'[errp'].class = "defect"
        BY <1>2 DEF DefectInv
    <2>1. errp \in DOMAIN heap /\ heap[errp].kind = "errx" /\ heap[errp].panic /\ heap[errp].class = "defect"
        BY DEF IndInv, DefectInv
    <2>2. errp # Nil
        BY <1>1, <2>1, HeldType DEF Nil
    <2> QED
        BY <1>4, <2>1, <2>2 DEF Grown
<1> QED
    BY <1>6, <1>8, <1>9 DEF IndInv

LEMMA RecoverPanicInv == IndInv /\ RecoverPanic => IndInv'
<1> SUFFICES ASSUME IndInv, RecoverPanic PROVE IndInv'
    OBVIOUS
<1>1. GoodHeap(heap) /\ errp \in Held(heap) /\ panicVal \in Held(heap) /\ panicked
    BY DEF RecoverPanic, IndInv, ShapeInv
<1>2. /\ Run("Recover") /\ panicking' = FALSE /\ panicVal' = Nil
      /\ heap' = Recover(heap, errp, panicVal).heap /\ errp' = Recover(heap, errp, panicVal).val
      /\ UNCHANGED <<failures, discarded, panicked, ran, skipped>>
    BY DEF RecoverPanic
<1>3. /\ GoodHeap(heap') /\ Grown(heap, heap') /\ errp' \in DOMAIN heap'
      /\ heap'[errp'].kind = "errx" /\ heap'[errp'].panic /\ heap'[errp'].class = "defect"
      /\ errp # Nil => \A y : Is(heap, errp, y) => Is(heap', errp', y)
    BY <1>1, <1>2, MadeRecover
<1>4. panicVal' \in Held(heap')
    BY <1>2, <1>3, HeldType
<1>5. ShapeInv' /\ BodyInv' /\ KeptInv' /\ LostInv' /\ ToldInv' /\ PromisedInv'
    BY <1>1, <1>2, <1>3, <1>4, ErrorReplaced
<1>6. PrimaryInv' /\ DefectInv'
    BY <1>1, <1>2, <1>3 DEF PrimaryInv, DefectInv
<1> QED
    BY <1>5, <1>6 DEF IndInv

\* Nothing else is left to do, or nothing is done.
LEMMA FinishInv == IndInv /\ (Finish \/ UNCHANGED vars) => IndInv'
<1> SUFFICES ASSUME IndInv, Finish \/ UNCHANGED vars PROVE IndInv'
    OBVIOUS
<1>1. UNCHANGED <<order, defers, errp, panicking, panicVal, heap, primary, failures, discarded, panicked, ran, skipped>>
    BY DEF Finish, vars, result
<1>2. phase' \in {"body", "unwinding", "done"} /\ (phase' = "body" => phase = "body") /\ (phase' # "body" => phase # "body")
    BY DEF Finish, vars, IndInv, ShapeInv
<1>3. ShapeInv' /\ BodyInv' /\ KeptInv' /\ LostInv'
    BY <1>1, <1>2 DEF IndInv, ShapeInv, BodyInv, KeptInv, LostInv
<1>4. PrimaryInv' /\ DefectInv' /\ ToldInv'
    BY <1>1, <1>2 DEF IndInv, PrimaryInv, DefectInv, ToldInv
<1>5. PromisedInv'
    BY <1>1 DEF IndInv, PromisedInv
<1> QED
    BY <1>3, <1>4, <1>5 DEF IndInv

LEMMA StepInv == IndInv /\ [Next]_vars => IndInv'
<1> SUFFICES ASSUME IndInv, [Next]_vars PROVE IndInv'
    OBVIOUS
<1>1. CASE SetError \/ Return \/ Panic \/ ReturnResult \/ UnwrapResult \/ PanicInRailway
    BY <1>1, SetErrorInv, ReturnInv, PanicInv, ReturnResultInv, UnwrapResultInv, PanicInRailwayInv
<1>2. CASE OnError \/ OnSuccess
    BY <1>2, OnErrorInv, OnSuccessInv
<1>3. CASE CloseOk \/ CloseFails \/ CloseFailsOnTypedNil
    BY <1>3, CloseOkInv, CloseFailsInv, CloseFailsOnTypedNilInv
<1>4. CASE RecoverPanic \/ RecoverNothing
    BY <1>4, RecoverPanicInv, RecoverNothingInv
<1>5. CASE Finish \/ UNCHANGED vars
    BY <1>5, FinishInv
<1> QED
    BY <1>1, <1>2, <1>3, <1>4, <1>5 DEF Next

\* Every step of the body and of every deferred call keeps the invariant.
THEOREM Invariance == Spec => []IndInv
BY InitInv, StepInv, PTL DEF Spec

-----------------------------------------------------------------------------
(* What errdefer.go and recover.go promise *)

\* An *Error in err is what errors.As and Get find.
LEMMA GetErrx ==
    ASSUME IndInv, errp \in DOMAIN heap, heap[errp].kind = "errx"
    PROVE  Get(heap, errp) = errp /\ errp # Nil
<1>1. GoodHeap(heap)
    BY DEF IndInv, ShapeInv
<1>2. heap \in Heaps(LeafCodes) /\ errp \in Int /\ errp > 0 /\ errp # Nil /\ errp # TypedNil
    BY <1>1, HeldType DEF GoodHeap, Nil, TypedNil
<1>3. As(heap, errp) = errp
    BY <1>2, AsErrx DEF IsErrx
<1> QED
    BY <1>2, <1>3 DEF Get

\* The state has its shape: the deferred calls left are a prefix of those
\* registered, and every error has finitely many below it.
THEOREM TypeCorrect == Spec => []TypeOK
<1>1. IndInv => TypeOK
    <2> SUFFICES ASSUME IndInv PROVE TypeOK
        OBVIOUS
    <2>1. GoodHeap(heap) /\ heap \in Heaps(LeafCodes) /\ Ranked(heap)
        BY DEF IndInv, ShapeInv, GoodHeap
    <2>2. \A v \in DOMAIN heap : Finite(heap, v)
        BY <2>1, RankedIsFinite DEF Refs
    <2> QED
        BY <2>2 DEF IndInv, ShapeInv, TypeOK, Held, Refs
<1> QED
    BY Invariance, <1>1, PTL

\* AppendSuppressed and Recover never drop an error: whatever the body and the
\* Closes returned is found by errors.Is in what the function ends with, but
\* for the errors of Closes that ran on a typed nil, which a panic took away;
\* for that the body has to have returned a typed nil.
THEOREM NothingIsLost == Spec => []NothingLost
<1>1. IndInv => NothingLost
    BY DEF IndInv, KeptInv, LostInv, NothingLost
<1> QED
    BY Invariance, <1>1, PTL

\* errdefer.go:33, a failing Close does not mask the primary error: without a
\* panic, the *Error the body returned is still the one Get finds.
THEOREM PrimaryStays == Spec => []PrimaryStaysPrimary
<1>1. IndInv => PrimaryStaysPrimary
    <2> SUFFICES ASSUME IndInv, phase = "done", ~panicked, primary > 0, heap[primary].kind = "errx"
                 PROVE  Get(heap, errp) = primary
        BY DEF PrimaryStaysPrimary
    <2>1. errp = primary
        BY DEF IndInv, PrimaryInv
    <2>2. errp \in DOMAIN heap
        BY <2>1, HeldType DEF IndInv, ShapeInv, Nil, TypedNil
    <2> QED
        BY <2>1, <2>2, GetErrx
<1> QED
    BY Invariance, <1>1, PTL

\* recover.go: a panic that was captured stays a recovered defect, whatever is
\* appended to it by the deferred calls that still run.
THEOREM PanicStays == Spec => []PanicStaysDefect
<1>1. IndInv => PanicStaysDefect
    <2> SUFFICES ASSUME IndInv, panicked, ~panicking
                 PROVE  Recovered(heap, errp) /\ ClassOf(heap, errp) = "defect"
        BY DEF PanicStaysDefect
    <2>1. errp \in DOMAIN heap /\ heap[errp].kind = "errx" /\ heap[errp].panic /\ heap[errp].class = "defect"
        BY DEF IndInv, DefectInv
    <2> QED
        BY <2>1, GetErrx DEF Recovered, ClassOf
<1> QED
    BY Invariance, <1>1, PTL

\* OnError and OnSuccess: whoever was told of failure is right; and with the
\* Closes and Recovers registered after them, whoever was told of success too.
THEOREM CallbacksAreExact == Spec => []CallbacksExact
<1>1. IndInv => CallbacksExact
    BY DEF IndInv, ToldInv, PromisedInv, CallbacksExact, Failed
<1> QED
    BY Invariance, <1>1, PTL
=============================================================================
