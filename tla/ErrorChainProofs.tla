-------------------------- MODULE ErrorChainProofs --------------------------
(***************************************************************************)
(* Proofs, for programs that build error graphs of any size with any set   *)
(* of codes, of what ErrorChain promises: what the inspectors find, what   *)
(* stays matchable and what the return trace says.                         *)
(***************************************************************************)
EXTENDS ErrorChain, ErrorValuesProofs

-----------------------------------------------------------------------------
(* The equations of the walks of inspect.go and stack.go *)

Maps(V) == [V -> V]

Recurs(f, V, a, next) == f \in [Nat -> V] /\ f[0] = a /\ \A n \in Nat : f[n + 1] = next[f[n]]

\* A recursion whose step is always the same has a solution.
LEMMA Recursion ==
    ASSUME NEW V, NEW a \in V, NEW next \in Maps(V)
    PROVE  \E f : Recurs(f, V, a, next)
<1> DEFINE step == [n \in Nat |-> next]
<1>1. step \in Steps(V)
    BY DEF Steps, Maps
<1>2. PICK f : Iterates(f, V, a, step)
    BY <1>1, Iteration
<1> QED
    BY <1>2 DEF Iterates, Recurs

\* The first code of a sequence of codes.
LEMMA FirstCodeIndex ==
    ASSUME NEW S, NEW s \in Seq(S)
    PROVE  \/ FirstCode(s) = NoCode /\ \A i \in 1 .. Len(s) : s[i] = NoCode
           \/ \E i \in 1 .. Len(s) : /\ FirstCode(s) = s[i] /\ s[i] # NoCode
                                     /\ \A j \in 1 .. i - 1 : s[j] = NoCode
<1> DEFINE I == {i \in 1 .. Len(s) : s[i] # NoCode}
<1>1. FirstCode(s) = IF (IF I # {} THEN Min(I) ELSE 0) = 0 THEN NoCode ELSE s[IF I # {} THEN Min(I) ELSE 0]
    BY DEF FirstCode, FirstThat, SelectInSeq
<1>2. CASE I = {}
    <2>1. FirstCode(s) = NoCode
        BY <1>1, <1>2
    <2>2. \A i \in 1 .. Len(s) : s[i] = NoCode
        BY <1>2
    <2> QED
        BY <2>1, <2>2
<1>3. CASE I # {}
    <2>1. I \subseteq Nat
        OBVIOUS
    <2>2. \E i \in I : \A j \in I : i <= j
        <3> HIDE DEF I
        <3> QED
            BY <1>3, <2>1, LeastNatural
    <2>3. Min(I) \in I /\ \A j \in I : Min(I) <= j
        <3> HIDE DEF I
        <3> QED
            BY <2>2 DEF Min
    <2> DEFINE i == Min(I)
    <2> HIDE DEF i
    <2>4. i \in 1 .. Len(s) /\ s[i] # NoCode /\ \A j \in 1 .. Len(s) : s[j] # NoCode => i <= j
        BY <2>3 DEF i
    <2>5. FirstCode(s) = s[i]
        BY <1>1, <1>3, <2>4 DEF i
    <2>6. \A j \in 1 .. i - 1 : s[j] = NoCode
        BY <2>4
    <2> QED
        BY <2>4, <2>5, <2>6
<1> QED
    BY <1>2, <1>3

\* Whatever codes are found in.
CodesIn(h) == {h[x].code : x \in Int} \cup {NoCode}

\* The walk of Code, below an error that a function gives the codes of.
CodeBelow(h, g, x) == IF h[x].code # NoCode THEN h[x].code ELSE FirstCode(Below(h, g, x))

LEMMA CodeWalkEquation ==
    ASSUME NEW C, NEW h \in Heaps(C)
    PROVE  /\ \A d \in Nat : CodeWalk(h)[d] \in [Int -> CodesIn(h)]
           /\ \A x \in Int : CodeWalk(h)[0][x] = NoCode
           /\ \A d \in Nat : \A x \in Int :
                CodeWalk(h)[d + 1][x] = IF x = Nil THEN NoCode ELSE CodeBelow(h, CodeWalk(h)[d], x)
<1> DEFINE W == CodesIn(h)
           V == [Int -> W]
           value(g, x) == IF x = Nil THEN NoCode ELSE CodeBelow(h, g, x)
           a == [x \in Int |-> NoCode]
           next == [g \in V |-> [x \in Int |-> value(g, x)]]
           Solves(f) == f = [d \in Nat |-> [x \in Int |->
                                IF d = 0 \/ x = Nil THEN NoCode ELSE CodeBelow(h, f[d - 1], x)]]
<1>1. ASSUME NEW g \in V, NEW x \in Int PROVE value(g, x) \in W
    <2>1. Below(h, g, x) \in Seq(W)
        <3> HIDE DEF W
        <3> QED
            BY BelowType
    <2>2. NoCode \in W /\ h[x].code \in W
        BY DEF CodesIn
    <2> HIDE DEF W
    <2>3. FirstCode(Below(h, g, x)) = NoCode \/ \E i \in 1 .. Len(Below(h, g, x)) : FirstCode(Below(h, g, x)) = Below(h, g, x)[i]
        BY <2>1, FirstCodeIndex
    <2>4. FirstCode(Below(h, g, x)) \in W
        BY <2>1, <2>2, <2>3
    <2> QED
        BY <2>2, <2>4 DEF CodeBelow
<1>2. a \in V
    BY DEF CodesIn
<1>3. next \in Maps(V)
    <2> HIDE DEF value, W
    <2> QED
        BY <1>1 DEF Maps
<1>4. \A g \in V : next[g] = [x \in Int |-> value(g, x)]
    OBVIOUS
<1>5. CodeWalk(h) = CHOOSE f : Solves(f)
    BY DEF CodeWalk, CodeBelow, Below
<1>6. a = [x \in Int |-> NoCode]
    OBVIOUS
<1> HIDE DEF next, V, a
<1>7. PICK f : f \in [Nat -> V] /\ f[0] = a /\ \A n \in Nat : f[n + 1] = next[f[n]]
    BY <1>2, <1>3, Recursion DEF Recurs
<1>8. \A d \in Nat : f[d + 1] = [x \in Int |-> value(f[d], x)]
    BY <1>4, <1>7
<1>9. ASSUME NEW d \in Nat
      PROVE  f[d] = [x \in Int |-> IF d = 0 \/ x = Nil THEN NoCode ELSE CodeBelow(h, f[d - 1], x)]
    <2>1. CASE d = 0
        BY <1>6, <1>7, <2>1
    <2>2. CASE d # 0
        <3>1. d - 1 \in Nat /\ (d - 1) + 1 = d
            BY <2>2
        <3> QED
            BY <1>8, <2>2, <3>1
    <2> QED
        BY <2>1, <2>2
<1>10. Solves(f)
    <2>1. f = [d \in Nat |-> f[d]]
        BY <1>7
    <2> QED
        BY <1>9, <2>1
<1> HIDE DEF Solves
<1>11. Solves(CodeWalk(h))
    BY <1>5, <1>10
<1> DEFINE v == CodeWalk(h)
<1> HIDE DEF v
<1>12. v = [d \in Nat |-> [x \in Int |-> IF d = 0 \/ x = Nil THEN NoCode ELSE CodeBelow(h, v[d - 1], x)]]
    BY <1>11 DEF Solves, v
<1>13. v[0] = a /\ \A x \in Int : v[0][x] = NoCode
    BY <1>6, <1>12
<1>14. ASSUME NEW d \in Nat PROVE v[d + 1] = [x \in Int |-> value(v[d], x)]
    <2>1. (d + 1) - 1 = d /\ d + 1 # 0 /\ d + 1 \in Nat
        OBVIOUS
    <2> QED
        BY <1>12, <2>1
<1>15. \A d \in Nat : v[d] \in V
    <2> DEFINE T == {d \in Nat : v[d] \in V}
    <2>1. 0 \in T
        BY <1>2, <1>13
    <2>2. ASSUME NEW d \in Nat, v[d] \in V PROVE v[d + 1] \in V
        <3> DEFINE g == v[d]
        <3> HIDE DEF g, value
        <3>1. v[d + 1] = [x \in Int |-> value(g, x)]
            BY <1>14 DEF g
        <3>2. \A x \in Int : value(g, x) \in W
            BY <1>1, <2>2 DEF g
        <3> QED
            BY <3>1, <3>2 DEF V
    <2>3. \A d \in Nat : d \in T => d + 1 \in T
        BY <2>2
    <2>4. \A d \in Nat : d \in T
        <3> HIDE DEF T
        <3> QED
            BY <2>1, <2>3, SetInduction
    <2> QED
        BY <2>4
<1> QED
    BY <1>13, <1>14, <1>15 DEF v, V

LEMMA HasCodeWalkEquation ==
    ASSUME NEW C, NEW h \in Heaps(C), NEW c
    PROVE  /\ \A x \in Int : ~HasCodeWalk(h, c)[0][x]
           /\ \A d \in Nat : \A x \in Int :
                HasCodeWalk(h, c)[d + 1][x] <=>
                    x # Nil /\ (h[x].code = c \/ \E y \in Children(h, x) : HasCodeWalk(h, c)[d][y])
<1> DEFINE V == [Int -> BOOLEAN]
           holds(g, x) == h[x].code = c \/ \E i \in 1 .. Len(Unwrap(h, x)) : g[Unwrap(h, x)[i]]
           value(g, x) == x # Nil /\ holds(g, x)
           a == [x \in Int |-> FALSE]
           next == [g \in V |-> [x \in Int |-> value(g, x)]]
           Solves(f) == f = [d \in Nat |-> [x \in Int |-> d > 0 /\ x # Nil /\ holds(f[d - 1], x)]]
<1>1. \A g \in V, x \in Int : value(g, x) \in BOOLEAN
    OBVIOUS
<1>2. a \in V
    OBVIOUS
<1>3. next \in Maps(V)
    <2> HIDE DEF value
    <2> QED
        BY <1>1 DEF Maps
<1>4. \A g \in V : next[g] = [x \in Int |-> value(g, x)]
    OBVIOUS
<1>5. HasCodeWalk(h, c) = CHOOSE f : Solves(f)
    BY DEF HasCodeWalk
<1>6. a = [x \in Int |-> FALSE]
    OBVIOUS
<1> HIDE DEF next, V, a, holds
<1>7. PICK f : f \in [Nat -> V] /\ f[0] = a /\ \A n \in Nat : f[n + 1] = next[f[n]]
    BY <1>2, <1>3, Recursion DEF Recurs
<1>8. \A d \in Nat : f[d + 1] = [x \in Int |-> value(f[d], x)]
    BY <1>4, <1>7
<1>9. ASSUME NEW d \in Nat
      PROVE  f[d] = [x \in Int |-> d > 0 /\ x # Nil /\ holds(f[d - 1], x)]
    <2>1. CASE d = 0
        <3>1. \A x \in Int : (d > 0 /\ x # Nil /\ holds(f[d - 1], x)) = FALSE
            BY <2>1
        <3>2. [x \in Int |-> d > 0 /\ x # Nil /\ holds(f[d - 1], x)] = [x \in Int |-> FALSE]
            BY <3>1
        <3> QED
            BY <1>6, <1>7, <2>1, <3>2
    <2>2. CASE d # 0
        <3>1. d - 1 \in Nat /\ (d - 1) + 1 = d /\ d > 0
            BY <2>2
        <3>2. f[d - 1] \in V
            BY <1>7, <3>1
        <3>3. f[d] = [x \in Int |-> value(f[d - 1], x)]
            BY <1>8, <3>1
        <3>4. \A x \in Int : (d > 0 /\ x # Nil /\ holds(f[d - 1], x)) = value(f[d - 1], x)
            BY <1>1, <3>1, <3>2
        <3>5. [x \in Int |-> d > 0 /\ x # Nil /\ holds(f[d - 1], x)] = [x \in Int |-> value(f[d - 1], x)]
            BY <3>4
        <3> QED
            BY <3>3, <3>5
    <2> QED
        BY <2>1, <2>2
<1>10. Solves(f)
    <2>1. f = [d \in Nat |-> f[d]]
        BY <1>7
    <2> QED
        BY <1>9, <2>1
<1> HIDE DEF Solves
<1>11. Solves(HasCodeWalk(h, c))
    BY <1>5, <1>10
<1> DEFINE v == HasCodeWalk(h, c)
<1> HIDE DEF v
<1>12. v = [d \in Nat |-> [x \in Int |-> d > 0 /\ x # Nil /\ holds(v[d - 1], x)]]
    BY <1>11 DEF Solves, v
<1>13. ASSUME NEW x \in Int PROVE ~v[0][x]
    <2>1. v[0][x] = (0 > 0 /\ x # Nil /\ holds(v[0 - 1], x))
        BY <1>12
    <2>2. ~ (0 > 0)
        OBVIOUS
    <2> QED
        BY <2>1, <2>2
<1>14. ASSUME NEW d \in Nat, NEW x \in Int
       PROVE  v[d + 1][x] <=> x # Nil /\ (h[x].code = c \/ \E y \in Children(h, x) : v[d][y])
    <2>1. (d + 1) - 1 = d /\ d + 1 > 0 /\ d + 1 \in Nat
        OBVIOUS
    <2>2. v[d + 1][x] = (d + 1 > 0 /\ x # Nil /\ holds(v[(d + 1) - 1], x))
        BY <1>12, <2>1
    <2>3. v[d + 1][x] <=> x # Nil /\ holds(v[d], x)
        BY <2>1, <2>2
    <2> DEFINE u == Unwrap(h, x)
    <2>4. u \in Seq(Int)
        BY UnwrapType
    <2>5. Children(h, x) = ToSet(u)
        BY DEF Children
    <2>6. holds(v[d], x) <=> h[x].code = c \/ \E i \in 1 .. Len(u) : v[d][u[i]]
        BY DEF holds
    <2> HIDE DEF u
    <2>7. DOMAIN u = 1 .. Len(u)
        BY <2>4
    <2> QED
        BY <2>3, <2>5, <2>6, <2>7 DEF ToSet
<1> QED
    BY <1>13, <1>14 DEF v

\* The sites of the layers an error and what it was made from were made at.
OwnSite(h, x) == IF HasWrapPC(h[x]) THEN <<x>> ELSE <<>>

LEMMA TraceWalkEquation ==
    ASSUME NEW C, NEW h \in Heaps(C)
    PROVE  /\ \A d \in Nat : TraceWalk(h)[d] \in [Int -> Seq(Int)]
           /\ \A x \in Int : TraceWalk(h)[0][x] = <<>>
           /\ \A d \in Nat : \A x \in Int :
                TraceWalk(h)[d + 1][x] =
                    IF x \notin DOMAIN h \/ ~IsErrx(h, x) THEN <<>>
                    ELSE OwnSite(h, x) \o TraceWalk(h)[d][h[x].cause]
<1> DEFINE W == Seq(Int)
           V == [Int -> W]
           ends(x) == x \notin DOMAIN h \/ ~IsErrx(h, x)
           on(g, x) == OwnSite(h, x) \o g[h[x].cause]
           value(g, x) == IF ends(x) THEN <<>> ELSE on(g, x)
           a == [x \in Int |-> <<>>]
           next == [g \in V |-> [x \in Int |-> value(g, x)]]
           Solves(f) == f = [d \in Nat |-> [x \in Int |->
                                IF d = 0 \/ ends(x) THEN <<>> ELSE on(f[d - 1], x)]]
<1>1. ASSUME NEW g \in V, NEW x \in Int PROVE value(g, x) \in W
    <2>1. CASE ends(x)
        BY <2>1
    <2>2. CASE ~ends(x)
        <3>1. h[x].cause \in Int
            <4>1. x \in DOMAIN h
                BY <2>2
            <4>2. h[x] \in Node(C)
                BY <4>1 DEF Heaps
            <4> QED
                BY <4>2 DEF Node
        <3>2. OwnSite(h, x) \in Seq(Int)
            BY DEF OwnSite
        <3>3. g[h[x].cause] \in Seq(Int)
            BY <3>1
        <3> QED
            BY <2>2, <3>2, <3>3
    <2> QED
        BY <2>1, <2>2
<1>2. a \in V
    OBVIOUS
<1>3. next \in Maps(V)
    <2> HIDE DEF value, W
    <2> QED
        BY <1>1 DEF Maps
<1>4. \A g \in V : next[g] = [x \in Int |-> value(g, x)]
    OBVIOUS
<1>5. TraceWalk(h) = CHOOSE f : Solves(f)
    <2>1. \A d, x : d = 0 \/ ends(x) <=> d = 0 \/ x \notin DOMAIN h \/ ~IsErrx(h, x)
        OBVIOUS
    <2> QED
        BY <2>1 DEF TraceWalk, OwnSite
<1>6. a = [x \in Int |-> <<>>]
    OBVIOUS
<1> HIDE DEF next, V, a, W, ends, on
<1>7. PICK f : f \in [Nat -> V] /\ f[0] = a /\ \A n \in Nat : f[n + 1] = next[f[n]]
    BY <1>2, <1>3, Recursion DEF Recurs
<1>8. \A d \in Nat : f[d + 1] = [x \in Int |-> value(f[d], x)]
    BY <1>4, <1>7
<1>9. ASSUME NEW d \in Nat
      PROVE  f[d] = [x \in Int |-> IF d = 0 \/ ends(x) THEN <<>> ELSE on(f[d - 1], x)]
    <2>1. CASE d = 0
        BY <1>6, <1>7, <2>1
    <2>2. CASE d # 0
        <3>1. d - 1 \in Nat /\ (d - 1) + 1 = d
            BY <2>2
        <3> QED
            BY <1>8, <2>2, <3>1
    <2> QED
        BY <2>1, <2>2
<1>10. Solves(f)
    <2>1. f = [d \in Nat |-> f[d]]
        BY <1>7
    <2> QED
        BY <1>9, <2>1
<1> HIDE DEF Solves
<1>11. Solves(TraceWalk(h))
    BY <1>5, <1>10
<1> DEFINE v == TraceWalk(h)
<1> HIDE DEF v
<1>12. v = [d \in Nat |-> [x \in Int |-> IF d = 0 \/ ends(x) THEN <<>> ELSE on(v[d - 1], x)]]
    BY <1>11 DEF Solves, v
<1>13. v[0] = a /\ \A x \in Int : v[0][x] = <<>>
    BY <1>6, <1>12
<1>14. ASSUME NEW d \in Nat PROVE v[d + 1] = [x \in Int |-> value(v[d], x)]
    <2>1. (d + 1) - 1 = d /\ d + 1 # 0 /\ d + 1 \in Nat
        OBVIOUS
    <2> QED
        BY <1>12, <2>1
<1>15. \A d \in Nat : v[d] \in V
    <2> DEFINE T == {d \in Nat : v[d] \in V}
    <2>1. 0 \in T
        BY <1>2, <1>13
    <2>2. ASSUME NEW d \in Nat, v[d] \in V PROVE v[d + 1] \in V
        <3> DEFINE g == v[d]
        <3> HIDE DEF g, value
        <3>1. v[d + 1] = [x \in Int |-> value(g, x)]
            BY <1>14 DEF g
        <3>2. \A x \in Int : value(g, x) \in W
            BY <1>1, <2>2 DEF g
        <3> QED
            BY <3>1, <3>2 DEF V
    <2>3. \A d \in Nat : d \in T => d + 1 \in T
        BY <2>2
    <2>4. \A d \in Nat : d \in T
        <3> HIDE DEF T
        <3> QED
            BY <2>1, <2>3, SetInduction
    <2> QED
        BY <2>4
<1>16. \A d \in Nat : \A x \in Int : v[d + 1][x] = IF ends(x) THEN <<>> ELSE on(v[d], x)
    BY <1>14
<1> QED
    BY <1>13, <1>15, <1>16 DEF v, V, W, ends, on

-----------------------------------------------------------------------------
(* The inductive invariant *)

AllCodes == Codes \cup {NoCode}

\* An error is made from errors there are.  What it suppresses may be younger,
\* but does not contain it.
GoodChain(h) ==
    /\ h \in Heaps(AllCodes) /\ Ranked(h)
    /\ \A v \in DOMAIN h : /\ h[v].cause \in DOMAIN h \cup {Nil} /\ h[v].cause < v
                           /\ ToSet(h[v].supp) \subseteq DOMAIN h

ChainInv == GoodChain(heap)

LEMMA ChainType ==
    ASSUME NEW h, GoodChain(h)
    PROVE  /\ h \in Heaps(AllCodes) /\ Ranked(h) /\ Len(h) \in Nat /\ DOMAIN h = 1 .. Len(h)
           /\ DOMAIN h \subseteq Int /\ DOMAIN h \subseteq Refs(h) /\ Refs(h) \subseteq Int
           /\ \A x \in DOMAIN h : x > 0 /\ x # Nil /\ x # TypedNil /\ h[x] \in Node(AllCodes)
           /\ \A x : Children(h, x) \subseteq DOMAIN h
<1>1. h \in Heaps(AllCodes) /\ Ranked(h)
    BY DEF GoodChain
<1>2. Len(h) \in Nat /\ DOMAIN h = 1 .. Len(h) /\ Refs(h) \subseteq Int
    BY <1>1, RefsType
<1>3. \A x \in DOMAIN h : x > 0 /\ x # Nil /\ x # TypedNil /\ h[x] \in Node(AllCodes)
    BY <1>1, <1>2 DEF Nil, TypedNil, Heaps
<1>4. ASSUME NEW x PROVE Children(h, x) \subseteq DOMAIN h
    <2>1. CASE x \notin DOMAIN h
        BY <1>1, <2>1, ChildrenOf
    <2>2. CASE x \in DOMAIN h
        <3>1. Children(h, x) = IF h[x].opaque THEN {} ELSE ({h[x].cause} \ {Nil}) \cup ToSet(h[x].supp)
            BY <1>1, <2>2, ChildrenOf
        <3> QED
            BY <2>2, <3>1 DEF GoodChain
    <2> QED
        BY <2>1, <2>2
<1> QED
    BY <1>1, <1>2, <1>3, <1>4 DEF Refs

\* What an error matches is in the heap, and what errors.As finds is an *Error
\* that it matches.
LEMMA ChainIs ==
    ASSUME NEW h, GoodChain(h), NEW v \in DOMAIN h
    PROVE  /\ \A y : Is(h, v, y) => y \in DOMAIN h
           /\ As(h, v) = Nil \/ (As(h, v) \in DOMAIN h /\ h[As(h, v)].kind = "errx" /\ Is(h, v, As(h, v)))
<1> DEFINE S == {x \in Refs(h) : x \in DOMAIN h => \A y : Is(h, x, y) => y \in DOMAIN h}
<1>1. h \in Heaps(AllCodes) /\ Ranked(h) /\ v \in Int /\ v # Nil /\ v \in Refs(h)
    BY ChainType
<1>2. ASSUME NEW x \in Refs(h), \A c \in Children(h, x) : c \in S PROVE x \in S
    <2> SUFFICES ASSUME x \in DOMAIN h, NEW y, Is(h, x, y) PROVE y \in DOMAIN h
        OBVIOUS
    <2>1. y = x \/ \E c \in Children(h, x) : Is(h, c, y)
        BY <1>1, IsUnfold
    <2>2. \A c \in Children(h, x) : c \in DOMAIN h
        BY ChainType
    <2> QED
        BY <1>2, <2>1, <2>2
<1>3. \A x \in Refs(h) : x \in S
    <2> HIDE DEF S
    <2> QED
        BY <1>1, <1>2, GraphInduction
<1>4. \A y : Is(h, v, y) => y \in DOMAIN h
    BY <1>1, <1>3
<1>5. As(h, v) = Nil \/ (Is(h, v, As(h, v)) /\ IsErrx(h, As(h, v)))
    BY <1>1, AsType
<1>6. \A x \in DOMAIN h : x # TypedNil
    BY ChainType
<1> QED
    BY <1>4, <1>5, <1>6 DEF IsErrx

-----------------------------------------------------------------------------
(* What a step of the program does to the heap *)

\* A new error, made from errors there are.
Made(h, k, n) ==
    /\ n \in Node(AllCodes) /\ n.cause \in DOMAIN h \cup {Nil} /\ ToSet(n.supp) \subseteq DOMAIN h
    /\ k = Append(h, n)

Suppressed(h, k, e, s) ==
    e \in DOMAIN h /\ s \in DOMAIN h /\ ~Is(h, s, e) /\ k = Suppress(h, e, s)

\* An error, with the same causes, is given another code or becomes a barrier.
Changed(h, k, e) ==
    e \in DOMAIN h /\ ((\E c \in Codes : k = WithCode(h, e, c)) \/ k = Opaque(h, e))

Stepped(h, k) ==
    \/ \E n : Made(h, k, n)
    \/ \E e, s : Suppressed(h, k, e, s)
    \/ \E e : Changed(h, k, e)
    \/ k = h

\* What no step changes of an error.
Past(h, k) ==
    /\ DOMAIN h \subseteq DOMAIN k
    /\ \A x \in DOMAIN h : k[x].kind = h[x].kind /\ k[x].cause = h[x].cause /\ k[x].panic = h[x].panic

LEMMA MadeGood ==
    ASSUME NEW h, GoodChain(h), NEW k, NEW n, Made(h, k, n)
    PROVE  GoodChain(k) /\ Extends(k, h, n) /\ Past(h, k)
<1>1. /\ n \in Node(AllCodes) /\ n.cause \in DOMAIN h \cup {Nil} /\ ToSet(n.supp) \subseteq DOMAIN h
      /\ k = Append(h, n)
    BY DEF Made
<1>2. h \in Heaps(AllCodes) /\ Ranked(h) /\ DOMAIN h \subseteq Refs(h) /\ Len(h) \in Nat /\ DOMAIN h = 1 .. Len(h)
    BY ChainType
<1>3. k \in Heaps(AllCodes) /\ Extends(k, h, n) /\ Ranked(k)
    BY <1>1, <1>2, AllocHeap
<1> DEFINE m == Len(h) + 1
<1>4. DOMAIN k = DOMAIN h \cup {m} /\ k[m] = n /\ \A x \in DOMAIN h : k[x] = h[x]
    BY <1>3 DEF Extends
<1>5. n.cause < m
    BY <1>1, <1>2 DEF Nil
<1>6. ASSUME NEW v \in DOMAIN k
      PROVE  k[v].cause \in DOMAIN k \cup {Nil} /\ k[v].cause < v /\ ToSet(k[v].supp) \subseteq DOMAIN k
    <2>1. CASE v = m
        BY <1>1, <1>4, <1>5, <2>1
    <2>2. CASE v # m
        <3>1. v \in DOMAIN h /\ k[v] = h[v]
            BY <1>4, <2>2
        <3>2. h[v].cause \in DOMAIN h \cup {Nil} /\ h[v].cause < v /\ ToSet(h[v].supp) \subseteq DOMAIN h
            BY <3>1 DEF GoodChain
        <3> QED
            BY <1>4, <3>1, <3>2
    <2> QED
        BY <2>1, <2>2
<1>7. GoodChain(k)
    BY <1>3, <1>6 DEF GoodChain
<1> QED
    BY <1>3, <1>4, <1>7 DEF Past

LEMMA SuppressedGood ==
    ASSUME NEW h, GoodChain(h), NEW k, NEW e, NEW s, Suppressed(h, k, e, s)
    PROVE  /\ GoodChain(k) /\ Past(h, k) /\ Len(k) = Len(h) /\ DOMAIN k = DOMAIN h
           /\ \A x \in DOMAIN h : x # e => k[x] = h[x]
           /\ k[e] = [h[e] EXCEPT !.supp = Append(@, s)]
           /\ Children(k, e) = IF h[e].opaque THEN {} ELSE Children(h, e) \cup {s}
           /\ \A x : x # e => Children(k, x) = Children(h, x)
           /\ \A v \in Int : \A y : Is(h, v, y) => Is(k, v, y)
<1>1. e \in DOMAIN h /\ s \in DOMAIN h /\ ~Is(h, s, e) /\ k = Suppress(h, e, s)
    BY DEF Suppressed
<1>2. h \in Heaps(AllCodes) /\ Ranked(h) /\ DOMAIN h \subseteq Refs(h) /\ h[e] \in Node(AllCodes) /\ s \in Int /\ s \in Refs(h)
    BY <1>1, ChainType
<1>3. /\ k \in Heaps(AllCodes) /\ Len(k) = Len(h) /\ DOMAIN k = DOMAIN h
      /\ \A x \in DOMAIN h : x # e => k[x] = h[x]
      /\ k[e] = [h[e] EXCEPT !.supp = Append(@, s)]
      /\ \A x : x # e => Children(k, x) = Children(h, x)
      /\ Children(k, e) = IF h[e].opaque THEN {} ELSE Children(h, e) \cup {s}
      /\ \A v \in Int : \A y : Is(h, v, y) => Is(k, v, y)
      /\ Ranked(k)
    BY <1>1, <1>2, SuppressHeap
<1>4. /\ k[e].kind = h[e].kind /\ k[e].cause = h[e].cause /\ k[e].panic = h[e].panic
      /\ k[e].supp = Append(h[e].supp, s) /\ h[e].supp \in Seq(Int)
    BY <1>2, <1>3 DEF Node
<1>5. ToSet(k[e].supp) = ToSet(h[e].supp) \cup {s}
    <2>1. \A q \in Seq(Int), x \in Int : ToSet(Append(q, x)) = ToSet(q) \cup {x}
        <3> TAKE q \in Seq(Int), x \in Int
        <3>1. DOMAIN q = 1 .. Len(q) /\ Len(q) \in Nat /\ DOMAIN Append(q, x) = 1 .. Len(q) + 1
            OBVIOUS
        <3>2. Append(q, x)[Len(q) + 1] = x /\ \A i \in DOMAIN q : Append(q, x)[i] = q[i]
            OBVIOUS
        <3>3. DOMAIN Append(q, x) = DOMAIN q \cup {Len(q) + 1}
            BY <3>1
        <3> QED
            BY <3>2, <3>3 DEF ToSet
    <2> QED
        BY <1>2, <1>4, <2>1
<1>6. ASSUME NEW v \in DOMAIN k
      PROVE  k[v].cause \in DOMAIN k \cup {Nil} /\ k[v].cause < v /\ ToSet(k[v].supp) \subseteq DOMAIN k
    <2>1. h[v].cause \in DOMAIN h \cup {Nil} /\ h[v].cause < v /\ ToSet(h[v].supp) \subseteq DOMAIN h
        BY <1>3 DEF GoodChain
    <2> QED
        BY <1>1, <1>3, <1>4, <1>5, <2>1
<1>7. GoodChain(k)
    BY <1>3, <1>6 DEF GoodChain
<1>8. Past(h, k)
    BY <1>3, <1>4 DEF Past
<1> QED
    BY <1>3, <1>7, <1>8

LEMMA ChangedGood ==
    ASSUME NEW h, GoodChain(h), NEW k, NEW e, Changed(h, k, e)
    PROVE  /\ GoodChain(k) /\ Past(h, k) /\ Len(k) = Len(h) /\ DOMAIN k = DOMAIN h
           /\ \A x : Children(k, x) \subseteq Children(h, x)
           /\ (\A v \in DOMAIN h : k[v].opaque = h[v].opaque) => \A x : Children(k, x) = Children(h, x)
<1>1. e \in DOMAIN h /\ ((\E c \in Codes : k = WithCode(h, e, c)) \/ k = Opaque(h, e))
    BY DEF Changed
<1>2. /\ h \in Heaps(AllCodes) /\ h[e] \in Node(AllCodes) /\ Refs(h) \subseteq Int
      /\ Len(h) \in Nat /\ DOMAIN h = 1 .. Len(h)
    BY <1>1, ChainType
<1>3. PICK n \in Node(AllCodes) :
            /\ k = [h EXCEPT ![e] = n]
            /\ n.kind = h[e].kind /\ n.cause = h[e].cause /\ n.panic = h[e].panic /\ n.supp = h[e].supp
            /\ n.opaque \/ n.opaque = h[e].opaque
    <2>1. CASE \E c \in Codes : k = WithCode(h, e, c)
        <3>1. PICK c \in Codes : k = WithCode(h, e, c)
            BY <2>1
        <3> DEFINE n == [h[e] EXCEPT !.code = c]
        <3>2. /\ n \in Node(AllCodes) /\ n.kind = h[e].kind /\ n.cause = h[e].cause /\ n.panic = h[e].panic
              /\ n.supp = h[e].supp /\ n.opaque = h[e].opaque
            BY <1>2 DEF Node, AllCodes
        <3>3. k = [h EXCEPT ![e] = n]
            BY <3>1 DEF WithCode
        <3> QED
            BY <3>2, <3>3
    <2>2. CASE k = Opaque(h, e)
        <3> DEFINE n == [h[e] EXCEPT !.opaque = TRUE]
        <3>2. /\ n \in Node(AllCodes) /\ n.kind = h[e].kind /\ n.cause = h[e].cause /\ n.panic = h[e].panic
              /\ n.supp = h[e].supp /\ n.opaque
            BY <1>2 DEF Node
        <3>3. k = [h EXCEPT ![e] = n]
            BY <2>2 DEF Opaque
        <3> QED
            BY <3>2, <3>3
    <2> QED
        BY <1>1, <2>1, <2>2
<1>4. /\ k \in Heaps(AllCodes) /\ Len(k) = Len(h) /\ DOMAIN k = DOMAIN h /\ k[e] = n
      /\ \A x \in DOMAIN h : x # e => k[x] = h[x]
    BY <1>1, <1>2, <1>3 DEF Heaps
<1>5. Past(h, k)
    BY <1>3, <1>4 DEF Past
<1>6. ASSUME NEW x
      PROVE  /\ Children(k, x) \subseteq Children(h, x)
             /\ (\A v \in DOMAIN h : k[v].opaque = h[v].opaque) => Children(k, x) = Children(h, x)
    <2>1. CASE x \notin DOMAIN h
        BY <1>2, <1>4, <2>1, ChildrenOf
    <2>2. CASE x \in DOMAIN h
        <3>1. /\ Children(h, x) = IF h[x].opaque THEN {} ELSE ({h[x].cause} \ {Nil}) \cup ToSet(h[x].supp)
              /\ Children(k, x) = IF k[x].opaque THEN {} ELSE ({k[x].cause} \ {Nil}) \cup ToSet(k[x].supp)
            BY <1>2, <1>4, <2>2, ChildrenOf
        <3>2. CASE x = e
            BY <1>3, <1>4, <2>2, <3>1, <3>2
        <3>3. CASE x # e
            BY <1>4, <2>2, <3>1, <3>3
        <3> QED
            BY <3>2, <3>3
    <2> QED
        BY <2>1, <2>2
<1>7. Ranked(k)
    <2>1. PICK r : r \in Ranks(h)
        BY DEF GoodChain, Ranked
    <2>2. Refs(k) = Refs(h)
        BY <1>4 DEF Refs
    <2>3. r \in Ranks(k)
        BY <1>6, <2>1, <2>2 DEF Ranks
    <2> QED
        BY <2>3 DEF Ranked
<1>8. ASSUME NEW v \in DOMAIN k
      PROVE  k[v].cause \in DOMAIN k \cup {Nil} /\ k[v].cause < v /\ ToSet(k[v].supp) \subseteq DOMAIN k
    <2>1. h[v].cause \in DOMAIN h \cup {Nil} /\ h[v].cause < v /\ ToSet(h[v].supp) \subseteq DOMAIN h
        BY <1>4, <1>8 DEF GoodChain
    <2>2. k[v].cause = h[v].cause /\ k[v].supp = h[v].supp
        BY <1>3, <1>4
    <2> QED
        BY <1>4, <2>1, <2>2
<1>9. GoodChain(k)
    BY <1>4, <1>7, <1>8 DEF GoodChain
<1> QED
    BY <1>4, <1>5, <1>6, <1>9

LEMMA BlankIn ==
    /\ Blank \in Node(AllCodes) /\ NoCode \in AllCodes
    /\ Blank.kind = "errx" /\ Blank.cause = Nil /\ Blank.code = NoCode /\ ~Blank.opaque
    /\ Blank.supp = <<>> /\ ToSet(Blank.supp) = {}
<1> DEFINE none == <<>>
<1>1. none \in Seq(Int) /\ ToSet(none) = {}
    BY DEF ToSet
<1>2. Blank = [kind |-> "errx", code |-> NoCode, class |-> "expected", retry |-> FALSE,
               cause |-> Nil, supp |-> none, opaque |-> FALSE, panic |-> FALSE]
    BY DEF Blank
<1> HIDE DEF none
<1>3. Blank \in Node(AllCodes) /\ Blank.kind = "errx" /\ Blank.cause = Nil /\ Blank.code = NoCode /\ ~Blank.opaque
    BY <1>1, <1>2 DEF Node, AllCodes, Nil
<1>4. Blank.supp = none /\ ToSet(Blank.supp) = {}
    BY <1>1, <1>2
<1> QED
    BY <1>3, <1>4 DEF none, AllCodes

\* The new errors that the operations make.
LEMMA NewNodes ==
    ASSUME NEW h, GoodChain(h)
    PROVE  /\ \A id \in Identities :
                Made(h, Append(h, [Blank EXCEPT !.code = id.code, !.class = id.class, !.retry = id.retry]),
                     [Blank EXCEPT !.code = id.code, !.class = id.class, !.retry = id.retry])
           /\ \A kind : \A v \in DOMAIN h \cup {Nil} : Made(h, Append(h, ForeignNode(kind, v)), ForeignNode(kind, v))
           /\ \A v \in DOMAIN h : Made(h, Append(h, [Blank EXCEPT !.cause = v]), [Blank EXCEPT !.cause = v])
           /\ \A v, w \in DOMAIN h : Made(h, Append(h, JoinNode(<<v, w>>)), JoinNode(<<v, w>>))
           /\ \A v, e \in DOMAIN h :
                Made(h, Append(h, Inherit([Blank EXCEPT !.cause = v], h[e])), Inherit([Blank EXCEPT !.cause = v], h[e]))
<1>2. DOMAIN h \subseteq Int /\ \A x \in DOMAIN h : h[x] \in Node(AllCodes)
    BY ChainType
<1>4. Blank \in Node(AllCodes) /\ Blank.cause = Nil /\ ToSet(Blank.supp) = {} /\ NoCode \in AllCodes
    BY BlankIn
<1>5. ASSUME NEW id \in Identities
      PROVE  Made(h, Append(h, [Blank EXCEPT !.code = id.code, !.class = id.class, !.retry = id.retry]),
                  [Blank EXCEPT !.code = id.code, !.class = id.class, !.retry = id.retry])
    <2>1. id.code \in AllCodes /\ id.class \in {"expected", "defect", "cancelled"} /\ id.retry \in BOOLEAN
        BY ConstantsAssumption DEF AllCodes
    <2>2. \A b \in Node(AllCodes) :
            LET n == [b EXCEPT !.code = id.code, !.class = id.class, !.retry = id.retry]
            IN  n \in Node(AllCodes) /\ n.cause = b.cause /\ n.supp = b.supp
        BY <2>1 DEF Node
    <2> QED
        BY <1>4, <2>2 DEF Made
<1>6. ASSUME NEW kind, NEW v \in DOMAIN h \cup {Nil}
      PROVE  Made(h, Append(h, ForeignNode(kind, v)), ForeignNode(kind, v))
    <2> DEFINE ki == IF kind = "ctx" THEN "ctx" ELSE "foreign"
               co == IF kind = "coded" THEN ForeignCode ELSE NoCode
    <2>1. ki \in {"errx", "join", "foreign", "ctx"} /\ co \in AllCodes /\ v \in Int
        BY <1>2, <1>4, ConstantsAssumption DEF AllCodes, Nil
    <2>2. ForeignNode(kind, v) = [Blank EXCEPT !.kind = ki, !.code = co, !.cause = v]
        BY DEF ForeignNode
    <2> HIDE DEF ki, co
    <2>3. \A b \in Node(AllCodes) :
            LET n == [b EXCEPT !.kind = ki, !.code = co, !.cause = v]
            IN  n \in Node(AllCodes) /\ n.cause = v /\ n.supp = b.supp
        BY <2>1 DEF Node
    <2> QED
        BY <1>4, <2>2, <2>3 DEF Made
<1>7. ASSUME NEW v \in DOMAIN h
      PROVE  LET n == [Blank EXCEPT !.cause = v]
             IN  n \in Node(AllCodes) /\ n.cause = v /\ ToSet(n.supp) = {}
    <2>1. \A b \in Node(AllCodes) :
            LET n == [b EXCEPT !.cause = v]
            IN  n \in Node(AllCodes) /\ n.cause = v /\ n.supp = b.supp
        BY <1>2 DEF Node
    <2> QED
        BY <1>4, <2>1
<1>8. ASSUME NEW v \in DOMAIN h PROVE Made(h, Append(h, [Blank EXCEPT !.cause = v]), [Blank EXCEPT !.cause = v])
    BY <1>7 DEF Made
<1>9. ASSUME NEW v \in DOMAIN h, NEW w \in DOMAIN h PROVE Made(h, Append(h, JoinNode(<<v, w>>)), JoinNode(<<v, w>>))
    <2> DEFINE q == <<v, w>>
    <2>1. q \in Seq(Int) /\ ToSet(q) \subseteq DOMAIN h
        <3>1. DOMAIN q = 1 .. 2 /\ q[1] = v /\ q[2] = w
            OBVIOUS
        <3>2. \A i : i \in 1 .. 2 <=> i = 1 \/ i = 2
            OBVIOUS
        <3>3. q \in Seq(Int)
            BY <1>2
        <3> HIDE DEF q
        <3> QED
            BY <3>1, <3>2, <3>3 DEF ToSet
    <2> HIDE DEF q
    <2>2. \A b \in Node(AllCodes) :
            LET n == [b EXCEPT !.kind = "join", !.supp = q]
            IN  n \in Node(AllCodes) /\ n.cause = b.cause /\ n.supp = q
        BY <2>1 DEF Node
    <2>3. JoinNode(q) = [Blank EXCEPT !.kind = "join", !.supp = q]
        BY DEF JoinNode
    <2>4. Made(h, Append(h, JoinNode(q)), JoinNode(q))
        BY <1>4, <2>1, <2>2, <2>3 DEF Made
    <2> QED
        BY <2>4 DEF q
<1>10. ASSUME NEW v \in DOMAIN h, NEW e \in DOMAIN h
       PROVE  Made(h, Append(h, Inherit([Blank EXCEPT !.cause = v], h[e])), Inherit([Blank EXCEPT !.cause = v], h[e]))
    <2>1. \A b, i \in Node(AllCodes) :
            LET n == Inherit(b, i)
            IN  n \in Node(AllCodes) /\ n.cause = b.cause /\ n.supp = b.supp
        BY DEF Inherit, Node
    <2> DEFINE b == [Blank EXCEPT !.cause = v]
               n == Inherit(b, h[e])
    <2>2. b \in Node(AllCodes) /\ b.cause \in DOMAIN h \cup {Nil} /\ ToSet(b.supp) \subseteq DOMAIN h
        BY <1>7 DEF Made
    <2> HIDE DEF b
    <2>3. n \in Node(AllCodes) /\ n.cause = b.cause /\ n.supp = b.supp
        BY <1>2, <2>1, <2>2
    <2> HIDE DEF n
    <2>4. Made(h, Append(h, n), n)
        BY <2>2, <2>3 DEF Made
    <2> QED
        BY <2>4 DEF n, b
<1> QED
    BY <1>5, <1>6, <1>8, <1>9, <1>10

LEMMA StepStepped ==
    ASSUME ChainInv, [Next]_heap
    PROVE  Stepped(heap, heap')
<1>1. GoodChain(heap)
    BY DEF ChainInv
<1>2. \A v \in Values : v \in Int /\ v # Nil
    BY <1>1, ChainType DEF Values
<1>3. ASSUME NEW n, Made(heap, heap', n) PROVE Stepped(heap, heap')
    BY <1>3 DEF Stepped
<1>4. CASE DoNew
    BY <1>1, <1>3, <1>4, NewNodes DEF DoNew
<1>5. CASE DoForeign \/ DoErrorf
    <2>1. \E kind : \E v \in Values \cup {Nil} : heap' = Append(heap, ForeignNode(kind, v))
        BY <1>5 DEF DoForeign, DoErrorf
    <2>2. PICK kind : \E v \in Values \cup {Nil} : heap' = Append(heap, ForeignNode(kind, v))
        BY <2>1
    <2>3. PICK v \in Values \cup {Nil} : heap' = Append(heap, ForeignNode(kind, v))
        BY <2>2
    <2>4. Made(heap, Append(heap, ForeignNode(kind, v)), ForeignNode(kind, v))
        BY <1>1, <2>3, NewNodes DEF Values
    <2> QED
        BY <1>3, <2>3, <2>4
<1>6. CASE DoWrap
    <2>1. PICK v \in Values : heap' = Wrap(heap, v).heap
        BY <1>6 DEF DoWrap
    <2>2. As(heap, v) # TypedNil /\ (As(heap, v) # Nil => As(heap, v) \in Values)
        BY <1>1, ChainIs, ChainType DEF Values, Nil, TypedNil
    <2> DEFINE w == [Blank EXCEPT !.cause = v]
               e == As(heap, v)
               n == IF e = Nil THEN w ELSE Inherit(w, heap[e])
    <2>3. heap' = Append(heap, n)
        BY <1>2, <2>1 DEF Wrap, Alloc
    <2>4. e = Nil \/ e \in Values
        BY <2>2
    <2>5. Made(heap, Append(heap, w), w)
        BY <1>1, NewNodes DEF Values
    <2>6. e # Nil => Made(heap, Append(heap, Inherit(w, heap[e])), Inherit(w, heap[e]))
        BY <1>1, <2>4, NewNodes DEF Values
    <2>7. Made(heap, heap', n)
        <3> HIDE DEF e, w
        <3> QED
            BY <2>3, <2>5, <2>6
    <2> QED
        BY <1>3, <2>7
<1>7. CASE DoNote
    <2>1. PICK v \in Values : heap' = Note(heap, v).heap
        BY <1>7 DEF DoNote
    <2>2. heap' = Append(heap, [Blank EXCEPT !.cause = v]) \/ heap' = heap
        BY <1>2, <2>1 DEF Note, Alloc, InPlace
    <2>3. Made(heap, Append(heap, [Blank EXCEPT !.cause = v]), [Blank EXCEPT !.cause = v])
        BY <1>1, <2>1, NewNodes DEF Values
    <2>4. CASE heap' = Append(heap, [Blank EXCEPT !.cause = v])
        BY <1>3, <2>3, <2>4
    <2>5. CASE heap' = heap
        BY <2>5 DEF Stepped
    <2> QED
        BY <2>2, <2>4, <2>5
<1>8. CASE DoJoin
    <2>1. PICK v \in Values \cup {Nil}, w \in Values \cup {Nil} : heap' = Join(heap, <<v, w>>).heap
        BY <1>8 DEF DoJoin
    <2>2. v \in Int /\ w \in Int
        BY <1>2 DEF Nil
    <2>3. CASE v # Nil /\ w # Nil
        <3>1. Join(heap, <<v, w>>) = Alloc(heap, JoinNode(<<v, w>>))
            BY <2>2, <2>3, JoinOfTwo
        <3>2. heap' = Append(heap, JoinNode(<<v, w>>))
            BY <2>1, <3>1 DEF Alloc
        <3>3. Made(heap, Append(heap, JoinNode(<<v, w>>)), JoinNode(<<v, w>>))
            BY <1>1, <2>1, <2>3, NewNodes DEF Values
        <3> QED
            BY <1>3, <3>2, <3>3
    <2>4. CASE v = Nil \/ w = Nil
        <3>1. \E x : Join(heap, <<v, w>>) = InPlace(heap, x)
            BY <2>2, <2>4, JoinOfTwo
        <3>2. heap' = heap
            BY <2>1, <3>1 DEF InPlace
        <3> QED
            BY <3>2 DEF Stepped
    <2> QED
        BY <2>3, <2>4
<1>9. CASE DoSuppress
    <2>1. PICK e \in Errors, s \in Values : CanSuppress(e, s) /\ heap' = Suppress(heap, e, s)
        BY <1>9 DEF DoSuppress
    <2>2. Suppressed(heap, heap', e, s)
        BY <2>1 DEF Suppressed, CanSuppress, Errors, Values
    <2> QED
        BY <2>2 DEF Stepped
<1>10. CASE DoAppendSuppressed
    <2>1. PICK p \in Values, s \in Values : CanAppend(p, s) /\ heap' = AppendSuppressed(heap, p, s).heap
        BY <1>10 DEF DoAppendSuppressed
    <2> DEFINE e == As(heap, p)
    <2>2. CASE e # Nil
        <3>1. heap' = Suppress(heap, e, s)
            BY <1>2, <2>1, <2>2 DEF AppendSuppressed, InPlace
        <3>2. e \in Values
            BY <1>1, <2>2, ChainIs DEF Values
        <3>3. Suppressed(heap, heap', e, s)
            BY <2>1, <2>2, <3>1, <3>2 DEF Suppressed, CanAppend, CanSuppress, Values
        <3> QED
            BY <3>3 DEF Stepped
    <2>3. CASE e = Nil
        <3>1. heap' = Join(heap, <<p, s>>).heap
            BY <1>2, <2>1, <2>3 DEF AppendSuppressed
        <3>2. Join(heap, <<p, s>>) = Alloc(heap, JoinNode(<<p, s>>))
            BY <1>2, <2>1, JoinOfTwo
        <3>3. heap' = Append(heap, JoinNode(<<p, s>>))
            BY <3>1, <3>2 DEF Alloc
        <3>4. Made(heap, Append(heap, JoinNode(<<p, s>>)), JoinNode(<<p, s>>))
            BY <1>1, <2>1, NewNodes DEF Values
        <3> QED
            BY <1>3, <3>3, <3>4
    <2> QED
        BY <2>2, <2>3
<1>11. CASE DoWithCode \/ DoOpaque
    <2>1. PICK e \in Errors : (\E c \in Recodes : heap' = WithCode(heap, e, c)) \/ heap' = Opaque(heap, e)
        BY <1>11 DEF DoWithCode, DoOpaque
    <2>2. Changed(heap, heap', e)
        BY <2>1, ConstantsAssumption DEF Changed, Errors, Values
    <2> QED
        BY <2>2 DEF Stepped
<1>12. CASE UNCHANGED heap
    BY <1>12 DEF Stepped
<1> QED
    BY <1>4, <1>5, <1>6, <1>7, <1>8, <1>9, <1>10, <1>11, <1>12 DEF Next

LEMMA ChainInit == Init => ChainInv
<1> SUFFICES ASSUME Init PROVE ChainInv
    OBVIOUS
<1> DEFINE h == <<>>
<1>1. h \in Heaps(AllCodes) /\ DOMAIN h = {}
    BY DEF Heaps
<1> HIDE DEF h
<1>2. Refs(h) = {TypedNil}
    BY <1>1 DEF Refs
<1>3. \A x : Children(h, x) = {}
    BY <1>1, ChildrenOf
<1> DEFINE r == [x \in Refs(h) |-> 0]
<1>4. r \in Ranks(h)
    BY <1>3 DEF Ranks
<1> HIDE DEF r
<1>5. Ranked(h)
    BY <1>4 DEF Ranked
<1>6. GoodChain(h)
    BY <1>1, <1>5 DEF GoodChain
<1> QED
    BY <1>6 DEF h, Init, ChainInv

LEMMA ChainStep == ChainInv /\ [Next]_heap => ChainInv' /\ Past(heap, heap')
<1> SUFFICES ASSUME ChainInv, [Next]_heap PROVE GoodChain(heap') /\ Past(heap, heap')
    BY DEF ChainInv
<1>1. GoodChain(heap) /\ Stepped(heap, heap')
    BY StepStepped DEF ChainInv
<1>2. CASE \E n : Made(heap, heap', n)
    BY <1>1, <1>2, MadeGood
<1>3. CASE \E e, s : Suppressed(heap, heap', e, s)
    BY <1>1, <1>3, SuppressedGood
<1>4. CASE \E e : Changed(heap, heap', e)
    BY <1>1, <1>4, ChangedGood
<1>5. CASE heap' = heap
    BY <1>1, <1>5 DEF Past
<1> QED
    BY <1>1, <1>2, <1>3, <1>4, <1>5 DEF Stepped

\* Errors are made from errors there are, and contain no cycle.
THEOREM ChainInvariance == Spec => []ChainInv
<1>1. ChainInv /\ [Next]_heap => ChainInv'
    BY ChainStep
<1> QED
    BY ChainInit, <1>1, PTL DEF Spec

\* The state has its shape: nodes refer to nodes, and no error can be reached
\* from itself, so that every traversal of every value ends.
THEOREM ChainTypeCorrect == Spec => []TypeOK
<1>1. ChainInv => TypeOK
    <2> SUFFICES ASSUME GoodChain(heap), NEW v \in DOMAIN heap
                 PROVE  /\ heap[v].cause \in DOMAIN heap \cup {Nil}
                        /\ ToSet(heap[v].supp) \subseteq DOMAIN heap
                        /\ Finite(heap, v)
        BY DEF ChainInv, TypeOK, Values
    <2>1. Finite(heap, v)
        BY ChainType, RankedIsFinite
    <2> QED
        BY <2>1 DEF GoodChain
<1> QED
    BY ChainInvariance, <1>1, PTL

-----------------------------------------------------------------------------
(* What stays matchable *)

\* errors.Is goes on finding in an error what it found, whatever is done to any
\* part of its graph: suppressing adds, re-coding replaces nothing, and only a
\* barrier hides.
THEOREM MatchesAreKept == Spec => MatchesStay
<1>1. ASSUME ChainInv, [Next]_heap, \A v \in Values : heap'[v].opaque = heap[v].opaque,
             NEW v \in Values, NEW x \in Values, Is(heap, v, x)
      PROVE  Is(heap', v, x)
    <2>1. GoodChain(heap) /\ Stepped(heap, heap') /\ v \in DOMAIN heap
        BY <1>1, StepStepped DEF ChainInv, Values
    <2>2. v \in Int /\ heap \in Heaps(AllCodes) /\ Len(heap) \in Nat
        BY <2>1, ChainType
    <2>3. CASE \E n : Made(heap, heap', n)
        <3>1. PICK n : Made(heap, heap', n)
            BY <2>3
        <3>2. Extends(heap', heap, n)
            BY <2>1, <3>1, MadeGood
        <3> QED
            BY <1>1, <2>2, <3>2 DEF Extends
    <2>4. CASE \E e, s : Suppressed(heap, heap', e, s)
        <3>1. \A y : Is(heap, v, y) => Is(heap', v, y)
            BY <2>1, <2>2, <2>4, SuppressedGood
        <3> QED
            BY <1>1, <3>1
    <2>5. CASE \E e : Changed(heap, heap', e)
        <3>1. /\ GoodChain(heap') /\ Len(heap') = Len(heap)
              /\ \A y : Children(heap', y) = Children(heap, y)
            BY <1>1, <2>1, <2>5, ChangedGood DEF Values
        <3>2. heap' \in Heaps(AllCodes)
            BY <3>1 DEF GoodChain
        <3>3. Len(heap) <= Len(heap') /\ \A y \in Int : Children(heap, y) \subseteq Children(heap', y)
            BY <2>2, <3>1
        <3> QED
            BY <1>1, <2>2, <3>2, <3>3, MatchesGrow
    <2>6. CASE heap' = heap
        BY <1>1, <2>6
    <2> QED
        BY <2>1, <2>3, <2>4, <2>5, <2>6 DEF Stepped
<1>2. ChainInv /\ [Next]_heap =>
        [(\A v \in Values : heap'[v].opaque = heap[v].opaque) =>
            \A v, x \in Values : Is(heap, v, x) => Is(heap', v, x)]_heap
    BY <1>1
<1> QED
    BY ChainInvariance, <1>2, PTL DEF Spec, MatchesStay

-----------------------------------------------------------------------------
(* The return trace *)

LEMMA CauseType ==
    ASSUME NEW h, GoodChain(h), NEW x \in DOMAIN h
    PROVE  /\ h[x].cause \in DOMAIN h \cup {Nil} /\ h[x].cause < x
           /\ x \in Int /\ h[x].cause \in Int /\ x > 0 /\ Nil \notin DOMAIN h
           /\ IsErrx(h, x) <=> h[x].kind = "errx"
BY ChainType DEF GoodChain, Nil, IsErrx

\* One step of the walk, for an error of the heap or none.
LEMMA TraceStep ==
    ASSUME NEW h, GoodChain(h), NEW d \in Nat
    PROVE  /\ TraceWalk(h)[d] \in [Int -> Seq(Int)]
           /\ TraceWalk(h)[d][Nil] = <<>>
           /\ \A x \in DOMAIN h : TraceWalk(h)[0][x] = <<>>
           /\ \A x \in DOMAIN h :
                TraceWalk(h)[d + 1][x] =
                    IF h[x].kind = "errx" THEN OwnSite(h, x) \o TraceWalk(h)[d][h[x].cause] ELSE <<>>
<1>1. h \in Heaps(AllCodes)
    BY ChainType
<1>2. /\ \A n \in Nat : TraceWalk(h)[n] \in [Int -> Seq(Int)]
      /\ \A x \in Int : TraceWalk(h)[0][x] = <<>>
      /\ \A n \in Nat : \A x \in Int :
            TraceWalk(h)[n + 1][x] =
                IF x \notin DOMAIN h \/ ~IsErrx(h, x) THEN <<>>
                ELSE OwnSite(h, x) \o TraceWalk(h)[n][h[x].cause]
    BY <1>1, TraceWalkEquation
<1>3. TraceWalk(h)[d][Nil] = <<>>
    <2>1. CASE d = 0
        BY <1>2, <2>1 DEF Nil
    <2>2. CASE d # 0
        <3>1. d - 1 \in Nat /\ (d - 1) + 1 = d
            BY <2>2
        <3>2. Nil \notin DOMAIN h /\ Nil \in Int
            BY ChainType DEF Nil
        <3> QED
            BY <1>2, <3>1, <3>2
    <2> QED
        BY <2>1, <2>2
<1>4. \A x \in DOMAIN h : x \in Int
    BY CauseType
<1>5. ASSUME NEW x \in DOMAIN h
      PROVE  TraceWalk(h)[d + 1][x] =
                IF h[x].kind = "errx" THEN OwnSite(h, x) \o TraceWalk(h)[d][h[x].cause] ELSE <<>>
    <2>1. IsErrx(h, x) <=> h[x].kind = "errx"
        BY CauseType
    <2> QED
        BY <1>2, <1>4, <2>1
<1> QED
    BY <1>2, <1>3, <1>4, <1>5

\* Errors that say the same of themselves have the same trace.
LEMMA TraceSame ==
    ASSUME NEW h, GoodChain(h), NEW k, GoodChain(k), Past(h, k)
    PROVE  \A d \in Nat : \A x \in DOMAIN h : TraceWalk(k)[d][x] = TraceWalk(h)[d][x]
<1> DEFINE P(d) == \A x \in DOMAIN h \cup {Nil} : TraceWalk(k)[d][x] = TraceWalk(h)[d][x]
<1>1. DOMAIN h \subseteq DOMAIN k
    BY DEF Past
<1>2. P(0)
    <2>1. 0 \in Nat
        OBVIOUS
    <2>2. \A x \in DOMAIN h : TraceWalk(h)[0][x] = <<>> /\ TraceWalk(k)[0][x] = <<>>
        BY <1>1, <2>1, TraceStep
    <2>3. TraceWalk(h)[0][Nil] = <<>> /\ TraceWalk(k)[0][Nil] = <<>>
        BY <2>1, TraceStep
    <2> QED
        BY <2>2, <2>3
<1>3. ASSUME NEW d \in Nat, P(d) PROVE P(d + 1)
    <2>1. d + 1 \in Nat
        OBVIOUS
    <2>2. TraceWalk(h)[d + 1][Nil] = <<>> /\ TraceWalk(k)[d + 1][Nil] = <<>>
        BY <2>1, TraceStep
    <2>3. ASSUME NEW x \in DOMAIN h PROVE TraceWalk(k)[d + 1][x] = TraceWalk(h)[d + 1][x]
        <3>1. x \in DOMAIN k /\ k[x].kind = h[x].kind /\ k[x].cause = h[x].cause /\ k[x].panic = h[x].panic
            BY DEF Past
        <3>2. OwnSite(k, x) = OwnSite(h, x)
            BY <3>1 DEF OwnSite, HasWrapPC
        <3>3. h[x].cause \in DOMAIN h \cup {Nil}
            BY CauseType
        <3>4. TraceWalk(k)[d][h[x].cause] = TraceWalk(h)[d][h[x].cause]
            BY <1>3, <3>3
        <3>5. TraceWalk(h)[d + 1][x] =
                IF h[x].kind = "errx" THEN OwnSite(h, x) \o TraceWalk(h)[d][h[x].cause] ELSE <<>>
            BY TraceStep
        <3>6. TraceWalk(k)[d + 1][x] =
                IF k[x].kind = "errx" THEN OwnSite(k, x) \o TraceWalk(k)[d][k[x].cause] ELSE <<>>
            BY <3>1, TraceStep
        <3> QED
            BY <3>1, <3>2, <3>4, <3>5, <3>6
    <2> QED
        BY <2>2, <2>3
<1> HIDE DEF P
<1> DEFINE T == {d \in Nat : P(d)}
<1>4. 0 \in T /\ \A d \in Nat : d \in T => d + 1 \in T
    BY <1>2, <1>3
<1>5. \A d \in Nat : d \in T
    <2> HIDE DEF T
    <2> QED
        BY <1>4, SetInduction
<1>6. \A d \in Nat : P(d)
    BY <1>5
<1> QED
    BY <1>6 DEF P

\* Causes are older, so going deeper than the age of an error adds nothing.
LEMMA TraceStable ==
    ASSUME NEW h, GoodChain(h)
    PROVE  \A d \in Nat : \A x \in DOMAIN h \cup {Nil} : x < d => TraceWalk(h)[d + 1][x] = TraceWalk(h)[d][x]
<1> DEFINE P(d) == \A x \in DOMAIN h \cup {Nil} : x < d => TraceWalk(h)[d + 1][x] = TraceWalk(h)[d][x]
<1>1. P(0)
    <2>1. \A x \in DOMAIN h \cup {Nil} : ~ (x < 0)
        BY CauseType DEF Nil
    <2> QED
        BY <2>1
<1>2. ASSUME NEW d \in Nat, P(d) PROVE P(d + 1)
    <2>1. d + 1 \in Nat /\ (d + 1) + 1 \in Nat
        OBVIOUS
    <2>2. TraceWalk(h)[d + 1][Nil] = <<>> /\ TraceWalk(h)[(d + 1) + 1][Nil] = <<>>
        BY <2>1, TraceStep
    <2>3. ASSUME NEW x \in DOMAIN h, x < d + 1 PROVE TraceWalk(h)[(d + 1) + 1][x] = TraceWalk(h)[d + 1][x]
        <3>1. h[x].cause \in DOMAIN h \cup {Nil} /\ h[x].cause < d
            BY <2>3, CauseType
        <3>2. TraceWalk(h)[d + 1][h[x].cause] = TraceWalk(h)[d][h[x].cause]
            BY <1>2, <3>1
        <3>3. TraceWalk(h)[d + 1][x] =
                IF h[x].kind = "errx" THEN OwnSite(h, x) \o TraceWalk(h)[d][h[x].cause] ELSE <<>>
            BY TraceStep
        <3>4. TraceWalk(h)[(d + 1) + 1][x] =
                IF h[x].kind = "errx" THEN OwnSite(h, x) \o TraceWalk(h)[d + 1][h[x].cause] ELSE <<>>
            BY <2>1, TraceStep
        <3> QED
            BY <3>2, <3>3, <3>4
    <2> QED
        BY <2>2, <2>3
<1> HIDE DEF P
<1> DEFINE T == {d \in Nat : P(d)}
<1>4. 0 \in T /\ \A d \in Nat : d \in T => d + 1 \in T
    BY <1>1, <1>2
<1>5. \A d \in Nat : d \in T
    <2> HIDE DEF T
    <2> QED
        BY <1>4, SetInduction
<1>6. \A d \in Nat : P(d)
    BY <1>5
<1> QED
    BY <1>6 DEF P

\* What Trace says of an error: where it was made, and what is said of its cause.
LEMMA TraceEquation ==
    ASSUME NEW h, GoodChain(h), NEW x \in DOMAIN h, h[x].kind = "errx"
    PROVE  Trace(h, x) = OwnSite(h, x) \o Trace(h, h[x].cause)
<1>1. Len(h) \in Nat /\ DOMAIN h = 1 .. Len(h)
    BY ChainType
<1>2. h[x].cause \in DOMAIN h \cup {Nil} /\ h[x].cause < Len(h)
    BY <1>1, CauseType
<1>3. TraceWalk(h)[Len(h) + 1][h[x].cause] = TraceWalk(h)[Len(h)][h[x].cause]
    BY <1>1, <1>2, TraceStable
<1>4. TraceWalk(h)[Len(h) + 1][x] = OwnSite(h, x) \o TraceWalk(h)[Len(h)][h[x].cause]
    BY <1>1, TraceStep
<1> QED
    BY <1>3, <1>4 DEF Trace

LEMMA TraceKept ==
    ASSUME NEW h, GoodChain(h), NEW k, GoodChain(k), Past(h, k), Len(k) = Len(h) \/ Len(k) = Len(h) + 1,
           NEW x \in DOMAIN h
    PROVE  Trace(k, x) = Trace(h, x)
<1>1. Len(h) \in Nat /\ DOMAIN h = 1 .. Len(h) /\ Len(h) + 1 \in Nat /\ x < Len(h) + 1
    BY ChainType
<1>2. Trace(k, x) = TraceWalk(h)[Len(k) + 1][x]
    BY <1>1, TraceSame DEF Trace
<1>3. TraceWalk(h)[(Len(h) + 1) + 1][x] = TraceWalk(h)[Len(h) + 1][x]
    BY <1>1, TraceStable
<1> QED
    BY <1>2, <1>3 DEF Trace

LEMMA ConsOf ==
    ASSUME NEW x \in Int, NEW s \in Seq(Int)
    PROVE  Len(<<x>> \o s) = Len(s) + 1 /\ ToSet(<<x>> \o s) = ToSet(s) \cup {x}
<1> DEFINE own == <<x>>
           S == Int
<1>1. own \in Seq(S) /\ s \in Seq(S) /\ ToSet(own) = {x}
    BY DEF ToSet
<1>2. Len(own \o s) = Len(s) + 1
    OBVIOUS
<1> HIDE DEF own, S
<1>3. ToSet(own \o s) = ToSet(own) \cup ToSet(s)
    BY <1>1, ToSetCat
<1> QED
    BY <1>1, <1>2, <1>3 DEF own

LEMMA TraceType ==
    ASSUME NEW h, GoodChain(h), NEW x \in DOMAIN h \cup {Nil}
    PROVE  Trace(h, x) \in Seq(Int)
<1>1. Len(h) + 1 \in Nat /\ x \in Int
    BY ChainType DEF Nil
<1>2. TraceWalk(h)[Len(h) + 1] \in [Int -> Seq(Int)]
    BY <1>1, TraceStep
<1> QED
    BY <1>1, <1>2 DEF Trace

\* No step makes the heap more than one error longer.
LEMMA LengthStep ==
    ASSUME ChainInv, [Next]_heap
    PROVE  /\ GoodChain(heap) /\ GoodChain(heap') /\ Past(heap, heap')
           /\ Len(heap') = Len(heap) \/ Len(heap') = Len(heap) + 1
<1>1. GoodChain(heap) /\ Stepped(heap, heap') /\ GoodChain(heap') /\ Past(heap, heap')
    BY StepStepped, ChainStep DEF ChainInv
<1>2. CASE \E n : Made(heap, heap', n)
    <2>1. PICK n : Made(heap, heap', n)
        BY <1>2
    <2>2. Extends(heap', heap, n)
        BY <1>1, <2>1, MadeGood
    <2> QED
        BY <1>1, <2>2 DEF Extends
<1>3. CASE \E e, s : Suppressed(heap, heap', e, s)
    BY <1>1, <1>3, SuppressedGood
<1>4. CASE \E e : Changed(heap, heap', e)
    BY <1>1, <1>4, ChangedGood
<1>5. CASE heap' = heap
    BY <1>1, <1>5
<1> QED
    BY <1>1, <1>2, <1>3, <1>4, <1>5 DEF Stepped

\* stack.go: the return trace of an error never changes after it was made, and
\* a new wrapper's has its own site and the sites of its cause.
THEOREM TraceIsTheHistory == Spec => TraceIsHistory
<1>1. ASSUME ChainInv, [Next]_heap
      PROVE  /\ \A v \in Errors : Trace(heap', v) = Trace(heap, v)
             /\ \A w \in DOMAIN heap' \ Values : HasWrapPC(heap'[w]) =>
                    LET inside == Trace(heap, heap'[w].cause)
                    IN  /\ ToSet(Trace(heap', w)) = ToSet(inside) \cup {w}
                        /\ Len(Trace(heap', w)) = Len(inside) + 1
    <2>1. /\ GoodChain(heap) /\ GoodChain(heap') /\ Past(heap, heap')
          /\ Len(heap') = Len(heap) \/ Len(heap') = Len(heap) + 1
        BY <1>1, LengthStep
    <2>2. \A v \in Values : Trace(heap', v) = Trace(heap, v)
        BY <2>1, TraceKept DEF Values
    <2>3. ASSUME NEW w \in DOMAIN heap' \ Values, HasWrapPC(heap'[w])
          PROVE  LET inside == Trace(heap, heap'[w].cause)
                 IN  /\ ToSet(Trace(heap', w)) = ToSet(inside) \cup {w}
                     /\ Len(Trace(heap', w)) = Len(inside) + 1
        <3> DEFINE c == heap'[w].cause
                   inside == Trace(heap, c)
        <3>1. heap'[w].kind = "errx" /\ c # Nil /\ OwnSite(heap', w) = <<w>>
            BY <2>3 DEF HasWrapPC, OwnSite
        <3>2. Trace(heap', w) = <<w>> \o Trace(heap', c)
            BY <2>1, <3>1, TraceEquation
        <3>3. c \in Values /\ w \in Int
            <4>1. c \in DOMAIN heap' /\ c < w /\ w \in Int
                BY <2>1, <3>1, CauseType
            <4>2. DOMAIN heap = 1 .. Len(heap) /\ DOMAIN heap' = 1 .. Len(heap') /\ Len(heap) \in Nat
                BY <2>1, ChainType
            <4> DEFINE m == Len(heap')
            <4>3. w \in 1 .. m /\ (m = Len(heap) \/ m = Len(heap) + 1) /\ c \in 1 .. m
                BY <2>1, <4>1, <4>2
            <4> HIDE DEF c, m
            <4>4. c \in 1 .. Len(heap)
                BY <4>1, <4>2, <4>3
            <4> QED
                BY <4>1, <4>2, <4>4 DEF Values
        <3>4. Trace(heap', w) = <<w>> \o inside
            BY <2>2, <3>2, <3>3
        <3>5. inside \in Seq(Int)
            BY <2>1, <3>3, TraceType DEF Values
        <3> QED
            BY <3>3, <3>4, <3>5, ConsOf
    <2> QED
        BY <2>2, <2>3 DEF Errors
<1>2. ChainInv /\ [Next]_heap =>
        [/\ \A v \in Errors : Trace(heap', v) = Trace(heap, v)
         /\ \A w \in DOMAIN heap' \ Values : HasWrapPC(heap'[w]) =>
                LET inside == Trace(heap, heap'[w].cause)
                IN  /\ ToSet(Trace(heap', w)) = ToSet(inside) \cup {w}
                    /\ Len(Trace(heap', w)) = Len(inside) + 1]_heap
    BY <1>1
<1> QED
    BY ChainInvariance, <1>2, PTL DEF Spec, TraceIsHistory

-----------------------------------------------------------------------------
(* What Wrap keeps *)

\* A new error changes nothing of the codes found in an old one.
LEMMA CodeKept ==
    ASSUME NEW h, GoodChain(h), NEW k, GoodChain(k), NEW n, Extends(k, h, n), NEW v \in DOMAIN h
    PROVE  \A d \in Nat : CodeWalk(k)[d][v] = CodeWalk(h)[d][v]
<1> DEFINE P(d) == \A x \in DOMAIN h : CodeWalk(k)[d][x] = CodeWalk(h)[d][x]
<1>1. /\ h \in Heaps(AllCodes) /\ k \in Heaps(AllCodes)
      /\ \A x \in DOMAIN h : x \in Int /\ x # Nil /\ x \in Refs(h)
      /\ \A x : Children(h, x) \subseteq DOMAIN h
    BY ChainType
<1>2. P(0)
    <2>1. \A x \in DOMAIN h : CodeWalk(h)[0][x] = NoCode /\ CodeWalk(k)[0][x] = NoCode
        BY <1>1, CodeWalkEquation
    <2> QED
        BY <2>1
<1>3. ASSUME NEW d \in Nat, P(d) PROVE P(d + 1)
    <2> SUFFICES ASSUME NEW x \in DOMAIN h PROVE CodeWalk(k)[d + 1][x] = CodeWalk(h)[d + 1][x]
        OBVIOUS
    <2>1. /\ CodeWalk(h)[d + 1][x] = CodeBelow(h, CodeWalk(h)[d], x)
          /\ CodeWalk(k)[d + 1][x] = CodeBelow(k, CodeWalk(k)[d], x)
        BY <1>1, CodeWalkEquation
    <2>2. k[x] = h[x] /\ Unwrap(k, x) = Unwrap(h, x)
        BY <1>1 DEF Extends
    <2> DEFINE u == Unwrap(h, x)
    <2>3. u \in Seq(Int) /\ \A i \in 1 .. Len(u) : u[i] \in DOMAIN h
        <3>1. u \in Seq(Int) /\ ToSet(u) \subseteq DOMAIN h
            BY <1>1, UnwrapType DEF Children
        <3> HIDE DEF u
        <3> QED
            BY <3>1 DEF ToSet
    <2>4. \A i \in 1 .. Len(u) : CodeWalk(k)[d][u[i]] = CodeWalk(h)[d][u[i]]
        BY <1>3, <2>3
    <2>5. Below(k, CodeWalk(k)[d], x) = Below(h, CodeWalk(h)[d], x)
        BY <2>2, <2>4 DEF Below
    <2> QED
        BY <2>1, <2>2, <2>5 DEF CodeBelow
<1> HIDE DEF P
<1> DEFINE T == {d \in Nat : P(d)}
<1>4. 0 \in T /\ \A d \in Nat : d \in T => d + 1 \in T
    BY <1>2, <1>3
<1>5. \A d \in Nat : d \in T
    <2> HIDE DEF T
    <2> QED
        BY <1>4, SetInduction
<1> QED
    BY <1>5 DEF P

\* construct.go: wrapping keeps the class and the retryability that the nearest
\* *Error gives the error, and its code unless another error in front has one.
THEOREM WrapKeepsTheIdentity == Spec => []WrapKeepsIdentity
<1>1. ChainInv => WrapKeepsIdentity
    <2> SUFFICES ASSUME GoodChain(heap), NEW v \in DOMAIN heap, Get(heap, v) # Nil
                 PROVE  LET w == Wrap(heap, v)
                            e == Get(heap, v)
                        IN  /\ ClassOf(w.heap, w.val) = ClassOf(heap, v)
                            /\ IsRetryable(w.heap, w.val) = IsRetryable(heap, v)
                            /\ heap[e].code = Code(heap, v) => Code(w.heap, w.val) = Code(heap, v)
        BY DEF ChainInv, WrapKeepsIdentity, Values
    <2> DEFINE w == Wrap(heap, v)
               e == Get(heap, v)
               b == [Blank EXCEPT !.cause = v]
               n == Inherit(b, heap[e])
               k == w.heap
               x == w.val
    <2>1. v \in Int /\ v # Nil /\ heap \in Heaps(AllCodes) /\ Len(heap) \in Nat /\ DOMAIN heap \subseteq Refs(heap)
        BY ChainType
    <2>2. e \in DOMAIN heap /\ As(heap, v) = e
        BY ChainIs DEF Get
    <2>3. k = Append(heap, n) /\ x = Len(heap) + 1
        BY <2>1, <2>2 DEF Wrap, Alloc
    <2>4. Made(heap, k, n)
        BY <2>2, <2>3, NewNodes
    <2>5. GoodChain(k) /\ Extends(k, heap, n)
        BY <2>4, MadeGood
    <2>6. /\ n.kind = "errx" /\ n.cause = v /\ n.supp = <<>> /\ ~n.opaque
          /\ n.class = heap[e].class /\ n.retry = heap[e].retry /\ n.code = heap[e].code
        <3>1. Blank \in Node(AllCodes) /\ Blank.kind = "errx" /\ Blank.supp = <<>> /\ ~Blank.opaque
            BY BlankIn
        <3>2. heap[e] \in Node(AllCodes)
            BY <2>2, ChainType
        <3>3. \A q, i \in Node(AllCodes) :
                LET f == [q EXCEPT !.cause = v]
                    g == Inherit(f, i)
                IN  /\ g.kind = q.kind /\ g.cause = v /\ g.supp = q.supp /\ g.opaque = q.opaque
                    /\ g.class = i.class /\ g.retry = i.retry /\ g.code = i.code
            BY <2>1 DEF Node, Inherit
        <3> QED
            BY <3>1, <3>2, <3>3
    <2> HIDE DEF w, e, n, k, x
    <2>7. x \in DOMAIN k /\ k[x] = n /\ k[e] = heap[e]
        BY <2>2, <2>3, <2>5 DEF Extends
    <2>8. k \in Heaps(AllCodes) /\ x \in Int /\ x # Nil /\ x # TypedNil /\ x > 0 /\ Len(k) = Len(heap) + 1
        BY <2>5, <2>7, ChainType DEF Extends
    <2>9. Get(k, x) = x
        <3>1. As(k, x) = x
            BY <2>6, <2>7, <2>8, AsErrx DEF IsErrx
        <3> QED
            BY <2>8, <3>1 DEF Get
    <2>10. ClassOf(k, x) = ClassOf(heap, v)
        BY <2>6, <2>7, <2>8, <2>9 DEF ClassOf, e
    <2>11. IsRetryable(k, x) = IsRetryable(heap, v)
        BY <2>6, <2>7, <2>8, <2>9 DEF IsRetryable, e
    <2>12. ASSUME heap[e].code = Code(heap, v) PROVE Code(k, x) = Code(heap, v)
        <3>1. Code(k, x) = CodeBelow(k, CodeWalk(k)[Len(k)], x)
            BY <2>1, <2>8, CodeWalkEquation DEF Code
        <3>2. CASE heap[e].code # NoCode
            BY <2>6, <2>7, <2>12, <3>1, <3>2 DEF CodeBelow
        <3>3. CASE heap[e].code = NoCode
            <4>1. Code(k, x) = FirstCode(Below(k, CodeWalk(k)[Len(k)], x))
                BY <2>6, <2>7, <3>1, <3>3 DEF CodeBelow
            <4>2. Children(k, x) = {v}
                <5>1. ToSet(n.supp) = {}
                    BY <2>6 DEF ToSet
                <5> QED
                    BY <2>1, <2>6, <2>7, <2>8, <5>1, ChildrenOf
            <4> DEFINE u == Unwrap(k, x)
                       g == CodeWalk(k)[Len(k)]
                       s == Below(k, g, x)
                       C == CodesIn(k)
            <4>3. u \in Seq(Int) /\ \A i \in 1 .. Len(u) : u[i] = v
                <5>1. u \in Seq(Int) /\ ToSet(u) = {v}
                    BY <2>8, <4>2, UnwrapType DEF Children
                <5> HIDE DEF u
                <5>2. \A i \in 1 .. Len(u) : u[i] \in ToSet(u)
                    BY <5>1 DEF ToSet
                <5> QED
                    BY <5>1, <5>2
            <4>4. g[v] = NoCode
                <5>1. Len(k) \in Nat
                    BY <2>1, <2>8
                <5>2. g[v] = CodeWalk(heap)[Len(k)][v]
                    BY <2>5, <5>1, CodeKept
                <5> QED
                    BY <2>8, <2>12, <3>3, <5>2 DEF Code
            <4>5. s \in Seq(C) /\ Len(s) = Len(u) /\ \A i \in 1 .. Len(u) : s[i] = g[u[i]]
                <5>1. g \in [Int -> CodesIn(k)]
                    BY <2>1, <2>8, CodeWalkEquation
                <5> HIDE DEF g, C
                <5> QED
                    BY <2>8, <5>1, BelowType DEF C
            <4> HIDE DEF s, g, u, C
            <4>6. \A i \in 1 .. Len(s) : s[i] = NoCode
                BY <4>3, <4>4, <4>5
            <4>7. FirstCode(s) = NoCode
                BY <4>5, <4>6, FirstCodeIndex
            <4> QED
                BY <2>12, <3>3, <4>1, <4>7 DEF s, g
        <3> QED
            BY <3>2, <3>3
    <2> QED
        BY <2>10, <2>11, <2>12 DEF w, e, k, x
<1> QED
    BY ChainInvariance, <1>1, PTL

-----------------------------------------------------------------------------
(* What AppendSuppressed keeps *)

\* What an error unwraps to first.
LEMMA UnwrapFirst ==
    ASSUME NEW h, GoodChain(h), NEW x \in DOMAIN h
    PROVE  LET u == Unwrap(h, x)
           IN  /\ u \in Seq(Int) /\ \A i \in 1 .. Len(u) : u[i] \in Children(h, x)
               /\ h[x].opaque => Len(u) = 0
               /\ ~h[x].opaque /\ h[x].cause # Nil => Len(u) = 1 + Len(h[x].supp) /\ u[1] = h[x].cause
               /\ ~h[x].opaque /\ h[x].cause = Nil => u = h[x].supp
<1> DEFINE u == Unwrap(h, x)
           c == h[x].cause
           p == h[x].supp
<1>1. h[x] \in Node(AllCodes) /\ h \in Heaps(AllCodes)
    BY ChainType
<1>2. c \in Int /\ p \in Seq(Int) /\ Len(p) \in Nat
    BY <1>1 DEF Node
<1>3. u = IF h[x].opaque THEN <<>> ELSE (IF c = Nil THEN <<>> ELSE <<c>>) \o p
    BY DEF Unwrap, Exposed
<1>4. u \in Seq(Int) /\ Children(h, x) = ToSet(u)
    BY <1>1, UnwrapType DEF Children
<1>5. Len(<<c>> \o p) = 1 + Len(p) /\ (<<c>> \o p)[1] = c /\ <<>> \o p = p
    BY <1>2
<1> HIDE DEF u, c, p
<1>6. \A i \in 1 .. Len(u) : u[i] \in Children(h, x)
    BY <1>4 DEF ToSet
<1>7. h[x].opaque => Len(u) = 0
    BY <1>3
<1>8. /\ ~h[x].opaque /\ c # Nil => Len(u) = 1 + Len(p) /\ u[1] = c
      /\ ~h[x].opaque /\ c = Nil => u = p
    BY <1>3, <1>5
<1> QED
    BY <1>4, <1>6, <1>7, <1>8 DEF u, c, p

LEMMA BelowCodes ==
    ASSUME NEW h, GoodChain(h), NEW x \in DOMAIN h, NEW d \in Nat
    PROVE  LET b == Below(h, CodeWalk(h)[d], x)
               u == Unwrap(h, x)
           IN  /\ b \in Seq(CodesIn(h)) /\ Len(b) = Len(u)
               /\ \A i \in 1 .. Len(u) : b[i] = CodeWalk(h)[d][u[i]]
               /\ CodeWalk(h)[d + 1][x] = IF h[x].code # NoCode THEN h[x].code ELSE FirstCode(b)
<1> DEFINE g == CodeWalk(h)[d]
           C == CodesIn(h)
<1>1. h \in Heaps(AllCodes) /\ x \in Int /\ x # Nil
    BY ChainType
<1>2. g \in [Int -> C] /\ CodeWalk(h)[d + 1][x] = CodeBelow(h, g, x)
    BY <1>1, CodeWalkEquation
<1> HIDE DEF g, C
<1>3. /\ Below(h, g, x) \in Seq(C) /\ Len(Below(h, g, x)) = Len(Unwrap(h, x))
      /\ \A i \in 1 .. Len(Unwrap(h, x)) : Below(h, g, x)[i] = g[Unwrap(h, x)[i]]
    BY <1>1, <1>2, BelowType
<1> QED
    BY <1>2, <1>3 DEF g, C, CodeBelow

\* Where the first that an error unwraps to has a code, and the error itself
\* has none, that is its code.
LEMMA CodeHead ==
    ASSUME NEW h, GoodChain(h), NEW x \in DOMAIN h, NEW d \in Nat, h[x].code = NoCode, Len(Unwrap(h, x)) >= 1
    PROVE  LET c == Unwrap(h, x)[1]
           IN  /\ CodeWalk(h)[d][c] # NoCode => CodeWalk(h)[d + 1][x] = CodeWalk(h)[d][c]
               /\ Len(Unwrap(h, x)) = 1 => CodeWalk(h)[d + 1][x] = CodeWalk(h)[d][c]
<1> DEFINE u == Unwrap(h, x)
           b == Below(h, CodeWalk(h)[d], x)
           C == CodesIn(h)
<1>0. /\ b \in Seq(C) /\ Len(b) = Len(u)
      /\ \A i \in 1 .. Len(u) : b[i] = CodeWalk(h)[d][u[i]]
      /\ CodeWalk(h)[d + 1][x] = IF h[x].code # NoCode THEN h[x].code ELSE FirstCode(b)
    BY BelowCodes
<1>1. /\ b \in Seq(C) /\ Len(b) = Len(u)
      /\ \A i \in 1 .. Len(u) : b[i] = CodeWalk(h)[d][u[i]]
      /\ CodeWalk(h)[d + 1][x] = FirstCode(b)
    BY <1>0
<1>2. u \in Seq(Int) /\ Len(u) >= 1
    BY UnwrapFirst
<1> HIDE DEF u, b, C
<1>3. 1 \in 1 .. Len(b) /\ b[1] = CodeWalk(h)[d][u[1]]
    BY <1>1, <1>2
<1>4. \/ FirstCode(b) = NoCode /\ \A i \in 1 .. Len(b) : b[i] = NoCode
      \/ \E i \in 1 .. Len(b) : /\ FirstCode(b) = b[i] /\ b[i] # NoCode
                                /\ \A j \in 1 .. i - 1 : b[j] = NoCode
    BY <1>1, FirstCodeIndex
<1>5. b[1] # NoCode => FirstCode(b) = b[1]
    <2> SUFFICES ASSUME b[1] # NoCode PROVE FirstCode(b) = b[1]
        OBVIOUS
    <2>1. PICK i \in 1 .. Len(b) : FirstCode(b) = b[i] /\ \A j \in 1 .. i - 1 : b[j] = NoCode
        BY <1>3, <1>4
    <2>2. ~ (1 \in 1 .. i - 1)
        BY <2>1
    <2>3. i = 1
        BY <2>2
    <2> QED
        BY <2>1, <2>3
<1>6. Len(b) = 1 => FirstCode(b) = b[1]
    <2> SUFFICES ASSUME Len(b) = 1 PROVE FirstCode(b) = b[1]
        OBVIOUS
    <2>1. \A i \in 1 .. Len(b) : i = 1
        OBVIOUS
    <2> QED
        BY <1>3, <1>4, <2>1
<1> QED
    BY <1>1, <1>3, <1>5, <1>6 DEF u

\* errdefer.go: the error that AppendSuppressed leaves contains what both
\* errors contain, unless it attaches to a barrier; and the code of a plain
\* chain stays its code.
LEMMA AppendToErrx ==
    ASSUME NEW h, GoodChain(h), NEW p \in DOMAIN h, NEW s \in DOMAIN h, NEW k,
           As(h, p) # Nil, Suppressed(h, k, As(h, p), s)
    PROVE  /\ ~h[As(h, p)].opaque => \A x : Is(h, p, x) \/ Is(h, s, x) => Is(k, p, x)
           /\ \/ Code(h, p) = NoCode
              \/ \E x \in ToSet(Preorder(h, p)) : h[x].kind = "join" \/ h[x].supp # <<>>
              \/ Code(k, p) = Code(h, p)
<1> DEFINE e == As(h, p)
<1>1. /\ h \in Heaps(AllCodes) /\ Ranked(h) /\ Len(h) \in Nat
      /\ \A x \in DOMAIN h : x \in Int /\ x # Nil /\ x \in Refs(h) /\ h[x] \in Node(AllCodes)
      /\ \A x : Children(h, x) \subseteq DOMAIN h
    BY ChainType
<1>2. /\ GoodChain(k) /\ Len(k) = Len(h) /\ DOMAIN k = DOMAIN h
      /\ \A x \in DOMAIN h : x # e => k[x] = h[x]
      /\ k[e] = [h[e] EXCEPT !.supp = Append(@, s)]
      /\ Children(k, e) = IF h[e].opaque THEN {} ELSE Children(h, e) \cup {s}
      /\ \A v \in Int : \A y : Is(h, v, y) => Is(k, v, y)
    BY SuppressedGood
<1>3. e \in DOMAIN h /\ Is(h, p, e)
    BY ChainIs
<1> HIDE DEF e
<1>4. k \in Heaps(AllCodes) /\ Ranked(k) /\ \A x \in DOMAIN h : x \in Refs(k)
    BY <1>2, ChainType
<1>5. ASSUME ~h[e].opaque, NEW x, Is(h, p, x) \/ Is(h, s, x) PROVE Is(k, p, x)
    <2>1. CASE Is(h, p, x)
        BY <1>1, <1>2, <2>1
    <2>2. CASE Is(h, s, x)
        <3>1. Is(k, s, x) /\ Is(k, p, e)
            BY <1>1, <1>2, <1>3, <2>2
        <3>2. Is(k, e, x)
            BY <1>2, <1>3, <1>4, <1>5, <3>1, IsUnfold
        <3> QED
            BY <1>4, <3>1, <3>2, IsTransitive
    <2> QED
        BY <1>5, <2>1, <2>2
<1>6. ASSUME Code(h, p) # NoCode, \A x \in ToSet(Preorder(h, p)) : h[x].kind # "join" /\ h[x].supp = <<>>
      PROVE  Code(k, p) = Code(h, p)
    <2> DEFINE S == {x \in DOMAIN h : Is(h, p, x)}
               P(d) == \A x \in S : CodeWalk(h)[d][x] # NoCode => CodeWalk(k)[d][x] = CodeWalk(h)[d][x]
    <2>1. \A x \in S : h[x].supp = <<>> /\ \A c \in Children(h, x) : c \in S
        <3>1. \A x \in S : h[x].supp = <<>>
            BY <1>6 DEF Is
        <3>2. ASSUME NEW x \in S, NEW c \in Children(h, x) PROVE c \in S
            <4>1. c \in DOMAIN h /\ x \in DOMAIN h
                BY <1>1
            <4>2. Is(h, c, c)
                BY <1>1, <4>1, IsTransitive
            <4>3. Is(h, x, c)
                BY <1>1, <4>1, <4>2, IsUnfold
            <4>4. Is(h, p, c)
                BY <1>1, <4>3, IsTransitive
            <4> QED
                BY <4>1, <4>4
        <3> QED
            BY <3>1, <3>2
    <2>2. \A x \in S : /\ x \in DOMAIN k /\ k[x].code = h[x].code /\ k[x].cause = h[x].cause
                       /\ k[x].opaque = h[x].opaque /\ k[x].supp \in Seq(Int)
        <3> TAKE x \in S
        <3>1. h[x] \in Node(AllCodes) /\ k[x] \in Node(AllCodes) /\ x \in DOMAIN k
            BY <1>1, <1>2, ChainType
        <3>2. CASE x = e
            BY <1>2, <3>1, <3>2 DEF Node
        <3>3. CASE x # e
            BY <1>2, <3>1, <3>3 DEF Node
        <3> QED
            BY <3>2, <3>3
    <2>3. P(0)
        <3>1. \A x \in S : CodeWalk(h)[0][x] = NoCode
            BY <1>1, CodeWalkEquation
        <3> QED
            BY <3>1
    <2>4. ASSUME NEW d \in Nat, P(d) PROVE P(d + 1)
        <3> SUFFICES ASSUME NEW x \in S, CodeWalk(h)[d + 1][x] # NoCode
                     PROVE  CodeWalk(k)[d + 1][x] = CodeWalk(h)[d + 1][x]
            OBVIOUS
        <3>1. x \in DOMAIN h /\ x \in DOMAIN k /\ k[x].code = h[x].code /\ k[x].cause = h[x].cause
              /\ k[x].opaque = h[x].opaque /\ k[x].supp \in Seq(Int) /\ h[x].supp = <<>>
            BY <2>1, <2>2
        <3>2. CASE h[x].code # NoCode
            <4>1. CodeWalk(h)[d + 1][x] = h[x].code
                BY <3>1, <3>2, BelowCodes
            <4>2. CodeWalk(k)[d + 1][x] = k[x].code
                BY <1>2, <3>1, <3>2, BelowCodes
            <4> QED
                BY <3>1, <4>1, <4>2
        <3>3. CASE h[x].code = NoCode
            <4> DEFINE u == Unwrap(h, x)
                       c == u[1]
            <4>1. Len(u) \in Nat /\ \A i \in 1 .. Len(u) : u[i] \in Children(h, x)
                BY <3>1, UnwrapFirst
            <4>2. Len(u) # 0
                <5> SUFFICES ASSUME Len(u) = 0 PROVE FALSE
                    OBVIOUS
                <5> DEFINE b == Below(h, CodeWalk(h)[d], x)
                           C == CodesIn(h)
                <5>1. b \in Seq(C) /\ Len(b) = 0 /\ CodeWalk(h)[d + 1][x] = FirstCode(b)
                    BY <3>1, <3>3, BelowCodes
                <5> HIDE DEF b, C
                <5>2. \A i \in 1 .. Len(b) : FALSE
                    BY <5>1
                <5>3. FirstCode(b) = NoCode
                    BY <5>1, <5>2, FirstCodeIndex
                <5> QED
                    BY <5>1, <5>3
            <4>3. ~h[x].opaque /\ h[x].cause # Nil /\ Len(u) = 1 /\ c = h[x].cause
                <5>1. Len(h[x].supp) = 0
                    BY <3>1
                <5>2. /\ h[x].opaque => Len(u) = 0
                      /\ ~h[x].opaque /\ h[x].cause # Nil => Len(u) = 1 + Len(h[x].supp) /\ c = h[x].cause
                      /\ ~h[x].opaque /\ h[x].cause = Nil => u = h[x].supp
                    BY <3>1, UnwrapFirst
                <5> HIDE DEF u, c
                <5>3. ~h[x].opaque
                    BY <4>2, <5>2
                <5>4. h[x].cause # Nil
                    BY <4>2, <5>1, <5>2, <5>3
                <5> QED
                    BY <5>1, <5>2, <5>3, <5>4
            <4>4. c \in S
                <5>1. 1 \in 1 .. Len(u)
                    BY <4>3
                <5> QED
                    BY <2>1, <4>1, <5>1
            <4>5. CodeWalk(h)[d + 1][x] = CodeWalk(h)[d][c]
                <5>1. Len(Unwrap(h, x)) = 1 /\ Len(Unwrap(h, x)) >= 1
                    BY <4>3
                <5>2. LET z == Unwrap(h, x)[1]
                      IN  Len(Unwrap(h, x)) = 1 => CodeWalk(h)[d + 1][x] = CodeWalk(h)[d][z]
                    BY <3>1, <3>3, <5>1, CodeHead
                <5> QED
                    BY <5>1, <5>2
            <4>6. CodeWalk(k)[d][c] = CodeWalk(h)[d][c] /\ CodeWalk(k)[d][c] # NoCode
                BY <2>4, <4>4, <4>5
            <4> HIDE DEF u, c
            <4>7. Len(Unwrap(k, x)) = 1 + Len(k[x].supp) /\ Unwrap(k, x)[1] = c
                BY <1>2, <3>1, <4>3, UnwrapFirst
            <4>8. Len(Unwrap(k, x)) >= 1
                BY <3>1, <4>7
            <4>9. CodeWalk(k)[d + 1][x] = CodeWalk(k)[d][c]
                BY <1>2, <3>1, <3>3, <4>6, <4>7, <4>8, CodeHead
            <4> QED
                BY <4>5, <4>6, <4>9
        <3> QED
            BY <3>2, <3>3
    <2> HIDE DEF P
    <2> DEFINE T == {d \in Nat : P(d)}
    <2>5. 0 \in T /\ \A d \in Nat : d \in T => d + 1 \in T
        BY <2>3, <2>4
    <2>6. \A d \in Nat : d \in T
        <3> HIDE DEF T
        <3> QED
            BY <2>5, SetInduction
    <2>7. P(Len(h) + 1)
        BY <1>1, <2>6
    <2>8. p \in S
        BY <1>1, IsTransitive
    <2> QED
        BY <1>2, <1>6, <2>7, <2>8 DEF P, Code
<1> QED
    BY <1>5, <1>6 DEF e

\* errdefer.go: the join that AppendSuppressed makes of two errors that have
\* no *Error contains what both contain, and has the code of the first.
LEMMA AppendByJoin ==
    ASSUME NEW h, GoodChain(h), NEW p \in DOMAIN h, NEW s \in DOMAIN h
    PROVE  LET j == Join(h, <<p, s>>)
           IN  /\ \A x : Is(h, p, x) \/ Is(h, s, x) => Is(j.heap, j.val, x)
               /\ Code(h, p) # NoCode => Code(j.heap, j.val) = Code(h, p)
<1> DEFINE n == JoinNode(<<p, s>>)
           k == Append(h, n)
           x == Len(h) + 1
<1>1. p \in Int /\ s \in Int /\ p # Nil /\ s # Nil /\ Len(h) \in Nat
    BY ChainType
<1>2. Join(h, <<p, s>>) = Alloc(h, n)
    BY <1>1, JoinOfTwo
<1>3. Join(h, <<p, s>>).heap = k /\ Join(h, <<p, s>>).val = x
    <2>1. Alloc(h, n) = [heap |-> k, val |-> x]
        BY DEF Alloc
    <2> HIDE DEF n, k, x
    <2> QED
        BY <1>2, <2>1
<1>4. Made(h, k, n)
    BY NewNodes
<1>5. /\ n.cause = Nil /\ n.supp = <<p, s>> /\ ~n.opaque /\ n.code = NoCode
    <2> DEFINE two == <<p, s>>
    <2>1. two \in Seq(Int)
        BY <1>1
    <2> HIDE DEF two
    <2>2. \A b \in Node(AllCodes) :
            LET m == [b EXCEPT !.kind = "join", !.supp = two]
            IN  m.cause = b.cause /\ m.supp = two /\ m.opaque = b.opaque /\ m.code = b.code
        BY <2>1 DEF Node
    <2>3. Blank \in Node(AllCodes) /\ Blank.cause = Nil /\ ~Blank.opaque /\ Blank.code = NoCode
        BY BlankIn
    <2>4. n = [Blank EXCEPT !.kind = "join", !.supp = two]
        BY DEF JoinNode, two
    <2> QED
        BY <2>2, <2>3, <2>4 DEF two
<1> HIDE DEF n, k, x
<1>6. GoodChain(k) /\ Extends(k, h, n)
    BY <1>4, MadeGood
<1>7. /\ x \in DOMAIN k /\ k[x] = n /\ x \in Int /\ Len(k) = x
      /\ k \in Heaps(AllCodes) /\ Ranked(k) /\ x \in Refs(k)
      /\ \A v \in Int : \A y : Is(h, v, y) => Is(k, v, y)
    BY <1>1, <1>6, ChainType DEF Extends, x
<1>8. Len(Unwrap(k, x)) = 2 /\ Unwrap(k, x)[1] = p /\ Unwrap(k, x)[2] = s
    <2>1. Unwrap(k, x) = n.supp
        BY <1>5, <1>6, <1>7, UnwrapFirst
    <2> QED
        BY <1>5, <2>1
<1>9. p \in Children(k, x) /\ s \in Children(k, x)
    <2>1. 1 \in 1 .. Len(Unwrap(k, x)) /\ 2 \in 1 .. Len(Unwrap(k, x))
        BY <1>8
    <2>2. \A i \in 1 .. Len(Unwrap(k, x)) : Unwrap(k, x)[i] \in Children(k, x)
        BY <1>6, <1>7, UnwrapFirst
    <2> QED
        BY <1>8, <2>1, <2>2
<1>10. ASSUME NEW y, Is(h, p, y) \/ Is(h, s, y) PROVE Is(k, x, y)
    <2>1. Is(k, p, y) \/ Is(k, s, y)
        BY <1>1, <1>7, <1>10
    <2> QED
        BY <1>7, <1>9, <2>1, IsUnfold
<1>11. ASSUME Code(h, p) # NoCode PROVE Code(k, x) = Code(h, p)
    <2>1. CodeWalk(k)[x][p] = Code(h, p)
        <3>1. x \in Nat
            BY <1>1 DEF x
        <3>2. CodeWalk(k)[x][p] = CodeWalk(h)[x][p]
            BY <1>6, <3>1, CodeKept
        <3> QED
            BY <3>2 DEF Code, x
    <2>2. CodeWalk(k)[x + 1][x] = CodeWalk(k)[x][p]
        <3>1. x \in Nat /\ k[x].code = NoCode /\ Len(Unwrap(k, x)) >= 1
            BY <1>1, <1>5, <1>7, <1>8 DEF x
        <3>2. LET c == Unwrap(k, x)[1]
              IN  CodeWalk(k)[x][c] # NoCode => CodeWalk(k)[x + 1][x] = CodeWalk(k)[x][c]
            BY <1>6, <1>7, <3>1, CodeHead
        <3> QED
            BY <1>8, <1>11, <2>1, <3>2
    <2> QED
        BY <1>7, <2>1, <2>2 DEF Code
<1> QED
    BY <1>3, <1>10, <1>11

\* errdefer.go: AppendSuppressed loses neither error, unless it attaches to a
\* barrier, and a plain chain that has a code keeps it.
THEOREM AppendKeeps == Spec => []AppendKeepsBoth
<1>1. ChainInv => AppendKeepsBoth
    <2> SUFFICES ASSUME GoodChain(heap), NEW p \in DOMAIN heap, NEW s \in DOMAIN heap, CanAppend(p, s)
                 PROVE  LET r == AppendSuppressed(heap, p, s)
                            e == As(heap, p)
                        IN  /\ e = Nil \/ ~heap[e].opaque =>
                                \A x \in Values : Is(heap, p, x) \/ Is(heap, s, x) => Is(r.heap, r.val, x)
                            /\ Code(heap, p) # NoCode =>
                                \/ \E x \in ToSet(Preorder(heap, p)) : heap[x].kind = "join" \/ heap[x].supp # <<>>
                                \/ Code(r.heap, r.val) = Code(heap, p)
        BY DEF ChainInv, AppendKeepsBoth, Values
    <2> DEFINE e == As(heap, p)
               k == Suppress(heap, e, s)
    <2>1. p # Nil /\ s # Nil
        BY ChainType
    <2>2. CASE e # Nil
        <3>1. e \in DOMAIN heap
            BY <2>2, ChainIs
        <3>2. Suppressed(heap, k, e, s)
            BY <2>2, <3>1 DEF Suppressed, CanAppend, CanSuppress
        <3>3. AppendSuppressed(heap, p, s) = InPlace(k, p)
            BY <2>1, <2>2 DEF AppendSuppressed
        <3>4. AppendSuppressed(heap, p, s).heap = k /\ AppendSuppressed(heap, p, s).val = p
            BY <3>3 DEF InPlace
        <3>5. /\ ~heap[e].opaque => \A x : Is(heap, p, x) \/ Is(heap, s, x) => Is(k, p, x)
              /\ \/ Code(heap, p) = NoCode
                 \/ \E x \in ToSet(Preorder(heap, p)) : heap[x].kind = "join" \/ heap[x].supp # <<>>
                 \/ Code(k, p) = Code(heap, p)
            BY <2>2, <3>2, AppendToErrx
        <3> HIDE DEF k, e
        <3> QED
            BY <2>2, <3>4, <3>5 DEF e
    <2>3. CASE e = Nil
        <3>1. AppendSuppressed(heap, p, s) = Join(heap, <<p, s>>)
            BY <2>1, <2>3 DEF AppendSuppressed
        <3> QED
            BY <3>1, AppendByJoin
    <2> QED
        BY <2>2, <2>3
<1> QED
    BY ChainInvariance, <1>1, PTL

-----------------------------------------------------------------------------
(* The walks of the library and those of the standard library *)

\* The errors that have a code, and those that have this one.
CodedIn(h) == {x \in DOMAIN h : h[x].code # NoCode}

LEMMA FirstCodeAt ==
    ASSUME NEW S, NEW s \in Seq(S), NEW i \in 1 .. Len(s), s[i] # NoCode, \A j \in 1 .. i - 1 : s[j] = NoCode
    PROVE  FirstCode(s) = s[i]
<1>1. PICK m \in 1 .. Len(s) : FirstCode(s) = s[m] /\ s[m] # NoCode /\ \A j \in 1 .. m - 1 : s[j] = NoCode
    BY FirstCodeIndex
<1>2. m \notin 1 .. i - 1 /\ i \notin 1 .. m - 1
    BY <1>1
<1>3. m = i
    BY <1>2
<1> QED
    BY <1>1, <1>3

LEMMA VisitsBelow ==
    ASSUME NEW h, GoodChain(h), NEW x \in DOMAIN h, NEW d \in Nat
    PROVE  /\ Below(h, Visits(h)[d], x) \in Seq(Seq(Int))
           /\ Len(Below(h, Visits(h)[d], x)) = Len(Unwrap(h, x))
           /\ \A i \in 1 .. Len(Unwrap(h, x)) : Below(h, Visits(h)[d], x)[i] = Visits(h)[d][Unwrap(h, x)[i]]
           /\ Visits(h)[d + 1][x] = <<x>> \o FlattenSeq(Below(h, Visits(h)[d], x))
<1> DEFINE g == Visits(h)[d]
           W == Seq(Int)
<1>1. h \in Heaps(AllCodes) /\ x \in Int
    BY ChainType
<1>2. g \in [Int -> W]
    BY <1>1, VisitsEquation
<1>4. Visits(h)[d + 1][x] = <<x>> \o FlattenSeq(Below(h, g, x))
    BY <1>1, VisitsEquation
<1> HIDE DEF g, W
<1>3. /\ Below(h, g, x) \in Seq(W) /\ Len(Below(h, g, x)) = Len(Unwrap(h, x))
      /\ \A i \in 1 .. Len(Unwrap(h, x)) : Below(h, g, x)[i] = g[Unwrap(h, x)[i]]
    BY <1>1, <1>2, BelowType
<1> QED
    BY <1>2, <1>3, <1>4 DEF g, W

\* inspect.go, Code: at every depth, what its own walk finds is the code of the
\* first that the walk of errors.Is visits and that has one.
CodeOfFirst(h, s) == IF FirstIn(s, CodedIn(h)) = Nil THEN NoCode ELSE h[FirstIn(s, CodedIn(h))].code

LEMMA CodeIsFirst ==
    ASSUME NEW h, GoodChain(h)
    PROVE  \A d \in Nat : \A x \in DOMAIN h : CodeWalk(h)[d][x] = CodeOfFirst(h, Visits(h)[d][x])
<1> DEFINE T == CodedIn(h)
           P(d) == \A x \in DOMAIN h : CodeWalk(h)[d][x] = CodeOfFirst(h, Visits(h)[d][x])
<1>1. /\ h \in Heaps(AllCodes)
      /\ \A x \in DOMAIN h : x \in Int /\ x # Nil
      /\ \A x : Children(h, x) \subseteq DOMAIN h
    BY ChainType
<1>2. Nil \notin T /\ \A y \in T : h[y].code # NoCode
    BY <1>1 DEF CodedIn
<1>3. P(0)
    <2> SUFFICES ASSUME NEW x \in DOMAIN h PROVE CodeWalk(h)[0][x] = CodeOfFirst(h, Visits(h)[0][x])
        OBVIOUS
    <2> DEFINE s == Visits(h)[0][x]
    <2>1. s \in Seq(Int) /\ Len(s) = 0 /\ CodeWalk(h)[0][x] = NoCode
        BY <1>1, VisitsEquation, CodeWalkEquation
    <2> HIDE DEF s
    <2>2. \A i \in 1 .. Len(s) : FALSE
        BY <2>1
    <2>3. FirstIn(s, CodedIn(h)) = Nil
        BY <2>1, <2>2, FirstInIndex
    <2> QED
        BY <2>1, <2>3 DEF CodeOfFirst, s
<1>4. ASSUME NEW d \in Nat, P(d) PROVE P(d + 1)
    <2> SUFFICES ASSUME NEW x \in DOMAIN h PROVE CodeWalk(h)[d + 1][x] = CodeOfFirst(h, Visits(h)[d + 1][x])
        OBVIOUS
    <2>0. /\ Below(h, Visits(h)[d], x) \in Seq(Seq(Int))
          /\ Len(Below(h, Visits(h)[d], x)) = Len(Unwrap(h, x))
          /\ \A i \in 1 .. Len(Unwrap(h, x)) : Below(h, Visits(h)[d], x)[i] = Visits(h)[d][Unwrap(h, x)[i]]
          /\ Visits(h)[d + 1][x] = <<x>> \o FlattenSeq(Below(h, Visits(h)[d], x))
        BY VisitsBelow
    <2> DEFINE u == Unwrap(h, x)
               v == Below(h, Visits(h)[d], x)
               b == Below(h, CodeWalk(h)[d], x)
               S == CodesIn(h)
               all == FlattenSeq(v)
    <2>1. /\ v \in Seq(Seq(Int)) /\ Len(v) = Len(u)
          /\ \A i \in 1 .. Len(u) : v[i] = Visits(h)[d][u[i]]
          /\ Visits(h)[d + 1][x] = <<x>> \o all
        BY <2>0 DEF all, v, u
    <2>2. /\ b \in Seq(S) /\ Len(b) = Len(u)
          /\ \A i \in 1 .. Len(u) : b[i] = CodeWalk(h)[d][u[i]]
          /\ CodeWalk(h)[d + 1][x] = IF h[x].code # NoCode THEN h[x].code ELSE FirstCode(b)
        BY BelowCodes
    <2>3. \A i \in 1 .. Len(u) : u[i] \in DOMAIN h
        BY <1>1, UnwrapFirst
    <2>4. Len(u) \in Nat
        BY UnwrapFirst
    <2>5. all \in Seq(Int)
        BY <2>1, FlattenType
    <2>6. x \in Int /\ (x \in T <=> h[x].code # NoCode) /\ x # Nil
        BY <1>1 DEF CodedIn
    <2> HIDE DEF u, v, b, S, all, T
    <2>7. \A i \in 1 .. Len(u) : b[i] = CodeOfFirst(h, v[i])
        BY <1>4, <2>1, <2>2, <2>3
    <2>8. FirstIn(<<x>> \o all, T) = IF x \in T THEN x ELSE FirstIn(all, T)
        BY <2>5, <2>6, FirstInHead
    <2>9. CASE x \in T
        BY <2>1, <2>2, <2>6, <2>8, <2>9 DEF CodeOfFirst, T
    <2>10. CASE x \notin T
        <3>1. CodeWalk(h)[d + 1][x] = FirstCode(b) /\ FirstIn(Visits(h)[d + 1][x], T) = FirstIn(all, T)
            BY <2>1, <2>2, <2>6, <2>8, <2>10
        <3>2. \/ FirstIn(all, T) = Nil /\ \A i \in 1 .. Len(v) : FirstIn(v[i], T) = Nil
              \/ \E i \in 1 .. Len(v) : /\ FirstIn(all, T) = FirstIn(v[i], T) /\ FirstIn(v[i], T) # Nil
                                        /\ \A j \in 1 .. i - 1 : FirstIn(v[j], T) = Nil
            BY <1>2, <2>1, FirstInFlatten DEF all
        <3>3. CASE FirstIn(all, T) = Nil /\ \A i \in 1 .. Len(v) : FirstIn(v[i], T) = Nil
            <4>1. \A i \in 1 .. Len(b) : b[i] = NoCode
                BY <2>1, <2>2, <2>7, <3>3 DEF CodeOfFirst, T
            <4>2. FirstCode(b) = NoCode
                BY <2>2, <4>1, FirstCodeIndex
            <4> QED
                BY <3>1, <3>3, <4>2 DEF CodeOfFirst, T
        <3>4. CASE \E i \in 1 .. Len(v) : /\ FirstIn(all, T) = FirstIn(v[i], T) /\ FirstIn(v[i], T) # Nil
                                          /\ \A j \in 1 .. i - 1 : FirstIn(v[j], T) = Nil
            <4>1. PICK i \in 1 .. Len(v) : /\ FirstIn(all, T) = FirstIn(v[i], T) /\ FirstIn(v[i], T) # Nil
                                           /\ \A j \in 1 .. i - 1 : FirstIn(v[j], T) = Nil
                BY <3>4
            <4>2. i \in 1 .. Len(b) /\ i \in 1 .. Len(u) /\ v[i] \in Seq(Int)
                  /\ \A j \in 1 .. i - 1 : j \in 1 .. Len(u)
                BY <2>1, <2>2, <2>4
            <4>3. b[i] = h[FirstIn(v[i], T)].code
                BY <2>7, <4>1, <4>2 DEF CodeOfFirst, T
            <4>4. FirstIn(v[i], T) \in T
                BY <4>1, <4>2, FirstInType
            <4>5. b[i] # NoCode
                BY <1>2, <4>3, <4>4
            <4>6. \A j \in 1 .. i - 1 : b[j] = NoCode
                BY <2>7, <4>1, <4>2 DEF CodeOfFirst, T
            <4>7. FirstCode(b) = b[i]
                BY <2>2, <4>2, <4>5, <4>6, FirstCodeAt
            <4> QED
                BY <3>1, <4>1, <4>3, <4>7 DEF CodeOfFirst, T
        <3> QED
            BY <3>2, <3>3, <3>4
    <2> QED
        BY <2>9, <2>10
<1> HIDE DEF P
<1> DEFINE N == {d \in Nat : P(d)}
<1>5. 0 \in N /\ \A d \in Nat : d \in N => d + 1 \in N
    BY <1>3, <1>4
<1>6. \A d \in Nat : d \in N
    <2> HIDE DEF N
    <2> QED
        BY <1>5, SetInduction
<1> QED
    BY <1>6 DEF P

\* inspect.go, HasCode: at every depth, it finds a code where the walk of
\* errors.Is visits an error that has it.
LEMMA HasCodeIsSeen ==
    ASSUME NEW h, GoodChain(h), NEW c
    PROVE  \A d \in Nat : \A x \in DOMAIN h : HasCodeWalk(h, c)[d][x] <=> \E y \in Seen(h, d, x) : h[y].code = c
<1> DEFINE P(d) == \A x \in DOMAIN h : HasCodeWalk(h, c)[d][x] <=> \E y \in Seen(h, d, x) : h[y].code = c
<1>1. /\ h \in Heaps(AllCodes)
      /\ \A x \in DOMAIN h : x \in Int /\ x # Nil
      /\ \A x : Children(h, x) \subseteq DOMAIN h
    BY ChainType
<1>2. P(0)
    BY <1>1, SeenDef, HasCodeWalkEquation
<1>3. ASSUME NEW d \in Nat, P(d) PROVE P(d + 1)
    <2> SUFFICES ASSUME NEW x \in DOMAIN h
                 PROVE  HasCodeWalk(h, c)[d + 1][x] <=> \E y \in Seen(h, d + 1, x) : h[y].code = c
        OBVIOUS
    <2>1. HasCodeWalk(h, c)[d + 1][x] <=> h[x].code = c \/ \E y \in Children(h, x) : HasCodeWalk(h, c)[d][y]
        BY <1>1, HasCodeWalkEquation
    <2>2. \A y : y \in Seen(h, d + 1, x) <=> y = x \/ \E z \in Children(h, x) : y \in Seen(h, d, z)
        BY <1>1, SeenDef
    <2>3. \A z \in Children(h, x) : HasCodeWalk(h, c)[d][z] <=> \E y \in Seen(h, d, z) : h[y].code = c
        BY <1>1, <1>3
    <2> QED
        BY <2>1, <2>2, <2>3
<1> HIDE DEF P
<1> DEFINE N == {d \in Nat : P(d)}
<1>4. 0 \in N /\ \A d \in Nat : d \in N => d + 1 \in N
    BY <1>2, <1>3
<1>5. \A d \in Nat : d \in N
    <2> HIDE DEF N
    <2> QED
        BY <1>4, SetInduction
<1> QED
    BY <1>5 DEF P

\* The walk of FindByCode, below an error that a function gives the finds of.
FindBelow(h, c, g, x) == IF IsErrx(h, x) /\ h[x].code = c THEN x ELSE FirstHit(Below(h, g, x))

LEMMA FirstHitIndex ==
    ASSUME NEW s \in Seq(Int)
    PROVE  \/ FirstHit(s) = Nil /\ \A i \in 1 .. Len(s) : s[i] = Nil
           \/ \E i \in 1 .. Len(s) : /\ FirstHit(s) = s[i] /\ s[i] # Nil
                                     /\ \A j \in 1 .. i - 1 : s[j] = Nil
<1> DEFINE T == Int \ {Nil}
<1>1. \A i \in 1 .. Len(s) : s[i] \in T <=> s[i] # Nil
    OBVIOUS
<1>2. FirstHit(s) = FirstIn(s, T)
    <2>1. {i \in 1 .. Len(s) : s[i] # Nil} = {i \in 1 .. Len(s) : s[i] \in T}
        BY <1>1
    <2>2. SelectInSeq(s, LAMBDA x : x # Nil) = SelectInSeq(s, LAMBDA x : x \in T)
        BY <2>1 DEF SelectInSeq
    <2> QED
        BY <2>2 DEF FirstHit, FirstIn, FirstThat
<1> HIDE DEF T
<1>3. \/ FirstIn(s, T) = Nil /\ \A i \in 1 .. Len(s) : s[i] \notin T
      \/ \E i \in 1 .. Len(s) : /\ FirstIn(s, T) = s[i] /\ s[i] \in T
                                /\ \A j \in 1 .. i - 1 : s[j] \notin T
    BY FirstInIndex
<1>4. CASE FirstIn(s, T) = Nil /\ \A i \in 1 .. Len(s) : s[i] \notin T
    BY <1>1, <1>2, <1>4
<1>5. CASE \E i \in 1 .. Len(s) : /\ FirstIn(s, T) = s[i] /\ s[i] \in T
                                  /\ \A j \in 1 .. i - 1 : s[j] \notin T
    <2>1. PICK i \in 1 .. Len(s) : /\ FirstIn(s, T) = s[i] /\ s[i] \in T
                                  /\ \A j \in 1 .. i - 1 : s[j] \notin T
        BY <1>5
    <2>2. \A j \in 1 .. i - 1 : j \in 1 .. Len(s)
        BY <2>1
    <2> QED
        BY <1>1, <1>2, <2>1, <2>2
<1> QED
    BY <1>3, <1>4, <1>5

LEMMA FindWalkEquation ==
    ASSUME NEW C, NEW h \in Heaps(C), NEW c
    PROVE  /\ \A d \in Nat : FindByCodeWalk(h, c)[d] \in [Int -> Int]
           /\ \A x \in Int : FindByCodeWalk(h, c)[0][x] = Nil
           /\ \A d \in Nat : \A x \in Int :
                FindByCodeWalk(h, c)[d + 1][x] = IF x = Nil THEN Nil ELSE FindBelow(h, c, FindByCodeWalk(h, c)[d], x)
<1> DEFINE V == [Int -> Int]
           value(g, x) == IF x = Nil THEN Nil ELSE FindBelow(h, c, g, x)
           a == [x \in Int |-> Nil]
           next == [g \in V |-> [x \in Int |-> value(g, x)]]
           Solves(f) == f = [d \in Nat |-> [x \in Int |->
                                IF d = 0 \/ x = Nil THEN Nil ELSE FindBelow(h, c, f[d - 1], x)]]
<1>1. ASSUME NEW g \in V, NEW x \in Int PROVE value(g, x) \in Int
    <2>1. Below(h, g, x) \in Seq(Int)
        BY BelowType
    <2> DEFINE b == Below(h, g, x)
    <2> HIDE DEF b
    <2>2. b \in Seq(Int) /\ (FirstHit(b) = Nil \/ \E i \in 1 .. Len(b) : FirstHit(b) = b[i])
        BY <2>1, FirstHitIndex DEF b
    <2>3. FirstHit(b) \in Int
        BY <2>2 DEF Nil
    <2> QED
        BY <2>3 DEF FindBelow, Nil, b
<1>2. a \in V
    BY DEF Nil
<1>3. next \in Maps(V)
    <2> HIDE DEF value
    <2> QED
        BY <1>1 DEF Maps
<1>4. \A g \in V : next[g] = [x \in Int |-> value(g, x)]
    OBVIOUS
<1>5. FindByCodeWalk(h, c) = CHOOSE f : Solves(f)
    BY DEF FindByCodeWalk, FindBelow, Below
<1>6. a = [x \in Int |-> Nil]
    OBVIOUS
<1> HIDE DEF next, V, a
<1>7. PICK f : f \in [Nat -> V] /\ f[0] = a /\ \A n \in Nat : f[n + 1] = next[f[n]]
    BY <1>2, <1>3, Recursion DEF Recurs
<1>8. \A d \in Nat : f[d + 1] = [x \in Int |-> value(f[d], x)]
    BY <1>4, <1>7
<1>9. ASSUME NEW d \in Nat
      PROVE  f[d] = [x \in Int |-> IF d = 0 \/ x = Nil THEN Nil ELSE FindBelow(h, c, f[d - 1], x)]
    <2>1. CASE d = 0
        BY <1>6, <1>7, <2>1
    <2>2. CASE d # 0
        <3>1. d - 1 \in Nat /\ (d - 1) + 1 = d
            BY <2>2
        <3> QED
            BY <1>8, <2>2, <3>1
    <2> QED
        BY <2>1, <2>2
<1>10. Solves(f)
    <2>1. f = [d \in Nat |-> f[d]]
        BY <1>7
    <2> QED
        BY <1>9, <2>1
<1> HIDE DEF Solves
<1>11. Solves(FindByCodeWalk(h, c))
    BY <1>5, <1>10
<1> DEFINE v == FindByCodeWalk(h, c)
<1> HIDE DEF v
<1>12. v = [d \in Nat |-> [x \in Int |-> IF d = 0 \/ x = Nil THEN Nil ELSE FindBelow(h, c, v[d - 1], x)]]
    BY <1>11 DEF Solves, v
<1>13. v[0] = a /\ \A x \in Int : v[0][x] = Nil
    BY <1>6, <1>12
<1>14. ASSUME NEW d \in Nat PROVE v[d + 1] = [x \in Int |-> value(v[d], x)]
    <2>1. (d + 1) - 1 = d /\ d + 1 # 0 /\ d + 1 \in Nat
        OBVIOUS
    <2> QED
        BY <1>12, <2>1
<1>15. \A d \in Nat : v[d] \in V
    <2> DEFINE T == {d \in Nat : v[d] \in V}
    <2>1. 0 \in T
        BY <1>2, <1>13
    <2>2. ASSUME NEW d \in Nat, v[d] \in V PROVE v[d + 1] \in V
        <3> DEFINE g == v[d]
        <3> HIDE DEF g, value
        <3>1. v[d + 1] = [x \in Int |-> value(g, x)]
            BY <1>14 DEF g
        <3>2. \A x \in Int : value(g, x) \in Int
            BY <1>1, <2>2 DEF g
        <3> QED
            BY <3>1, <3>2 DEF V
    <2>3. \A d \in Nat : d \in T => d + 1 \in T
        BY <2>2
    <2>4. \A d \in Nat : d \in T
        <3> HIDE DEF T
        <3> QED
            BY <2>1, <2>3, SetInduction
    <2> QED
        BY <2>4
<1> QED
    BY <1>13, <1>14, <1>15 DEF v, V

\* inspect.go, FindByCode: at every depth, what its own walk finds is the first
\* *Error with that code that the walk of errors.Is visits.
ErrxWith(h, c) == {x \in DOMAIN h : h[x].kind = "errx" /\ h[x].code = c}

\* What FindByCode finds at x is made of what it finds at the children of x.
FindsBelow(h, c, d, x) ==
    /\ Below(h, FindByCodeWalk(h, c)[d], x) \in Seq(Int)
    /\ Len(Below(h, FindByCodeWalk(h, c)[d], x)) = Len(Unwrap(h, x))
    /\ \A i \in 1 .. Len(Unwrap(h, x)) :
         Below(h, FindByCodeWalk(h, c)[d], x)[i] = FindByCodeWalk(h, c)[d][Unwrap(h, x)[i]]
    /\ FindByCodeWalk(h, c)[d + 1][x] = FindBelow(h, c, FindByCodeWalk(h, c)[d], x)

LEMMA FindBelows ==
    ASSUME NEW h, GoodChain(h), NEW c, NEW x \in DOMAIN h, NEW d \in Nat
    PROVE  FindsBelow(h, c, d, x)
<1> DEFINE g == FindByCodeWalk(h, c)[d]
           u == Unwrap(h, x)
           b == [i \in 1 .. Len(u) |-> g[u[i]]]
<1>1. h \in Heaps(AllCodes) /\ x \in Int /\ x # Nil
    BY ChainType
<1>2. g \in [Int -> Int] /\ FindByCodeWalk(h, c)[d + 1][x] = FindBelow(h, c, g, x)
    BY <1>1, FindWalkEquation
<1>3. u \in Seq(Int) /\ b = Below(h, g, x)
    BY UnwrapFirst DEF Below
<1> HIDE DEF g, u
<1>4. b \in Seq(Int) /\ Len(b) = Len(u) /\ \A i \in 1 .. Len(u) : b[i] = g[u[i]]
    <2>1. Len(u) \in Nat /\ \A i \in 1 .. Len(u) : g[u[i]] \in Int
        <3>1. Len(u) \in Nat /\ \A i \in 1 .. Len(u) : u[i] \in Int
            BY <1>3
        <3>2. \A y \in Int : g[y] \in Int
            BY <1>2
        <3> QED
            BY <3>1, <3>2
    <2> DEFINE n == Len(u)
               f(i) == g[u[i]]
    <2> HIDE DEF n, f
    <2>2. n \in Nat /\ \A i \in 1 .. n : f(i) \in Int
        BY <2>1 DEF n, f
    <2> DEFINE t == [i \in 1 .. n |-> f(i)]
    <2>3. t \in Seq(Int) /\ Len(t) = n /\ \A i \in 1 .. n : t[i] = f(i)
        BY <2>2
    <2> QED
        BY <2>3 DEF n, f
<1> HIDE DEF b
<1> QED
    BY <1>2, <1>3, <1>4 DEF g, u, FindsBelow

LEMMA FindIsFirst ==
    ASSUME NEW h, GoodChain(h), NEW c
    PROVE  \A d \in Nat : \A x \in DOMAIN h :
                FindByCodeWalk(h, c)[d][x] = FirstIn(Visits(h)[d][x], ErrxWith(h, c))
<1> DEFINE T == ErrxWith(h, c)
           P(d) == \A x \in DOMAIN h : FindByCodeWalk(h, c)[d][x] = FirstIn(Visits(h)[d][x], ErrxWith(h, c))
<1>1. /\ h \in Heaps(AllCodes)
      /\ \A x \in DOMAIN h : x \in Int /\ x # Nil
      /\ \A x : Children(h, x) \subseteq DOMAIN h
    BY ChainType
<1>2. Nil \notin T
    BY <1>1 DEF ErrxWith
<1>3. P(0)
    <2> SUFFICES ASSUME NEW x \in DOMAIN h PROVE FindByCodeWalk(h, c)[0][x] = FirstIn(Visits(h)[0][x], ErrxWith(h, c))
        OBVIOUS
    <2> DEFINE s == Visits(h)[0][x]
    <2>1. s \in Seq(Int) /\ Len(s) = 0 /\ FindByCodeWalk(h, c)[0][x] = Nil
        BY <1>1, VisitsEquation, FindWalkEquation
    <2> HIDE DEF s
    <2>2. \A i \in 1 .. Len(s) : FALSE
        BY <2>1
    <2>3. FirstIn(s, ErrxWith(h, c)) = Nil
        BY <2>1, <2>2, FirstInIndex
    <2> QED
        BY <2>1, <2>3 DEF s
<1>4. ASSUME NEW d \in Nat, P(d) PROVE P(d + 1)
    <2> SUFFICES ASSUME NEW x \in DOMAIN h
                 PROVE  FindByCodeWalk(h, c)[d + 1][x] = FirstIn(Visits(h)[d + 1][x], ErrxWith(h, c))
        OBVIOUS
    <2>0. /\ Below(h, Visits(h)[d], x) \in Seq(Seq(Int))
          /\ Len(Below(h, Visits(h)[d], x)) = Len(Unwrap(h, x))
          /\ \A i \in 1 .. Len(Unwrap(h, x)) : Below(h, Visits(h)[d], x)[i] = Visits(h)[d][Unwrap(h, x)[i]]
          /\ Visits(h)[d + 1][x] = <<x>> \o FlattenSeq(Below(h, Visits(h)[d], x))
        BY VisitsBelow
    <2>a. FindsBelow(h, c, d, x)
        BY FindBelows
    <2> DEFINE u == Unwrap(h, x)
               v == Below(h, Visits(h)[d], x)
               g == FindByCodeWalk(h, c)[d]
               b == Below(h, g, x)
               all == FlattenSeq(v)
    <2>1. /\ v \in Seq(Seq(Int)) /\ Len(v) = Len(u)
          /\ \A i \in 1 .. Len(u) : v[i] = Visits(h)[d][u[i]]
          /\ Visits(h)[d + 1][x] = <<x>> \o all
        BY <2>0 DEF all, v, u
    <2>2. x \in Int /\ x # Nil /\ (x \in T <=> IsErrx(h, x) /\ h[x].code = c)
        BY <1>1, CauseType DEF ErrxWith
    <2>5. /\ b \in Seq(Int) /\ Len(b) = Len(u) /\ \A i \in 1 .. Len(u) : b[i] = g[u[i]]
          /\ FindByCodeWalk(h, c)[d + 1][x] = FindBelow(h, c, g, x)
        BY <2>a DEF b, g, u, FindsBelow
    <2> HIDE DEF g, T
    <2>6. FindByCodeWalk(h, c)[d + 1][x] = IF x \in T THEN x ELSE FirstHit(b)
        BY <2>2, <2>5 DEF FindBelow, b
    <2>7. \A i \in 1 .. Len(u) : u[i] \in DOMAIN h
        BY <1>1, UnwrapFirst
    <2>8. Len(u) \in Nat
        BY UnwrapFirst
    <2>9. all \in Seq(Int)
        BY <2>1, FlattenType
    <2> HIDE DEF u, v, b, all
    <2>10. \A i \in 1 .. Len(u) : b[i] = FirstIn(v[i], T)
        BY <1>4, <2>1, <2>5, <2>7 DEF g, T
    <2>11. FirstIn(<<x>> \o all, T) = IF x \in T THEN x ELSE FirstIn(all, T)
        BY <2>2, <2>9, FirstInHead
    <2>12. CASE x \in T
        BY <2>1, <2>6, <2>11, <2>12 DEF T
    <2>13. CASE x \notin T
        <3>1. FindByCodeWalk(h, c)[d + 1][x] = FirstHit(b) /\ FirstIn(Visits(h)[d + 1][x], T) = FirstIn(all, T)
            BY <2>1, <2>6, <2>11, <2>13
        <3>2. \/ FirstIn(all, T) = Nil /\ \A i \in 1 .. Len(v) : FirstIn(v[i], T) = Nil
              \/ \E i \in 1 .. Len(v) : /\ FirstIn(all, T) = FirstIn(v[i], T) /\ FirstIn(v[i], T) # Nil
                                        /\ \A j \in 1 .. i - 1 : FirstIn(v[j], T) = Nil
            BY <1>2, <2>1, FirstInFlatten DEF all
        <3>3. \/ FirstHit(b) = Nil /\ \A i \in 1 .. Len(b) : b[i] = Nil
              \/ \E i \in 1 .. Len(b) : /\ FirstHit(b) = b[i] /\ b[i] # Nil
                                        /\ \A j \in 1 .. i - 1 : b[j] = Nil
            BY <2>5, FirstHitIndex
        <3>4. Len(b) = Len(u) /\ Len(v) = Len(u) /\ \A i \in 1 .. Len(u) : b[i] = FirstIn(v[i], T)
            BY <2>1, <2>5, <2>10
        <3>5. CASE \A i \in 1 .. Len(u) : b[i] = Nil
            <4>1. FirstHit(b) = Nil
                BY <3>3, <3>4, <3>5
            <4>2. FirstIn(all, T) = Nil
                BY <3>2, <3>4, <3>5
            <4> QED
                BY <3>1, <4>1, <4>2 DEF T
        <3>6. CASE \E i \in 1 .. Len(u) : b[i] # Nil
            <4>1. PICK i \in 1 .. Len(u) : FirstHit(b) = b[i] /\ b[i] # Nil /\ \A j \in 1 .. i - 1 : b[j] = Nil
                BY <3>3, <3>4, <3>6
            <4>2. PICK m \in 1 .. Len(u) : /\ FirstIn(all, T) = FirstIn(v[m], T) /\ FirstIn(v[m], T) # Nil
                                           /\ \A j \in 1 .. m - 1 : FirstIn(v[j], T) = Nil
                BY <3>2, <3>4, <3>6
            <4>3. b[m] = FirstIn(v[m], T) /\ b[m] # Nil /\ b[i] = FirstIn(v[i], T)
                BY <3>4, <4>1, <4>2
            <4>4. m \notin 1 .. i - 1 /\ i \notin 1 .. m - 1
                BY <4>1, <4>2, <4>3
            <4>5. m = i
                BY <2>8, <4>4
            <4> QED
                BY <3>1, <4>1, <4>2, <4>3, <4>5 DEF T
        <3> QED
            BY <3>5, <3>6
    <2> QED
        BY <2>12, <2>13
<1> HIDE DEF P
<1> DEFINE N == {d \in Nat : P(d)}
<1>5. 0 \in N /\ \A d \in Nat : d \in N => d + 1 \in N
    BY <1>3, <1>4
<1>6. \A d \in Nat : d \in N
    <2> HIDE DEF N
    <2> QED
        BY <1>5, SetInduction
<1> QED
    BY <1>6 DEF P

\* inspect.go: Code, HasCode and FindByCode never disagree with the order in
\* which the standard library looks at a graph.
THEOREM InspectorsDoAgree == Spec => []InspectorsAgree
<1>1. ChainInv => InspectorsAgree
    <2> SUFFICES ASSUME GoodChain(heap), NEW v \in DOMAIN heap
                 PROVE  LET coded == FirstThat(Preorder(heap, v), LAMBDA x : heap[x].code # NoCode, Nil)
                        IN  /\ Code(heap, v) = IF coded = Nil THEN NoCode ELSE heap[coded].code
                            /\ \A c \in Codes :
                                /\ HasCode(heap, v, c) <=> \E x \in ToSet(Preorder(heap, v)) : heap[x].code = c
                                /\ FindByCode(heap, v, c) = FirstErrorWith(v, c)
        BY DEF ChainInv, InspectorsAgree, Values
    <2> DEFINE s == Preorder(heap, v)
               d == Len(heap) + 1
    <2>1. heap \in Heaps(AllCodes) /\ d \in Nat /\ v \in Int /\ v # Nil
        BY ChainType
    <2>2. s = Visits(heap)[d][v] /\ s \in Seq(Int)
        BY <2>1, VisitsEquation DEF Preorder
    <2>3. \A i \in 1 .. Len(s) : s[i] \in DOMAIN heap
        <3>1. \A i \in 1 .. Len(s) : Is(heap, v, s[i])
            BY <2>2 DEF Is, ToSet
        <3> QED
            BY <3>1, ChainIs
    <2>4. Code(heap, v) = CodeOfFirst(heap, s)
        BY <2>1, <2>2, CodeIsFirst DEF Code
    <2>5. \A c : HasCode(heap, v, c) <=> \E x \in ToSet(s) : heap[x].code = c
        BY <2>1, <2>2, HasCodeIsSeen DEF HasCode, Seen
    <2> HIDE DEF s, d
    <2>6. FirstThat(s, LAMBDA x : heap[x].code # NoCode, Nil) = FirstIn(s, CodedIn(heap))
        <3>1. {i \in 1 .. Len(s) : heap[s[i]].code # NoCode} = {i \in 1 .. Len(s) : s[i] \in CodedIn(heap)}
            BY <2>3 DEF CodedIn
        <3>2. SelectInSeq(s, LAMBDA x : heap[x].code # NoCode) = SelectInSeq(s, LAMBDA x : x \in CodedIn(heap))
            BY <3>1 DEF SelectInSeq
        <3> QED
            BY <3>2 DEF FirstIn, FirstThat
    <2>7. ASSUME NEW c
          PROVE  FindByCode(heap, v, c) = FirstErrorWith(v, c)
        <3> DEFINE T == ErrxWith(heap, c)
        <3>1. FindByCode(heap, v, c) = FirstIn(s, T)
            BY <2>1, <2>2, FindIsFirst DEF FindByCode, d
        <3>2. {i \in 1 .. Len(s) : s[i] \in Errors /\ heap[s[i]].code = c} = {i \in 1 .. Len(s) : s[i] \in T}
            BY DEF Errors, Values, ErrxWith
        <3>3. SelectInSeq(s, LAMBDA x : x \in Errors /\ heap[x].code = c) = SelectInSeq(s, LAMBDA x : x \in T)
            BY <3>2 DEF SelectInSeq
        <3>4. FirstIn(s, T) = FirstErrorWith(v, c)
            BY <3>3 DEF FirstIn, FirstThat, FirstErrorWith, s
        <3> QED
            BY <3>1, <3>4
    <2>8. LET coded == FirstThat(Preorder(heap, v), LAMBDA x : heap[x].code # NoCode, Nil)
          IN  Code(heap, v) = IF coded = Nil THEN NoCode ELSE heap[coded].code
        BY <2>4, <2>6 DEF CodeOfFirst, s
    <2>9. \A c : HasCode(heap, v, c) <=> \E x \in ToSet(Preorder(heap, v)) : heap[x].code = c
        BY <2>5 DEF s
    <2> QED
        BY <2>7, <2>8, <2>9
<1> QED
    BY ChainInvariance, <1>1, PTL
=============================================================================
