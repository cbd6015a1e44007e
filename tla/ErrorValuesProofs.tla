------------------------- MODULE ErrorValuesProofs -------------------------
(***************************************************************************)
(* Lemmas about ErrorValues for heaps of any size: what the recursive      *)
(* walks over an error graph compute.  Induction is done with sets: every  *)
(* set of naturals that has 0 and, with a number, the next one, has them   *)
(* all.  From that follow that a recursive definition satisfies its own    *)
(* equation, and what can be shown with that equation.                     *)
(***************************************************************************)
EXTENDS ErrorValues, SequenceTheorems, FiniteSetTheorems, WellFoundedInduction, TLAPS

-----------------------------------------------------------------------------
(* Induction *)

\* A set of naturals that is not empty has a least element.
LEMMA LeastNatural ==
    ASSUME NEW T, T \subseteq Nat, T # {}
    PROVE  \E x \in T : \A y \in T : x <= y
<1> DEFINE R == {ss \in Nat \X Nat : ss[1] < ss[2]}
<1>1. IsWellFoundedOn(R, Nat)
    BY NatLessThanWellFounded DEF OpToRel
<1>2. \A x \in Nat : \A y \in Nat : x < y => <<x, y>> \in R
    OBVIOUS
<1> HIDE DEF R
<1>3. PICK x \in T : \A y \in T : ~ (<<y, x>> \in R)
    BY <1>1, WFMin
<1>4. \A y \in T : x <= y
    <2> TAKE y \in T
    <2>1. x \in Nat /\ y \in Nat /\ ~ (y < x)
        BY <1>2, <1>3
    <2> QED
        BY <2>1
<1> QED
    BY <1>4

\* Induction over the naturals, for a property given as a set.
LEMMA SetInduction ==
    ASSUME NEW S, 0 \in S, \A n \in Nat : n \in S => n + 1 \in S
    PROVE  \A n \in Nat : n \in S
<1> SUFFICES ASSUME Nat \ S # {} PROVE FALSE
    OBVIOUS
<1>1. PICK x \in Nat \ S : \A y \in Nat \ S : x <= y
    BY LeastNatural, Nat \ S \subseteq Nat
<1>2. x # 0 /\ x - 1 \in Nat /\ ~ (x <= x - 1) /\ (x - 1) + 1 = x
    OBVIOUS
<1>3. x - 1 \in S
    BY <1>1, <1>2
<1> QED
    BY <1>2, <1>3

Steps(V) == [Nat -> [V -> V]]

Iterates(f, V, a, step) ==
    f \in [Nat -> V] /\ f[0] = a /\ \A n \in Nat : f[n + 1] = step[n][f[n]]

\* Values each made from the one before: the sequence of them exists.
LEMMA Iteration ==
    ASSUME NEW V, NEW a \in V, NEW step \in Steps(V)
    PROVE  \E f : Iterates(f, V, a, step)
<1> USE DEF Steps
<1> DEFINE Upto(n, g) == g[0] = a /\ \A k \in 0 .. n - 1 : g[k + 1] = step[k][g[k]]
           Some(n) == \E g \in [0 .. n -> V] : Upto(n, g)
           Same(k) == \A m \in Nat : \A n \in Nat : \A g \in [0 .. m -> V] : \A h \in [0 .. n -> V] :
                        k <= m /\ k <= n /\ Upto(m, g) /\ Upto(n, h) => g[k] = h[k]
<1>1. \A n \in Nat : Some(n)
    <2>1. Some(0)
        <3> DEFINE g == [k \in 0 .. 0 |-> a]
        <3>1. g \in [0 .. 0 -> V] /\ Upto(0, g)
            OBVIOUS
        <3> HIDE DEF g
        <3> QED
            BY <3>1
    <2>2. ASSUME NEW n \in Nat, Some(n) PROVE Some(n + 1)
        <3>1. PICK g \in [0 .. n -> V] : Upto(n, g)
            BY <2>2
        <3> DEFINE h == [k \in 0 .. n + 1 |-> IF k = n + 1 THEN step[n][g[n]] ELSE g[k]]
        <3>2. h \in [0 .. n + 1 -> V] /\ Upto(n + 1, h)
            BY <3>1
        <3> HIDE DEF h
        <3> QED
            BY <3>2
    <2> HIDE DEF Some
    <2> DEFINE S == {n \in Nat : Some(n)}
    <2>3. \A n \in Nat : n \in S
        <3>1. 0 \in S /\ \A n \in Nat : n \in S => n + 1 \in S
            BY <2>1, <2>2
        <3> HIDE DEF S
        <3> QED
            BY <3>1, SetInduction
    <2> QED
        BY <2>3
<1>2. \A k \in Nat : Same(k)
    <2>1. Same(0)
        OBVIOUS
    <2>2. ASSUME NEW k \in Nat, Same(k) PROVE Same(k + 1)
        <3> SUFFICES ASSUME NEW m \in Nat, NEW n \in Nat,
                            NEW g \in [0 .. m -> V], NEW h \in [0 .. n -> V],
                            k + 1 <= m, k + 1 <= n, Upto(m, g), Upto(n, h)
                     PROVE  g[k + 1] = h[k + 1]
            OBVIOUS
        <3>1. g[k] = h[k]
            <4>1. k <= m /\ k <= n
                OBVIOUS
            <4> HIDE DEF Upto
            <4> QED
                BY <2>2, <4>1
        <3> QED
            BY <3>1
    <2> HIDE DEF Same
    <2> DEFINE S == {n \in Nat : Same(n)}
    <2>3. \A n \in Nat : n \in S
        <3>1. 0 \in S /\ \A n \in Nat : n \in S => n + 1 \in S
            BY <2>1, <2>2
        <3> HIDE DEF S
        <3> QED
            BY <3>1, SetInduction
    <2> QED
        BY <2>3
<1> DEFINE G(n) == CHOOSE g \in [0 .. n -> V] : Upto(n, g)
           f == [n \in Nat |-> G(n)[n]]
<1>3. \A n \in Nat : G(n) \in [0 .. n -> V] /\ Upto(n, G(n))
    BY <1>1
<1> HIDE DEF G
<1>4. f \in [Nat -> V] /\ f[0] = a
    BY <1>3
<1>5. ASSUME NEW n \in Nat PROVE f[n + 1] = step[n][f[n]]
    <2>1. G(n)[n] = G(n + 1)[n]
        <3>1. n <= n /\ n <= n + 1 /\ n + 1 \in Nat
            OBVIOUS
        <3> HIDE DEF Upto
        <3> QED
            BY <1>2, <1>3, <3>1
    <2>2. G(n + 1)[n + 1] = step[n][G(n + 1)[n]]
        BY <1>3
    <2> QED
        BY <2>1, <2>2
<1> HIDE DEF f
<1> QED
    BY <1>4, <1>5 DEF Iterates

-----------------------------------------------------------------------------
(* Sequences *)

\* FlattenSeq appends its arguments one after the other.
LEMMA FlattenDef ==
    ASSUME NEW S, NEW ss \in Seq(Seq(S))
    PROVE  \E f \in [Nat -> Seq(S)] :
                /\ f[0] = <<>>
                /\ \A i \in 1 .. Len(ss) : f[i] = f[i - 1] \o ss[i]
                /\ FlattenSeq(ss) = f[Len(ss)]
<1> DEFINE n == Len(ss)
           V == Seq(S)
           a == <<>>
           cat(v, w) == v \o w
           step == [k \in Nat |-> [v \in V |-> IF k + 1 \in 1 .. n THEN cat(v, ss[k + 1]) ELSE v]]
<1>1. n \in Nat /\ \A i \in 1 .. n : ss[i] \in V
    OBVIOUS
<1>2. a \in V /\ \A v \in V, w \in V : cat(v, w) \in V
    OBVIOUS
<1>3. \A v \in V : cat(a, v) = v
    OBVIOUS
<1>4. n = 0 => ss = a
    OBVIOUS
<1> HIDE DEF n, V, a, cat
<1>5. step \in Steps(V)
    BY <1>1, <1>2 DEF Steps
<1> HIDE DEF step
<1>6. PICK f : Iterates(f, V, a, step)
    BY <1>2, <1>5, Iteration
<1>7. f \in [Nat -> V] /\ f[0] = a
    BY <1>6 DEF Iterates
<1>8. ASSUME NEW k \in Nat, k + 1 \in 1 .. n PROVE f[k + 1] = cat(f[k], ss[k + 1])
    BY <1>6, <1>8 DEF Iterates, step
<1>9. n >= 1 => f[1] = ss[1]
    <2> SUFFICES ASSUME n >= 1 PROVE f[1] = ss[1]
        OBVIOUS
    <2>1. 0 \in Nat /\ 0 + 1 = 1 /\ 1 \in 1 .. n
        BY <1>1
    <2>2. f[1] = cat(f[0], ss[1])
        BY <1>8, <2>1
    <2> QED
        BY <1>1, <1>3, <1>7, <2>1, <2>2
<1> DEFINE Solves(g) == g = [i \in 1 .. n |-> IF i = 1 THEN ss[i] ELSE cat(g[i - 1], ss[i])]
           F == CHOOSE g : Solves(g)
<1>10. FlattenSeq(ss) = IF n = 0 THEN ss ELSE F[n]
    BY DEF FlattenSeq, n, cat
<1>11. Solves(F)
    <2> DEFINE g == [i \in 1 .. n |-> f[i]]
    <2>1. ASSUME NEW i \in 1 .. n PROVE g[i] = IF i = 1 THEN ss[i] ELSE cat(g[i - 1], ss[i])
        <3>1. CASE i = 1
            BY <1>1, <1>9, <3>1
        <3>2. CASE i # 1
            <4>1. i - 1 \in Nat /\ (i - 1) + 1 = i /\ i - 1 \in 1 .. n
                BY <1>1, <3>2
            <4> QED
                BY <1>8, <3>2, <4>1
        <3> QED
            BY <3>1, <3>2
    <2>2. Solves(g)
        <3>1. g = [i \in 1 .. n |-> g[i]]
            OBVIOUS
        <3> HIDE DEF g
        <3> QED
            BY <2>1, <3>1
    <2> QED
        <3> HIDE DEF g, Solves
        <3> QED
            BY <2>2
<1> HIDE DEF F
<1>12. \A i \in Nat : i \in 1 .. n => F[i] = f[i]
    <2> DEFINE T == {i \in Nat : i \in 1 .. n => F[i] = f[i]}
    <2>1. 0 \in T
        OBVIOUS
    <2>2. ASSUME NEW k \in Nat, k \in T PROVE k + 1 \in T
        <3> SUFFICES ASSUME k + 1 \in 1 .. n PROVE F[k + 1] = f[k + 1]
            OBVIOUS
        <3>1. CASE k = 0
            <4>1. 1 \in 1 .. n /\ n >= 1 /\ k + 1 = 1
                BY <1>1, <3>1
            <4>2. F[1] = ss[1]
                BY <1>11, <4>1
            <4> QED
                BY <1>9, <4>1, <4>2
        <3>2. CASE k # 0
            <4>1. k \in 1 .. n /\ k + 1 # 1 /\ (k + 1) - 1 = k
                BY <1>1, <3>2
            <4>2. F[k + 1] = cat(F[k], ss[k + 1])
                BY <1>11, <4>1
            <4> QED
                BY <1>8, <2>2, <4>1, <4>2
        <3> QED
            BY <3>1, <3>2
    <2>3. \A i \in Nat : i \in T
        <3> HIDE DEF T
        <3> QED
            BY <2>1, <2>2, SetInduction
    <2> QED
        BY <2>3
<1>13. FlattenSeq(ss) = f[n]
    <2>1. CASE n = 0
        BY <1>4, <1>7, <1>10, <2>1
    <2>2. CASE n # 0
        <3>1. n \in 1 .. n
            BY <1>1, <2>2
        <3> QED
            BY <1>1, <1>10, <1>12, <2>2, <3>1
    <2> QED
        BY <2>1, <2>2
<1>14. \A i \in 1 .. n : f[i] = cat(f[i - 1], ss[i])
    <2> TAKE i \in 1 .. n
    <2>1. i - 1 \in Nat /\ (i - 1) + 1 = i
        BY <1>1
    <2> QED
        BY <1>8, <2>1
<1> QED
    BY <1>7, <1>13, <1>14 DEF n, V, a, cat

\* What FlattenSeq has in it, and of what kind.
LEMMA FlattenType ==
    ASSUME NEW S, NEW ss \in Seq(Seq(S))
    PROVE  FlattenSeq(ss) \in Seq(S)
<1>1. PICK f \in [Nat -> Seq(S)] : FlattenSeq(ss) = f[Len(ss)]
    BY FlattenDef
<1>2. Len(ss) \in Nat
    OBVIOUS
<1> QED
    BY <1>1, <1>2

LEMMA ToSetCat ==
    ASSUME NEW S, NEW s \in Seq(S), NEW t \in Seq(S)
    PROVE  ToSet(s \o t) = ToSet(s) \cup ToSet(t)
<1>1. ToSet(s \o t) \subseteq ToSet(s) \cup ToSet(t)
    BY DEF ToSet
<1>2. ToSet(s) \subseteq ToSet(s \o t)
    BY DEF ToSet
<1>3. ASSUME NEW i \in DOMAIN t PROVE t[i] \in ToSet(s \o t)
    <2>1. Len(s) + i \in DOMAIN (s \o t) /\ (s \o t)[Len(s) + i] = t[i]
        OBVIOUS
    <2> QED
        BY <2>1 DEF ToSet
<1> QED
    BY <1>1, <1>2, <1>3 DEF ToSet

LEMMA FlattenElements ==
    ASSUME NEW S, NEW ss \in Seq(Seq(S))
    PROVE  \A x : x \in ToSet(FlattenSeq(ss)) <=> \E i \in 1 .. Len(ss) : x \in ToSet(ss[i])
<1>1. PICK f \in [Nat -> Seq(S)] :
            /\ f[0] = <<>>
            /\ \A i \in 1 .. Len(ss) : f[i] = f[i - 1] \o ss[i]
            /\ FlattenSeq(ss) = f[Len(ss)]
    BY FlattenDef
<1>2. Len(ss) \in Nat
    OBVIOUS
<1> DEFINE P(n) == n <= Len(ss) => \A x : x \in ToSet(f[n]) <=> \E i \in 1 .. n : x \in ToSet(ss[i])
<1>3. P(0)
    <2>1. ToSet(f[0]) = {}
        BY <1>1 DEF ToSet
    <2> QED
        BY <2>1
<1>4. ASSUME NEW n \in Nat, P(n) PROVE P(n + 1)
    <2> SUFFICES ASSUME n + 1 <= Len(ss), NEW x
                 PROVE  x \in ToSet(f[n + 1]) <=> \E i \in 1 .. n + 1 : x \in ToSet(ss[i])
        OBVIOUS
    <2>1. n <= Len(ss) /\ n + 1 \in 1 .. Len(ss) /\ (n + 1) - 1 = n
        BY <1>2
    <2>2. f[n + 1] = f[n] \o ss[n + 1]
        BY <1>1, <2>1
    <2>3. ToSet(f[n + 1]) = ToSet(f[n]) \cup ToSet(ss[n + 1])
        <3>1. f[n] \in Seq(S) /\ ss[n + 1] \in Seq(S)
            BY <2>1
        <3>2. \A s \in Seq(S), t \in Seq(S) : ToSet(s \o t) = ToSet(s) \cup ToSet(t)
            BY ToSetCat
        <3> QED
            BY <2>2, <3>1, <3>2
    <2>4. /\ \A i \in 1 .. n + 1 : i \in 1 .. n \/ i = n + 1
          /\ \A i \in 1 .. n : i \in 1 .. n + 1
          /\ n + 1 \in 1 .. n + 1
        OBVIOUS
    <2>5. x \in ToSet(f[n]) <=> \E i \in 1 .. n : x \in ToSet(ss[i])
        BY <1>4, <2>1
    <2> QED
        BY <2>3, <2>4, <2>5
<1> HIDE DEF P
<1> DEFINE T == {n \in Nat : P(n)}
<1>5. \A n \in Nat : n \in T
    <2>1. 0 \in T /\ \A n \in Nat : n \in T => n + 1 \in T
        BY <1>3, <1>4
    <2> HIDE DEF T
    <2> QED
        BY <2>1, SetInduction
<1>6. P(Len(ss))
    BY <1>2, <1>5
<1>7. Len(ss) <= Len(ss)
    BY <1>2
<1> QED
    BY <1>1, <1>6, <1>7 DEF P

-----------------------------------------------------------------------------
(* The first in a search that is in a set *)

FirstIn(s, T) == FirstThat(s, LAMBDA x : x \in T, Nil)

LEMMA FirstInIndex ==
    ASSUME NEW s \in Seq(Int), NEW T
    PROVE  \/ FirstIn(s, T) = Nil /\ \A i \in 1 .. Len(s) : s[i] \notin T
           \/ \E i \in 1 .. Len(s) : /\ FirstIn(s, T) = s[i] /\ s[i] \in T
                                     /\ \A j \in 1 .. i - 1 : s[j] \notin T
<1> DEFINE I == {i \in 1 .. Len(s) : s[i] \in T}
<1>1. FirstIn(s, T) = IF (IF I # {} THEN Min(I) ELSE 0) = 0 THEN Nil ELSE s[IF I # {} THEN Min(I) ELSE 0]
    BY DEF FirstIn, FirstThat, SelectInSeq
<1>2. CASE I = {}
    <2>1. FirstIn(s, T) = Nil
        BY <1>1, <1>2
    <2>2. \A i \in 1 .. Len(s) : s[i] \notin T
        BY <1>2
    <2> QED
        BY <2>1, <2>2
<1>3. CASE I # {}
    <2>1. I \subseteq Nat
        OBVIOUS
    <2>2. \E i \in I : \A j \in I : i <= j
        <3> HIDE DEF I
        <3> QED
            BY <1>3, <2>1, LeastNatural
    <2>3. Min(I) \in I /\ \A j \in I : Min(I) <= j
        <3> HIDE DEF I
        <3> QED
            BY <2>2 DEF Min
    <2> DEFINE i == Min(I)
    <2> HIDE DEF i
    <2>4. i \in 1 .. Len(s) /\ s[i] \in T /\ \A j \in 1 .. Len(s) : s[j] \in T => i <= j
        BY <2>3 DEF i
    <2>5. FirstIn(s, T) = s[i]
        BY <1>1, <1>3, <2>4 DEF i
    <2>6. \A j \in 1 .. i - 1 : s[j] \notin T
        BY <2>4
    <2> QED
        BY <2>4, <2>5, <2>6
<1> QED
    BY <1>2, <1>3

\* It is in the search, or nothing is.
LEMMA FirstInType ==
    ASSUME NEW s \in Seq(Int), NEW T
    PROVE  \/ FirstIn(s, T) = Nil /\ ToSet(s) \cap T = {}
           \/ FirstIn(s, T) \in ToSet(s) \cap T
BY FirstInIndex DEF ToSet

LEMMA FirstInHead ==
    ASSUME NEW x \in Int, NEW s \in Seq(Int), NEW T
    PROVE  FirstIn(<<x>> \o s, T) = IF x \in T THEN x ELSE FirstIn(s, T)
<1> DEFINE t == <<x>> \o s
<1>1. t \in Seq(Int) /\ Len(t) = Len(s) + 1 /\ t[1] = x /\ \A i \in 1 .. Len(s) : t[i + 1] = s[i]
    OBVIOUS
<1>2. \A i \in 1 .. Len(t) : i # 1 => i - 1 \in 1 .. Len(s) /\ t[i] = s[i - 1]
    BY <1>1
<1> HIDE DEF t
<1>3. FirstIn(t, T) = IF x \in T THEN x ELSE FirstIn(s, T)
    <2>1. CASE x \in T
        BY <1>1, <2>1, FirstInIndex
    <2>2. CASE x \notin T
        <3>1. CASE \A i \in 1 .. Len(s) : s[i] \notin T
            <4>1. \A i \in 1 .. Len(t) : t[i] \notin T
                BY <1>1, <1>2, <2>2, <3>1
            <4>2. FirstIn(t, T) = Nil /\ FirstIn(s, T) = Nil
                BY <1>1, <3>1, <4>1, FirstInIndex
            <4> QED
                BY <2>2, <4>2
        <3>2. CASE \E i \in 1 .. Len(s) : s[i] \in T
            <4>1. PICK i \in 1 .. Len(s) : FirstIn(s, T) = s[i] /\ s[i] \in T /\ \A j \in 1 .. i - 1 : s[j] \notin T
                BY <3>2, FirstInIndex
            <4>2. i + 1 \in 1 .. Len(t) /\ t[i + 1] \in T
                BY <1>1, <4>1
            <4>3. PICK k \in 1 .. Len(t) : FirstIn(t, T) = t[k] /\ t[k] \in T /\ \A j \in 1 .. k - 1 : t[j] \notin T
                BY <1>1, <4>2, FirstInIndex
            <4>4. k # 1 /\ k - 1 \in 1 .. Len(s) /\ t[k] = s[k - 1]
                BY <1>1, <1>2, <2>2, <4>3
            <4>5. ~ (i + 1 < k)
                BY <4>2, <4>3
            <4>6. ~ (k - 1 < i)
                BY <4>1, <4>3, <4>4
            <4>7. i = k - 1
                BY <4>4, <4>5, <4>6
            <4> QED
                BY <2>2, <4>1, <4>3, <4>4, <4>7
        <3> QED
            BY <3>1, <3>2
    <2> QED
        BY <2>1, <2>2
<1> QED
    BY <1>3 DEF t

-----------------------------------------------------------------------------
(* Heaps *)

Node(C) ==
    [kind : {"errx", "join", "foreign", "ctx"}, code : C, class : {"expected", "defect", "cancelled"}, retry : BOOLEAN,
     cause : Int, supp : Seq(Int), opaque : BOOLEAN, panic : BOOLEAN]

Heaps(C) == Seq(Node(C))

Children(h, x) == ToSet(Unwrap(h, x))

LEMMA UnwrapType ==
    ASSUME NEW C, NEW h \in Heaps(C), NEW x
    PROVE  /\ Unwrap(h, x) \in Seq(Int)
           /\ Children(h, x) \subseteq Int
<1>1. Unwrap(h, x) \in Seq(Int)
    <2>1. CASE x \notin DOMAIN h
        BY <2>1 DEF Unwrap
    <2>2. CASE x \in DOMAIN h
        <3>1. h[x] \in Node(C)
            BY <2>2 DEF Heaps
        <3>2. h[x].cause \in Int /\ h[x].supp \in Seq(Int)
            BY <3>1 DEF Node
        <3>3. Exposed(h[x]) \in Seq(Int)
            BY <3>2 DEF Exposed
        <3> QED
            BY <2>2, <3>3 DEF Unwrap
    <2> QED
        BY <2>1, <2>2
<1> QED
    BY <1>1 DEF Children, ToSet

\* What an error unwraps to: its cause if it has one, and what it suppressed.
LEMMA ChildrenOf ==
    ASSUME NEW C, NEW h \in Heaps(C), NEW x
    PROVE  /\ x \notin DOMAIN h => Children(h, x) = {}
           /\ x \in DOMAIN h =>
                Children(h, x) = IF h[x].opaque THEN {} ELSE ({h[x].cause} \ {Nil}) \cup ToSet(h[x].supp)
<1>1. ToSet(<<>>) = {}
    BY DEF ToSet
<1>2. CASE x \notin DOMAIN h
    BY <1>1, <1>2 DEF Children, Unwrap
<1>3. CASE x \in DOMAIN h
    <2>1. h[x] \in Node(C)
        BY <1>3 DEF Heaps
    <2> DEFINE c == h[x].cause
               p == h[x].supp
    <2>2. c \in Int /\ p \in Seq(Int)
        BY <2>1 DEF Node
    <2>3. Exposed(h[x]) = (IF c = Nil THEN <<>> ELSE <<c>>) \o p
        BY DEF Exposed
    <2> HIDE DEF c, p
    <2>4. ToSet((IF c = Nil THEN <<>> ELSE <<c>>) \o p) = ({c} \ {Nil}) \cup ToSet(p)
        <3>1. CASE c = Nil
            BY <2>2, <3>1
        <3>2. CASE c # Nil
            <4>1. <<c>> \in Seq(Int) /\ ToSet(<<c>>) = {c}
                BY <2>2 DEF ToSet
            <4>2. \A s \in Seq(Int), t \in Seq(Int) : ToSet(s \o t) = ToSet(s) \cup ToSet(t)
                BY ToSetCat
            <4> QED
                BY <2>2, <3>2, <4>1, <4>2
        <3> QED
            BY <3>1, <3>2
    <2> QED
        BY <1>1, <1>3, <2>3, <2>4 DEF Children, Unwrap, c, p
<1> QED
    BY <1>2, <1>3

\* What the walk that a function gives visits below an error.
Below(h, g, x) == [i \in 1 .. Len(Unwrap(h, x)) |-> g[Unwrap(h, x)[i]]]

LEMMA BelowType ==
    ASSUME NEW C, NEW h \in Heaps(C), NEW W, NEW g \in [Int -> W], NEW x
    PROVE  /\ Below(h, g, x) \in Seq(W)
           /\ Len(Below(h, g, x)) = Len(Unwrap(h, x))
           /\ \A i \in 1 .. Len(Unwrap(h, x)) : Below(h, g, x)[i] = g[Unwrap(h, x)[i]]
<1> DEFINE u == Unwrap(h, x)
<1>1. u \in Seq(Int)
    BY UnwrapType
<1> HIDE DEF u
<1> QED
    BY <1>1 DEF Below, u

\* The walk of errors.Is satisfies the equation it is defined by.
LEMMA VisitsEquation ==
    ASSUME NEW C, NEW h \in Heaps(C)
    PROVE  /\ \A d \in Nat : Visits(h)[d] \in [Int -> Seq(Int)]
           /\ \A x \in Int : Visits(h)[0][x] = <<>>
           /\ \A d \in Nat : \A x \in Int :
                Visits(h)[d + 1][x] = <<x>> \o FlattenSeq(Below(h, Visits(h)[d], x))
<1> DEFINE V == [Int -> Seq(Int)]
           a == [x \in Int |-> <<>>]
           next(g, x) == <<x>> \o FlattenSeq(Below(h, g, x))
           step == [n \in Nat |-> [g \in V |-> [x \in Int |-> next(g, x)]]]
           Solves(f) == f = [d \in Nat |-> [x \in Int |-> IF d = 0 THEN <<>> ELSE next(f[d - 1], x)]]
<1>1. \A g \in V, x \in Int : next(g, x) \in Seq(Int)
    <2> TAKE g \in V, x \in Int
    <2>1. FlattenSeq(Below(h, g, x)) \in Seq(Int)
        BY BelowType, FlattenType
    <2> QED
        BY <2>1
<1>2. a \in V
    OBVIOUS
<1> HIDE DEF next
<1>3. step \in Steps(V)
    BY <1>1 DEF Steps
<1>4. \A g \in V, x \in Int : a[x] = <<>>
    OBVIOUS
<1>5. \A n \in Nat, g \in V : step[n][g] = [x \in Int |-> next(g, x)]
    OBVIOUS
<1>6. V \subseteq [Int -> Seq(Int)]
    OBVIOUS
<1>7. Visits(h) = CHOOSE f : Solves(f)
    BY DEF Visits, Below, next
<1> HIDE DEF step, V, a
<1>8. PICK f : Iterates(f, V, a, step)
    BY <1>2, <1>3, Iteration
<1>9. f \in [Nat -> V] /\ f[0] = a /\ \A n \in Nat : f[n + 1] = step[n][f[n]]
    BY <1>8 DEF Iterates
<1>10. ASSUME NEW d \in Nat PROVE f[d] = [x \in Int |-> IF d = 0 THEN <<>> ELSE next(f[d - 1], x)]
    <2>1. CASE d = 0
        BY <1>9, <2>1 DEF a
    <2>2. CASE d # 0
        <3>1. d - 1 \in Nat /\ (d - 1) + 1 = d
            BY <2>2
        <3>2. f[d - 1] \in V
            BY <1>9, <3>1
        <3>3. f[d] = [x \in Int |-> next(f[d - 1], x)]
            BY <1>5, <1>9, <3>1, <3>2
        <3> QED
            BY <2>2, <3>3
    <2> QED
        BY <2>1, <2>2
<1>11. Solves(f)
    <2>1. f = [d \in Nat |-> f[d]]
        BY <1>9
    <2> QED
        BY <1>10, <2>1
<1> HIDE DEF Solves
<1>12. Solves(Visits(h))
    BY <1>7, <1>11
<1> DEFINE v == Visits(h)
<1> HIDE DEF v
<1>13. v = [d \in Nat |-> [x \in Int |-> IF d = 0 THEN <<>> ELSE next(v[d - 1], x)]]
    BY <1>12 DEF Solves, v
<1>14. \A x \in Int : v[0][x] = <<>>
    BY <1>13
<1>15. ASSUME NEW d \in Nat PROVE v[d + 1] = [x \in Int |-> next(v[d], x)]
    <2>1. (d + 1) - 1 = d /\ d + 1 # 0 /\ d + 1 \in Nat
        OBVIOUS
    <2> QED
        BY <1>13, <2>1
<1>16. \A d \in Nat : v[d] \in V
    <2> DEFINE T == {d \in Nat : v[d] \in V}
    <2>1. 0 \in T
        <3>1. v[0] = a
            BY <1>13 DEF a
        <3> QED
            BY <1>2, <3>1
    <2>2. ASSUME NEW d \in Nat, v[d] \in V PROVE v[d + 1] \in V
        <3> DEFINE g == v[d]
        <3> HIDE DEF g
        <3>1. v[d + 1] = [x \in Int |-> next(g, x)]
            BY <1>15 DEF g
        <3>2. \A x \in Int : next(g, x) \in Seq(Int)
            BY <1>1, <2>2 DEF g
        <3> QED
            BY <3>1, <3>2 DEF V
    <2>3. \A d \in Nat : d \in T
        <3>1. \A d \in Nat : d \in T => d + 1 \in T
            BY <2>2
        <3>2. 0 \in T
            BY <2>1
        <3> HIDE DEF T
        <3> QED
            BY <3>1, <3>2, SetInduction
    <2> QED
        BY <2>3
<1> QED
    BY <1>14, <1>15, <1>16 DEF v, V, next

-----------------------------------------------------------------------------
(* What is seen from an error, to a depth *)

Seen(h, d, x) == ToSet(Visits(h)[d][x])

LEMMA SeenDef ==
    ASSUME NEW C, NEW h \in Heaps(C)
    PROVE  /\ \A x \in Int : Seen(h, 0, x) = {}
           /\ \A d \in Nat, x \in Int : Seen(h, d, x) \subseteq Int
           /\ \A d \in Nat, x \in Int : \A y :
                y \in Seen(h, d + 1, x) <=> y = x \/ \E c \in Children(h, x) : y \in Seen(h, d, c)
<1>1. \A x \in Int : Seen(h, 0, x) = {}
    BY VisitsEquation DEF Seen, ToSet
<1>2. \A d \in Nat, x \in Int : Seen(h, d, x) \subseteq Int
    <2> TAKE d \in Nat, x \in Int
    <2>1. Visits(h)[d][x] \in Seq(Int)
        BY VisitsEquation
    <2> QED
        BY <2>1 DEF Seen, ToSet
<1>3. ASSUME NEW d \in Nat, NEW x \in Int, NEW y
      PROVE  y \in Seen(h, d + 1, x) <=> y = x \/ \E c \in Children(h, x) : y \in Seen(h, d, c)
    <2> DEFINE u == Unwrap(h, x)
               g == Visits(h)[d]
               b == Below(h, g, x)
               s == FlattenSeq(b)
    <2>1. u \in Seq(Int) /\ g \in [Int -> Seq(Int)]
        BY UnwrapType, VisitsEquation
    <2>3. Visits(h)[d + 1][x] = <<x>> \o s
        BY VisitsEquation
    <2> HIDE DEF b, u, g
    <2>2. b \in Seq(Seq(Int)) /\ Len(b) = Len(u) /\ \A i \in 1 .. Len(u) : b[i] = g[u[i]]
        <3> DEFINE W == Seq(Int)
        <3>1. g \in [Int -> W]
            BY <2>1
        <3> HIDE DEF W
        <3>2. /\ Below(h, g, x) \in Seq(W)
              /\ Len(Below(h, g, x)) = Len(Unwrap(h, x))
              /\ \A i \in 1 .. Len(Unwrap(h, x)) : Below(h, g, x)[i] = g[Unwrap(h, x)[i]]
            BY <3>1, BelowType
        <3> QED
            BY <3>2 DEF b, u, W
    <2>4. s \in Seq(Int) /\ \A z : z \in ToSet(s) <=> \E i \in 1 .. Len(b) : z \in ToSet(b[i])
        BY <2>2, FlattenType, FlattenElements
    <2> HIDE DEF s
    <2>5. ToSet(<<x>> \o s) = {x} \cup ToSet(s)
        <3>1. \A p \in Seq(Int), q \in Seq(Int) : ToSet(p \o q) = ToSet(p) \cup ToSet(q)
            BY ToSetCat
        <3>2. <<x>> \in Seq(Int) /\ ToSet(<<x>>) = {x}
            BY DEF ToSet
        <3> QED
            BY <2>4, <3>1, <3>2
    <2>6. y \in Seen(h, d + 1, x) <=> y = x \/ \E i \in 1 .. Len(u) : y \in ToSet(g[u[i]])
        BY <2>2, <2>3, <2>4, <2>5 DEF Seen
    <2>7. Children(h, x) = {u[i] : i \in 1 .. Len(u)}
        <3>1. DOMAIN u = 1 .. Len(u)
            BY <2>1
        <3> QED
            BY <3>1 DEF Children, ToSet, u
    <2> QED
        BY <2>6, <2>7 DEF Seen, g
<1> QED
    BY <1>1, <1>2, <1>3

\* Looking further, or into a graph with more in it, shows no less.
LEMMA SeenGrows ==
    ASSUME NEW C, NEW h \in Heaps(C), NEW k \in Heaps(C),
           \A x \in Int : Children(h, x) \subseteq Children(k, x),
           NEW d \in Nat, NEW e \in Nat, d <= e, NEW x \in Int
    PROVE  Seen(h, d, x) \subseteq Seen(k, e, x)
<1> DEFINE P(n) == \A m \in Nat : n <= m => \A y \in Int : Seen(h, n, y) \subseteq Seen(k, m, y)
<1>1. P(0)
    BY SeenDef
<1>2. ASSUME NEW n \in Nat, P(n) PROVE P(n + 1)
    <2> SUFFICES ASSUME NEW m \in Nat, n + 1 <= m, NEW y \in Int, NEW z \in Seen(h, n + 1, y)
                 PROVE  z \in Seen(k, m, y)
        OBVIOUS
    <2>1. m - 1 \in Nat /\ n <= m - 1 /\ (m - 1) + 1 = m
        OBVIOUS
    <2>2. z = y \/ \E c \in Children(h, y) : z \in Seen(h, n, c)
        BY SeenDef
    <2>3. \A c \in Children(h, y) : c \in Int /\ c \in Children(k, y)
        BY UnwrapType
    <2>4. \A c \in Int : Seen(h, n, c) \subseteq Seen(k, m - 1, c)
        BY <1>2, <2>1
    <2>5. z = y \/ \E c \in Children(k, y) : z \in Seen(k, m - 1, c)
        BY <2>2, <2>3, <2>4
    <2>6. z \in Seen(k, (m - 1) + 1, y)
        BY <2>1, <2>5, SeenDef
    <2> QED
        BY <2>1, <2>6
<1> HIDE DEF P
<1> DEFINE T == {n \in Nat : P(n)}
<1>3. 0 \in T /\ \A n \in Nat : n \in T => n + 1 \in T
    BY <1>1, <1>2
<1>4. \A n \in Nat : n \in T
    <2> HIDE DEF T
    <2> QED
        BY <1>3, SetInduction
<1>5. P(d)
    BY <1>4
<1> QED
    BY <1>5 DEF P

LEMMA IsDef ==
    ASSUME NEW h, NEW v \in Int, NEW y
    PROVE  /\ v # Nil => (Is(h, v, y) <=> y \in Seen(h, Len(h) + 1, v))
           /\ ~Is(h, Nil, y)
BY DEF Is, Preorder, Seen, ToSet

\* What matches goes on matching while the graph only grows.
LEMMA MatchesGrow ==
    ASSUME NEW C, NEW h \in Heaps(C), NEW k \in Heaps(C),
           \A x \in Int : Children(h, x) \subseteq Children(k, x),
           Len(h) <= Len(k), NEW v \in Int, NEW y, Is(h, v, y)
    PROVE  Is(k, v, y)
<1>1. v # Nil /\ y \in Seen(h, Len(h) + 1, v)
    BY IsDef
<1>2. Len(h) + 1 \in Nat /\ Len(k) + 1 \in Nat /\ Len(h) + 1 <= Len(k) + 1
    BY DEF Heaps
<1>3. y \in Seen(k, Len(k) + 1, v)
    BY <1>1, <1>2, SeenGrows
<1> QED
    BY <1>1, <1>3, IsDef

-----------------------------------------------------------------------------
(* Heaps without cycles: every error has a rank above those it unwraps to *)

Refs(h) == DOMAIN h \cup {TypedNil}

Ranks(h) ==
    {r \in [Refs(h) -> Nat] :
        \A x \in Refs(h) : \A y \in Children(h, x) : y \in Refs(h) /\ r[y] < r[x]}

Ranked(h) == \E r : r \in Ranks(h)

LEMMA RefsType ==
    ASSUME NEW C, NEW h \in Heaps(C)
    PROVE  /\ Refs(h) \subseteq Int /\ Nil \notin Refs(h)
           /\ Len(h) \in Nat /\ DOMAIN h = 1 .. Len(h)
           /\ IsFiniteSet(Refs(h)) /\ Cardinality(Refs(h)) = Len(h) + 1
<1>1. Len(h) \in Nat /\ DOMAIN h = 1 .. Len(h)
    BY DEF Heaps
<1>2. Refs(h) \subseteq Int /\ Nil \notin Refs(h)
    BY <1>1 DEF Refs, Nil, TypedNil
<1>3. IsFiniteSet(DOMAIN h) /\ Cardinality(DOMAIN h) = Len(h)
    <2> DEFINE n == Len(h)
    <2> HIDE DEF n
    <2>1. n \in Nat
        BY <1>1 DEF n
    <2>2. IsFiniteSet(1 .. n) /\ Cardinality(1 .. n) = IF 1 > n THEN 0 ELSE n - 1 + 1
        BY <2>1, FS_Interval
    <2>3. IsFiniteSet(1 .. n) /\ Cardinality(1 .. n) = n
        BY <2>1, <2>2
    <2> QED
        BY <1>1, <2>3 DEF n
<1>4. TypedNil \notin DOMAIN h
    BY <1>1 DEF TypedNil
<1>5. IsFiniteSet(Refs(h)) /\ Cardinality(Refs(h)) = Len(h) + 1
    BY <1>3, <1>4, FS_AddElement DEF Refs
<1> QED
    BY <1>1, <1>2, <1>5

\* Ranks need not go above the length of the heap.
LEMMA BoundedRank ==
    ASSUME NEW C, NEW h \in Heaps(C), Ranked(h)
    PROVE  \E r \in Ranks(h) : \A x \in Refs(h) : r[x] <= Len(h)
<1>1. PICK r : r \in Ranks(h)
    BY DEF Ranked
<1>2. /\ r \in [Refs(h) -> Nat]
      /\ \A x \in Refs(h) : \A y \in Children(h, x) : y \in Refs(h) /\ r[y] < r[x]
    BY <1>1 DEF Ranks
<1> DEFINE N == Refs(h)
           L(x) == {y \in N : r[y] < r[x]}
           q == [x \in N |-> Cardinality(L(x))]
<1>3. IsFiniteSet(N) /\ Cardinality(N) = Len(h) + 1 /\ Len(h) \in Nat
    BY RefsType
<1>4. r \in [N -> Nat] /\ \A x \in N : \A y \in Children(h, x) : y \in N /\ r[y] < r[x]
    BY <1>2
<1> HIDE DEF N
<1>5. ASSUME NEW x \in N PROVE IsFiniteSet(L(x)) /\ Cardinality(L(x)) \in Nat /\ Cardinality(L(x)) <= Len(h)
    <2>1. IsFiniteSet(N \ {x}) /\ Cardinality(N \ {x}) = Len(h)
        <3>1. /\ IsFiniteSet(N \ {x})
              /\ Cardinality(N \ {x}) = IF x \in N THEN Cardinality(N) - 1 ELSE Cardinality(N)
            BY <1>3, FS_RemoveElement
        <3> QED
            BY <1>3, <3>1
    <2>2. L(x) \in SUBSET (N \ {x})
        BY <1>4
    <2> HIDE DEF L
    <2>3. IsFiniteSet(L(x)) /\ Cardinality(L(x)) <= Cardinality(N \ {x})
        BY <2>1, <2>2, FS_Subset
    <2> QED
        BY <2>1, <2>3, FS_CardinalityType
<1>6. ASSUME NEW x \in N, NEW y \in Children(h, x) PROVE y \in N /\ Cardinality(L(y)) < Cardinality(L(x))
    <2>1. y \in N /\ r[y] < r[x] /\ r[y] \in Nat /\ r[x] \in Nat
        BY <1>4
    <2>2. L(y) \in SUBSET L(x)
        BY <1>4, <2>1
    <2>3. y \in L(x) /\ y \notin L(y)
        BY <2>1
    <2> HIDE DEF L
    <2>4. L(y) # L(x)
        BY <2>3
    <2>5. Cardinality(L(y)) <= Cardinality(L(x)) /\ Cardinality(L(y)) # Cardinality(L(x))
        BY <1>5, <2>2, <2>4, FS_Subset
    <2>6. Cardinality(L(y)) \in Nat /\ Cardinality(L(x)) \in Nat
        BY <1>5, <2>1
    <2> QED
        BY <2>1, <2>5, <2>6
<1> HIDE DEF L
<1>7. q \in [N -> Nat] /\ \A x \in N : \A y \in Children(h, x) : y \in N /\ q[y] < q[x]
    BY <1>5, <1>6
<1>8. \A x \in N : q[x] <= Len(h)
    BY <1>5
<1> HIDE DEF q
<1> QED
    BY <1>7, <1>8 DEF Ranks, N

\* Induction along the graph: what holds of an error when it holds of all that
\* it unwraps to holds of every error.
LEMMA GraphInduction ==
    ASSUME NEW C, NEW h \in Heaps(C), Ranked(h), NEW S,
           \A x \in Refs(h) : (\A c \in Children(h, x) : c \in S) => x \in S
    PROVE  \A x \in Refs(h) : x \in S
<1>1. PICK r : r \in Ranks(h)
    BY DEF Ranked
<1>2. /\ r \in [Refs(h) -> Nat]
      /\ \A x \in Refs(h) : \A y \in Children(h, x) : y \in Refs(h) /\ r[y] < r[x]
    BY <1>1 DEF Ranks
<1> DEFINE P(n) == \A x \in Refs(h) : r[x] < n => x \in S
<1>3. P(0)
    BY <1>2
<1>4. ASSUME NEW n \in Nat, P(n) PROVE P(n + 1)
    <2> SUFFICES ASSUME NEW x \in Refs(h), r[x] < n + 1 PROVE x \in S
        OBVIOUS
    <2>1. ASSUME NEW c \in Children(h, x) PROVE c \in S
        <3>1. c \in Refs(h) /\ r[c] < r[x] /\ r[c] \in Nat /\ r[x] \in Nat
            BY <1>2
        <3>2. r[c] < n
            BY <3>1
        <3> QED
            BY <1>4, <3>1, <3>2
    <2> QED
        BY <2>1
<1> HIDE DEF P
<1> DEFINE T == {n \in Nat : P(n)}
<1>5. 0 \in T /\ \A n \in Nat : n \in T => n + 1 \in T
    BY <1>3, <1>4
<1>6. \A n \in Nat : n \in T
    <2> HIDE DEF T
    <2> QED
        BY <1>5, SetInduction
<1>7. ASSUME NEW x \in Refs(h) PROVE x \in S
    <2>1. r[x] \in Nat /\ r[x] + 1 \in Nat /\ r[x] < r[x] + 1
        BY <1>2
    <2>2. P(r[x] + 1)
        BY <1>6, <2>1
    <2> QED
        BY <2>1, <2>2 DEF P
<1> QED
    BY <1>7

\* Deeper than its rank there is nothing more to see of an error.
LEMMA VisitsStable ==
    ASSUME NEW C, NEW h \in Heaps(C), NEW r \in Ranks(h), NEW x \in Refs(h),
           NEW d \in Nat, r[x] < d
    PROVE  Visits(h)[d + 1][x] = Visits(h)[d][x]
<1> DEFINE V == [Int -> Seq(Int)]
           P(n) == \A y \in Refs(h) : r[y] < n => Visits(h)[n + 1][y] = Visits(h)[n][y]
<1>1. /\ r \in [Refs(h) -> Nat]
      /\ \A y \in Refs(h) : \A z \in Children(h, y) : z \in Refs(h) /\ r[z] < r[y]
    BY DEF Ranks
<1>2. P(0)
    BY <1>1
<1>3. ASSUME NEW n \in Nat, P(n) PROVE P(n + 1)
    <2> SUFFICES ASSUME NEW y \in Refs(h), r[y] < n + 1
                 PROVE  Visits(h)[(n + 1) + 1][y] = Visits(h)[n + 1][y]
        OBVIOUS
    <2> DEFINE u == Unwrap(h, y)
    <2>1. y \in Int /\ u \in Seq(Int)
        BY RefsType, UnwrapType
    <2>2. ASSUME NEW i \in 1 .. Len(u) PROVE Visits(h)[n + 1][u[i]] = Visits(h)[n][u[i]]
        <3>1. u[i] \in Children(h, y)
            BY <2>1 DEF Children, ToSet
        <3>2. u[i] \in Refs(h) /\ r[u[i]] < r[y] /\ r[u[i]] \in Nat /\ r[y] \in Nat
            BY <1>1, <3>1
        <3>3. r[u[i]] < n
            BY <3>2
        <3> QED
            BY <1>3, <3>2, <3>3
    <2>3. Below(h, Visits(h)[n + 1], y) = Below(h, Visits(h)[n], y)
        BY <2>2 DEF Below
    <2>4. /\ Visits(h)[(n + 1) + 1][y] = <<y>> \o FlattenSeq(Below(h, Visits(h)[n + 1], y))
          /\ Visits(h)[n + 1][y] = <<y>> \o FlattenSeq(Below(h, Visits(h)[n], y))
        <3>1. \A k \in Nat : Visits(h)[k + 1][y] = <<y>> \o FlattenSeq(Below(h, Visits(h)[k], y))
            BY <2>1, VisitsEquation
        <3>2. n + 1 \in Nat
            OBVIOUS
        <3> QED
            BY <3>1, <3>2
    <2> QED
        BY <2>3, <2>4
<1> HIDE DEF P
<1> DEFINE T == {n \in Nat : P(n)}
<1>4. 0 \in T /\ \A n \in Nat : n \in T => n + 1 \in T
    BY <1>2, <1>3
<1>5. \A n \in Nat : n \in T
    <2> HIDE DEF T
    <2> QED
        BY <1>4, SetInduction
<1>6. P(d)
    BY <1>5
<1> QED
    BY <1>6 DEF P

Whole(h) == Visits(h)[Len(h) + 1]

LEMMA WholeType ==
    ASSUME NEW C, NEW h \in Heaps(C)
    PROVE  /\ Whole(h) \in [Int -> Seq(Int)]
           /\ \A v : v # Nil => Preorder(h, v) = Whole(h)[v]
<1>1. Len(h) + 1 \in Nat
    BY DEF Heaps
<1> QED
    BY <1>1, VisitsEquation DEF Whole, Preorder

WholeBelow(h, v) ==
    /\ Len(Below(h, Whole(h), v)) = Len(Unwrap(h, v))
    /\ \A i \in 1 .. Len(Unwrap(h, v)) : Below(h, Whole(h), v)[i] = Whole(h)[Unwrap(h, v)[i]]

LEMMA BelowWhole ==
    ASSUME NEW C, NEW h \in Heaps(C), NEW v
    PROVE  Below(h, Whole(h), v) \in Seq(Seq(Int)) /\ WholeBelow(h, v)
<1> DEFINE W == Seq(Int)
           g == Whole(h)
<1>1. g \in [Int -> W]
    BY WholeType
<1> HIDE DEF W, g
<1>2. /\ Below(h, g, v) \in Seq(W)
      /\ Len(Below(h, g, v)) = Len(Unwrap(h, v))
      /\ \A i \in 1 .. Len(Unwrap(h, v)) : Below(h, g, v)[i] = g[Unwrap(h, v)[i]]
    BY <1>1, BelowType
<1> QED
    BY <1>2 DEF W, g, WholeBelow

\* A search of an error visits it and then searches what it unwraps to, in
\* that order, however deep the graph is.
LEMMA PreorderEquation ==
    ASSUME NEW C, NEW h \in Heaps(C), Ranked(h), NEW v \in Refs(h)
    PROVE  Whole(h)[v] = <<v>> \o FlattenSeq(Below(h, Whole(h), v))
<1>1. PICK r \in Ranks(h) : \A x \in Refs(h) : r[x] <= Len(h)
    BY BoundedRank
<1>2. /\ r \in [Refs(h) -> Nat]
      /\ \A y \in Refs(h) : \A z \in Children(h, y) : z \in Refs(h) /\ r[z] < r[y]
    BY <1>1 DEF Ranks
<1>3. Len(h) \in Nat /\ v \in Int
    BY RefsType
<1> DEFINE u == Unwrap(h, v)
<1>4. u \in Seq(Int)
    BY UnwrapType
<1>5. ASSUME NEW i \in 1 .. Len(u) PROVE Visits(h)[Len(h) + 1][u[i]] = Visits(h)[Len(h)][u[i]]
    <2>1. u[i] \in Children(h, v)
        BY <1>4 DEF Children, ToSet
    <2>2. u[i] \in Refs(h) /\ r[u[i]] < r[v] /\ r[u[i]] \in Nat /\ r[v] \in Nat /\ r[v] <= Len(h)
        BY <1>1, <1>2, <2>1
    <2>3. r[u[i]] < Len(h)
        BY <1>3, <2>2
    <2> QED
        BY <1>1, <1>3, <2>2, <2>3, VisitsStable
<1>6. Below(h, Visits(h)[Len(h) + 1], v) = Below(h, Visits(h)[Len(h)], v)
    BY <1>5 DEF Below
<1>7. Visits(h)[Len(h) + 1][v] = <<v>> \o FlattenSeq(Below(h, Visits(h)[Len(h)], v))
    BY <1>3, VisitsEquation
<1> QED
    BY <1>6, <1>7 DEF Whole

LEMMA IsUnfold ==
    ASSUME NEW C, NEW h \in Heaps(C), Ranked(h), NEW v \in Refs(h)
    PROVE  \A y : Is(h, v, y) <=> y = v \/ \E c \in Children(h, v) : Is(h, c, y)
<1>1. PICK r \in Ranks(h) : \A x \in Refs(h) : r[x] <= Len(h)
    BY BoundedRank
<1>2. /\ r \in [Refs(h) -> Nat]
      /\ \A y \in Refs(h) : \A z \in Children(h, y) : z \in Refs(h) /\ r[z] < r[y]
    BY <1>1 DEF Ranks
<1>3. Len(h) \in Nat /\ v \in Int /\ v # Nil
    BY RefsType
<1>4. ASSUME NEW c \in Children(h, v) PROVE c \in Int /\ c # Nil /\ Seen(h, Len(h) + 1, c) = Seen(h, Len(h), c)
    <2>1. c \in Refs(h) /\ r[c] < r[v] /\ r[c] \in Nat /\ r[v] \in Nat /\ r[v] <= Len(h)
        BY <1>1, <1>2
    <2>2. r[c] < Len(h)
        BY <1>3, <2>1
    <2>3. Visits(h)[Len(h) + 1][c] = Visits(h)[Len(h)][c]
        BY <1>1, <1>3, <2>1, <2>2, VisitsStable
    <2> QED
        BY <2>1, <2>3, RefsType DEF Seen
<1>5. ASSUME NEW y PROVE Is(h, v, y) <=> y = v \/ \E c \in Children(h, v) : Is(h, c, y)
    <2>1. Is(h, v, y) <=> y \in Seen(h, Len(h) + 1, v)
        BY <1>3, IsDef
    <2>2. y \in Seen(h, Len(h) + 1, v) <=> y = v \/ \E c \in Children(h, v) : y \in Seen(h, Len(h), c)
        BY <1>3, SeenDef
    <2>3. \A c \in Children(h, v) : Is(h, c, y) <=> y \in Seen(h, Len(h), c)
        BY <1>4, IsDef
    <2> QED
        BY <2>1, <2>2, <2>3
<1> QED
    BY <1>5

\* errors.Is stays in the heap and is transitive.
LEMMA IsTransitive ==
    ASSUME NEW C, NEW h \in Heaps(C), Ranked(h)
    PROVE  \A x \in Refs(h) : /\ Is(h, x, x)
                              /\ \A y : Is(h, x, y) => y \in Refs(h)
                              /\ \A y, z : Is(h, x, y) /\ Is(h, y, z) => Is(h, x, z)
<1> DEFINE Good(x) == /\ \A y : Is(h, x, y) => y \in Refs(h)
                      /\ \A y, z : Is(h, x, y) /\ Is(h, y, z) => Is(h, x, z)
           S == {x \in Refs(h) : Good(x)}
<1>1. ASSUME NEW x \in Refs(h), \A c \in Children(h, x) : Good(c) PROVE Good(x)
    <2>1. \A y : Is(h, x, y) <=> y = x \/ \E c \in Children(h, x) : Is(h, c, y)
        BY IsUnfold
    <2> QED
        BY <1>1, <2>1
<1>2. ASSUME NEW x \in Refs(h) PROVE Is(h, x, x)
    BY <1>2, IsUnfold
<1> HIDE DEF Good
<1>3. \A x \in Refs(h) : (\A c \in Children(h, x) : c \in S) => x \in S
    BY <1>1
<1>4. \A x \in Refs(h) : x \in S
    <2> HIDE DEF S
    <2> QED
        BY <1>3, GraphInduction
<1> QED
    BY <1>2, <1>4 DEF Good

\* Traversals of a ranked heap end.
LEMMA HasPathEquation ==
    ASSUME NEW C, NEW h \in Heaps(C)
    PROVE  \A d \in Nat : \A x \in Int :
                HasPath(h)[d + 1][x] <=> \E c \in Children(h, x) : HasPath(h)[d][c]
<1> DEFINE V == [Int -> BOOLEAN]
           a == [x \in Int |-> TRUE]
           next(g, x) == \E i \in 1 .. Len(Unwrap(h, x)) : g[Unwrap(h, x)[i]]
           step == [n \in Nat |-> [g \in V |-> [x \in Int |-> next(g, x)]]]
           Solves(f) == f = [d \in Nat |-> [x \in Int |-> d = 0 \/ next(f[d - 1], x)]]
<1>1. \A g \in V, x \in Int : next(g, x) \in BOOLEAN
    OBVIOUS
<1>2. a \in V
    OBVIOUS
<1>3. HasPath(h) = CHOOSE f : Solves(f)
    BY DEF HasPath
<1> HIDE DEF next
<1>4. step \in Steps(V)
    BY <1>1 DEF Steps
<1>5. \A n \in Nat, g \in V : step[n][g] = [x \in Int |-> next(g, x)]
    OBVIOUS
<1>6. a = [x \in Int |-> TRUE]
    OBVIOUS
<1> HIDE DEF step, V, a
<1>7. PICK f : Iterates(f, V, a, step)
    BY <1>2, <1>4, Iteration
<1>8. f \in [Nat -> V] /\ f[0] = a /\ \A n \in Nat : f[n + 1] = step[n][f[n]]
    BY <1>7 DEF Iterates
<1>9. ASSUME NEW d \in Nat PROVE f[d] = [x \in Int |-> d = 0 \/ next(f[d - 1], x)]
    <2>1. CASE d = 0
        <3>1. [x \in Int |-> d = 0 \/ next(f[d - 1], x)] = [x \in Int |-> TRUE]
            BY <2>1
        <3> QED
            BY <1>6, <1>8, <2>1, <3>1
    <2>2. CASE d # 0
        <3>1. d - 1 \in Nat /\ (d - 1) + 1 = d
            BY <2>2
        <3>2. f[d - 1] \in V
            BY <1>8, <3>1
        <3>3. f[d] = [x \in Int |-> next(f[d - 1], x)]
            BY <1>5, <1>8, <3>1, <3>2
        <3>4. [x \in Int |-> d = 0 \/ next(f[d - 1], x)] = [x \in Int |-> next(f[d - 1], x)]
            <4>1. \A x \in Int : (d = 0 \/ next(f[d - 1], x)) = next(f[d - 1], x)
                BY <1>1, <2>2, <3>2
            <4> QED
                BY <4>1
        <3> QED
            BY <3>3, <3>4
    <2> QED
        BY <2>1, <2>2
<1>10. Solves(f)
    <2>1. f = [d \in Nat |-> f[d]]
        BY <1>8
    <2> QED
        BY <1>9, <2>1
<1> HIDE DEF Solves
<1>11. Solves(HasPath(h))
    BY <1>3, <1>10
<1> DEFINE v == HasPath(h)
<1> HIDE DEF v
<1>12. v = [d \in Nat |-> [x \in Int |-> d = 0 \/ next(v[d - 1], x)]]
    BY <1>11 DEF Solves, v
<1>13. ASSUME NEW d \in Nat, NEW x \in Int PROVE v[d + 1][x] <=> \E c \in Children(h, x) : v[d][c]
    <2>1. (d + 1) - 1 = d /\ d + 1 # 0 /\ d + 1 \in Nat
        OBVIOUS
    <2>2. v[d + 1][x] = (d + 1 = 0 \/ next(v[(d + 1) - 1], x))
        BY <1>12, <2>1
    <2>3. v[d + 1][x] <=> next(v[d], x)
        BY <2>1, <2>2
    <2> DEFINE u == Unwrap(h, x)
    <2>4. u \in Seq(Int)
        BY UnwrapType
    <2>5. Children(h, x) = ToSet(u)
        BY DEF Children
    <2>6. next(v[d], x) <=> \E i \in 1 .. Len(u) : v[d][u[i]]
        BY DEF next
    <2> HIDE DEF u
    <2>7. DOMAIN u = 1 .. Len(u)
        BY <2>4
    <2> QED
        BY <2>3, <2>5, <2>6, <2>7 DEF ToSet
<1> QED
    BY <1>13 DEF v

LEMMA RankedIsFinite ==
    ASSUME NEW C, NEW h \in Heaps(C), Ranked(h), NEW v \in Refs(h)
    PROVE  Finite(h, v)
<1>1. PICK r \in Ranks(h) : \A x \in Refs(h) : r[x] <= Len(h)
    BY BoundedRank
<1>2. /\ r \in [Refs(h) -> Nat]
      /\ \A y \in Refs(h) : \A z \in Children(h, y) : z \in Refs(h) /\ r[z] < r[y]
    BY <1>1 DEF Ranks
<1>3. Len(h) \in Nat /\ Refs(h) \subseteq Int
    BY RefsType
<1> DEFINE P(n) == \A x \in Refs(h) : r[x] < n => ~HasPath(h)[n][x]
<1>4. P(0)
    BY <1>2
<1>5. ASSUME NEW n \in Nat, P(n) PROVE P(n + 1)
    <2> SUFFICES ASSUME NEW x \in Refs(h), r[x] < n + 1, HasPath(h)[n + 1][x] PROVE FALSE
        OBVIOUS
    <2>1. PICK c \in Children(h, x) : HasPath(h)[n][c]
        BY <1>3, HasPathEquation
    <2>2. c \in Refs(h) /\ r[c] < r[x] /\ r[c] \in Nat /\ r[x] \in Nat
        BY <1>2
    <2>3. r[c] < n
        BY <2>2
    <2> QED
        BY <1>5, <2>1, <2>2, <2>3
<1> HIDE DEF P
<1> DEFINE T == {n \in Nat : P(n)}
<1>6. 0 \in T /\ \A n \in Nat : n \in T => n + 1 \in T
    BY <1>4, <1>5
<1>7. \A n \in Nat : n \in T
    <2> HIDE DEF T
    <2> QED
        BY <1>6, SetInduction
<1>8. r[v] < Len(h) + 1 /\ Len(h) + 1 \in Nat
    BY <1>1, <1>2, <1>3
<1>9. P(Len(h) + 1)
    BY <1>7, <1>8
<1> QED
    BY <1>8, <1>9 DEF P, Finite

-----------------------------------------------------------------------------
(* errors.As *)

LEMMA FirstInCat ==
    ASSUME NEW s \in Seq(Int), NEW t \in Seq(Int), NEW T, Nil \notin T
    PROVE  FirstIn(s \o t, T) = IF FirstIn(s, T) # Nil THEN FirstIn(s, T) ELSE FirstIn(t, T)
<1> DEFINE u == s \o t
           m == Len(s)
<1>1. /\ u \in Seq(Int) /\ m \in Nat /\ Len(t) \in Nat /\ Len(u) = m + Len(t)
      /\ \A i \in 1 .. m : u[i] = s[i]
      /\ \A i \in 1 .. Len(t) : u[m + i] = t[i]
    OBVIOUS
<1>2. \A i \in 1 .. Len(u) : i \in 1 .. m \/ (i - m \in 1 .. Len(t) /\ u[i] = t[i - m])
    BY <1>1
<1>3. m = Len(s)
    OBVIOUS
<1> HIDE DEF u, m
<1>4. FirstIn(u, T) = IF FirstIn(s, T) # Nil THEN FirstIn(s, T) ELSE FirstIn(t, T)
    <2>1. CASE \E i \in 1 .. m : s[i] \in T
        <3>1. PICK i \in 1 .. m : FirstIn(s, T) = s[i] /\ s[i] \in T /\ \A j \in 1 .. i - 1 : s[j] \notin T
            BY <1>3, <2>1, FirstInIndex
        <3>2. i \in 1 .. Len(u) /\ u[i] \in T
            BY <1>1, <3>1
        <3>3. PICK k \in 1 .. Len(u) : FirstIn(u, T) = u[k] /\ u[k] \in T /\ \A j \in 1 .. k - 1 : u[j] \notin T
            BY <1>1, <3>2, FirstInIndex
        <3>4. ~ (i < k)
            BY <3>2, <3>3
        <3>5. k \in 1 .. m /\ u[k] = s[k]
            BY <1>1, <3>4
        <3>6. ~ (k < i)
            BY <3>1, <3>3, <3>5
        <3>7. i = k
            BY <3>4, <3>6
        <3> QED
            BY <3>1, <3>3, <3>5, <3>7
    <2>2. CASE \A i \in 1 .. m : s[i] \notin T
        <3>1. FirstIn(s, T) = Nil
            BY <1>3, <2>2, FirstInIndex
        <3>2. CASE \A i \in 1 .. Len(t) : t[i] \notin T
            <4>1. \A i \in 1 .. Len(u) : u[i] \notin T
                BY <1>1, <1>2, <2>2, <3>2
            <4>2. FirstIn(u, T) = Nil /\ FirstIn(t, T) = Nil
                BY <1>1, <3>2, <4>1, FirstInIndex
            <4> QED
                BY <3>1, <4>2
        <3>3. CASE \E i \in 1 .. Len(t) : t[i] \in T
            <4>1. PICK i \in 1 .. Len(t) : FirstIn(t, T) = t[i] /\ t[i] \in T /\ \A j \in 1 .. i - 1 : t[j] \notin T
                BY <3>3, FirstInIndex
            <4>2. m + i \in 1 .. Len(u) /\ u[m + i] \in T
                <5>1. u[m + i] = t[i] /\ i \in Nat /\ i >= 1 /\ i <= Len(t)
                    BY <1>1, <4>1
                <5>2. Len(u) = m + Len(t) /\ m \in Nat /\ Len(t) \in Nat /\ t[i] \in T
                    BY <1>1, <4>1
                <5> QED
                    BY <5>1, <5>2
            <4>3. PICK k \in 1 .. Len(u) : FirstIn(u, T) = u[k] /\ u[k] \in T /\ \A j \in 1 .. k - 1 : u[j] \notin T
                BY <1>1, <4>2, FirstInIndex
            <4>4. k - m \in 1 .. Len(t) /\ u[k] = t[k - m]
                BY <1>1, <1>2, <2>2, <4>3
            <4>5. ~ (m + i < k)
                BY <1>1, <4>2, <4>3
            <4>6. ~ (k - m < i)
                <5> SUFFICES ASSUME k - m < i PROVE FALSE
                    OBVIOUS
                <5>1. k - m \in 1 .. i - 1
                    BY <4>1, <4>4
                <5>2. t[k - m] \notin T
                    BY <4>1, <5>1
                <5> QED
                    BY <4>3, <4>4, <5>2
            <4>7. i = k - m
                BY <1>1, <4>4, <4>5, <4>6
            <4> QED
                BY <3>1, <4>1, <4>3, <4>4, <4>7
        <3> QED
            BY <3>2, <3>3
    <2> QED
        BY <2>1, <2>2
<1> QED
    BY <1>4 DEF u

LEMMA FirstInFlatten ==
    ASSUME NEW ss \in Seq(Seq(Int)), NEW T, Nil \notin T
    PROVE  \/ FirstIn(FlattenSeq(ss), T) = Nil /\ \A i \in 1 .. Len(ss) : FirstIn(ss[i], T) = Nil
           \/ \E i \in 1 .. Len(ss) : /\ FirstIn(FlattenSeq(ss), T) = FirstIn(ss[i], T) /\ FirstIn(ss[i], T) # Nil
                                      /\ \A j \in 1 .. i - 1 : FirstIn(ss[j], T) = Nil
<1>1. PICK f \in [Nat -> Seq(Int)] :
            /\ f[0] = <<>>
            /\ \A i \in 1 .. Len(ss) : f[i] = f[i - 1] \o ss[i]
            /\ FlattenSeq(ss) = f[Len(ss)]
    BY FlattenDef
<1>2. Len(ss) \in Nat
    OBVIOUS
<1> DEFINE None(n) == \A i \in 1 .. n : FirstIn(ss[i], T) = Nil
           Some(n, i) == FirstIn(f[n], T) = FirstIn(ss[i], T) /\ FirstIn(ss[i], T) # Nil /\ None(i - 1)
           P(n) == n <= Len(ss) =>
                        \/ FirstIn(f[n], T) = Nil /\ None(n)
                        \/ \E i \in 1 .. n : Some(n, i)
<1>3. P(0)
    <2>1. <<>> \in Seq(Int) /\ Len(<<>>) = 0
        OBVIOUS
    <2>2. ASSUME NEW q \in Seq(Int), Len(q) = 0 PROVE FirstIn(q, T) = Nil
        <3>1. \A i \in 1 .. Len(q) : FALSE
            BY <2>2
        <3> QED
            BY <3>1, FirstInIndex
    <2> QED
        BY <1>1, <2>1, <2>2
<1>4. ASSUME NEW n \in Nat, P(n) PROVE P(n + 1)
    <2> SUFFICES ASSUME n + 1 <= Len(ss)
                 PROVE  \/ FirstIn(f[n + 1], T) = Nil /\ None(n + 1)
                        \/ \E i \in 1 .. n + 1 : Some(n + 1, i)
        OBVIOUS
    <2>1. n <= Len(ss) /\ n + 1 \in 1 .. Len(ss) /\ (n + 1) - 1 = n
        BY <1>2
    <2>2. f[n + 1] = f[n] \o ss[n + 1]
        BY <1>1, <2>1
    <2>4. f[n] \in Seq(Int) /\ ss[n + 1] \in Seq(Int)
        BY <2>1
    <2>3. FirstIn(f[n + 1], T) = IF FirstIn(f[n], T) # Nil THEN FirstIn(f[n], T) ELSE FirstIn(ss[n + 1], T)
        <3> DEFINE q == f[n]
                   t == ss[n + 1]
        <3>1. q \in Seq(Int) /\ t \in Seq(Int) /\ f[n + 1] = q \o t
            BY <2>2, <2>4
        <3> HIDE DEF q, t
        <3>2. FirstIn(q \o t, T) = IF FirstIn(q, T) # Nil THEN FirstIn(q, T) ELSE FirstIn(t, T)
            BY <3>1, FirstInCat
        <3> QED
            BY <3>1, <3>2 DEF q, t
    <2>5. CASE \E i \in 1 .. n : Some(n, i)
        <3>1. PICK i \in 1 .. n : Some(n, i)
            BY <2>5
        <3>2. i \in 1 .. n + 1 /\ Some(n + 1, i)
            BY <2>3, <3>1
        <3> QED
            BY <3>2
    <2>6. CASE FirstIn(f[n], T) = Nil /\ None(n)
        <3>1. FirstIn(f[n + 1], T) = FirstIn(ss[n + 1], T)
            BY <2>3, <2>6
        <3>2. CASE FirstIn(ss[n + 1], T) = Nil
            <4>1. \A i \in 1 .. n + 1 : i \in 1 .. n \/ i = n + 1
                OBVIOUS
            <4> QED
                BY <2>6, <3>1, <3>2, <4>1
        <3>3. CASE FirstIn(ss[n + 1], T) # Nil
            <4>1. n + 1 \in 1 .. n + 1 /\ Some(n + 1, n + 1)
                BY <2>1, <2>6, <3>1, <3>3
            <4> QED
                BY <4>1
        <3> QED
            BY <3>2, <3>3
    <2> QED
        BY <1>4, <2>1, <2>5, <2>6
<1> HIDE DEF P
<1> DEFINE N == {n \in Nat : P(n)}
<1>5. 0 \in N /\ \A n \in Nat : n \in N => n + 1 \in N
    BY <1>3, <1>4
<1>6. \A n \in Nat : n \in N
    <2> HIDE DEF N
    <2> QED
        BY <1>5, SetInduction
<1>7. P(Len(ss)) /\ Len(ss) <= Len(ss)
    BY <1>2, <1>6
<1> QED
    BY <1>1, <1>7 DEF P, None, Some

ErrxIn(h) == {x \in Int : IsErrx(h, x)}

LEMMA AsIsFirst ==
    ASSUME NEW C, NEW h \in Heaps(C), NEW v \in Int, v # Nil
    PROVE  As(h, v) = FirstIn(Whole(h)[v], ErrxIn(h))
<1> DEFINE s == Whole(h)[v]
<1>1. s \in Seq(Int) /\ Preorder(h, v) = s
    BY WholeType
<1>2. As(h, v) = FirstThat(s, LAMBDA x : IsErrx(h, x), Nil)
    BY <1>1 DEF As
<1> HIDE DEF s
<1>3. {i \in 1 .. Len(s) : IsErrx(h, s[i])} = {i \in 1 .. Len(s) : s[i] \in ErrxIn(h)}
    BY <1>1 DEF ErrxIn
<1>4. SelectInSeq(s, LAMBDA x : IsErrx(h, x)) = SelectInSeq(s, LAMBDA x : x \in ErrxIn(h))
    BY <1>3 DEF SelectInSeq
<1>5. As(h, v) = FirstIn(s, ErrxIn(h))
    BY <1>2, <1>4 DEF FirstIn, FirstThat
<1> QED
    BY <1>5 DEF s

\* What errors.As finds is an *Error in the graph; an *Error finds itself, and
\* another error what something it unwraps to finds.
LEMMA AsType ==
    ASSUME NEW C, NEW h \in Heaps(C), NEW v \in Int, v # Nil
    PROVE  As(h, v) = Nil \/ (Is(h, v, As(h, v)) /\ IsErrx(h, As(h, v)) /\ As(h, v) \in Int)
<1>1. As(h, v) = FirstIn(Whole(h)[v], ErrxIn(h)) /\ Whole(h)[v] \in Seq(Int) /\ Preorder(h, v) = Whole(h)[v]
    BY AsIsFirst, WholeType
<1>2. As(h, v) = Nil \/ As(h, v) \in ToSet(Whole(h)[v]) \cap ErrxIn(h)
    BY <1>1, FirstInType
<1> QED
    BY <1>1, <1>2 DEF Is, ErrxIn

LEMMA AsErrx ==
    ASSUME NEW C, NEW h \in Heaps(C), NEW v \in Int, v # Nil, IsErrx(h, v)
    PROVE  As(h, v) = v
<1> DEFINE g == Visits(h)[Len(h)]
           s == FlattenSeq(Below(h, g, v))
           W == Seq(Int)
<1>1. Len(h) \in Nat
    BY DEF Heaps
<1>2. g \in [Int -> W]
    BY <1>1, VisitsEquation
<1>3. s \in Seq(Int)
    <2> HIDE DEF W, g
    <2>1. Below(h, g, v) \in Seq(W)
        BY <1>2, BelowType
    <2>2. Below(h, g, v) \in Seq(Seq(Int))
        BY <2>1 DEF W
    <2> QED
        BY <2>2, FlattenType
<1>4. Whole(h)[v] = <<v>> \o s
    BY <1>1, VisitsEquation DEF Whole
<1> HIDE DEF s, g, W
<1>5. v \in ErrxIn(h)
    BY DEF ErrxIn
<1>6. FirstIn(Whole(h)[v], ErrxIn(h)) = v
    BY <1>3, <1>4, <1>5, FirstInHead
<1> QED
    BY <1>6, AsIsFirst

LEMMA AsBelow ==
    ASSUME NEW C, NEW h \in Heaps(C), Ranked(h), NEW v \in Refs(h), ~IsErrx(h, v)
    PROVE  As(h, v) = Nil \/ \E c \in Children(h, v) : As(h, v) = As(h, c)
<1> DEFINE g == Whole(h)
           u == Unwrap(h, v)
           b == Below(h, g, v)
           T == ErrxIn(h)
<1>1. v \in Int /\ v # Nil
    BY RefsType
<1>2. u \in Seq(Int)
    BY UnwrapType
<1>3. Whole(h)[v] = <<v>> \o FlattenSeq(b)
    BY PreorderEquation
<1>4. Nil \notin T /\ v \notin T
    BY DEF ErrxIn, IsErrx, Nil, TypedNil
<1>5. \A c \in Children(h, v) : c \in Int /\ c # Nil
    <2>1. PICK r : r \in Ranks(h)
        BY DEF Ranked
    <2> QED
        BY <2>1, RefsType DEF Ranks
<1>6. b \in Seq(Seq(Int)) /\ Len(b) = Len(u) /\ \A i \in 1 .. Len(u) : b[i] = g[u[i]]
    <2>1. Below(h, Whole(h), v) \in Seq(Seq(Int)) /\ WholeBelow(h, v)
        BY BelowWhole
    <2> QED
        BY <2>1 DEF WholeBelow
<1>7. As(h, v) = FirstIn(Whole(h)[v], T) /\ \A c \in Children(h, v) : As(h, c) = FirstIn(g[c], T)
    BY <1>1, <1>5, AsIsFirst
<1> HIDE DEF b, T
<1>8. FlattenSeq(b) \in Seq(Int)
    BY <1>6, FlattenType
<1>9. FirstIn(Whole(h)[v], T) = FirstIn(FlattenSeq(b), T)
    BY <1>1, <1>3, <1>4, <1>8, FirstInHead
<1>10. \/ FirstIn(FlattenSeq(b), T) = Nil
       \/ \E i \in 1 .. Len(b) : FirstIn(FlattenSeq(b), T) = FirstIn(b[i], T)
    BY <1>4, <1>6, FirstInFlatten
<1>11. \A i \in 1 .. Len(u) : u[i] \in Children(h, v)
    <2>1. DOMAIN u = 1 .. Len(u)
        BY <1>2
    <2> QED
        BY <2>1 DEF Children, ToSet
<1> QED
    BY <1>6, <1>7, <1>9, <1>10, <1>11

-----------------------------------------------------------------------------
(* What the operations do to a heap *)

\* k has a new error n, the others are as they were in h.
Extends(k, h, n) ==
    /\ Len(k) = Len(h) + 1
    /\ DOMAIN k = DOMAIN h \cup {Len(h) + 1} /\ Refs(k) = Refs(h) \cup {Len(h) + 1}
    /\ Len(h) + 1 \notin Refs(h)
    /\ k[Len(h) + 1] = n
    /\ \A x \in DOMAIN h : k[x] = h[x]
    /\ \A x \in Refs(h) : Unwrap(k, x) = Unwrap(h, x) /\ Children(k, x) = Children(h, x)
    /\ \A x : Children(h, x) \subseteq Children(k, x)
    /\ \A v \in Int : \A y : Is(h, v, y) => Is(k, v, y)

LEMMA AllocHeap ==
    ASSUME NEW C, NEW h \in Heaps(C), NEW n \in Node(C), Ranked(h),
           n.cause \in Refs(h) \cup {Nil}, ToSet(n.supp) \subseteq Refs(h)
    PROVE  /\ Append(h, n) \in Heaps(C)
           /\ Extends(Append(h, n), h, n)
           /\ Ranked(Append(h, n))
<1> DEFINE k == Append(h, n)
           m == Len(h) + 1
<1>1. /\ k \in Heaps(C) /\ Len(k) = m /\ k[m] = n
      /\ \A x \in DOMAIN h : k[x] = h[x]
    BY DEF Heaps
<1>2. Len(h) \in Nat /\ DOMAIN h = 1 .. Len(h) /\ DOMAIN k = 1 .. Len(k)
    BY <1>1, RefsType
<1>3. DOMAIN k = DOMAIN h \cup {m} /\ Refs(k) = Refs(h) \cup {m} /\ m \notin Refs(h)
    <2>1. DOMAIN k = DOMAIN h \cup {m}
        BY <1>1, <1>2
    <2>2. m \notin DOMAIN h /\ m # TypedNil
        BY <1>2 DEF TypedNil
    <2> HIDE DEF k, m
    <2> QED
        BY <2>1, <2>2 DEF Refs
<1> HIDE DEF k
<1>4. \A x \in Refs(h) : Unwrap(k, x) = Unwrap(h, x) /\ Children(k, x) = Children(h, x)
    <2> TAKE x \in Refs(h)
    <2>1. x \in DOMAIN k <=> x \in DOMAIN h
        BY <1>3
    <2>2. Unwrap(k, x) = Unwrap(h, x)
        BY <1>1, <2>1 DEF Unwrap
    <2> QED
        BY <2>2 DEF Children
<1>5. \A x : Children(h, x) \subseteq Children(k, x)
    <2> TAKE x
    <2>1. CASE x \in DOMAIN h
        BY <1>4, <2>1 DEF Refs
    <2>2. CASE x \notin DOMAIN h
        BY <2>2, ChildrenOf
    <2> QED
        BY <2>1, <2>2
<1>6. \A v \in Int : \A y : Is(h, v, y) => Is(k, v, y)
    <2>1. Len(h) <= Len(k)
        BY <1>1, <1>2
    <2> QED
        BY <1>1, <1>5, <2>1, MatchesGrow
<1>7. Extends(k, h, n)
    BY <1>1, <1>3, <1>4, <1>5, <1>6 DEF Extends
<1>8. Children(k, m) \subseteq Refs(h)
    <2>1. m \in DOMAIN k
        BY <1>3
    <2>2. Children(k, m) \subseteq (({n.cause} \ {Nil}) \cup ToSet(n.supp))
        BY <1>1, <2>1, ChildrenOf
    <2> QED
        BY <2>2
<1>9. Ranked(k)
    <2>1. PICK r \in Ranks(h) : \A x \in Refs(h) : r[x] <= Len(h)
        BY BoundedRank
    <2>2. /\ r \in [Refs(h) -> Nat]
          /\ \A x \in Refs(h) : \A y \in Children(h, x) : y \in Refs(h) /\ r[y] < r[x]
        BY <2>1 DEF Ranks
    <2> DEFINE q == [x \in Refs(k) |-> IF x = m THEN m ELSE r[x]]
    <2>3. q \in [Refs(k) -> Nat]
        BY <1>2, <1>3, <2>2
    <2>4. ASSUME NEW x \in Refs(k), NEW y \in Children(k, x) PROVE y \in Refs(k) /\ q[y] < q[x]
        <3>1. CASE x = m
            <4>1. y \in Refs(h) /\ y # m /\ r[y] \in Nat /\ r[y] <= Len(h)
                BY <1>3, <1>8, <2>1, <2>2, <3>1
            <4> QED
                BY <1>2, <1>3, <3>1, <4>1
        <3>2. CASE x # m
            <4>1. x \in Refs(h) /\ y \in Children(h, x)
                BY <1>3, <1>4, <3>2
            <4>2. y \in Refs(h) /\ y # m /\ r[y] < r[x]
                BY <1>3, <2>2, <4>1
            <4> QED
                BY <1>3, <3>2, <4>1, <4>2
        <3> QED
            BY <3>1, <3>2
    <2> HIDE DEF q
    <2>5. q \in Ranks(k)
        BY <2>3, <2>4 DEF Ranks
    <2> QED
        BY <2>5 DEF Ranked
<1> QED
    BY <1>1, <1>7, <1>9 DEF k

\* Attaching an error to one that it does not contain makes no cycle.
LEMMA SuppressHeap ==
    ASSUME NEW C, NEW h \in Heaps(C), Ranked(h), NEW e \in DOMAIN h, NEW s \in Refs(h), ~Is(h, s, e)
    PROVE  LET k == Suppress(h, e, s)
           IN  /\ k \in Heaps(C) /\ Len(k) = Len(h) /\ DOMAIN k = DOMAIN h /\ Refs(k) = Refs(h)
               /\ \A x \in DOMAIN h : x # e => k[x] = h[x]
               /\ k[e] = [h[e] EXCEPT !.supp = Append(@, s)]
               /\ \A x : x # e => Children(k, x) = Children(h, x)
               /\ Children(k, e) = IF h[e].opaque THEN {} ELSE Children(h, e) \cup {s}
               /\ \A v \in Int : \A y : Is(h, v, y) => Is(k, v, y)
               /\ Ranked(k)
<1> DEFINE n == [h[e] EXCEPT !.supp = Append(@, s)]
           k == Suppress(h, e, s)
<1>1. s # Nil /\ s \in Int /\ h[e] \in Node(C)
    BY RefsType DEF Heaps
<1>2. k = [h EXCEPT ![e] = n]
    BY <1>1 DEF Suppress
<1>3. n \in Node(C) /\ n.supp = Append(h[e].supp, s) /\ n.cause = h[e].cause /\ n.opaque = h[e].opaque
    <2>1. \A q \in Seq(Int) : Append(q, s) \in Seq(Int)
        BY <1>1
    <2>2. \A m \in Node(C) : Append(m.supp, s) \in Seq(Int)
        BY <2>1 DEF Node
    <2>3. \A m \in Node(C), q \in Seq(Int) :
            LET f == [m EXCEPT !.supp = q]
            IN  f \in Node(C) /\ f.supp = q /\ f.cause = m.cause /\ f.opaque = m.opaque
        BY DEF Node
    <2> QED
        BY <1>1, <2>2, <2>3
<1> HIDE DEF n, k
<1>4. /\ k \in Heaps(C) /\ Len(k) = Len(h) /\ DOMAIN k = DOMAIN h /\ k[e] = n
      /\ \A x \in DOMAIN h : x # e => k[x] = h[x]
    BY <1>2, <1>3 DEF Heaps
<1>5. Refs(k) = Refs(h)
    BY <1>4 DEF Refs
<1>6. ASSUME NEW x, x # e PROVE Children(k, x) = Children(h, x)
    <2>1. Unwrap(k, x) = Unwrap(h, x)
        BY <1>4, <1>6 DEF Unwrap
    <2> QED
        BY <2>1 DEF Children
<1>7. Children(k, e) = IF h[e].opaque THEN {} ELSE Children(h, e) \cup {s}
    <2>1. ToSet(n.supp) = ToSet(h[e].supp) \cup {s}
        <3> DEFINE p == h[e].supp
        <3>1. p \in Seq(Int)
            BY <1>1 DEF Node
        <3>2. n.supp = Append(p, s)
            BY <1>3
        <3> HIDE DEF p
        <3>3. ToSet(Append(p, s)) = ToSet(p) \cup {s}
            <4> DEFINE q == Append(p, s)
            <4>1. /\ DOMAIN q = DOMAIN p \cup {Len(p) + 1} /\ q[Len(p) + 1] = s
                  /\ \A i \in DOMAIN p : q[i] = p[i]
                BY <1>1, <3>1
            <4> HIDE DEF q
            <4>2. ToSet(q) = ToSet(p) \cup {s}
                BY <4>1 DEF ToSet
            <4> QED
                BY <4>2 DEF q
        <3> QED
            BY <3>2, <3>3 DEF p
    <2>2. Children(k, e) = IF n.opaque THEN {} ELSE ({n.cause} \ {Nil}) \cup ToSet(n.supp)
        BY <1>4, ChildrenOf
    <2>3. Children(h, e) = IF h[e].opaque THEN {} ELSE ({h[e].cause} \ {Nil}) \cup ToSet(h[e].supp)
        BY ChildrenOf
    <2> QED
        BY <1>3, <2>1, <2>2, <2>3
<1>8. \A x : Children(h, x) \subseteq Children(k, x)
    <2>1. h[e].opaque => Children(h, e) = {}
        BY ChildrenOf
    <2> QED
        BY <1>6, <1>7, <2>1
<1>9. \A v \in Int : \A y : Is(h, v, y) => Is(k, v, y)
    <2>1. Len(h) <= Len(k)
        BY <1>4, RefsType
    <2> QED
        BY <1>4, <1>8, <2>1, MatchesGrow
<1>10. Ranked(k)
    <2>1. PICK r : r \in Ranks(h)
        BY DEF Ranked
    <2>2. /\ r \in [Refs(h) -> Nat]
          /\ \A x \in Refs(h) : \A y \in Children(h, x) : y \in Refs(h) /\ r[y] < r[x]
        BY <2>1 DEF Ranks
    <2> DEFINE above(x) == Is(h, x, e)
               q == [x \in Refs(h) |-> IF above(x) THEN r[x] + r[s] + 1 ELSE r[x]]
    <2>3. q \in [Refs(h) -> Nat]
        BY <2>2
    <2>4. e \in Refs(h) /\ above(e) /\ ~above(s)
        <3>1. e \in Refs(h)
            BY DEF Refs
        <3> QED
            BY <3>1, IsTransitive
    <2>5. ASSUME NEW x \in Refs(h), NEW y \in Children(h, x), above(y) PROVE above(x)
        BY <2>5, IsUnfold
    <2> HIDE DEF above
    <2>6. ASSUME NEW x \in Refs(h), NEW y \in Children(h, x) PROVE y \in Refs(h) /\ q[y] < q[x]
        <3>1. y \in Refs(h) /\ r[y] < r[x] /\ r[y] \in Nat /\ r[x] \in Nat /\ r[s] \in Nat
            BY <2>2
        <3> QED
            BY <2>5, <3>1
    <2>7. q[s] < q[e]
        BY <2>2, <2>4
    <2>8. ASSUME NEW x \in Refs(h), NEW y \in Children(k, x) PROVE y \in Refs(h) /\ q[y] < q[x]
        <3>1. y \in Children(h, x) \/ (x = e /\ y = s)
            BY <1>6, <1>7
        <3> HIDE DEF q
        <3> QED
            BY <2>6, <2>7, <3>1
    <2> HIDE DEF q
    <2>9. q \in Ranks(k)
        BY <1>5, <2>3, <2>8 DEF Ranks
    <2> QED
        BY <2>9 DEF Ranked
<1> QED
    BY <1>4, <1>5, <1>6, <1>7, <1>9, <1>10 DEF k, n

\* A new error changes nothing of what an old one contains.
LEMMA ExtendsReflects ==
    ASSUME NEW C, NEW h \in Heaps(C), NEW k \in Heaps(C), NEW n, Ranked(h), Ranked(k), Extends(k, h, n)
    PROVE  \A x \in Refs(h) : \A y : Is(k, x, y) <=> Is(h, x, y)
<1> DEFINE S == {x \in Refs(h) : \A y : Is(k, x, y) <=> Is(h, x, y)}
<1>1. ASSUME NEW x \in Refs(h), \A c \in Children(h, x) : c \in S PROVE x \in S
    <2>1. x \in Refs(k) /\ Children(k, x) = Children(h, x)
        BY DEF Extends
    <2>2. \A y : Is(h, x, y) <=> y = x \/ \E c \in Children(h, x) : Is(h, c, y)
        BY IsUnfold
    <2>3. \A y : Is(k, x, y) <=> y = x \/ \E c \in Children(k, x) : Is(k, c, y)
        BY <2>1, IsUnfold
    <2> QED
        BY <1>1, <2>1, <2>2, <2>3
<1>2. \A x \in Refs(h) : x \in S
    <2> HIDE DEF S
    <2> QED
        BY <1>1, GraphInduction
<1> QED
    BY <1>2

\* Join drops nils, and gives a single error back as it is.
JoinNode(s) == [Blank EXCEPT !.kind = "join", !.supp = s]

LEMMA AppendShort ==
    ASSUME NEW v \in Int, NEW w \in Int
    PROVE  Append(<<>>, v) = <<v>> /\ Append(<<v>>, w) = <<v, w>> /\ Append(<<>>, w) = <<w>>
<1>1. ASSUME NEW x \in Int PROVE Append(<<>>, x) = <<x>>
    <2> DEFINE a == <<>>
    <2>1. a \in Seq(Int) /\ Len(a) = 0
        OBVIOUS
    <2> HIDE DEF a
    <2>2. Append(a, x) \in Seq(Int) /\ <<x>> \in Seq(Int) /\ Len(Append(a, x)) = 1 /\ Len(<<x>>) = 1
        BY <2>1
    <2>3. Append(a, x)[1] = <<x>>[1]
        BY <2>1
    <2>4. \A i \in 1 .. Len(Append(a, x)) : Append(a, x)[i] = <<x>>[i]
        BY <2>2, <2>3
    <2> QED
        BY <2>2, <2>4, SeqEqual DEF a
<1>2. Append(<<v>>, w) = <<v, w>>
    <2> DEFINE a == <<v>>
    <2>1. a \in Seq(Int) /\ Len(a) = 1 /\ a[1] = v
        OBVIOUS
    <2> HIDE DEF a
    <2> DEFINE b == Append(a, w)
               c == <<v, w>>
    <2>2. b \in Seq(Int) /\ Len(b) = 2 /\ b[1] = v /\ b[2] = w
        <3>1. \A q \in Seq(Int), x \in Int :
                /\ Append(q, x) \in Seq(Int) /\ Len(Append(q, x)) = Len(q) + 1
                /\ Append(q, x)[Len(q) + 1] = x
                /\ \A i \in 1 .. Len(q) : Append(q, x)[i] = q[i]
            OBVIOUS
        <3>2. 1 \in 1 .. 1
            OBVIOUS
        <3>3. /\ Append(a, w) \in Seq(Int) /\ Len(Append(a, w)) = Len(a) + 1
              /\ Append(a, w)[Len(a) + 1] = w
              /\ \A i \in 1 .. Len(a) : Append(a, w)[i] = a[i]
            BY <2>1, <3>1
        <3> HIDE DEF b
        <3>4. b \in Seq(Int) /\ Len(b) = 1 + 1 /\ b[1 + 1] = w /\ \A i \in 1 .. 1 : b[i] = a[i]
            BY <2>1, <3>3 DEF b
        <3> QED
            BY <2>1, <3>2, <3>4
    <2>3. c \in Seq(Int) /\ Len(c) = 2 /\ c[1] = v /\ c[2] = w
        OBVIOUS
    <2> HIDE DEF b, c
    <2>4. \A i \in 1 .. 2 : i = 1 \/ i = 2
        OBVIOUS
    <2>5. \A i \in 1 .. Len(b) : b[i] = c[i]
        BY <2>2, <2>3, <2>4
    <2>6. b = c
        BY <2>2, <2>3, <2>5, SeqEqual
    <2> QED
        BY <2>6 DEF a, b, c
<1> QED
    BY <1>1, <1>2

LEMMA JoinOfTwo ==
    ASSUME NEW h, NEW v \in Int, NEW w \in Int
    PROVE  /\ v # Nil /\ w # Nil => Join(h, <<v, w>>) = Alloc(h, JoinNode(<<v, w>>))
           /\ v # Nil /\ w = Nil => Join(h, <<v, w>>) = InPlace(h, v)
           /\ v = Nil /\ w # Nil => Join(h, <<v, w>>) = InPlace(h, w)
           /\ v = Nil /\ w = Nil => Join(h, <<v, w>>) = InPlace(h, Nil)
<1> DEFINE errs == <<v, w>>
           Solves(f) == f = [i \in 0 .. Len(errs) |->
                                IF i = 0 THEN <<>>
                                ELSE IF errs[i] = Nil THEN f[i - 1]
                                ELSE Append(f[i - 1], errs[i])]
           one == IF v = Nil THEN <<>> ELSE <<v>>
           two == IF w = Nil THEN one ELSE Append(one, w)
           g == [i \in 0 .. 2 |-> IF i = 0 THEN <<>> ELSE IF i = 1 THEN one ELSE two]
           kept == CHOOSE f : Solves(f)
<1>1. Len(errs) = 2 /\ errs[1] = v /\ errs[2] = w
    OBVIOUS
<1>2. Append(<<>>, v) = <<v>> /\ Append(<<v>>, w) = <<v, w>> /\ Append(<<>>, w) = <<w>>
    BY AppendShort
<1>3. Solves(g)
    <2>1. ASSUME NEW i \in 0 .. 2
          PROVE  g[i] = IF i = 0 THEN <<>> ELSE IF errs[i] = Nil THEN g[i - 1] ELSE Append(g[i - 1], errs[i])
        <3>1. CASE i = 0
            BY <3>1
        <3>2. CASE i = 1
            BY <1>1, <1>2, <3>2
        <3>3. CASE i = 2
            BY <1>1, <3>3
        <3> QED
            BY <3>1, <3>2, <3>3
    <2>2. g = [i \in 0 .. 2 |-> g[i]]
        OBVIOUS
    <2> HIDE DEF g
    <2> QED
        BY <1>1, <2>1, <2>2
<1>4. Solves(kept)
    <2> HIDE DEF Solves, g
    <2> QED
        BY <1>3
<1>5. Join(h, errs) =
        LET some == kept[Len(errs)]
        IN  CASE Len(some) = 0 -> InPlace(h, Nil)
              [] Len(some) = 1 -> InPlace(h, some[1])
              [] OTHER -> Alloc(h, JoinNode(some))
    BY DEF Join, JoinNode
<1> HIDE DEF kept, g
<1>13. \A i \in 0 .. 2 : kept[i] = IF i = 0 THEN <<>>
                                   ELSE IF errs[i] = Nil THEN kept[i - 1]
                                   ELSE Append(kept[i - 1], errs[i])
    <2>1. kept = [i \in 0 .. 2 |-> IF i = 0 THEN <<>>
                                   ELSE IF errs[i] = Nil THEN kept[i - 1]
                                   ELSE Append(kept[i - 1], errs[i])]
        BY <1>1, <1>4
    <2> HIDE DEF errs
    <2> QED
        BY <2>1
<1>6. kept[0] = <<>>
    BY <1>13
<1>7. kept[1] = one
    <2>1. kept[1] = IF errs[1] = Nil THEN kept[0] ELSE Append(kept[0], errs[1])
        <3>1. 1 \in 0 .. 2 /\ 1 # 0 /\ 1 - 1 = 0
            OBVIOUS
        <3> QED
            BY <1>13, <3>1
    <2> QED
        BY <1>1, <1>2, <1>6, <2>1
<1>8. kept[2] = two
    <2>1. kept[2] = IF errs[2] = Nil THEN kept[1] ELSE Append(kept[1], errs[2])
        <3>1. 2 \in 0 .. 2 /\ 2 # 0 /\ 2 - 1 = 1
            OBVIOUS
        <3> QED
            BY <1>13, <3>1
    <2> QED
        BY <1>1, <1>7, <2>1
<1>9. CASE v # Nil /\ w # Nil
    BY <1>1, <1>2, <1>5, <1>8, <1>9
<1>10. CASE v # Nil /\ w = Nil
    <2> DEFINE some == kept[2]
    <2>1. some = <<v>>
        BY <1>8, <1>10
    <2>3. Len(some) = 1 /\ some[1] = v
        BY <2>1
    <2>4. Join(h, errs) = CASE Len(some) = 0 -> InPlace(h, Nil)
                            [] Len(some) = 1 -> InPlace(h, some[1])
                            [] OTHER -> Alloc(h, JoinNode(some))
        BY <1>1, <1>5
    <2> HIDE DEF some
    <2>2. Join(h, errs) = InPlace(h, v)
        BY <2>3, <2>4
    <2> QED
        BY <1>10, <2>2
<1>11. CASE v = Nil /\ w # Nil
    BY <1>1, <1>2, <1>5, <1>8, <1>11
<1>12. CASE v = Nil /\ w = Nil
    BY <1>1, <1>5, <1>8, <1>12
<1> QED
    BY <1>9, <1>10, <1>11, <1>12
=============================================================================
