--------------------------- MODULE AnswersProofs ---------------------------
(***************************************************************************)
(* Proofs, for any errors, registrations and interleaving of them with the *)
(* look-ups of a handler, that answers are of their protocol, are made of  *)
(* what the tables held, and agree between protocols; and, for any source  *)
(* and labels, that diag's underlines are under what they are meant for.   *)
(***************************************************************************)
EXTENDS Answers, FiniteSetTheorems, TLAPS

Looked == {"hint", "url", "status", "type"}

\* The table of httpx keeps its entries: they can be replaced, not removed.
StatusInv ==
    /\ statusFor = [c \in DOMAIN statusFor |-> statusFor[c]]
    /\ DOMAIN statusFor0 \subseteq DOMAIN statusFor
    /\ \A c \in DOMAIN statusFor :
        statusFor[c] \in 400 .. 599 \/ (c \in Codes /\ statusFor[c] \in Statuses)

\* A status that an error may be answered with.
IsStatus(s) == s \in 400 .. 599 \/ (err.code \in Codes /\ s \in Statuses)

TablesInv ==
    /\ \A c \in DOMAIN typeFor : typeFor[c] \in Types
    /\ \A c \in DOMAIN docReg : docReg[c] \in Docs

\* Where a handler is, what it has found is still among what was seen.
PlaceInv ==
    /\ err \in Asked \cup {Foreign, NoError} /\ via \in Adapters \cup {"none"} /\ pc \in Places
    /\ pc \in Looked => err \in Asked
    /\ pc # "answered" => answer = NoAnswer

SeenInv == Looking => Entry(err.code) \in seen

RepInv ==
    /\ DOMAIN rep = {"hint", "url", "status", "type"}
    /\ {rep.hint, rep.url} \subseteq Docs \cup {NoDoc, Own}
    /\ rep.type \in Types \cup {Blank} \cup DefaultTypes
    /\ err \in Asked =>
        /\ pc \in {"url", "status", "type", "write"} => rep.hint \in SeenDocs(err.hint)
        /\ pc \in {"status", "type", "write"} => rep.url \in SeenDocs(err.url)
        /\ via = "http" /\ pc \in {"type", "write"} => rep.status \in SeenStatuses /\ IsStatus(rep.status)
        /\ via = "http" /\ pc = "write" => rep.type \in SeenTypes

\* What an answer is made by.
AnswerInv ==
    /\ answer.via = "http" /\ answer.status \in HeaderStatuses => answer.panics = FALSE
    /\ answer.via = "http" => IF err \in Asked THEN IsStatus(answer.status) ELSE answer.status = 500
    /\ answer.via = "grpc" => answer.code = IF err \in Asked THEN GrpcCode(err) ELSE GrpcErr(err)
    /\ answer.via = "connect" => answer.code = IF err \in Asked THEN ConnectCode(err) ELSE "Unknown"
    /\ answer.via = "otel" /\ answer.event => err \in Asked /\ answer.error = OtelFails(err)
    /\ answer.via = "sentry" /\ answer.event => err \in Asked /\ answer.type = SentryType(err)
    /\ answer.via = "graphical" /\ err \in Asked => answer.places = Drawn(err.drawing)
    /\ answer.via = "narrated" /\ err \in Asked => answer.places = Told(err.drawing)

IndInv == StatusInv /\ TablesInv /\ PlaceInv /\ SeenInv /\ RepInv /\ AnswerInv /\ LookupsCurrent

-----------------------------------------------------------------------------
(* Members of a set of numbers, by rank *)

\* How many of a set come before a number.
Rank(S, i) == Cardinality({j \in S : j < i})

\* What includes everything up to a member has more members than precede it.
LEMMA RankBelow ==
    ASSUME NEW S, S \subseteq Int, IsFiniteSet(S), NEW i \in S, NEW T, T \subseteq S,
           \A j \in S : j <= i => j \in T
    PROVE  Rank(S, i) + 1 <= Cardinality(T)
<1> DEFINE A == {j \in S : j < i}
<1>1. IsFiniteSet(A) /\ IsFiniteSet(T)
    BY FS_Subset
<1>2. A \cup {i} \in SUBSET T /\ i \notin A
    <2>1. \A j \in S : j < i => j <= i
        OBVIOUS
    <2>2. i <= i /\ ~ (i < i)
        OBVIOUS
    <2> QED
        BY <2>1, <2>2
<1> HIDE DEF A
<1>3. Cardinality(A \cup {i}) = Cardinality(A) + 1
    BY <1>1, <1>2, FS_AddElement
<1>4. Cardinality(A \cup {i}) <= Cardinality(T)
    BY <1>1, <1>2, FS_Subset
<1> QED
    BY <1>3, <1>4 DEF Rank, A

\* What includes only what precedes a member has no more members than do.
LEMMA RankAbove ==
    ASSUME NEW S, IsFiniteSet(S), NEW i, NEW T, T \subseteq S, \A j \in T : j < i
    PROVE  Cardinality(T) <= Rank(S, i)
<1> DEFINE A == {j \in S : j < i}
<1>1. IsFiniteSet(A)
    BY FS_Subset
<1>2. T \in SUBSET A
    OBVIOUS
<1> QED
    BY <1>1, <1>2, FS_Subset DEF Rank

\* The members of a finite set of numbers have the ranks from 0 on.
LEMMA NthIs ==
    ASSUME NEW S, S \subseteq Int, IsFiniteSet(S)
    PROVE  /\ Cardinality(S) \in Nat
           /\ \A i \in S : /\ Rank(S, i) \in Nat /\ Rank(S, i) + 1 \in 1 .. Cardinality(S)
                           /\ Nth(S, Rank(S, i) + 1) = i
           /\ \A k \in 1 .. Cardinality(S) : Nth(S, k) \in S /\ Rank(S, Nth(S, k)) = k - 1
<1> DEFINE K == Cardinality(S)
           f == [i \in S |-> Rank(S, i)]
<1>1. K \in Nat
    BY FS_CardinalityType
<1>2. ASSUME NEW i \in S PROVE Rank(S, i) \in Nat /\ Rank(S, i) + 1 <= K
    <2>1. IsFiniteSet({j \in S : j < i})
        BY FS_Subset
    <2>2. Rank(S, i) \in Nat
        BY <2>1, FS_CardinalityType DEF Rank
    <2> QED
        BY <2>2, RankBelow
<1>3. ASSUME NEW i \in S, NEW j \in S, i # j PROVE Rank(S, i) # Rank(S, j)
    <2>1. ASSUME NEW a \in S, NEW b \in S, a < b PROVE Rank(S, a) # Rank(S, b)
        <3> DEFINE T == {x \in S : x < b}
        <3>1. \A x \in S : x <= a => x \in T
            BY <2>1
        <3>2. Rank(S, a) + 1 <= Cardinality(T)
            BY <3>1, RankBelow
        <3>3. Rank(S, b) = Cardinality(T)
            BY DEF Rank
        <3> QED
            BY <1>2, <3>2, <3>3
    <2>2. i < j \/ j < i
        BY <1>3
    <2> QED
        BY <2>1, <2>2
<1> HIDE DEF K
<1>4. f \in Injection(S, 0 .. K - 1)
    <2>1. f \in [S -> 0 .. K - 1]
        BY <1>1, <1>2
    <2>2. IsInjective(f)
        BY <1>3 DEF IsInjective
    <2> QED
        BY <2>1, <2>2 DEF Injection
<1>5. IsFiniteSet(0 .. K - 1) /\ Cardinality(0 .. K - 1) = K
    <2>1. IsFiniteSet(0 .. K - 1) /\ Cardinality(0 .. K - 1) = IF 0 > K - 1 THEN 0 ELSE (K - 1) - 0 + 1
        BY <1>1, FS_Interval
    <2> QED
        BY <1>1, <2>1
<1> HIDE DEF f
<1>6. f \in Surjection(S, 0 .. K - 1)
    BY <1>4, <1>5, FS_Injection DEF K
<1>7. ASSUME NEW i \in S PROVE Nth(S, Rank(S, i) + 1) = i
    <2>1. \A j \in S : Rank(S, j) = (Rank(S, i) + 1) - 1 <=> j = i
        BY <1>2, <1>3
    <2> QED
        BY <2>1 DEF Nth, Rank
<1>8. ASSUME NEW k \in 1 .. K PROVE Nth(S, k) \in S /\ Rank(S, Nth(S, k)) = k - 1
    <2>1. k - 1 \in 0 .. K - 1
        BY <1>1
    <2>2. PICK i \in S : f[i] = k - 1
        BY <1>6, <2>1 DEF Surjection
    <2>3. Rank(S, i) = k - 1
        BY <2>2 DEF f
    <2> QED
        BY <2>3 DEF Nth, Rank
<1> QED
    BY <1>1, <1>2, <1>7, <1>8 DEF K

-----------------------------------------------------------------------------
(* The lines of a source *)

\* The newlines and what comes after the last byte: where lines end.
Ends(src) == {i \in DOMAIN src : src[i] = NL} \cup {Len(src) + 1}

End(src, k) == Nth(Ends(src), k)

Lines(src) == Cardinality(Ends(src))

\* What ends before line k: the line before it, or nothing.
Prev(src, k) == IF k = 1 THEN 0 ELSE End(src, k - 1)

Newlines(src, off) == {i \in DOMAIN src : i <= off /\ src[i] = NL}

\* Ends are newlines, but the last.
LEMMA EndsAre ==
    ASSUME NEW src \in Source
    PROVE  /\ Ends(src) \subseteq Int /\ IsFiniteSet(Ends(src))
           /\ \A i \in Ends(src) : i \in 1 .. Len(src) + 1 /\ (i # Len(src) + 1 => src[i] = NL)
           /\ Len(src) \in Nat /\ DOMAIN src = 1 .. Len(src)
           /\ Len(src) + 1 \in Ends(src)
           /\ \A i \in DOMAIN src : src[i] = NL => i \in Ends(src)
<1>1. Len(src) \in Nat /\ DOMAIN src = 1 .. Len(src)
    BY DEF Source
<1>2. Ends(src) \subseteq 1 .. Len(src) + 1
    BY <1>1 DEF Ends
<1>3. IsFiniteSet(Ends(src))
    <2>1. IsFiniteSet(1 .. Len(src) + 1)
        BY <1>1, FS_Interval
    <2> QED
        BY <1>2, <2>1, FS_Subset
<1> QED
    BY <1>1, <1>2, <1>3 DEF Ends

\* There is at least one line, and each has its end; the last ends the source.
LEMMA EndRank ==
    ASSUME NEW src \in Source
    PROVE  /\ Lines(src) \in Nat \ {0}
           /\ \A k \in 1 .. Lines(src) : /\ End(src, k) \in Ends(src)
                                         /\ Rank(Ends(src), End(src, k)) = k - 1
           /\ End(src, Lines(src)) = Len(src) + 1
<1>1. /\ Ends(src) \subseteq Int /\ IsFiniteSet(Ends(src)) /\ Len(src) + 1 \in Ends(src) /\ Len(src) \in Nat
      /\ \A i \in Ends(src) : i \in 1 .. Len(src) + 1
    BY EndsAre
<1> DEFINE E == Ends(src)
           last == Len(src) + 1
<1>2. Lines(src) = Cardinality(E) /\ \A k : End(src, k) = Nth(E, k)
    BY DEF Lines, End
<1>3. /\ E \subseteq Int /\ IsFiniteSet(E) /\ last \in E /\ last \in Int
      /\ \A i \in E : i \in 1 .. last
    BY <1>1
<1> HIDE DEF E, last
<1>4. /\ Cardinality(E) \in Nat /\ Rank(E, last) \in Nat /\ Rank(E, last) + 1 \in 1 .. Cardinality(E)
      /\ Nth(E, Rank(E, last) + 1) = last
      /\ \A k \in 1 .. Cardinality(E) : Nth(E, k) \in E /\ Rank(E, Nth(E, k)) = k - 1
    BY <1>3, NthIs
<1>5. Cardinality(E \ {last}) <= Rank(E, last)
    <2>1. \A j \in E \ {last} : j < last
        BY <1>3
    <2> QED
        BY <1>3, <2>1, RankAbove
<1>6. Cardinality(E \ {last}) = Cardinality(E) - 1
    BY <1>3, FS_RemoveElement
<1>7. Rank(E, last) + 1 = Cardinality(E)
    BY <1>4, <1>5, <1>6
<1> QED
    BY <1>2, <1>4, <1>7 DEF E, last

\* Ends come in order.
LEMMA EndsGrow ==
    ASSUME NEW src \in Source, NEW j \in 1 .. Lines(src), NEW k \in 1 .. Lines(src), j < k
    PROVE  End(src, j) < End(src, k)
<1> DEFINE E == Ends(src)
           a == End(src, j)
           b == End(src, k)
<1>1. /\ E \subseteq Int /\ IsFiniteSet(E) /\ a \in E /\ b \in E
      /\ Rank(E, a) = j - 1 /\ Rank(E, b) = k - 1
    BY EndsAre, EndRank
<1>2. Lines(src) \in Nat
    BY EndRank
<1> HIDE DEF E, a, b
<1>3. ASSUME ~ (a < b) PROVE FALSE
    <2>1. b <= a
        BY <1>1, <1>3
    <2>2. Rank(E, b) <= Rank(E, a)
        <3> DEFINE T == {x \in E : x < b}
        <3>1. \A x \in T : x < a
            BY <1>1, <2>1
        <3>2. Cardinality(T) <= Rank(E, a)
            BY <1>1, <3>1, RankAbove
        <3> QED
            BY <3>2 DEF Rank
    <2> QED
        BY <1>1, <1>2, <2>2
<1> QED
    BY <1>3 DEF a, b

\* The lengths strings.Split leaves, by where the lines end.
LEMMA SplitIs ==
    ASSUME NEW src \in Source
    PROVE  Split(src) = [k \in 1 .. Lines(src) |-> End(src, k) - 1 - Prev(src, k)]
BY DEF Split, Lines, End, Prev, Ends

\* Where indexLines lets the lines start.
LEMMA StartsAre ==
    ASSUME NEW src \in Source
    PROVE  Starts(Split(src)) = [k \in 1 .. Lines(src) |-> Prev(src, k)]
<1> DEFINE K == Lines(src)
           lines == Split(src)
           S == [k \in 1 .. K |-> Prev(src, k)]
           F(f) == [k \in DOMAIN lines |-> IF k = 1 THEN 0 ELSE f[k - 1] + lines[k - 1] + 1]
           s == Starts(lines)
<1>1. K \in Nat \ {0} /\ \A k \in 1 .. K : End(src, k) \in Int
    BY EndRank, EndsAre
<1>2. DOMAIN lines = 1 .. K /\ \A k \in 1 .. K : lines[k] = End(src, k) - 1 - Prev(src, k)
    BY SplitIs
<1>3. \A k \in 1 .. K : Prev(src, k) \in Int
    BY <1>1 DEF Prev
<1>4. ASSUME NEW k \in 1 .. K, k # 1
      PROVE  k - 1 \in 1 .. K /\ Prev(src, k - 1) + lines[k - 1] + 1 = Prev(src, k)
    <2>1. k - 1 \in 1 .. K
        BY <1>1, <1>4
    <2>2. lines[k - 1] = End(src, k - 1) - 1 - Prev(src, k - 1) /\ Prev(src, k) = End(src, k - 1)
        BY <1>2, <1>4, <2>1 DEF Prev
    <2> QED
        BY <1>1, <1>3, <2>1, <2>2
<1>5. s = CHOOSE f : f = F(f)
    BY DEF Starts
<1> HIDE DEF lines, s, K
<1>6. S = F(S)
    <2>1. \A k \in 1 .. K : Prev(src, k) = IF k = 1 THEN 0 ELSE S[k - 1] + lines[k - 1] + 1
        BY <1>4 DEF Prev
    <2> QED
        BY <1>2, <2>1
<1>7. s = F(s)
    BY <1>5, <1>6
<1> DEFINE B == {k \in 1 .. K : s[k] # Prev(src, k)}
<1>8. B = {}
    <2> SUFFICES ASSUME B # {} PROVE FALSE
        OBVIOUS
    <2>1. B \subseteq Int /\ IsFiniteSet(B)
        BY <1>1, FS_Interval, FS_Subset
    <2>2. \A k \in B : k \in 1 .. K /\ s[k] # Prev(src, k)
        OBVIOUS
    <2>3. \A k \in 1 .. K : k \notin B => s[k] = Prev(src, k)
        OBVIOUS
    <2> HIDE DEF B
    <2>4. Cardinality(B) \in Nat /\ Cardinality(B) # 0
        BY <2>1, FS_EmptySet, FS_CardinalityType
    <2> DEFINE m == Nth(B, 1)
    <2>5. m \in B /\ Rank(B, m) = 0
        <3>1. 1 \in 1 .. Cardinality(B)
            BY <2>4
        <3>2. m \in B /\ Rank(B, m) = 1 - 1
            BY <2>1, <3>1, NthIs
        <3> QED
            BY <3>2
    <2> HIDE DEF m
    <2>6. m - 1 \notin B
        <3>1. IsFiniteSet({j \in B : j < m})
            BY <2>1, FS_Subset
        <3>2. {j \in B : j < m} = {}
            BY <2>5, <3>1, FS_EmptySet DEF Rank
        <3>3. m - 1 < m
            BY <2>1, <2>5
        <3> QED
            BY <3>2, <3>3
    <2>7. m \in 1 .. K /\ m \in Int
        BY <2>1, <2>2, <2>5
    <2>8. s[m] = IF m = 1 THEN 0 ELSE s[m - 1] + lines[m - 1] + 1
        BY <1>2, <1>7, <2>7
    <2>9. CASE m = 1
        BY <2>2, <2>5, <2>8, <2>9 DEF Prev
    <2>10. CASE m # 1
        <3>1. m - 1 \in 1 .. K /\ Prev(src, m - 1) + lines[m - 1] + 1 = Prev(src, m)
            BY <1>4, <2>7, <2>10
        <3>2. s[m - 1] = Prev(src, m - 1)
            BY <2>3, <2>6, <3>1
        <3> QED
            BY <2>2, <2>5, <2>8, <2>10, <3>1, <3>2
    <2> QED
        BY <2>9, <2>10
<1>9. s = [k \in 1 .. K |-> s[k]]
    <2>1. F(s) = [k \in 1 .. K |-> F(s)[k]]
        BY <1>2
    <2> QED
        BY <1>7, <2>1
<1>10. s = S
    BY <1>8, <1>9
<1> QED
    BY <1>10 DEF s, lines, K

-----------------------------------------------------------------------------
(* The place of an offset *)

\* A line that has one after it ends with a newline.
LEMMA EndIsNewline ==
    ASSUME NEW src \in Source, NEW k \in 1 .. Lines(src), k # Lines(src)
    PROVE  End(src, k) \in DOMAIN src /\ src[End(src, k)] = NL
<1>1. End(src, k) \in Ends(src) /\ End(src, Lines(src)) = Len(src) + 1 /\ Lines(src) \in Nat \ {0}
    BY EndRank
<1>2. End(src, k) < End(src, Lines(src))
    BY <1>1, EndsGrow
<1> QED
    BY <1>1, <1>2, EndsAre

\* The lines that start at or before an offset are those up to the place's.
LEMMA PlaceIs ==
    ASSUME NEW src \in Source, NEW off \in Nat
    PROVE  LET b == Cardinality(Newlines(src, off))
           IN  /\ b + 1 \in 1 .. Lines(src)
               /\ \A k \in 1 .. Lines(src) : Prev(src, k) <= off <=> k <= b + 1
               /\ Place(src, off) = [line |-> b + 1, col |-> off - Prev(src, b + 1)]
<1> DEFINE T == Newlines(src, off)
           E == Ends(src)
           K == Lines(src)
           b == Cardinality(T)
           last == Len(src) + 1
<1>1. /\ E \subseteq Int /\ IsFiniteSet(E) /\ last \in E /\ Len(src) \in Nat /\ DOMAIN src = 1 .. Len(src)
      /\ \A i \in E : i \in 1 .. last /\ (i # last => src[i] = NL)
      /\ \A i \in DOMAIN src : src[i] = NL => i \in E
    BY EndsAre
<1>2. /\ K \in Nat \ {0} /\ End(src, K) = last
      /\ \A k \in 1 .. K : End(src, k) \in E /\ Rank(E, End(src, k)) = k - 1
    BY EndRank
<1>3. T \subseteq E /\ \A i \in T : i <= off /\ i < last
    BY <1>1 DEF Newlines
<1>4. \A i \in E : i <= off /\ i # last => i \in T
    BY <1>1 DEF Newlines
<1>5. b \in Nat
    BY <1>1, <1>3, FS_Subset, FS_CardinalityType
<1>6. \A k \in 1 .. K : k # K => End(src, k) < last
    BY <1>1, EndIsNewline
<1>7. Place(src, off) = [line |-> b + 1, col |-> off - Max(T \cup {0})]
    BY DEF Place, Newlines
<1> HIDE DEF T, E, K, b, last
<1>8. b + 1 \in 1 .. K
    <2>1. K \in 1 .. K
        BY <1>2
    <2>2. b <= Rank(E, last)
        BY <1>1, <1>3, RankAbove DEF b
    <2>3. Rank(E, last) = K - 1
        BY <1>2, <2>1
    <2> QED
        BY <1>2, <1>5, <2>2, <2>3
<1>9. ASSUME NEW k \in 1 .. K PROVE Prev(src, k) <= off <=> k <= b + 1
    <2>1. CASE k = 1
        BY <1>5, <2>1 DEF Prev
    <2>2. CASE k # 1
        <3> DEFINE e == End(src, k - 1)
        <3>1. k - 1 \in 1 .. K /\ k - 1 # K /\ Prev(src, k) = e
            BY <1>2, <2>2 DEF Prev
        <3>2. e \in E /\ Rank(E, e) = (k - 1) - 1 /\ e < last /\ e \in Int
            BY <1>1, <1>2, <1>6, <3>1
        <3> HIDE DEF e
        <3>3. last \in Int
            BY <1>1
        <3>4. CASE e <= off
            <4>1. \A j \in E : j <= e => j \in T
                <5> TAKE j \in E
                <5>1. j \in Int
                    BY <1>1
                <5> QED
                    BY <1>4, <3>2, <3>3, <3>4, <5>1
            <4>2. Rank(E, e) + 1 <= b
                BY <1>1, <1>3, <3>2, <4>1, RankBelow DEF b
            <4> QED
                BY <1>5, <3>1, <3>2, <3>4, <4>2
        <3>5. CASE ~ (e <= off)
            <4>1. \A j \in T : j < e
                <5> TAKE j \in T
                <5>1. j \in Int
                    BY <1>1, <1>3
                <5> QED
                    BY <1>3, <3>2, <3>5, <5>1
            <4>2. b <= Rank(E, e)
                BY <1>1, <1>3, <4>1, RankAbove DEF b
            <4> QED
                BY <1>5, <3>1, <3>2, <3>5, <4>2
        <3> QED
            BY <3>4, <3>5
    <2> QED
        BY <2>1, <2>2
<1> DEFINE q == Prev(src, b + 1)
<1>10. q <= off
    BY <1>5, <1>8, <1>9
<1>11. q \in T \cup {0} /\ \A y \in T \cup {0} : q >= y
    <2>1. CASE b = 0
        <3>1. T = {}
            BY <1>1, <1>3, <2>1, FS_Subset, FS_EmptySet DEF b
        <3> QED
            BY <2>1, <3>1 DEF Prev
    <2>2. CASE b # 0
        <3>1. b \in 1 .. K /\ b # K /\ q = End(src, b)
            BY <1>2, <1>5, <1>8, <2>2 DEF Prev
        <3>2. q \in E /\ Rank(E, q) = b - 1 /\ q < last
            BY <1>2, <1>6, <3>1
        <3> HIDE DEF q
        <3>3. last \in Int /\ q \in Int /\ q >= 1
            BY <1>1, <3>2
        <3>4. q \in T
            BY <1>4, <1>10, <3>2, <3>3
        <3>5. ASSUME NEW y \in T PROVE q >= y
            <4>1. y \in E /\ y \in Int /\ y <= off /\ y < last
                BY <1>1, <1>3
            <4>2. ASSUME q < y PROVE FALSE
                <5>1. \A j \in E : j <= y => j \in T
                    <6> TAKE j \in E
                    <6>1. j \in Int
                        BY <1>1
                    <6> QED
                        BY <1>4, <3>3, <4>1, <6>1
                <5>2. Rank(E, y) + 1 <= b
                    BY <1>1, <1>3, <4>1, <5>1, RankBelow DEF b
                <5> DEFINE A == {j \in E : j < y}
                <5>3. \A j \in E : j <= q => j \in A
                    <6> TAKE j \in E
                    <6>1. j \in Int
                        BY <1>1
                    <6> QED
                        BY <3>3, <4>1, <4>2, <6>1
                <5>4. Rank(E, q) + 1 <= Cardinality(A)
                    BY <1>1, <3>2, <5>3, RankBelow
                <5>5. Rank(E, y) = Cardinality(A) /\ Rank(E, y) \in Nat
                    BY <1>1, <4>1, NthIs DEF Rank
                <5> QED
                    BY <1>5, <3>2, <5>2, <5>4, <5>5
            <4> QED
                BY <3>3, <4>1, <4>2
        <3> QED
            BY <3>3, <3>4, <3>5
    <2> QED
        BY <2>1, <2>2
<1>12. Max(T \cup {0}) = q
    <2>1. \A x \in T \cup {0} : x \in Int
        BY <1>1, <1>3
    <2>2. \A x \in T \cup {0} : (\A y \in T \cup {0} : x >= y) <=> x = q
        BY <1>11, <2>1
    <2> QED
        BY <1>11, <2>2 DEF Max
<1> QED
    BY <1>7, <1>8, <1>9, <1>12 DEF b, K, T

\* The search over starts finds the place; before the source it finds none.
LEMMA LocateIs ==
    ASSUME NEW src \in Source, NEW off \in Int
    PROVE  /\ off >= 0 => locate(Starts(Split(src)), off) = Place(src, off)
           /\ locate(Starts(Split(src)), off).line # 0 <=> off >= 0
<1> DEFINE K == Lines(src)
           starts == Starts(Split(src))
           A == {k \in DOMAIN starts : \A j \in 1 .. k : off >= starts[j]}
           ln == Cardinality(A)
<1>1. DOMAIN starts = 1 .. K /\ \A k \in 1 .. K : starts[k] = Prev(src, k)
    BY StartsAre
<1>2. K \in Nat \ {0}
    BY EndRank
<1>3. locate(starts, off) = [line |-> ln, col |-> IF ln = 0 THEN 0 ELSE off - starts[ln]]
    BY DEF locate
<1> HIDE DEF starts, K
<1>4. CASE off >= 0
    <2> DEFINE b == Cardinality(Newlines(src, off))
    <2>1. /\ b + 1 \in 1 .. K
          /\ \A k \in 1 .. K : Prev(src, k) <= off <=> k <= b + 1
          /\ Place(src, off) = [line |-> b + 1, col |-> off - Prev(src, b + 1)]
        BY <1>4, PlaceIs DEF K
    <2> HIDE DEF b
    <2>2. \A k \in 1 .. K : Prev(src, k) \in Int
        BY EndRank, EndsAre DEF Prev, K
    <2>3. ASSUME NEW k \in 1 .. K PROVE k \in A <=> k \in 1 .. b + 1
        <3>1. k \in A <=> \A j \in 1 .. k : off >= starts[j]
            BY <1>1
        <3>2. \A j \in 1 .. k : j \in 1 .. K /\ (off >= starts[j] <=> j <= b + 1)
            <4> TAKE j \in 1 .. k
            <4>1. j \in 1 .. K
                BY <1>2
            <4>2. starts[j] = Prev(src, j) /\ Prev(src, j) \in Int
                BY <1>1, <2>2, <4>1
            <4> QED
                BY <2>1, <4>1, <4>2
        <3> HIDE DEF A
        <3>3. k \in 1 .. k /\ \A j \in 1 .. k : k <= b + 1 => j <= b + 1
            BY <2>1
        <3> QED
            BY <2>1, <3>1, <3>2, <3>3
    <2>4. A = 1 .. b + 1
        <3>1. A \subseteq 1 .. K
            BY <1>1
        <3>2. 1 .. b + 1 \subseteq 1 .. K
            BY <1>2, <2>1
        <3> HIDE DEF A
        <3> QED
            BY <2>3, <3>1, <3>2
    <2> HIDE DEF A
    <2>5. ln = b + 1 /\ b + 1 # 0
        <3>1. 1 \in Int /\ b + 1 \in Int /\ b + 1 >= 1
            BY <2>1
        <3> QED
            BY <2>4, <3>1, FS_Interval
    <2> HIDE DEF ln
    <2>6. locate(starts, off) = [line |-> b + 1, col |-> off - Prev(src, b + 1)]
        BY <1>1, <1>3, <2>1, <2>5
    <2> QED
        BY <1>4, <2>1, <2>5, <2>6 DEF starts
<1>5. CASE ~ (off >= 0)
    <2>1. A = {}
        <3> SUFFICES ASSUME NEW k \in A PROVE FALSE
            OBVIOUS
        <3>1. k \in 1 .. K /\ 1 \in 1 .. k /\ 1 \in 1 .. K
            BY <1>1, <1>2
        <3>2. off >= starts[1] /\ starts[1] = 0
            BY <1>1, <3>1 DEF Prev
        <3> QED
            BY <1>5, <3>2
    <2> QED
        BY <1>3, <1>5, <2>1, FS_EmptySet DEF starts
<1> QED
    BY <1>4, <1>5

-----------------------------------------------------------------------------
(* The underline of a label *)

\* A byte after the place of start is covered if it is before the line's end.
LEMMA SameLine ==
    ASSUME NEW src \in Source, NEW start \in Nat, NEW off \in Nat, start <= off
    PROVE  LET e == End(src, Place(src, start).line)
           IN  off + 1 < e <=> /\ off < Len(src) /\ src[off + 1] # NL
                               /\ Place(src, off).line = Place(src, start).line
<1> DEFINE E == Ends(src)
           K == Lines(src)
           S == Newlines(src, start)
           T == Newlines(src, off)
           b == Cardinality(S)
           c == Cardinality(T)
           e == End(src, b + 1)
           last == Len(src) + 1
<1>1. /\ E \subseteq Int /\ IsFiniteSet(E) /\ Len(src) \in Nat /\ DOMAIN src = 1 .. Len(src)
      /\ \A i \in E : i \in 1 .. last /\ (i # last => src[i] = NL)
      /\ \A i \in DOMAIN src : src[i] = NL => i \in E
    BY EndsAre
<1>2. /\ b + 1 \in 1 .. K /\ Place(src, start).line = b + 1
      /\ Place(src, off).line = c + 1
    BY PlaceIs
<1>3. e \in E /\ Rank(E, e) = b
    <2>1. e \in E /\ Rank(E, e) = (b + 1) - 1
        BY <1>2, EndRank
    <2>2. b \in Nat
        BY <1>1, FS_Subset, FS_CardinalityType DEF Newlines, Ends
    <2> QED
        BY <2>1, <2>2
<1>4. S \subseteq T /\ T \subseteq E
    BY <1>1 DEF Newlines
<1>5. IsFiniteSet(T) /\ IsFiniteSet(S) /\ b \in Nat /\ c \in Nat
    BY <1>1, <1>4, FS_Subset, FS_CardinalityType
<1>6. \A i \in E : /\ i <= off /\ i # last => i \in T
                   /\ i <= start /\ i # last => i \in S
    BY <1>1 DEF Newlines
<1>7. \A i \in T : i <= off /\ i < last /\ (i <= start => i \in S)
    BY <1>1 DEF Newlines
<1>8. \A i \in S : i <= start
    BY DEF Newlines
<1>9. e \in Int /\ last \in Int /\ e <= last
    BY <1>1, <1>3
<1> HIDE DEF E, K, S, T, b, c, e, last
\* Before the line's end there are no more newlines than before start.
<1>10. ASSUME off + 1 < e
       PROVE  off < Len(src) /\ src[off + 1] # NL /\ c = b
    <2>1. off + 1 \in DOMAIN src /\ off < Len(src)
        BY <1>1, <1>9, <1>10 DEF last
    <2>2. ASSUME NEW i \in E, start < i, i < e PROVE FALSE
        <3> DEFINE A == {j \in E : j < i}
            B == {j \in E : j < e}
        <3>1. i \in Int
            BY <1>1
        <3>2. \A j \in E : j <= i => j \in B
            <4> TAKE j \in E
            <4>1. j \in Int
                BY <1>1
            <4> QED
                BY <1>9, <2>2, <3>1, <4>1
        <3>3. Rank(E, i) + 1 <= Rank(E, e)
            <4>1. Rank(E, i) + 1 <= Cardinality(B)
                BY <1>1, <3>2, RankBelow
            <4> QED
                BY <4>1 DEF Rank
        <3>4. \A j \in S : j < i
            <4> TAKE j \in S
            <4>1. j \in Int
                BY <1>1, <1>4
            <4> QED
                BY <1>8, <2>2, <3>1, <4>1
        <3>5. b <= Rank(E, i)
            <4>1. S \subseteq E
                BY <1>4
            <4> QED
                BY <1>1, <3>4, <4>1, RankAbove DEF b
        <3>6. Rank(E, i) \in Nat
            BY <1>1, NthIs
        <3> QED
            BY <1>3, <1>5, <3>3, <3>5, <3>6
    <2>3. src[off + 1] # NL
        BY <1>1, <1>10, <2>1, <2>2
    <2>4. T \subseteq S
        <3> SUFFICES ASSUME NEW i \in T, i \notin S PROVE FALSE
            OBVIOUS
        <3>1. i \in E /\ i \in Int /\ start < i /\ i <= off
            BY <1>1, <1>4, <1>7
        <3>2. i < e
            BY <1>9, <1>10, <3>1
        <3> QED
            BY <2>2, <3>1, <3>2
    <2>5. T = S
        BY <1>4, <2>4
    <2> QED
        BY <2>1, <2>3, <2>5 DEF b, c
<1>11. ASSUME off < Len(src), src[off + 1] # NL, ~ (off + 1 < e)
       PROVE  c # b
    <2>1. e <= off
        <3>1. CASE e = off + 1
            BY <1>1, <1>3, <1>11, <3>1 DEF last
        <3>2. CASE e # off + 1
            BY <1>9, <1>11, <3>2
        <3> QED
            BY <3>1, <3>2
    <2>2. e # last
        BY <1>1, <1>11, <2>1 DEF last
    <2>3. \A j \in E : j <= e => j \in T
        <3> TAKE j \in E
        <3>1. j \in Int
            BY <1>1
        <3> QED
            BY <1>6, <1>9, <2>1, <2>2, <3>1
    <2>4. Rank(E, e) + 1 <= c
        BY <1>1, <1>3, <1>4, <2>3, RankBelow DEF c
    <2> QED
        BY <1>3, <1>5, <2>4
<1>12. b + 1 = c + 1 <=> b = c
    BY <1>5
<1>13. off + 1 < e <=> off < Len(src) /\ src[off + 1] # NL /\ Place(src, off).line = Place(src, start).line
    BY <1>2, <1>10, <1>11, <1>12
<1> QED
    BY <1>2, <1>13 DEF e

\* How much of a label is on its first line.
LEMMA CoveredIs ==
    ASSUME NEW src \in Source, NEW start \in Nat, NEW len \in Int
    PROVE  LET w == End(src, Place(src, start).line) - 1 - start
           IN  Cardinality(Covered(src, [start |-> start, len |-> len])) = Max({0, IF len < w THEN len ELSE w})
<1> DEFINE p == Place(src, start).line
           e == End(src, p)
           w == e - 1 - start
           m == IF len < w THEN len ELSE w
           lb == [start |-> start, len |-> len]
           C == Covered(src, lb)
<1>1. e \in Int
    <2>1. p \in 1 .. Lines(src)
        BY PlaceIs
    <2> QED
        BY <2>1, EndRank, EndsAre
<1>2. C = {off \in start .. start + len - 1 :
            off < Len(src) /\ src[off + 1] # NL /\ Place(src, off).line = p}
    BY DEF Covered
<1>3. ASSUME NEW off \in start .. start + len - 1
      PROVE  off \in C <=> off + 1 < e
    <2>1. off \in Nat /\ start <= off
        OBVIOUS
    <2>2. off + 1 < e <=> off < Len(src) /\ src[off + 1] # NL /\ Place(src, off).line = p
        BY <2>1, SameLine
    <2> QED
        BY <1>2, <2>2
<1>4. C \subseteq start .. start + len - 1
    BY <1>2
<1> HIDE DEF C, e, p
<1>5. C = start .. start + m - 1
    <2>1. ASSUME NEW off \in start .. start + m - 1 PROVE off \in C
        BY <1>1, <1>3
    <2>2. ASSUME NEW off \in C PROVE off \in start .. start + m - 1
        BY <1>1, <1>3, <1>4
    <2> QED
        BY <2>1, <2>2
<1>6. m \in Int
    BY <1>1
<1> HIDE DEF m
<1>7. Cardinality(start .. start + m - 1) = IF start > start + m - 1 THEN 0 ELSE start + m - 1 - start + 1
    BY <1>6, FS_Interval
<1>8. Max({0, m}) = IF m > 0 THEN m ELSE 0
    BY <1>6 DEF Max
<1>9. Cardinality(C) = Max({0, m})
    BY <1>5, <1>6, <1>7, <1>8
<1> QED
    BY <1>9 DEF C, m, e, p

LEMMA MaxOfTwo ==
    ASSUME NEW a \in Int, NEW b \in Int
    PROVE  Max({a, b}) = IF a >= b THEN a ELSE b
BY DEF Max

\* The clipping of graphical against what the label covers.
LEMMA UnderlineIs ==
    ASSUME NEW src \in Source, NEW lb \in Labels, lb.start >= 0, Fits(src, lb)
    PROVE  Under(src, lb, Underline(Split(src), locate(Starts(Split(src)), lb.start), lb.len))
<1> DEFINE start == lb.start
           len == lb.len
           lines == Split(src)
           p == Place(src, start)
           e == End(src, p.line)
           w == e - 1 - start
           ul == Max({len, 1})
           C == Covered(src, lb)
<1>1. start \in Nat /\ len \in Int /\ lb = [start |-> start, len |-> len]
    BY MaxIntAssumption DEF Labels, Ints
<1>2. locate(Starts(lines), start) = p
    BY <1>1, LocateIs
<1>3. /\ p.line \in 1 .. Lines(src) /\ p.col = start - Prev(src, p.line)
    BY <1>1, PlaceIs
<1>4. lines[p.line] = e - 1 - Prev(src, p.line)
    BY <1>3, SplitIs
<1>5. e \in Int /\ Prev(src, p.line) \in Int
    BY <1>3, EndRank, EndsAre DEF Prev
<1>6. Cardinality(C) = Max({0, IF len < w THEN len ELSE w})
    BY <1>1, CoveredIs
<1>7. Underline(lines, p, len)
        = [line |-> p.line, col |-> p.col,
           width |-> IF p.col + ul > lines[p.line] THEN Max({1, lines[p.line] - p.col}) ELSE ul]
    <2>1. IntSum(p.col, ul) = p.col + ul
        <3>1. ul \in Int /\ p.col \in Int
            <4>1. ul = IF len >= 1 THEN len ELSE 1
                BY <1>1, MaxOfTwo
            <4>2. p.col \in Int
                BY <1>1, <1>3, <1>5
            <4> QED
                BY <1>1, <4>1, <4>2
        <3>2. p.col + ul <= MaxInt
            BY DEF Fits, p, start, len
        <3> QED
            BY <3>1, <3>2, MaxIntAssumption DEF IntSum
    <2> QED
        BY <2>1 DEF Underline
<1> HIDE DEF C, e, p, lines, start, len
<1>8. ul = IF len >= 1 THEN len ELSE 1
    BY <1>1, MaxOfTwo
<1>9. lines[p.line] - p.col = w /\ (p.col + ul > lines[p.line] <=> ul > w)
    BY <1>1, <1>3, <1>4, <1>5, <1>8
<1>10. Max({1, w}) = IF 1 >= w THEN 1 ELSE w
    BY <1>1, <1>5, MaxOfTwo
<1>11. Cardinality(C) = IF len < w THEN IF 0 >= len THEN 0 ELSE len ELSE IF 0 >= w THEN 0 ELSE w
    BY <1>1, <1>5, <1>6, MaxOfTwo
<1>12. Max({1, Cardinality(C)}) = IF 1 >= Cardinality(C) THEN 1 ELSE Cardinality(C)
    BY <1>1, <1>5, <1>11, MaxOfTwo
<1>13. w \in Int
    BY <1>1, <1>5
<1> DEFINE n == Cardinality(C)
           m1 == Max({1, n})
           m2 == Max({1, lines[p.line] - p.col})
<1>14. m2 = IF 1 >= w THEN 1 ELSE w
    BY <1>9, <1>10
<1>15. n = IF len < w THEN IF 0 >= len THEN 0 ELSE len ELSE IF 0 >= w THEN 0 ELSE w
    BY <1>11
<1>16. m1 = IF 1 >= n THEN 1 ELSE n
    BY <1>12
<1> HIDE DEF w, ul, n, m1, m2
<1>17. (IF ul > w THEN m2 ELSE ul) = m1
    BY <1>1, <1>8, <1>13, <1>14, <1>15, <1>16
<1>18. (IF p.col + ul > lines[p.line] THEN m2 ELSE ul) = m1
    BY <1>9, <1>17
<1> QED
    BY <1>2, <1>7, <1>18 DEF Under, p, C, n, m1, m2, lines, start, len

LEMMA DrawingType ==
    ASSUME NEW d \in Drawings
    PROVE  /\ d.src \in Source
           /\ DOMAIN d.labels \subseteq Int /\ IsFiniteSet(DOMAIN d.labels)
           /\ \A j \in DOMAIN d.labels : d.labels[j] \in Labels /\ d.labels[j].start \in Int
<1>1. d.src \in Source /\ d.labels \in Seq(Labels)
    BY DEF Drawings
<1>2. /\ Len(d.labels) \in Nat /\ DOMAIN d.labels = 1 .. Len(d.labels)
      /\ \A j \in DOMAIN d.labels : d.labels[j] \in Labels
    BY <1>1
<1>3. \A lb \in Labels : lb.start \in Int
    BY MaxIntAssumption DEF Labels, Ints
<1>4. IsFiniteSet(1 .. Len(d.labels))
    BY <1>2, FS_Interval
<1> QED
    BY <1>1, <1>2, <1>3, <1>4

\* Where the underline of a label is among those drawn: after those of the
\* labels before it that are on a line.
PlaceOf(d, i) == Rank({j \in DOMAIN d.labels : d.labels[j].start >= 0}, i) + 1

\* Every label of the text is drawn, in its turn, under what it covers.
LEMMA DrawnIs ==
    ASSUME NEW d \in Drawings, d.src # <<>>
    PROVE  \A i \in DOMAIN d.labels : d.labels[i].start >= 0 =>
            /\ PlaceOf(d, i) \in DOMAIN Drawn(d)
            /\ Fits(d.src, d.labels[i]) => Under(d.src, d.labels[i], Drawn(d)[PlaceOf(d, i)])
            /\ \A j \in DOMAIN d.labels :
                d.labels[j].start >= 0 /\ i < j => PlaceOf(d, i) < PlaceOf(d, j)
<1> DEFINE src == d.src
           lines == Split(src)
           at(j) == locate(Starts(lines), d.labels[j].start)
           on == {j \in DOMAIN d.labels : at(j).line # 0}
           inText == {j \in DOMAIN d.labels : d.labels[j].start >= 0}
<1>1. src \in Source
    BY DrawingType
<1>2. /\ DOMAIN d.labels \subseteq Int /\ IsFiniteSet(DOMAIN d.labels)
      /\ \A j \in DOMAIN d.labels : d.labels[j] \in Labels /\ d.labels[j].start \in Int
    BY DrawingType
<1>3. \A j \in DOMAIN d.labels : at(j).line # 0 <=> d.labels[j].start >= 0
    BY <1>1, <1>2, LocateIs
<1>4. on = inText
    BY <1>3
<1>5. Drawn(d) = [n \in 1 .. Cardinality(on) |-> Underline(lines, at(Nth(on, n)), d.labels[Nth(on, n)].len)]
    BY DEF Drawn
<1>6. inText \subseteq Int /\ IsFiniteSet(inText)
    BY <1>2, FS_Subset
<1>7. \A i : PlaceOf(d, i) = Rank(inText, i) + 1
    BY DEF PlaceOf
<1>8. \A i \in inText : i \in DOMAIN d.labels /\ d.labels[i].start >= 0
    OBVIOUS
<1>9. \A i \in DOMAIN d.labels : d.labels[i].start >= 0 => i \in inText
    OBVIOUS
<1> HIDE DEF on, inText
<1>10. ASSUME NEW i \in inText
       PROVE  /\ PlaceOf(d, i) \in DOMAIN Drawn(d)
              /\ Fits(src, d.labels[i]) => Under(src, d.labels[i], Drawn(d)[PlaceOf(d, i)])
    <2> DEFINE k == Rank(inText, i) + 1
    <2>1. k \in 1 .. Cardinality(inText) /\ Nth(inText, k) = i
        BY <1>6, NthIs
    <2>2. k \in DOMAIN Drawn(d) /\ Drawn(d)[k] = Underline(lines, at(i), d.labels[i].len)
        BY <1>4, <1>5, <2>1
    <2>3. Fits(src, d.labels[i]) => Under(src, d.labels[i], Underline(lines, at(i), d.labels[i].len))
        BY <1>1, <1>2, <1>8, UnderlineIs
    <2> QED
        BY <1>7, <2>2, <2>3
<1>11. ASSUME NEW i \in inText, NEW j \in inText, i < j PROVE PlaceOf(d, i) < PlaceOf(d, j)
    <2> DEFINE T == {x \in inText : x < j}
    <2>1. \A x \in inText : x <= i => x \in T
        BY <1>6, <1>11
    <2>2. Rank(inText, i) + 1 <= Cardinality(T)
        BY <1>6, <2>1, RankBelow
    <2>3. Rank(inText, j) = Cardinality(T)
        BY DEF Rank
    <2>4. Rank(inText, i) \in Nat /\ Rank(inText, j) \in Nat
        BY <1>6, NthIs
    <2> QED
        BY <1>7, <2>2, <2>3, <2>4
<1> QED
    BY <1>9, <1>10, <1>11

\* What narrate tells of a label of the text is its place.
LEMMA ToldIs ==
    ASSUME NEW d \in Drawings, d.src # <<>>, NEW i \in DOMAIN d.labels, d.labels[i].start >= 0
    PROVE  i \in DOMAIN Told(d) /\ Told(d)[i] = Place(d.src, d.labels[i].start)
<1>1. d.src \in Source /\ d.labels[i].start \in Int
    BY DrawingType
<1>2. locate(Starts(Split(d.src)), d.labels[i].start) = Place(d.src, d.labels[i].start)
    BY <1>1, LocateIs
<1> QED
    BY <1>2 DEF Told

USE ConstantsAssumption, RequestsAssumption DEF Adapters, Places, Looked

-----------------------------------------------------------------------------
(* The tables of the adapters *)

Known == {"NOT_FOUND", "ALREADY_EXISTS", "CONFLICT", "VALIDATION", "INVALID_ARGUMENT", "UNAUTHENTICATED",
          "PERMISSION_DENIED", "FORBIDDEN", "RESOURCE_EXHAUSTED", "FAILED_PRECONDITION", "UNAVAILABLE",
          "UNIMPLEMENTED", "TIMEOUT"}

\* The three tables know the same codes, and give the same of them the same.
LEMMA TablesAgree ==
    /\ DOMAIN statusFor0 = Known /\ DOMAIN grpcCodeFor = Known /\ DOMAIN connectCodeFor = Known
    /\ \A c \in Known :
        /\ statusFor0[c] \in 400 .. 599
        /\ connectCodeFor[c] = grpcCodeFor[c]
        /\ grpcCodeFor[c] # "OK"
        /\ grpcCodeFor[c] \in ServersFault <=> statusFor0[c] >= 500
        /\ grpcCodeFor[c] = "Unavailable" <=> statusFor0[c] = 503
        /\ statusFor0[c] # 499
<1>1. /\ DOMAIN statusFor0 = Known /\ DOMAIN grpcCodeFor = Known /\ DOMAIN connectCodeFor = Known
    BY DEF statusFor0, grpcCodeFor, connectCodeFor, Known
<1>2. \A c \in Known : statusFor0[c] \in 400 .. 599 /\ statusFor0[c] # 499
    BY DEF statusFor0, Known
<1>3. \A c \in Known : connectCodeFor[c] = grpcCodeFor[c] /\ grpcCodeFor[c] # "OK"
    BY DEF grpcCodeFor, connectCodeFor, Known
<1>4. \A c \in Known :
        /\ grpcCodeFor[c] \in ServersFault <=> statusFor0[c] >= 500
        /\ grpcCodeFor[c] = "Unavailable" <=> statusFor0[c] = 503
    BY DEF grpcCodeFor, statusFor0, Known, ServersFault
<1> QED
    BY <1>1, <1>2, <1>3, <1>4

LEMMA CodesAgree ==
    ASSUME NEW e
    PROVE  /\ ConnectCode(e) = GrpcCode(e)
           /\ GrpcCode(e) \in RpcCodes /\ GrpcCode(e) # "OK"
           /\ GrpcCode(e) \in ServersFault <=> StatusFor(statusFor0, e) >= 500
           /\ GrpcCode(e) = "Unavailable" <=> StatusFor(statusFor0, e) = 503
<1>1. CASE e.code \in Known
    BY <1>1, TablesAgree DEF ConnectCode, GrpcCode, StatusFor, RpcCodes
<1>2. CASE e.code \notin Known
    <2>1. /\ ConnectCode(e) = ByClass(e, "Internal", "Canceled", "Unavailable", "InvalidArgument")
          /\ GrpcCode(e) = ByClass(e, "Internal", "Canceled", "Unavailable", "InvalidArgument")
          /\ StatusFor(statusFor0, e) = ByClass(e, 500, 499, 503, 400)
        BY <1>2, TablesAgree DEF ConnectCode, GrpcCode, StatusFor
    <2>2. {"Unavailable", "InvalidArgument"} \subseteq RpcCodes
        <3>1. grpcCodeFor["UNAVAILABLE"] = "Unavailable" /\ grpcCodeFor["VALIDATION"] = "InvalidArgument"
            BY DEF grpcCodeFor
        <3> QED
            BY <3>1, TablesAgree DEF RpcCodes, Known
    <2>3. CASE e.class = "defect"
        BY <2>1, <2>3 DEF ByClass, RpcCodes, ServersFault
    <2>4. CASE e.class = "cancelled"
        BY <2>1, <2>4 DEF ByClass, RpcCodes, ServersFault
    <2>5. CASE e.class \notin {"defect", "cancelled"}
        <3>1. ByClass(e, 500, 499, 503, 400) = IF e.retryable THEN 503 ELSE 400
            BY <2>5 DEF ByClass
        <3>2. ByClass(e, "Internal", "Canceled", "Unavailable", "InvalidArgument")
                = IF e.retryable THEN "Unavailable" ELSE "InvalidArgument"
            BY <2>5 DEF ByClass
        <3> QED
            BY <2>1, <2>2, <3>1, <3>2 DEF ServersFault
    <2> QED
        BY <2>3, <2>4, <2>5
<1> QED
    BY <1>1, <1>2

\* httpx gives an error the status of a client's or a server's fault, or what
\* was registered for its code.
LEMMA StatusInRange ==
    ASSUME StatusInv
    PROVE  IsStatus(StatusFor(statusFor, err))
<1>1. ByClass(err, 500, 499, 503, 400) \in 400 .. 599
    BY DEF ByClass
<1>2. CASE err.code \in DOMAIN statusFor
    BY <1>2 DEF StatusInv, StatusFor, IsStatus
<1>3. CASE err.code \notin DOMAIN statusFor
    BY <1>1, <1>3 DEF StatusFor, IsStatus
<1> QED
    BY <1>2, <1>3

LEMMA LookupOther ==
    ASSUME NEW t, NEW c, NEW v
    PROVE  \A d, default : d # c => Lookup(Set(t, c, v), d, default) = Lookup(t, d, default)
BY DEF Set, Lookup

-----------------------------------------------------------------------------
(* Steps *)

LEMMA InitIndInv == Init => IndInv
<1> SUFFICES ASSUME Init PROVE IndInv
    OBVIOUS
<1>1. StatusInv
    <2>1. statusFor0 = [c \in DOMAIN statusFor0 |-> statusFor0[c]]
        BY DEF statusFor0
    <2>2. statusFor = statusFor0
        BY DEF Init
    <2>3. \A c \in DOMAIN statusFor0 : statusFor0[c] \in 400 .. 599
        BY TablesAgree
    <2> QED
        BY <2>1, <2>2, <2>3 DEF StatusInv
<1>2. TablesInv /\ PlaceInv /\ SeenInv
    BY DEF Init, TablesInv, PlaceInv, SeenInv, Looking
<1>3. RepInv
    BY DEF Init, RepInv, NoRep
<1>4. AnswerInv /\ LookupsCurrent
    BY DEF Init, AnswerInv, LookupsCurrent, Gave, NoAnswer
<1> QED
    BY <1>1, <1>2, <1>3, <1>4 DEF IndInv

\* More may have been seen; what was is kept.
LEMMA SeenGrows ==
    ASSUME err' = err, seen \subseteq seen'
    PROVE  /\ \A own : SeenDocs(own) \subseteq SeenDocs(own)'
           /\ SeenStatuses \subseteq SeenStatuses' /\ SeenTypes \subseteq SeenTypes'
BY DEF SeenDocs, SeenStatuses, SeenTypes

\* A registration, whatever it changes, is seen by the handler it concerns.
LEMMA RegisteredStep ==
    ASSUME IndInv, NEW c, Registered(c), StatusInv', TablesInv',
           \A d : d # c => Entry(d)' = Entry(d)
    PROVE  IndInv'
<1> USE DEF Registered
<1>1. PlaceInv' /\ AnswerInv'
    BY DEF IndInv, PlaceInv, AnswerInv, IsStatus
<1>2. seen \subseteq seen' /\ err' = err
    OBVIOUS
<1>3. SeenInv'
    <2> SUFFICES ASSUME Looking' PROVE Entry(err.code)' \in seen'
        BY DEF SeenInv
    <2>1. Looking
        BY DEF Looking
    <2>2. CASE err.code = c
        BY <2>1, <2>2
    <2>3. CASE err.code # c
        <3>1. Entry(err.code)' = Entry(err.code)
            BY <2>3 DEF Entry
        <3> QED
            BY <1>2, <2>1, <3>1 DEF IndInv, SeenInv
    <2> QED
        BY <2>2, <2>3
<1>4. RepInv'
    BY <1>2, SeenGrows DEF IndInv, RepInv, IsStatus
<1>5. LookupsCurrent'
    BY <1>2, SeenGrows DEF IndInv, LookupsCurrent, Gave
<1> QED
    BY <1>1, <1>3, <1>4, <1>5 DEF IndInv

LEMMA RegisterStatusStep ==
    ASSUME IndInv, NEW c \in Codes, NEW status \in Statuses, RegisterStatus(c, status)
    PROVE  IndInv'
<1>1. statusFor' = Set(statusFor, c, status) /\ typeFor' = typeFor /\ docReg' = docReg /\ Registered(c)
    BY DEF RegisterStatus
<1>2. StatusInv'
    <2> DEFINE t == Set(statusFor, c, status)
    <2>1. /\ DOMAIN t = DOMAIN statusFor \cup {c} /\ t = [k \in DOMAIN t |-> t[k]]
          /\ \A k \in DOMAIN t : t[k] = IF k = c THEN status ELSE statusFor[k]
        BY DEF Set
    <2> HIDE DEF t
    <2>2. statusFor' = t
        BY <1>1 DEF t
    <2> QED
        BY <2>1, <2>2 DEF IndInv, StatusInv
<1>3. TablesInv'
    BY <1>1 DEF IndInv, TablesInv
<1>4. ASSUME NEW d, d # c PROVE Entry(d)' = Entry(d)
    <2>1. \A k \in {d} : /\ k \in DOMAIN statusFor' <=> k \in DOMAIN statusFor
                         /\ k \in DOMAIN statusFor => statusFor'[k] = statusFor[k]
        BY <1>1, <1>4 DEF Set
    <2>2. {statusFor'[k] : k \in DOMAIN statusFor' \cap {d}} = {statusFor[k] : k \in DOMAIN statusFor \cap {d}}
        BY <2>1
    <2> QED
        BY <1>1, <2>2 DEF Entry
<1> QED
    BY <1>1, <1>2, <1>3, <1>4, RegisteredStep

LEMMA RegisterTypeStep ==
    ASSUME IndInv, NEW c, NEW uri \in Types, RegisterType(c, uri)
    PROVE  IndInv'
<1>1. typeFor' = Set(typeFor, c, uri) /\ statusFor' = statusFor /\ docReg' = docReg /\ Registered(c)
    BY DEF RegisterType
<1>2. StatusInv'
    BY <1>1 DEF IndInv, StatusInv
<1>3. TablesInv'
    <2>1. \A k \in DOMAIN typeFor' : typeFor'[k] = IF k = c THEN uri ELSE typeFor[k]
        BY <1>1 DEF Set
    <2>2. DOMAIN typeFor' = DOMAIN typeFor \cup {c}
        BY <1>1 DEF Set
    <2> QED
        BY <1>1, <2>1, <2>2 DEF IndInv, TablesInv
<1>4. ASSUME NEW d, d # c PROVE Entry(d)' = Entry(d)
    <2>1. Lookup(typeFor', d, DefaultType(d)) = Lookup(typeFor, d, DefaultType(d))
        BY <1>1, <1>4, LookupOther
    <2> QED
        BY <1>1, <2>1 DEF Entry
<1> QED
    BY <1>1, <1>2, <1>3, <1>4, RegisteredStep

LEMMA RegisterDocStep ==
    ASSUME IndInv, NEW c, NEW doc \in Docs, RegisterDoc(c, doc)
    PROVE  IndInv'
<1>1. docReg' = Set(docReg, c, doc) /\ statusFor' = statusFor /\ typeFor' = typeFor /\ Registered(c)
    BY DEF RegisterDoc
<1>2. StatusInv'
    BY <1>1 DEF IndInv, StatusInv
<1>3. TablesInv'
    <2>1. \A k \in DOMAIN docReg' : docReg'[k] = IF k = c THEN doc ELSE docReg[k]
        BY <1>1 DEF Set
    <2>2. DOMAIN docReg' = DOMAIN docReg \cup {c}
        BY <1>1 DEF Set
    <2> QED
        BY <1>1, <2>1, <2>2 DEF IndInv, TablesInv
<1>4. ASSUME NEW d, d # c PROVE Entry(d)' = Entry(d)
    <2>1. Lookup(docReg', d, NoDoc) = Lookup(docReg, d, NoDoc)
        BY <1>1, <1>4, LookupOther
    <2> QED
        BY <1>1, <2>1 DEF Entry
<1> QED
    BY <1>1, <1>2, <1>3, <1>4, RegisteredStep

LEMMA RequestStep ==
    ASSUME IndInv, NEW a \in Adapters, NEW e \in Asked \cup {Foreign, NoError}, Request(a, e)
    PROVE  IndInv'
<1> USE DEF Request, tables
<1>1. StatusInv' /\ TablesInv'
    BY DEF IndInv, StatusInv, TablesInv
<1>2. PlaceInv'
    BY DEF IndInv, PlaceInv
<1>3. SeenInv'
    BY DEF SeenInv, Looking, Entry
<1>4. RepInv'
    BY DEF IndInv, RepInv
<1>5. answer' = NoAnswer
    BY DEF IndInv, PlaceInv
<1>6. AnswerInv' /\ LookupsCurrent'
    BY <1>5 DEF AnswerInv, LookupsCurrent, Gave, NoAnswer
<1> QED
    BY <1>1, <1>2, <1>3, <1>4, <1>6 DEF IndInv

\* A look-up changes only what the handler has found.
LEMMA LookStep ==
    ASSUME IndInv, pc \in Looked, NEW l \in Looked \cup {"write"}, Goto(l), RepInv'
    PROVE  IndInv'
<1> USE DEF Goto, tables
<1>1. StatusInv' /\ TablesInv'
    BY DEF IndInv, StatusInv, TablesInv
<1>2. PlaceInv'
    BY DEF IndInv, PlaceInv
<1>3. SeenInv'
    <2>1. Looking
        BY DEF IndInv, PlaceInv, Looking
    <2>2. Entry(err.code)' = Entry(err.code)
        BY DEF Entry
    <2> QED
        BY <2>1, <2>2 DEF IndInv, SeenInv
<1>4. AnswerInv' /\ LookupsCurrent'
    BY DEF IndInv, AnswerInv, LookupsCurrent, Gave, SeenDocs, SeenTypes, SeenStatuses, IsStatus
<1> QED
    BY <1>1, <1>2, <1>3, <1>4 DEF IndInv

\* What is looked up now is in an entry seen.
LEMMA ResolveSeen ==
    ASSUME IndInv, pc \in Looked, NEW own
    PROVE  /\ Resolve(own, err.code) \in SeenDocs(own)
           /\ Resolve(own, err.code) \in Docs \cup {NoDoc, Own}
<1>1. Entry(err.code) \in seen
    BY DEF IndInv, PlaceInv, SeenInv, Looking
<1>2. Entry(err.code).doc = DocFor(err.code)
    BY DEF Entry, DocFor
<1>3. DocFor(err.code) \in Docs \cup {NoDoc}
    BY DEF IndInv, TablesInv, DocFor, Lookup
<1> QED
    BY <1>1, <1>2, <1>3 DEF Resolve, SeenDocs

LEMMA RemediationStep ==
    ASSUME IndInv, Remediation
    PROVE  IndInv'
<1> DEFINE h == Resolve(err.hint, err.code)
<1>1. pc = "hint" /\ Goto("url") /\ rep' = [rep EXCEPT !.hint = h]
    BY DEF Remediation
<1>2. h \in SeenDocs(err.hint) /\ h \in Docs \cup {NoDoc, Own}
    BY <1>1, ResolveSeen
<1> HIDE DEF h
<1>3. \A own : SeenDocs(own)' = SeenDocs(own)
    BY <1>1 DEF Goto, SeenDocs
<1>4. RepInv'
    BY <1>1, <1>2, <1>3 DEF IndInv, RepInv, Goto, SeenStatuses, SeenTypes, IsStatus
<1> QED
    BY <1>1, <1>4, LookStep

LEMMA URLStep ==
    ASSUME IndInv, URL
    PROVE  IndInv'
<1> DEFINE u == Resolve(err.url, err.code)
<1>1. PICK l \in {"status", "write"} :
        /\ pc = "url" /\ Goto(l) /\ (via = "http" => l = "status")
        /\ rep' = [rep EXCEPT !.url = u]
    BY DEF URL
<1>2. u \in SeenDocs(err.url) /\ u \in Docs \cup {NoDoc, Own}
    BY <1>1, ResolveSeen
<1> HIDE DEF u
<1>3. \A own : SeenDocs(own)' = SeenDocs(own)
    BY <1>1 DEF Goto, SeenDocs
<1>4. RepInv'
    BY <1>1, <1>2, <1>3 DEF IndInv, RepInv, Goto, SeenStatuses, SeenTypes, IsStatus
<1> QED
    BY <1>1, <1>4, LookStep

LEMMA HttpStatusStep ==
    ASSUME IndInv, HttpStatus
    PROVE  IndInv'
<1>1. pc = "status" /\ Goto("type") /\ rep' = [rep EXCEPT !.status = StatusFor(statusFor, err)]
    BY DEF HttpStatus
<1>2. Entry(err.code) \in seen
    BY <1>1 DEF IndInv, PlaceInv, SeenInv, Looking
<1>3. StatusFor(statusFor, err) \in SeenStatuses
    <2> DEFINE s == Entry(err.code)
    <2>1. s.status = {statusFor[d] : d \in DOMAIN statusFor \cap {err.code}}
        BY DEF Entry
    <2>2. StatusFor(statusFor, err) \in (IF s.status = {} THEN {StatusFor(statusFor0, err)} ELSE s.status)
        <3>1. CASE err.code \in DOMAIN statusFor
            BY <2>1, <3>1 DEF StatusFor
        <3>2. CASE err.code \notin DOMAIN statusFor
            <4>1. s.status = {} /\ err.code \notin DOMAIN statusFor0
                BY <2>1, <3>2 DEF IndInv, StatusInv
            <4> QED
                BY <3>2, <4>1 DEF StatusFor
        <3> QED
            BY <3>1, <3>2
    <2> QED
        BY <1>2, <2>2 DEF SeenStatuses
<1>4. IsStatus(StatusFor(statusFor, err))
    BY StatusInRange DEF IndInv
<1>5. SeenStatuses' = SeenStatuses /\ (\A own : SeenDocs(own)' = SeenDocs(own)) /\ \A x : IsStatus(x)' <=> IsStatus(x)
    BY <1>1 DEF Goto, SeenDocs, SeenStatuses, IsStatus
<1>6. RepInv'
    BY <1>1, <1>3, <1>4, <1>5 DEF IndInv, RepInv, Goto
<1> QED
    BY <1>1, <1>6, LookStep

LEMMA ProblemTypeStep ==
    ASSUME IndInv, problemType
    PROVE  IndInv'
<1> DEFINE type == IF err.code = NoCode THEN Blank ELSE Lookup(typeFor, err.code, DefaultType(err.code))
<1>1. pc = "type" /\ Goto("write") /\ rep' = [rep EXCEPT !.type = type]
    BY DEF problemType
<1>2. Entry(err.code) \in seen
    BY <1>1 DEF IndInv, PlaceInv, SeenInv, Looking
<1>3. type \in SeenTypes
    BY <1>2 DEF Entry, SeenTypes
<1>4. type \in Types \cup {Blank} \cup DefaultTypes
    <2>1. err \in Asked
        BY <1>1 DEF IndInv, PlaceInv
    <2>2. DefaultType(err.code) \in DefaultTypes
        BY <2>1 DEF DefaultTypes
    <2> QED
        BY <2>2 DEF IndInv, TablesInv, Lookup
<1> HIDE DEF type
<1>5. RepInv'
    BY <1>1, <1>3, <1>4 DEF IndInv, RepInv, Goto, SeenDocs, SeenStatuses, SeenTypes, IsStatus
<1> QED
    BY <1>1, <1>5, LookStep

-----------------------------------------------------------------------------
(* Answers *)

\* An answer ends a look-up; what it is made of must be there.
LEMMA WriteStep ==
    ASSUME IndInv, pc = "write", NEW a, Answered(a), AnswerInv', LookupsCurrent'
    PROVE  IndInv'
<1> USE DEF Answered, tables
<1>1. StatusInv' /\ TablesInv'
    BY DEF IndInv, StatusInv, TablesInv
<1>2. PlaceInv' /\ SeenInv'
    BY DEF IndInv, PlaceInv, SeenInv, Looking
<1>3. RepInv'
    BY DEF IndInv, RepInv
<1> QED
    BY <1>1, <1>2, <1>3 DEF IndInv

\* The documentation an answer gives is what the handler found.
LEMMA GivesRep ==
    ASSUME IndInv, pc = "write", NEW a, Answered(a), AnswerInv', a.via = via, via # "http",
           err \in Asked /\ "url" \in DOMAIN a => a.url = rep.url,
           err \in Asked /\ "hint" \in DOMAIN a => a.hint = rep.hint
    PROVE  IndInv'
<1>1. answer' = a /\ err' = err /\ seen' = seen
    BY DEF Answered
<1>2. LookupsCurrent'
    BY <1>1 DEF IndInv, RepInv, LookupsCurrent, Gave, SeenDocs
<1> QED
    BY <1>2, WriteStep

LEMMA HttpWriteStep ==
    ASSUME IndInv, HttpWrite
    PROVE  IndInv'
<1> DEFINE a == IF err \in Asked
                THEN [via |-> via, status |-> rep.status, type |-> rep.type, url |-> rep.url,
                      panics |-> rep.status \notin HeaderStatuses]
                ELSE [via |-> via, status |-> 500, type |-> Blank, url |-> NoDoc, panics |-> FALSE]
<1>1. pc = "write" /\ via = "http" /\ Answered(a)
    BY DEF HttpWrite
<1>2. /\ a.via = "http" /\ DOMAIN a = {"via", "status", "type", "url", "panics"}
      /\ a.status \in HeaderStatuses => a.panics = FALSE
      /\ IF err \in Asked THEN a.status = rep.status /\ a.type = rep.type /\ a.url = rep.url
         ELSE a.status = 500
    <2>1. CASE err \in Asked
        <3>1. a = [via |-> via, status |-> rep.status, type |-> rep.type, url |-> rep.url,
                   panics |-> rep.status \notin HeaderStatuses]
            BY <2>1
        <3> HIDE DEF a
        <3>2. rep.status \in HeaderStatuses => (rep.status \notin HeaderStatuses) = FALSE
            OBVIOUS
        <3> QED
            BY <1>1, <2>1, <3>1, <3>2
    <2>2. CASE err \notin Asked
        BY <1>1, <2>2
    <2> QED
        BY <2>1, <2>2
<1> HIDE DEF a
<1>3. answer' = a /\ err' = err /\ seen' = seen
    BY <1>1 DEF Answered
<1>4. AnswerInv'
    BY <1>1, <1>2, <1>3 DEF IndInv, RepInv, AnswerInv, IsStatus
<1>5. LookupsCurrent'
    BY <1>1, <1>2, <1>3 DEF IndInv, RepInv, LookupsCurrent, Gave, SeenDocs, SeenStatuses, SeenTypes
<1> QED
    BY <1>1, <1>4, <1>5, WriteStep

LEMMA GrpcWriteStep ==
    ASSUME IndInv, GrpcWrite
    PROVE  IndInv'
<1> DEFINE a == IF err \in Asked
                THEN [via |-> via, code |-> GrpcCode(err), retryInfo |-> err.retryable,
                      help |-> rep.hint # NoDoc \/ rep.url # NoDoc, hint |-> rep.hint, url |-> rep.url]
                ELSE [via |-> via, code |-> GrpcErr(err), retryInfo |-> FALSE,
                      help |-> FALSE, hint |-> NoDoc, url |-> NoDoc]
<1>1. pc = "write" /\ via = "grpc" /\ Answered(a)
    BY DEF GrpcWrite
<1>2. /\ a.via = "grpc" /\ a.code = IF err \in Asked THEN GrpcCode(err) ELSE GrpcErr(err)
      /\ err \in Asked => a.hint = rep.hint /\ a.url = rep.url
    BY <1>1
<1> HIDE DEF a
<1>3. answer' = a /\ err' = err
    BY <1>1 DEF Answered
<1>4. AnswerInv'
    BY <1>2, <1>3 DEF AnswerInv
<1> QED
    BY <1>1, <1>2, <1>4, GivesRep

LEMMA ConnectWriteStep ==
    ASSUME IndInv, ConnectWrite
    PROVE  IndInv'
<1> DEFINE a == [via |-> via, code |-> IF err \in Asked THEN ConnectCode(err) ELSE "Unknown"]
<1>1. pc = "write" /\ via = "connect" /\ Answered(a)
    BY DEF ConnectWrite
<1>2. AnswerInv'
    BY <1>1 DEF Answered, AnswerInv
<1> QED
    BY <1>1, <1>2, GivesRep

LEMMA GraphqlWriteStep ==
    ASSUME IndInv, GraphqlWrite
    PROVE  IndInv'
<1> DEFINE a == IF err \in Asked
                THEN [via |-> via, extensions |-> TRUE, message |-> IF err.public THEN "public" ELSE "generic",
                      retryable |-> err.retryable, url |-> rep.url]
                ELSE [via |-> via, extensions |-> FALSE, message |-> "own",
                      retryable |-> FALSE, url |-> NoDoc]
<1>1. pc = "write" /\ via = "graphql" /\ Answered(a)
    BY DEF GraphqlWrite
<1>2. /\ a.via = "graphql" /\ "hint" \notin DOMAIN a
      /\ err \in Asked => a.url = rep.url
    BY <1>1
<1> HIDE DEF a
<1>3. AnswerInv'
    BY <1>1, <1>2 DEF Answered, AnswerInv
<1> QED
    BY <1>1, <1>2, <1>3, GivesRep

\* A sink that has nothing to send its event to.
LEMMA NoEventStep ==
    ASSUME IndInv, pc = "write", via \in {"sentry", "otel", "prometheus"}, Answered(NoEvent)
    PROVE  IndInv'
<1>1. AnswerInv'
    BY DEF Answered, AnswerInv, NoEvent
<1> QED
    BY <1>1, GivesRep DEF NoEvent

LEMMA SentryWriteStep ==
    ASSUME IndInv, SentryWrite
    PROVE  IndInv'
<1> DEFINE a == [via |-> via, event |-> TRUE, level |-> levelOf(err.severity),
                 type |-> SentryType(err), hint |-> rep.hint]
<1>1. pc = "write" /\ via = "sentry" /\ (Answered(NoEvent) \/ (err \in Asked /\ Answered(a)))
    <2>1. PICK hub \in BOOLEAN : Answered(IF err \in Asked /\ hub THEN a ELSE NoEvent)
        BY DEF SentryWrite
    <2>2. pc = "write" /\ via = "sentry"
        BY DEF SentryWrite
    <2> HIDE DEF a
    <2>3. CASE err \in Asked /\ hub
        BY <2>1, <2>2, <2>3
    <2>4. CASE ~(err \in Asked /\ hub)
        <3>1. (IF err \in Asked /\ hub THEN a ELSE NoEvent) = NoEvent
            BY <2>4
        <3> QED
            BY <2>1, <2>2, <3>1
    <2> QED
        BY <2>3, <2>4
<1>2. CASE err \in Asked /\ Answered(a)
    <2>1. AnswerInv'
        BY <1>1, <1>2 DEF Answered, AnswerInv
    <2> QED
        BY <1>1, <1>2, <2>1, GivesRep
<1> QED
    BY <1>1, <1>2, NoEventStep

LEMMA OtelWriteStep ==
    ASSUME IndInv, OtelWrite
    PROVE  IndInv'
<1> DEFINE a == [via |-> via, event |-> TRUE, type |-> OtelType(err), error |-> OtelFails(err)]
<1>1. pc = "write" /\ via = "otel" /\ (Answered(NoEvent) \/ (err \in Asked /\ Answered(a)))
    <2>1. PICK recording \in BOOLEAN : Answered(IF err \in Asked /\ recording THEN a ELSE NoEvent)
        BY DEF OtelWrite
    <2>2. pc = "write" /\ via = "otel"
        BY DEF OtelWrite
    <2> HIDE DEF a
    <2>3. CASE err \in Asked /\ recording
        BY <2>1, <2>2, <2>3
    <2>4. CASE ~(err \in Asked /\ recording)
        <3>1. (IF err \in Asked /\ recording THEN a ELSE NoEvent) = NoEvent
            BY <2>4
        <3> QED
            BY <2>1, <2>2, <3>1
    <2> QED
        BY <2>3, <2>4
<1>2. CASE err \in Asked /\ Answered(a)
    <2>1. AnswerInv'
        BY <1>1, <1>2 DEF Answered, AnswerInv
    <2> QED
        BY <1>1, <1>2, <2>1, GivesRep
<1> QED
    BY <1>1, <1>2, NoEventStep

LEMMA PrometheusWriteStep ==
    ASSUME IndInv, PrometheusWrite
    PROVE  IndInv'
<1> DEFINE a == [via |-> via, event |-> TRUE, class |-> err.class, domain |-> err.domain,
                 code |-> IF err.code = NoCode THEN "unknown" ELSE err.code]
<1>1. pc = "write" /\ via = "prometheus" /\ (Answered(NoEvent) \/ Answered(a))
    BY DEF PrometheusWrite
<1>2. CASE Answered(a)
    <2>1. AnswerInv'
        BY <1>1, <1>2 DEF Answered, AnswerInv
    <2> QED
        BY <1>1, <1>2, <2>1, GivesRep
<1> QED
    BY <1>1, <1>2, NoEventStep

LEMMA DiagWriteStep ==
    ASSUME IndInv, GraphicalWrite \/ NarratedWrite
    PROVE  IndInv'
<1>1. PICK places :
        /\ pc = "write" /\ via \in {"graphical", "narrated"} /\ DiagWrite(places)
        /\ via = "graphical" => places = Drawn(err.drawing)
        /\ via = "narrated" => places = Told(err.drawing)
    BY DEF GraphicalWrite, NarratedWrite
<1> DEFINE a == IF err \in Asked
                THEN [via |-> via, severity |-> sevWord(err.severity), places |-> places,
                      hint |-> rep.hint, url |-> rep.url]
                ELSE [via |-> via, message |-> err # NoError]
<1>2. Answered(a)
    BY <1>1 DEF DiagWrite
<1>3. a.via = via /\ (err \in Asked => a.hint = rep.hint /\ a.url = rep.url /\ a.places = places)
    OBVIOUS
<1> HIDE DEF a
<1>4. answer' = a /\ err' = err
    BY <1>2 DEF Answered
<1>5. AnswerInv'
    BY <1>1, <1>3, <1>4 DEF AnswerInv
<1> QED
    BY <1>1, <1>2, <1>3, <1>5, GivesRep

LEMMA SentStep ==
    ASSUME IndInv, Sent
    PROVE  IndInv'
<1> USE DEF Sent, tables
<1>1. StatusInv' /\ TablesInv'
    BY DEF IndInv, StatusInv, TablesInv
<1>2. PlaceInv' /\ SeenInv'
    BY DEF PlaceInv, SeenInv, Looking
<1>3. RepInv'
    BY DEF RepInv, NoRep
<1>4. AnswerInv' /\ LookupsCurrent'
    BY DEF AnswerInv, LookupsCurrent, Gave, NoAnswer
<1> QED
    BY <1>1, <1>2, <1>3, <1>4 DEF IndInv

LEMMA NextIndInv == IndInv /\ [Next]_vars => IndInv'
<1> SUFFICES ASSUME IndInv, [Next]_vars PROVE IndInv'
    OBVIOUS
<1>1. CASE UNCHANGED vars
    <2> USE <1>1 DEF vars, tables, handler
    <2>1. StatusInv' /\ TablesInv' /\ PlaceInv'
        BY DEF IndInv, StatusInv, TablesInv, PlaceInv
    <2>2. SeenInv'
        BY DEF IndInv, SeenInv, Looking, Entry
    <2>3. RepInv'
        BY DEF IndInv, RepInv, SeenDocs, SeenStatuses, SeenTypes, IsStatus
    <2>4. AnswerInv' /\ LookupsCurrent'
        BY DEF IndInv, AnswerInv, LookupsCurrent, Gave, SeenDocs, SeenStatuses, SeenTypes, IsStatus
    <2> QED
        BY <2>1, <2>2, <2>3, <2>4 DEF IndInv
<1>2. CASE \E c \in Codes :
            \/ \E status \in Statuses : RegisterStatus(c, status)
            \/ \E uri \in Types : RegisterType(c, uri)
            \/ \E doc \in Docs : RegisterDoc(c, doc)
    BY <1>2, RegisterStatusStep, RegisterTypeStep, RegisterDocStep
<1>3. CASE \E r \in Requests : Request(r[1], r[2])
    BY <1>3, RequestStep
<1>4. CASE Remediation \/ URL \/ HttpStatus \/ problemType
    BY <1>4, RemediationStep, URLStep, HttpStatusStep, ProblemTypeStep
<1>5. CASE HttpWrite \/ GrpcWrite \/ ConnectWrite \/ GraphqlWrite
    BY <1>5, HttpWriteStep, GrpcWriteStep, ConnectWriteStep, GraphqlWriteStep
<1>6. CASE SentryWrite \/ OtelWrite \/ PrometheusWrite \/ GraphicalWrite \/ NarratedWrite \/ Sent
    BY <1>6, SentryWriteStep, OtelWriteStep, PrometheusWriteStep, DiagWriteStep, SentStep
<1> QED
    BY <1>1, <1>2, <1>3, <1>4, <1>5, <1>6 DEF Next

LEMMA Invariance == Spec => []IndInv
BY InitIndInv, NextIndInv, PTL DEF Spec

-----------------------------------------------------------------------------
(* The properties *)

\* Every answer is one its protocol has (httpx.go, grpc.go, connect.go): a code
\* of gRPC, or a status of httpx, for any error and any ints registered as
\* statuses; net/http panics on none but one that was registered.
THEOREM TypeCorrect == Spec => []TypeOK
<1>1. IndInv => TypeOK
    <2> SUFFICES ASSUME IndInv PROVE TypeOK
        OBVIOUS
    <2>1. statusFor \in [DOMAIN statusFor0 \cup DOMAIN statusFor -> Int]
        <3>1. DOMAIN statusFor0 \cup DOMAIN statusFor = DOMAIN statusFor
            BY DEF IndInv, StatusInv
        <3>2. \A c \in DOMAIN statusFor : statusFor[c] \in Int
            BY DEF IndInv, StatusInv
        <3>3. statusFor = [c \in DOMAIN statusFor |-> statusFor[c]]
            BY DEF IndInv, StatusInv
        <3> QED
            BY <3>1, <3>2, <3>3
    <2>2. answer.via \in {"grpc", "connect"} => answer.code \in RpcCodes
        <3>1. {"OK", "Unknown"} \subseteq RpcCodes
            BY DEF RpcCodes
        <3>2. answer.via \in {"grpc", "connect"} =>
                answer.code \in {GrpcCode(err), ConnectCode(err), "OK", "Unknown"}
            BY DEF IndInv, AnswerInv, GrpcErr
        <3>3. {GrpcCode(err), ConnectCode(err)} \subseteq RpcCodes
            BY CodesAgree
        <3> QED
            BY <3>1, <3>2, <3>3
    <2>3. ASSUME answer.via = "http"
          PROVE  \/ answer.status \in 400 .. 599 /\ ~ answer.panics
                 \/ err \in Asked /\ err.code \in Codes /\ answer.status \in Statuses
        <3>1. /\ answer.status \in HeaderStatuses => answer.panics = FALSE
              /\ IF err \in Asked THEN IsStatus(answer.status) ELSE answer.status = 500
            BY <2>3 DEF IndInv, AnswerInv
        <3>2. answer.status \in 400 .. 599 => ~ answer.panics
            BY <3>1 DEF HeaderStatuses
        <3> QED
            BY <3>1, <3>2 DEF IsStatus
    <2> QED
        BY <2>1, <2>2, <2>3 DEF IndInv, PlaceInv, RepInv, TypeOK
<1> QED
    BY <1>1, Invariance, PTL

\* What an answer says was in the tables while it was being put together
\* (httpx.go, report.go), whatever is registered between its look-ups.
THEOREM NoStaleLookup == Spec => []LookupsCurrent
<1>1. IndInv => LookupsCurrent
    BY DEF IndInv
<1> QED
    BY <1>1, Invariance, PTL

\* The transports, the span exporter and sentry agree on whose fault an error
\* is and what it is called, for every error.
THEOREM AdaptersAgree == Spec => []FaultsAgree
<1>1. ASSUME IndInv, Gave("grpc") \/ Gave("connect"), err # NoError
      PROVE  /\ answer.code # "OK"
             /\ answer.code \in ServersFault <=> Builtin(err) >= 500
             /\ answer.code = "Unavailable" <=> Builtin(err) = 503
    <2>1. CASE err \in Asked
        <3>1. answer.code = GrpcCode(err)
            BY <1>1, <2>1, CodesAgree DEF IndInv, AnswerInv, Gave
        <3> QED
            BY <2>1, <3>1, CodesAgree DEF Builtin
    <2>2. CASE err \notin Asked
        <3>1. answer.code = "Unknown"
            BY <1>1, <2>2 DEF IndInv, AnswerInv, Gave, GrpcErr
        <3> QED
            BY <2>2, <3>1 DEF Builtin, ServersFault
    <2> QED
        BY <2>1, <2>2
<1>2. ASSUME IndInv, Gave("otel"), answer.event, err.code \notin DOMAIN statusFor0
      PROVE  answer.error <=> Builtin(err) # 499
    <2>1. err \in Asked /\ answer.error = OtelFails(err)
        BY <1>2 DEF IndInv, AnswerInv, Gave
    <2>2. Builtin(err) = ByClass(err, 500, 499, 503, 400)
        BY <1>2, <2>1 DEF Builtin, StatusFor
    <2>3. CASE err.class = "cancelled"
        BY <2>1, <2>2, <2>3 DEF OtelFails, ByClass
    <2>4. CASE err.class # "cancelled"
        <3>1. answer.error = TRUE
            BY <2>1, <2>4 DEF OtelFails
        <3>2. Builtin(err) # 499
            BY <2>2, <2>4 DEF ByClass
        <3> QED
            BY <3>1, <3>2
    <2> QED
        BY <2>3, <2>4
<1>3. ASSUME IndInv, Gave("sentry"), answer.event PROVE answer.type = OtelType(err)
    <2>1. answer.type = SentryType(err)
        BY <1>3 DEF IndInv, AnswerInv, Gave
    <2> QED
        BY <2>1 DEF SentryType, OtelType
<1>4. IndInv => FaultsAgree
    BY <1>1, <1>2, <1>3 DEF FaultsAgree
<1> QED
    BY <1>4, Invariance, PTL

\* diag puts under every label that starts in the source an underline of what
\* it covers of its first line, and both its forms name the same places, for
\* any source and labels whose columns and lengths add up to ints (diag.go).
THEOREM LabelsAreUnderlined == Spec => []UnderlinesTrue
<1>1. ASSUME IndInv, err \in Asked
      PROVE  LET d      == err.drawing
                 places == answer.places
                 inText == {i \in DOMAIN d.labels : d.labels[i].start \in 0 .. Len(d.src) - 1}
             IN  /\ Gave("graphical") =>
                     \E at \in [inText -> DOMAIN places] :
                        /\ \A i, j \in inText : i < j => at[i] < at[j]
                        /\ \A i \in inText :
                            Fits(d.src, d.labels[i]) => Under(d.src, d.labels[i], places[at[i]])
                 /\ Gave("narrated") =>
                     \A i \in inText : i \in DOMAIN places /\ places[i] = Place(d.src, d.labels[i].start)
    <2> DEFINE d == err.drawing
               places == answer.places
               inText == {i \in DOMAIN d.labels : d.labels[i].start \in 0 .. Len(d.src) - 1}
    <2>1. d \in Drawings
        BY <1>1, DrawingsAssumption
    <2>2. \A i \in inText : i \in DOMAIN d.labels /\ d.labels[i].start >= 0 /\ d.src # <<>>
        <3> TAKE i \in inText
        <3>1. d.labels[i].start \in Int /\ d.labels[i].start >= 0 /\ d.labels[i].start <= Len(d.src) - 1
            BY <2>1, DrawingType
        <3>2. Len(d.src) \in Nat
            BY <2>1, DrawingType DEF Source
        <3>3. Len(d.src) # 0
            BY <3>1, <3>2
        <3> QED
            BY <3>1, <3>3
    <2>3. ASSUME Gave("graphical")
          PROVE  \E at \in [inText -> DOMAIN places] :
                    /\ \A i, j \in inText : i < j => at[i] < at[j]
                    /\ \A i \in inText :
                        Fits(d.src, d.labels[i]) => Under(d.src, d.labels[i], places[at[i]])
        <3> DEFINE at == [i \in inText |-> PlaceOf(d, i)]
        <3>1. places = Drawn(d)
            BY <1>1, <2>3 DEF IndInv, AnswerInv, Gave
        <3> HIDE DEF d, places, inText
        <3>2. \A i \in inText :
                /\ PlaceOf(d, i) \in DOMAIN places
                /\ Fits(d.src, d.labels[i]) => Under(d.src, d.labels[i], places[PlaceOf(d, i)])
                /\ \A j \in inText : i < j => PlaceOf(d, i) < PlaceOf(d, j)
            BY <2>1, <2>2, <3>1, DrawnIs
        <3>3. at \in [inText -> DOMAIN places] /\ \A i \in inText : at[i] = PlaceOf(d, i)
            BY <3>2
        <3> HIDE DEF at
        <3> QED
            BY <3>2, <3>3
    <2>4. ASSUME Gave("narrated"), NEW i \in inText
          PROVE  i \in DOMAIN places /\ places[i] = Place(d.src, d.labels[i].start)
        <3>1. places = Told(d)
            BY <1>1, <2>4 DEF IndInv, AnswerInv, Gave
        <3> HIDE DEF d, places, inText
        <3> QED
            BY <2>1, <2>2, <3>1, ToldIs
    <2> QED
        BY <2>3, <2>4
<1>2. IndInv => UnderlinesTrue
    BY <1>1 DEF UnderlinesTrue
<1> QED
    BY <1>2, Invariance, PTL
=============================================================================
