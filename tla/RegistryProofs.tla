--------------------------- MODULE RegistryProofs ---------------------------
(***************************************************************************)
(* Proofs, for any sinks, goroutines and interleaving of Reports with Adds,*)
(* of the safety properties of Registry, and that it implements FanOut.    *)
(***************************************************************************)
EXTENDS Registry, FiniteSetTheorems, SequenceTheorems, TLAPS

-----------------------------------------------------------------------------
(* The inductive invariant *)

Early == {"report", "store", "stored", "rlock", "reading"}
Adding == {"add", "lock", "append"}
Late == {"loop", "emitted"} \cup Adding \cup {"done"}

Headers == [arr : Nat, len : Nat]

Slots == Sinks \cup {Empty}

\* No sink has added its field to a report.
Reports == [fp : SUBSET {"ptr", "len"}, extra : {FALSE}]

Calls == [sink : Sinks, report : Reports]

Shape ==
    /\ arrays \in Seq(Seq(Slots)) /\ sinks \in Headers
    /\ writer \in Procs \cup {Nobody} /\ waiting \subseteq Procs /\ readers \subseteq Reporters
    /\ fp \in [Errors -> SUBSET {"ptr", "len"}]
    /\ pc \in [Procs -> Early \cup Late]
    /\ base \in [Procs -> Headers] /\ view \in [Reporters -> Headers]
    /\ i \in [Reporters -> Nat \ {0}]
    /\ report \in [Reporters -> Reports]
    /\ calls \in [Reporters -> Seq(Calls)] /\ told \in [Reporters -> Seq(Sinks)]
    /\ reentrant \in 0 .. MaxReentrant
    /\ before \in [Reporters -> Nat]

\* The registry uses the newest array; what it covers of it is registered.
SliceInv ==
    /\ Len(arrays) >= 1 /\ sinks.arr = Len(arrays)
    /\ sinks.len <= Len(arrays[sinks.arr])
    /\ \A k \in 1 .. sinks.len : arrays[sinks.arr][k] \in Sinks
    /\ \A p \in Procs : base[p].arr \in 1 .. Len(arrays)

Pending == {p \in Procs : pc[p] \in Adding}

\* How long the list can become: append never needs more than Growth has.
CountInv ==
    sinks.len + Cardinality(Pending) = Len(Wired) + Cardinality(Adders) + reentrant

\* Mutual exclusion: while one is in Add the header stays what it found.
LockInv ==
    /\ \A p \in Procs : pc[p] = "append" <=> writer = p
    /\ \A p \in Procs : pc[p] = "append" => base[p] = sinks
    /\ readers = {p \in Reporters : pc[p] = "reading"}
    /\ writer # Nobody => readers = {}
    /\ \A p \in Adders : pc[p] \in Adding \cup {"done"}

\* What a report walks, in whichever array, is a prefix of what is registered.
ViewInv(p) ==
    /\ view[p].arr \in 1 .. Len(arrays)
    /\ view[p].len <= Len(arrays[view[p].arr]) /\ view[p].len <= sinks.len
    /\ \A k \in 1 .. view[p].len : arrays[view[p].arr][k] = arrays[sinks.arr][k]
    /\ pc[p] = "reading" => view[p].arr = sinks.arr

\* How far it has come.
WalkInv(p) ==
    /\ before[p] <= sinks.len /\ Len(calls[p]) <= view[p].len
    /\ pc[p] \in Early => view[p].len = 0 /\ calls[p] = <<>> /\ told[p] = <<>> /\ i[p] = 1
    /\ pc[p] \in {"store", "stored", "rlock", "reading"} \cup Adding => ErrorOf[p] # NoError
    /\ pc[p] \in Late /\ ErrorOf[p] # NoError =>
        /\ before[p] <= view[p].len
        /\ pc[p] = "loop" => Len(calls[p]) = i[p] - 1
        /\ pc[p] \in Adding \cup {"emitted"} => Len(calls[p]) = i[p]
        /\ pc[p] = "done" => Len(calls[p]) = view[p].len
    /\ pc[p] \in Adding => This(p) \in Registering
    /\ pc[p] \in {"loop", "emitted"} => ErrorOf[p] # NoError
    /\ \A k \in DOMAIN calls[p] : calls[p][k].sink = arrays[view[p].arr][k]

\* The failures up to the n-th sink are told, in order.
ToldUpTo(p, n) ==
    /\ Len(told[p]) = Cardinality(Failed(p, n))
    /\ \A k \in Failed(p, n) : told[p][Cardinality(Failed(p, k))] = Given(p)[k]

ToldInv(p) ==
    ToldUpTo(p, IF pc[p] \in Adding \cup {"emitted"} THEN i[p] - 1 ELSE Len(calls[p]))

ReporterInv(p) == ViewInv(p) /\ WalkInv(p) /\ ToldInv(p)

IndInv ==
    /\ Shape /\ SliceInv /\ CountInv /\ LockInv
    /\ \A p \in Reporters : ReporterInv(p)

USE KindAssumption, GrowthAssumption DEF Early, Adding, Late, Headers, Slots, Reports, Calls, Procs

-----------------------------------------------------------------------------
(* Capacities and arrays *)

LEMMA CapForEnough ==
    ASSUME NEW n \in 0 .. Len(Wired) + Cardinality(Adders) + MaxReentrant
    PROVE  CapFor(n) \in Nat /\ CapFor(n) >= n
<1>1. \E c \in Growth : IsCapFor(c, n)
    OBVIOUS
<1> QED
    BY <1>1 DEF CapFor, IsCapFor

LEMMA ArrayProperties ==
    ASSUME NEW s \in Seq(Sinks), NEW cap \in Nat, cap >= Len(s)
    PROVE  /\ Array(s, cap) \in Seq(Slots) /\ Len(Array(s, cap)) = cap
           /\ \A k \in 1 .. Len(s) : Array(s, cap)[k] = s[k]
<1>1. \A k \in 1 .. cap : (IF k <= Len(s) THEN s[k] ELSE Empty) \in Slots
    BY ElementOfSeq
<1>2. Array(s, cap) \in [1 .. cap -> Slots]
    BY <1>1 DEF Array
<1> QED
    BY <1>2 DEF Array

LEMMA PendingFinite == IsFiniteSet(Pending) /\ Cardinality(Pending) \in Nat
BY FS_Subset, FS_CardinalityType DEF Pending

LEMMA AddersFinite == IsFiniteSet(Adders) /\ Cardinality(Adders) \in Nat
BY FS_Subset, FS_CardinalityType

-----------------------------------------------------------------------------
(* The failures told *)

LEMMA FailedFinite ==
    ASSUME NEW p, NEW n \in Nat
    PROVE  IsFiniteSet(Failed(p, n)) /\ Cardinality(Failed(p, n)) \in Nat
<1>1. IsFiniteSet(1 .. n)
    BY FS_Interval
<1> QED
    BY <1>1, FS_Subset, FS_CardinalityType DEF Failed

LEMMA FailedNone == ASSUME NEW p PROVE Cardinality(Failed(p, 0)) = 0
<1>1. Failed(p, 0) = {}
    BY DEF Failed
<1> QED
    BY <1>1, FS_EmptySet

LEMMA FailedNext ==
    ASSUME NEW p, NEW n \in Nat
    PROVE  /\ Given(p)[n + 1] \in Failing =>
                /\ Failed(p, n + 1) = Failed(p, n) \cup {n + 1}
                /\ Cardinality(Failed(p, n + 1)) = Cardinality(Failed(p, n)) + 1
           /\ Given(p)[n + 1] \notin Failing => Failed(p, n + 1) = Failed(p, n)
<1>1. 1 .. n + 1 = (1 .. n) \cup {n + 1} /\ n + 1 \notin 1 .. n
    OBVIOUS
<1>2. CASE Given(p)[n + 1] \in Failing
    <2>1. Failed(p, n + 1) = Failed(p, n) \cup {n + 1} /\ n + 1 \notin Failed(p, n)
        BY <1>1, <1>2 DEF Failed
    <2> QED
        BY <1>2, <2>1, FailedFinite, FS_AddElement
<1>3. CASE Given(p)[n + 1] \notin Failing
    BY <1>1, <1>3 DEF Failed
<1> QED
    BY <1>2, <1>3

LEMMA FailedGrows ==
    ASSUME NEW p, NEW n \in Nat, NEW k \in 1 .. n
    PROVE  /\ Cardinality(Failed(p, k)) \in Nat
           /\ Cardinality(Failed(p, k)) <= Cardinality(Failed(p, n))
           /\ k \in Failed(p, n) => Cardinality(Failed(p, k)) >= 1
<1>1. Failed(p, k) \subseteq Failed(p, n)
    BY DEF Failed
<1>2. IsFiniteSet(Failed(p, n)) /\ IsFiniteSet(Failed(p, k)) /\ Cardinality(Failed(p, k)) \in Nat
    BY FailedFinite
<1>3. k \in Failed(p, n) => Failed(p, k) # {}
    BY DEF Failed
<1> QED
    BY <1>1, <1>2, <1>3, FS_Subset, FS_EmptySet

\* One more sink: it failed and was told, or it did not.
LEMMA ToldOneMore ==
    ASSUME NEW p \in Reporters, NEW n \in Nat, ToldUpTo(p, n), told[p] \in Seq(Sinks),
           NEW s \in Sinks, Given(p)[n + 1] = s, Given(p)' = Given(p),
           told'[p] = IF s \in Failing THEN Append(told[p], s) ELSE told[p]
    PROVE  ToldUpTo(p, n + 1)'
<1> DEFINE C(k) == Cardinality(Failed(p, k))
<1> SUFFICES /\ Len(told'[p]) = C(n + 1)
             /\ \A k \in Failed(p, n + 1) : told'[p][C(k)] = Given(p)[k]
    <2>1. \A k : Failed(p, k)' = Failed(p, k)
        BY DEF Failed
    <2> QED
        BY <2>1 DEF ToldUpTo
<1>2. CASE s \notin Failing
    <2>1. Failed(p, n + 1) = Failed(p, n)
        BY <1>2, FailedNext
    <2>2. told'[p] = told[p]
        BY <1>2
    <2> QED
        BY <2>1, <2>2 DEF ToldUpTo
<1>3. CASE s \in Failing
    <2>1. Failed(p, n + 1) = Failed(p, n) \cup {n + 1} /\ C(n + 1) = C(n) + 1
        BY <1>3, FailedNext
    <2>2. /\ Len(told[p]) = C(n) /\ Len(told'[p]) = C(n) + 1 /\ told'[p][C(n) + 1] = s
          /\ \A k \in 1 .. C(n) : told'[p][k] = told[p][k]
        BY <1>3, AppendProperties DEF ToldUpTo
    <2>3. ASSUME NEW k \in Failed(p, n) PROVE told'[p][C(k)] = Given(p)[k]
        <3>1. k \in 1 .. n
            BY DEF Failed
        <3>2. C(k) \in 1 .. C(n)
            BY <3>1, FailedGrows, FailedFinite
        <3> QED
            BY <2>2, <3>2 DEF ToldUpTo
    <2> QED
        BY <1>3, <2>1, <2>2, <2>3
<1> QED
    BY <1>2, <1>3

-----------------------------------------------------------------------------
(* The initial state *)

LEMMA InitIndInv == Init => IndInv
<1> SUFFICES ASSUME Init PROVE IndInv
    OBVIOUS
<1> DEFINE first == Array(Wired, CapFor(Len(Wired)))
<1>1. /\ first \in Seq(Slots) /\ Len(Wired) <= Len(first)
      /\ \A k \in 1 .. Len(Wired) : first[k] \in Sinks
    <2>1. Len(Wired) \in 0 .. Len(Wired) + Cardinality(Adders) + MaxReentrant
        BY AddersFinite, LenProperties
    <2>2. CapFor(Len(Wired)) \in Nat /\ CapFor(Len(Wired)) >= Len(Wired)
        BY <2>1, CapForEnough
    <2> QED
        BY <2>2, ArrayProperties, ElementOfSeq
<1> HIDE DEF first
<1>2. /\ arrays = <<first>> /\ sinks = [arr |-> 1, len |-> Len(Wired)]
      /\ writer = Nobody /\ waiting = {} /\ readers = {}
      /\ pc = [p \in Procs |-> IF p \in Adders THEN "add" ELSE "report"]
      /\ base = [p \in Procs |-> [arr |-> 1, len |-> 0]]
      /\ view = [p \in Reporters |-> [arr |-> 1, len |-> 0]]
      /\ i = [p \in Reporters |-> 1]
      /\ report = [p \in Reporters |-> [fp |-> {}, extra |-> FALSE]]
      /\ calls = [p \in Reporters |-> <<>>] /\ told = [p \in Reporters |-> <<>>]
      /\ reentrant = 0 /\ before = [p \in Reporters |-> 0]
    BY DEF Init, first
<1>3. fp \in [Errors -> SUBSET {"ptr", "len"}]
    BY DEF Init
<1>4. Len(arrays) = 1 /\ arrays[1] = first /\ arrays \in Seq(Seq(Slots))
    BY <1>1, <1>2
<1>5. Shape
    BY <1>2, <1>3, <1>4 DEF Shape
<1>6. SliceInv
    BY <1>1, <1>2, <1>4 DEF SliceInv
<1>7. CountInv
    <2>1. Pending = Adders
        BY <1>2 DEF Pending
    <2> QED
        BY <1>2, <2>1, AddersFinite DEF CountInv
<1>8. LockInv
    BY <1>2 DEF LockInv
<1>9. ASSUME NEW p \in Reporters PROVE ReporterInv(p)
    <2>1. /\ pc[p] = "report" /\ view[p] = [arr |-> 1, len |-> 0] /\ calls[p] = <<>>
          /\ told[p] = <<>> /\ i[p] = 1 /\ before[p] = 0
        BY <1>2
    <2>2. ViewInv(p) /\ WalkInv(p)
        BY <1>2, <1>4, <1>6, <2>1 DEF ViewInv, WalkInv, SliceInv
    <2>3. ToldInv(p)
        <3>1. Failed(p, 0) = {}
            BY DEF Failed
        <3> QED
            BY <2>1, <3>1, FailedNone DEF ToldInv, ToldUpTo
    <2> QED
        BY <2>2, <2>3 DEF ReporterInv
<1> QED
    BY <1>5, <1>6, <1>7, <1>8, <1>9 DEF IndInv

-----------------------------------------------------------------------------
(* Steps: what they leave alone *)

LEMMA Kept ==
    ASSUME NEW p \in Reporters, ReporterInv(p), arrays' = arrays, sinks' = sinks,
           pc'[p] = pc[p], view'[p] = view[p], i'[p] = i[p], calls'[p] = calls[p],
           told'[p] = told[p], before'[p] = before[p]
    PROVE  ReporterInv(p)'
<1>1. This(p)' = This(p) /\ Given(p)' = Given(p)
    BY DEF This, Given
<1>2. ViewInv(p)'
    BY DEF ReporterInv, ViewInv
<1>3. WalkInv(p)'
    BY <1>1 DEF ReporterInv, WalkInv
<1>4. \A n : ToldUpTo(p, n) => ToldUpTo(p, n)'
    <2>1. \A n : Failed(p, n)' = Failed(p, n)
        BY <1>1 DEF Failed
    <2> QED
        BY <1>1, <2>1 DEF ToldUpTo
<1>5. ToldInv(p)'
    BY <1>4 DEF ReporterInv, ToldInv
<1> QED
    BY <1>2, <1>3, <1>5 DEF ReporterInv

\* What has been told stays when no more sinks are given the report.
LEMMA ToldKept ==
    ASSUME NEW p \in Reporters, NEW n, ToldUpTo(p, n),
           calls'[p] = calls[p], told'[p] = told[p]
    PROVE  ToldUpTo(p, n)'
<1>1. Given(p)' = Given(p)
    BY DEF Given
<1>2. \A k : Failed(p, k)' = Failed(p, k)
    BY <1>1 DEF Failed
<1> QED
    BY <1>1, <1>2 DEF ToldUpTo

\* A goroutine that is, or is not, adding before and after a step.
LEMMA PendingKept ==
    ASSUME Shape, NEW p \in Procs, NEW l, pc' = [pc EXCEPT ![p] = l],
           pc[p] \in Adding <=> l \in Adding
    PROVE  Pending' = Pending
BY DEF Shape, Pending

-----------------------------------------------------------------------------
(* Steps of Add *)

\* A goroutine that goes on with an Add its sink makes is where it was.
LEMMA AddingKept ==
    ASSUME NEW p \in Reporters, ReporterInv(p), pc[p] \in Adding, pc'[p] \in Adding,
           arrays' = arrays, sinks' = sinks, UNCHANGED reporting
    PROVE  ReporterInv(p)'
<1> USE DEF reporting
<1>1. This(p)' = This(p)
    BY DEF This
<1>2. ViewInv(p)'
    BY DEF ReporterInv, ViewInv
<1>3. WalkInv(p)'
    BY <1>1 DEF ReporterInv, WalkInv
<1>4. ToldInv(p)'
    BY ToldKept DEF ReporterInv, ToldInv
<1> QED
    BY <1>2, <1>3, <1>4 DEF ReporterInv

LEMMA AddAsksStep ==
    ASSUME IndInv, NEW p \in Procs, AddAsks(p)
    PROVE  IndInv'
<1> USE DEF AddAsks
<1>1. Shape'
    BY DEF IndInv, Shape, reporting
<1>2. pc'[p] = "lock" /\ \A q \in Procs \ {p} : pc'[q] = pc[q]
    BY DEF IndInv, Shape
<1>3. SliceInv'
    BY DEF IndInv, SliceInv
<1>4. CountInv'
    <2>1. Pending' = Pending
        BY PendingKept DEF IndInv
    <2> QED
        BY <2>1 DEF IndInv, CountInv
<1>5. LockInv'
    BY <1>2 DEF IndInv, LockInv
<1>6. ASSUME NEW q \in Reporters PROVE ReporterInv(q)'
    <2>1. CASE q # p
        BY <1>2, <2>1, Kept DEF IndInv, reporting
    <2>2. CASE q = p
        BY <1>2, <2>2, AddingKept DEF IndInv
    <2> QED
        BY <2>1, <2>2
<1> QED
    BY <1>1, <1>3, <1>4, <1>5, <1>6 DEF IndInv

LEMMA AddLocksStep ==
    ASSUME IndInv, NEW p \in Procs, AddLocks(p)
    PROVE  IndInv'
<1> USE DEF AddLocks
<1>1. Shape'
    BY DEF IndInv, Shape, reporting
<1>2. /\ pc'[p] = "append" /\ \A q \in Procs \ {p} : pc'[q] = pc[q]
      /\ base'[p] = sinks /\ \A q \in Procs \ {p} : base'[q] = base[q]
    BY DEF IndInv, Shape
<1>3. SliceInv'
    BY <1>2 DEF IndInv, SliceInv
<1>4. CountInv'
    <2>1. Pending' = Pending
        BY PendingKept DEF IndInv
    <2> QED
        BY <2>1 DEF IndInv, CountInv
<1>5. LockInv'
    BY <1>2 DEF IndInv, LockInv, FreeToWrite
<1>6. ASSUME NEW q \in Reporters PROVE ReporterInv(q)'
    <2>1. CASE q # p
        BY <1>2, <2>1, Kept DEF IndInv, reporting
    <2>2. CASE q = p
        BY <1>2, <2>2, AddingKept DEF IndInv
    <2> QED
        BY <2>1, <2>2
<1> QED
    BY <1>1, <1>3, <1>4, <1>5, <1>6 DEF IndInv

\* What is added is a sink.
LEMMA NewSinkIsSink ==
    ASSUME IndInv, NEW p \in Procs, pc[p] = "append"
    PROVE  NewSink(p) \in Sinks
<1>1. CASE p \in Adders
    BY <1>1 DEF NewSink
<1>2. CASE p \notin Adders
    <2>1. p \in Reporters /\ ReporterInv(p)
        BY <1>2 DEF IndInv
    <2>2. This(p) \in Registering /\ i[p] \in 1 .. view[p].len
        BY <2>1 DEF IndInv, Shape, ReporterInv, WalkInv
    <2>3. Contents(view[p])[i[p]] = This(p)
        BY <2>1, <2>2 DEF IndInv, Shape, Contents, This
    <2> QED
        BY <1>2, <2>2, <2>3 DEF NewSink
<1> QED
    BY <1>1, <1>2

\* append keeps every element of every array and puts one more in the newest:
\* in place when there is room, else in a copy that is large enough.
LEMMA Stored ==
    ASSUME IndInv, NEW p \in Procs, AddStores(p)
    PROVE  /\ arrays' \in Seq(Seq(Slots)) /\ sinks' \in Headers
           /\ Len(arrays') >= Len(arrays) /\ sinks'.arr = Len(arrays')
           /\ sinks'.len = sinks.len + 1 /\ sinks'.len <= Len(arrays'[sinks'.arr])
           /\ \A k \in 1 .. sinks.len : arrays'[sinks'.arr][k] = arrays[sinks.arr][k]
           /\ arrays'[sinks'.arr][sinks.len + 1] = NewSink(p)
           /\ \A b \in 1 .. Len(arrays) :
                /\ Len(arrays'[b]) = Len(arrays[b])
                /\ \A k \in 1 .. Len(arrays[b]) :
                    b # sinks.arr \/ k # sinks.len + 1 => arrays'[b][k] = arrays[b][k]
<1> DEFINE a == sinks.arr
           n == sinks.len
           s == NewSink(p)
<1>1. /\ arrays \in Seq(Seq(Slots)) /\ a = Len(arrays) /\ a \in 1 .. Len(arrays)
      /\ arrays[a] \in Seq(Slots) /\ n \in Nat /\ n <= Len(arrays[a]) /\ s \in Slots
    <2>1. arrays \in Seq(Seq(Slots)) /\ sinks \in Headers
        BY DEF IndInv, Shape
    <2>2. a = Len(arrays) /\ Len(arrays) >= 1 /\ n <= Len(arrays[a])
        BY DEF IndInv, SliceInv
    <2>3. s \in Sinks
        BY NewSinkIsSink DEF AddStores
    <2>4. a \in 1 .. Len(arrays) /\ n \in Nat
        BY <2>1, <2>2, LenProperties
    <2>5. arrays[a] \in Seq(Slots)
        BY <2>1, <2>4, ElementOfSeq
    <2> QED
        BY <2>1, <2>2, <2>3, <2>4, <2>5
<1>2. base[p] = sinks
    BY DEF IndInv, LockInv, AddStores
<1>3. CASE n < Len(arrays[a])
    <2> DEFINE new == [arrays[a] EXCEPT ![n + 1] = s]
    <2>1. arrays' = [arrays EXCEPT ![a] = new] /\ sinks' = [arr |-> a, len |-> n + 1]
        BY <1>2, <1>3 DEF AddStores, InPlace
    <2>2. /\ new \in Seq(Slots) /\ Len(new) = Len(arrays[a])
          /\ \A k \in 1 .. Len(arrays[a]) : new[k] = IF k = n + 1 THEN s ELSE arrays[a][k]
        BY <1>1, <1>3, ExceptSeq
    <2> HIDE DEF new
    <2>3. /\ arrays' \in Seq(Seq(Slots)) /\ Len(arrays') = Len(arrays)
          /\ \A b \in 1 .. Len(arrays) : arrays'[b] = IF b = a THEN new ELSE arrays[b]
        BY <1>1, <2>1, <2>2, ExceptSeq
    <2>4. arrays'[a] = new /\ sinks' \in Headers /\ sinks'.arr = a /\ sinks'.len = n + 1
        BY <1>1, <2>1, <2>3
    <2>5. arrays'[sinks'.arr] = new
        BY <2>4
    <2>6. \A b \in 1 .. Len(arrays) :
            /\ Len(arrays'[b]) = Len(arrays[b])
            /\ \A k \in 1 .. Len(arrays[b]) : b # a \/ k # n + 1 => arrays'[b][k] = arrays[b][k]
        BY <1>1, <2>2, <2>3
    <2>7. \A k \in 1 .. n : new[k] = arrays[a][k]
        BY <1>1, <1>3, <2>2
    <2>8. new[n + 1] = s /\ n + 1 <= Len(new)
        BY <1>1, <1>3, <2>2
    <2> QED
        BY <1>1, <2>3, <2>4, <2>5, <2>6, <2>7, <2>8
<1>4. CASE ~(n < Len(arrays[a]))
    <2> DEFINE t == Append(Contents(sinks), s)
               new == Array(t, CapFor(n + 1))
    <2>1. arrays' = Append(arrays, new) /\ sinks' = [arr |-> Len(arrays) + 1, len |-> n + 1]
        BY <1>2, <1>4 DEF AddStores
    <2>2. /\ t \in Seq(Sinks) /\ Len(t) = n + 1 /\ t[n + 1] = s
          /\ \A k \in 1 .. n : t[k] = arrays[a][k]
        <3>1. \A k \in 1 .. n : arrays[a][k] \in Sinks
            BY DEF IndInv, SliceInv
        <3>2. Contents(sinks) \in Seq(Sinks) /\ Len(Contents(sinks)) = n
            BY <1>1, <3>1, SubSeqProperties DEF Contents
        <3>3. \A k \in 1 .. n : Contents(sinks)[k] = arrays[a][k]
            BY <1>1, <3>1 DEF Contents
        <3>4. s \in Sinks
            BY NewSinkIsSink DEF AddStores
        <3> QED
            BY <1>1, <3>2, <3>3, <3>4, AppendProperties
    <2>3. n + 1 \in 0 .. Len(Wired) + Cardinality(Adders) + MaxReentrant
        <3>1. Cardinality(Pending) >= 1
            <4>1. p \in Pending
                BY DEF AddStores, Pending
            <4> QED
                BY <4>1, PendingFinite, FS_EmptySet
        <3>2. reentrant <= MaxReentrant /\ reentrant \in Nat
            BY DEF IndInv, Shape
        <3> QED
            BY <1>1, <3>1, <3>2, PendingFinite, AddersFinite, LenProperties DEF IndInv, CountInv
    <2>4. CapFor(n + 1) \in Nat /\ CapFor(n + 1) >= n + 1
        BY <2>3, CapForEnough
    <2> HIDE DEF t
    <2>5. /\ new \in Seq(Slots) /\ Len(new) >= n + 1
          /\ \A k \in 1 .. n + 1 : new[k] = t[k]
        BY <2>2, <2>4, ArrayProperties
    <2> HIDE DEF new
    <2>6. /\ arrays' \in Seq(Seq(Slots)) /\ Len(arrays') = Len(arrays) + 1
          /\ arrays'[Len(arrays) + 1] = new
          /\ \A b \in 1 .. Len(arrays) : arrays'[b] = arrays[b]
        BY <1>1, <2>1, <2>5, AppendProperties
    <2>7. sinks' \in Headers /\ sinks'.arr = Len(arrays) + 1 /\ sinks'.len = n + 1
        BY <1>1, <2>1
    <2>8. arrays'[sinks'.arr] = new /\ Len(arrays) >= 1
        BY <1>1, <2>6, <2>7
    <2>9. ASSUME NEW k \in 1 .. n PROVE new[k] = arrays[a][k]
        <3>1. k \in 1 .. n + 1
            BY <1>1
        <3> QED
            BY <2>2, <2>5, <3>1
    <2>10. new[n + 1] = s
        <3>1. n + 1 \in 1 .. n + 1
            BY <1>1
        <3> QED
            BY <2>2, <2>5, <3>1
    <2>11. /\ Len(arrays') >= Len(arrays) /\ sinks'.arr = Len(arrays')
           /\ sinks'.len <= Len(arrays'[sinks'.arr])
        BY <1>1, <2>5, <2>6, <2>7, <2>8
    <2>12. /\ \A k \in 1 .. n : arrays'[sinks'.arr][k] = arrays[a][k]
           /\ arrays'[sinks'.arr][n + 1] = s
        BY <2>8, <2>9, <2>10
    <2> QED
        BY <2>6, <2>7, <2>11, <2>12
<1> QED
    BY <1>3, <1>4

\* What a report walks is not written to.
LEMMA ViewsKept ==
    ASSUME IndInv, NEW p \in Procs, AddStores(p), NEW q \in Reporters
    PROVE  \A k \in 1 .. view[q].len :
            /\ arrays'[view[q].arr][k] = arrays[view[q].arr][k]
            /\ arrays'[sinks'.arr][k] = arrays[sinks.arr][k]
<1>1. /\ view[q].arr \in 1 .. Len(arrays) /\ view[q].len \in Nat /\ sinks.len \in Nat
      /\ view[q].len <= Len(arrays[view[q].arr]) /\ view[q].len <= sinks.len
    BY DEF IndInv, Shape, ReporterInv, ViewInv
<1>2. Len(arrays[view[q].arr]) \in Nat
    BY <1>1, ElementOfSeq, LenProperties DEF IndInv, Shape
<1> TAKE k \in 1 .. view[q].len
<1>3. k \in 1 .. Len(arrays[view[q].arr]) /\ k \in 1 .. sinks.len /\ k # sinks.len + 1
    BY <1>1, <1>2
<1> QED
    BY <1>1, <1>3, Stored

LEMMA AddStoresStep ==
    ASSUME IndInv, NEW p \in Procs, AddStores(p)
    PROVE  IndInv'
<1>1. /\ pc[p] = "append" /\ writer' = Nobody
      /\ pc' = [pc EXCEPT ![p] = IF p \in Adders THEN "done" ELSE "emitted"]
      /\ UNCHANGED <<waiting, readers, fp, base, reporting, reentrant>>
    BY DEF AddStores
<1>2. UNCHANGED <<view, i, report, calls, told, before>>
    BY <1>1 DEF reporting
<1>3. /\ pc'[p] = IF p \in Adders THEN "done" ELSE "emitted"
      /\ \A q \in Procs \ {p} : pc'[q] = pc[q]
    BY <1>1 DEF IndInv, Shape
<1>4. Shape'
    BY <1>1, <1>2, Stored DEF IndInv, Shape
<1>5. SliceInv'
    <2>1. sinks.len \in Nat /\ Len(arrays) \in Nat /\ Len(arrays') \in Nat
        BY <1>4, LenProperties DEF IndInv, Shape
    <2>2. \A k \in 1 .. sinks'.len : arrays'[sinks'.arr][k] \in Sinks
        <3>1. \A k \in 1 .. sinks.len : arrays'[sinks'.arr][k] \in Sinks
            BY Stored DEF IndInv, SliceInv
        <3>2. arrays'[sinks'.arr][sinks.len + 1] \in Sinks
            BY <1>1, Stored, NewSinkIsSink
        <3>3. sinks'.len = sinks.len + 1
            BY Stored
        <3> QED
            BY <2>1, <3>1, <3>2, <3>3
    <2>3. \A q \in Procs : base'[q].arr \in 1 .. Len(arrays')
        BY <1>1, <2>1, Stored DEF IndInv, SliceInv
    <2> QED
        BY <2>1, <2>2, <2>3, Stored DEF IndInv, SliceInv
<1>6. CountInv'
    <2>1. p \in Pending /\ Pending' = Pending \ {p}
        BY <1>1, <1>3 DEF Pending
    <2>2. Cardinality(Pending') = Cardinality(Pending) - 1
        BY <2>1, PendingFinite, FS_RemoveElement
    <2> QED
        <3>1. sinks.len \in Nat /\ reentrant \in Nat /\ reentrant' = reentrant
            BY <1>1 DEF IndInv, Shape
        <3>2. sinks.len + Cardinality(Pending) = Len(Wired) + Cardinality(Adders) + reentrant
            BY DEF IndInv, CountInv
        <3>3. sinks'.len = sinks.len + 1 /\ Len(Wired) \in Nat
            BY Stored, LenProperties
        <3>4. Cardinality(Pending) \in Nat /\ Cardinality(Adders) \in Nat
            BY PendingFinite, AddersFinite
        <3>5. (sinks.len + 1) + (Cardinality(Pending) - 1) = Len(Wired) + Cardinality(Adders) + reentrant
            <4>1. PICK m \in Nat, n \in Nat, c \in Nat :
                    m = sinks.len /\ n = Cardinality(Pending) /\ c = Len(Wired) + Cardinality(Adders) + reentrant
                BY <3>1, <3>3, <3>4
            <4>2. m + n = c
                BY <3>2, <4>1
            <4>3. (m + 1) + (n - 1) = c
                BY <4>2
            <4> QED
                BY <4>1, <4>3
        <3>6. sinks'.len + Cardinality(Pending') = Len(Wired) + Cardinality(Adders) + reentrant'
            BY <2>2, <3>1, <3>3, <3>5
        <3> QED
            BY <3>6 DEF CountInv
<1>7. LockInv'
    BY <1>1, <1>3 DEF IndInv, LockInv
<1>8. ASSUME NEW q \in Reporters PROVE ReporterInv(q)'
    <2>1. ReporterInv(q) /\ view'[q] = view[q] /\ view[q].len \in Nat /\ view[q].arr \in Nat
        BY <1>2 DEF IndInv, Shape
    <2>2. sinks.len \in Nat /\ sinks'.len = sinks.len + 1 /\ Len(arrays') >= Len(arrays)
        BY Stored DEF IndInv, Shape
    <2>3. \/ pc'[q] = pc[q] /\ pc[q] # "reading"
          \/ q = p /\ pc[q] = "append" /\ pc'[q] = "emitted"
        <3>1. pc[q] # "reading"
            <4>1. writer = p /\ writer # Nobody
                BY <1>1 DEF IndInv, LockInv
            <4> QED
                BY <4>1 DEF IndInv, LockInv
        <3> QED
            BY <1>1, <1>3, <3>1
    <2>4. ViewInv(q)'
        <3>1. Len(arrays) \in Nat /\ Len(arrays') \in Nat
            BY <1>4, LenProperties DEF IndInv, Shape
        <3>2. view[q].arr \in 1 .. Len(arrays) /\ Len(arrays'[view[q].arr]) = Len(arrays[view[q].arr])
            BY <2>1, Stored DEF ReporterInv, ViewInv
        <3>3. \A k \in 1 .. view[q].len : arrays'[view[q].arr][k] = arrays'[sinks'.arr][k]
            BY <2>1, ViewsKept DEF ReporterInv, ViewInv
        <3> QED
            BY <2>1, <2>2, <2>3, <3>1, <3>2, <3>3 DEF ReporterInv, ViewInv
    <2>5. WalkInv(q)'
        <3>1. /\ calls'[q] = calls[q] /\ told'[q] = told[q] /\ i'[q] = i[q] /\ before'[q] = before[q]
              /\ calls[q] \in Seq(Calls) /\ before[q] \in Nat /\ i[q] \in Nat \ {0}
            BY <1>2 DEF IndInv, Shape
        <3>2. \A k \in DOMAIN calls[q] : calls[q][k].sink = arrays'[view[q].arr][k]
            <4>1. DOMAIN calls[q] = 1 .. Len(calls[q]) /\ Len(calls[q]) \in Nat
                BY <3>1, LenProperties
            <4>2. DOMAIN calls[q] \subseteq 1 .. view[q].len
                BY <2>1, <4>1 DEF ReporterInv, WalkInv
            <4> QED
                BY <2>1, <4>2, ViewsKept DEF ReporterInv, WalkInv
        <3>3. pc[q] \in Adding => This(q)' = This(q)
            <4>1. pc[q] \in Adding => i[q] \in 1 .. view[q].len
                BY <2>1, <3>1 DEF ReporterInv, WalkInv
            <4> QED
                BY <2>1, <3>1, <4>1, ViewsKept DEF This
        <3> QED
            BY <2>1, <2>2, <2>3, <3>1, <3>2, <3>3 DEF ReporterInv, WalkInv
    <2>6. ToldInv(q)'
        BY <1>2, <2>1, <2>3, ToldKept DEF ReporterInv, ToldInv
    <2> QED
        BY <2>4, <2>5, <2>6 DEF ReporterInv
<1> QED
    BY <1>4, <1>5, <1>6, <1>7, <1>8 DEF IndInv

-----------------------------------------------------------------------------
(* Steps of Report *)

\* Before it has read the header, a report's goroutine only notes how many
\* sinks there are.
LEMMA EarlyStep ==
    ASSUME Shape, NEW p \in Reporters, ReporterInv(p), pc[p] \in Early, ErrorOf[p] # NoError,
           pc'[p] \in Early \ {"reading"}, before'[p] \in {before[p], sinks.len},
           UNCHANGED <<arrays, sinks, view, i, calls, told>>
    PROVE  ReporterInv(p)'
<1>1. ViewInv(p)'
    BY DEF ReporterInv, ViewInv
<1>2. WalkInv(p)'
    BY DEF Shape, ReporterInv, WalkInv
<1>3. ToldInv(p)'
    BY ToldKept DEF ReporterInv, WalkInv, ToldInv
<1> QED
    BY <1>1, <1>2, <1>3 DEF ReporterInv

\* A step of one report that leaves the lock and the slices alone: what is
\* left to show is the goroutine's own invariant.
LEMMA ReporterStep ==
    ASSUME IndInv, NEW p \in Reporters, NEW l, pc' = [pc EXCEPT ![p] = l],
           {pc[p], l} \cap {"append", "reading"} = {},
           UNCHANGED <<arrays, sinks, lock, base>>, CountInv', Shape', ReporterInv(p)',
           \A q \in Reporters \ {p} :
                /\ view'[q] = view[q] /\ i'[q] = i[q] /\ calls'[q] = calls[q]
                /\ told'[q] = told[q] /\ before'[q] = before[q]
    PROVE  IndInv'
<1>1. pc'[p] = l /\ \A q \in Procs \ {p} : pc'[q] = pc[q]
    BY DEF IndInv, Shape
<1>2. SliceInv'
    BY DEF IndInv, SliceInv
<1>3. LockInv'
    <2>1. /\ writer' = writer /\ readers' = readers /\ base' = base /\ sinks' = sinks
          /\ p \in Procs /\ p \notin Adders
          /\ pc[p] # "append" /\ pc[p] # "reading" /\ l # "append" /\ l # "reading"
        BY DEF lock
    <2>2. LockInv
        BY DEF IndInv
    <2>3. /\ \A q \in Procs : pc'[q] = "append" <=> pc[q] = "append"
          /\ \A q \in Reporters : pc'[q] = "reading" <=> pc[q] = "reading"
          /\ \A q \in Adders : pc'[q] = pc[q]
        BY <1>1, <2>1
    <2> QED
        BY <2>1, <2>2, <2>3 DEF LockInv
<1>4. ASSUME NEW q \in Reporters PROVE ReporterInv(q)'
    <2>1. CASE q # p
        BY <1>1, <2>1, Kept DEF IndInv
    <2> QED
        BY <2>1
<1> QED
    BY <1>2, <1>3, <1>4 DEF IndInv

\* As long as it neither begins nor ends an Add, the count stands.
LEMMA CountKept ==
    ASSUME IndInv, NEW p \in Procs, NEW l, pc' = [pc EXCEPT ![p] = l],
           pc[p] \in Adding <=> l \in Adding, sinks' = sinks, reentrant' = reentrant
    PROVE  CountInv'
<1>1. Pending' = Pending
    BY PendingKept DEF IndInv
<1> QED
    BY <1>1 DEF IndInv, CountInv

\* A report with a fingerprint is a report.
LEMMA FingerprintPut ==
    ASSUME Shape, NEW p \in Reporters, NEW f \in SUBSET {"ptr", "len"}
    PROVE  [report EXCEPT ![p].fp = f] \in [Reporters -> Reports]
<1>1. report \in [Reporters -> Reports] /\ report[p] \in Reports
    BY DEF Shape
<1>2. [report[p] EXCEPT !.fp = f] \in Reports
    BY <1>1
<1> QED
    BY <1>1, <1>2

LEMMA SnapshotStep ==
    ASSUME IndInv, NEW p \in Reporters, Snapshot(p)
    PROVE  IndInv'
<1>1. CASE ReportNothing(p)
    <2> USE <1>1 DEF ReportNothing
    <2>1. Shape'
        BY DEF IndInv, Shape, lock, reporting
    <2>2. CountInv'
        BY CountKept
    <2>3. pc'[p] = "done" /\ UNCHANGED <<view, i, calls, told, before>>
        BY DEF IndInv, Shape, reporting
    <2>4. ReporterInv(p)'
        <3>1. ReporterInv(p)
            BY DEF IndInv
        <3>2. ViewInv(p)' /\ WalkInv(p)'
            BY <2>3, <3>1 DEF ReporterInv, ViewInv, WalkInv, This
        <3>3. ToldInv(p)'
            BY <2>3, <3>1, ToldKept DEF ReporterInv, ToldInv
        <3> QED
            BY <3>2, <3>3 DEF ReporterInv
    <2> QED
        BY <2>1, <2>2, <2>3, <2>4, ReporterStep
<1>2. CASE FpCached(p)
    <2> USE <1>2 DEF FpCached
    <2>1. Shape'
        <3>1. ErrorOf[p] \in Errors
            BY DEF Errors
        <3>2. fp \in [Errors -> SUBSET {"ptr", "len"}]
            BY DEF IndInv, Shape
        <3>3. fp[ErrorOf[p]] \in SUBSET {"ptr", "len"}
            BY <3>1, <3>2
        <3>4. report' \in [Reporters -> Reports]
            BY <3>3, FingerprintPut DEF IndInv
        <3>5. pc' \in [Procs -> Early \cup Late] /\ before' \in [Reporters -> Nat]
            BY DEF IndInv, Shape
        <3> QED
            BY <3>4, <3>5 DEF IndInv, Shape, lock
    <2>2. CountInv'
        BY CountKept
    <2>3. /\ pc'[p] = "rlock" /\ before'[p] = sinks.len
          /\ \A q \in Reporters \ {p} : before'[q] = before[q]
        BY DEF IndInv, Shape
    <2>4. ReporterInv(p)'
        BY <2>3, EarlyStep DEF IndInv
    <2> QED
        BY <2>1, <2>2, <2>3, <2>4, ReporterStep
<1>3. CASE FpComputed(p)
    <2> USE <1>3 DEF FpComputed
    <2>1. Shape'
        BY DEF IndInv, Shape, lock
    <2>2. CountInv'
        BY CountKept
    <2>3. /\ pc'[p] = "store" /\ before'[p] = sinks.len
          /\ \A q \in Reporters \ {p} : before'[q] = before[q]
        BY DEF IndInv, Shape
    <2>4. ReporterInv(p)'
        BY <2>3, EarlyStep DEF IndInv
    <2> QED
        BY <2>1, <2>2, <2>3, <2>4, ReporterStep
<1>4. CASE \E word \in {"ptr", "len"} : FpStores(p, word)
    <2>1. PICK word \in {"ptr", "len"} : FpStores(p, word)
        BY <1>4
    <2> USE <2>1 DEF FpStores
    <2>2. Shape'
        BY DEF IndInv, Shape, lock, reporting
    <2>3. CountInv'
        BY CountKept
    <2>4. pc'[p] = "stored" /\ UNCHANGED <<view, i, calls, told, before>>
        BY DEF IndInv, Shape, reporting
    <2>5. ReporterInv(p)' 
        BY <2>4, EarlyStep DEF IndInv, ReporterInv, WalkInv
    <2> QED
        BY <2>2, <2>3, <2>4, <2>5, ReporterStep
<1>5. CASE FpStored(p)
    <2> USE <1>5 DEF FpStored
    <2>1. Shape'
        <3>1. ErrorOf[p] \in Errors
            BY DEF IndInv, ReporterInv, WalkInv, Errors
        <3>2. fp' \in [Errors -> SUBSET {"ptr", "len"}]
            BY <3>1 DEF IndInv, Shape
        <3>3. report' \in [Reporters -> Reports]
            BY FingerprintPut DEF IndInv
        <3>4. pc' \in [Procs -> Early \cup Late]
            BY DEF IndInv, Shape
        <3> QED
            BY <3>2, <3>3, <3>4 DEF IndInv, Shape, lock
    <2>2. CountInv'
        BY CountKept
    <2>3. pc'[p] = "rlock"
        BY DEF IndInv, Shape
    <2>4. ReporterInv(p)'
        BY <2>3, EarlyStep DEF IndInv, ReporterInv, WalkInv
    <2> QED
        BY <2>1, <2>2, <2>3, <2>4, ReporterStep
<1> QED
    BY <1>1, <1>2, <1>3, <1>4, <1>5 DEF Snapshot


\* The first word of the header is read under the lock ...
LEMMA ReadHeaderStep ==
    ASSUME IndInv, NEW p \in Reporters, ReadHeader(p)
    PROVE  IndInv'
<1>1. /\ pc[p] = "rlock" /\ writer = Nobody /\ readers' = readers \cup {p}
      /\ pc' = [pc EXCEPT ![p] = "reading"] /\ view' = [view EXCEPT ![p].arr = sinks.arr]
      /\ UNCHANGED <<arrays, sinks, writer, waiting, fp, base, i, report, calls, told, before, reentrant>>
    BY DEF ReadHeader, FreeToRead
<1>2. pc'[p] = "reading" /\ \A q \in Procs \ {p} : pc'[q] = pc[q]
    BY <1>1 DEF IndInv, Shape
<1>3. /\ view' \in [Reporters -> Headers] /\ view'[p].arr = sinks.arr /\ view'[p].len = view[p].len
      /\ \A q \in Reporters \ {p} : view'[q] = view[q]
    BY <1>1 DEF IndInv, Shape
<1>4. Shape'
    <2>1. pc' \in [Procs -> Early \cup Late] /\ readers' \subseteq Reporters
        BY <1>1 DEF IndInv, Shape
    <2> QED
        BY <1>1, <1>3, <2>1 DEF IndInv, Shape
<1>5. SliceInv'
    BY <1>1 DEF IndInv, SliceInv
<1>6. CountInv'
    BY <1>1, CountKept
<1>7. LockInv'
    <2>1. LockInv
        BY DEF IndInv
    <2>2. p \in Procs /\ p \notin Adders
        OBVIOUS
    <2> QED
        BY <1>1, <1>2, <2>1, <2>2 DEF LockInv
<1>8. ReporterInv(p)'
    <2>1. ReporterInv(p) /\ view[p].len = 0
        BY <1>1 DEF IndInv, ReporterInv, WalkInv
    <2>2. sinks.arr \in 1 .. Len(arrays) /\ Len(arrays[sinks.arr]) \in Nat /\ sinks.len \in Nat
        BY LenProperties, ElementOfSeq DEF IndInv, Shape, SliceInv
    <2>3. ViewInv(p)'
        BY <1>1, <1>3, <2>1, <2>2 DEF ViewInv
    <2>4. WalkInv(p)'
        BY <1>1, <1>2, <1>3, <2>1 DEF ReporterInv, WalkInv
    <2>5. ToldInv(p)'
        BY <1>1, <1>2, <2>1, ToldKept DEF ReporterInv, ToldInv
    <2> QED
        BY <2>3, <2>4, <2>5 DEF ReporterInv
<1>9. ASSUME NEW q \in Reporters PROVE ReporterInv(q)'
    <2>1. CASE q # p
        BY <1>1, <1>2, <1>3, <2>1, Kept DEF IndInv
    <2> QED
        BY <1>8, <2>1
<1> QED
    BY <1>4, <1>5, <1>6, <1>7, <1>9 DEF IndInv

\* ... and the other belongs to it.
LEMMA ReadLengthStep ==
    ASSUME IndInv, NEW p \in Reporters, ReadLength(p)
    PROVE  IndInv'
<1>1. /\ pc[p] = "reading" /\ readers' = readers \ {p}
      /\ pc' = [pc EXCEPT ![p] = "loop"] /\ view' = [view EXCEPT ![p].len = sinks.len]
      /\ UNCHANGED <<arrays, sinks, writer, waiting, fp, base, i, report, calls, told, before, reentrant>>
    BY DEF ReadLength, RUnlock
<1>2. pc'[p] = "loop" /\ \A q \in Procs \ {p} : pc'[q] = pc[q]
    BY <1>1 DEF IndInv, Shape
<1>3. /\ view' \in [Reporters -> Headers] /\ view'[p].arr = view[p].arr /\ view'[p].len = sinks.len
      /\ \A q \in Reporters \ {p} : view'[q] = view[q]
    BY <1>1 DEF IndInv, Shape
<1>4. Shape'
    <2>1. pc' \in [Procs -> Early \cup Late] /\ readers' \subseteq Reporters
        BY <1>1 DEF IndInv, Shape
    <2> QED
        BY <1>1, <1>3, <2>1 DEF IndInv, Shape
<1>5. SliceInv'
    BY <1>1 DEF IndInv, SliceInv
<1>6. CountInv'
    BY <1>1, CountKept
<1>7. LockInv'
    <2>1. LockInv
        BY DEF IndInv
    <2>2. p \in Procs /\ p \notin Adders
        OBVIOUS
    <2> QED
        BY <1>1, <1>2, <2>1, <2>2 DEF LockInv
<1>8. ReporterInv(p)'
    <2>1. ReporterInv(p) /\ view[p].arr = sinks.arr
        BY <1>1 DEF IndInv, ReporterInv, ViewInv
    <2>2. calls[p] = <<>> /\ told[p] = <<>> /\ i[p] = 1 /\ ErrorOf[p] # NoError
        BY <1>1, <2>1 DEF ReporterInv, WalkInv
    <2>3. ViewInv(p)'
        <3>1. /\ view'[p].arr = sinks'.arr /\ view'[p].len = sinks'.len /\ pc'[p] # "reading"
              /\ sinks'.arr \in 1 .. Len(arrays') /\ sinks'.len <= Len(arrays'[sinks'.arr])
              /\ sinks'.len \in Nat
            BY <1>1, <1>2, <1>3, <2>1, LenProperties DEF IndInv, Shape, SliceInv
        <3> QED
            BY <3>1 DEF ViewInv
    <2>4. WalkInv(p)'
        BY <1>1, <1>2, <1>3, <2>1, <2>2 DEF IndInv, Shape, ReporterInv, WalkInv
    <2>5. ToldInv(p)'
        BY <1>1, <1>2, <2>1, ToldKept DEF ReporterInv, ToldInv
    <2> QED
        BY <2>3, <2>4, <2>5 DEF ReporterInv
<1>9. ASSUME NEW q \in Reporters PROVE ReporterInv(q)'
    <2>1. CASE q # p
        BY <1>1, <1>2, <1>3, <2>1, Kept DEF IndInv
    <2> QED
        BY <1>8, <2>1
<1> QED
    BY <1>4, <1>5, <1>6, <1>7, <1>9 DEF IndInv

\* The sink that comes next is a sink, and one of the registered.
LEMMA ThisIsSink ==
    ASSUME IndInv, NEW p \in Reporters, i[p] <= view[p].len
    PROVE  i[p] \in 1 .. view[p].len /\ This(p) \in Sinks /\ This(p) = arrays[sinks.arr][i[p]]
<1>1. /\ i[p] \in Nat \ {0} /\ view[p].len \in Nat /\ sinks.len \in Nat
      /\ view[p].len <= sinks.len
    BY DEF IndInv, Shape, ReporterInv, ViewInv
<1>2. i[p] \in 1 .. view[p].len /\ i[p] \in 1 .. sinks.len
    BY <1>1
<1>3. This(p) = arrays[sinks.arr][i[p]]
    BY <1>2 DEF IndInv, ReporterInv, ViewInv, This
<1> QED
    BY <1>2, <1>3 DEF IndInv, SliceInv

\* One more call.
LEMMA AppendCall ==
    ASSUME NEW c \in Seq(Calls), NEW x \in Calls
    PROVE  \E n \in Nat :
            /\ n = Len(c) /\ DOMAIN c = 1 .. n /\ Append(c, x) \in Seq(Calls)
            /\ Len(Append(c, x)) = n + 1 /\ DOMAIN Append(c, x) = 1 .. n + 1
            /\ Append(c, x)[n + 1] = x /\ \A k \in 1 .. n : Append(c, x)[k] = c[k]
<1> HIDE DEF Calls
<1>1. Len(c) \in Nat /\ DOMAIN c = 1 .. Len(c)
    BY LenProperties
<1>2. /\ Append(c, x) \in Seq(Calls) /\ Len(Append(c, x)) = Len(c) + 1
      /\ Append(c, x)[Len(c) + 1] = x /\ \A k \in 1 .. Len(c) : Append(c, x)[k] = c[k]
    BY AppendProperties
<1>3. DOMAIN Append(c, x) = 1 .. Len(c) + 1
    BY <1>2, LenProperties
<1> WITNESS Len(c) \in Nat
<1> QED
    BY <1>1, <1>2, <1>3

\* A sink is given the report; it returns, or calls Add first.
LEMMA EmitStep ==
    ASSUME IndInv, NEW p \in Reporters, Emit(p)
    PROVE  IndInv'
<1> DEFINE call == [sink |-> This(p), report |-> report[p]]
<1>1. /\ pc[p] = "loop" /\ i[p] <= view[p].len
      /\ calls' = [calls EXCEPT ![p] = Append(@, call)]
      /\ UNCHANGED <<arrays, sinks, lock, fp, base, view, i, told, before>>
    BY DEF Emit, More
<1>2. PICK l \in {"emitted", "add"} :
        /\ pc' = [pc EXCEPT ![p] = l]
        /\ l = "emitted" => reentrant' = reentrant
        /\ l = "add" => reentrant' = reentrant + 1 /\ reentrant < MaxReentrant
                        /\ This(p) \in Registering
    BY DEF Emit
<1>3. i[p] \in 1 .. view[p].len /\ This(p) \in Sinks /\ call \in Calls
    <2>1. This(p) \in Sinks /\ i[p] \in 1 .. view[p].len
        BY <1>1, ThisIsSink
    <2> QED
        BY <2>1 DEF IndInv, Shape
<1> HIDE DEF call
<1>4. /\ pc'[p] = l /\ calls' \in [Reporters -> Seq(Calls)] /\ calls'[p] = Append(calls[p], call)
      /\ \A q \in Reporters \ {p} : calls'[q] = calls[q]
    <2>1. pc \in [Procs -> Early \cup Late] /\ calls \in [Reporters -> Seq(Calls)]
        BY DEF IndInv, Shape
    <2>2. pc'[p] = l
        BY <1>2, <2>1
    <2>3. Append(calls[p], call) \in Seq(Calls)
        BY <1>3, <2>1, AppendProperties
    <2> QED
        BY <1>1, <2>1, <2>2, <2>3
<1>5. Shape'
    <2>1. report' \in [Reporters -> Reports]
        <3>1. report \in [Reporters -> Reports]
            BY DEF IndInv, Shape
        <3>2. report' = report \/ report' = [report EXCEPT ![p] = report[p]]
            BY DEF Emit, AfterSampling
        <3> QED
            BY <3>1, <3>2
    <2>2. pc' \in [Procs -> Early \cup Late]
        BY <1>2 DEF IndInv, Shape
    <2>3. reentrant' \in 0 .. MaxReentrant
        <3>1. reentrant \in 0 .. MaxReentrant /\ MaxReentrant \in Nat
            BY DEF IndInv, Shape
        <3>2. \/ reentrant' = reentrant
              \/ reentrant' = reentrant + 1 /\ reentrant < MaxReentrant
            BY <1>2
        <3> QED
            BY <3>1, <3>2
    <2> QED
        BY <1>1, <1>4, <2>1, <2>2, <2>3 DEF IndInv, Shape, lock
<1>6. CountInv'
    <2>1. CASE l = "emitted"
        BY <1>1, <1>2, <2>1, CountKept
    <2>2. CASE l = "add"
        <3>1. Pending' = Pending \cup {p} /\ p \notin Pending
            <4>1. pc'[p] = "add" /\ pc[p] = "loop" /\ \A q \in Procs \ {p} : pc'[q] = pc[q]
                BY <1>1, <1>2, <2>2 DEF IndInv, Shape
            <4> QED
                BY <4>1 DEF Pending
        <3>2. Cardinality(Pending') = Cardinality(Pending) + 1
            BY <3>1, PendingFinite, FS_AddElement
        <3>3. PICK m \in Nat, k \in Nat, w \in Nat, a \in Nat, r \in Nat :
                /\ m = sinks.len /\ k = Cardinality(Pending) /\ w = Len(Wired)
                /\ a = Cardinality(Adders) /\ r = reentrant
            BY PendingFinite, AddersFinite, LenProperties DEF IndInv, Shape
        <3>4. m + k = w + a + r
            BY <3>3 DEF IndInv, CountInv
        <3>5. sinks'.len = m /\ Cardinality(Pending') = k + 1 /\ reentrant' = r + 1
            BY <1>1, <1>2, <2>2, <3>2, <3>3
        <3>6. m + (k + 1) = w + a + (r + 1)
            BY <3>4
        <3> QED
            BY <3>3, <3>5, <3>6 DEF CountInv
    <2> QED
        BY <2>1, <2>2
<1>7. PICK n \in Nat :
      /\ n = Len(calls[p]) /\ calls[p] \in Seq(Calls) /\ n = i[p] - 1 /\ i[p] \in Nat /\ view[p].len \in Nat
      /\ Len(calls'[p]) = n + 1 /\ calls'[p][n + 1] = call
      /\ \A k \in 1 .. n : calls'[p][k] = calls[p][k]
    <2>1. calls[p] \in Seq(Calls) /\ i[p] \in Nat /\ view[p].len \in Nat
        BY DEF IndInv, Shape
    <2>2. Len(calls[p]) = i[p] - 1
        BY <1>1 DEF IndInv, ReporterInv, WalkInv
    <2>3. PICK n \in Nat :
            /\ n = Len(calls[p]) /\ Len(Append(calls[p], call)) = n + 1
            /\ Append(calls[p], call)[n + 1] = call
            /\ \A k \in 1 .. n : Append(calls[p], call)[k] = calls[p][k]
        BY <1>3, <2>1, AppendCall
    <2> QED
        BY <1>4, <2>1, <2>2, <2>3
<1>8. ReporterInv(p)'
    <2>1. ReporterInv(p)
        BY DEF IndInv
    <2>2. ViewInv(p)'
        BY <1>1, <1>2, <1>4, <2>1 DEF ReporterInv, ViewInv
    <2>3. WalkInv(p)'
        <3>1. This(p)' = This(p)
            BY <1>1 DEF This
        <3>2. \A k \in DOMAIN calls'[p] : calls'[p][k].sink = arrays[view[p].arr][k]
            <4>1. DOMAIN calls'[p] = 1 .. n + 1 /\ DOMAIN calls[p] = 1 .. n
                BY <1>3, <1>4, <1>7, LenProperties
            <4>2. call.sink = arrays[view[p].arr][n + 1]
                BY <1>7 DEF call, This
            <4>3. ASSUME NEW k \in 1 .. n PROVE calls'[p][k].sink = arrays[view[p].arr][k]
                BY <1>7, <2>1, <4>1 DEF ReporterInv, WalkInv
            <4>4. calls'[p][n + 1].sink = arrays[view[p].arr][n + 1]
                BY <1>7, <4>2
            <4>5. \A k \in 1 .. n + 1 : k \in 1 .. n \/ k = n + 1
                OBVIOUS
            <4> QED
                BY <4>1, <4>3, <4>4, <4>5
        <3>3. Len(calls'[p]) = i[p] /\ i[p] <= view[p].len
            BY <1>3, <1>7
        <3> QED
            BY <1>1, <1>2, <1>4, <2>1, <3>1, <3>2, <3>3 DEF ReporterInv, WalkInv
    <2>4. ToldInv(p)'
        <3>1. ToldUpTo(p, n)
            BY <1>1, <1>7, <2>1 DEF ReporterInv, ToldInv
        <3>2. \A k \in 1 .. n : Given(p)'[k] = Given(p)[k]
            BY <1>3, <1>4, <1>7, LenProperties DEF Given
        <3>3. \A k \in 0 .. n : Failed(p, k)' = Failed(p, k)
            BY <1>7, <3>2 DEF Failed
        <3>4. ToldUpTo(p, n)'
            <4>1. told'[p] = told[p] /\ Failed(p, n)' = Failed(p, n)
                BY <1>1, <1>7, <3>3
            <4>2. \A k \in Failed(p, n) : k \in 0 .. n /\ k \in 1 .. n
                BY <1>7 DEF Failed
            <4>3. ASSUME NEW k \in Failed(p, n) 
                  PROVE  told'[p][Cardinality(Failed(p, k)')] = Given(p)'[k]
                BY <3>1, <3>2, <3>3, <4>1, <4>2 DEF ToldUpTo
            <4> QED
                BY <3>1, <4>1, <4>3 DEF ToldUpTo
        <3>5. pc'[p] \in Adding \cup {"emitted"} /\ i'[p] - 1 = n
            BY <1>1, <1>2, <1>4, <1>7
        <3> QED
            BY <3>4, <3>5 DEF ToldInv
    <2> QED
        BY <2>2, <2>3, <2>4 DEF ReporterInv
<1> QED
    BY <1>1, <1>2, <1>4, <1>5, <1>6, <1>8, ReporterStep

\* OnSinkError is called, if it failed, and the walk goes on.
LEMMA ContinueStep ==
    ASSUME IndInv, NEW p \in Reporters, Continue(p)
    PROVE  IndInv'
<1>1. /\ pc[p] = "emitted" /\ i' = [i EXCEPT ![p] = @ + 1] /\ pc' = [pc EXCEPT ![p] = "loop"]
      /\ UNCHANGED <<arrays, sinks, lock, fp, base, view, report, calls, before, reentrant>>
    BY DEF Continue
<1>2. ReporterInv(p) /\ ErrorOf[p] # NoError
    BY <1>1 DEF IndInv, ReporterInv, WalkInv
<1>3. /\ i[p] \in Nat \ {0} /\ view[p].len \in Nat /\ calls[p] \in Seq(Calls) /\ told[p] \in Seq(Sinks)
      /\ Len(calls[p]) = i[p] /\ Len(calls[p]) <= view[p].len /\ i[p] \in DOMAIN calls[p]
    <2>1. /\ i[p] \in Nat \ {0} /\ view[p].len \in Nat /\ calls[p] \in Seq(Calls)
          /\ told[p] \in Seq(Sinks)
        BY DEF IndInv, Shape
    <2>2. Len(calls[p]) = i[p] /\ Len(calls[p]) <= view[p].len
        BY <1>1, <1>2 DEF ReporterInv, WalkInv
    <2> QED
        BY <2>1, <2>2, LenProperties
<1>4. This(p) \in Sinks /\ Given(p)[i[p]] = This(p)
    <2>1. This(p) \in Sinks
        BY <1>3, ThisIsSink
    <2> QED
        BY <1>2, <1>3, <2>1 DEF ReporterInv, WalkInv, This, Given
<1>5. /\ told' = IF This(p) \in Failing THEN [told EXCEPT ![p] = Append(told[p], This(p))] ELSE told
      /\ told'[p] = IF This(p) \in Failing THEN Append(told[p], This(p)) ELSE told[p]
      /\ \A q \in Reporters \ {p} : told'[q] = told[q]
    <2>1. told' = IF This(p) \in Failing THEN [told EXCEPT ![p] = Append(told[p], This(p))] ELSE told
        BY DEF Continue, Told
    <2>2. told \in [Reporters -> Seq(Sinks)]
        BY DEF IndInv, Shape
    <2> QED
        BY <2>1, <2>2
<1>6. /\ pc'[p] = "loop" /\ i'[p] = i[p] + 1
      /\ \A q \in Reporters \ {p} : i'[q] = i[q]
    BY <1>1 DEF IndInv, Shape
<1>7. Shape'
    <2>1. told' \in [Reporters -> Seq(Sinks)]
        <3>1. Append(told[p], This(p)) \in Seq(Sinks)
            BY <1>3, <1>4
        <3> QED
            BY <1>5, <3>1 DEF IndInv, Shape
    <2>2. i' \in [Reporters -> Nat \ {0}] /\ pc' \in [Procs -> Early \cup Late]
        BY <1>1, <1>3 DEF IndInv, Shape
    <2> QED
        BY <1>1, <2>1, <2>2 DEF IndInv, Shape, lock
<1>8. CountInv'
    BY <1>1, CountKept
<1>9. ReporterInv(p)'
    <2>1. ViewInv(p)'
        BY <1>1, <1>2, <1>6 DEF ReporterInv, ViewInv
    <2>2. WalkInv(p)'
        BY <1>1, <1>2, <1>3, <1>6 DEF ReporterInv, WalkInv
    <2>3. ToldInv(p)'
        <3>1. PICK n \in Nat : ToldUpTo(p, n) /\ n + 1 = i[p]
            <4>1. i[p] - 1 \in Nat /\ ToldUpTo(p, i[p] - 1) /\ (i[p] - 1) + 1 = i[p]
                BY <1>1, <1>2, <1>3 DEF ReporterInv, ToldInv
            <4> QED
                BY <4>1
        <3>2. Given(p)' = Given(p) /\ Given(p)[n + 1] = This(p)
            BY <1>1, <1>4, <3>1 DEF Given
        <3>3. ToldUpTo(p, n + 1)'
            BY <1>3, <1>4, <1>5, <3>1, <3>2, ToldOneMore
        <3>4. n + 1 = Len(calls'[p])
            BY <1>1, <1>3, <3>1
        <3> QED
            <4>1. pc'[p] = "loop" => pc'[p] \notin Adding \cup {"emitted"}
                OBVIOUS
            <4> QED
                BY <1>6, <3>3, <3>4, <4>1 DEF ToldInv
    <2> QED
        BY <2>1, <2>2, <2>3 DEF ReporterInv
<1> QED
    BY <1>1, <1>5, <1>6, <1>7, <1>8, <1>9, ReporterStep

\* The walk ends with every sink of the copy given the report.
LEMMA ReportDoneStep ==
    ASSUME IndInv, NEW p \in Reporters, ReportDone(p)
    PROVE  IndInv'
<1>1. /\ pc[p] = "loop" /\ ~(i[p] <= view[p].len) /\ pc' = [pc EXCEPT ![p] = "done"]
      /\ UNCHANGED <<arrays, sinks, lock, fp, base, reporting, reentrant>>
    BY DEF ReportDone, More
<1>2. UNCHANGED <<view, i, report, calls, told, before>>
    BY <1>1 DEF reporting
<1>3. Shape' /\ pc'[p] = "done"
    BY <1>1, <1>2 DEF IndInv, Shape, lock
<1>4. CountInv'
    BY <1>1, CountKept
<1>5. ReporterInv(p)'
    <2>1. ReporterInv(p)
        BY DEF IndInv
    <2>2. /\ i[p] \in Nat \ {0} /\ view[p].len \in Nat /\ Len(calls[p]) <= view[p].len
          /\ ErrorOf[p] # NoError /\ Len(calls[p]) = i[p] - 1
        BY <1>1, <2>1 DEF IndInv, Shape, ReporterInv, WalkInv
    <2>3. Len(calls[p]) = view[p].len
        BY <1>1, <2>2
    <2>4. ViewInv(p)'
        BY <1>1, <1>2, <1>3, <2>1 DEF ReporterInv, ViewInv
    <2>5. WalkInv(p)'
        BY <1>1, <1>2, <1>3, <2>1, <2>3 DEF ReporterInv, WalkInv
    <2>6. ToldInv(p)'
        BY <1>1, <1>2, <1>3, <2>1, ToldKept DEF ReporterInv, ToldInv
    <2> QED
        BY <2>4, <2>5, <2>6 DEF ReporterInv
<1> QED
    BY <1>1, <1>2, <1>3, <1>4, <1>5, ReporterStep

-----------------------------------------------------------------------------
(* The invariant holds in every state *)

LEMMA NextIndInv == IndInv /\ [Next]_vars => IndInv'
<1> SUFFICES ASSUME IndInv, [Next]_vars PROVE IndInv'
    OBVIOUS
<1>1. ASSUME NEW p \in Procs, Add(p) PROVE IndInv'
    BY <1>1, AddAsksStep, AddLocksStep, AddStoresStep DEF Add
<1>2. ASSUME NEW p \in Reporters, Report(p) PROVE IndInv'
    BY <1>2, SnapshotStep, ReadHeaderStep, ReadLengthStep, EmitStep, ContinueStep, ReportDoneStep
    DEF Report
<1>3. CASE UNCHANGED vars
    <2>1. Shape' /\ SliceInv' /\ LockInv'
        BY <1>3 DEF vars, IndInv, Shape, SliceInv, LockInv
    <2>2. CountInv'
        BY <1>3 DEF vars, IndInv, CountInv, Pending
    <2>3. ASSUME NEW q \in Reporters PROVE ReporterInv(q)'
        BY <1>3, Kept DEF vars, IndInv
    <2> QED
        BY <2>1, <2>2, <2>3 DEF IndInv
<1> QED
    BY <1>1, <1>2, <1>3 DEF Next

LEMMA Invariance == Spec => []IndInv
BY InitIndInv, NextIndInv, PTL DEF Spec

-----------------------------------------------------------------------------
(* Theorems *)

\* Headers stay within their arrays, whatever Reports and Adds interleave.
THEOREM TypeCorrect == Spec => []TypeOK
<1>1. IndInv => TypeOK
    <2> SUFFICES ASSUME IndInv PROVE TypeOK
        OBVIOUS
    <2>1. Shape /\ SliceInv /\ \A p \in Reporters : ViewInv(p)
        BY DEF IndInv, ReporterInv
    <2>2. \A k \in DOMAIN arrays : arrays[k] \in Seq(Sinks \cup {Empty})
        BY <2>1, ElementOfSeq, LenProperties DEF Shape
    <2>3. Len(arrays) \in Nat
        BY <2>1, LenProperties DEF Shape
    <2>4. sinks \in Header /\ sinks.len <= Len(arrays[sinks.arr])
        BY <2>1, <2>3 DEF Shape, SliceInv, Header
    <2>5. base \in [Procs -> Header]
        <3>1. \A q \in Procs : base[q] \in Header
            BY <2>1 DEF Shape, SliceInv, Header
        <3> QED
            BY <2>1, <3>1 DEF Shape
    <2>6. view \in [Reporters -> Header]
        <3>1. \A q \in Reporters : view[q] \in Header
            BY <2>1 DEF Shape, ViewInv, Header
        <3> QED
            BY <2>1, <3>1 DEF Shape
    <2>7. i \in [Reporters -> Nat] /\ DOMAIN pc = Procs
        BY <2>1 DEF Shape
    <2>8. \A q \in Reporters : view[q].len <= Len(arrays[view[q].arr])
        BY <2>1 DEF ViewInv
    <2> QED
        BY <2>1, <2>2, <2>4, <2>5, <2>6, <2>7, <2>8 DEF Shape, TypeOK
<1> QED
    BY <1>1, Invariance, PTL

\* The first n elements of an array.
LEMMA Segment ==
    ASSUME NEW a, NEW n \in Nat, \A k \in 1 .. n : a[k] \in Sinks
    PROVE  /\ SubSeq(a, 1, n) \in Seq(Sinks) /\ Len(SubSeq(a, 1, n)) = n
           /\ \A k \in 1 .. n : SubSeq(a, 1, n)[k] = a[k]
BY SubSeqProperties

LEMMA SameSegment ==
    ASSUME NEW a, NEW b, NEW n \in Nat, \A k \in 1 .. n : a[k] \in Sinks /\ b[k] = a[k]
    PROVE  SubSeq(b, 1, n) = SubSeq(a, 1, n)
<1>1. \A k \in 1 .. n : b[k] \in Sinks
    OBVIOUS
<1>2. /\ SubSeq(a, 1, n) \in Seq(Sinks) /\ Len(SubSeq(a, 1, n)) = n
      /\ \A k \in 1 .. n : SubSeq(a, 1, n)[k] = a[k]
    BY Segment
<1>3. /\ SubSeq(b, 1, n) \in Seq(Sinks) /\ Len(SubSeq(b, 1, n)) = n
      /\ \A k \in 1 .. n : SubSeq(b, 1, n)[k] = b[k]
    BY <1>1, Segment
<1> QED
    BY <1>2, <1>3, SeqEqual

\* What is registered, and what a report walks, are sinks.
LEMMA ListOfSinks ==
    ASSUME IndInv
    PROVE  /\ sinks.len \in Nat /\ \A k \in 1 .. sinks.len : arrays[sinks.arr][k] \in Sinks
           /\ \A p \in Reporters :
                /\ view[p].len \in Nat /\ view[p].len <= sinks.len
                /\ \A k \in 1 .. view[p].len :
                    /\ arrays[view[p].arr][k] \in Sinks
                    /\ arrays[view[p].arr][k] = arrays[sinks.arr][k]
<1>1. sinks.len \in Nat /\ \A k \in 1 .. sinks.len : arrays[sinks.arr][k] \in Sinks
    BY DEF IndInv, Shape, SliceInv
<1>2. ASSUME NEW p \in Reporters
      PROVE  /\ view[p].len \in Nat /\ view[p].len <= sinks.len
             /\ \A k \in 1 .. view[p].len : arrays[view[p].arr][k] = arrays[sinks.arr][k]
    BY DEF IndInv, Shape, ReporterInv, ViewInv
<1>3. ASSUME NEW p \in Reporters, NEW k \in 1 .. view[p].len
      PROVE  arrays[view[p].arr][k] \in Sinks
    <2>1. k \in 1 .. sinks.len
        BY <1>1, <1>2
    <2> QED
        BY <1>1, <1>2, <2>1
<1> QED
    BY <1>1, <1>2, <1>3

\* Only an Add that stores writes to an array or moves the registry's header.
LEMMA OnlyAddWrites ==
    ASSUME [Next]_vars
    PROVE  UNCHANGED <<arrays, sinks>> \/ \E p \in Procs : AddStores(p)
<1>1. ASSUME NEW p \in Procs, AddAsks(p) \/ AddLocks(p) PROVE UNCHANGED <<arrays, sinks>>
    BY <1>1 DEF AddAsks, AddLocks
<1>2. ASSUME NEW p \in Reporters, Snapshot(p) PROVE UNCHANGED <<arrays, sinks>>
    BY <1>2 DEF Snapshot, ReportNothing, FpCached, FpComputed, FpStores, FpStored
<1>3. ASSUME NEW p \in Reporters,
             ReadHeader(p) \/ ReadLength(p) \/ Continue(p) \/ ReportDone(p)
      PROVE  UNCHANGED <<arrays, sinks>>
    BY <1>3 DEF ReadHeader, ReadLength, Continue, ReportDone
<1>4. ASSUME NEW p \in Reporters, Emit(p) PROVE UNCHANGED <<arrays, sinks>>
    BY <1>4 DEF Emit
<1>5. CASE UNCHANGED vars
    BY <1>5 DEF vars
<1> QED
    BY <1>1, <1>2, <1>3, <1>4, <1>5 DEF Next, Add, Report

LEMMA ViewStable ==
    ASSUME IndInv, [Next]_vars, NEW p \in Reporters, view'[p] = view[p]
    PROVE  Contents(view[p])' = Contents(view[p])
<1>1. CASE UNCHANGED <<arrays, sinks>>
    BY <1>1 DEF Contents
<1>2. CASE \E q \in Procs : AddStores(q)
    <2>1. \A k \in 1 .. view[p].len : arrays'[view[p].arr][k] = arrays[view[p].arr][k]
        BY <1>2, ViewsKept
    <2>2. SubSeq(arrays'[view[p].arr], 1, view[p].len) = SubSeq(arrays[view[p].arr], 1, view[p].len)
        BY <2>1, ListOfSinks, SameSegment
    <2> QED
        BY <2>2 DEF Contents
<1> QED
    BY <1>1, <1>2, OnlyAddWrites

\* Add writes to the array a report is walking, but never to the part of it
\* the report's copy of the header covers.
THEOREM WalkedUndisturbed == Spec => ViewsStable
<1>1. IndInv /\ [Next]_vars =>
        [\A p \in Reporters : view'[p] = view[p] => Contents(view[p])' = Contents(view[p])]_vars
    BY ViewStable
<1> QED
    BY <1>1, Invariance, PTL DEF Spec, ViewsStable

\* A finished report went, as Snapshot made it, to each sink that was
\* registered before the call, once and in order, and each failure was told.
THEOREM AllReached == Spec => []ReportReachesAll
<1>1. IndInv => ReportReachesAll
    <2> SUFFICES ASSUME IndInv, NEW p \in Reporters, pc[p] = "done", ErrorOf[p] # NoError
                 PROVE  /\ Len(calls[p]) >= before[p]
                        /\ IsPrefix(Given(p), Contents(sinks))
                        /\ \A k \in DOMAIN calls[p] : ~calls[p][k].report.extra
                        /\ ToldUpTo(p, Len(calls[p]))
        BY DEF ReportReachesAll, ToldUpTo
    <2>1. ReporterInv(p)
        BY DEF IndInv
    <2>2. PICK n \in Nat : n = Len(calls[p]) /\ n = view[p].len
        <3>1. Len(calls[p]) = view[p].len /\ view[p].len \in Nat
            BY <2>1, ListOfSinks DEF ReporterInv, WalkInv
        <3> QED
            BY <3>1
    <2>3. calls[p] \in Seq(Calls) /\ DOMAIN calls[p] = 1 .. n
        BY <2>2, LenProperties DEF IndInv, Shape
    <2>4. n >= before[p]
        BY <2>1, <2>2 DEF ReporterInv, WalkInv
    <2>5. ToldUpTo(p, Len(calls[p]))
        BY <2>1 DEF ReporterInv, ToldInv
    <2>6. \A k \in DOMAIN calls[p] : ~calls[p][k].report.extra
        <3>1. \A k \in 1 .. Len(calls[p]) : calls[p][k] \in Calls
            <4> HIDE DEF Calls
            <4> QED
                BY <2>3, ElementOfSeq
        <3> QED
            BY <2>2, <2>3, <3>1
    <2>7. IsPrefix(Given(p), Contents(sinks))
        <3>1. \A k \in 1 .. n : Given(p)[k] = arrays[sinks.arr][k] /\ Given(p)[k] \in Sinks
            BY <2>1, <2>2, <2>3, ListOfSinks DEF Given, ReporterInv, WalkInv
        <3>2. Given(p) \in Seq(Sinks) /\ Len(Given(p)) = n
            BY <2>3, <3>1 DEF Given
        <3>3. /\ Contents(sinks) \in Seq(Sinks) /\ Len(Contents(sinks)) = sinks.len
              /\ \A k \in 1 .. sinks.len : Contents(sinks)[k] = arrays[sinks.arr][k]
            BY ListOfSinks, Segment DEF Contents
        <3>4. n <= sinks.len /\ sinks.len \in Nat /\ \A k \in 1 .. n : k \in 1 .. sinks.len
            BY <2>2, ListOfSinks
        <3>5. SubSeq(Given(p), 1, n) = SubSeq(Contents(sinks), 1, n)
            <4>1. \A k \in 1 .. n : Given(p)[k] \in Sinks /\ Contents(sinks)[k] = Given(p)[k]
                BY <3>1, <3>3, <3>4
            <4> QED
                BY <4>1, SameSegment
        <3> QED
            BY <3>2, <3>3, <3>4, <3>5 DEF IsPrefix
    <2> QED
        BY <2>2, <2>4, <2>5, <2>6, <2>7
<1> QED
    BY <1>1, Invariance, PTL

-----------------------------------------------------------------------------
(* Refinement *)

\* What the abstract fan-out sees of a report.
Viewed(p) == IF ErrorOf[p] = NoError \/ pc[p] \in Early THEN NotYet ELSE Contents(view[p])

Views == [p \in Reporters |-> Viewed(p)]

Givens == [p \in Reporters |-> Given(p)]

LEMMA SameViewed ==
    ASSUME IndInv, [Next]_vars, NEW p \in Reporters,
           \/ ErrorOf[p] = NoError
           \/ pc[p] \in Early /\ pc'[p] \in Early
           \/ pc[p] \notin Early /\ pc'[p] \notin Early /\ view'[p] = view[p]
    PROVE  Viewed(p)' = Viewed(p)
<1>1. CASE ErrorOf[p] = NoError \/ (pc[p] \in Early /\ pc'[p] \in Early)
    BY <1>1 DEF Viewed
<1>2. CASE pc[p] \notin Early /\ pc'[p] \notin Early /\ view'[p] = view[p]
    BY <1>2, ViewStable DEF Viewed
<1> QED
    BY <1>1, <1>2

\* A step of one goroutine that gives no sink anything and takes no copy.
LEMMA Stutter ==
    ASSUME IndInv, [Next]_vars, NEW p \in Procs, NEW l, pc' = [pc EXCEPT ![p] = l],
           UNCHANGED <<arrays, sinks, calls>>,
           \A q \in Reporters \ {p} : view'[q] = view[q],
           \/ p \in Adders
           \/ ErrorOf[p] = NoError
           \/ pc[p] \in Early /\ l \in Early
           \/ pc[p] \notin Early /\ l \notin Early /\ view'[p] = view[p]
    PROVE  UNCHANGED Abstract!vars
<1>1. pc'[p] = l /\ \A q \in Procs \ {p} : pc'[q] = pc[q]
    BY DEF IndInv, Shape
<1>2. \A q \in Reporters : Viewed(q)' = Viewed(q)
    <2> TAKE q \in Reporters
    <2>1. CASE q # p
        BY <1>1, <2>1, SameViewed
    <2>2. CASE q = p
        BY <1>1, <2>2, SameViewed
    <2> QED
        BY <2>1, <2>2
<1>3. Views' = Views
    BY <1>2 DEF Views
<1>4. Givens' = Givens
    BY DEF Givens, Given
<1>5. Contents(sinks)' = Contents(sinks)
    BY DEF Contents
<1> QED
    BY <1>3, <1>4, <1>5 DEF Abstract!vars, Views, Viewed, Givens

\* The store that ends an Add appends to the abstract list.
LEMMA AddRefines ==
    ASSUME IndInv, [Next]_vars, NEW p \in Procs, AddStores(p)
    PROVE  Abstract!Add(NewSink(p)) /\ NewSink(p) \in Sinks
<1>1. /\ pc[p] = "append" /\ pc'[p] \in {"done", "emitted"}
      /\ \A q \in Procs \ {p} : pc'[q] = pc[q]
      /\ UNCHANGED <<view, calls>>
    BY DEF AddStores, IndInv, Shape, reporting
<1>2. NewSink(p) \in Sinks
    BY <1>1, NewSinkIsSink
<1>3. Views' = Views
    <2>1. \A q \in Reporters : Viewed(q)' = Viewed(q)
        BY <1>1, SameViewed
    <2> QED
        BY <2>1 DEF Views
<1>4. Givens' = Givens
    BY <1>1 DEF Givens, Given
<1>5. Contents(sinks)' = Append(Contents(sinks), NewSink(p))
    <2> DEFINE n == sinks.len
               old == SubSeq(arrays[sinks.arr], 1, n)
               new == SubSeq(arrays'[sinks'.arr], 1, sinks'.len)
    <2>1. /\ n \in Nat /\ sinks'.len = n + 1
          /\ \A k \in 1 .. n : arrays[sinks.arr][k] \in Sinks
          /\ \A k \in 1 .. n : arrays'[sinks'.arr][k] = arrays[sinks.arr][k]
          /\ arrays'[sinks'.arr][n + 1] = NewSink(p)
        BY ListOfSinks, Stored
    <2>2. old \in Seq(Sinks) /\ Len(old) = n /\ \A k \in 1 .. n : old[k] = arrays[sinks.arr][k]
        BY <2>1, Segment
    <2>3. \A k \in 1 .. n + 1 : arrays'[sinks'.arr][k] \in Sinks
        <3>1. \A k \in 1 .. n + 1 : k \in 1 .. n \/ k = n + 1
            BY <2>1
        <3> QED
            BY <1>2, <2>1, <3>1
    <2>4. /\ new \in Seq(Sinks) /\ Len(new) = n + 1
          /\ \A k \in 1 .. n + 1 : new[k] = arrays'[sinks'.arr][k]
        BY <2>1, <2>3, Segment
    <2> DEFINE longer == Append(old, NewSink(p))
    <2>5. /\ longer \in Seq(Sinks) /\ Len(longer) = n + 1 /\ longer[n + 1] = NewSink(p)
          /\ \A k \in 1 .. n : longer[k] = old[k]
        BY <1>2, <2>1, <2>2, AppendProperties
    <2> HIDE DEF old, new, longer
    <2>6. \A k \in 1 .. n + 1 : new[k] = longer[k]
        <3>1. \A k \in 1 .. n + 1 : k \in 1 .. n \/ k = n + 1
            BY <2>1
        <3> QED
            BY <2>1, <2>2, <2>4, <2>5, <3>1
    <2>7. new = longer
        BY <2>4, <2>5, <2>6, SeqEqual
    <2> QED
        BY <2>7 DEF new, longer, old, Contents
<1> QED
    BY <1>2, <1>3, <1>4, <1>5 DEF Abstract!Add, Views, Viewed, Givens

\* The second word of the header read: what the report will walk is fixed.
LEMMA ReadLengthRefines ==
    ASSUME IndInv, [Next]_vars, NEW p \in Reporters, ReadLength(p)
    PROVE  Abstract!Take(p)
<1>1. /\ pc[p] = "reading" /\ pc' = [pc EXCEPT ![p] = "loop"]
      /\ view' = [view EXCEPT ![p].len = sinks.len] /\ UNCHANGED <<arrays, sinks, calls>>
    BY DEF ReadLength
<1>2. /\ pc'[p] = "loop" /\ \A q \in Reporters \ {p} : pc'[q] = pc[q] /\ view'[q] = view[q]
      /\ view'[p].len = sinks.len /\ view'[p].arr = view[p].arr
    BY <1>1 DEF IndInv, Shape
<1>3. view[p].arr = sinks.arr /\ ErrorOf[p] # NoError
    BY <1>1 DEF IndInv, ReporterInv, ViewInv, WalkInv
<1>4. Viewed(p) = NotYet /\ Viewed(p)' = Contents(sinks)
    BY <1>1, <1>2, <1>3 DEF Viewed, Contents
<1>5. \A q \in Reporters \ {p} : Viewed(q)' = Viewed(q)
    BY <1>2, SameViewed
<1>6. Views[p] = NotYet /\ Views' = [Views EXCEPT ![p] = Contents(sinks)]
    BY <1>4, <1>5 DEF Views
<1>7. Givens' = Givens /\ Contents(sinks)' = Contents(sinks)
    BY <1>1 DEF Givens, Given, Contents
<1> QED
    BY <1>6, <1>7 DEF Abstract!Take, Views, Viewed, Givens

\* A sink is given the report: the next of those fixed then.
LEMMA EmitRefines ==
    ASSUME IndInv, [Next]_vars, NEW p \in Reporters, Emit(p)
    PROVE  Abstract!Deliver(p)
<1> DEFINE call == [sink |-> This(p), report |-> report[p]]
<1>1. /\ pc[p] = "loop" /\ i[p] <= view[p].len
      /\ calls' = [calls EXCEPT ![p] = Append(@, call)]
      /\ UNCHANGED <<arrays, sinks, view>>
    BY DEF Emit, More
<1>2. /\ \A q \in Reporters \ {p} : pc'[q] = pc[q] /\ calls'[q] = calls[q]
      /\ pc'[p] \in {"emitted", "add"} /\ calls'[p] = Append(calls[p], call)
    BY <1>1 DEF Emit, IndInv, Shape
<1>3. This(p) \in Sinks /\ i[p] \in 1 .. view[p].len /\ ErrorOf[p] # NoError
    BY <1>1, ThisIsSink DEF IndInv, ReporterInv, WalkInv
<1>4. PICK n \in Nat : n = Len(calls[p]) /\ n = i[p] - 1 /\ calls[p] \in Seq(Calls)
    <2>1. calls[p] \in Seq(Calls) /\ Len(calls[p]) \in Nat
        BY LenProperties DEF IndInv, Shape
    <2> QED
        BY <1>1, <2>1 DEF IndInv, ReporterInv, WalkInv
<1>5. call \in Calls
    BY <1>3 DEF IndInv, Shape
<1>6. Views' = Views
    <2>1. \A q \in Reporters : Viewed(q)' = Viewed(q)
        BY <1>1, <1>2, SameViewed
    <2> QED
        BY <2>1 DEF Views
<1>7. /\ Views[p] = Contents(view[p]) /\ view[p].len \in Nat
      /\ Len(Contents(view[p])) = view[p].len
      /\ Contents(view[p])[n + 1] = This(p)
    <2>1. \A k \in 1 .. view[p].len : arrays[view[p].arr][k] \in Sinks
        BY ListOfSinks
    <2>2. view[p].len \in Nat
        BY ListOfSinks
    <2>3. /\ Len(Contents(view[p])) = view[p].len
          /\ \A k \in 1 .. view[p].len : Contents(view[p])[k] = arrays[view[p].arr][k]
        BY <2>1, <2>2, Segment DEF Contents
    <2>4. n + 1 = i[p]
        BY <1>3, <1>4, <2>2
    <2>5. Contents(view[p])[i[p]] = This(p)
        BY <1>3, <2>3 DEF This
    <2>6. Views[p] = Contents(view[p])
        BY <1>1, <1>3 DEF Views, Viewed
    <2> QED
        BY <2>2, <2>3, <2>4, <2>5, <2>6
<1>8. Len(Given(p)) = n /\ Given(p)' = Append(Given(p), This(p))
    <2> HIDE DEF call, Calls
    <2>1. DOMAIN calls[p] = 1 .. n /\ \A k \in 1 .. n : calls[p][k] \in Calls
        <3>1. \A k \in 1 .. Len(calls[p]) : calls[p][k] \in Calls
            BY <1>4, ElementOfSeq
        <3>2. DOMAIN calls[p] = 1 .. Len(calls[p])
            BY <1>4, LenProperties
        <3> QED
            BY <1>4, <3>1, <3>2
    <2>2. /\ DOMAIN calls'[p] = 1 .. n + 1 /\ calls'[p][n + 1] = call
          /\ \A k \in 1 .. n : calls'[p][k] = calls[p][k]
        <3>1. PICK c \in Seq(Calls), x \in Calls : c = calls[p] /\ x = call
            BY <1>4, <1>5
        <3>2. PICK m \in Nat :
                /\ m = Len(c) /\ DOMAIN Append(c, x) = 1 .. m + 1
                /\ Append(c, x)[m + 1] = x /\ \A k \in 1 .. m : Append(c, x)[k] = c[k]
            BY AppendCall
        <3> QED
            BY <1>2, <1>4, <3>1, <3>2
    <2>3. /\ Given(p) \in Seq(Sinks) /\ Len(Given(p)) = n
          /\ \A k \in 1 .. n : Given(p)[k] = calls[p][k].sink
        <3>1. \A k \in 1 .. n : calls[p][k].sink \in Sinks
            BY <2>1 DEF Calls
        <3> QED
            BY <2>1, <3>1 DEF Given
    <2>4. call.sink = This(p)
        BY DEF call
    <2>5. \A k \in 1 .. n + 1 : Given(p)'[k] = calls'[p][k].sink
        BY <2>2 DEF Given
    <2>6. \A k \in 1 .. n + 1 : k \in 1 .. n \/ k = n + 1
        OBVIOUS
    <2>7. \A k \in 1 .. n + 1 : Given(p)'[k] \in Sinks
        <3>1. \A k \in 1 .. n : calls'[p][k].sink \in Sinks
            BY <2>1, <2>2 DEF Calls
        <3> QED
            BY <1>3, <2>2, <2>4, <2>5, <2>6, <3>1
    <2>8. Given(p)' \in Seq(Sinks) /\ Len(Given(p)') = n + 1
        BY <2>2, <2>7 DEF Given
    <2> DEFINE longer == Append(Given(p), This(p))
    <2>9. /\ longer \in Seq(Sinks) /\ Len(longer) = n + 1 /\ longer[n + 1] = This(p)
          /\ \A k \in 1 .. n : longer[k] = Given(p)[k]
        BY <1>3, <2>3, AppendProperties
    <2> HIDE DEF longer
    <2>10. \A k \in 1 .. n + 1 : Given(p)'[k] = longer[k]
        <3>1. ASSUME NEW k \in 1 .. n PROVE Given(p)'[k] = longer[k]
            BY <2>2, <2>3, <2>5, <2>6, <2>9
        <3>2. Given(p)'[n + 1] = longer[n + 1]
            BY <2>2, <2>4, <2>5, <2>9
        <3> QED
            BY <2>6, <3>1, <3>2
    <2>11. Given(p)' = longer
        BY <2>8, <2>9, <2>10, SeqEqual
    <2> QED
        BY <2>3, <2>11 DEF longer
<1>9. Givens' = [Givens EXCEPT ![p] = Append(Givens[p], This(p))] /\ Givens[p] = Given(p)
    <2>1. \A q \in Reporters \ {p} : Given(q)' = Given(q)
        BY <1>2 DEF Given
    <2> QED
        BY <1>8, <2>1 DEF Givens
<1>10. Views[p] # NotYet
    <2>1. Contents(view[p]) \in Seq(Sinks)
        BY ListOfSinks, Segment DEF Contents
    <2> QED
        BY <1>7, <2>1
<1>11. Contents(sinks)' = Contents(sinks)
    BY <1>1 DEF Contents
<1>12. n < view[p].len
    BY <1>3, <1>4, <1>7
<1>13. /\ Views[p] # NotYet /\ Len(Givens[p]) < Len(Views[p])
       /\ Givens' = [Givens EXCEPT ![p] = Append(Givens[p], Views[p][Len(Givens[p]) + 1])]
       /\ Views' = Views /\ Contents(sinks)' = Contents(sinks)
    BY <1>6, <1>7, <1>8, <1>9, <1>10, <1>11, <1>12
<1> QED
    BY <1>13 DEF Abstract!Deliver, Views, Viewed, Givens

\* The registry implements its abstract specification: the store that ends an
\* Add appends, the read that ends the lookup takes the list, an Emit delivers,
\* and any other step is a stutter.
THEOREM Refinement == Spec => ImplementsFanOut
<1>1. Init => Abstract!Init
    <2> SUFFICES ASSUME Init PROVE Abstract!Init
        OBVIOUS
    <2>1. IndInv
        BY InitIndInv
    <2>2. /\ arrays = <<Array(Wired, CapFor(Len(Wired)))>> /\ sinks = [arr |-> 1, len |-> Len(Wired)]
          /\ pc = [p \in Procs |-> IF p \in Adders THEN "add" ELSE "report"]
          /\ calls = [p \in Reporters |-> <<>>]
        BY DEF Init
    <2>3. Contents(sinks) = Wired
        <3>1. CapFor(Len(Wired)) \in Nat /\ CapFor(Len(Wired)) >= Len(Wired)
            <4>1. Len(Wired) \in 0 .. Len(Wired) + Cardinality(Adders) + MaxReentrant
                BY AddersFinite, LenProperties
            <4> QED
                BY <4>1, CapForEnough
        <3>2. \A k \in 1 .. Len(Wired) : arrays[1][k] = Wired[k] /\ Wired[k] \in Sinks
            BY <2>2, <3>1, ArrayProperties, ElementOfSeq
        <3>3. /\ SubSeq(arrays[1], 1, Len(Wired)) \in Seq(Sinks)
              /\ Len(SubSeq(arrays[1], 1, Len(Wired))) = Len(Wired)
              /\ \A k \in 1 .. Len(Wired) : SubSeq(arrays[1], 1, Len(Wired))[k] = Wired[k]
            BY <3>2, Segment, LenProperties
        <3>4. SubSeq(arrays[1], 1, Len(Wired)) = Wired
            BY <3>3, SeqEqual
        <3> QED
            BY <2>2, <3>4 DEF Contents
    <2>4. Views = [p \in Reporters |-> NotYet]
        BY <2>2 DEF Views, Viewed
    <2>5. Givens = [p \in Reporters |-> <<>>]
        <3>1. \A p \in Reporters : Given(p) = <<>>
            BY <2>2 DEF Given
        <3> QED
            BY <3>1 DEF Givens
    <2> QED
        BY <2>3, <2>4, <2>5 DEF Abstract!Init, Views, Viewed, Givens
<1>2. IndInv /\ [Next]_vars => [Abstract!Next]_(Abstract!vars)
    <2> SUFFICES ASSUME IndInv, [Next]_vars PROVE [Abstract!Next]_(Abstract!vars)
        OBVIOUS
    <2>1. ASSUME NEW p \in Procs, AddAsks(p) \/ AddLocks(p) PROVE UNCHANGED Abstract!vars
        <3>1. PICK l \in {"lock", "append"} : pc' = [pc EXCEPT ![p] = l]
            BY <2>1 DEF AddAsks, AddLocks
        <3>2. pc[p] \notin Early /\ UNCHANGED <<arrays, sinks, calls, view>>
            BY <2>1 DEF AddAsks, AddLocks, reporting
        <3> QED
            BY <3>1, <3>2, Stutter
    <2>2. ASSUME NEW p \in Procs, AddStores(p) PROVE Abstract!Next
        BY <2>2, AddRefines DEF Abstract!Next
    <2>3. ASSUME NEW p \in Reporters, Snapshot(p) PROVE UNCHANGED Abstract!vars
        <3>1. PICK l \in {"done", "rlock", "store", "stored"} : pc' = [pc EXCEPT ![p] = l]
            BY <2>3 DEF Snapshot, ReportNothing, FpCached, FpComputed, FpStores, FpStored
        <3>2. UNCHANGED <<arrays, sinks, calls, view>>
            BY <2>3
            DEF Snapshot, ReportNothing, FpCached, FpComputed, FpStores, FpStored, reporting
        <3>3. ErrorOf[p] = NoError \/ (pc[p] \in Early /\ pc'[p] \in Early)
            BY <2>3, <3>1 DEF Snapshot, ReportNothing, FpCached, FpComputed, FpStores, FpStored,
               IndInv, Shape
        <3>4. pc'[p] = l
            BY <3>1 DEF IndInv, Shape
        <3> QED
            BY <3>1, <3>2, <3>3, <3>4, Stutter
    <2>4. ASSUME NEW p \in Reporters, ReadHeader(p) PROVE UNCHANGED Abstract!vars
        <3>1. /\ pc[p] \in Early /\ pc' = [pc EXCEPT ![p] = "reading"]
              /\ UNCHANGED <<arrays, sinks, calls>> /\ \A q \in Reporters \ {p} : view'[q] = view[q]
            BY <2>4 DEF ReadHeader, IndInv, Shape
        <3> QED
            BY <3>1, Stutter
    <2>5. ASSUME NEW p \in Reporters, ReadLength(p) PROVE Abstract!Next
        BY <2>5, ReadLengthRefines DEF Abstract!Next
    <2>6. ASSUME NEW p \in Reporters, Emit(p) PROVE Abstract!Next
        BY <2>6, EmitRefines DEF Abstract!Next
    <2>7. ASSUME NEW p \in Reporters, Continue(p) \/ ReportDone(p) PROVE UNCHANGED Abstract!vars
        <3>1. PICK l \in {"loop", "done"} : pc' = [pc EXCEPT ![p] = l]
            BY <2>7 DEF Continue, ReportDone
        <3>2. pc[p] \notin Early /\ UNCHANGED <<arrays, sinks, calls, view>>
            BY <2>7 DEF Continue, ReportDone, reporting
        <3> QED
            BY <3>1, <3>2, Stutter
    <2>8. CASE UNCHANGED vars
        <3>1. UNCHANGED <<arrays, sinks, calls, view, pc>>
            BY <2>8 DEF vars
        <3> QED
            BY <3>1 DEF Abstract!vars, Contents, Given
    <2> QED
        BY <2>1, <2>2, <2>3, <2>4, <2>5, <2>6, <2>7, <2>8 DEF Next, Add, Report
<1> QED
    BY <1>1, <1>2, Invariance, PTL DEF Spec, ImplementsFanOut, Abstract!Spec
=============================================================================
