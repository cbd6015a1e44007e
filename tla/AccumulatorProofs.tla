------------------------- MODULE AccumulatorProofs -------------------------
(***************************************************************************)
(* Proofs, for any number of functions, readers and failures, of the       *)
(* safety properties of Accumulator.                                       *)
(***************************************************************************)
EXTENDS Accumulator, FiniteSetTheorems, SequenceTheorems, TLAPS

USE SizeAssumption, NoErrAssumption DEF Main, Nobody, Fns, Readers, Askers

LEMMA NoAnswerType == NoAnswer \in [count : Int, listed : Seq(Errs)]
BY DEF NoAnswer

LEMMA AnswerType ==
    ASSUME NEW n \in Int, NEW s \in Seq(Errs)
    PROVE  /\ [count |-> n, listed |-> s] \in [count : Int, listed : Seq(Errs)]
           /\ [count |-> n, listed |-> s].count = n
           /\ [count |-> n, listed |-> s].listed = s
OBVIOUS

\* The functions are finitely many.
LEMMA UnfinishedFinite ==
    /\ IsFiniteSet(Unfinished)
    /\ Cardinality(Unfinished) \in Nat
<1>1. IsFiniteSet(1 .. N)
    BY FS_Interval
<1>2. Unfinished \subseteq 1 .. N
    BY DEF Unfinished
<1> QED
    BY <1>1, <1>2, FS_Subset, FS_CardinalityType

\* The WaitGroup is at zero when, and only when, all have finished.
LEMMA AllDoneAtZero == Cardinality(Unfinished) = 0 => \A g \in Fns : at[g] = "done"
BY UnfinishedFinite, FS_EmptySet DEF Unfinished

LEMMA InitIndInv == Init => IndInv
<1> SUFFICES ASSUME Init PROVE IndInv
    OBVIOUS
<1>1. WaitInv
    <2>1. Unfinished = 1 .. N
        BY DEF Init, Unfinished
    <2>2. Cardinality(1 .. N) = N
        BY FS_Interval
    <2> QED
        BY <2>1, <2>2 DEF Init, WaitInv, WgStart
<1>2. TypeOK
    BY NoAnswerType DEF Init, TypeOK, WgStart
<1>3. MutexInv /\ ArgInv
    BY DEF Init, MutexInv, ArgInv
<1>4. MainInv /\ FloorInv /\ TurnInv
    BY DEF Init, MainInv, FloorInv, TurnInv
<1>5. NothingLost /\ CombinedIsComplete /\ SequentialOrder /\ AnswersExact
    BY DEF Init, NothingLost, CombinedIsComplete, SequentialOrder, AnswersExact, Added
<1> QED
    BY <1>1, <1>2, <1>3, <1>4, <1>5 DEF IndInv

-----------------------------------------------------------------------------
(* Steps of a function's goroutine *)

LEMMA StartStep ==
    ASSUME IndInv, NEW g \in Fns, Start(g)
    PROVE  IndInv'
<1> USE DEF Start, askers
<1>1. TypeOK'
    BY DEF IndInv, TypeOK
<1>2. MutexInv' /\ ArgInv'
    BY DEF IndInv, TypeOK, MutexInv, ArgInv
<1>3. WaitInv'
    <2>1. Unfinished' = Unfinished
        BY DEF IndInv, TypeOK, Unfinished
    <2> QED
        BY <2>1 DEF IndInv, WaitInv
<1>4. MainInv' /\ FloorInv'
    BY DEF IndInv, TypeOK, MainInv, FloorInv
<1>5. TurnInv'
    BY DEF IndInv, TypeOK, TurnInv, Turn
<1>6. \A h \in Fns : Added(h)' <=> Added(h)
    BY DEF IndInv, TypeOK, Added
<1>7. NothingLost' /\ SequentialOrder'
    BY <1>6 DEF IndInv, NothingLost, SequentialOrder
<1>8. CombinedIsComplete' /\ AnswersExact'
    BY DEF IndInv, TypeOK, CombinedIsComplete, AnswersExact
<1> QED
    BY <1>1, <1>2, <1>3, <1>4, <1>5, <1>7, <1>8 DEF IndInv

LEMMA ReturnStep ==
    ASSUME IndInv, NEW g \in Fns, NEW e \in Errs \cup {NoErr}, Return(g, e)
    PROVE  IndInv'
<1> USE DEF Return, askers
<1>1. TypeOK'
    BY DEF IndInv, TypeOK
<1>2. MutexInv' /\ ArgInv'
    BY DEF IndInv, TypeOK, MutexInv, ArgInv
<1>3. WaitInv'
    <2>1. Unfinished' = Unfinished
        BY DEF IndInv, TypeOK, Unfinished
    <2> QED
        BY <2>1 DEF IndInv, WaitInv
<1>4. MainInv' /\ FloorInv'
    BY DEF IndInv, TypeOK, MainInv, FloorInv
<1>5. TurnInv'
    BY DEF IndInv, TypeOK, TurnInv
<1>6. \A h \in Fns : /\ Added(h)' <=> Added(h)
                     /\ Added(h) => arg'[h] = arg[h]
    BY DEF IndInv, TypeOK, Added
<1>7. NothingLost' /\ SequentialOrder'
    BY <1>6 DEF IndInv, NothingLost, SequentialOrder
<1>8. CombinedIsComplete' /\ AnswersExact'
    BY DEF IndInv, TypeOK, CombinedIsComplete, AnswersExact
<1> QED
    BY <1>1, <1>2, <1>3, <1>4, <1>5, <1>7, <1>8 DEF IndInv

LEMMA AddLockStep ==
    ASSUME IndInv, NEW g \in Fns, AddLock(g)
    PROVE  IndInv'
<1> USE DEF AddLock, askers
<1>1. TypeOK'
    BY DEF IndInv, TypeOK
<1>2. MutexInv' /\ ArgInv'
    BY DEF IndInv, TypeOK, MutexInv, ArgInv, Free
<1>3. WaitInv'
    <2>1. Unfinished' = Unfinished
        BY DEF IndInv, TypeOK, Unfinished
    <2> QED
        BY <2>1 DEF IndInv, WaitInv
<1>4. MainInv' /\ FloorInv'
    BY DEF IndInv, TypeOK, MainInv, FloorInv
<1>5. TurnInv'
    BY DEF IndInv, TypeOK, TurnInv
<1>6. \A h \in Fns : Added(h)' <=> Added(h)
    BY DEF IndInv, TypeOK, Added
<1>7. NothingLost' /\ SequentialOrder'
    BY <1>6 DEF IndInv, NothingLost, SequentialOrder
<1>8. CombinedIsComplete' /\ AnswersExact'
    BY DEF IndInv, TypeOK, CombinedIsComplete, AnswersExact
<1> QED
    BY <1>1, <1>2, <1>3, <1>4, <1>5, <1>7, <1>8 DEF IndInv

\* What the write under the mutex does to the entries.
LEMMA Appended ==
    ASSUME IndInv, NEW g \in Fns, AddStore(g)
    PROVE  /\ arg[g] \in Errs /\ entries \in Seq(Errs) /\ Len(entries) \in Nat
           /\ at[g] = "append" /\ mu = g
           /\ entries' = Append(entries, arg[g]) /\ entries' \in Seq(Errs)
           /\ Len(entries') = Len(entries) + 1
           /\ \A i \in 1 .. Len(entries) : entries'[i] = entries[i]
           /\ entries'[Len(entries) + 1] = arg[g]
           /\ DOMAIN entries = 1 .. Len(entries) /\ DOMAIN entries' = 1 .. Len(entries) + 1
           /\ slot' \in [Fns -> Nat] /\ slot'[g] = Len(entries) + 1
           /\ \A h \in Fns : h # g => slot'[h] = slot[h]
<1>1. /\ at[g] = "append" /\ seen[g] = entries /\ mu = g
      /\ arg[g] \in Errs /\ entries \in Seq(Errs)
    BY DEF IndInv, TypeOK, AddStore, MutexInv, ArgInv
<1>2. entries' = Append(entries, arg[g]) /\ slot' = [slot EXCEPT ![g] = Len(entries) + 1]
    BY <1>1 DEF AddStore, AppendEntry
<1>3. /\ entries' \in Seq(Errs) /\ Len(entries') = Len(entries) + 1
      /\ \A i \in 1 .. Len(entries) : entries'[i] = entries[i]
      /\ entries'[Len(entries) + 1] = arg[g]
    BY <1>1, <1>2, AppendProperties
<1>4. /\ slot' \in [Fns -> Nat] /\ slot'[g] = Len(entries) + 1
      /\ \A h \in Fns : h # g => slot'[h] = slot[h]
    <2>1. slot \in [Fns -> Nat]
        BY DEF IndInv, TypeOK
    <2>2. Len(entries) + 1 \in Nat
        BY <1>1, LenProperties
    <2> QED
        BY <1>2, <2>1, <2>2
<1> QED
    BY <1>1, <1>2, <1>3, <1>4, LenProperties

\* A prefix of the entries stays one when they grow.
LEMMA PrefixStays ==
    ASSUME NEW s \in Seq(Errs), NEW e \in Errs, NEW n \in Nat, n <= Len(s)
    PROVE  SubSeq(Append(s, e), 1, n) = SubSeq(s, 1, n)
<1>1. Append(s, e) \in Seq(Errs) /\ Len(Append(s, e)) = Len(s) + 1
      /\ \A i \in 1 .. Len(s) : Append(s, e)[i] = s[i] /\ s[i] \in Errs
    BY AppendProperties, ElementOfSeq
<1>2. /\ SubSeq(s, 1, n) \in Seq(Errs)
      /\ Len(SubSeq(s, 1, n)) = n /\ \A i \in 1 .. n : SubSeq(s, 1, n)[i] = s[i]
    <2>1. \A i \in 1 .. n : s[i] \in Errs
        BY <1>1, LenProperties
    <2> QED
        BY <2>1, SubSeqProperties
<1>3. /\ SubSeq(Append(s, e), 1, n) \in Seq(Errs)
      /\ Len(SubSeq(Append(s, e), 1, n)) = n
      /\ \A i \in 1 .. n : SubSeq(Append(s, e), 1, n)[i] = Append(s, e)[i]
    <2>1. \A i \in 1 .. n : Append(s, e)[i] \in Errs
        BY <1>1, LenProperties
    <2> QED
        BY <2>1, SubSeqProperties
<1>4. \A i \in 1 .. n : Append(s, e)[i] = s[i]
    BY <1>1, LenProperties
<1> QED
    BY <1>2, <1>3, <1>4, SeqEqual

LEMMA AddStoreStep ==
    ASSUME IndInv, NEW g \in Fns, AddStore(g)
    PROVE  IndInv'
<1> DEFINE n == Len(entries)
<1>1. n \in Nat /\ arg[g] \in Errs /\ entries \in Seq(Errs) /\ at[g] = "append" /\ mu = g
    BY Appended
<1>2. /\ DOMAIN entries = 1 .. n /\ DOMAIN entries' = 1 .. n + 1
      /\ \A i \in 1 .. n : entries'[i] = entries[i]
      /\ entries'[n + 1] = arg[g]
    BY Appended
<1>3. /\ slot' \in [Fns -> Nat] /\ slot'[g] = n + 1
      /\ \A h \in Fns : h # g => slot'[h] = slot[h]
    BY Appended
<1>4. entries' = Append(entries, arg[g]) /\ entries' \in Seq(Errs) /\ Len(entries') = n + 1
    BY Appended
<1>5. /\ at' = [at EXCEPT ![g] = "added"] /\ mu' = Nobody /\ seen' = [seen EXCEPT ![g] = <<>>]
      /\ UNCHANGED <<mode, arg, wg, asking, counted, answer, floor>>
    BY DEF AddStore, askers
<1>6. /\ at \in [Fns -> {"new", "running", "add", "append", "added", "done"}]
      /\ floor \in [Askers -> Nat]
    BY DEF IndInv, TypeOK
<1> HIDE DEF n
<1>7. TypeOK'
    <2>1. seen' \in [Fns -> Seq(Errs)]
        BY <1>5, EmptySeq DEF IndInv, TypeOK
    <2>2. at' \in [Fns -> {"new", "running", "add", "append", "added", "done"}]
        BY <1>5, <1>6
    <2> QED
        BY <1>3, <1>4, <1>5, <2>1, <2>2 DEF IndInv, TypeOK
<1>8. MutexInv' /\ ArgInv'
    <2>1. ArgInv'
        BY <1>1, <1>5, <1>6 DEF IndInv, ArgInv
    <2>2. \A h \in Fns : at'[h] # "append"
        BY <1>1, <1>5, <1>6 DEF IndInv, MutexInv
    <2>3. \A a \in Askers : asking[a] # "list"
        BY <1>1 DEF IndInv, MutexInv
    <2> QED
        BY <1>5, <2>1, <2>2, <2>3 DEF MutexInv
<1>9. WaitInv'
    <2>1. Unfinished' = Unfinished
        BY <1>1, <1>5, <1>6 DEF Unfinished
    <2> QED
        BY <1>5, <2>1 DEF IndInv, WaitInv
<1>10. MainInv' /\ CombinedIsComplete'
    <2>1. asking[Main] = "idle" /\ answer[Main] = NoAnswer
        BY <1>1 DEF IndInv, MainInv
    <2> QED
        BY <1>5, <2>1 DEF MainInv, CombinedIsComplete
<1>11. \A a \in Askers : floor[a] \in Nat /\ floor[a] <= n
    BY <1>6 DEF IndInv, FloorInv, n
<1>12. FloorInv'
    BY <1>1, <1>4, <1>5, <1>11 DEF FloorInv
<1>13. TurnInv'
    BY <1>1, <1>5, <1>6 DEF IndInv, TurnInv
<1>14. /\ ~Added(g) /\ arg' = arg
       /\ \A h \in Fns : Added(h)' <=> (Added(h) \/ h = g)
    BY <1>1, <1>5, <1>6 DEF Added
<1>15. \A h \in Fns : Added(h) => slot[h] \in 1 .. n /\ entries[slot[h]] = arg[h]
    BY <1>2 DEF IndInv, NothingLost
<1>16. NothingLost'
    <2>1. \A h \in Fns : Added(h)' => slot'[h] \in DOMAIN entries' /\ entries'[slot'[h]] = arg'[h]
        <3> SUFFICES ASSUME NEW h \in Fns, Added(h)'
                     PROVE  slot'[h] \in 1 .. n + 1 /\ entries'[slot'[h]] = arg[h]
            BY <1>2, <1>14
        <3>1. CASE h = g
            BY <3>1, <1>1, <1>2, <1>3
        <3>2. CASE h # g
            BY <3>2, <1>1, <1>2, <1>3, <1>14, <1>15
        <3> QED
            BY <3>1, <3>2
    <2>2. \A h, k \in Fns : Added(h)' /\ Added(k)' /\ slot'[h] = slot'[k] => h = k
        <3>1. \A h, k \in Fns : Added(h) /\ Added(k) /\ slot[h] = slot[k] => h = k
            BY DEF IndInv, NothingLost
        <3>2. \A h \in Fns : Added(h) => slot[h] # n + 1
            BY <1>1, <1>15
        <3> QED
            BY <3>1, <3>2, <1>3, <1>14
    <2>3. \A i \in DOMAIN entries' : \E h \in Fns : Added(h)' /\ slot'[h] = i
        <3> SUFFICES ASSUME NEW i \in 1 .. n + 1
                     PROVE  \E h \in Fns : Added(h)' /\ slot'[h] = i
            BY <1>2
        <3>1. CASE i = n + 1
            BY <3>1, <1>3, <1>14
        <3>2. CASE i # n + 1
            <4>1. i \in DOMAIN entries
                BY <3>2, <1>1, <1>2
            <4>2. PICK h \in Fns : Added(h) /\ slot[h] = i
                BY <4>1 DEF IndInv, NothingLost
            <4> QED
                BY <4>2, <1>3, <1>14
        <3> QED
            BY <3>1, <3>2
    <2> QED
        BY <2>1, <2>2, <2>3 DEF NothingLost
<1>17. SequentialOrder'
    <2> SUFFICES ASSUME mode = "Accumulate", NEW h \in Fns, NEW k \in Fns,
                        Added(h)', Added(k)', h < k
                 PROVE  slot'[h] < slot'[k]
        BY <1>5 DEF SequentialOrder
    <2>1. CASE h = g
        <3>1. at[k] = "new"
            BY <2>1, <1>1, <1>6 DEF IndInv, TurnInv
        <3> QED
            BY <3>1, <2>1, <1>14 DEF Added
    <2>2. CASE h # g /\ k = g
        BY <2>2, <1>1, <1>3, <1>14, <1>15
    <2>3. CASE h # g /\ k # g
        BY <2>3, <1>3, <1>14 DEF IndInv, SequentialOrder
    <2> QED
        BY <2>1, <2>2, <2>3
<1>18. AnswersExact'
    <2> SUFFICES ASSUME NEW a \in Askers, answer[a] # NoAnswer, asking[a] = "idle"
                 PROVE  /\ answer[a].count \in floor[a] .. Len(entries')
                        /\ answer[a].listed # <<>> =>
                            answer[a].listed = SubSeq(entries', 1, answer[a].count)
        BY <1>5 DEF AnswersExact
    <2>1. /\ answer[a].count \in floor[a] .. n
          /\ answer[a].listed # <<>> => answer[a].listed = SubSeq(entries, 1, answer[a].count)
        BY DEF IndInv, AnswersExact, n
    <2>2. answer[a].count \in Nat /\ answer[a].count <= n
        BY <2>1, <1>1, <1>11
    <2>3. SubSeq(entries', 1, answer[a].count) = SubSeq(entries, 1, answer[a].count)
        BY <2>2, <1>1, <1>4, PrefixStays DEF n
    <2>4. answer[a].count \in floor[a] .. Len(entries')
        BY <2>1, <1>1, <1>4, <1>11
    <2> QED
        BY <2>1, <2>3, <2>4
<1> QED
    BY <1>7, <1>8, <1>9, <1>10, <1>12, <1>13, <1>16, <1>17, <1>18 DEF IndInv

LEMMA FinishStep ==
    ASSUME IndInv, NEW g \in Fns, Finish(g)
    PROVE  IndInv'
<1> USE DEF Finish, askers
<1>1. WaitInv' /\ wg' \in Nat
    <2>1. Unfinished' = Unfinished \ {g} /\ g \in Unfinished
        BY DEF IndInv, TypeOK, Unfinished
    <2>2. Cardinality(Unfinished') = Cardinality(Unfinished) - 1
        BY <2>1, UnfinishedFinite, FS_RemoveElement
    <2>3. Cardinality(Unfinished)' \in Nat
        BY <2>1, UnfinishedFinite, FS_RemoveElement, FS_CardinalityType
    <2> QED
        BY <2>2, <2>3, UnfinishedFinite DEF IndInv, WaitInv, WgDone
<1>2. TypeOK'
    BY <1>1 DEF IndInv, TypeOK
<1>3. MutexInv' /\ ArgInv'
    BY DEF IndInv, TypeOK, MutexInv, ArgInv
<1>4. MainInv' /\ FloorInv'
    BY DEF IndInv, TypeOK, MainInv, FloorInv
<1>5. TurnInv'
    BY DEF IndInv, TypeOK, TurnInv
<1>6. \A h \in Fns : Added(h)' <=> Added(h)
    BY DEF IndInv, TypeOK, Added
<1>7. NothingLost' /\ SequentialOrder'
    BY <1>6 DEF IndInv, NothingLost, SequentialOrder
<1>8. CombinedIsComplete' /\ AnswersExact'
    BY DEF IndInv, TypeOK, CombinedIsComplete, AnswersExact
<1> QED
    BY <1>1, <1>2, <1>3, <1>4, <1>5, <1>7, <1>8 DEF IndInv

-----------------------------------------------------------------------------
(* Steps of Len and ErrorOrNil *)

\* A step of an asker leaves everything said of the functions as it is.
LEMMA FunctionsUntouched ==
    ASSUME IndInv, UNCHANGED <<mode, entries, at, arg, seen, wg, slot>>
    PROVE  ArgInv' /\ WaitInv' /\ TurnInv' /\ NothingLost' /\ SequentialOrder'
<1>1. ArgInv' /\ TurnInv'
    BY DEF IndInv, ArgInv, TurnInv
<1>2. WaitInv'
    <2>1. Unfinished' = Unfinished
        BY DEF Unfinished
    <2> QED
        BY <2>1 DEF IndInv, WaitInv
<1>3. NothingLost' /\ SequentialOrder'
    BY DEF IndInv, NothingLost, SequentialOrder, Added
<1> QED
    BY <1>1, <1>2, <1>3

LEMMA CallStep ==
    ASSUME IndInv, NEW a \in Askers, NEW m \in {"Len", "ErrorOrNil"}, Call(a, m)
    PROVE  IndInv'
<1> USE DEF Call, adders
<1>1. Len(entries) \in Nat
    BY DEF IndInv, TypeOK
<1>2. TypeOK'
    <2>1. floor' \in [Askers -> Nat] /\ asking' \in [Askers -> {"idle", "Len", "ErrorOrNil", "list"}]
        BY <1>1 DEF IndInv, TypeOK
    <2> QED
        BY <2>1 DEF IndInv, TypeOK
<1>3. MutexInv'
    BY DEF IndInv, TypeOK, MutexInv
<1>4. MainInv'
    <2>1. a = Main => mode # "shared" /\ \A g \in Fns : at[g] = "done"
        <3>1. CASE mode = "Accumulate"
            BY <3>1 DEF MayAsk
        <3>2. CASE mode = "ParAccumulate"
            <4>1. wg = 0 /\ wg = Cardinality(Unfinished)
                BY <3>2 DEF MayAsk, WaitOver, IndInv, WaitInv
            <4> QED
                BY <3>2, <4>1, AllDoneAtZero
        <3>3. CASE mode = "shared"
            BY <3>3 DEF MayAsk
        <3> QED
            BY <3>1, <3>2, <3>3 DEF IndInv, TypeOK
    <2> QED
        BY <2>1 DEF IndInv, TypeOK, MainInv
<1>5. FloorInv'
    <2>1. \A b \in Askers : floor'[b] = IF b = a THEN Len(entries) ELSE floor[b]
        BY DEF IndInv, TypeOK
    <2> QED
        BY <1>1, <2>1 DEF IndInv, FloorInv
<1>6. CombinedIsComplete'
    BY DEF IndInv, CombinedIsComplete
<1>7. AnswersExact'
    BY DEF IndInv, TypeOK, AnswersExact
<1> QED
    BY <1>2, <1>3, <1>4, <1>5, <1>6, <1>7, FunctionsUntouched DEF IndInv

\* An answer that counts all entries, and lists all or none, is exact.
LEMMA ToldExactly ==
    ASSUME IndInv, NEW a \in Askers, NEW listed \in {entries, <<>>},
           answer' = [answer EXCEPT ![a] = [count |-> Len(entries), listed |-> listed]],
           asking' = [asking EXCEPT ![a] = "idle"],
           UNCHANGED <<entries, floor>>
    PROVE  /\ AnswersExact'
           /\ answer' \in [Askers -> [count : Int, listed : Seq(Errs)]]
           /\ answer'[a] # NoAnswer
<1>1. /\ entries \in Seq(Errs) /\ Len(entries) \in Nat /\ listed \in Seq(Errs)
      /\ floor \in [Askers -> Nat] /\ answer \in [Askers -> [count : Int, listed : Seq(Errs)]]
      /\ asking \in [Askers -> {"idle", "Len", "ErrorOrNil", "list"}]
    <2>1. entries \in Seq(Errs) /\ Len(entries) \in Nat
        BY DEF IndInv, TypeOK
    <2>2. listed \in Seq(Errs)
        BY <2>1, EmptySeq
    <2> QED
        BY <2>1, <2>2 DEF IndInv, TypeOK
<1>2. answer'[a].count = Len(entries) /\ answer'[a].listed = listed
    BY <1>1, AnswerType
<1>3. answer' \in [Askers -> [count : Int, listed : Seq(Errs)]]
    BY <1>1, AnswerType
<1>4. answer'[a] # NoAnswer
    BY <1>1, <1>2 DEF NoAnswer
<1>5. AnswersExact'
    <2>1. SubSeq(entries, 1, Len(entries)) = entries
        BY <1>1, SubSeqFull
    <2>2. floor[a] \in Nat /\ floor[a] <= Len(entries)
        BY <1>1 DEF IndInv, FloorInv
    <2>3. \A b \in Askers : b # a => answer'[b] = answer[b] /\ asking'[b] = asking[b]
        BY <1>1
    <2>4. Len(entries) \in floor[a] .. Len(entries)
        BY <1>1, <2>2
    <2> QED
        BY <1>2, <2>1, <2>3, <2>4 DEF IndInv, AnswersExact
<1> QED
    BY <1>3, <1>4, <1>5

LEMMA LenOfStep ==
    ASSUME IndInv, NEW a \in Askers, LenOf(a)
    PROVE  IndInv'
<1> USE DEF LenOf, adders, Tell
<1>1. a # Main
    BY DEF IndInv, MainInv
<1>2. AnswersExact' /\ answer' \in [Askers -> [count : Int, listed : Seq(Errs)]]
    BY ToldExactly
<1>3. TypeOK'
    BY <1>2 DEF IndInv, TypeOK
<1>4. MutexInv'
    BY DEF IndInv, TypeOK, MutexInv
<1>5. MainInv' /\ CombinedIsComplete'
    BY <1>1 DEF IndInv, TypeOK, MainInv, CombinedIsComplete
<1>6. FloorInv'
    BY DEF IndInv, FloorInv
<1> QED
    BY <1>2, <1>3, <1>4, <1>5, <1>6, FunctionsUntouched DEF IndInv

LEMMA AskNothingStep ==
    ASSUME IndInv, NEW a \in Askers, AskNothing(a)
    PROVE  IndInv'
<1> USE DEF AskNothing, adders, Tell
<1>1. Len(entries) = 0
    BY EmptySeq
<1>2. AnswersExact' /\ answer' \in [Askers -> [count : Int, listed : Seq(Errs)]]
    BY <1>1, ToldExactly
<1>3. TypeOK'
    BY <1>2 DEF IndInv, TypeOK
<1>4. MutexInv'
    BY DEF IndInv, TypeOK, MutexInv
<1>5. MainInv' /\ CombinedIsComplete'
    <2>1. CASE a = Main
        <3>1. mode # "shared" /\ \A g \in Fns : at[g] = "done"
            BY <2>1 DEF IndInv, MainInv
        <3>2. answer'[Main] = [count |-> Len(entries), listed |-> entries] /\ asking'[Main] = "idle"
            BY <1>1, <2>1 DEF IndInv, TypeOK
        <3> QED
            BY <3>1, <3>2 DEF MainInv, CombinedIsComplete
    <2>2. CASE a # Main
        BY <2>2 DEF IndInv, TypeOK, MainInv, CombinedIsComplete
    <2> QED
        BY <2>1, <2>2
<1>6. FloorInv'
    BY DEF IndInv, FloorInv
<1> QED
    BY <1>2, <1>3, <1>4, <1>5, <1>6, FunctionsUntouched DEF IndInv

LEMMA AskCountStep ==
    ASSUME IndInv, NEW a \in Askers, AskCount(a)
    PROVE  IndInv'
<1> USE DEF AskCount, adders
<1>1. Len(entries) \in Nat
    BY DEF IndInv, TypeOK
<1>2. TypeOK'
    <2>1. /\ counted' \in [Askers -> Nat]
          /\ asking' \in [Askers -> {"idle", "Len", "ErrorOrNil", "list"}]
        BY <1>1 DEF IndInv, TypeOK
    <2> QED
        BY <2>1 DEF IndInv, TypeOK
<1>3. MutexInv'
    BY DEF IndInv, TypeOK, MutexInv, Free
<1>4. MainInv' /\ CombinedIsComplete'
    BY DEF IndInv, TypeOK, MainInv, CombinedIsComplete
<1>5. FloorInv'
    BY DEF IndInv, FloorInv
<1>6. AnswersExact'
    BY DEF IndInv, TypeOK, AnswersExact
<1> QED
    BY <1>2, <1>3, <1>4, <1>5, <1>6, FunctionsUntouched DEF IndInv

LEMMA AskListStep ==
    ASSUME IndInv, NEW a \in Askers, AskList(a)
    PROVE  IndInv'
<1> USE DEF AskList, adders, Tell
<1>1. counted[a] = Len(entries) /\ mu = a
    BY DEF IndInv, MutexInv
<1>2. AnswersExact' /\ answer' \in [Askers -> [count : Int, listed : Seq(Errs)]]
    BY <1>1, ToldExactly
<1>3. TypeOK'
    <2>1. counted' \in [Askers -> Nat]
        BY DEF IndInv, TypeOK
    <2> QED
        BY <1>2, <2>1 DEF IndInv, TypeOK
<1>4. MutexInv'
    BY <1>1 DEF IndInv, TypeOK, MutexInv
<1>5. MainInv' /\ CombinedIsComplete'
    <2>1. CASE a = Main
        <3>1. mode # "shared" /\ \A g \in Fns : at[g] = "done"
            BY <2>1 DEF IndInv, MainInv
        <3>2. answer'[Main] = [count |-> Len(entries), listed |-> entries] /\ asking'[Main] = "idle"
            BY <1>1, <2>1 DEF IndInv, TypeOK
        <3> QED
            BY <3>1, <3>2 DEF MainInv, CombinedIsComplete
    <2>2. CASE a # Main
        BY <2>2 DEF IndInv, TypeOK, MainInv, CombinedIsComplete
    <2> QED
        BY <2>1, <2>2
<1>6. FloorInv'
    BY DEF IndInv, FloorInv
<1> QED
    BY <1>2, <1>3, <1>4, <1>5, <1>6, FunctionsUntouched DEF IndInv

LEMMA StutterStep == IndInv /\ UNCHANGED vars => IndInv'
<1> SUFFICES ASSUME IndInv, UNCHANGED vars PROVE IndInv'
    OBVIOUS
<1> USE DEF vars
<1>1. TypeOK' /\ MutexInv' /\ MainInv' /\ FloorInv' /\ CombinedIsComplete' /\ AnswersExact'
    BY DEF IndInv, TypeOK, MutexInv, MainInv, FloorInv, CombinedIsComplete, AnswersExact
<1> QED
    BY <1>1, FunctionsUntouched DEF IndInv

LEMMA NextIndInv == IndInv /\ [Next]_vars => IndInv'
<1> SUFFICES ASSUME IndInv, [Next]_vars PROVE IndInv'
    OBVIOUS
<1>1. ASSUME NEW g \in Fns, Run(g) PROVE IndInv'
    BY <1>1, StartStep, ReturnStep DEF Run
<1>2. ASSUME NEW g \in Fns, Add(g) PROVE IndInv'
    BY <1>2, AddLockStep, AddStoreStep, FinishStep DEF Add
<1>3. ASSUME NEW a \in Askers, Ask(a) \/ LenOf(a) PROVE IndInv'
    BY <1>3, AskNothingStep, AskCountStep, AskListStep, LenOfStep DEF Ask
<1>4. ASSUME NEW a \in Askers, NEW m \in {"Len", "ErrorOrNil"}, Call(a, m) PROVE IndInv'
    BY <1>4, CallStep
<1> QED
    BY <1>1, <1>2, <1>3, <1>4, StutterStep DEF Next

\* The invariant holds of every behaviour.
THEOREM Invariance == Spec => []IndInv
BY InitIndInv, NextIndInv, PTL DEF Spec

\* The state keeps its shape; the WaitGroup counter never goes negative,
\* which would panic.
THEOREM TypeCorrect == Spec => []TypeOK
<1>1. IndInv => TypeOK
    BY DEF IndInv
<1> QED
    BY <1>1, Invariance, PTL

\* However many goroutines add at the same time, the entries are exactly the
\* failures added.
THEOREM NoFailureLost == Spec => []NothingLost
<1>1. IndInv => NothingLost
    BY DEF IndInv
<1> QED
    BY <1>1, Invariance, PTL

\* Accumulate and ParAccumulate return once every function has, with the
\* failure of every one.
THEOREM CombinedComplete == Spec => []CombinedIsComplete
<1>1. IndInv => CombinedIsComplete
    BY DEF IndInv
<1> QED
    BY <1>1, Invariance, PTL

\* Accumulate keeps the order of its arguments.
THEOREM OrderKept == Spec => []SequentialOrder
<1>1. IndInv => SequentialOrder
    BY DEF IndInv
<1> QED
    BY <1>1, Invariance, PTL

\* What Len and ErrorOrNil say of an Accumulator that is being added to is
\* one consistent and current view of it.
THEOREM AnswersConsistent == Spec => []AnswersExact
<1>1. IndInv => AnswersExact
    BY DEF IndInv
<1> QED
    BY <1>1, Invariance, PTL

-----------------------------------------------------------------------------
(* Refinement *)

\* The functions that have not contributed yet, as CollectAll sees them.
Running == {g \in Fns : at[g] \notin {"added", "done"}}

LEMMA InitRefines == Init => Abstract!Init
BY DEF Init, Abstract!Init

LEMMA FunctionRefines ==
    ASSUME IndInv, NEW g \in Fns, Run(g) \/ Add(g)
    PROVE  Abstract!Next \/ UNCHANGED Abstract!vars
<1>0. at \in [Fns -> {"new", "running", "add", "append", "added", "done"}]
    BY DEF IndInv, TypeOK
<1>1. CASE Start(g) \/ AddLock(g) \/ Finish(g)
    <2>1. Running' = Running
        BY <1>0, <1>1 DEF Running, Start, AddLock, Finish
    <2> QED
        BY <1>1, <2>1 DEF Start, AddLock, Finish, askers, Running, Abstract!vars
<1>2. ASSUME NEW e \in Errs \cup {NoErr}, Return(g, e)
      PROVE  Abstract!Next \/ UNCHANGED Abstract!vars
    <2>1. CASE e = NoErr
        <3>1. g \in Running /\ Running' = Running \ {g}
            BY <1>0, <1>2, <2>1 DEF Running, Return
        <3>2. Abstract!Succeed(g)
            BY <3>1, <1>2 DEF Return, askers, Running, Abstract!Succeed
        <3> QED
            BY <3>2 DEF Abstract!Next
    <2>2. CASE e # NoErr
        <3>1. Running' = Running
            BY <1>0, <1>2, <2>2 DEF Running, Return
        <3> QED
            BY <1>2, <3>1 DEF Return, askers, Running, Abstract!vars
    <2> QED
        BY <2>1, <2>2
<1>3. CASE AddStore(g)
    <2>1. arg[g] \in Errs /\ entries' = Append(entries, arg[g]) /\ at[g] = "append"
        BY <1>3, Appended
    <2>2. g \in Running /\ Running' = Running \ {g}
        BY <1>0, <1>3, <2>1 DEF Running, AddStore
    <2>3. Abstract!Fail(g, arg[g])
        BY <1>3, <2>1, <2>2 DEF AddStore, askers, Running, Abstract!Fail
    <2>4. arg[g] \in Errs
        BY <2>1
    <2>5. \E e \in Errs : Abstract!Fail(g, e)
        BY <2>3, <2>4 DEF Abstract!Fail
    <2> QED
        BY <2>5 DEF Abstract!Next
<1> QED
    BY <1>1, <1>2, <1>3 DEF Run, Add

LEMMA AskerRefines ==
    ASSUME IndInv, NEW a \in Askers, NEW listed \in {entries, <<>>},
           answer' = [answer EXCEPT ![a] = [count |-> Len(entries), listed |-> listed]],
           asking[a] # "idle", UNCHANGED <<at, entries>>
    PROVE  Abstract!Next
<1>1. a = Main => Running = {}
    BY DEF IndInv, MainInv, Running
<1>2. Running' = Running
    BY DEF Running
<1>3. Abstract!Answer(a, listed)
    BY <1>1, <1>2 DEF Running, Abstract!Answer
<1> QED
    BY <1>3 DEF Abstract!Next

LEMMA NextRefines == IndInv /\ [Next]_vars => Abstract!Next \/ UNCHANGED Abstract!vars
<1> SUFFICES ASSUME IndInv, [Next]_vars
             PROVE  Abstract!Next \/ UNCHANGED Abstract!vars
    OBVIOUS
<1> USE DEF adders
<1>1. ASSUME NEW g \in Fns, Run(g) \/ Add(g)
      PROVE  Abstract!Next \/ UNCHANGED Abstract!vars
    BY <1>1, FunctionRefines
<1>2. ASSUME NEW a \in Askers, LenOf(a) PROVE Abstract!Next
    BY <1>2, AskerRefines DEF LenOf, Tell
<1>3. ASSUME NEW a \in Askers, AskNothing(a) PROVE Abstract!Next
    BY <1>3, AskerRefines, EmptySeq DEF AskNothing, Tell
<1>4. ASSUME NEW a \in Askers, AskList(a) PROVE Abstract!Next
    <2>1. counted[a] = Len(entries)
        BY <1>4 DEF IndInv, MutexInv, AskList
    <2> QED
        BY <1>4, <2>1, AskerRefines DEF AskList, Tell
<1>5. ASSUME NEW a \in Askers, AskCount(a) PROVE UNCHANGED Abstract!vars
    BY <1>5 DEF AskCount, Abstract!vars
<1>6. ASSUME NEW a \in Askers, NEW m \in {"Len", "ErrorOrNil"}, Call(a, m)
      PROVE  UNCHANGED Abstract!vars
    BY <1>6 DEF Call, Abstract!vars
<1>7. CASE UNCHANGED vars
    BY <1>7 DEF vars, Abstract!vars
<1> QED
    BY <1>1, <1>2, <1>3, <1>4, <1>5, <1>6, <1>7 DEF Next, Ask

\* The locks, the WaitGroup and the two-step appends implement collection in
\* atomic steps.
THEOREM Refinement == Spec => ImplementsCollectAll
<1>1. IndInv /\ [Next]_vars => [Abstract!Next]_(Abstract!vars)
    BY NextRefines
<1> QED
    BY <1>1, InitRefines, Invariance, PTL DEF Spec, ImplementsCollectAll, Abstract!Spec
=============================================================================
