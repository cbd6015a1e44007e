------------------------------ MODULE Registry ------------------------------
(***************************************************************************)
(* The registry of sinks (report.go) under concurrent Report and Add.      *)
(*                                                                         *)
(* r.sinks is a Go slice: a header, which array and what length, in front  *)
(* of a backing array that other headers share.  Add appends in place when *)
(* the array has room and moves to a larger one when it has none.  Report  *)
(* copies the header under the read lock, releases it, and walks its copy, *)
(* while later Adds write to the array it walks.  The words of the header  *)
(* are read in two steps, and the read and the write of Add are two more,  *)
(* so that mutual exclusion is relied on, not assumed.  A sink may call    *)
(* Add from within its Emit.                                               *)
(*                                                                         *)
(* Snapshot comes first.  It asks the error for its fingerprint, which the *)
(* error caches in e.fp (fingerprint.go): a string, so two words, written  *)
(* with no lock.  Reports of one error value by two goroutines race there. *)
(*                                                                         *)
(* The rest of a Report is one value, handed to every sink as a pointer.   *)
(***************************************************************************)
EXTENDS Integers, Sequences, FiniteSets, SequencesExt

CONSTANTS
    Sinks,        \* the sinks there are
    Failing,      \* those whose Emit returns an error
    Registering,  \* those whose Emit registers another sink
    Sampled,      \* those wrapped in a SampledSink
    Wired,        \* the sinks registered at startup, a sequence
    Reporters,    \* goroutines, each calling Report once
    Adders,       \* goroutines, each calling Add once
    SinkOf,       \* what an adder, or a registering sink, adds
    ErrorOf,      \* the error each reporter reports, NoError if it has no *Error
    NoError, Empty, Nobody, NotYet,
    Growth,       \* the capacities append gives a slice
    MaxReentrant  \* bound: how many Adds sinks make

Errors == {ErrorOf[p] : p \in Reporters} \ {NoError}

Procs == Reporters \cup Adders

ASSUME KindAssumption ==
    /\ Failing \subseteq Sinks /\ Registering \subseteq Sinks /\ Sampled \subseteq Sinks
    /\ Wired \in Seq(Sinks)
    /\ SinkOf \in [Adders \cup Registering -> Sinks]
    /\ Reporters \cap Adders = {}
    /\ Empty \notin Sinks /\ Nobody \notin Procs /\ NotYet \notin Seq(Sinks)
    /\ IsFiniteSet(Procs)

\* The capacity append gives a slice of n elements that needs room for more.
IsCapFor(c, n) == c >= n /\ \A d \in Growth : d >= n => c <= d

ASSUME GrowthAssumption ==
    /\ Growth \subseteq Nat /\ MaxReentrant \in Nat
    /\ \A n \in 0 .. Len(Wired) + Cardinality(Adders) + MaxReentrant : \E c \in Growth : IsCapFor(c, n)

VARIABLES
    arrays,    \* backing arrays, each a sequence as long as its capacity
    sinks,     \* Registry.sinks: [arr, len]
    writer,    \* who holds Registry.mu for writing
    waiting,   \* who waits for that; they hold new readers back
    readers,   \* who holds it for reading
    fp,        \* Error.fp: which of its two words are written
    pc,        \* where each goroutine is
    base,      \* the header an Add found
    view,      \* the header a Report copied
    i,         \* the sink of it that comes next
    report,    \* the Report: a whole fingerprint, a field of a sampled sink
    calls,     \* the sinks it was given to, and with which Report
    told,      \* the sinks OnSinkError was called for
    reentrant, \* Adds made by sinks
    before     \* history: how many sinks there were when Report was called

lock == <<writer, waiting, readers>>
reporting == <<view, i, report, calls, told, before>>
vars == <<arrays, sinks, writer, waiting, readers, fp, pc, base, view, i, report, calls, told,
          reentrant, before>>

-----------------------------------------------------------------------------
(* Slices *)

CapFor(n) == CHOOSE c \in Growth : IsCapFor(c, n)

Array(s, cap) == [k \in 1 .. cap |-> IF k <= Len(s) THEN s[k] ELSE Empty]

Contents(h) == SubSeq(arrays[h.arr], 1, h.len)

Init ==
    /\ arrays = <<Array(Wired, CapFor(Len(Wired)))>>
    /\ sinks = [arr |-> 1, len |-> Len(Wired)]
    /\ writer = Nobody /\ waiting = {} /\ readers = {}
    /\ fp \in [Errors -> {{}, {"ptr", "len"}}]  \* fingerprinted before, or not
    /\ pc = [p \in Procs |-> IF p \in Adders THEN "add" ELSE "report"]
    /\ base = [p \in Procs |-> [arr |-> 1, len |-> 0]]
    /\ view = [p \in Reporters |-> [arr |-> 1, len |-> 0]]
    /\ i = [p \in Reporters |-> 1]
    /\ report = [p \in Reporters |-> [fp |-> {}, extra |-> FALSE]]
    /\ calls = [p \in Reporters |-> <<>>]
    /\ told = [p \in Reporters |-> <<>>]
    /\ reentrant = 0
    /\ before = [p \in Reporters |-> 0]

-----------------------------------------------------------------------------
(* Add *)

\* r.mu.Lock(): a waiting writer holds back new readers ...
AddAsks(p) ==
    /\ pc[p] = "add"
    /\ waiting' = waiting \cup {p}
    /\ pc' = [pc EXCEPT ![p] = "lock"]
    /\ UNCHANGED <<arrays, sinks, writer, readers, fp, base, reporting, reentrant>>

FreeToWriteNoMutex == TRUE

FreeToWrite == writer = Nobody /\ readers = {}

\* ... and gets the lock when those that are there have left.
AddLocks(p) ==
    /\ pc[p] = "lock"
    /\ FreeToWrite
    /\ writer' = p
    /\ waiting' = waiting \ {p}
    /\ base' = [base EXCEPT ![p] = sinks]
    /\ pc' = [pc EXCEPT ![p] = "append"]
    /\ UNCHANGED <<arrays, sinks, readers, fp, reporting, reentrant>>

NewSink(p) == IF p \in Adders THEN SinkOf[p] ELSE SinkOf[Contents(view[p])[i[p]]]

InPlaceShort(h, s) == [arrays EXCEPT ![h.arr][h.len] = s]

InPlace(h, s) == [arrays EXCEPT ![h.arr][h.len + 1] = s]

\* append in place when there is room, else in a larger array, and r.mu.Unlock().
AddStores(p) ==
    LET h == base[p]
        s == NewSink(p)
    IN  /\ pc[p] = "append"
        /\ IF h.len < Len(arrays[h.arr])
           THEN /\ arrays' = InPlace(h, s)
                /\ sinks' = [arr |-> h.arr, len |-> h.len + 1]
           ELSE /\ arrays' = Append(arrays, Array(Append(Contents(h), s), CapFor(h.len + 1)))
                /\ sinks' = [arr |-> Len(arrays) + 1, len |-> h.len + 1]
        /\ writer' = Nobody
        /\ pc' = [pc EXCEPT ![p] = IF p \in Adders THEN "done" ELSE "emitted"]
        /\ UNCHANGED <<waiting, readers, fp, base, reporting, reentrant>>

-----------------------------------------------------------------------------
(* Report: Snapshot *)

ReportNothing(p) ==
    /\ pc[p] = "report"
    /\ ErrorOf[p] = NoError
    /\ pc' = [pc EXCEPT ![p] = "done"]
    /\ UNCHANGED <<arrays, sinks, lock, fp, base, reporting, reentrant>>

\* e.fp != "" looks at the length alone; what is returned is both words.
FpCached(p) ==
    /\ pc[p] = "report"
    /\ ErrorOf[p] # NoError
    /\ "len" \in fp[ErrorOf[p]]
    /\ report' = [report EXCEPT ![p].fp = fp[ErrorOf[p]]]
    /\ before' = [before EXCEPT ![p] = sinks.len]
    /\ pc' = [pc EXCEPT ![p] = "rlock"]
    /\ UNCHANGED <<arrays, sinks, lock, fp, base, view, i, calls, told, reentrant>>

FpComputed(p) ==
    /\ pc[p] = "report"
    /\ ErrorOf[p] # NoError
    /\ "len" \notin fp[ErrorOf[p]]
    /\ before' = [before EXCEPT ![p] = sinks.len]
    /\ pc' = [pc EXCEPT ![p] = "store"]
    /\ UNCHANGED <<arrays, sinks, lock, fp, base, view, i, report, calls, told, reentrant>>

\* e.fp = ... writes one word, then the other; which first is the compiler's.
FpStores(p, word) ==
    /\ pc[p] = "store"
    /\ fp' = [fp EXCEPT ![ErrorOf[p]] = @ \cup {word}]
    /\ pc' = [pc EXCEPT ![p] = "stored"]
    /\ UNCHANGED <<arrays, sinks, lock, base, reporting, reentrant>>

FpStored(p) ==
    /\ pc[p] = "stored"
    /\ fp' = [fp EXCEPT ![ErrorOf[p]] = {"ptr", "len"}]
    /\ report' = [report EXCEPT ![p].fp = {"ptr", "len"}]
    /\ pc' = [pc EXCEPT ![p] = "rlock"]
    /\ UNCHANGED <<arrays, sinks, lock, base, view, i, calls, told, before, reentrant>>

-----------------------------------------------------------------------------
(* Report: the sinks *)

FreeToReadNoMutex == TRUE

FreeToRead == writer = Nobody /\ waiting = {}

\* r.mu.RLock() and the first word of the header ...
ReadHeader(p) ==
    /\ pc[p] = "rlock"
    /\ FreeToRead
    /\ readers' = readers \cup {p}
    /\ view' = [view EXCEPT ![p].arr = sinks.arr]
    /\ pc' = [pc EXCEPT ![p] = "reading"]
    /\ UNCHANGED <<arrays, sinks, writer, waiting, fp, base, i, report, calls, told, before, reentrant>>

RUnlockDeferred(p) == readers

RUnlock(p) == readers \ {p}

\* ... the other, and r.mu.RUnlock().
ReadLength(p) ==
    /\ pc[p] = "reading"
    /\ readers' = RUnlock(p)
    /\ view' = [view EXCEPT ![p].len = sinks.len]
    /\ pc' = [pc EXCEPT ![p] = "loop"]
    /\ UNCHANGED <<arrays, sinks, writer, waiting, fp, base, i, report, calls, told, before, reentrant>>

This(p) == arrays[view[p].arr][i[p]]

MoreAfterFailureNone(p) == i[p] <= view[p].len /\ told[p] = <<>>

More(p) == i[p] <= view[p].len

AfterSamplingInPlace(r) == [r EXCEPT !.extra = TRUE]

\* SampledSink.Emit adds its field to a copy of the report.
AfterSampling(r) == r

\* s.Emit(ctx, &rep) runs and returns, or calls Add first.
Emit(p) ==
    /\ pc[p] = "loop"
    /\ More(p)
    /\ calls' = [calls EXCEPT ![p] = Append(@, [sink |-> This(p), report |-> report[p]])]
    /\ report' = IF This(p) \in Sampled THEN [report EXCEPT ![p] = AfterSampling(@)] ELSE report
    /\ \/ /\ pc' = [pc EXCEPT ![p] = "emitted"]
          /\ UNCHANGED reentrant
       \/ /\ This(p) \in Registering
          /\ reentrant < MaxReentrant
          /\ reentrant' = reentrant + 1
          /\ pc' = [pc EXCEPT ![p] = "add"]
    /\ UNCHANGED <<arrays, sinks, lock, fp, base, view, i, told, before>>

Told(p) == Append(told[p], This(p))

\* OnSinkError, if it failed, and the next one.  (With no hook, nobody is told.)
Continue(p) ==
    /\ pc[p] = "emitted"
    /\ told' = IF This(p) \in Failing THEN [told EXCEPT ![p] = Told(p)] ELSE told
    /\ i' = [i EXCEPT ![p] = @ + 1]
    /\ pc' = [pc EXCEPT ![p] = "loop"]
    /\ UNCHANGED <<arrays, sinks, lock, fp, base, view, report, calls, before, reentrant>>

ReportDone(p) ==
    /\ pc[p] = "loop"
    /\ ~More(p)
    /\ pc' = [pc EXCEPT ![p] = "done"]
    /\ UNCHANGED <<arrays, sinks, lock, fp, base, reporting, reentrant>>

-----------------------------------------------------------------------------

Add(p) == AddAsks(p) \/ AddLocks(p) \/ AddStores(p)

Snapshot(p) ==
    \/ ReportNothing(p) \/ FpCached(p) \/ FpComputed(p) \/ FpStored(p)
    \/ \E word \in {"ptr", "len"} : FpStores(p, word)

Report(p) ==
    \/ Snapshot(p) \/ ReadHeader(p) \/ ReadLength(p)
    \/ Emit(p) \/ Continue(p) \/ ReportDone(p)

Next ==
    \/ \E p \in Procs : Add(p)
    \/ \E p \in Reporters : Report(p)

Spec == Init /\ [][Next]_vars

\* Goroutines are scheduled and Emit returns.  Every goroutine makes one call
\* and sinks a bounded number, so a lock that is free recurrently is in the
\* end free for good: weak fairness is enough.
FairSpec ==
    /\ Spec
    /\ \A p \in Procs : WF_vars(Add(p))
    /\ \A p \in Reporters : WF_vars(Report(p))

-----------------------------------------------------------------------------
(* Properties *)

Header == [arr : 1 .. Len(arrays), len : Nat]

\* The shape of the state: headers stay within their arrays.
TypeOK ==
    /\ \A k \in DOMAIN arrays : arrays[k] \in Seq(Sinks \cup {Empty})
    /\ sinks \in Header /\ sinks.len <= Len(arrays[sinks.arr])
    /\ writer \in Procs \cup {Nobody} /\ waiting \subseteq Procs /\ readers \subseteq Reporters
    /\ fp \in [Errors -> SUBSET {"ptr", "len"}]
    /\ DOMAIN pc = Procs
    /\ base \in [Procs -> Header]
    /\ view \in [Reporters -> Header]
    /\ \A p \in Reporters : view[p].len <= Len(arrays[view[p].arr])
    /\ i \in [Reporters -> Nat]
    /\ told \in [Reporters -> Seq(Sinks)]
    /\ reentrant \in 0 .. MaxReentrant

\* While a report walks its copy of the header, Adds write to the array the
\* copy shares, but never to the part of it the copy covers.
ViewsStable ==
    [][\A p \in Reporters : view'[p] = view[p] => Contents(view[p])' = Contents(view[p])]_vars

Given(p) == [k \in DOMAIN calls[p] |-> calls[p][k].sink]

\* Which of the first n sinks given the report failed.
Failed(p, n) == {k \in 1 .. n : Given(p)[k] \in Failing}

\* When Report returns, every sink registered before the call was given the
\* report once, in order of registration, as Snapshot made it, whatever other
\* sinks failed, registered more, or added to their copies; and OnSinkError was
\* called once for each sink that failed, in the same order.
ReportReachesAll ==
    \A p \in Reporters : pc[p] = "done" /\ ErrorOf[p] # NoError =>
        /\ Len(calls[p]) >= before[p]
        /\ IsPrefix(Given(p), Contents(sinks))
        /\ \A k \in DOMAIN calls[p] : ~calls[p][k].report.extra
        /\ Len(told[p]) = Cardinality(Failed(p, Len(calls[p])))
        /\ \A k \in Failed(p, Len(calls[p])) : told[p][Cardinality(Failed(p, k))] = Given(p)[k]

\* It all implements an append-only list and reports that see one state of it.
Abstract == INSTANCE FanOut WITH
    registered <- Contents(sinks),
    view <- [p \in Reporters |->
        IF ErrorOf[p] = NoError \/ pc[p] \in {"report", "store", "stored", "rlock", "reading"}
        THEN NotYet ELSE Contents(view[p])],
    calls <- [p \in Reporters |-> Given(p)]
ImplementsFanOut == Abstract!Spec

\* Every Report and every Add returns, also when sinks call Add from Emit.
CallsReturn == \A p \in Procs : <>(pc[p] = "done")

-----------------------------------------------------------------------------
(* What the documentation says and the code does not do *)

\* report.go:116, "Safe for concurrent use": sinks are given a whole
\* fingerprint, whoever else reports the same error.
FingerprintWhole ==
    \A p \in Reporters : \A k \in DOMAIN calls[p] : calls[p][k].report.fp = {"ptr", "len"}
=============================================================================
