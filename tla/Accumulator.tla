---------------------------- MODULE Accumulator ----------------------------
(***************************************************************************)
(* The error accumulator (accumulate.go) in the three ways it is used:     *)
(*   "Accumulate"     one goroutine runs the functions in turn, then       *)
(*                    combines;                                            *)
(*   "ParAccumulate"  a goroutine per function, a WaitGroup, then combine; *)
(*   "shared"         goroutines of the caller add to an Accumulator while *)
(*                    others call Len and ErrorOrNil on it, at any time.   *)
(* a.mu.Lock() with the read of a.entries is one step and the write with   *)
(* the unlock another, so mutual exclusion is relied on, not assumed.      *)
(* Field paths and messages are left out; a failure is a member of Errs.   *)
(* slot and floor are history variables.                                   *)
(***************************************************************************)
EXTENDS Integers, Sequences, FiniteSets

CONSTANTS
    N,         \* how many functions, or adding goroutines
    R,         \* how many goroutines read a shared Accumulator
    Errs,      \* the failures functions return
    NoErr      \* a nil error

ASSUME SizeAssumption == N \in Nat /\ R \in Nat

ASSUME NoErrAssumption == NoErr \notin Errs

Main == 0                       \* the caller of Accumulate and ParAccumulate
Fns == 1 .. N
Readers == N + 1 .. N + R
Askers == {Main} \cup Readers   \* those that call ErrorOrNil
Nobody == -1

NoAnswer == [count |-> -1, listed |-> <<>>]

VARIABLES
    mode,      \* which use of the three
    mu,        \* who holds Accumulator.mu
    entries,   \* Accumulator.entries
    at,        \* where each function's goroutine is
    arg,       \* what its function returned
    seen,      \* the entries it appends to
    wg,        \* the WaitGroup's counter
    asking,    \* where each asker is in ErrorOrNil
    counted,   \* the length it saw
    answer,    \* what it was told last
    slot,      \* where in entries a function's failure went, 0 before
    floor      \* how many entries there were when the asker made its call

adders == <<at, arg, seen, wg, slot>>
askers == <<asking, counted, answer, floor>>
vars == <<mode, mu, entries, at, arg, seen, wg, asking, counted, answer, slot, floor>>

WgStartLessOne(m) == IF m = "ParAccumulate" THEN N - 1 ELSE 0

\* wg.Add(len(fns)), before the first goroutine starts.
WgStart(m) == IF m = "ParAccumulate" THEN N ELSE 0

Init ==
    /\ mode \in {"Accumulate", "ParAccumulate", "shared"}
    /\ mu = Nobody
    /\ entries = <<>>
    /\ at = [g \in Fns |-> "new"]
    /\ arg = [g \in Fns |-> NoErr]
    /\ seen = [g \in Fns |-> <<>>]
    /\ wg = WgStart(mode)
    /\ asking = [a \in Askers |-> "idle"]
    /\ counted = [a \in Askers |-> 0]
    /\ answer = [a \in Askers |-> NoAnswer]
    /\ slot = [g \in Fns |-> 0]
    /\ floor = [a \in Askers |-> 0]

FreeNoMutex == TRUE

Free == mu = Nobody

-----------------------------------------------------------------------------
(* The functions *)

TurnWithoutWaiting(g) == TRUE

\* The loop starts them in order; Accumulate waits for each before the next.
Turn(g) ==
    CASE mode = "Accumulate"    -> \A h \in Fns : h < g => at[h] = "done"
      [] mode = "ParAccumulate" -> \A h \in Fns : h < g => at[h] # "new"
      [] OTHER                  -> TRUE

Start(g) ==
    /\ at[g] = "new"
    /\ Turn(g)
    /\ at' = [at EXCEPT ![g] = "running"]
    /\ UNCHANGED <<mode, mu, entries, arg, seen, wg, slot, askers>>

\* The function returns; Add of a nil error returns at once.
Return(g, e) ==
    /\ at[g] = "running"
    /\ arg' = [arg EXCEPT ![g] = e]
    /\ at' = [at EXCEPT ![g] = IF e = NoErr THEN "added" ELSE "add"]
    /\ UNCHANGED <<mode, mu, entries, seen, wg, slot, askers>>

AddLock(g) ==
    /\ at[g] = "add"
    /\ Free
    /\ mu' = g
    /\ seen' = [seen EXCEPT ![g] = entries]
    /\ at' = [at EXCEPT ![g] = "append"]
    /\ UNCHANGED <<mode, entries, arg, wg, slot, askers>>

AppendEntry(s, e) == Append(s, e)

AddStore(g) ==
    /\ at[g] = "append"
    /\ entries' = AppendEntry(seen[g], arg[g])
    /\ mu' = Nobody
    /\ slot' = [slot EXCEPT ![g] = Len(seen[g]) + 1]
    /\ seen' = [seen EXCEPT ![g] = <<>>]
    /\ at' = [at EXCEPT ![g] = "added"]
    /\ UNCHANGED <<mode, arg, wg, askers>>

WgDoneOnFailure(g) == IF mode = "ParAccumulate" /\ arg[g] # NoErr THEN wg - 1 ELSE wg

WgDone(g) == IF mode = "ParAccumulate" THEN wg - 1 ELSE wg

\* Back in the loop, or the deferred wg.Done of the goroutine.
Finish(g) ==
    /\ at[g] = "added"
    /\ at' = [at EXCEPT ![g] = "done"]
    /\ wg' = WgDone(g)
    /\ UNCHANGED <<mode, mu, entries, arg, seen, slot, askers>>

-----------------------------------------------------------------------------
(* Len and ErrorOrNil *)

WaitOverAtOne == wg <= 1

\* wg.Wait() returns.
WaitOver == wg = 0

MayAsk(a) ==
    CASE mode = "Accumulate"    -> a = Main /\ \A g \in Fns : at[g] = "done"
      [] mode = "ParAccumulate" -> a = Main /\ WaitOver
      [] OTHER                  -> a # Main

Call(a, method) ==
    /\ asking[a] = "idle"
    /\ MayAsk(a)
    /\ a = Main => answer[a] = NoAnswer /\ method = "ErrorOrNil"
    /\ asking' = [asking EXCEPT ![a] = method]
    /\ floor' = [floor EXCEPT ![a] = Len(entries)]
    /\ UNCHANGED <<mode, mu, entries, adders, counted, answer>>

Tell(a, count, listed) == answer' = [answer EXCEPT ![a] = [count |-> count, listed |-> listed]]

LenOf(a) ==
    /\ asking[a] = "Len"
    /\ Free
    /\ Tell(a, Len(entries), <<>>)
    /\ asking' = [asking EXCEPT ![a] = "idle"]
    /\ UNCHANGED <<mode, mu, entries, adders, counted, floor>>

\* Nothing collected: ErrorOrNil is nil.
AskNothing(a) ==
    /\ asking[a] = "ErrorOrNil"
    /\ Free
    /\ entries = <<>>
    /\ Tell(a, 0, <<>>)
    /\ asking' = [asking EXCEPT ![a] = "idle"]
    /\ UNCHANGED <<mode, mu, entries, adders, counted, floor>>

\* The message counts the entries ...
AskCount(a) ==
    /\ asking[a] = "ErrorOrNil"
    /\ Free
    /\ entries # <<>>
    /\ mu' = a
    /\ counted' = [counted EXCEPT ![a] = Len(entries)]
    /\ asking' = [asking EXCEPT ![a] = "list"]
    /\ UNCHANGED <<mode, entries, adders, answer, floor>>

\* ... and the loop lists them.
AskList(a) ==
    /\ asking[a] = "list"
    /\ Tell(a, counted[a], entries)
    /\ counted' = [counted EXCEPT ![a] = 0]
    /\ mu' = Nobody
    /\ asking' = [asking EXCEPT ![a] = "idle"]
    /\ UNCHANGED <<mode, entries, adders, floor>>

-----------------------------------------------------------------------------

Add(g) == AddLock(g) \/ AddStore(g) \/ Finish(g)

Run(g) == Start(g) \/ \E e \in Errs \cup {NoErr} : Return(g, e)

Ask(a) == AskNothing(a) \/ AskCount(a) \/ AskList(a)

Next ==
    \/ \E g \in Fns : Run(g) \/ Add(g)
    \/ \E a \in Askers : Ask(a) \/ LenOf(a) \/ \E m \in {"Len", "ErrorOrNil"} : Call(a, m)

Spec == Init /\ [][Next]_vars

\* Goroutines are scheduled and functions return.  sync.Mutex hands itself to
\* a goroutine that has waited for long, so one whose turn recurs gets it.
Fairness ==
    /\ \A g \in Fns : WF_vars(Run(g)) /\ SF_vars(Add(g))
    /\ \A a \in Askers : SF_vars(Ask(a) \/ LenOf(a))
    /\ WF_vars(Call(Main, "ErrorOrNil"))

FairSpec == Spec /\ Fairness

-----------------------------------------------------------------------------
(* Properties *)

\* The shape of the state; a negative WaitGroup counter panics.
TypeOK ==
    /\ mode \in {"Accumulate", "ParAccumulate", "shared"}
    /\ mu \in Fns \cup Askers \cup {Nobody}
    /\ entries \in Seq(Errs)
    /\ at \in [Fns -> {"new", "running", "add", "append", "added", "done"}]
    /\ arg \in [Fns -> Errs \cup {NoErr}]
    /\ seen \in [Fns -> Seq(Errs)]
    /\ wg \in Int /\ wg >= 0
    /\ asking \in [Askers -> {"idle", "Len", "ErrorOrNil", "list"}]
    /\ counted \in [Askers -> Nat]
    /\ answer \in [Askers -> [count : Int, listed : Seq(Errs)]]
    /\ slot \in [Fns -> Nat]
    /\ floor \in [Askers -> Nat]

Added(g) == at[g] \in {"added", "done"} /\ arg[g] # NoErr

\* Whatever goroutines add at the same time, the entries are exactly the
\* failures added: each is in a place of its own, and there are no others.
NothingLost ==
    /\ \A g \in Fns : Added(g) => slot[g] \in DOMAIN entries /\ entries[slot[g]] = arg[g]
    /\ \A g, h \in Fns : Added(g) /\ Added(h) /\ slot[g] = slot[h] => g = h
    /\ \A i \in DOMAIN entries : \E g \in Fns : Added(g) /\ slot[g] = i

\* Accumulate and ParAccumulate return when every function has, and what they
\* return lists the failure of every one of them.
CombinedIsComplete ==
    answer[Main] # NoAnswer =>
        /\ \A g \in Fns : at[g] = "done"
        /\ answer[Main] = [count |-> Len(entries), listed |-> entries]

\* Accumulate lists the failures in the order of its arguments.
SequentialOrder ==
    mode = "Accumulate" =>
        \A g, h \in Fns : Added(g) /\ Added(h) /\ g < h => slot[g] < slot[h]

\* An answer given while others add is one consistent view: the count in the
\* message is that of the list, the list is what was there at one instant,
\* and everything added before the call is in it.
AnswersExact ==
    \A a \in Askers :
        answer[a] # NoAnswer /\ asking[a] = "idle" =>
            /\ answer[a].count \in floor[a] .. Len(entries)
            /\ answer[a].listed # <<>> =>
                answer[a].listed = SubSeq(entries, 1, answer[a].count)

\* All of it implements collection in atomic steps.
Abstract == INSTANCE CollectAll WITH
    Combiner <- Main,
    running <- {g \in Fns : at[g] \notin {"added", "done"}},
    collected <- entries
ImplementsCollectAll == Abstract!Spec

\* Every Add returns, also while readers keep asking, and so do Accumulate and
\* ParAccumulate, also when functions succeed.
CallsReturn ==
    <>((\A g \in Fns : at[g] = "done") /\ (mode # "shared" => answer[Main] # NoAnswer))

-----------------------------------------------------------------------------
(* The inductive invariant behind the safety properties. *)

\* The holder of the mutex is inside its critical section, and what it read
\* there is still so.
MutexInv ==
    /\ \A g \in Fns : (at[g] = "append" <=> mu = g) /\ (at[g] = "append" => seen[g] = entries)
    /\ \A a \in Askers : (asking[a] = "list" <=> mu = a) /\ (asking[a] = "list" => counted[a] = Len(entries))

\* A goroutine that asks for the mutex has a failure to add.
ArgInv ==
    \A g \in Fns :
        /\ at[g] \in {"new", "running"} => arg[g] = NoErr
        /\ at[g] \in {"add", "append"} => arg[g] # NoErr

Unfinished == {g \in Fns : at[g] # "done"}

\* The WaitGroup counts the goroutines that have not finished.
WaitInv == wg = IF mode = "ParAccumulate" THEN Cardinality(Unfinished) ELSE 0

\* Main asks when every function has returned, and asks for the error.
MainInv ==
    /\ asking[Main] # "Len"
    /\ asking[Main] # "idle" \/ answer[Main] # NoAnswer =>
        mode # "shared" /\ \A g \in Fns : at[g] = "done"

\* Entries are never taken back.
FloorInv == \A a \in Askers : floor[a] <= Len(entries)

\* In Accumulate a function starts when those before it have finished.
TurnInv ==
    mode = "Accumulate" => \A g, h \in Fns : h < g /\ at[g] # "new" => at[h] = "done"

IndInv ==
    /\ TypeOK /\ MutexInv /\ ArgInv /\ WaitInv /\ MainInv /\ FloorInv /\ TurnInv
    /\ NothingLost /\ CombinedIsComplete /\ SequentialOrder /\ AnswersExact
=============================================================================
