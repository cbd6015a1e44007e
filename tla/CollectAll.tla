----------------------------- MODULE CollectAll -----------------------------
(***************************************************************************)
(* What fail-soft collection promises, with no locks, goroutines or        *)
(* counters: every function contributes its failure exactly once, at one   *)
(* instant; an answer is everything collected at one instant; and the      *)
(* combined answer is given when no function is running any more.          *)
(***************************************************************************)
EXTENDS Integers, Sequences

CONSTANTS Fns, Askers, Combiner, Errs, NoAnswer

VARIABLES
    running,    \* functions that have not contributed yet
    collected,  \* the failures so far
    answer      \* what each asker was told last

vars == <<running, collected, answer>>

Init ==
    /\ running = Fns
    /\ collected = <<>>
    /\ answer = [a \in Askers |-> NoAnswer]

Fail(f, e) ==
    /\ f \in running
    /\ running' = running \ {f}
    /\ collected' = Append(collected, e)
    /\ UNCHANGED answer

Succeed(f) ==
    /\ f \in running
    /\ running' = running \ {f}
    /\ UNCHANGED <<collected, answer>>

Answer(a, listed) ==
    /\ a = Combiner => running = {}
    /\ answer' = [answer EXCEPT ![a] = [count |-> Len(collected), listed |-> listed]]
    /\ UNCHANGED <<running, collected>>

Next ==
    \/ \E f \in Fns : Succeed(f) \/ \E e \in Errs : Fail(f, e)
    \/ \E a \in Askers : Answer(a, collected) \/ Answer(a, <<>>)

Spec == Init /\ [][Next]_vars
=============================================================================
