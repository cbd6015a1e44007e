------------------------------- MODULE FanOut -------------------------------
(***************************************************************************)
(* What a Registry promises, with no lock, no slice and no copies: a list  *)
(* of sinks that only grows at its end; a report goes to the sinks that    *)
(* were registered at one instant during the call, to each once, in order. *)
(***************************************************************************)
EXTENDS Integers, Sequences

CONSTANTS Sinks, Reporters, Wired, NotYet

VARIABLES
    registered,  \* the sinks, in order of registration
    view,        \* those a report goes to, or NotYet
    calls        \* those it has gone to

vars == <<registered, view, calls>>

Init ==
    /\ registered = Wired
    /\ view = [p \in Reporters |-> NotYet]
    /\ calls = [p \in Reporters |-> <<>>]

Add(s) ==
    /\ registered' = Append(registered, s)
    /\ UNCHANGED <<view, calls>>

Take(p) ==
    /\ view[p] = NotYet
    /\ view' = [view EXCEPT ![p] = registered]
    /\ UNCHANGED <<registered, calls>>

Deliver(p) ==
    /\ view[p] # NotYet
    /\ Len(calls[p]) < Len(view[p])
    /\ calls' = [calls EXCEPT ![p] = Append(@, view[p][Len(@) + 1])]
    /\ UNCHANGED <<registered, view>>

Next ==
    \/ \E s \in Sinks : Add(s)
    \/ \E p \in Reporters : Take(p) \/ Deliver(p)

Spec == Init /\ [][Next]_vars
=============================================================================
