---------------------------- MODULE RateLimiter ----------------------------
(***************************************************************************)
(* What SampledSink promises, with no goroutines, locks or calls: for each *)
(* fingerprint a succession of windows, at least Window apart, each        *)
(* letting up to Burst reports through and counting the ones it drops.     *)
(***************************************************************************)
EXTENDS Integers

CONSTANTS Fps, Window, Burst, NoBucket, MaxClock

VARIABLES
    now,       \* the clock
    window     \* per fingerprint, the last window, or NoBucket

vars == <<now, window>>

Init ==
    /\ now = 0
    /\ window = [f \in Fps |-> NoBucket]

Tick ==
    /\ now < MaxClock
    /\ now' = now + 1
    /\ UNCHANGED window

\* A window may open late, never early: at is not in the future, and is a
\* whole Window after the previous opening.
Open(f, at) ==
    /\ at <= now
    /\ window[f] # NoBucket => at - window[f].start >= Window
    /\ window' = [window EXCEPT ![f] = [start |-> at, count |-> 1, dropped |-> 0]]
    /\ UNCHANGED now

Admit(f) ==
    /\ window[f] # NoBucket
    /\ window[f].count < Burst
    /\ window' = [window EXCEPT ![f].count = @ + 1]
    /\ UNCHANGED now

Drop(f) ==
    /\ window[f] # NoBucket
    /\ window[f].count = Burst
    /\ window' = [window EXCEPT ![f].dropped = @ + 1]
    /\ UNCHANGED now

Next ==
    \/ Tick
    \/ \E f \in Fps :
        \/ \E at \in 0 .. MaxClock : Open(f, at)
        \/ Admit(f)
        \/ Drop(f)

Spec == Init /\ [][Next]_vars
=============================================================================
