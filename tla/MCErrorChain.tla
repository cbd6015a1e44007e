---------------------------- MODULE MCErrorChain ----------------------------
(* Instances of ErrorChain small enough for TLC. *)
EXTENDS ErrorChain

SomeIdentities ==
    {[code |-> NoCode, class |-> "expected", retry |-> FALSE],
     [code |-> "A", class |-> "defect", retry |-> TRUE]}
=============================================================================
