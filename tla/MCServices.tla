----------------------------- MODULE MCServices -----------------------------
(* A service that names codes the old way and one that has renamed some. *)
EXTENDS Services

\* A chain, and a way to close a cycle.
MCRenamed == {<<"A", "B">>, <<"B", "C">>, <<"B", "A">>}

MCFinds == {[trace |-> "", fields |-> {[key |-> "request", safe |-> FALSE]}]}
=============================================================================
