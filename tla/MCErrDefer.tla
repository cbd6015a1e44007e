----------------------------- MODULE MCErrDefer -----------------------------
(* Instances of ErrDefer for TLC: sets of registration orders. *)
EXTENDS ErrDefer

\* Every order of up to four deferred calls.
AllOrders == BoundedSeq(Kinds, 4)

\* The order of README.md:192 with a Close, as in README.md:168.
RecoverThenClose == {<<"Recover", "Close">>}

\* No deferred calls at all.
NoDefers == {<<>>}
=============================================================================
