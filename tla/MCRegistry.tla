----------------------------- MODULE MCRegistry -----------------------------
(* Three wired sinks in an array for four: one Add fits, the next moves. *)
EXTENDS Registry

CONSTANTS hot, registrar, faulty, late, extra, r1, r2, r3, a1, e1, e2, noError

ThreeWired == <<hot, registrar, faulty>>

SinksAdded == a1 :> extra @@ registrar :> late

OwnErrors == r1 :> e1 @@ r2 :> e2 @@ r3 :> noError

SharedError == r1 :> e1 @@ r2 :> e1 @@ r3 :> noError
=============================================================================
