------------------------------- MODULE Results -------------------------------
(***************************************************************************)
(* Package result.  A Result is its error here: Nil is a success, and the  *)
(* value of a success is left out.  An error variable can hold a typed nil *)
(* too, which a Result takes for a failure.  A function that is passed to  *)
(* a combinator is represented by what a call of it results in and leaves  *)
(* of the heap; where the combinator does not call it, that is dropped.    *)
(***************************************************************************)
EXTENDS ErrorValues

IsErr(r) == r # Nil

\* Map is the same with a function that cannot fail.
AndThen(res, called) == IF IsErr(res.val) THEN res ELSE called

MapErr(res, called) == IF IsErr(res.val) THEN called ELSE res

\* A failure becomes a success; Recover is the name in the code.
RecoverResult(res) == [res EXCEPT !.val = Nil]

\* The first error of results that are all there already.
Collect(rs) == FirstThat(rs, IsErr, Nil)
=============================================================================
