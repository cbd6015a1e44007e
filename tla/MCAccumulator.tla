--------------------------- MODULE MCAccumulator ---------------------------
(* Three functions, one reader, two failures that functions may share. *)
EXTENDS Accumulator
=============================================================================
