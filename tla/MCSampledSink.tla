--------------------------- MODULE MCSampledSink ---------------------------
(* SampledSink with the small constants of MCSampledSink.cfg. *)
EXTENDS SampledSink
=============================================================================
