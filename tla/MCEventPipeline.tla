-------------------------- MODULE MCEventPipeline --------------------------
(* Two threads and a queue of two: five events overflow it, and saturate a *)
(* counter of two.                                                         *)
EXTENDS EventPipeline
=============================================================================
