---------------------------- MODULE MCForkSafety ----------------------------
(* The loop thread and one reader of the counter, two callers of offload, a *)
(* process and a child of it.                                              *)
EXTENDS ForkSafety
=============================================================================
