--------------------------- MODULE MCRegistryWatch ---------------------------
(* A task that either of two files may declare, four saves, and            *)
(* a queue that two deltas fill.                                           *)
EXTENDS RegistryWatch
=============================================================================
