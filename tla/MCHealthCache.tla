---------------------------- MODULE MCHealthCache ----------------------------
(* Three heartbeats at once, and time for three refreshes one after the    *)
(* other.  The heartbeats are interchangeable, and only invariants are     *)
(* checked.                                                                *)
EXTENDS HealthCache, TLC

AnyOrder == Permutations(Beats)
=============================================================================
