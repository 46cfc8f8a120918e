---------------------------- MODULE MCBulkRetry ----------------------------
(* Lists of up to five ids, one with a repeated id, and every kind of max: *)
(* negative, zero, below and above the cap of four, the least with which   *)
(* an attempt follows a timeout, a failure and another timeout.            *)
EXTENDS BulkRetry
CONSTANTS a, b, c, d, e

MCRequests ==
  {[ids |-> s, max |-> m] : s \in {<<a, b, c, d, e>>, <<a, b, a>>}, m \in {-1, 0, 2, 10}}
    \union {[ids |-> <<>>, max |-> 10]}
MCAttempts == 1..5

(* For the hard ceiling: a list longer than the cap and a negative max. *)
NegativeMax == {[ids |-> <<a, b, c, d>>, max |-> -1]}
=============================================================================
