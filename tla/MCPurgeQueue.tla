---------------------------- MODULE MCPurgeQueue ----------------------------
(* A queue of up to three messages, a threshold of two, and commands       *)
(* with no token, with tokens for this or another queue, for a depth in    *)
(* and one beyond the threshold, keyed or not, and with force.             *)
EXTENDS PurgeQueue
CONSTANTS q1, q2

Token == [queue : {q1, q2}, depth : 2..3, keyed : BOOLEAN]

MCRequests ==
  {[queue |-> q1, token |-> t, force |-> FALSE] : t \in Token \union {NoToken}}
    \union {[queue |-> q1, token |-> NoToken, force |-> TRUE]}
=============================================================================
