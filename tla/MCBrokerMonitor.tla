-------------------------- MODULE MCBrokerMonitor --------------------------
(* A batch with events of every kind but poison, and one that poison cuts   *)
(* short; two monitors, one after or beside the other, and two faults: the  *)
(* least with which an ack fails and the message comes back.                *)
EXTENDS BrokerMonitor, TLC
CONSTANTS mixed, cut

MCBody == (mixed :> <<"task", "other", "foreign", "absorbed", "task">>)
       @@ (cut   :> <<"task", "poison", "task">>)
=============================================================================
