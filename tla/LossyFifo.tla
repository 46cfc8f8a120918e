----------------------------- MODULE LossyFifo -----------------------------
(***************************************************************************)
(* What the agent promises about the task events it observes: they reach   *)
(* the transport in the order in which they entered; when the consumer     *)
(* falls behind by more than Capacity, the OLDEST are lost, and each loss  *)
(* is counted.  EventPipeline is shown to implement this module.           *)
(***************************************************************************)
EXTENDS Naturals, Sequences

CONSTANTS Event,      \* the events
          Capacity    \* how far the consumer may fall behind without a loss

VARIABLES transit,    \* entered, not yet delivered nor lost, oldest first
          lost        \* number of events lost

vars == <<transit, lost>>

Init == transit = <<>> /\ lost = 0

Enter(e) == /\ transit' = Append(transit, e)
            /\ UNCHANGED lost

Deliver == /\ transit # <<>>
           /\ transit' = Tail(transit)
           /\ UNCHANGED lost

Lose == /\ Len(transit) > Capacity
        /\ transit' = Tail(transit)
        /\ lost' = lost + 1

Next == (\E e \in Event : Enter(e)) \/ Deliver \/ Lose

Spec == Init /\ [][Next]_vars
=============================================================================
