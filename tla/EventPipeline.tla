--------------------------- MODULE EventPipeline ---------------------------
(***************************************************************************)
(* How a task event travels from the thread that observed it to the        *)
(* agent's transport (engine.py: connect_signals' sink, _enqueue_event,    *)
(* subscribe_events).                                                      *)
(*                                                                         *)
(* Threads - Celery's signal thread, the broker events monitor - build     *)
(* events and hand them to the event loop with call_soon_threadsafe.  The  *)
(* loop runs its callbacks one at a time; each puts its event on the       *)
(* bounded queue, first dropping the oldest entry when the queue is full.  *)
(* The transport takes the events off the queue on the same loop.          *)
(*                                                                         *)
(* The sink has no loop when none was given and the thread runs none; a    *)
(* closed loop raises, which the handlers' safe_boundary absorbs; a forked *)
(* child leaves its events to the monitor of the parent.  In each case the *)
(* event is gone without a trace in the drop counter.                      *)
(***************************************************************************)
EXTENDS Naturals, Sequences

CONSTANTS
  Threads,      \* the observing threads
  Forked,       \* those of them that run in a forked child
  Capacity,     \* maxsize of _event_queue (10_000)
  CounterMax,   \* where dropped_event_count saturates (2^53 - 1)
  MaxEvents     \* bound on the number of events observed

ASSUME PipelineAssumption ==
  /\ Forked \subseteq Threads
  /\ Capacity \in Nat \ {0} /\ CounterMax \in Nat \ {0} /\ MaxEvents \in Nat

VARIABLES
  loop,        \* the agent's loop: "open", "closed", or "none" given to the sink
  clock,       \* events built so far: an event's occurred_at
  held,        \* held[t]: the event t has built and not yet handed over, or <<>>
  pending,     \* callbacks the loop has still to run
  queue,       \* _event_queue
  dropped,     \* _dropped_event_count
  delivered,   \* history: what the transport received
  entered,     \* history: how many events the loop accepted
  evicted      \* history: how many events left the queue unread

vars == <<loop, clock, held, pending, queue, dropped, delivered, entered, evicted>>

Event == [by : Threads, at : 1..MaxEvents]

Init == /\ loop \in {"none", "open"}
        /\ clock = 0
        /\ held = [t \in Threads |-> <<>>]
        /\ pending = <<>>
        /\ queue = <<>>
        /\ dropped = 0
        /\ delivered = <<>>
        /\ entered = 0
        /\ evicted = 0

\* A handler of t maps what it was told to an event.
Build(t) ==
  /\ held[t] = <<>>
  /\ clock < MaxEvents
  /\ clock' = clock + 1
  /\ held' = [held EXCEPT ![t] = <<[by |-> t, at |-> clock + 1]>>]
  /\ UNCHANGED <<loop, pending, queue, dropped, delivered, entered, evicted>>

\* Mutant: an event is put on the queue directly when there is room.
SinkDirect(t) ==
  /\ held[t] # <<>>
  /\ held' = [held EXCEPT ![t] = <<>>]
  /\ \/ loop # "closed" /\ Len(queue) < Capacity
        /\ queue' = Append(queue, held[t][1])
        /\ entered' = entered + 1
        /\ UNCHANGED pending
     \/ loop # "closed" /\ Len(queue) >= Capacity
        /\ pending' = Append(pending, held[t][1])
        /\ entered' = entered + 1
        /\ UNCHANGED queue
     \/ loop # "open" /\ UNCHANGED <<pending, queue, entered>>
  /\ UNCHANGED <<loop, clock, dropped, delivered, evicted>>

\* sink: hand the event to the loop, or drop it for want of one.  When none was
\* given, it is the one that the calling thread runs, if it runs any.
Sink(t) ==
  /\ held[t] # <<>>
  /\ held' = [held EXCEPT ![t] = <<>>]
  /\ \/ /\ t \notin Forked /\ loop # "closed"
        /\ pending' = Append(pending, held[t][1])
        /\ entered' = entered + 1
     \/ /\ t \in Forked \/ loop # "open"
        /\ UNCHANGED <<pending, entered>>
  /\ UNCHANGED <<loop, clock, queue, dropped, delivered, evicted>>

\* _record_event_drop.
Counted(n) == IF n + 1 > CounterMax THEN CounterMax ELSE n + 1

\* Mutants of the callback: no maxsize; the newest entry is the one dropped;
\* the report of the drop raises, and the new event is lost with it.
EnqueueUnbounded ==
  /\ pending # <<>> /\ loop # "closed"
  /\ pending' = Tail(pending)
  /\ queue' = Append(queue, Head(pending))
  /\ UNCHANGED <<loop, clock, held, dropped, delivered, entered, evicted>>

EnqueueDropsNewest ==
  /\ pending # <<>> /\ loop # "closed"
  /\ pending' = Tail(pending)
  /\ \/ Len(queue) < Capacity /\ queue' = Append(queue, Head(pending)) /\ UNCHANGED <<dropped, evicted>>
     \/ /\ Len(queue) >= Capacity
        /\ queue' = Append(SubSeq(queue, 1, Len(queue) - 1), Head(pending))
        /\ dropped' = Counted(dropped) /\ evicted' = evicted + 1
  /\ UNCHANGED <<loop, clock, held, delivered, entered>>

EnqueueRaisesOnDrop ==
  /\ pending # <<>> /\ loop # "closed"
  /\ pending' = Tail(pending)
  /\ \/ Len(queue) < Capacity /\ queue' = Append(queue, Head(pending)) /\ UNCHANGED <<dropped, evicted>>
     \/ Len(queue) >= Capacity /\ queue' = Tail(queue)
        /\ dropped' = Counted(dropped) /\ evicted' = evicted + 1
  /\ UNCHANGED <<loop, clock, held, delivered, entered>>

\* _enqueue_event, run by the loop for the oldest callback.  Nothing else
\* touches the queue meanwhile, so one eviction makes room and the branch for
\* three failed attempts is not reached.
Enqueue ==
  /\ loop # "closed"
  /\ pending # <<>>
  /\ pending' = Tail(pending)
  /\ \/ /\ Len(queue) < Capacity
        /\ queue' = Append(queue, Head(pending))
        /\ UNCHANGED <<dropped, evicted>>
     \/ /\ Len(queue) >= Capacity
        /\ queue' = Append(Tail(queue), Head(pending))
        /\ dropped' = Counted(dropped)
        /\ evicted' = evicted + 1
  /\ UNCHANGED <<loop, clock, held, delivered, entered>>

\* Mutant: the transport waits for a full queue before it takes from it.
DeliverWhenFull ==
  /\ loop # "closed" /\ Len(queue) >= Capacity
  /\ delivered' = Append(delivered, Head(queue))
  /\ queue' = Tail(queue)
  /\ UNCHANGED <<loop, clock, held, pending, dropped, entered, evicted>>

\* subscribe_events yields the head of the queue to the transport.
Deliver ==
  /\ loop # "closed"
  /\ queue # <<>>
  /\ delivered' = Append(delivered, Head(queue))
  /\ queue' = Tail(queue)
  /\ UNCHANGED <<loop, clock, held, pending, dropped, entered, evicted>>

\* The agent shuts its loop down; what had not been delivered stays behind.
Close ==
  /\ loop # "closed"
  /\ loop' = "closed"
  /\ UNCHANGED <<clock, held, pending, queue, dropped, delivered, entered, evicted>>

Next == \/ \E t \in Threads : Build(t) \/ Sink(t)
        \/ Enqueue
        \/ Deliver
        \/ Close

Spec == Init /\ [][Next]_vars

\* The loop runs its callbacks, and the transport keeps reading.
FairSpec == Spec /\ WF_vars(Enqueue) /\ WF_vars(Deliver)
-----------------------------------------------------------------------------
\* Everything that entered and was not evicted, in the order it leaves.
Line == delivered \o queue \o pending

TypeOK == /\ loop \in {"none", "open", "closed"}
          /\ clock \in 0..MaxEvents
          /\ held \in [Threads -> {<<>>} \union {<<e>> : e \in Event}]
          /\ pending \in Seq(Event)
          /\ queue \in Seq(Event) /\ Len(queue) <= Capacity
          /\ delivered \in Seq(Event)
          /\ dropped \in 0..CounterMax
          /\ entered \in Nat /\ evicted \in Nat

\* No event is lost but by a counted eviction, and none is duplicated: each
\* event the loop accepted is pending, queued, delivered or evicted, and the
\* drop counter is exact until it saturates (test_event_loss.py).
LossIsCounted ==
  /\ entered = Len(Line) + evicted
  /\ dropped = IF evicted > CounterMax THEN CounterMax ELSE evicted

\* Events of one thread keep their order through the loop, the queue and the
\* evictions: the transport never sees a task's later event first.
ThreadOrderKept ==
  \A i, j \in 1..Len(Line) :
    (i < j /\ Line[i].by = Line[j].by) => Line[i].at < Line[j].at

\* While the loop is open every event it accepted is delivered in the end,
\* unless the queue overflowed.
EventuallyDelivered ==
  \A n \in 1..MaxEvents :
    (entered >= n) ~> (Len(delivered) + evicted >= n \/ loop = "closed")

\* The pipeline is a FIFO that loses only its oldest entries.
Fifo == INSTANCE LossyFifo WITH transit <- queue \o pending, lost <- evicted

ImplementsLossyFifo == Fifo!Spec
=============================================================================
