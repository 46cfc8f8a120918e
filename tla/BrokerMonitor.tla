--------------------------- MODULE BrokerMonitor ---------------------------
(***************************************************************************)
(* The broker events monitor (events/broker.py): one receiver thread per   *)
(* monitor object, started and stopped by the adapter (engine.py:          *)
(* connect_signals, disconnect_signals).                                   *)
(*                                                                         *)
(* The thread holds a consumer on the fanout exchange of Celery events.  A *)
(* message carries one event or a list of them (task-multi); the callback  *)
(* hands the mapped ones to the sink one by one and acknowledges the       *)
(* message at the end.  stop() waits five seconds for the thread and then  *)
(* lets go of it: a receiver that is still connecting lives on until it    *)
(* sees its own stop flag.  A second connect_signals lets go of the first  *)
(* monitor without stopping it.  A lost connection takes the               *)
(* unacknowledged messages with it, or brings them back on the next one.   *)
(*                                                                         *)
(* Kinds of event: "task" is mapped, "other" is not (task-sent,            *)
(* task-received), "foreign" is another host's, "absorbed" raises in its   *)
(* handler, under safe_boundary, "poison" raises outside it.               *)
(***************************************************************************)
EXTENDS Naturals, Sequences, FiniteSets

CONSTANTS
  Messages,     \* the messages workers publish
  Body,         \* Body[m]: the kinds of m's events, a sequence
  MaxMonitors,  \* bound: monitor objects created
  MaxFaults     \* bound: lost connections, failed connects and failed acks

ASSUME MonitorAssumption ==
  /\ MaxMonitors \in Nat \ {0} /\ MaxFaults \in Nat
  /\ \A m \in Messages : Body[m] \in Seq({"task", "other", "foreign", "absorbed", "poison"})

Monitors == 1..MaxMonitors

VARIABLES
  current,    \* the adapter's _broker_monitor, or 0
  made,       \* monitors made so far are 1..made
  replaced,   \* history: monitors a later connect_signals replaced
  joining,    \* whether stop() is in its join
  stopping,   \* stopping[g]: g's _stop flag
  thread,     \* thread[g]: where g's receiver thread is
  published,  \* messages published so far
  inbox,      \* inbox[g]: messages the broker holds for g's consumer
  msg,        \* msg[g]: <<m, i>>, event i of m is next, or <<>>
  unacked,    \* unacked[g]: handled, but the ack failed
  sunk,       \* history: sunk[g][m]: indices of m's events the sink received
  again,      \* history: again[g]: the messages redelivered to g
  acked,      \* history: acked[g]
  late,       \* history: late[g]: messages g took after it was told to stop
  poisoned,   \* poisoned[g]: _poison_drop_count
  faults      \* faults so far

monitorVars == <<current, made, replaced, joining, stopping, thread, published, inbox,
                 msg, unacked, sunk, again, acked, late, poisoned, faults>>

owner   == <<current, made, replaced, joining, stopping>>
history == <<sunk, again, acked, late>>

MonitorInit == /\ current = 0 /\ made = 0 /\ replaced = {} /\ joining = FALSE
               /\ stopping = [g \in Monitors |-> FALSE]
               /\ thread = [g \in Monitors |-> "none"]
               /\ published = {}
               /\ inbox = [g \in Monitors |-> <<>>]
               /\ msg = [g \in Monitors |-> <<>>]
               /\ unacked = [g \in Monitors |-> {}]
               /\ sunk = [g \in Monitors |-> [m \in Messages |-> <<>>]]
               /\ again = [g \in Monitors |-> {}]
               /\ acked = [g \in Monitors |-> {}]
               /\ late = [g \in Monitors |-> 0]
               /\ poisoned = [g \in Monitors |-> 0]
               /\ faults = 0

\* Where a receiver thread is: nowhere yet, at a step of its two loops, gone.
Locations == {"none", "outer", "connecting", "draining", "waiting", "dispatching",
              "backoff", "exited"}

Goto(g, l) == thread' = [thread EXCEPT ![g] = l]

\* A thread of g that holds a consumer.
Connected(g) == thread[g] \in {"draining", "waiting", "dispatching"}
-----------------------------------------------------------------------------
\* connect_signals makes a new monitor and starts it; one the adapter still has
\* is overwritten, not stopped.  Both calls of the adapter are synchronous: its
\* caller makes none while stop() is in its join.
Connect ==
  /\ ~ joining /\ made < MaxMonitors
  /\ made' = made + 1
  /\ current' = made + 1
  /\ replaced' = replaced \union ({current} \ {0})
  /\ Goto(made + 1, "outer")
  /\ UNCHANGED <<joining, stopping, published, inbox, msg, unacked, history, poisoned, faults>>

\* Mutants: the monitor is forgotten before it is joined; stop() only waits.
DisconnectForgetsFirst ==
  /\ current # 0 /\ ~ joining
  /\ joining' = TRUE
  /\ stopping' = [stopping EXCEPT ![current] = TRUE]
  /\ current' = 0
  /\ UNCHANGED <<made, replaced, thread, published, inbox, msg, unacked, history, poisoned, faults>>

DisconnectWithoutFlag ==
  /\ current # 0 /\ ~ joining
  /\ joining' = TRUE
  /\ UNCHANGED <<current, made, replaced, stopping, thread, published, inbox, msg,
                 unacked, history, poisoned, faults>>

\* stop(): set the flag and wait for the thread.
Disconnect ==
  /\ current # 0 /\ ~ joining
  /\ joining' = TRUE
  /\ stopping' = [stopping EXCEPT ![current] = TRUE]
  /\ UNCHANGED <<current, made, replaced, thread, published, inbox, msg, unacked,
                 history, poisoned, faults>>

\* The join ends: the thread has exited, or five seconds are over.  Either way
\* the adapter forgets the monitor.
JoinReturns ==
  /\ joining
  /\ joining' = FALSE
  /\ current' = 0
  /\ UNCHANGED <<made, replaced, stopping, thread, published, inbox, msg, unacked,
                 history, poisoned, faults>>
-----------------------------------------------------------------------------
\* A worker publishes m: the exchange copies it to every consumer's queue.
Publish(m) ==
  /\ m \notin published
  /\ published' = published \union {m}
  /\ inbox' = [g \in Monitors |-> IF Connected(g) THEN Append(inbox[g], m) ELSE inbox[g]]
  /\ UNCHANGED <<owner, thread, msg, unacked, history, poisoned, faults>>

\* The test of the outer loop.
Outer(g) ==
  /\ thread[g] = "outer"
  /\ Goto(g, IF stopping[g] THEN "exited" ELSE "connecting")
  /\ UNCHANGED <<owner, published, inbox, msg, unacked, history, poisoned, faults>>

\* The consumer is set up.
Open(g) ==
  /\ thread[g] = "connecting"
  /\ Goto(g, "draining")
  /\ UNCHANGED <<owner, published, inbox, msg, unacked, history, poisoned, faults>>

\* Mutant: the thread gives up at the first error.
AfterErrorExit(g) == "exited"

\* except Exception: leave when stopped, else wait two seconds and reconnect.
AfterError(g) == IF stopping[g] THEN "exited" ELSE "backoff"

\* Setting up the consumer raises.
OpenFails(g) ==
  /\ thread[g] = "connecting"
  /\ faults < MaxFaults
  /\ faults' = faults + 1
  /\ Goto(g, AfterError(g))
  /\ UNCHANGED <<owner, published, inbox, msg, unacked, history, poisoned>>

\* _stop.wait(timeout=2.0) ends.
Backoff(g) ==
  /\ thread[g] = "backoff"
  /\ Goto(g, "outer")
  /\ UNCHANGED <<owner, published, inbox, msg, unacked, history, poisoned, faults>>

\* Mutant: the inner loop does not look at the flag.
DrainForever(g) ==
  /\ thread[g] = "draining"
  /\ Goto(g, "waiting")
  /\ UNCHANGED <<owner, published, inbox, msg, unacked, history, poisoned, faults>>

\* The test of the inner loop: leave when stopped, which closes the consumer,
\* else wait in drain_events.
Drain(g) ==
  /\ thread[g] = "draining"
  /\ \/ /\ stopping[g]
        /\ Goto(g, "outer")
        /\ inbox' = [inbox EXCEPT ![g] = <<>>]
        /\ unacked' = [unacked EXCEPT ![g] = {}]
     \/ /\ ~ stopping[g]
        /\ Goto(g, "waiting")
        /\ UNCHANGED <<inbox, unacked>>
  /\ UNCHANGED <<owner, published, msg, history, poisoned, faults>>

\* drain_events delivers the next message, told to stop or not.
Deliver(g) ==
  /\ thread[g] = "waiting" /\ inbox[g] # <<>>
  /\ Goto(g, "dispatching")
  /\ inbox' = [inbox EXCEPT ![g] = Tail(@)]
  /\ msg' = [msg EXCEPT ![g] = <<Head(inbox[g]), 1>>]
  /\ late' = [late EXCEPT ![g] = IF stopping[g] THEN @ + 1 ELSE @]
  /\ UNCHANGED <<owner, published, unacked, sunk, again, acked, poisoned, faults>>

\* No message within the second: back to the test.
Quiet(g) ==
  /\ thread[g] = "waiting" /\ inbox[g] = <<>>
  /\ Goto(g, "draining")
  /\ UNCHANGED <<owner, published, inbox, msg, unacked, history, poisoned, faults>>

\* drain_events raises: OSError rebuilds the consumer at once, anything else
\* goes through the error branch.  The broker discards what the consumer held
\* or delivers the unacknowledged messages again.
Break(g) ==
  /\ thread[g] = "waiting"
  /\ faults < MaxFaults
  /\ faults' = faults + 1
  /\ \/ Goto(g, "outer")
     \/ Goto(g, AfterError(g))
  /\ \/ /\ inbox' = [inbox EXCEPT ![g] = <<>>]
        /\ UNCHANGED again
     \/ \E order \in [1..Cardinality(unacked[g]) -> unacked[g]] :
          /\ \A m \in unacked[g] : \E i \in DOMAIN order : order[i] = m
          /\ inbox' = [inbox EXCEPT ![g] = order \o @]
          /\ again' = [again EXCEPT ![g] = @ \union unacked[g]]
  /\ unacked' = [unacked EXCEPT ![g] = {}]
  /\ UNCHANGED <<owner, published, msg, sunk, acked, late, poisoned>>
-----------------------------------------------------------------------------
Kind(g) == Body[msg[g][1]][msg[g][2]]

\* The next event of the message: only a mapped one of our host whose handler
\* does not raise reaches the sink.
Handle(g) ==
  LET m == msg[g][1]
      i == msg[g][2]
  IN  /\ thread[g] = "dispatching"
      /\ i <= Len(Body[m]) /\ Kind(g) # "poison"
      /\ sunk' = IF Kind(g) = "task" THEN [sunk EXCEPT ![g][m] = Append(@, i)] ELSE sunk
      /\ msg' = [msg EXCEPT ![g] = <<m, i + 1>>]
      /\ UNCHANGED <<owner, thread, published, inbox, unacked, again, acked, late, poisoned, faults>>

\* The message leaves the callback: it is acknowledged, or the ack fails and
\* the failure is suppressed.
Settle(g) ==
  /\ \/ /\ acked' = [acked EXCEPT ![g] = @ \union {msg[g][1]}]
        /\ UNCHANGED <<unacked, faults>>
     \/ /\ faults < MaxFaults
        /\ faults' = faults + 1
        /\ unacked' = [unacked EXCEPT ![g] = @ \union {msg[g][1]}]
        /\ UNCHANGED acked
  /\ msg' = [msg EXCEPT ![g] = <<>>]
  /\ Goto(g, "draining")

\* Mutant: a poisoned message is requeued, as it once was; it comes back as a
\* new one, with a history of its own.
PoisonRequeued(g) ==
  /\ thread[g] = "dispatching"
  /\ msg[g][2] <= Len(Body[msg[g][1]]) /\ Kind(g) = "poison"
  /\ poisoned' = [poisoned EXCEPT ![g] = 1]
  /\ inbox' = [inbox EXCEPT ![g] = <<msg[g][1]>> \o @]
  /\ sunk' = [sunk EXCEPT ![g][msg[g][1]] = <<>>]
  /\ msg' = [msg EXCEPT ![g] = <<>>]
  /\ Goto(g, "draining")
  /\ UNCHANGED <<owner, published, unacked, again, acked, late, faults>>

\* A poisoned event: count it, acknowledge the message and drop the rest of it.
Poison(g) ==
  /\ thread[g] = "dispatching"
  /\ msg[g][2] <= Len(Body[msg[g][1]]) /\ Kind(g) = "poison"
  /\ poisoned' = [poisoned EXCEPT ![g] = @ + 1]
  /\ Settle(g)
  /\ UNCHANGED <<owner, published, inbox, sunk, again, late>>

\* Mutant: acknowledge first.
AckEarly(g) ==
  /\ thread[g] = "dispatching"
  /\ Settle(g)
  /\ UNCHANGED <<owner, published, inbox, sunk, again, late, poisoned>>

\* All events of the message were dispatched.
Ack(g) ==
  /\ thread[g] = "dispatching"
  /\ msg[g][2] > Len(Body[msg[g][1]])
  /\ Settle(g)
  /\ UNCHANGED <<owner, published, inbox, sunk, again, late, poisoned>>
-----------------------------------------------------------------------------
Connecting(g) == Open(g) \/ OpenFails(g)

Receive(g) == \/ Outer(g) \/ Backoff(g) \/ Drain(g) \/ Deliver(g) \/ Quiet(g)
              \/ Handle(g) \/ Poison(g) \/ Ack(g)

MonitorNext == \/ Connect \/ Disconnect \/ JoinReturns
               \/ \E m \in Messages : Publish(m)
               \/ \E g \in Monitors : Receive(g) \/ Connecting(g) \/ Break(g)

\* The receiver thread is scheduled and drain_events returns within a second;
\* the loop thread leaves stop() after five; a broker accepts or refuses a
\* connection in the end.
MonitorSpec == /\ MonitorInit /\ [][MonitorNext]_monitorVars
               /\ WF_monitorVars(JoinReturns)
               /\ \A g \in Monitors : WF_monitorVars(Receive(g)) /\ WF_monitorVars(Connecting(g))
-----------------------------------------------------------------------------
MonitorTypeOK == /\ current \in 0..made /\ made \in 0..MaxMonitors
                 /\ replaced \subseteq 1..made
                 /\ joining \in BOOLEAN
                 /\ joining => current # 0
                 /\ stopping \in [Monitors -> BOOLEAN]
                 /\ thread \in [Monitors -> Locations]
                 /\ published \subseteq Messages
                 /\ inbox \in [Monitors -> Seq(Messages)]
                 /\ unacked \in [Monitors -> SUBSET Messages]
                 /\ \A g \in Monitors :
                      IF thread[g] = "dispatching"
                      THEN msg[g] \in Messages \X Nat /\ msg[g][2] \in 1..(Len(Body[msg[g][1]]) + 1)
                      ELSE msg[g] = <<>>
                 /\ late \in [Monitors -> Nat]
                 /\ poisoned \in [Monitors -> Nat]
                 /\ faults \in 0..MaxFaults

\* Beside the adapter's own receiver only those go on that a second
\* connect_signals replaced (engine.py:345 overwrites the one it has); a receiver
\* that was told to stop, and may have outlived its join, takes one message more
\* at most, the one it was waiting for.
NobodyElseReceives ==
  \A g \in Monitors :
    /\ (thread[g] \notin {"none", "exited"} /\ ~ stopping[g]) => g \in {current} \union replaced
    /\ late[g] <= 1

\* What of m the sink gets: the mapped events before the first poisoned one.
ToSink(m) == {i \in 1..Len(Body[m]) : /\ Body[m][i] = "task"
                                       /\ \A j \in 1..i : Body[m][j] # "poison"}

Elements(s) == {s[i] : i \in DOMAIN s}

Ascending(s) == \A i, j \in DOMAIN s : i < j => s[i] < s[j]

\* An acknowledged message was dispatched: its events reached the sink in the
\* order of the batch, once unless the broker delivered it again, and a batch
\* that poison cut short shows in the counter (broker.py:199-219).
AckedMeansDispatched ==
  \A g \in Monitors : \A m \in acked[g] :
    /\ Elements(sunk[g][m]) = ToSink(m)
    /\ m \notin again[g] => Ascending(sunk[g][m])
    /\ Cardinality({c \in acked[g] : "poison" \in Elements(Body[c])}) <= poisoned[g]

InHand(g, m) == m \in Elements(inbox[g]) \/ (msg[g] # <<>> /\ msg[g][1] = m)

\* A poisoned message does not block the stream: whatever is delivered leaves
\* the receiver's hands, and so does what stands behind it.
NothingBlocks ==
  \A g \in Monitors, m \in Messages :
    InHand(g, m) ~> (~ InHand(g, m) \/ thread[g] = "exited")

\* Whatever the connection does, a monitor that is wanted comes back to
\* receiving.
Reconnects == \A g \in Monitors : thread[g] = "outer" ~> (Connected(g) \/ stopping[g])

\* A receiver that was told to stop ends, even when stop() no longer waits.
StoppedReceiverEnds == \A g \in Monitors : stopping[g] ~> thread[g] = "exited"

\* A receiver lives exactly as long as it is wanted: errors do not end it and
\* a stop() that gave up waiting for it does.
LivesWhileWanted == Reconnects /\ StoppedReceiverEnds
=============================================================================
