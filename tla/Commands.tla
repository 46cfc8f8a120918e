------------------------------ MODULE Commands ------------------------------
(***************************************************************************)
(* The commands of the adapter, over the pool (actions/*.py, engine.py).   *)
(*                                                                         *)
(* A command's handler runs on the agent's event loop.  It refuses what is *)
(* wrong on the face of it; it hands most broker calls to the pool of      *)
(* OffloadPool; but four control commands and reconcile_task make their    *)
(* broker call in the handler itself, and hold the loop until the broker   *)
(* lets them go: meanwhile no timer fires and no coroutine wakes.          *)
(*                                                                         *)
(* What a retry publishes is resolved in the pool's thread, from what the  *)
(* operator gave and from what Celery's result backend stored; a command   *)
(* whose inputs cannot be resolved raises there.  bulk_retry is            *)
(* BulkRetry's subject and purge_queue PurgeQueue's.                       *)
(***************************************************************************)
EXTENDS OffloadPool, Integers

CONSTANTS
  Scenarios,      \* the inputs: functions from Calls to what arrives as each
  EtaMaxPast,     \* _ETA_MAX_PAST_SECONDS
  EtaMaxFuture    \* _ETA_MAX_FUTURE_SECONDS

ASSUME EtaAssumption == EtaMaxPast \in Nat /\ EtaMaxFuture \in Nat

VARIABLES
  transport,   \* what the application writes to
  request,     \* request[c]: what arrives as c
  loop,        \* Free, or the set of the one command that holds the event loop
  sent,        \* sent[c]: what the broker was told to do, as the message
  reply        \* reply[c]: the answer to a command that is not offloaded

commandVars == <<vars, transport, request, loop, sent, reply>>

Nothing == [kind |-> "nothing"]
Free    == {}

Controls == {"pool_grow", "pool_shrink", "add_consumer", "cancel_consumer"}
OnLoop   == Controls \union {"reconcile_task"}

CommandsInit ==
  /\ Init
  /\ transport \in {"amqp", "redis"}
  /\ request \in Scenarios
  /\ loop = Free
  /\ sent = [c \in Calls |-> Nothing]
  /\ reply = [c \in Calls |-> "none"]
-----------------------------------------------------------------------------
(* The checks a handler makes before anything leaves it. *)

\* _eta_from_timestamp: none, or a time (in seconds from now) in the window.
EtaAccepted(eta) ==
  \/ eta.form = "none"
  \/ eta.form = "time" /\ eta.delta \in (-EtaMaxPast)..EtaMaxFuture

\* _RATE_RE: zero, or a positive number and perhaps a unit.
RateAccepted(rate) == \/ rate.number = 0 /\ rate.unit = ""
                      \/ rate.number > 0 /\ rate.unit \in {"", "/s", "/m", "/h"}

\* What is answered "failed" before the broker is asked anything.
Refused(r) == \/ r.kind = "retry_task" /\ ~EtaAccepted(r.eta)
              \/ r.kind = "rate_limit" /\ ~(r.named /\ RateAccepted(r.rate))
              \/ r.kind = "requeue_dead_letter"
-----------------------------------------------------------------------------
(* What the thread resolves: _do_retry_io. *)

\* The brain's name unless it is none or a display placeholder, otherwise the
\* result backend's.
NameOf(r) == IF r.name \in {"none", "placeholder"} THEN r.storedName ELSE r.name

\* Mutant: one authoritative half is enough.
EitherHalfResolvable(r) == \/ r.args # "none" \/ r.storedArgs # "none"
                           \/ r.kwargs # "none" \/ r.storedKwargs # "none"

\* _resolve_args: each half is an override or was stored.
HalvesResolvable(r) == /\ r.args # "none" \/ r.storedArgs # "none"
                       /\ r.kwargs # "none" \/ r.storedKwargs # "none"

HalfOf(override, stored) == IF override # "none" THEN override
                            ELSE IF stored # "none" THEN stored ELSE "empty"

AmqpPriority  == [critical |-> 9, high |-> 6, normal |-> 3, low |-> 0]
RedisPriority == [critical |-> 0, high |-> 3, normal |-> 6, low |-> 9]

\* Mutant: one mapping for every transport.
PriorityAmqp(p) ==
  CASE p.form = "number" /\ p.number \in 0..255            -> p.number
    [] p.form = "label"  /\ p.label \in DOMAIN AmqpPriority -> AmqpPriority[p.label]
    [] OTHER                                               -> -1

\* _coerce_priority for the transport the application writes to; -1 when none
\* is sent.
PriorityOf(p) ==
  LET labels == IF transport = "redis" THEN RedisPriority ELSE AmqpPriority IN
  CASE p.form = "number" /\ p.number \in 0..255           -> p.number
    [] p.form = "label"  /\ p.label \in DOMAIN labels     -> labels[p.label]
    [] OTHER                                              -> -1

\* Whether fn gets as far as the publish.
Resolvable(r) ==
  CASE r.kind = "retry_task"  -> NameOf(r) \notin {"none", "placeholder"} /\ HalvesResolvable(r)
    [] r.kind = "submit_task" -> r.eta.form # "unparsable"
    [] OTHER                  -> TRUE

\* The message: a retry's is put together, the others say what was asked.
MessageOf(r) ==
  IF r.kind = "retry_task"
  THEN [kind |-> "retry_task", name |-> NameOf(r), eta |-> r.eta,
        args |-> HalfOf(r.args, r.storedArgs), kwargs |-> HalfOf(r.kwargs, r.storedKwargs),
        priority |-> PriorityOf(r.priority)]
  ELSE r
-----------------------------------------------------------------------------
\* Mutant: the refusal is an answer, but the handler goes on.
RefuseGoesOn(c) ==
  /\ loop = Free /\ caller[c] = "idle" /\ reply[c] = "none"
  /\ Refused(request[c])
  /\ Submit(c)
  /\ reply' = [reply EXCEPT ![c] = "failed"]
  /\ UNCHANGED <<transport, request, loop, sent>>

\* The command arrives and its handler returns a failure at once.
Refuse(c) ==
  /\ loop = Free /\ caller[c] = "idle" /\ reply[c] = "none"
  /\ Refused(request[c])
  /\ reply' = [reply EXCEPT ![c] = "failed"]
  /\ UNCHANGED <<vars, transport, request, loop, sent>>

\* The command arrives and its handler awaits offload.
Offload(c) ==
  /\ loop = Free
  /\ ~Refused(request[c]) /\ request[c].kind \notin OnLoop
  /\ Submit(c)
  /\ UNCHANGED <<transport, request, loop, sent, reply>>

\* The command arrives and its handler enters its broker call on the loop.
Hold(c) ==
  /\ loop = Free /\ reply[c] = "none"
  /\ request[c].kind \in OnLoop
  /\ loop' = {c}
  /\ UNCHANGED <<vars, transport, request, sent, reply>>

\* The broker does what a control command says.
ControlActs(c) ==
  /\ loop = {c} /\ request[c].kind \in Controls /\ sent[c] = Nothing
  /\ sent' = [sent EXCEPT ![c] = MessageOf(request[c])]
  /\ UNCHANGED <<vars, transport, request, loop, reply>>

\* The broker call on the loop ends: it returns once the broker has acted, or
\* it raises, before or after.  reconcile_task only reads, and a read that
\* fails is answered as a success of unknown state.
ControlEnds(c) ==
  /\ loop = {c}
  /\ \/ /\ request[c].kind \in Controls => sent[c] # Nothing
        /\ reply' = [reply EXCEPT ![c] = "success"]
     \/ /\ request[c].kind \in Controls
        /\ reply' = [reply EXCEPT ![c] = "failed"]
  /\ loop' = Free
  /\ UNCHANGED <<vars, transport, request, sent>>

\* A thread publishes what it resolved.
Publish(c) ==
  /\ Resolvable(request[c])
  /\ Apply(c)
  /\ sent' = [sent EXCEPT ![c] = MessageOf(request[c])]
  /\ UNCHANGED <<transport, request, loop, reply>>

\* The rest of what the pool's threads do, loop or no loop.
ThreadStep(c) == /\ Take(c) \/ Return(c) \/ Raise(c)
                 /\ UNCHANGED <<transport, request, loop, sent, reply>>

\* What the event loop does for a call needs the loop.
LoopStep(c) == /\ loop = Free
               /\ Deliver(c) \/ Timeout(c)
               /\ UNCHANGED <<transport, request, loop, sent, reply>>

CommandsNext == \E c \in Calls : \/ Refuse(c) \/ Offload(c) \/ Hold(c)
                                 \/ ControlActs(c) \/ ControlEnds(c)
                                 \/ Publish(c) \/ ThreadStep(c) \/ LoopStep(c)

\* The loop, while it is free, runs its timers and wakes its coroutines.  Of
\* the broker nothing is assumed, on a thread or on the loop.
CommandsSpec == /\ CommandsInit /\ [][CommandsNext]_commandVars
                /\ \A c \in Calls : WF_commandVars(LoopStep(c))
-----------------------------------------------------------------------------
\* What the operator knows of a command.
AnswerTo(c) == CASE reply[c] # "none" -> reply[c]
                 [] loop = {c}          -> "waiting"
                 [] OTHER             -> caller[c]

Queries == {"reconcile_task"}

\* Commands of every kind, refused, offloaded or direct, keep one contract:
\* carried out at most once, "success" only of what was, and nothing happens
\* after a definite answer.  (A query makes the broker do nothing.)
Contract == INSTANCE CommandOutcome
              WITH answer  <- [c \in Calls |-> IF request[c].kind \in Queries THEN "idle"
                                               ELSE AnswerTo(c)],
                   effects <- [c \in Calls |-> IF sent[c] = Nothing THEN effects[c]
                                               ELSE IF request[c].kind \in Controls THEN 1
                                               ELSE effects[c]]

ImplementsContract == Contract!Spec

\* What is carried out of a command is what was asked: a retry runs under a
\* name and with both halves of its arguments from someone who knew them,
\* never with a half left empty (retry.py: "re-running with an empty payload
\* would silently execute the task with the wrong inputs"), not outside the
\* eta window, and what was given overrides what was stored.
SentAsAsked ==
  \A c \in Calls : (sent[c] # Nothing) =>
    LET r == request[c]  m == sent[c] IN
    IF r.kind # "retry_task" THEN m = r
    ELSE /\ m.name \in {r.name, r.storedName} \ {"none", "placeholder"}
         /\ r.name \in {"none", "placeholder"} \/ m.name = r.name
         /\ m.args   = (IF r.args   = "none" THEN r.storedArgs   ELSE r.args)
         /\ m.kwargs = (IF r.kwargs = "none" THEN r.storedKwargs ELSE r.kwargs)
         /\ "none" \notin {m.args, m.kwargs}
         /\ m.eta.form = "time" => m.eta.delta <= EtaMaxFuture /\ m.eta.delta >= -EtaMaxPast

\* The order in which a broker serves two priorities: RabbitMQ the larger
\* first, kombu's Redis transport the smaller.
ServedBefore(p, q) == IF transport = "redis" THEN p < q ELSE p > q

Urgency == [critical |-> 3, high |-> 2, normal |-> 1, low |-> 0]

\* Two retries named by label are served in the order of their labels, on
\* either transport, and one given as a number keeps its number.
LabelsKeepTheirOrder ==
  \A c, d \in Calls :
    (sent[c].kind = "retry_task" /\ sent[d].kind = "retry_task") =>
      LET p == request[c].priority  q == request[d].priority IN
      /\ (p.form = "label" /\ q.form = "label" /\ p.label \in DOMAIN Urgency /\ q.label \in DOMAIN Urgency) =>
           (Urgency[p.label] > Urgency[q.label] => ServedBefore(sent[c].priority, sent[d].priority))
      /\ p.form = "number" => sent[c].priority \in {p.number, -1}

\* However long the broker hangs, an offloaded call is answered, unless a
\* command that was not offloaded holds the loop for ever.
AnsweredUnlessLoopHeld ==
  \A c \in Calls : caller[c] = "waiting" ~> (caller[c] # "waiting" \/ [](loop # Free))
=============================================================================
