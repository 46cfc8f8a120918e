----------------------------- MODULE PurgeQueue -----------------------------
(***************************************************************************)
(* One purge_queue command (actions/purge.py) against a queue that is in   *)
(* use: producers and consumers change its depth at any moment.            *)
(*                                                                         *)
(* The command makes two calls on the offload pool, each under a timeout:  *)
(* "probe" measures the depth, and, when the guards let it, "purge"        *)
(* empties the queue.  The confirm token names the queue and the depth the *)
(* operator was shown; verifying it belongs to z4j_core.                   *)
(***************************************************************************)
EXTENDS Integers, Sequences, FiniteSets

CONSTANTS
  MaxDepth,     \* bound on the depth of the queue
  Threshold,    \* _purge_threshold()
  Requests,     \* records [queue |-> , token |-> , force |-> ]
  NoToken,      \* confirm_token is None
  NoDepth,      \* the depth is None
  Others,       \* calls of earlier commands
  MaxWorkers    \* _MAX_WORKERS

ASSUME PurgeAssumption ==
  /\ MaxDepth \in Nat /\ Threshold \in Nat \ {0} /\ MaxWorkers \in Nat \ {0}
  /\ Others \intersect {"probe", "purge"} = {}
  /\ NoDepth \notin 0..MaxDepth

VARIABLES
  caller, work, queue, effects,   \* the offload pool
  depth,      \* messages in the queue the command names
  request,    \* the command
  secret,     \* whether the agent has the project secret
  legacy,     \* Z4J_ACCEPT_LEGACY_PURGE_TOKEN
  pc,         \* where the coroutine is
  reading,    \* what _measure_depth read
  measured,   \* the coroutine's depth
  seen,       \* history: the depths of the queue since the command started
  lost        \* history: the messages the purge removed

poolVars  == <<caller, work, queue, effects>>
purgeVars == <<depth, request, secret, legacy, pc, reading, measured, seen, lost>>
vars      == <<poolVars, purgeVars>>

Pool == INSTANCE OffloadPool WITH Calls <- {"probe", "purge"} \union Others

Init == /\ Pool!Init
        /\ depth \in 0..MaxDepth
        /\ request \in Requests
        /\ secret \in BOOLEAN
        /\ legacy \in BOOLEAN
        /\ pc = "start"
        /\ reading = NoDepth
        /\ measured = NoDepth
        /\ seen = {}
        /\ lost = 0

\* Producers and consumers of the broker; the bound is MaxDepth.
Traffic ==
  /\ depth' \in {depth - 1, depth + 1} \intersect (0..MaxDepth)
  /\ seen' = IF pc = "start" THEN seen ELSE seen \union {depth'}
  /\ UNCHANGED <<poolVars, request, secret, legacy, pc, reading, measured, lost>>

\* Calls left over from earlier commands: answered, or timed out and hung.
EarlierCommand(o) == /\ pc = "start"
                     /\ Pool!Submit(o)
                     /\ UNCHANGED purgeVars

\* purge_queue_action starts with the depth probe.
Probe ==
  /\ pc = "start"
  /\ \A o \in Others : caller[o] # "waiting"
  /\ Pool!Submit("probe")
  /\ pc' = "probing"
  /\ seen' = {depth}
  /\ UNCHANGED <<depth, request, secret, legacy, reading, measured, lost>>

\* A pool thread in _measure_depth: it reads the depth, or no depth when the
\* broker does not tell or raises, which it swallows.
Measure ==
  /\ Pool!Apply("probe")
  /\ reading' \in {depth, NoDepth}
  /\ UNCHANGED <<depth, request, secret, legacy, pc, measured, seen, lost>>

\* A pool thread in _do_purge: channel.queue_purge empties the queue.
Empty ==
  /\ Pool!Apply("purge")
  /\ lost' = depth
  /\ depth' = 0
  /\ seen' = seen \union {0}
  /\ UNCHANGED <<request, secret, legacy, pc, reading, measured>>

\* Everything else the pool does; _measure_depth never raises, _do_purge may
\* (an unsupported channel, a broker error).
PoolStep(c) ==
  /\ \/ c \notin {"probe", "purge"} /\ Pool!Apply(c)
     \/ c # "probe" /\ Pool!Raise(c)
     \/ Pool!Take(c) \/ Pool!Return(c) \/ Pool!Deliver(c) \/ Pool!Timeout(c)
  /\ UNCHANGED purgeVars

\* verify_purge_confirm_token: the keyed token when there is a secret, the
\* unkeyed one when the operator allows it, each bound to queue and depth.
Verified(token, q, d) ==
  /\ token.queue = q /\ token.depth = d
  /\ IF token.keyed THEN secret ELSE legacy

\* Mutant: the threshold is not checked.
ConfirmedAtAnyDepth(d) ==
  \/ request.force
  \/ request.token # NoToken /\ d # NoDepth /\ Verified(request.token, request.queue, d)

\* The guards of purge_queue_action between the probe and the purge.
Confirmed(d) ==
  \/ request.force
  \/ /\ request.token # NoToken
     /\ d # NoDepth
     /\ d <= Threshold
     /\ Verified(request.token, request.queue, d)

\* Mutant: a refused command only gives up after the purge was offloaded.
DecideLate ==
  /\ pc = "probing"
  /\ caller["probe"] # "waiting"
  /\ measured' = IF caller["probe"] = "success" THEN reading ELSE NoDepth
  /\ pc' = IF Confirmed(measured') THEN "purging" ELSE "refused"
  /\ Pool!Submit("purge")
  /\ UNCHANGED <<depth, request, secret, legacy, reading, seen, lost>>

\* The probe came back, or timed out, which counts as no depth.  Without an
\* await in between the guards refuse or the purge is offloaded.
Decide ==
  /\ pc = "probing"
  /\ caller["probe"] # "waiting"
  /\ measured' = IF caller["probe"] = "success" THEN reading ELSE NoDepth
  /\ \/ /\ ~ Confirmed(measured')
        /\ pc' = "refused"
        /\ UNCHANGED poolVars
     \/ /\ Confirmed(measured')
        /\ pc' = "purging"
        /\ Pool!Submit("purge")
  /\ UNCHANGED <<depth, request, secret, legacy, reading, seen, lost>>

\* Mutant: only a definite outcome of the purge is answered.
AnswerableDefinite == caller["purge"] \in {"success", "failed"}

\* offload of the purge has returned or raised, the timeout included.
Answerable == caller["purge"] # "waiting"

\* Mutant: the depth is written back as reduced by the purge.
FinishDrained == /\ pc = "purging"
                 /\ Answerable
                 /\ pc' = "answered"
                 /\ measured' = (IF measured = NoDepth THEN 0 ELSE measured) - lost
                 /\ UNCHANGED <<poolVars, depth, request, secret, legacy, reading, seen, lost>>

\* The purge's answer: its outcome, or indeterminate on a timeout.
Finish == /\ pc = "purging"
          /\ Answerable
          /\ pc' = "answered"
          /\ UNCHANGED <<poolVars, depth, request, secret, legacy, reading, measured, seen, lost>>

Command == Probe \/ Decide \/ Finish

Next == \/ Command
        \/ Measure
        \/ Empty
        \/ \E c \in {"probe", "purge"} \union Others : PoolStep(c)
        \/ \E o \in Others : EarlierCommand(o)
        \/ Traffic

\* The event loop runs the coroutine and its timers; threads may hang.
Spec == /\ Init /\ [][Next]_vars
        /\ WF_vars(Command)
        /\ \A c \in {"probe", "purge"} \union Others :
             WF_vars((Pool!Deliver(c) \/ Pool!Timeout(c)) /\ UNCHANGED purgeVars)
-----------------------------------------------------------------------------
Depths == 0..MaxDepth

TypeOK == /\ Pool!TypeOK
          /\ depth \in Depths
          /\ request \in Requests
          /\ secret \in BOOLEAN /\ legacy \in BOOLEAN
          /\ pc \in {"start", "probing", "purging", "refused", "answered"}
          /\ reading \in Depths \union {NoDepth}
          /\ measured \in Depths \union {NoDepth}
          /\ seen \subseteq Depths
          /\ lost \in Depths

\* A queue is only emptied with force, or on a token for this queue and a depth
\* within the threshold that the queue really had while the command ran.
\* (A token carries no nonce: an old one for the same depth is as good.)
PurgeWasConfirmed ==
  effects["purge"] > 0
    => \/ request.force
       \/ /\ request.token # NoToken
          /\ request.token.queue = request.queue
          /\ request.token.depth \in seen
          /\ request.token.depth <= Threshold
          /\ IF request.token.keyed THEN secret ELSE legacy

\* A command that was refused, or answered success or failed, empties nothing
\* afterwards: only an indeterminate purge may still happen (purge.py:277-279).
AnswerSettles ==
  [][(pc = "refused" \/ caller["purge"] \in {"success", "failed"})
       => effects'["purge"] = effects["purge"]]_vars

\* A broker that hangs in the probe or in the purge cannot hold the command.
PurgeTerminates == <>(pc \in {"refused", "answered"})
=============================================================================
