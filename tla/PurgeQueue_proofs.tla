------------------------- MODULE PurgeQueue_proofs -------------------------
(***************************************************************************)
(* PurgeQueue, for any queue, any request and any calls of earlier         *)
(* commands.  The command drives the offload pool, and nothing it does to  *)
(* the pool is foreign to it: so what OffloadPool_proofs shows of the pool *)
(* holds here, and what is left to prove is about the command itself.      *)
(***************************************************************************)
EXTENDS PurgeQueue, TLAPS

PoolCalls == {"probe", "purge"} \union Others

PoolProofs == INSTANCE OffloadPool_proofs WITH Calls <- {"probe", "purge"} \union Others

\* How far the command is decides which of its two calls were made.
CallsFollowPc ==
  /\ caller["probe"] = "idle" <=> pc = "start"
  /\ caller["purge"] = "idle" <=> pc \in {"start", "probing", "refused"}

\* While the command runs, seen keeps up with the queue and with the probe.
SeenKeepsUp ==
  /\ IF pc = "start" THEN reading = NoDepth ELSE depth \in seen
  /\ reading \in seen \union {NoDepth}

\* Once the purge was offloaded the guards had let it through.
WasConfirmed ==
  pc \in {"purging", "answered"}
    => \/ request.force
       \/ /\ request.token # NoToken
          /\ request.token.queue = request.queue
          /\ request.token.depth \in seen
          /\ request.token.depth <= Threshold
          /\ IF request.token.keyed THEN secret ELSE legacy

IInv == CallsFollowPc /\ SeenKeepsUp /\ WasConfirmed
-----------------------------------------------------------------------------
\* The pool's definitions, reached through the component and through the proofs
\* about the pool, are the same.
LEMMA SamePool ==
  /\ Pool!Init <=> PoolProofs!Init
  /\ Pool!TypeOK <=> PoolProofs!TypeOK
  /\ poolVars = PoolProofs!vars
<1>1. Pool!Init <=> PoolProofs!Init
  BY DEF Pool!Init, PoolProofs!Init
<1>2. Pool!TypeOK <=> PoolProofs!TypeOK
  BY DEF Pool!TypeOK, PoolProofs!TypeOK, Pool!CallerStates, PoolProofs!CallerStates,
         Pool!WorkStates, PoolProofs!WorkStates
<1>3. poolVars = PoolProofs!vars
  BY DEF poolVars, PoolProofs!vars
<1> QED
  BY <1>1, <1>2, <1>3

\* Each step of the pool that the command takes is one the proofs know.
LEMMA SameSteps ==
  ASSUME NEW c \in PoolCalls
  PROVE  /\ Pool!Submit(c) => PoolProofs!Next
         /\ Pool!Step(c) => PoolProofs!Next
<1> USE DEF PoolCalls
<1>1. Pool!Submit(c) => PoolProofs!Submit(c)
  BY DEF Pool!Submit, PoolProofs!Submit
<1>2. Pool!Take(c) => PoolProofs!Take(c)
  BY DEF Pool!Take, PoolProofs!Take, Pool!Busy, PoolProofs!Busy,
         Pool!Cardinality, PoolProofs!Cardinality, Pool!IsFiniteSet, PoolProofs!IsFiniteSet
<1>3. Pool!Apply(c) => PoolProofs!Apply(c)
  BY DEF Pool!Apply, PoolProofs!Apply
<1>4. Pool!Return(c) => PoolProofs!Return(c)
  BY DEF Pool!Return, PoolProofs!Return
<1>5. Pool!Raise(c) => PoolProofs!Raise(c)
  BY DEF Pool!Raise, PoolProofs!Raise
<1>6. Pool!Deliver(c) => PoolProofs!Deliver(c)
  BY DEF Pool!Deliver, PoolProofs!Deliver, Pool!OutcomeOf, PoolProofs!OutcomeOf
<1>7. Pool!Timeout(c) => PoolProofs!Timeout(c)
  BY DEF Pool!Timeout, PoolProofs!Timeout, Pool!TimeoutAnswer, PoolProofs!TimeoutAnswer
<1> QED
  BY <1>1, <1>2, <1>3, <1>4, <1>5, <1>6, <1>7 DEF PoolProofs!Next, PoolProofs!Step, Pool!Step

\* A step of the command, of the queue or of an earlier call is a step of the
\* pool or leaves the pool alone.
LEMMA StepIsPoolStep ==
  ASSUME [Next]_vars
  PROVE  [PoolProofs!Next]_(PoolProofs!vars)
<1> USE DEF PoolCalls, poolVars, PoolProofs!vars
<1>1. CASE Command
  <2>1. CASE Probe
    BY <2>1, SameSteps DEF Probe
  <2>2. CASE Decide
    BY <2>2, SameSteps DEF Decide
  <2>3. CASE Finish
    BY <2>3 DEF Finish
  <2> QED
    BY <1>1, <2>1, <2>2, <2>3 DEF Command
<1>2. CASE Measure
  BY <1>2, SameSteps DEF Measure, Pool!Step
<1>3. CASE Empty
  BY <1>3, SameSteps DEF Empty, Pool!Step
<1>4. ASSUME NEW c \in PoolCalls, PoolStep(c) PROVE PoolProofs!Next
  BY <1>4, SameSteps DEF PoolStep, Pool!Step
<1>5. ASSUME NEW o \in Others, EarlierCommand(o) PROVE PoolProofs!Next
  BY <1>5, SameSteps DEF EarlierCommand
<1>6. CASE Traffic
  BY <1>6 DEF Traffic
<1>7. CASE UNCHANGED vars
  BY <1>7 DEF vars
<1> QED
  BY <1>1, <1>2, <1>3, <1>4, <1>5, <1>6, <1>7 DEF Next

\* The command keeps the pool's contract: every behaviour of PurgeQueue is,
\* as far as the pool is concerned, a behaviour of OffloadPool.
THEOREM UsesPool == Spec => PoolProofs!Spec
<1>1. Init => PoolProofs!Init
  BY SamePool DEF Init
<1>2. [Next]_vars => [PoolProofs!Next]_(PoolProofs!vars)
  BY StepIsPoolStep
<1> QED
  BY <1>1, <1>2, PTL DEF Spec, PoolProofs!Spec

\* So the pool's inductive invariant holds while the command runs.
LEMMA PoolInvariant == Spec => []PoolProofs!IInv
<1>1. MaxWorkers \in Nat \ {0}
  BY PurgeAssumption
<1> QED
  BY <1>1, UsesPool, PoolProofs!Inductive, PTL
-----------------------------------------------------------------------------
\* Whatever the command, its queue and earlier commands do, every variable
\* keeps its type.
THEOREM Typing == Spec => []TypeOK
<1> DEFINE Own == /\ depth \in Depths
                  /\ request \in Requests
                  /\ secret \in BOOLEAN /\ legacy \in BOOLEAN
                  /\ pc \in {"start", "probing", "purging", "refused", "answered"}
                  /\ reading \in Depths \union {NoDepth}
                  /\ measured \in Depths \union {NoDepth}
                  /\ seen \subseteq Depths
                  /\ lost \in Depths
<1>1. Init => Own
  BY PurgeAssumption DEF Init, Depths
<1>2. Own /\ [Next]_vars => Own'
  <2> SUFFICES ASSUME Own, [Next]_vars
               PROVE  Own'
    OBVIOUS
  <2> USE DEF Depths
  <2>1. CASE Probe
    BY <2>1 DEF Probe
  <2>2. CASE Decide
    BY <2>2 DEF Decide
  <2>3. CASE Finish
    BY <2>3 DEF Finish
  <2>4. CASE Measure
    BY <2>4 DEF Measure
  <2>5. CASE Empty
    BY <2>5, PurgeAssumption DEF Empty
  <2>6. ASSUME NEW c, PoolStep(c) \/ EarlierCommand(c) PROVE Own'
    BY <2>6 DEF PoolStep, EarlierCommand, purgeVars
  <2>7. CASE Traffic
    BY <2>7 DEF Traffic
  <2>8. CASE UNCHANGED vars
    BY <2>8 DEF vars, purgeVars
  <2> QED
    BY <2>1, <2>2, <2>3, <2>4, <2>5, <2>6, <2>7, <2>8 DEF Next, Command
<1>3. PoolProofs!IInv /\ Own => TypeOK
  BY SamePool DEF PoolProofs!IInv, TypeOK
<1> QED
  BY <1>1, <1>2, <1>3, PoolInvariant, PTL DEF Spec

\* The command's invariant holds of every behaviour: each step of the command
\* makes at most the one call its place allows, and what the probe read, or the
\* purge was confirmed by, stays among the depths seen.
LEMMA Inductive == Spec => []IInv
<1>1. Init => IInv
  BY PurgeAssumption DEF Init, Pool!Init, IInv, CallsFollowPc, SeenKeepsUp, WasConfirmed
<1>2. TypeOK /\ PoolProofs!IInv /\ IInv /\ [Next]_vars => IInv'
  <2> SUFFICES ASSUME TypeOK, PoolProofs!IInv, IInv, [Next]_vars
               PROVE  IInv'
    OBVIOUS
  <2>0. /\ caller \in [PoolCalls -> PoolProofs!CallerStates]
        /\ PoolProofs!Agreement
        /\ "probe" \in PoolCalls /\ "purge" \in PoolCalls
    BY DEF PoolProofs!IInv, PoolProofs!TypeOK, PoolCalls
  <2> USE DEF IInv, CallsFollowPc, SeenKeepsUp, WasConfirmed
  <2>1. CASE Probe
    BY <2>0, <2>1 DEF Probe, Pool!Submit
  <2>2. CASE Decide
    <3>0. pc = "probing" /\ UNCHANGED <<depth, request, secret, legacy, reading, seen>>
      BY <2>2 DEF Decide
    <3>1. CASE pc' = "refused" /\ UNCHANGED poolVars
      BY <3>0, <3>1 DEF poolVars
    <3>2. CASE Confirmed(measured') /\ pc' = "purging" /\ Pool!Submit("purge")
      <4>1. CallsFollowPc' /\ SeenKeepsUp'
        BY <2>0, <2>2, <3>2 DEF Decide, Pool!Submit
      <4>2. measured' \in seen \union {NoDepth}
        BY <2>2 DEF Decide
      <4>3. WasConfirmed'
        BY <2>2, <3>2, <4>2 DEF Decide, Confirmed, Verified
      <4> QED
        BY <4>1, <4>3
    <3> QED
      BY <2>2, <3>1, <3>2 DEF Decide
  <2>3. CASE Finish
    BY <2>3 DEF Finish, poolVars
  <2>4. CASE Measure
    <3>1. caller["probe"] # "idle"
      BY <2>0, <2>4 DEF Measure, Pool!Apply, PoolProofs!Agreement, PoolCalls
    <3> QED
      BY <2>4, <3>1 DEF Measure, Pool!Apply
  <2>5. CASE Empty
    <3>1. UNCHANGED <<caller, request, secret, legacy, pc, reading>> /\ seen' = seen \union {0} /\ depth' = 0
      BY <2>5 DEF Empty, Pool!Apply
    <3> QED
      BY <3>1
  <2>6. ASSUME NEW c \in PoolCalls, PoolStep(c) PROVE IInv'
    <3>1. \A d \in PoolCalls : caller'[d] = "idle" <=> caller[d] = "idle"
      BY <2>0, <2>6 DEF PoolStep, Pool!Apply, Pool!Raise, Pool!Take, Pool!Return, Pool!Deliver,
                        Pool!Timeout, Pool!OutcomeOf, Pool!TimeoutAnswer
    <3> QED
      BY <2>0, <2>6, <3>1 DEF PoolStep, purgeVars
  <2>7. ASSUME NEW o \in Others, EarlierCommand(o) PROVE IInv'
    <3>1. o \notin {"probe", "purge"}
      BY PurgeAssumption
    <3> QED
      BY <2>0, <2>7, <3>1 DEF EarlierCommand, Pool!Submit, purgeVars
  <2>8. CASE Traffic
    BY <2>8 DEF Traffic, poolVars, IInv, CallsFollowPc, SeenKeepsUp, WasConfirmed
  <2>9. CASE UNCHANGED vars
    BY <2>9 DEF vars, poolVars, purgeVars, IInv, CallsFollowPc, SeenKeepsUp, WasConfirmed
  <2> QED
    BY <2>1, <2>2, <2>3, <2>4, <2>5, <2>6, <2>7, <2>8, <2>9 DEF Next, Command, PoolCalls
<1> QED
  BY <1>1, <1>2, Typing, PoolInvariant, PTL DEF Spec
-----------------------------------------------------------------------------
\* A queue is emptied only with force, or on a token for this queue and a depth
\* within the threshold that it really had while the command ran.
THEOREM Confirmation == Spec => []PurgeWasConfirmed
<1>1. PoolProofs!IInv /\ TypeOK /\ IInv => PurgeWasConfirmed
  <2> SUFFICES ASSUME PoolProofs!IInv, TypeOK, IInv, effects["purge"] > 0
               PROVE  pc \in {"purging", "answered"}
    BY DEF IInv, WasConfirmed, PurgeWasConfirmed
  <2>1. caller["purge"] # "idle"
    BY DEF PoolProofs!IInv, PoolProofs!Agreement
  <2> QED
    BY <2>1 DEF IInv, CallsFollowPc, TypeOK
<1> QED
  BY <1>1, PoolInvariant, Typing, Inductive, PTL

\* After a refusal, or a definite answer to the purge, the broker does not
\* empty the queue any more.
THEOREM Settled == Spec => AnswerSettles
<1>1. PoolProofs!IInv /\ IInv /\ [Next]_vars
      => [(pc = "refused" \/ caller["purge"] \in {"success", "failed"})
            => effects'["purge"] = effects["purge"]]_vars
  <2> SUFFICES ASSUME PoolProofs!IInv, IInv, Next,
                      pc = "refused" \/ caller["purge"] \in {"success", "failed"}
               PROVE  effects'["purge"] = effects["purge"]
    BY DEF vars
  <2>1. /\ work["purge"] # "running"
        /\ effects \in [PoolCalls -> Nat] /\ "purge" \in PoolCalls
    BY DEF IInv, CallsFollowPc, PoolProofs!IInv, PoolProofs!Agreement, PoolProofs!TypeOK, PoolCalls
  <2>2. ASSUME NEW c \in PoolCalls, Pool!Submit(c) \/ Pool!Step(c)
        PROVE  effects'["purge"] = effects["purge"]
    BY <2>1, <2>2 DEF Pool!Submit, Pool!Step, Pool!Take, Pool!Apply, Pool!Return, Pool!Raise,
                      Pool!Deliver, Pool!Timeout
  <2> QED
    <3>1. CASE Command
      <4>1. \/ \E c \in PoolCalls : Pool!Submit(c)
            \/ UNCHANGED poolVars
        BY <3>1 DEF Command, Probe, Decide, Finish, PoolCalls
      <4> QED
        BY <2>2, <4>1 DEF poolVars
    <3>2. CASE Measure \/ Empty
      BY <2>2, <3>2 DEF Measure, Empty, Pool!Step, PoolCalls
    <3>3. ASSUME NEW c \in PoolCalls, PoolStep(c) \/ EarlierCommand(c)
          PROVE  effects'["purge"] = effects["purge"]
      BY <2>2, <3>3 DEF PoolStep, EarlierCommand, Pool!Step
    <3>4. CASE Traffic
      BY <3>4 DEF Traffic, poolVars
    <3> QED
      BY <3>1, <3>2, <3>3, <3>4 DEF Next, PoolCalls
<1> QED
  BY <1>1, PoolInvariant, Inductive, PTL DEF Spec, AnswerSettles
=============================================================================
