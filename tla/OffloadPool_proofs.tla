------------------------- MODULE OffloadPool_proofs -------------------------
(***************************************************************************)
(* OffloadPool, for any set of calls and any number of threads: its        *)
(* answers are honest, the pool stays bounded, a definite answer settles   *)
(* the matter, and the pool implements CommandOutcome.                     *)
(***************************************************************************)
EXTENDS OffloadPool, FiniteSetTheorems, SequenceTheorems, TLAPS

\* The caller's state, the work item and the broker's effect go together:
\* this is what makes the answers honest, and it is inductive.
Agreement ==
  \A c \in Calls :
    /\ work[c] = "none" <=> caller[c] = "idle"
    /\ work[c] \in {"none", "queued", "cancelled", "running"} => effects[c] = 0
    /\ work[c] \in {"applied", "returned"} => effects[c] = 1
    /\ effects[c] <= 1
    /\ work[c] = "queued" => caller[c] = "waiting"
    /\ work[c] = "cancelled" => caller[c] = "indeterminate"
    /\ caller[c] = "success" => work[c] = "returned"
    /\ caller[c] = "failed"  => work[c] = "raised"

BusyInv == IsFiniteSet(Busy) /\ PoolBounded

IInv == TypeOK /\ Agreement /\ BusyInv
-----------------------------------------------------------------------------
\* Whatever the calls do, every variable of the pool keeps its type.
THEOREM Typing == Spec => []TypeOK
<1>1. Init => TypeOK
  BY DEF Init, TypeOK, CallerStates, WorkStates
<1>2. TypeOK /\ [Next]_vars => TypeOK'
  <2> SUFFICES ASSUME TypeOK, [Next]_vars
               PROVE  TypeOK'
    OBVIOUS
  <2> USE DEF TypeOK, CallerStates, WorkStates
  <2>1. ASSUME NEW c \in Calls, Submit(c) PROVE TypeOK'
    BY <2>1 DEF Submit
  <2>2. ASSUME NEW c \in Calls, Take(c) PROVE TypeOK'
    <3>1. queue' \in Seq(Calls)
      BY <2>2, HeadTailProperties DEF Take
    <3> QED
      BY <2>2, <3>1 DEF Take
  <2>3. ASSUME NEW c \in Calls, Apply(c) PROVE TypeOK'
    BY <2>3 DEF Apply
  <2>4. ASSUME NEW c \in Calls, Return(c) PROVE TypeOK'
    BY <2>4 DEF Return
  <2>5. ASSUME NEW c \in Calls, Raise(c) PROVE TypeOK'
    BY <2>5 DEF Raise
  <2>6. ASSUME NEW c \in Calls, Deliver(c) PROVE TypeOK'
    BY <2>6 DEF Deliver, OutcomeOf
  <2>7. ASSUME NEW c \in Calls, Timeout(c) PROVE TypeOK'
    BY <2>7 DEF Timeout, TimeoutAnswer
  <2>8. CASE UNCHANGED vars
    BY <2>8 DEF vars
  <2> QED
    BY <2>1, <2>2, <2>3, <2>4, <2>5, <2>6, <2>7, <2>8 DEF Next, Step
<1> QED
  BY <1>1, <1>2, PTL DEF Spec

\* A step keeps the caller, the work item and the broker's effect in agreement.
LEMMA AgreementStep ==
  ASSUME TypeOK, Agreement, [Next]_vars
  PROVE  Agreement'
<1> USE DEF TypeOK, Agreement, CallerStates, WorkStates
<1>1. ASSUME NEW c \in Calls, Submit(c) PROVE Agreement'
  BY <1>1 DEF Submit
<1>2. ASSUME NEW c \in Calls, Take(c) PROVE Agreement'
  BY <1>2 DEF Take
<1>3. ASSUME NEW c \in Calls, Apply(c) PROVE Agreement'
  BY <1>3 DEF Apply
<1>4. ASSUME NEW c \in Calls, Return(c) PROVE Agreement'
  BY <1>4 DEF Return
<1>5. ASSUME NEW c \in Calls, Raise(c) PROVE Agreement'
  BY <1>5 DEF Raise
<1>6. ASSUME NEW c \in Calls, Deliver(c) PROVE Agreement'
  BY <1>6 DEF Deliver, OutcomeOf
<1>7. ASSUME NEW c \in Calls, Timeout(c) PROVE Agreement'
  BY <1>7 DEF Timeout, TimeoutAnswer
<1>8. CASE UNCHANGED vars
  BY <1>8 DEF vars
<1> QED
  BY <1>1, <1>2, <1>3, <1>4, <1>5, <1>6, <1>7, <1>8 DEF Next, Step

\* Only Take adds a call to Busy, one at a time and below the bound; every
\* other step leaves Busy alone or shrinks it.
LEMMA BusyStep ==
  ASSUME TypeOK, Agreement, BusyInv, [Next]_vars
  PROVE  BusyInv'
<1>1. CASE \E c \in Calls : Take(c)
  <2> PICK c \in Calls : Take(c)
    BY <1>1
  <2>1. CASE work[c] = "queued"
    <3>1. Busy' = Busy \union {c} /\ c \notin Busy
      BY <2>1 DEF Take, Busy, TypeOK, WorkStates
    <3>2. IsFiniteSet(Busy') /\ Cardinality(Busy') = Cardinality(Busy) + 1
      BY <3>1, FS_AddElement DEF BusyInv
    <3>3. Cardinality(Busy) < MaxWorkers /\ Cardinality(Busy) \in Nat
      BY FS_CardinalityType DEF Take, BusyInv
    <3> QED
      BY <3>2, <3>3, MaxWorkersAssumption DEF BusyInv, PoolBounded
  <2>2. CASE work[c] # "queued"
    <3>1. Busy' = Busy
      BY <2>2 DEF Take, Busy
    <3> QED
      BY <3>1 DEF BusyInv, PoolBounded
  <2> QED
    BY <2>1, <2>2
<1>2. CASE ~ \E c \in Calls : Take(c)
  <2>1. Busy' \subseteq Busy
    <3>1. ASSUME NEW c \in Calls,
                 Submit(c) \/ Apply(c) \/ Return(c) \/ Raise(c) \/ Deliver(c) \/ Timeout(c)
          PROVE  Busy' \subseteq Busy
      BY <3>1 DEF Submit, Apply, Return, Raise, Deliver, Timeout, Busy, TypeOK, WorkStates, Agreement
    <3>2. CASE UNCHANGED vars
      BY <3>2 DEF vars, Busy
    <3> QED
      BY <1>2, <3>1, <3>2 DEF Next, Step
  <2>2. IsFiniteSet(Busy') /\ Cardinality(Busy') <= Cardinality(Busy)
    BY <2>1, FS_Subset DEF BusyInv
  <2>3. Cardinality(Busy) \in Nat /\ Cardinality(Busy') \in Nat
    BY <2>2, FS_CardinalityType DEF BusyInv
  <2> QED
    BY <2>2, <2>3, MaxWorkersAssumption DEF BusyInv, PoolBounded
<1> QED
  BY <1>1, <1>2

\* The inductive invariant holds of every behaviour.
LEMMA Inductive == Spec => []IInv
<1>1. Init => IInv
  <2> SUFFICES ASSUME Init PROVE IInv
    OBVIOUS
  <2>1. TypeOK /\ Agreement
    BY DEF Init, TypeOK, Agreement, CallerStates, WorkStates
  <2>2. Busy = {}
    BY DEF Init, Busy
  <2>3. BusyInv
    BY <2>2, FS_EmptySet, MaxWorkersAssumption DEF BusyInv, PoolBounded
  <2> QED
    BY <2>1, <2>3 DEF IInv
<1>2. TypeOK' /\ IInv /\ [Next]_vars => IInv'
  BY AgreementStep, BusyStep DEF IInv
<1> QED
  BY <1>1, <1>2, Typing, PTL DEF Spec
-----------------------------------------------------------------------------
\* A success was carried out exactly once, and what no thread took up never
\* reached the broker.
THEOREM Honesty == Spec => []HonestAnswer
<1>1. IInv => HonestAnswer
  BY DEF IInv, TypeOK, Agreement, HonestAnswer, WorkStates
<1> QED
  BY <1>1, Inductive, PTL

\* A hung broker never holds more than MaxWorkers threads.
THEOREM Bounded == Spec => []PoolBounded
<1>1. IInv => PoolBounded
  BY DEF IInv, BusyInv
<1> QED
  BY <1>1, Inductive, PTL

\* After "success" or "failed" the broker does nothing more for the call.
THEOREM Settled == Spec => DefiniteIsSettled
<1>1. IInv /\ [Next]_vars
      => [\A c \in Calls : caller[c] \in {"success", "failed"} => effects'[c] = effects[c]]_vars
  <2> SUFFICES ASSUME IInv, Next, NEW d \in Calls, caller[d] \in {"success", "failed"}
               PROVE  effects'[d] = effects[d]
    BY DEF vars
  <2>1. work[d] \in {"returned", "raised"}
    BY DEF IInv, Agreement
  <2> PICK c \in Calls : Submit(c) \/ Step(c)
    BY DEF Next
  <2> QED
    BY <2>1 DEF Step, Submit, Take, Apply, Return, Raise, Deliver, Timeout, IInv, TypeOK
<1> QED
  BY <1>1, Inductive, PTL DEF Spec, DefiniteIsSettled

\* A work item is only ever started for a caller that still waits for it.
THEOREM NoLateStart == Spec => NoStartAfterAnswer
<1>1. IInv /\ [Next]_vars
      => [\A c \in Calls :
            (work[c] # "running" /\ work'[c] = "running") => caller[c] = "waiting"]_vars
  <2> SUFFICES ASSUME IInv, Next, NEW d \in Calls, work[d] # "running", work'[d] = "running"
               PROVE  caller[d] = "waiting"
    BY DEF vars
  <2> PICK c \in Calls : Submit(c) \/ Step(c)
    BY DEF Next
  <2> QED
    BY DEF Step, Submit, Take, Apply, Return, Raise, Deliver, Timeout, IInv, TypeOK, Agreement
<1> QED
  BY <1>1, Inductive, PTL DEF Spec, NoStartAfterAnswer

\* Every step of the pool is a step of the abstract contract or invisible to it.
THEOREM Refinement == Spec => ImplementsCommandOutcome
<1> USE DEF Outcome!Next, Outcome!Issue, Outcome!Apply, Outcome!Answer, Outcome!Answers,
            Outcome!Definite, Outcome!vars
<1>1. Init => Outcome!Init
  BY DEF Init, Outcome!Init
<1>2. IInv /\ [Next]_vars => [Outcome!Next]_(Outcome!vars)
  <2> SUFFICES ASSUME IInv, [Next]_vars
               PROVE  [Outcome!Next]_(Outcome!vars)
    OBVIOUS
  <2> USE DEF IInv, TypeOK, Agreement
  <2>1. ASSUME NEW c \in Calls, Submit(c) PROVE Outcome!Issue(c)
    BY <2>1 DEF Submit
  <2>2. ASSUME NEW c \in Calls, Take(c) \/ Return(c) \/ Raise(c) PROVE UNCHANGED Outcome!vars
    BY <2>2 DEF Take, Return, Raise
  <2>3. ASSUME NEW c \in Calls, Apply(c) PROVE Outcome!Apply(c)
    <3>1. work[c] = "running" /\ effects[c] = 0 /\ caller[c] \in CallerStates
      BY <2>3 DEF Apply
    <3>2. caller[c] \in {"waiting", "indeterminate"}
      BY <3>1 DEF CallerStates
    <3> QED
      BY <2>3, <3>1, <3>2 DEF Apply
  <2>4. ASSUME NEW c \in Calls, Deliver(c) PROVE Outcome!Answer(c, OutcomeOf(work[c]))
    BY <2>4 DEF Deliver, OutcomeOf
  <2>5. ASSUME NEW c \in Calls, Timeout(c) PROVE Outcome!Answer(c, TimeoutAnswer)
    BY <2>5 DEF Timeout, TimeoutAnswer
  <2>6. CASE UNCHANGED vars
    BY <2>6 DEF vars
  <2> QED
    BY <2>1, <2>2, <2>3, <2>4, <2>5, <2>6 DEF Next, Step, OutcomeOf, TimeoutAnswer
<1> QED
  BY <1>1, <1>2, Inductive, PTL DEF Spec, ImplementsCommandOutcome, Outcome!Spec
=============================================================================
