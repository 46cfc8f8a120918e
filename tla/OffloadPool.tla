---------------------------- MODULE OffloadPool ----------------------------
(***************************************************************************)
(* The dedicated, bounded thread pool for broker I/O (_offload.py).        *)
(*                                                                         *)
(* A command handler on the agent's event loop calls offload(fn, timeout): *)
(* fn is queued for a pool thread and the handler awaits its future under  *)
(* a timeout.  When the timeout fires first, only the FUTURE is cancelled: *)
(* a work item that is still queued will never run, a thread that already  *)
(* runs keeps going, and the broker may carry the operation out after the  *)
(* caller was answered.  Every command that touches the broker (retry,     *)
(* submit, cancel, purge, restart, rate limit) is a call of this module.   *)
(*                                                                         *)
(* The pool itself is concurrent.futures.ThreadPoolExecutor.  A thread     *)
(* that talks to a hung broker may never come back, so no fairness is      *)
(* assumed of a thread.                                                    *)
(***************************************************************************)
EXTENDS Naturals, Sequences, FiniteSets

CONSTANTS
  Calls,       \* the offloaded calls
  MaxWorkers   \* _MAX_WORKERS

ASSUME MaxWorkersAssumption == MaxWorkers \in Nat \ {0}

VARIABLES
  caller,   \* caller[c]: the coroutine: not issued, awaiting, or its answer
  work,     \* work[c]: where c's work item is
  queue,    \* the executor's FIFO of work items not yet taken by a thread
  effects   \* effects[c]: how often the broker carried out c's operation

vars == <<caller, work, queue, effects>>

CallerStates == {"idle", "waiting", "success", "failed", "indeterminate"}
WorkStates   == {"none", "queued", "cancelled",
                 "running",    \* a thread is in fn, before the broker acts
                 "applied",    \* the broker has acted, fn has not returned
                 "returned", "raised"}

\* The calls that occupy a thread of the pool.
Busy == {c \in Calls : work[c] \in {"running", "applied"}}

Init == /\ caller  = [c \in Calls |-> "idle"]
        /\ work    = [c \in Calls |-> "none"]
        /\ queue   = <<>>
        /\ effects = [c \in Calls |-> 0]

\* offload: run_in_executor puts the work item at the end of the queue and
\* the coroutine starts to await it.
Submit(c) ==
  /\ caller[c] = "idle"
  /\ caller' = [caller EXCEPT ![c] = "waiting"]
  /\ work'   = [work EXCEPT ![c] = "queued"]
  /\ queue'  = Append(queue, c)
  /\ UNCHANGED effects

\* A free thread takes the oldest work item; one that was cancelled while it
\* was queued is thrown away (set_running_or_notify_cancel).
Take(c) ==
  /\ queue # <<>> /\ Head(queue) = c
  /\ Cardinality(Busy) < MaxWorkers
  /\ queue' = Tail(queue)
  /\ \/ /\ work[c] = "queued"
        /\ work' = [work EXCEPT ![c] = "running"]
     \/ /\ work[c] = "cancelled"
        /\ UNCHANGED work
  /\ UNCHANGED <<caller, effects>>

\* The broker carries out the operation.
Apply(c) ==
  /\ work[c] = "running"
  /\ work'    = [work EXCEPT ![c] = "applied"]
  /\ effects' = [effects EXCEPT ![c] = @ + 1]
  /\ UNCHANGED <<caller, queue>>

\* fn returns: the broker acknowledged the operation.
Return(c) ==
  /\ work[c] = "applied"
  /\ work' = [work EXCEPT ![c] = "returned"]
  /\ UNCHANGED <<caller, queue, effects>>

\* fn raises: the broker refused, or the connection broke before or after
\* the broker acted.
Raise(c) ==
  /\ work[c] \in {"running", "applied"}
  /\ work' = [work EXCEPT ![c] = "raised"]
  /\ UNCHANGED <<caller, queue, effects>>

\* Mutant: the exception of fn is swallowed and the call reported done.
OutcomeSwallowed(w) == "success"

\* What the command handlers answer for a call that ended in time.
OutcomeOf(w) == IF w = "returned" THEN "success" ELSE "failed"

\* offload returns or re-raises: the outcome reached the loop in time.
Deliver(c) ==
  /\ caller[c] = "waiting"
  /\ work[c] \in {"returned", "raised"}
  /\ caller' = [caller EXCEPT ![c] = OutcomeOf(work[c])]
  /\ UNCHANGED <<work, queue, effects>>

\* indeterminate_timeout_result: what the handlers answer on a timeout.
TimeoutAnswer == "indeterminate"

\* Mutants: the await is shielded, so the queued work item survives the
\* timeout; and a timer that is only armed once a thread has taken fn up.
TimeoutShielded(c) ==
  /\ caller[c] = "waiting"
  /\ caller' = [caller EXCEPT ![c] = TimeoutAnswer]
  /\ UNCHANGED <<work, queue, effects>>

TimeoutOfRunning(c) ==
  /\ caller[c] = "waiting" /\ work[c] # "queued"
  /\ caller' = [caller EXCEPT ![c] = TimeoutAnswer]
  /\ UNCHANGED <<work, queue, effects>>

\* offload's except branch: the future is cancelled, which stops a work item
\* that is still queued and nothing else.  An outcome that exists but has not
\* reached the coroutine yet is lost.
Timeout(c) ==
  /\ caller[c] = "waiting"
  /\ caller' = [caller EXCEPT ![c] = TimeoutAnswer]
  /\ work'   = [work EXCEPT ![c] = IF @ = "queued" THEN "cancelled" ELSE @]
  /\ UNCHANGED <<queue, effects>>

\* What the pool and the event loop do once a call has been submitted.
Step(c) == \/ Take(c)
           \/ Apply(c)
           \/ Return(c)
           \/ Raise(c)
           \/ Deliver(c)
           \/ Timeout(c)

Next == \E c \in Calls : Submit(c) \/ Step(c)

Spec == Init /\ [][Next]_vars

\* The event loop runs: asyncio's timer fires and a finished future wakes its
\* coroutine.  The threads are at the mercy of the broker and get nothing.
LoopFairness == \A c \in Calls : WF_vars(Deliver(c) \/ Timeout(c))

FairSpec == Spec /\ LoopFairness
-----------------------------------------------------------------------------
TypeOK == /\ caller  \in [Calls -> CallerStates]
          /\ work    \in [Calls -> WorkStates]
          /\ queue   \in Seq(Calls)
          /\ effects \in [Calls -> Nat]

\* Every call that a caller believes has succeeded was carried out, exactly
\* once; and a call that no thread ever took up never touched the broker.
HonestAnswer ==
  \A c \in Calls :
    /\ caller[c] = "success" => effects[c] = 1
    /\ work[c] \in {"none", "queued", "cancelled"} => effects[c] = 0
    /\ effects[c] <= 1

\* A stalled broker exhausts at most MaxWorkers threads, however many calls
\* time out and leave their thread behind.
PoolBounded == Cardinality(Busy) <= MaxWorkers

\* After a definite answer the broker never acts on the call again: only an
\* indeterminate one may still happen (_offload.py: "never a definitive
\* 'failed', which would invite a retry that double-applies").
DefiniteIsSettled ==
  [][\A c \in Calls :
       caller[c] \in {"success", "failed"} => effects'[c] = effects[c]]_vars

\* A call whose caller was answered while it was still queued is never
\* started: what an exhausted pool could not begin in time does not surface
\* minutes later when a thread comes free.
NoStartAfterAnswer ==
  [][\A c \in Calls :
       (work[c] # "running" /\ work'[c] = "running") => caller[c] = "waiting"]_vars

\* However long the broker hangs, each accepted call is answered.
EventuallyAnswered ==
  \A c \in Calls : caller[c] = "waiting" ~> caller[c] \in {"success", "failed", "indeterminate"}

\* To an operator the pool is the abstract contract.
Outcome == INSTANCE CommandOutcome WITH answer <- caller

ImplementsCommandOutcome == Outcome!Spec
=============================================================================
