----------------------------- MODULE ForkSafety -----------------------------
(***************************************************************************)
(* What the adapter carries across fork: the event-loss counter of         *)
(* LossCounter, made a child's own at its first use there, and the         *)
(* executor of OffloadExecutor, dropped by a hook before the child runs.   *)
(* The two meet in nothing but the fork, and no thread is in both at once, *)
(* so a behaviour follows either one to its end while the other rests.     *)
(***************************************************************************)
EXTENDS LossCounter

CONSTANT Callers   \* the threads that call offload

VARIABLES
  part,                                    \* what this behaviour follows
  forked, executor, execLock, execPc, got, created   \* of OffloadExecutor

execVars == <<forked, executor, execLock, execPc, got, created>>

Executor == INSTANCE OffloadExecutor
              WITH Threads <- Callers, alive <- forked, lock <- execLock, pc <- execPc

ForkInit == /\ part \in {"counter", "executor"}
            /\ Init /\ Executor!Init

ForkNext == /\ UNCHANGED part
            /\ \/ part = "counter" /\ Next /\ UNCHANGED execVars
               \/ part = "executor" /\ Executor!Next /\ UNCHANGED vars

\* Threads are scheduled; the counter's lock comes free and is granted in
\* turn; the executor's is asked for only until the first creation.
ForkSpec ==
  /\ ForkInit /\ [][ForkNext]_<<part, vars, execVars>>
  /\ \A p \in Processes, t \in Threads : WF_vars(Step(p, t)) /\ SF_vars(Acquire(p, t))
  /\ \A p \in Processes, t \in Callers : WF_execVars(Executor!Step(p, t))
-----------------------------------------------------------------------------
TypesOK == TypeOK /\ Executor!TypeOK

OneExecutor == Executor!OneExecutor

\* No thread of either part waits for a lock that nobody will release, at
\* whatever point of it the process forked.
NoThreadStuck == NeverStuck /\ Executor!NeverStuck
=============================================================================
