-------------------------- MODULE OffloadExecutor --------------------------
(***************************************************************************)
(* The lazily created executor behind offload, across fork (_offload.py:   *)
(* _get_executor, reset_offload_executor).                                 *)
(*                                                                         *)
(* Each process has its own copy of the two module globals, _executor and  *)
(* _lock.  fork() copies them as they are at that instant, with only the   *)
(* calling thread; the threads that own the inherited pool, and perhaps    *)
(* the lock, do not exist in the child.                                    *)
(***************************************************************************)
EXTENDS Naturals

CONSTANTS Threads,        \* thread names; each process may run one of each
          MaxProcesses    \* bound: the first process and its descendants

Processes == 1..MaxProcesses

None == 0    \* no executor; no holder of a lock

VARIABLES
  alive,      \* the processes forked so far are 1..alive
  executor,   \* executor[p]: None, or the process that created the pool
  lock,       \* lock[p]: None, or <<t, q>>: t of process q acquired it
  pc,         \* pc[p][t]: where thread t of p is in _get_executor
  got,        \* got[p][t]: what _get_executor returned
  created     \* history: created[p]: executors p created

vars == <<alive, executor, lock, pc, got, created>>

Init == /\ alive = 1
        /\ executor = [p \in Processes |-> None]
        /\ lock = [p \in Processes |-> <<>>]
        /\ pc = [p \in Processes |-> [t \in Threads |-> "idle"]]
        /\ got = [p \in Processes |-> [t \in Threads |-> None]]
        /\ created = [p \in Processes |-> 0]

Goto(p, t, l) == pc' = [pc EXCEPT ![p][t] = l]

\* A coroutine of t calls offload.
Call(p, t) == /\ p <= alive
              /\ pc[p][t] = "idle"
              /\ Goto(p, t, "check")
              /\ UNCHANGED <<alive, executor, lock, got, created>>

\* The check outside the lock.
Check(p, t) ==
  /\ pc[p][t] = "check"
  /\ Goto(p, t, IF executor[p] = None THEN "acquire" ELSE "return")
  /\ UNCHANGED <<alive, executor, lock, got, created>>

Acquire(p, t) == /\ pc[p][t] = "acquire"
                 /\ lock[p] = <<>>
                 /\ lock' = [lock EXCEPT ![p] = <<t, p>>]
                 /\ Goto(p, t, "create")
                 /\ UNCHANGED <<alive, executor, got, created>>

\* Mutant: the check is not repeated under the lock.
CreateUnchecked(p, t) ==
  /\ pc[p][t] = "create"
  /\ executor' = [executor EXCEPT ![p] = p]
  /\ created' = [created EXCEPT ![p] = @ + 1]
  /\ Goto(p, t, "release")
  /\ UNCHANGED <<alive, lock, got>>

\* The check under the lock, and the creation.
Create(p, t) ==
  /\ pc[p][t] = "create"
  /\ \/ /\ executor[p] = None
        /\ executor' = [executor EXCEPT ![p] = p]
        /\ created' = [created EXCEPT ![p] = @ + 1]
     \/ /\ executor[p] # None
        /\ UNCHANGED <<executor, created>>
  /\ Goto(p, t, "release")
  /\ UNCHANGED <<alive, lock, got>>

Release(p, t) == /\ pc[p][t] = "release"
                 /\ lock' = [lock EXCEPT ![p] = <<>>]
                 /\ Goto(p, t, "return")
                 /\ UNCHANGED <<alive, executor, got, created>>

\* return _executor reads the global once more, outside the lock.
Return(p, t) == /\ pc[p][t] = "return"
                /\ got' = [got EXCEPT ![p][t] = executor[p]]
                /\ Goto(p, t, "idle")
                /\ UNCHANGED <<alive, executor, lock, created>>

\* Mutant: the inherited lock is kept.
ResetKeepsLock(p, c) ==
  /\ executor' = [executor EXCEPT ![c] = None]
  /\ lock' = [lock EXCEPT ![c] = lock[p]]

\* reset_offload_executor in child c of p: no executor and a fresh lock,
\* whatever the parent's were.
Reset(p, c) == /\ executor' = [executor EXCEPT ![c] = None]
               /\ lock' = [lock EXCEPT ![c] = <<>>]

\* A thread of p that is not inside _get_executor forks; the others of p may
\* be anywhere.  The after_in_child hook runs before any code of the child.
Fork(p, t) == /\ p <= alive /\ alive < MaxProcesses
              /\ pc[p][t] = "idle"
              /\ alive' = alive + 1
              /\ Reset(p, alive + 1)
              /\ UNCHANGED <<pc, got, created>>

Step(p, t) == Check(p, t) \/ Acquire(p, t) \/ Create(p, t) \/ Release(p, t) \/ Return(p, t)

Next == \E p \in Processes, t \in Threads : Call(p, t) \/ Step(p, t) \/ Fork(p, t)

\* Threads are scheduled.  The lock need not be fair: it is asked for only
\* until the first of them has created the pool.
Spec == /\ Init /\ [][Next]_vars
        /\ \A p \in Processes, t \in Threads : WF_vars(Step(p, t))
-----------------------------------------------------------------------------
TypeOK ==
  /\ alive \in Processes
  /\ executor \in [Processes -> Processes \union {None}]
  /\ DOMAIN lock = Processes
  /\ \A p \in Processes : lock[p] \in (Threads \X {p}) \union {<<>>}
  /\ pc \in [Processes -> [Threads -> {"idle", "check", "acquire", "create", "release", "return"}]]
  /\ got \in [Processes -> [Threads -> Processes \union {None}]]
  /\ created \in [Processes -> Nat]

\* Threads that race to the first offload, in a process or in its forked child,
\* end up with one pool, so that the bound on threads is one per process; and
\* none is ever given a pool whose threads live in another process.
OneExecutor ==
  \A p \in Processes :
    /\ created[p] <= 1 /\ (created[p] = 1 <=> executor[p] = p)
    /\ \A t \in Threads : got[p][t] \in {None, p}

\* Neither a race nor a fork at any point of it leaves a thread waiting for a
\* lock that nobody will release.
NeverStuck ==
  \A p \in Processes, t \in Threads : pc[p][t] = "check" ~> pc[p][t] = "idle"
=============================================================================
