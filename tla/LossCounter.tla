---------------------------- MODULE LossCounter ----------------------------
(***************************************************************************)
(* The event-loss counter of one adapter object, across fork (engine.py:   *)
(* _reset_inherited_loss_counter, _record_event_drop,                      *)
(* dropped_event_count).                                                   *)
(*                                                                         *)
(* The loop thread records each event it evicts; other threads read the    *)
(* counter.  post_fork may reuse the object in a child, where a thread     *)
(* that finds another process' pid in it installs a fresh lock, zeroes the *)
(* counter and stores the pid: three statements, under no lock.  A lock is *)
(* an object: a thread releases the one it acquired, which the attribute   *)
(* may no longer name.                                                     *)
(***************************************************************************)
EXTENDS Integers, FiniteSets

CONSTANTS Readers,      \* the threads that read the counter
          MaxProcesses, \* bound: the first process and its descendants
          MaxDrops,     \* bound on the evictions in a process
          CounterMax    \* where the counter saturates (2^53 - 1)

ASSUME CounterAssumption ==
  /\ MaxProcesses \in Nat \ {0} /\ MaxDrops \in Nat /\ CounterMax \in Nat \ {0}
  /\ "loop" \notin Readers

Processes == 1..MaxProcesses
Threads   == Readers \union {"loop"}

VARIABLES
  alive,    \* the processes forked so far are 1..alive
  pid,      \* pid[p]: _event_loss_pid
  lock,     \* lock[p]: the lock object the attribute names, by number
  locked,   \* locked[p]: the lock objects that are held
  count,    \* count[p]: _dropped_event_count
  drops,    \* history: drops[p]: evictions recorded by process p
  pc,       \* pc[p][t]: where t of p is
  mine      \* mine[p][t]: the lock object t entered, or 0

vars == <<alive, pid, lock, locked, count, drops, pc, mine>>

PerThread(x) == [p \in Processes |-> [t \in Threads |-> x]]

Init == /\ alive = 1
        /\ pid    = [p \in Processes |-> 1]
        /\ lock   = [p \in Processes |-> 1]
        /\ locked = [p \in Processes |-> {}]
        /\ count  = [p \in Processes |-> 0]
        /\ drops  = [p \in Processes |-> 0]
        /\ pc     = PerThread("idle")
        /\ mine   = PerThread(0)

Goto(p, t, l) == pc' = [pc EXCEPT ![p][t] = l]

\* The loop thread has evicted an event, or a reader wants the counter.
Call(p, t) ==
  /\ p <= alive /\ pc[p][t] = "idle"
  /\ t = "loop" => drops[p] < MaxDrops
  /\ drops' = IF t = "loop" THEN [drops EXCEPT ![p] = @ + 1] ELSE drops
  /\ Goto(p, t, "check")
  /\ UNCHANGED <<alive, pid, lock, locked, count, mine>>

\* self._event_loss_pid != os.getpid().
Inherited(p) == pid[p] # p

Check(p, t) == /\ pc[p][t] = "check"
               /\ Goto(p, t, IF Inherited(p) THEN "newlock" ELSE "acquire")
               /\ UNCHANGED <<alive, pid, lock, locked, count, drops, mine>>

\* Mutants: the inherited count, or the inherited lock object, is kept.
NewLockOnly(p, t) == /\ pc[p][t] = "newlock"
                     /\ lock' = [lock EXCEPT ![p] = @ + 1]
                     /\ Goto(p, t, "setpid")
                     /\ UNCHANGED <<alive, pid, locked, count, drops, mine>>

NewLockKept(p, t) == /\ pc[p][t] = "newlock"
                     /\ Goto(p, t, "zero")
                     /\ UNCHANGED <<alive, pid, lock, locked, count, drops, mine>>

\* self._event_loss_lock = threading.Lock(): an object no thread holds.
NewLock(p, t) ==
  /\ pc[p][t] = "newlock"
  /\ lock' = [lock EXCEPT ![p] = @ + 1]
  /\ Goto(p, t, "zero")
  /\ UNCHANGED <<alive, pid, locked, count, drops, mine>>

Zero(p, t) == /\ pc[p][t] = "zero"
              /\ count' = [count EXCEPT ![p] = 0]
              /\ Goto(p, t, "setpid")
              /\ UNCHANGED <<alive, pid, lock, locked, drops, mine>>

SetPid(p, t) == /\ pc[p][t] = "setpid"
                /\ pid' = [pid EXCEPT ![p] = p]
                /\ Goto(p, t, "acquire")
                /\ UNCHANGED <<alive, lock, locked, count, drops, mine>>

\* with self._event_loss_lock.  The thread waits for the object the attribute
\* names when it starts to wait.
Enter(p, t) ==
  /\ pc[p][t] = "acquire"
  /\ mine' = [mine EXCEPT ![p][t] = lock[p]]
  /\ Goto(p, t, "waiting")
  /\ UNCHANGED <<alive, pid, lock, locked, count, drops>>

Acquire(p, t) ==
  /\ pc[p][t] = "waiting"
  /\ mine[p][t] \notin locked[p]
  /\ locked' = [locked EXCEPT ![p] = @ \union {mine[p][t]}]
  /\ Goto(p, t, "locked")
  /\ UNCHANGED <<alive, pid, lock, count, drops, mine>>

\* Mutant: not clipped to what the wire format carries.
CountedUnclipped(n) == n + 1

\* min(self._dropped_event_count + 1, 2**53 - 1).
Counted(n) == IF n + 1 > CounterMax THEN CounterMax ELSE n + 1

\* The body under the lock, and its release.
Leave(p, t) ==
  /\ pc[p][t] = "locked"
  /\ count' = IF t = "loop" THEN [count EXCEPT ![p] = Counted(@)] ELSE count
  /\ locked' = [locked EXCEPT ![p] = @ \ {mine[p][t]}]
  /\ mine' = [mine EXCEPT ![p][t] = 0]
  /\ Goto(p, t, "idle")
  /\ UNCHANGED <<alive, pid, lock, drops>>

\* A thread of p that is not in this code forks; the child's copy of a lock
\* stays held if a thread of p holds it.
Fork(p, t) ==
  /\ p <= alive /\ alive < MaxProcesses
  /\ pc[p][t] = "idle"
  /\ alive'  = alive + 1
  /\ pid'    = [pid EXCEPT ![alive'] = pid[p]]
  /\ lock'   = [lock EXCEPT ![alive'] = lock[p]]
  /\ locked' = [locked EXCEPT ![alive'] = locked[p]]
  /\ count'  = [count EXCEPT ![alive'] = count[p]]
  /\ UNCHANGED <<drops, pc, mine>>

Step(p, t) == \/ Check(p, t) \/ NewLock(p, t) \/ Zero(p, t) \/ SetPid(p, t)
              \/ Enter(p, t) \/ Acquire(p, t) \/ Leave(p, t)

Next == \E p \in Processes, t \in Threads : Call(p, t) \/ Step(p, t) \/ Fork(p, t)

\* Threads are scheduled; a held lock comes free and is granted in turn.
Spec == /\ Init /\ [][Next]_vars
        /\ \A p \in Processes, t \in Threads : WF_vars(Step(p, t)) /\ SF_vars(Acquire(p, t))
-----------------------------------------------------------------------------
TypeOK == /\ alive \in Processes
          /\ pid \in [Processes -> Processes]
          /\ lock \in [Processes -> Nat]
          /\ locked \in [Processes -> SUBSET Nat]
          /\ count \in [Processes -> 0..CounterMax]
          /\ drops \in [Processes -> 0..MaxDrops]
          /\ pc \in [Processes -> [Threads ->
               {"idle", "check", "newlock", "zero", "setpid", "acquire", "waiting", "locked"}]]
          /\ mine \in [Processes -> [Threads -> Nat]]

\* Once a process has made the counter its own, the counter never holds a drop
\* of an ancestor; and in a process that never had to reset it, the counter is
\* exact, up to where it saturates, whenever no drop is being recorded, though
\* others read it and fork meanwhile.
CountIsTrue ==
  \A p \in Processes :
    /\ pid[p] = p => count[p] <= drops[p]
    /\ (p = 1 /\ pc[p]["loop"] = "idle") =>
         count[p] = IF drops[p] < CounterMax THEN drops[p] ELSE CounterMax

\* No thread waits for a lock held by a thread that does not exist in its
\* process, at whatever point the fork happened.
NeverStuck ==
  \A p \in Processes, t \in Threads : pc[p][t] = "check" ~> pc[p][t] = "idle"
=============================================================================
