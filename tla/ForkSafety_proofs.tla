-------------------------- MODULE ForkSafety_proofs --------------------------
(***************************************************************************)
(* ForkSafety, for any threads and any number of processes, forked at any  *)
(* point: a process that owns the counter holds none but its own drops,    *)
(* the first process counts exactly, and each process creates one pool.    *)
(***************************************************************************)
EXTENDS ForkSafety, TLAPS

\* A process that was not forked yet has done nothing, and no process names as
\* the counter's owner one that does not exist yet: so a child never takes what
\* it inherited for its own.
NotYetForked ==
  \A p \in Processes :
    /\ pid[p] <= alive
    /\ p > alive => drops[p] = 0 /\ \A t \in Threads : pc[p][t] = "idle"

\* The drop the loop thread is recording: in drops already, not yet in count.
InFlight(p) == IF pc[p]["loop"] = "idle" THEN 0 ELSE 1

\* The counter of p holds nothing that p has not recorded itself.
OwnCount(p) == count[p] + InFlight(p) <= drops[p]

\* Where a thread may be, by whose the counter is.  Nobody counts before the
\* counter is the process' own, and a thread about to make it so has zeroed it.
Ownership ==
  \A p \in Processes :
    /\ InFlight(p) <= drops[p]
    /\ pid[p] = p => OwnCount(p)
    /\ \A t \in Threads :
         /\ pc[p][t] \in {"acquire", "waiting", "locked"} => pid[p] = p
         /\ pc[p][t] = "setpid" => OwnCount(p)

\* The first process never resets the counter, and misses no drop.
FirstCounts ==
  /\ pid[1] = 1
  /\ \A t \in Threads : pc[1][t] \notin {"newlock", "zero", "setpid"}
  /\ LET recorded == drops[1] - InFlight(1)
     IN  count[1] = IF recorded < CounterMax THEN recorded ELSE CounterMax

\* The executor is None until its process created it, and only the process itself
\* does, once it exists.
CreatedOnce ==
  \A p \in Processes :
    /\ \/ created[p] = 0 /\ executor[p] = 0
       \/ created[p] = 1 /\ executor[p] = p
    /\ p > forked => created[p] = 0 /\ \A t \in Callers : execPc[p][t] = "idle"
    /\ \A t \in Callers : got[p][t] \in {0, p}

\* The lock is held by the thread that is between acquiring and releasing it.
LockIsHeld ==
  \A p \in Processes, t \in Callers :
    execPc[p][t] \in {"create", "release"} => execLock[p] = <<t, p>>

OnePool == CreatedOnce /\ LockIsHeld

IInv == TypesOK /\ NotYetForked /\ Ownership /\ FirstCounts /\ OnePool

CounterInv == TypeOK /\ NotYetForked /\ Ownership /\ FirstCounts

Places     == {"idle", "check", "newlock", "zero", "setpid", "acquire", "waiting", "locked"}
ExecPlaces == {"idle", "check", "acquire", "create", "release", "return"}
-----------------------------------------------------------------------------
\* A table with one entry replaced.
LEMMA OneEntry ==
  ASSUME NEW S, NEW T, NEW V, NEW f \in [S -> [T -> V]], NEW p \in S, NEW t \in T, NEW v \in V
  PROVE  /\ [f EXCEPT ![p][t] = v] \in [S -> [T -> V]]
         /\ \A q \in S, u \in T :
              [f EXCEPT ![p][t] = v][q][u] = IF q = p /\ u = t THEN v ELSE f[q][u]
<1>1. [f[p] EXCEPT ![t] = v] \in [T -> V]
  OBVIOUS
<1>2. [f EXCEPT ![p][t] = v] = [f EXCEPT ![p] = [f[p] EXCEPT ![t] = v]]
  OBVIOUS
<1> QED
  BY <1>1, <1>2

\* A thread at the counter moves, and no other thread does.
LEMMA Moved ==
  ASSUME TypeOK, NEW p \in Processes, NEW t \in Threads, NEW l \in Places, Goto(p, t, l)
  PROVE  /\ pc' \in [Processes -> [Threads -> Places]]
         /\ \A q \in Processes, u \in Threads : pc'[q][u] = IF q = p /\ u = t THEN l ELSE pc[q][u]
<1>1. pc \in [Processes -> [Threads -> Places]]
  BY DEF TypeOK, Places
<1> QED
  BY <1>1, OneEntry DEF Goto

\* Every step of a thread at the counter keeps the types.
LEMMA CounterTypes ==
  ASSUME TypeOK, [Next]_vars
  PROVE  TypeOK'
<1> DEFINE PcTyped == pc' \in [Processes -> [Threads -> Places]]
<1> USE CounterAssumption
<1>1. ASSUME NEW p \in Processes, NEW t \in Threads, Call(p, t) PROVE TypeOK'
  <2>1. PcTyped
    BY <1>1, Moved DEF Call, Places
  <2>2. t = "loop" => drops[p] + 1 \in 0..MaxDrops
    BY <1>1 DEF Call, TypeOK
  <2>3. drops' \in [Processes -> 0..MaxDrops]
    BY <1>1, <2>2 DEF Call, TypeOK
  <2> QED
    BY <1>1, <2>1, <2>3 DEF Call, TypeOK, Places
<1>2. ASSUME NEW p \in Processes, NEW t \in Threads, Check(p, t) PROVE TypeOK'
  <2>1. PcTyped
    BY <1>2, Moved DEF Check, Places
  <2> QED
    BY <1>2, <2>1 DEF Check, TypeOK, Places
<1>3. ASSUME NEW p \in Processes, NEW t \in Threads, NewLock(p, t) PROVE TypeOK'
  <2>1. PcTyped
    BY <1>3, Moved DEF NewLock, Places
  <2>2. lock' \in [Processes -> Nat]
    BY <1>3 DEF NewLock, TypeOK
  <2>3. UNCHANGED <<alive, pid, locked, count, drops, mine>>
    BY <1>3 DEF NewLock
  <2> QED
    BY <2>1, <2>2, <2>3 DEF TypeOK, Places
<1>4. ASSUME NEW p \in Processes, NEW t \in Threads, Zero(p, t) PROVE TypeOK'
  <2>1. PcTyped
    BY <1>4, Moved DEF Zero, Places
  <2>2. count' \in [Processes -> 0..CounterMax]
    BY <1>4 DEF Zero, TypeOK
  <2>3. UNCHANGED <<alive, pid, lock, locked, drops, mine>>
    BY <1>4 DEF Zero
  <2> QED
    BY <2>1, <2>2, <2>3 DEF TypeOK, Places
<1>5. ASSUME NEW p \in Processes, NEW t \in Threads, SetPid(p, t) PROVE TypeOK'
  <2>1. PcTyped
    BY <1>5, Moved DEF SetPid, Places
  <2> QED
    BY <1>5, <2>1 DEF SetPid, TypeOK, Places
<1>6. ASSUME NEW p \in Processes, NEW t \in Threads, Enter(p, t) PROVE TypeOK'
  <2>1. PcTyped
    BY <1>6, Moved DEF Enter, Places
  <2>2. mine' \in [Processes -> [Threads -> Nat]]
    BY <1>6, OneEntry DEF Enter, TypeOK
  <2>3. UNCHANGED <<alive, pid, lock, locked, count, drops>>
    BY <1>6 DEF Enter
  <2> QED
    BY <2>1, <2>2, <2>3 DEF TypeOK, Places
<1>7. ASSUME NEW p \in Processes, NEW t \in Threads, Acquire(p, t) PROVE TypeOK'
  <2>1. PcTyped
    BY <1>7, Moved DEF Acquire, Places
  <2>2. mine[p][t] \in Nat
    BY DEF TypeOK
  <2>3. locked' \in [Processes -> SUBSET Nat]
    BY <1>7, <2>2 DEF Acquire, TypeOK
  <2>4. UNCHANGED <<alive, pid, lock, count, drops, mine>>
    BY <1>7 DEF Acquire
  <2> QED
    BY <2>1, <2>3, <2>4 DEF TypeOK, Places
<1>8. ASSUME NEW p \in Processes, NEW t \in Threads, Leave(p, t) PROVE TypeOK'
  <2>1. PcTyped
    BY <1>8, Moved DEF Leave, Places
  <2>2. mine' \in [Processes -> [Threads -> Nat]]
    BY <1>8, OneEntry DEF Leave, TypeOK
  <2>3. Counted(count[p]) \in 0..CounterMax
    BY DEF TypeOK, Counted
  <2>4. count' \in [Processes -> 0..CounterMax]
    BY <1>8, <2>3 DEF Leave, TypeOK
  <2> QED
    BY <1>8, <2>1, <2>2, <2>4 DEF Leave, TypeOK, Places
<1>9. ASSUME NEW p \in Processes, NEW t \in Threads, Fork(p, t) PROVE TypeOK'
  <2>1. alive' \in Processes
    BY <1>9 DEF Fork, TypeOK, Processes
  <2>2. /\ pid' \in [Processes -> Processes] /\ lock' \in [Processes -> Nat]
        /\ locked' \in [Processes -> SUBSET Nat] /\ count' \in [Processes -> 0..CounterMax]
    BY <1>9, <2>1 DEF Fork, TypeOK
  <2>3. UNCHANGED <<drops, pc, mine>>
    BY <1>9 DEF Fork
  <2> QED
    BY <2>1, <2>2, <2>3 DEF TypeOK
<1>10. CASE UNCHANGED vars
  BY <1>10 DEF vars, TypeOK
<1> QED
  BY <1>1, <1>2, <1>3, <1>4, <1>5, <1>6, <1>7, <1>8, <1>9, <1>10 DEF Next, Step

\* A step that disturbs only a process that exists leaves the others unforked.
LEMMA UnforkedAtRest ==
  ASSUME NotYetForked, UNCHANGED alive, NEW p \in Processes, ~ (p > alive), pid'[p] <= alive,
         \A q \in Processes : q # p => /\ pid'[q] = pid[q] /\ drops'[q] = drops[q]
                                     /\ \A u \in Threads : pc'[q][u] = pc[q][u]
  PROVE  NotYetForked'
  BY DEF NotYetForked

\* Every step keeps whose the counter is, and what is in it.
LEMMA CounterStep ==
  ASSUME CounterInv, [Next]_vars
  PROVE  CounterInv'
<1> DEFINE Kept == NotYetForked' /\ Ownership' /\ FirstCounts'
<1>0. /\ TypeOK /\ TypeOK' /\ "loop" \in Threads /\ 1 \in Processes
      /\ NotYetForked /\ Ownership /\ FirstCounts
      /\ alive \in Nat /\ Processes \subseteq Nat \ {0} /\ CounterMax \in Nat \ {0}
      /\ pid \in [Processes -> Nat] /\ count \in [Processes -> Nat] /\ drops \in [Processes -> Nat]
  <2>1. TypeOK' /\ TypeOK /\ NotYetForked /\ Ownership /\ FirstCounts
    BY CounterTypes DEF CounterInv
  <2>2. "loop" \in Threads /\ 1 \in Processes /\ Processes \subseteq Nat \ {0} /\ CounterMax \in Nat \ {0}
    BY CounterAssumption DEF Threads, Processes
  <2>3. /\ alive \in Processes /\ pid \in [Processes -> Processes]
        /\ count \in [Processes -> 0..CounterMax] /\ drops \in [Processes -> 0..MaxDrops]
    BY <2>1 DEF TypeOK
  <2>4. alive \in Nat /\ pid \in [Processes -> Nat]
    BY <2>2, <2>3
  <2>5. count \in [Processes -> Nat] /\ drops \in [Processes -> Nat]
    BY <2>3, CounterAssumption
  <2> QED
    BY <2>1, <2>2, <2>4, <2>5
<1>1. ASSUME NEW p \in Processes, NEW t \in Threads, Call(p, t) PROVE Kept
  <2>1. \A q \in Processes, u \in Threads :
           pc'[q][u] = IF q = p /\ u = t THEN "check" ELSE pc[q][u]
    BY <1>0, <1>1, Moved DEF Call, Places
  <2>2. /\ p <= alive /\ pc[p][t] = "idle" /\ UNCHANGED <<alive, pid, count>>
        /\ \A q \in Processes : drops'[q] = IF q = p /\ t = "loop" THEN drops[q] + 1 ELSE drops[q]
    BY <1>0, <1>1 DEF Call
  <2>3. NotYetForked'
    <3>1. ~ (p > alive)
      BY <1>0, <2>2 DEF NotYetForked
    <3>2. pid'[p] <= alive
      BY <1>0, <2>2, <3>1 DEF NotYetForked
    <3> QED
      BY <1>0, <2>1, <2>2, <3>1, <3>2, UnforkedAtRest
  <2>4. Ownership'
    BY <1>0, <2>1, <2>2 DEF Ownership, OwnCount, InFlight, NotYetForked
  <2>5. FirstCounts'
    BY <1>0, <2>1, <2>2 DEF FirstCounts, InFlight, Ownership
  <2> QED
    BY <2>3, <2>4, <2>5
<1>2. ASSUME NEW p \in Processes, NEW t \in Threads, Check(p, t) PROVE Kept
  <2>1. \A q \in Processes, u \in Threads :
           pc'[q][u] = IF q = p /\ u = t THEN (IF pid[p] # p THEN "newlock" ELSE "acquire") ELSE pc[q][u]
    BY <1>0, <1>2, Moved DEF Check, Places, Inherited
  <2>2. pc[p][t] = "check" /\ UNCHANGED <<alive, pid, count, drops>>
    BY <1>2 DEF Check
  <2>3. NotYetForked'
    <3>1. ~ (p > alive)
      BY <1>0, <2>2 DEF NotYetForked
    <3>2. pid'[p] <= alive
      BY <1>0, <2>2, <3>1 DEF NotYetForked
    <3> QED
      BY <1>0, <2>1, <2>2, <3>1, <3>2, UnforkedAtRest
  <2>4. Ownership'
    BY <1>0, <2>1, <2>2 DEF Ownership, OwnCount, InFlight, NotYetForked
  <2>5. FirstCounts'
    BY <1>0, <2>1, <2>2 DEF FirstCounts, InFlight, Ownership
  <2> QED
    BY <2>3, <2>4, <2>5
<1>3. ASSUME NEW p \in Processes, NEW t \in Threads, NewLock(p, t) PROVE Kept
  <2>1. \A q \in Processes, u \in Threads :
           pc'[q][u] = IF q = p /\ u = t THEN "zero" ELSE pc[q][u]
    BY <1>0, <1>3, Moved DEF NewLock, Places
  <2>2. pc[p][t] = "newlock" /\ UNCHANGED <<alive, pid, count, drops>>
    BY <1>3 DEF NewLock
  <2>3. NotYetForked'
    <3>1. ~ (p > alive)
      BY <1>0, <2>2 DEF NotYetForked
    <3>2. pid'[p] <= alive
      BY <1>0, <2>2, <3>1 DEF NotYetForked
    <3> QED
      BY <1>0, <2>1, <2>2, <3>1, <3>2, UnforkedAtRest
  <2>4. Ownership'
    BY <1>0, <2>1, <2>2 DEF Ownership, OwnCount, InFlight, NotYetForked
  <2>5. FirstCounts'
    BY <1>0, <2>1, <2>2 DEF FirstCounts, InFlight, Ownership
  <2> QED
    BY <2>3, <2>4, <2>5
<1>4. ASSUME NEW p \in Processes, NEW t \in Threads, Zero(p, t) PROVE Kept
  <2>1. \A q \in Processes, u \in Threads :
           pc'[q][u] = IF q = p /\ u = t THEN "setpid" ELSE pc[q][u]
    BY <1>0, <1>4, Moved DEF Zero, Places
  <2>2. /\ pc[p][t] = "zero" /\ UNCHANGED <<alive, pid, drops>>
        /\ \A q \in Processes : count'[q] = IF q = p THEN 0 ELSE count[q]
    BY <1>0, <1>4 DEF Zero
  <2>3. NotYetForked'
    <3>1. ~ (p > alive)
      BY <1>0, <2>2 DEF NotYetForked
    <3>2. pid'[p] <= alive
      BY <1>0, <2>2, <3>1 DEF NotYetForked
    <3> QED
      BY <1>0, <2>1, <2>2, <3>1, <3>2, UnforkedAtRest
  <2>4. Ownership'
    BY <1>0, <2>1, <2>2 DEF Ownership, OwnCount, InFlight, NotYetForked
  <2>5. FirstCounts'
    BY <1>0, <2>1, <2>2 DEF FirstCounts, InFlight, Ownership
  <2> QED
    BY <2>3, <2>4, <2>5
<1>5. ASSUME NEW p \in Processes, NEW t \in Threads, SetPid(p, t) PROVE Kept
  <2>1. \A q \in Processes, u \in Threads :
           pc'[q][u] = IF q = p /\ u = t THEN "acquire" ELSE pc[q][u]
    BY <1>0, <1>5, Moved DEF SetPid, Places
  <2>2. /\ pc[p][t] = "setpid" /\ UNCHANGED <<alive, count, drops>>
        /\ \A q \in Processes : pid'[q] = IF q = p THEN p ELSE pid[q]
    BY <1>0, <1>5 DEF SetPid
  <2>3. NotYetForked'
    <3>1. ~ (p > alive)
      BY <1>0, <2>2 DEF NotYetForked
    <3>2. pid'[p] <= alive
      BY <1>0, <2>2, <3>1 DEF NotYetForked
    <3> QED
      BY <1>0, <2>1, <2>2, <3>1, <3>2, UnforkedAtRest
  <2>4. Ownership'
    BY <1>0, <2>1, <2>2 DEF Ownership, OwnCount, InFlight, NotYetForked
  <2>5. FirstCounts'
    BY <1>0, <2>1, <2>2 DEF FirstCounts, InFlight, Ownership
  <2> QED
    BY <2>3, <2>4, <2>5
<1>6. ASSUME NEW p \in Processes, NEW t \in Threads, Enter(p, t) \/ Acquire(p, t) PROVE Kept
  <2>1. PICK l \in {"waiting", "locked"} : \A q \in Processes, u \in Threads :
           pc'[q][u] = IF q = p /\ u = t THEN l ELSE pc[q][u]
    BY <1>0, <1>6, Moved DEF Enter, Acquire, Places
  <2>2. pc[p][t] \in {"acquire", "waiting"} /\ UNCHANGED <<alive, pid, count, drops>>
    BY <1>6 DEF Enter, Acquire
  <2>3. NotYetForked'
    <3>1. ~ (p > alive)
      BY <1>0, <2>2 DEF NotYetForked
    <3>2. pid'[p] <= alive
      BY <1>0, <2>2, <3>1 DEF NotYetForked
    <3> QED
      BY <1>0, <2>1, <2>2, <3>1, <3>2, UnforkedAtRest
  <2>4. Ownership'
    BY <1>0, <2>1, <2>2 DEF Ownership, OwnCount, InFlight, NotYetForked
  <2>5. FirstCounts'
    BY <1>0, <2>1, <2>2 DEF FirstCounts, InFlight, Ownership
  <2> QED
    BY <2>3, <2>4, <2>5
<1>7. ASSUME NEW p \in Processes, NEW t \in Threads, Leave(p, t) PROVE Kept
  <2>1. \A q \in Processes, u \in Threads :
           pc'[q][u] = IF q = p /\ u = t THEN "idle" ELSE pc[q][u]
    BY <1>0, <1>7, Moved DEF Leave, Places
  <2>2. /\ pc[p][t] = "locked" /\ UNCHANGED <<alive, pid, drops>>
        /\ \A q \in Processes :
             count'[q] = IF q = p /\ t = "loop"
                         THEN (IF count[q] + 1 > CounterMax THEN CounterMax ELSE count[q] + 1)
                         ELSE count[q]
    BY <1>0, <1>7 DEF Leave, Counted
  <2>3. NotYetForked'
    <3>1. ~ (p > alive)
      BY <1>0, <2>2 DEF NotYetForked
    <3>2. pid'[p] <= alive
      BY <1>0, <2>2, <3>1 DEF NotYetForked
    <3> QED
      BY <1>0, <2>1, <2>2, <3>1, <3>2, UnforkedAtRest
  <2>4. Ownership'
    BY <1>0, <2>1, <2>2 DEF Ownership, OwnCount, InFlight, NotYetForked
  <2>5. FirstCounts'
    <3>1. CASE p = 1 /\ t = "loop"
      <4>1. /\ InFlight(1) = 1 /\ InFlight(1)' = 0
            /\ count'[1] = IF count[1] + 1 > CounterMax THEN CounterMax ELSE count[1] + 1
        BY <1>0, <2>1, <2>2, <3>1 DEF InFlight
      <4>2. count'[1] = IF drops'[1] < CounterMax THEN drops'[1] ELSE CounterMax
        BY <1>0, <2>2, <4>1 DEF FirstCounts
      <4> QED
        BY <1>0, <2>1, <2>2, <4>1, <4>2 DEF FirstCounts
    <3>2. CASE p # 1 \/ t # "loop"
      <4>1. InFlight(1)' = InFlight(1) /\ count'[1] = count[1]
        BY <1>0, <2>1, <2>2, <3>2 DEF InFlight
      <4> QED
        BY <1>0, <2>1, <2>2, <4>1 DEF FirstCounts
    <3> QED
      BY <3>1, <3>2
  <2> QED
    BY <2>3, <2>4, <2>5
<1>8. ASSUME NEW p \in Processes, NEW t \in Threads, Fork(p, t) PROVE Kept
  <2>0. /\ alive' = alive + 1 /\ p <= alive /\ alive < MaxProcesses /\ UNCHANGED <<drops, pc>>
        /\ pid' = [pid EXCEPT ![alive + 1] = pid[p]]
        /\ count' = [count EXCEPT ![alive + 1] = count[p]]
    BY <1>8 DEF Fork
  <2>1. /\ alive' = alive + 1 /\ alive + 1 # 1 /\ pid[p] <= alive /\ UNCHANGED <<drops, pc>>
        /\ \A q \in Processes : /\ pid'[q] = IF q = alive + 1 THEN pid[p] ELSE pid[q]
                                /\ count'[q] = IF q = alive + 1 THEN count[p] ELSE count[q]
    <3>1. alive # 0 /\ pid[p] <= alive
      BY <1>0, <2>0 DEF NotYetForked
    <3> QED
      BY <1>0, <2>0, <3>1
  <2>3. NotYetForked'
    BY <1>0, <2>1 DEF NotYetForked
  <2>4. Ownership'
    <3>1. \A u \in Threads : alive + 1 \in Processes => pc[alive + 1][u] = "idle"
      BY <1>0 DEF NotYetForked
    <3>2. ASSUME NEW q \in Processes, q # alive + 1
          PROVE  /\ InFlight(q)' <= drops'[q]
                 /\ pid'[q] = q => OwnCount(q)'
                 /\ \A u \in Threads :
                      /\ pc'[q][u] \in {"acquire", "waiting", "locked"} => pid'[q] = q
                      /\ pc'[q][u] = "setpid" => OwnCount(q)'
      <4>1. /\ count'[q] = count[q] /\ pid'[q] = pid[q] /\ drops'[q] = drops[q] /\ pc'[q] = pc[q]
        BY <2>1, <3>2
      <4>2. InFlight(q)' = InFlight(q) /\ (OwnCount(q)' <=> OwnCount(q))
        BY <4>1 DEF OwnCount, InFlight
      <4> QED
        BY <1>0, <4>1, <4>2 DEF Ownership
    <3>3. ASSUME NEW q \in Processes, q = alive + 1
          PROVE  /\ InFlight(q)' <= drops'[q]
                 /\ pid'[q] # q
                 /\ \A u \in Threads : pc'[q][u] = "idle"
      <4>1. pc[q] = pc'[q] /\ drops'[q] = drops[q] /\ pid'[q] # q
        BY <1>0, <2>1, <3>3
      <4>2. 0 <= drops[q] /\ \A u \in Threads : pc[q][u] = "idle"
        BY <1>0, <3>1, <3>3
      <4>3. "loop" \in Threads
        BY <1>0
      <4>4. InFlight(q)' = 0
        BY <4>1, <4>2, <4>3 DEF InFlight
      <4> QED
        BY <4>1, <4>2, <4>4
    <3> QED
      BY <3>2, <3>3 DEF Ownership
  <2>5. FirstCounts'
    BY <1>0, <2>1 DEF FirstCounts, InFlight
  <2> QED
    BY <2>3, <2>4, <2>5
<1>9. ASSUME UNCHANGED vars PROVE Kept
  BY <1>0, <1>9 DEF vars, NotYetForked, Ownership, OwnCount, InFlight, FirstCounts
<1>10. Kept
  BY <1>1, <1>2, <1>3, <1>4, <1>5, <1>6, <1>7, <1>8, <1>9 DEF Next, Step
<1> QED
  BY <1>0, <1>10 DEF CounterInv
-----------------------------------------------------------------------------
\* The types of the executor's part, spelled out for the processes of this module.
ExecTypes == /\ forked \in Processes
             /\ executor \in [Processes -> Processes \union {0}]
             /\ DOMAIN execLock = Processes
             /\ \A p \in Processes : execLock[p] \in (Callers \X {p}) \union {<<>>}
             /\ execPc \in [Processes -> [Callers -> ExecPlaces]]
             /\ got \in [Processes -> [Callers -> Processes \union {0}]]
             /\ created \in [Processes -> Nat]

\* They are the executor's own.
LEMMA SameTypes == /\ Executor!TypeOK <=> ExecTypes
                   /\ Processes = 1..MaxProcesses /\ MaxProcesses \in Nat \ {0}
  BY CounterAssumption DEF Executor!TypeOK, ExecTypes, Executor!Processes, Executor!None, Processes, ExecPlaces

\* A thread in offload moves, and no other thread does.
LEMMA ExecMoved ==
  ASSUME ExecTypes, NEW p \in Processes, NEW t \in Callers, NEW l \in ExecPlaces,
         Executor!Goto(p, t, l)
  PROVE  /\ execPc' \in [Processes -> [Callers -> ExecPlaces]]
         /\ \A q \in Processes, u \in Callers :
              execPc'[q][u] = IF q = p /\ u = t THEN l ELSE execPc[q][u]
  BY OneEntry DEF ExecTypes, Executor!Goto

\* Every step of a thread in offload, a fork included, keeps one pool per process.
LEMMA ExecutorStep ==
  ASSUME ExecTypes, OnePool, [Executor!Next]_execVars
  PROVE  ExecTypes' /\ OnePool'
<1>1. /\ forked \in Nat /\ Processes \subseteq Nat \ {0}
      /\ Processes = 1..MaxProcesses /\ MaxProcesses \in Nat \ {0}
  BY SameTypes DEF ExecTypes
<1>2. ASSUME NEW p \in Processes, NEW t \in Callers, Executor!Call(p, t) PROVE ExecTypes' /\ OnePool'
  <2>1. Executor!Goto(p, t, "check")
    BY <1>2 DEF Executor!Call, Executor!None
  <2>2. /\ execPc' \in [Processes -> [Callers -> ExecPlaces]]
        /\ \A q \in Processes, u \in Callers :
             execPc'[q][u] = IF q = p /\ u = t THEN "check" ELSE execPc[q][u]
    BY <2>1, ExecMoved DEF ExecPlaces
  <2>3. /\ p <= forked /\ execPc[p][t] = "idle"
        /\ UNCHANGED <<forked, executor, execLock, got, created>>
    BY <1>2 DEF Executor!Call
  <2>4. ExecTypes'
    BY <2>2, <2>3 DEF ExecTypes
  <2>5. CreatedOnce'
    BY <1>1, <2>2, <2>3 DEF ExecTypes, OnePool, CreatedOnce
  <2>6. LockIsHeld'
    BY <1>1, <2>2, <2>3 DEF OnePool, LockIsHeld
  <2> QED
    BY <2>4, <2>5, <2>6 DEF OnePool
<1>3. ASSUME NEW p \in Processes, NEW t \in Callers, Executor!Check(p, t) PROVE ExecTypes' /\ OnePool'
  <2>1. Executor!Goto(p, t, IF executor[p] = 0 THEN "acquire" ELSE "return")
    BY <1>3 DEF Executor!Check, Executor!None
  <2>2. /\ execPc' \in [Processes -> [Callers -> ExecPlaces]]
        /\ \A q \in Processes, u \in Callers :
             execPc'[q][u] = IF q = p /\ u = t THEN (IF executor[p] = 0 THEN "acquire" ELSE "return") ELSE execPc[q][u]
    BY <2>1, ExecMoved DEF ExecPlaces
  <2>3. /\ execPc[p][t] = "check"
        /\ UNCHANGED <<forked, executor, execLock, got, created>>
    BY <1>3 DEF Executor!Check
  <2>4. ~ (p > forked)
    BY <1>1, <2>3 DEF OnePool, CreatedOnce
  <2>5. ExecTypes'
    BY <2>2, <2>3 DEF ExecTypes
  <2>6. CreatedOnce'
    BY <1>1, <2>2, <2>3, <2>4 DEF ExecTypes, OnePool, CreatedOnce
  <2>7. LockIsHeld'
    BY <1>1, <2>2, <2>3 DEF OnePool, LockIsHeld
  <2> QED
    BY <2>5, <2>6, <2>7 DEF OnePool
<1>4. ASSUME NEW p \in Processes, NEW t \in Callers, Executor!Acquire(p, t) PROVE ExecTypes' /\ OnePool'
  <2>1. Executor!Goto(p, t, "create")
    BY <1>4 DEF Executor!Acquire, Executor!None
  <2>2. /\ execPc' \in [Processes -> [Callers -> ExecPlaces]]
        /\ \A q \in Processes, u \in Callers :
             execPc'[q][u] = IF q = p /\ u = t THEN "create" ELSE execPc[q][u]
    BY <2>1, ExecMoved DEF ExecPlaces
  <2>3. /\ execPc[p][t] = "acquire" /\ execLock[p] = <<>>
        /\ DOMAIN execLock' = Processes
        /\ \A q \in Processes : execLock'[q] = IF q = p THEN <<t, p>> ELSE execLock[q]
        /\ UNCHANGED <<forked, executor, got, created>>
    BY <1>4 DEF Executor!Acquire, ExecTypes
  <2>4. ~ (p > forked)
    BY <1>1, <2>3 DEF OnePool, CreatedOnce
  <2>5. ExecTypes'
    BY <2>2, <2>3 DEF ExecTypes
  <2>6. CreatedOnce'
    BY <1>1, <2>2, <2>3, <2>4 DEF ExecTypes, OnePool, CreatedOnce
  <2>7. LockIsHeld'
    BY <1>1, <2>2, <2>3 DEF OnePool, LockIsHeld
  <2> QED
    BY <2>5, <2>6, <2>7 DEF OnePool
<1>5. ASSUME NEW p \in Processes, NEW t \in Callers, Executor!Create(p, t) PROVE ExecTypes' /\ OnePool'
  <2>1. Executor!Goto(p, t, "release")
    BY <1>5 DEF Executor!Create, Executor!None
  <2>2. /\ execPc' \in [Processes -> [Callers -> ExecPlaces]]
        /\ \A q \in Processes, u \in Callers :
             execPc'[q][u] = IF q = p /\ u = t THEN "release" ELSE execPc[q][u]
    BY <2>1, ExecMoved DEF ExecPlaces
  <2>3. /\ execPc[p][t] = "create"
        /\ \/ UNCHANGED <<executor, created>>
           \/ /\ executor[p] = 0
              /\ executor' = [executor EXCEPT ![p] = p]
              /\ created' = [created EXCEPT ![p] = @ + 1]
        /\ UNCHANGED <<forked, execLock, got>>
    BY <1>5 DEF Executor!Create, Executor!None
  <2>4. ExecTypes'
    <3>1. /\ executor' \in [Processes -> Processes \union {0}]
          /\ created' \in [Processes -> Nat]
      <4>1. executor \in [Processes -> Processes \union {0}] /\ created \in [Processes -> Nat]
        BY DEF ExecTypes
      <4>2. CASE UNCHANGED <<executor, created>>
        BY <4>1, <4>2
      <4>3. CASE /\ executor' = [executor EXCEPT ![p] = p]
                 /\ created' = [created EXCEPT ![p] = @ + 1]
        BY <4>1, <4>3
      <4> QED
        BY <2>3, <4>2, <4>3
    <3>2. UNCHANGED <<forked, execLock, got>>
      BY <2>3
    <3> QED
      BY <2>2, <3>1, <3>2 DEF ExecTypes
  <2>5. CreatedOnce'
    BY <1>1, <2>2, <2>3 DEF ExecTypes, OnePool, CreatedOnce
  <2>6. LockIsHeld'
    BY <1>1, <2>2, <2>3 DEF OnePool, LockIsHeld
  <2> QED
    BY <2>4, <2>5, <2>6 DEF OnePool
<1>6. ASSUME NEW p \in Processes, NEW t \in Callers, Executor!Release(p, t) PROVE ExecTypes' /\ OnePool'
  <2>1. Executor!Goto(p, t, "return")
    BY <1>6 DEF Executor!Release, Executor!None
  <2>2. /\ execPc' \in [Processes -> [Callers -> ExecPlaces]]
        /\ \A q \in Processes, u \in Callers :
             execPc'[q][u] = IF q = p /\ u = t THEN "return" ELSE execPc[q][u]
    BY <2>1, ExecMoved DEF ExecPlaces
  <2>3. /\ execPc[p][t] = "release"
        /\ DOMAIN execLock' = Processes
        /\ \A q \in Processes : execLock'[q] = IF q = p THEN <<>> ELSE execLock[q]
        /\ UNCHANGED <<forked, executor, got, created>>
    BY <1>6 DEF Executor!Release, ExecTypes
  <2>4. ExecTypes'
    BY <2>2, <2>3 DEF ExecTypes
  <2>5. CreatedOnce'
    BY <1>1, <2>2, <2>3 DEF ExecTypes, OnePool, CreatedOnce
  <2>6. LockIsHeld'
    BY <1>1, <2>2, <2>3 DEF OnePool, LockIsHeld
  <2> QED
    BY <2>4, <2>5, <2>6 DEF OnePool
<1>7. ASSUME NEW p \in Processes, NEW t \in Callers, Executor!Return(p, t) PROVE ExecTypes' /\ OnePool'
  <2>1. Executor!Goto(p, t, "idle")
    BY <1>7 DEF Executor!Return, Executor!None
  <2>2. /\ execPc' \in [Processes -> [Callers -> ExecPlaces]]
        /\ \A q \in Processes, u \in Callers :
             execPc'[q][u] = IF q = p /\ u = t THEN "idle" ELSE execPc[q][u]
    BY <2>1, ExecMoved DEF ExecPlaces
  <2>3. /\ got' \in [Processes -> [Callers -> Processes \union {0}]]
        /\ \A q \in Processes, u \in Callers :
             got'[q][u] = IF q = p /\ u = t THEN executor[p] ELSE got[q][u]
        /\ execPc[p][t] = "return" /\ UNCHANGED <<forked, executor, execLock, created>>
    BY <1>7, OneEntry DEF Executor!Return, ExecTypes
  <2>4. ExecTypes'
    BY <2>2, <2>3 DEF ExecTypes
  <2>5. CreatedOnce'
    BY <1>1, <2>2, <2>3 DEF ExecTypes, OnePool, CreatedOnce
  <2>6. LockIsHeld'
    <3>1. \A q \in Processes, u \in Callers :
             execPc'[q][u] \in {"create", "release"} => execPc[q][u] = execPc'[q][u]
      BY <2>2
    <3> QED
      BY <2>3, <3>1 DEF OnePool, LockIsHeld
  <2> QED
    BY <2>4, <2>5, <2>6 DEF OnePool
<1>8. ASSUME NEW p \in Processes, NEW t \in Callers, Executor!Fork(p, t) PROVE ExecTypes' /\ OnePool'
  <2>1. /\ forked' = forked + 1 /\ forked < MaxProcesses
        /\ executor' = [executor EXCEPT ![forked + 1] = 0]
        /\ DOMAIN execLock' = Processes
        /\ \A q \in Processes : execLock'[q] = IF q = forked + 1 THEN <<>> ELSE execLock[q]
        /\ UNCHANGED <<execPc, got, created>>
    BY <1>1, <1>8 DEF Executor!Fork, ExecTypes, Executor!Reset, Executor!None
  <2>2. ExecTypes'
    BY <1>1, <2>1 DEF ExecTypes
  <2>3. CreatedOnce'
    BY <1>1, <2>1 DEF ExecTypes, OnePool, CreatedOnce
  <2>4. LockIsHeld'
    <3>1. \A u \in Callers : execPc[forked + 1][u] = "idle"
      BY <1>1, <2>1 DEF OnePool, CreatedOnce
    <3>2. ASSUME NEW q \in Processes, NEW u \in Callers, execPc[q][u] \in {"create", "release"}
          PROVE  execLock'[q] = <<u, q>>
      <4>1. q # forked + 1
        BY <3>1, <3>2
      <4> QED
        BY <2>1, <3>2, <4>1 DEF OnePool, LockIsHeld
    <3> QED
      BY <2>1, <3>2 DEF LockIsHeld
  <2> QED
    BY <2>2, <2>3, <2>4 DEF OnePool
<1>9. ASSUME UNCHANGED execVars PROVE ExecTypes' /\ OnePool'
  BY <1>9 DEF execVars, ExecTypes, OnePool, CreatedOnce, LockIsHeld
<1> QED
  BY SameTypes, <1>2, <1>3, <1>4, <1>5, <1>6, <1>7, <1>8, <1>9 DEF Executor!Next, Executor!Step, Executor!Processes, Processes
-----------------------------------------------------------------------------
\* The inductive invariant holds of every behaviour, whichever part it follows.
LEMMA Inductive == ForkSpec => []IInv
<1>1. ForkInit => IInv
  <2> SUFFICES ASSUME ForkInit PROVE IInv
    OBVIOUS
  <2>1. 1 \in Processes /\ "loop" \in Threads /\ Processes \subseteq Nat \ {0}
    BY CounterAssumption DEF Processes, Threads
  <2>2. TypeOK
    BY <2>1, CounterAssumption DEF ForkInit, Init, PerThread, TypeOK
  <2>3. NotYetForked /\ Ownership /\ FirstCounts
    BY <2>1, CounterAssumption DEF ForkInit, Init, PerThread, NotYetForked, Ownership, OwnCount, InFlight, FirstCounts
  <2>4. ExecTypes
    BY <2>1, SameTypes DEF ForkInit, Executor!Init, ExecTypes, Executor!None, Executor!Processes, Processes, ExecPlaces
  <2>5. OnePool
    BY <2>1, SameTypes DEF ForkInit, Executor!Init, OnePool, CreatedOnce, LockIsHeld, Executor!None,
                           Executor!Processes, Processes
  <2> QED
    BY <2>2, <2>3, <2>4, <2>5, SameTypes DEF IInv, TypesOK
<1>2. IInv /\ [ForkNext]_<<part, vars, execVars>> => IInv'
  <2> SUFFICES ASSUME IInv, [ForkNext]_<<part, vars, execVars>>
               PROVE  IInv'
    OBVIOUS
  <2>1. [Next]_vars /\ [Executor!Next]_execVars
    BY DEF ForkNext
  <2>2. CounterInv'
    BY <2>1, CounterStep DEF IInv, TypesOK, CounterInv
  <2>3. ExecTypes' /\ OnePool'
    BY <2>1, SameTypes, ExecutorStep DEF IInv, TypesOK
  <2>4. Executor!TypeOK'
    BY <2>3, CounterAssumption DEF Executor!TypeOK, ExecTypes, Executor!Processes, Executor!None, Processes, ExecPlaces
  <2> QED
    BY <2>2, <2>3, <2>4 DEF IInv, TypesOK, CounterInv
<1> QED
  BY <1>1, <1>2, PTL DEF ForkSpec
-----------------------------------------------------------------------------
\* Every variable of the counter and of the executor keeps its type.
THEOREM Typing == ForkSpec => []TypesOK
<1>1. IInv => TypesOK
  BY DEF IInv
<1> QED
  BY <1>1, Inductive, PTL

\* The counter of a process holds none but its own drops once it owns it, and
\* the first process has counted every drop that is not being recorded.
THEOREM TrueCount == ForkSpec => []CountIsTrue
<1>1. IInv => CountIsTrue
  <2> SUFFICES ASSUME IInv, NEW p \in Processes
               PROVE  /\ pid[p] = p => count[p] <= drops[p]
                      /\ (p = 1 /\ pc[p]["loop"] = "idle") =>
                           count[p] = IF drops[p] < CounterMax THEN drops[p] ELSE CounterMax
    BY DEF CountIsTrue
  <2>1. count[p] \in Nat /\ drops[p] \in Nat
    BY CounterAssumption DEF IInv, TypesOK, TypeOK
  <2>2. pid[p] = p => count[p] <= drops[p]
    BY <2>1 DEF IInv, Ownership, OwnCount, InFlight
  <2>3. (p = 1 /\ pc[p]["loop"] = "idle") =>
           count[p] = IF drops[p] < CounterMax THEN drops[p] ELSE CounterMax
    BY <2>1 DEF IInv, FirstCounts, InFlight
  <2> QED
    BY <2>2, <2>3
<1> QED
  BY <1>1, Inductive, PTL

\* Threads that race to the first offload end up with one pool per process, and
\* none is given a pool of another process.
THEOREM OnePerProcess == ForkSpec => []OneExecutor
<1>1. IInv => OneExecutor
  BY CounterAssumption DEF IInv, OnePool, CreatedOnce, OneExecutor, Executor!OneExecutor, Executor!Processes,
                           Executor!None, Processes
<1> QED
  BY <1>1, Inductive, PTL

\* At most one thread of a process is between acquiring the executor's lock and
\* releasing it, forks at any point included: so its second check and the
\* creation are one step to the others.
THEOREM MutualExclusion ==
  ForkSpec => [](\A p \in Processes, t \in Callers, u \in Callers :
                   (execPc[p][t] \in {"create", "release"} /\ execPc[p][u] \in {"create", "release"})
                     => t = u)
<1>1. IInv => \A p \in Processes, t \in Callers, u \in Callers :
                (execPc[p][t] \in {"create", "release"} /\ execPc[p][u] \in {"create", "release"})
                  => t = u
  BY DEF IInv, OnePool, LockIsHeld
<1> QED
  BY <1>1, Inductive, PTL
=============================================================================
