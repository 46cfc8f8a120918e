----------------------------- MODULE BulkRetry -----------------------------
(***************************************************************************)
(* One bulk_retry command (actions/retry.py): a coroutine that re-enqueues *)
(* a list of tasks one after another, each through the offload pool, and   *)
(* gives up after a run of broker timeouts.                                *)
(*                                                                         *)
(* Attempt k is the retry of the k-th id of the capped list; it is call k  *)
(* of the pool.  A retry that timed out leaves its thread behind, so the   *)
(* attempts of one command, awaited one at a time, still meet each other   *)
(* in the pool, and they meet the calls of earlier commands (Others).      *)
(*                                                                         *)
(* _do_retry_io runs as fn of the call: it raises before the broker acts   *)
(* (no task name, no stored arguments, a connection error) or after it (no *)
(* id came back, the connection broke), or it returns the new task's id.   *)
(***************************************************************************)
EXTENDS Integers, Sequences, FiniteSets, Functions

CONSTANTS
  Requests,     \* the commands considered: records [ids |-> Seq, max |-> Int]
  Attempts,     \* 1..n for the longest list of Requests
  Others,       \* calls of earlier commands, by any names but numbers
  MaxWorkers,   \* _MAX_WORKERS
  HardCap,      \* _BULK_RETRY_HARD_CAP
  BatchSize,    \* the loop yields every BatchSize ids (100)
  BreakAfter    \* circuit_break_after (3)

ASSUME BulkAssumption ==
  /\ HardCap \in Nat \ {0} /\ BatchSize \in Nat \ {0} /\ BreakAfter \in Nat \ {0}
  /\ MaxWorkers \in Nat \ {0}
  /\ \A r \in Requests : /\ r.max \in Int
                         /\ r.ids \in Seq(Range(r.ids)) /\ Len(r.ids) \in Attempts \union {0}
  /\ Cardinality(Attempts) \in Nat /\ Attempts = 1..Cardinality(Attempts)
  /\ Attempts \intersect Others = {}

VARIABLES
  caller, work, queue, effects,   \* the offload pool
  request,      \* the command
  pc,           \* where the coroutine is
  ids,          \* the list after capping
  capped,       \* whether capping dropped ids
  processed,    \* attempts completed
  streak,       \* consecutive_timeouts
  newTaskIds,   \* keys of new_task_ids
  failures      \* keys of failures

poolVars == <<caller, work, queue, effects>>
bulkVars == <<request, pc, ids, capped, processed, streak, newTaskIds, failures>>
vars     == <<poolVars, bulkVars>>

Pool == INSTANCE OffloadPool WITH Calls <- Attempts \union Others

Init == /\ Pool!Init
        /\ request \in Requests
        /\ pc = "start"
        /\ ids = <<>>
        /\ capped = FALSE
        /\ processed = 0
        /\ streak = 0
        /\ newTaskIds = {}
        /\ failures = {}

\* An earlier command's call enters the pool.  Commands are dispatched one at
\* a time, so it was answered, or is hung, when this command starts.
EarlierCommand(o) == /\ pc = "start"
                     /\ Pool!Submit(o)
                     /\ UNCHANGED bulkVars

\* Mutant: the caller's max is taken at its word.
EffectiveCapUnclamped(max) == max

\* min(int(max), _BULK_RETRY_HARD_CAP).
EffectiveCap(max) == IF max < HardCap THEN max ELSE HardCap

\* Python's s[:n], for a negative n too: it then drops -n elements at the end.
Upto(s, n) ==
  LET end == IF n >= 0 THEN n ELSE Len(s) + n
  IN  SubSeq(s, 1, IF end < Len(s) THEN end ELSE Len(s))

\* bulk_retry_action up to the loop: no ids is refused, the rest is capped.
Accept ==
  LET cap == EffectiveCap(request.max)
  IN  /\ pc = "start"
      /\ \A o \in Others : caller[o] # "waiting"
      /\ \/ /\ request.ids = <<>>
            /\ pc' = "refused"
            /\ UNCHANGED <<ids, capped>>
         \/ /\ request.ids # <<>>
            /\ pc' = "batch"
            /\ capped' = (Len(request.ids) > cap)
            /\ ids' = IF capped' THEN Upto(request.ids, cap) ELSE request.ids
      /\ UNCHANGED <<poolVars, request, processed, streak, newTaskIds, failures>>

\* The head of the batch loop: yield to the event loop, or leave.
Batch ==
  /\ pc = "batch"
  /\ pc' = IF processed >= Len(ids) THEN "done" ELSE "issue"
  /\ UNCHANGED <<poolVars, request, ids, capped, processed, streak, newTaskIds, failures>>

\* retry_task_action hands _do_retry_io to the pool.
Issue ==
  /\ pc = "issue"
  /\ Pool!Submit(processed + 1)
  /\ pc' = "await"
  /\ UNCHANGED <<request, ids, capped, processed, streak, newTaskIds, failures>>

\* Mutant: only a definite answer resumes the loop.
AnsweredDefinitely(k) == caller[k] \in {"success", "failed"}

\* retry_task_action has returned for attempt k.
Answered(k) == caller[k] \in {"success", "failed", "indeterminate"}

\* Mutant: what is not a clean failure counts as a retry.
SucceededUnlessFailed(k) == caller[k] # "failed"

\* single.status == "success": an indeterminate result has status "failed".
Succeeded(k) == caller[k] = "success"

\* Mutant: any answer but a timeout resets the breaker.
StreakAfterResetByFailure(k) == IF caller[k] = "indeterminate" THEN streak + 1 ELSE 0

\* A timeout counts, a success resets, a determinate failure is neutral.
StreakAfter(k) == CASE caller[k] = "indeterminate" -> streak + 1
                    [] caller[k] = "success"       -> 0
                    [] OTHER                       -> streak

\* Mutant: the breaker trips one timeout late.
TrippedLate(n) == n > BreakAfter

\* broker_unhealthy.
Tripped(n) == n >= BreakAfter

\* The rest of the loop body, after the await.
Record ==
  LET k == processed + 1
  IN  /\ pc = "await"
      /\ Answered(k)
      /\ processed' = k
      /\ streak' = StreakAfter(k)
      /\ \/ /\ Succeeded(k)
            /\ newTaskIds' = newTaskIds \union {ids[k]}
            /\ UNCHANGED failures
         \/ /\ ~ Succeeded(k)
            /\ failures' = failures \union {ids[k]}
            /\ UNCHANGED newTaskIds
      /\ pc' = IF Tripped(streak') THEN "done"
               ELSE IF k % BatchSize = 0 \/ k = Len(ids) THEN "batch" ELSE "issue"
      /\ UNCHANGED <<poolVars, request, ids, capped>>

Bulk == Accept \/ Batch \/ Issue \/ Record

Next == \/ Bulk
        \/ \E o \in Others : EarlierCommand(o)
        \/ /\ \E c \in Attempts \union Others : Pool!Step(c)
           /\ UNCHANGED bulkVars

\* The event loop runs the coroutine and its timers; threads may hang.
Spec == /\ Init /\ [][Next]_vars
        /\ WF_vars(Bulk)
        /\ \A c \in Attempts \union Others :
             WF_vars((Pool!Deliver(c) \/ Pool!Timeout(c)) /\ UNCHANGED bulkVars)

\* Mutant: skipped counted from the list before capping.
SkippedOfRequest == Len(request.ids) - processed

\* The "skipped" of the summary: ids the breaker kept from being tried.
Skipped == Len(ids) - processed
-----------------------------------------------------------------------------
Tids == UNION {Range(r.ids) : r \in Requests}

TypeOK == /\ Pool!TypeOK
          /\ request \in Requests
          /\ pc \in {"start", "refused", "batch", "issue", "await", "done"}
          /\ ids \in Seq(Tids)
          /\ capped \in BOOLEAN
          /\ processed \in 0..Cardinality(Attempts)
          /\ streak \in 0..BreakAfter
          /\ newTaskIds \subseteq Tids
          /\ failures \subseteq Tids

\* The summary never claims a retry the broker did not see: an id under
\* new_task_ids was enqueued by one of its attempts, and an id that is nowhere
\* in the summary was not enqueued at all, not even late by a hung thread.
\* And it adds up when no id is listed twice: each id of the capped list
\* succeeded, failed or was skipped, and no id is both.
SummaryIsTrue ==
  LET enqueued == {ids[k] : k \in {j \in 1..Len(ids) : effects[j] > 0}}
  IN  /\ newTaskIds \subseteq enqueued
      /\ pc = "done" => enqueued \subseteq newTaskIds \union failures
      /\ (pc = "done" /\ IsInjective(ids))
           => Cardinality(newTaskIds) + Cardinality(failures) + Skipped = Len(ids)

\* Timeouts among the first n attempts that no success followed.
TimeoutsSinceSuccess(n) ==
  Cardinality({k \in 1..n : /\ caller[k] = "indeterminate"
                            /\ \A j \in k..n : caller[j] # "success"})

\* The breaker is exact: no attempt starts once BreakAfter timeouts went by
\* without a success, however failures alternate with them, and ids are
\* skipped for that reason only (retry.py:364-368).
BreakerExact ==
  /\ \A k \in 1..Len(ids) :
       caller[k] # "idle" => TimeoutsSinceSuccess(k - 1) < BreakAfter
  /\ (pc = "done" /\ Skipped > 0) => TimeoutsSinceSuccess(processed) = BreakAfter

\* With a max that is not negative the command touches at most that many ids
\* and at most the hard cap, in the order given, and says so.
CapRespected ==
  (request.max >= 0 /\ pc \notin {"start", "refused"})
    => LET touched == {k \in Attempts : caller[k] # "idle"}
       IN  /\ Cardinality(touched) <= request.max
           /\ Cardinality(touched) <= HardCap
           /\ \A k \in touched : ids[k] = request.ids[k]
           /\ capped <=> Len(ids) < Len(request.ids)

\* A broker that hangs forever cannot hold the command: it always answers.
BulkTerminates == <>(pc \in {"refused", "done"})

\* retry.py:258-259, "Hard ceiling on the number of tasks a single bulk_retry
\* command can touch, regardless of the caller-supplied max".
TouchedWithinHardCap == Cardinality({k \in Attempts : caller[k] # "idle"}) <= HardCap
=============================================================================
