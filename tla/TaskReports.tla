----------------------------- MODULE TaskReports -----------------------------
(***************************************************************************)
(* From what happens to a task to what is reported of it (events/          *)
(* signals.py, the handlers of events/broker.py, connect_signals).         *)
(*                                                                         *)
(* Two paths lead to one sink.  Celery's signals fire in the process that  *)
(* takes the step, which in a prefork pool is a child for most steps; the  *)
(* sink drops what does not come from the process that connected.  And the *)
(* workers publish events to the broker, which the monitor's thread gets   *)
(* in order, filters by hostname and passes to the same sink.  The life of *)
(* the monitor is BrokerMonitor's subject and the queue behind the sink    *)
(* EventPipeline's: here the events of a worker that are published while   *)
(* the monitor listens reach it.  Nothing relates the events of different  *)
(* tasks, so the order is kept task by task.                               *)
(*                                                                         *)
(* The steps of a task and where their signals fire are Celery's.          *)
(***************************************************************************)
EXTENDS SequencesExt, FiniteSets, TaskMapper

CONSTANTS
  Tasks,        \* task runs, by id
  HostOf,       \* HostOf[t]: the worker that runs t, "local" or another
  MetaOf,       \* MetaOf[t]: the metadata its function carries
  KwargsOf,     \* KwargsOf[t]: the names of its keyword arguments
  MaxAttempts   \* bound: MaxAttempts[t]: how often t is received, by retries

ASSUME ReportsAssumption == MaxAttempts \in [Tasks -> Nat]

VARIABLES
  deployment,   \* the agent in a "solo" or "prefork" worker, or "beside" it
  filtering,    \* a local hostname is configured
  listening,    \* the monitor's consumer exists
  life,         \* life[t]: the last step of t
  attempt,      \* attempt[t]: how often t was received
  heard,        \* history: the steps of t published while listening
  wire,         \* wire[t]: the events of t published, not yet handled
  nameCache,    \* _name_cache: the ids whose name the monitor knows
  reports       \* reports[t]: what the sink got of t, in order

vars == <<deployment, filtering, listening, life, attempt, heard, wire, nameCache, reports>>

Steps    == {"received", "started", "succeeded", "failed", "retried", "revoked"}
Terminal == {"succeeded", "failed", "revoked"}

\* The steps that may follow a step of a task.
Following == [idle |-> {"received"}, received |-> {"started", "revoked"},
              started |-> {"succeeded", "failed", "retried", "revoked"},
              retried |-> {"received"}, succeeded |-> {}, failed |-> {}, revoked |-> {}]

Init == /\ deployment \in {"solo", "prefork", "beside"}
        /\ filtering \in BOOLEAN
        /\ listening = FALSE
        /\ life = [t \in Tasks |-> "idle"]
        /\ attempt = [t \in Tasks |-> 0]
        /\ heard = {}
        /\ wire = [t \in Tasks |-> <<>>]
        /\ nameCache = {}
        /\ reports = [t \in Tasks |-> <<>>]

Report(t, k, s, path, ref) ==
  LET m == GetMeta(ref, MetaOf) IN
  [task |-> t, attempt |-> k, step |-> s, path |-> path,
   name |-> ResolveTaskName(ref, t), tags |-> m.tags,
   args   |-> IF path = "signal" /\ s \in {"received", "started"} THEN ScrubArgs("plain", m) ELSE None,
   kwargs |-> IF path = "signal" /\ s \in {"received", "started"} THEN ScrubKwargs(KwargsOf[t], m)
                                                                  ELSE [k2 \in {} |-> None],
   result |-> IF s = "succeeded" THEN ScrubResult(m) ELSE None]

\* Where the signal of a step fires: "main", "child", or nowhere the agent's
\* handlers are.  A pool child that is lost fails its task from outside.
Processes(t, s) ==
  IF deployment = "beside" \/ HostOf[t] # "local" THEN {"elsewhere"}
  ELSE IF deployment = "solo" \/ s \in {"received", "revoked"} THEN {"main"}
  ELSE IF s = "failed" THEN {"main", "child"} ELSE {"child"}

\* sink: only what fires in the process that connected the signals.
SinkTakes(p) == p = "main"

\* A step of t: its signal reaches the handlers of CelerySignalHooks, if any,
\* and its worker publishes it.
Step(t, s) ==
  LET k == attempt'[t] IN
  /\ s \in Following[life[t]]
  /\ s = "received" => attempt[t] < MaxAttempts[t]
  /\ life' = [life EXCEPT ![t] = s]
  /\ attempt' = [attempt EXCEPT ![t] = IF s = "received" THEN @ + 1 ELSE @]
  /\ \E p \in Processes(t, s) :
       reports' = IF SinkTakes(p)
                  THEN [reports EXCEPT ![t] = Append(@, Report(t, k, s, "signal", Object(t)))]
                  ELSE reports
  /\ wire'  = IF listening THEN [wire EXCEPT ![t] = Append(@, <<k, s>>)] ELSE wire
  /\ heard' = IF listening THEN heard \union {<<t, k, s>>} ELSE heard
  /\ UNCHANGED <<deployment, filtering, listening, nameCache>>

\* The monitor's consumer is declared.
Listen == /\ ~listening /\ listening' = TRUE
          /\ UNCHANGED <<deployment, filtering, life, attempt, heard, wire, nameCache, reports>>

\* Mutant: task-received has a handler as well.
HandledReceivedToo(s) == s \in Steps

\* type_handlers: the steps the monitor has a handler for.
Handled(s) == s \in Steps \ {"received"}

\* _match_local, when there is one.
HostAccepted(t) == filtering => HostOf[t] = "local"

\* Of the events Celery publishes only task-received carries the name.
CarriesName(s) == s = "received"

\* _resolve_name: the event's name, or the cache's.
RefOf(t, s) == IF CarriesName(s) \/ t \in nameCache THEN Named(t) ELSE Absent

\* The cache after an event: _cache_name in the handlers that call it, and the
\* removal that ends the others.
CacheAfter(t, s) ==
  CASE s \in {"received", "started"} /\ CarriesName(s) -> nameCache \union {t}
    [] s \in Terminal                                  -> nameCache \ {t}
    [] OTHER                                           -> nameCache

\* Mutant: the monitor takes the newest event first.
HandleNewest(t) ==
  /\ wire[t] # <<>>
  /\ LET k == Last(wire[t])[1]  s == Last(wire[t])[2] IN
       reports' = IF HostAccepted(t) /\ Handled(s)
                  THEN [reports EXCEPT ![t] = Append(@, Report(t, k, s, "broker", RefOf(t, s)))]
                  ELSE reports
  /\ wire' = [wire EXCEPT ![t] = Front(@)]
  /\ UNCHANGED <<deployment, filtering, listening, life, attempt, heard, nameCache>>

\* The monitor's thread handles the event of t that came first.
Handle(t) ==
  /\ wire[t] # <<>>
  /\ LET k == Head(wire[t])[1]  s == Head(wire[t])[2] IN
       \/ /\ HostAccepted(t) /\ Handled(s)
          /\ reports' = [reports EXCEPT ![t] = Append(@, Report(t, k, s, "broker", RefOf(t, s)))]
          /\ nameCache' = CacheAfter(t, s)
       \/ /\ ~(HostAccepted(t) /\ Handled(s))
          /\ UNCHANGED <<reports, nameCache>>
  /\ wire' = [wire EXCEPT ![t] = Tail(@)]
  /\ UNCHANGED <<deployment, filtering, listening, life, attempt, heard>>

Next == \/ Listen
        \/ \E t \in Tasks : Handle(t) \/ \E s \in Steps : Step(t, s)

Spec == Init /\ [][Next]_vars
-----------------------------------------------------------------------------
TypeOK ==
  /\ deployment \in {"solo", "prefork", "beside"} /\ filtering \in BOOLEAN /\ listening \in BOOLEAN
  /\ life \in [Tasks -> Steps \union {"idle"}]
  /\ attempt \in [Tasks -> Nat] /\ \A t \in Tasks : attempt[t] <= MaxAttempts[t]
  /\ heard \subseteq Tasks \X Nat \X Steps
  /\ wire \in [Tasks -> Seq(Nat \X Steps)]
  /\ nameCache \subseteq Tasks

Reported(t) == 1..Len(reports[t])

\* The two paths together cover every step of a task the agent stands for,
\* once the monitor has caught up, and overlap no more than they must: being
\* received is reported once, by a worker's own agent (broker.py:169-177), and
\* no step more than twice, in a prefork pool only what fires outside the
\* children; and of a worker it does not stand for, an agent that was given a
\* hostname reports nothing.
EachStepReported ==
  \A t \in Tasks, s \in Steps : \A k \in 1..MaxAttempts[t] :
    LET n == Cardinality({i \in Reported(t) : reports[t][i].attempt = k /\ reports[t][i].step = s}) IN
    /\ n <= 2
    /\ s = "received" => n <= 1
    /\ deployment = "prefork" /\ s \notin {"failed", "revoked"} => n <= 1
    /\ filtering /\ HostOf[t] # "local" => n = 0
    /\ (/\ <<t, k, s>> \in heard /\ wire[t] = <<>>
        /\ HostOf[t] = "local"
        /\ s = "received" => deployment # "beside") => n >= 1

\* Where a step stands in the life of a task.
Rank(r) == <<r.attempt, IF r.step = "received" THEN 0 ELSE IF r.step = "started" THEN 1 ELSE 2>>
Earlier(q, r) == Rank(q)[1] < Rank(r)[1] \/ (Rank(q)[1] = Rank(r)[1] /\ Rank(q)[2] < Rank(r)[2])

\* What the brain hears of a task: on each path its steps in the order they
\* happened, and being received before anything that follows from it, though
\* the two come by different threads.
ReportsInOrder ==
  \A t \in Tasks : \A i, j \in Reported(t) :
    LET q == reports[t][i]  r == reports[t][j] IN
    (Earlier(q, r) /\ (q.path = r.path \/ q.step = "received")) => i < j

\* Where the worker reports through its own signals, the task's metadata is
\* applied: its redactions and whitelist beside the engine's, and its tags.
SignalsApplyMeta ==
  \A t \in Tasks : \A i \in Reported(t) :
    LET r == reports[t][i]  m == MetaOf[t] IN
    r.path = "signal" =>
      /\ r.tags = m.tags /\ ~r.name.unknown
      /\ m.keeps => DOMAIN r.kwargs \subseteq m.keep /\ r.args # "plain"
      /\ \A k \in DOMAIN r.kwargs : r.kwargs[k] = "plain" => k \notin m.redact \union Sensitive
      /\ m.redactResult => r.result # "plain"

\* meta.py:59-60, "redact_result: If True, the task's return value is replaced
\* with [REDACTED] in task.succeeded events".
ResultRedacted ==
  \A t \in Tasks : \A i \in Reported(t) :
    (reports[t][i].step = "succeeded" /\ MetaOf[t].redactResult) => reports[t][i].result = "redacted"
=============================================================================
