# z4j-celery in TLA+

z4j-celery is the Celery adapter of the z4j agent.  Inside a process that uses
Celery - usually the main process of a `celery worker` - it observes tasks and
sends their lifecycle events to the agent's transport, and it carries out the
commands the operator sends from the dashboard ("the brain"): retry, bulk
retry, cancel, purge, rate limit, pool restart and so on.  The code is small
(`src/src/z4j_celery`, about 5000 lines with its comments) but runs at a
crossroads: one asyncio loop, a thread pool for broker I/O, Celery's signal
thread, a broker receiver thread, heartbeat threads, and `fork()` at any
moment; with a broker at the other end that may refuse, hang, or act and then
fail to say so.

The modules here model that code, TLC checks them on small instances, and
TLAPS proves the most important properties for every value of the constants.

## 1. Inventory

| Component | State it keeps | Operations | Speaks to | What is hard |
|---|---|---|---|---|
| offload pool (`_offload.py`) | `_executor`, `_lock`; the executor's queue and threads | `offload(fn, timeout)`, lazy creation, reset after fork | called by every command action; calls the broker | a timeout abandons a thread, it does not stop it; double-checked creation; fork with the lock held |
| retry (`actions/retry.py`) | none beyond one command: lists, counters, breaker | `retry_task_action`, `bulk_retry_action` | offload pool, result backend, broker | inputs that two parties know by halves; timeouts pile up in the pool; three outcomes (done, failed, unknown) summed up; caps and slices |
| purge (`actions/purge.py`) | none beyond one command | depth probe, guards, purge | offload pool, broker, `z4j_core` token check | depth measured, confirmed and used at three moments of a queue in use |
| other commands (`actions/cancel.py`, `rate_limit.py`, `worker.py`, `dlq.py`) | none | validate, one offloaded call | offload pool | the same timeout semantics |
| event pipeline (`engine.py`: `connect_signals`' sink, `_enqueue_event`, `subscribe_events`) | `_event_queue` (10 000), the loop's callback queue | hand over, enqueue with eviction, deliver | signal thread and monitor thread in, transport out | three threads, a loop that may be missing or closed, a full queue |
| event-loss counter (`engine.py`) | `_dropped_event_count`, `_event_loss_pid`, `_event_loss_lock` | record, read, reset in a forked child | event pipeline, heartbeat | the reset runs under no lock |
| broker events monitor (`events/broker.py`) | thread, `_stop`, `_poison_drop_count`, connection | `start`, `stop`, `_run`, `_dispatch` | broker fanout exchange in, the sink out | reconnects, late acknowledgements, poisoned batches, a join with a timeout, a second connect |
| worker bootstrap (`worker_bootstrap.py`) | `_signal_connected`, `_runtime` | register, `worker_ready`, `worker_shutdown`, argv test | Celery signals, `z4j_bare.install_agent` | order against the pool's fork; a signal that fires twice |
| health and worker stats (`engine.py`) | `_cached_worker_stats`, `_last_worker_stats_at` (under no lock), a broker connection per refresh | `get_health`, `get_worker_details` | broker, heartbeat threads | waiting for replies while the pool forks; overlapping refreshes |
| signal hooks, event mapper (`events/signals.py`, `events/mapper.py`, `meta.py`) | which handlers are connected; the monitor's name cache | one handler per Celery signal, one builder per kind of event | sink | two paths for one step, in two processes; which metadata reaches an event |
| discovery, registry watch (`discovery/`, `engine.py`) | `_discovery_hints`, `_fs_watcher`, delta queue (100) | static and runtime scan, merge, watch | file system, file watcher's thread, transport | a full delta queue; a scan on the loop asked for by a thread, which may raise; deltas that wait while the agent asks again; order of subscription and discovery |
| direct controls and queries (`engine.py`) | none | pool grow/shrink, consumers, reconcile, submit | broker, on the loop's thread (submit: the pool) | synchronous I/O that holds every timer of the loop |
| entry points (`cli.py`, `capabilities.py`, `__init__.py`) | none | constants, delegation | - | - |

What makes each of them correct:

* **Offload pool** - an answer is never a lie: a success was carried out once;
  after a definite answer nothing more happens; a call that gave up while it
  was queued is never started; a hung broker holds at most `_MAX_WORKERS`
  threads and no command for ever; one pool per process, never an inherited
  one.
* **Commands** - however a command is answered (refused, through the pool, or
  after a broker call on the loop itself), the one contract holds; a retry is
  sent as it was asked or not at all.
* **Bulk retry** - the summary is true and adds up, the breaker trips exactly
  after three timeouts without a success, the cap holds, the command ends.
* **Purge** - nothing is emptied that was not confirmed for this queue at a
  depth it really had; refusal and definite answers are final; it ends.
* **Event pipeline** - accepted events come out once and in each thread's
  order; only the oldest are lost, and each loss is counted.
* **Loss counter** - a child never reports its parent's losses and never waits
  for its parent's lock.
* **Broker monitor** - acknowledged means dispatched; poison does not block and
  is counted; it reconnects while wanted and ends when not; nobody receives
  beside the adapter's own but what a second `connect_signals` replaced.
* **Worker bootstrap** - the agent starts once, in workers only and by what such
  a process really finds in `sys.argv`, and nothing it waits for wedges a child.
* **Reports** - each step of a task that an agent stands for is reported, at
  most by both paths, in order, and with the task's metadata applied.
* **Worker details** - never older than one validity and one refresh; absent
  only for a recent reason.
* **Registry** - the brain's view is what the last snapshot said, the running
  application before the files; a view that an old delta takes back is mended;
  each watched save gets there for good unless its discovery was lost.

`PROJECT.json` ("hazards") lists each thing that is hard to test at the line
where it bites, with the properties that cover it.

## 2. Plan

The modules were written from the centre outwards: `OffloadPool` (every broker
call that may hang goes through it) with its abstract contract
`CommandOutcome`; `Commands`, which puts the engine's commands on the pool and
on the loop; `BulkRetry` and `PurgeQueue`, whose coroutines make several calls;
`EventPipeline` with its abstract contract `LossyFifo`; `LossCounter` and
`OffloadExecutor`, the two places where a fork meets a lock, composed by
`ForkSafety`; `BrokerMonitor`; `TaskReports` over `TaskMapper`; `HealthCache`;
`RegistryWatch`; `WorkerLifecycle` with `WorkerArgv`.

The proofs followed in the same order: the pool and its contract, the commands
over it, the pipeline and the health cache; then the two coroutines that
compose several calls of the pool (`BulkRetry_proofs`, `PurgeQueue_proofs`),
the fork (`ForkSafety_proofs`) and what is told of a task
(`TaskReports_proofs`), and at last what the agent does beside its commands,
four components that share no state, in one module (`Agent_proofs`).

Every invariant and action property of the passing runs has its theorem.  What is left is what
the prover cannot do: the liveness properties, which stay with TLC.

## 3. The modules and the code

### CommandOutcome, OffloadPool, OffloadPool_proofs

`OffloadPool` is `_offload.offload` with the executor behind it.  `caller[c]`
is the coroutine that awaits call c and, later, the answer its command gives;
`work[c]` is c's work item; `queue` is the executor's FIFO; `effects[c]` counts
how often the broker carried the operation out.  `Submit` is
`run_in_executor`, `Deliver` and `Timeout` are the two ends of
`asyncio.wait_for`: a timeout cancels the future, which stops a queued work
item (`cancelled`, thrown away when a thread gets to it) and never a running
one.  `Take` is the executor's thread, `Apply` the broker, `Return` and `Raise`
the ends of `fn` - `Raise` before or after the broker acted.

`CommandOutcome` is what an operator may rely on: an answer per call, effects
only before a definite answer or for an indeterminate one, none for a command
that is refused.  `OffloadPool` implements it with `answer <- caller` (proved),
and so do all the commands of `Commands` together (checked and proved).

### Commands, Commands_proofs

`Commands` extends the pool by what surrounds it.  `request[c]` is what arrives
as command c; `loop` says which command holds the event loop.  `Refuse` is a
handler's early failure (an eta outside the window, a rate that does not match
`_RATE_RE`, `requeue_dead_letter`), `Offload` the await of `offload`, and
`Hold`, `ControlActs`, `ControlEnds` a broker call that the handler makes
itself: `pool_grow`, `pool_shrink`, `add_consumer`, `cancel_consumer` and
`reconcile_task`.  While one of them holds the loop no command arrives, no
timer fires and no coroutine wakes, but the pool's threads go on.

What a retry publishes is `MessageOf`, from `NameOf` (the given name unless it
is a display placeholder, else the result backend's), `HalvesResolvable`
(`_resolve_args`), `EtaAccepted` and `PriorityOf` (labels and numbers, per
transport).  `sent[c]` is the message as the broker got it.  Names, arguments
and times are told apart only by who knew them and by the side of the window
they fall on.  Two sentences of the source do not agree with what is modelled
here and have no run of their own: engine.py:906-907 says that the publish of
`submit_task` is kept off the loop "just like the other broker actions", of
which five are not; and `submit_task`'s eta is not held against any window.

### OffloadExecutor

`_get_executor`, line by line: the test outside the lock, the lock, the test
under it, the creation, the read of the global on return; and the
`register_at_fork` hook that gives a child no executor and a new lock.
Executors and locks are named by the process that made them, so that a pool
used in the wrong process shows.

### BulkRetry, BulkRetry_proofs

`bulk_retry_action` from the refusal of an empty list to the summary, over an
INSTANCE of `OffloadPool` whose calls are the attempts and the calls of earlier
commands.  `Accept` clamps and slices (Python's slice, negative bounds
included), `Batch` is the head of the batch loop, `Issue` and `Record` are the
two halves of the loop body around its await, with the breaker.
`new_task_ids` and `failures` are dicts by id in the code and sets of ids here.
What one retry looks up and sends is abstracted: it is `Apply`, `Return` or
`Raise` of its call.

### PurgeQueue, PurgeQueue_proofs

`purge_queue_action` over an INSTANCE of `OffloadPool` with the two calls
"probe" and "purge", beside `Traffic`, the queue's producers and consumers.
`Measure` and `Empty` are the broker sides of `_measure_depth` and `_do_purge`;
`Decide` is everything between the two awaits (which cannot be interrupted).
The token is a record of what it was issued for; `Verified` stands for
`z4j_core`'s check, which the repository only calls.

### LossyFifo, EventPipeline, EventPipeline_proofs

`Build` is any signal or monitor handler that maps an event, `Sink` the
closure `connect_signals` installs (`call_soon_threadsafe`, or a drop when the
loop is missing or closed, or in a forked child; when no loop was given, the
one that the calling thread runs, if any), `pending` the loop's callbacks, `Enqueue` `_enqueue_event`, `Deliver` the `get` of
`subscribe_events`.  `entered`, `evicted` and `delivered` are history.  The
branch of `_enqueue_event` that gives up after three failed attempts is not
reachable, because callbacks of one loop do not interleave; it is left out.

`LossyFifo` is the promise: a FIFO that loses only its oldest entry, only
beyond its capacity.  The refinement maps `transit` to `queue \o pending` and
`lost` to `evicted`.

### LossCounter, ForkSafety, ForkSafety_proofs

The three statements of `_reset_inherited_loss_counter`, `_record_event_drop`
and the reading property, thread by thread, for a process and its forked
child.  Locks are numbered objects, since the attribute may name another lock
when a thread releases the one it holds.  Two threads of a child that both find
the inherited counter both reset it, and the slower may erase a drop that was
recorded in between (engine.py:391-396, which runs under no lock): in a child
the counter may read too low.  `CountIsTrue` allows that, and nothing else.

`ForkSafety` puts `LossCounter` and `OffloadExecutor` into one process tree.
They share no thread and no variable, so a behaviour follows either of them;
running them side by side would only multiply their states.

### BrokerMonitor (proofs in Agent_proofs)

Each `connect_signals` makes a monitor; g is the g-th of them.  A second one
overwrites the monitor the adapter has and stops nothing (engine.py:345), so the
first receiver goes on and no later `disconnect_signals` reaches it; `replaced`
remembers such monitors.  `thread[g]` is where g's receiver is in `_run`;
`Disconnect` and `JoinReturns` are the two ends of `stop()`, whose join may time
out and leave the thread behind.  `Drain` is the test of the inner loop,
`Deliver` and `Quiet` are `drain_events` with a message and without; a receiver
that is told to stop while it waits there takes that one message yet, and
`late` counts such messages.
Messages are sequences of event kinds; `Handle`, `Poison`, `Ack` are
`_dispatch`.  `Break` is a `drain_events` that raises: the consumer goes, and
what it had not acknowledged is lost or comes back.  `ToSink` is what of a
message the sink is to get.  What an event says and
which handler takes it is `TaskReports`' subject.

### TaskMapper, TaskReports, TaskReports_proofs

`TaskReports` follows a task's steps to the reports of them.  `Step` takes one:
its signal fires in the worker's main process or in a pool child
(`Processes`), where `connect_signals`' sink drops it (engine.py:270); its
event goes on the wire if the monitor listens.  `Handle` is the monitor's
dispatch of one event: the hostname filter, the table of handlers
(`Handled`: every kind but task-received), the name cache and the builder.
`deployment` is where the agent lives: in a solo worker, in a prefork worker,
or beside the workers.

`TaskMapper` is what the builders do with what they are handed: the task as an
object (from a signal), its name or nothing (from the monitor).  Metadata hangs
on the object's function, so by name it is out of reach; that is the
`task_meta` violation.  The name cache is only written by handlers whose events
carry no name, because the one event that carries it, task-received, is mapped
to no handler (broker.py:93-98 against 178-190): `CacheAfter` has it, and it
stays empty.  `skip` and `sample_rate` (meta.py:67-74) are read by no code
under `src/z4j_celery` but the decorator, so they are no part of the model.

### HealthCache (proofs in Agent_proofs)

`get_health` in any number of heartbeat threads at once: `Check` compares the
clock with the stamp, `Cache` and `Stamp` are the two assignments at the end of
`_refresh_worker_stats`, in that order and under no lock, and `Read` puts the
cache into the report.  A refresh can find every detail, some, or nothing; it
never raises out of the function.  The stamp is the time at which the refresh
began.  How long a refresh may take is `RefreshMax`; the code bounds it by the
timeouts of its reply waits, except for an operator who asked for reads without
a timeout, and `WorkerLifecycle` checks that bound on its own
(`NobodyWaitsForEver`).

### RegistryWatch (proofs in Agent_proofs)

`Discover` is `discover_tasks` as the agent calls it, at any time and as often as
it likes: with hints or without - then only the running application is looked at
(`RuntimeOnly`) -, with a result the brain is told at once or an error.
`Subscribe` is the first read of `subscribe_registry_changes` (with the start of
the watcher), `Notify` the watcher's thread in `_on_tasks_file_changed`,
`Rediscover` the coroutine it schedules, whose delta is queued or lost: because
the queue is full, or because discovery raises outside the test of a single file
(engine.py:527, static.py:85-97).  `lost` remembers what the files were then.
`Consume` the subscriber.  A definition is reduced to where it comes
from, so `Merge` says which source wins.  Every delta is the whole surface as
"added"; nothing is compared and `removed` is always empty, although
engine.py:462-466 speaks of a diff with tasks added, removed or updated, so a
task that is gone stays in the brain's view, and the model has it stay.

The queue and the agent's own discovery are two ways to the brain, so a delta
that waited may be told after a newer discovery.  `StepBackIsMended` is what the
code keeps then: as to the files, a newer account is still on its way, unless it
was lost.  A task that was registered meanwhile is told as its file's again, and
stays so until the agent asks once more; no property excludes that.

### WorkerArgv, WorkerLifecycle (proofs in Agent_proofs)

`WorkerArgv` is the argv test as operators over tokens, a token standing for
all spellings the code treats alike; `Walk` is the loop of
`_argv_has_worker_subcommand`, as the index at which it ends.  A process that
imports the package is given by the program it runs (celery's script, celery's
module or another one), its options, each one whole (`Options`), and its command;
`argv` is what such a process finds in `sys.argv`.  An interpreter and its `-m`
are not there: for `python -m celery`, Python puts the path of
`celery/__main__.py` in `sys.argv[0]`, whose name `__main__.py` ("main") no branch
of the code meets.  Nor is a wrapper there (`uv`, `pipx`, `poetry`, ...): it starts
a process with a command line of its own.  The branches for interpreters and
wrappers (worker_bootstrap.py:111-156) are translated, but only the repository's
tests, which patch `sys.argv`, reach them; no process of the model does.
`WorkerLifecycle` is the worker's main
process: `Register` (import), `Boot` (the pool's first fork, Celery's), `Ready`
and `Shutdown` (the two handlers), the heartbeat's `Ask`/`Reply`/`GiveUp` on a
connection of its own, and children that are recycled all the time.  A child
copies what the shared pool holds when it is forked, so one forked while a
reply is outstanding on a pooled connection is `wedged`.  The ground truth for
the argv test is how the process was really started, a record that the code
never sees.

## 4. The runs

All runs are exhaustive.  "Violation" runs state a sentence of the repository
that the code does not keep; their counterexamples are described under
"findings" in `PROJECT.json`.

| Run | Instance | Shows | Why these bounds |
|---|---|---|---|
| `commands` | 3 commands of every kind, 1 thread, etas -3..6 around a window of -2..5 | honest answers, one contract, nothing late, retries as asked, label order, every offloaded call answered unless a direct one holds the loop | one thread that hangs and two calls behind it, one that times out in the queue and one that is taken; a control beside each; every combination of who knew a retry's name and halves; both edges of the window |
| `fork_safety` | 2 threads per process, 2 processes, 2 drops each, counter up to 1 | one own pool per process, a true counter, nobody stuck | a race needs two threads, a fork one child; every interleaving of the reset, forks with either lock held; the counter saturates |
| `bulk_retry` | up to 5 ids, one list with a repeated id, max -1, 0, 2, 10; cap 4, batch 2, breaker 2; 1 earlier call, 2 threads | true and complete summary, exact breaker, cap, termination | batches end inside and at the end of the list, four attempts let a failure or a success stand between two timeouts with an attempt still to come, the breaker can trip before, at and not before the end, the pool can be full from the start |
| `bulk_retry_cap` | 4 ids, max -1, cap 2 | **violation**: a negative max passes the hard cap | - |
| `purge_queue` | depth 0..3, threshold 2, 10 requests, 1 thread, 1 earlier call | only confirmed purges, finality, termination | depths below, at and above the threshold; tokens of another queue, of a depth beyond the threshold, keyed and not |
| `event_pipeline` | 3 threads (one forked), queue of 2, 5 events, counter up to 2 | exact loss count, thread order, delivery, refinement of `LossyFifo` | the queue overflows three times, the counter saturates |
| `broker_monitor` | 2 monitors, 2 messages of five and three events, 2 faults | acknowledged means dispatched, poison counted and not blocking, a receiver that lives as long as it is wanted, and beside the adapter's own only replaced ones | one monitor may outlive its join beside the next, or be replaced by it; an ack fails and the message comes back |
| `task_reports` | a local task received twice, with whitelist, redactions and tags, and a remote one; 3 deployments, filter on and off | each step reported, by both paths at most, in order, with its metadata | the retry gives a step that recurs; of the keywords one is kept, one kept and redacted by the task, one kept and redacted by the engine, one the engine's and not kept |
| `task_meta` | as above | **violation**: `redact_result` does not reach what the monitor reports | - |
| `registry_watch` | 1 task, 2 files, 4 saves, queue of 2 | the view is the last snapshot's, a step back is mended, each watched save is reported for good or its discovery was lost | a second file for "the later one wins", two saves beyond the queue so that one is dropped and another follows; the agent asks again between any two steps |
| `health_cache` | 3 heartbeats, validity 2, refresh up to 2, 10 ticks | details fresh, absence explained | two refreshes that overlap and end in either order while a third reads; time for one more after both, and for clocks that start before and after the first validity |
| `worker_lifecycle` | 72 command lines (3 programs, 6 lists of options, 4 commands), 7 settings, 3 children, 2 agents | one agent, in workers that run celery's script and nothing else; every child comes up; the refresh ends | one replacement child suffices for the wedge, and a second agent for the duplicate |

Constants bound what is unbounded in the code: the number of calls, events,
messages, faults, processes, children, saves, attempts, and the clock.  No
guard compares them otherwise.

Three passages of the source are contradicted by passing runs and have no run
of their own.  "`bulk_retry` awaits these one at a time, so the pool is
never oversubscribed" (retry.py:158-159): an attempt that timed out leaves its
thread behind, so later attempts of the same command can wait for a thread, as
`bulk_retry` has them do.  And the soft threshold of `purge` (purge.py:70-73):
it is held against the depth that was probed, and what arrives between the
probe and the purge goes too, so a purge may empty more than the threshold; in
`purge_queue` the traffic goes on between the two.  And the list of command
lines the bootstrap recognises (worker_bootstrap.py:80-91) has `python -m celery
... worker` and the wrappers around it: by its own `sys.argv` such a worker is
not recognised, so no agent starts in it.  `CommandRecognised` states what the
code does, and `worker_lifecycle` has such workers.

### Fairness

* The event loop: `WF` of `Deliver \/ Timeout` for each call, of a command's own
  steps, of the loop's callbacks and of the transport's reads.  asyncio runs
  timers and ready callbacks.  In `Commands` the loop's steps are disabled while
  a direct command holds it, so their fairness promises nothing then, and
  `AnsweredUnlessLoopHeld` says so.
* Pool threads and the broker behind them get **no** fairness, and neither does
  a broker call on the loop: a broker may hang for ever, and termination of
  offloaded commands is checked in spite of it.
* Threads inside `_get_executor`, the counter and the receiver are scheduled
  (`WF`).  Acquiring the counter's lock is strongly fair: a Python lock is not,
  but each thread asks for it once per event and leaves after one addition.
* A connect ends in the end (accepted or refused) in `broker_monitor`; lost
  connections and failed acks are bounded, not fair.
* Timeouts of reply waits and children's cleanup end in `worker_lifecycle`;
  no signal and no reply is promised.
* The file watcher's thread and the loop run in `registry_watch`, and an agent
  that lets go of its subscription subscribes again; since it may do so for ever,
  a read is strongly fair.
* `task_reports` and `health_cache` check invariants only and assume none.

## 5. What is proved

TLAPS checks the following for every set of calls, every number of threads,
every capacity, and any number of events (`*_proofs.tla`).  The assumptions are
those named in the modules: `MaxWorkers` is positive; the capacity and the
counter's maximum are positive and forked threads are threads; the ends of the
eta window are natural numbers; a period of validity is positive and the
model's clock goes beyond one; a request of `bulk_retry` is a finite list of
ids no longer than the attempts there are, which are numbered from one and are
no calls of earlier commands; the hard cap, the batch, the breaker's limit and
purge's threshold are positive, and the calls of a purge are not those of
earlier commands; how often a task may be received is a number for
each task; the files under the app paths are finitely many and numbered, and the
registry's queue holds at least one delta; there is at least one monitor and a
message's body is a sequence of event kinds; a pool forks no more children than
there are; a command line is one of those section 3 describes.  What a task's
metadata, its keywords, a retry's inputs or a queue's
users are is not assumed at all.

* `OffloadPool_proofs`: type correctness (`Typing`), `HonestAnswer`
  (`Honesty`), `PoolBounded` (`Bounded`), `DefiniteIsSettled` (`Settled`),
  `NoStartAfterAnswer` (`NoLateStart`) and that the pool implements
  `CommandOutcome` (`Refinement`).
  None of these is inductive.  The strengthening is `IInv`: `Agreement` says
  for each call which combinations of the caller's state, the work item and the
  effect exist - a success means the work item has returned, a failure that it
  has raised, a cancelled work item that the caller was told "indeterminate",
  and an untouched one that the broker did nothing - and `BusyInv` adds that
  the set of busy calls is finite, without which its cardinality says nothing.
  `AgreementStep` and `BusyStep` take the steps one by one; the theorems follow
  from `Inductive`.
* `Commands_proofs`: `OverPool` shows that every step of a command is a step of
  the pool or none, so what is proved of the pool holds among the commands
  (`CommandsHonest`, `CommandsNoLateStart`), for any inputs.  `SentAsAsked`
  (`AsAsked`) and the refinement of `CommandOutcome` by refused, offloaded and
  direct commands together (`OneContract`) need to know where a command can be:
  `Place` says that only what was not refused and does not belong on the loop
  reaches the pool, that nothing else is answered without it, that a message is
  what its command resolves to, and that a control's answer follows its
  message.  `Untouched` and `OthersUnseen` confine a step to its own command.
  `LabelsKeepTheirOrder` (`OrderOfLabels`) follows from the same invariant and
  `LabelOrder`, which compares the two maps of labels with how each transport
  serves them.
* `BulkRetry_proofs`: type correctness (`Typing`), `SummaryIsTrue`
  (`TrueSummary`), `BreakerExact` (`ExactBreaker`) and `CapRespected`
  (`KeptCap`), for any list of ids, any max, cap, batch and breaker.
  `StepIsPoolStep` shows that each step of the command is a step of its pool or
  none, so that a behaviour of `BulkRetry` is one of `OffloadPool`
  (`UsesPool`); `OffloadPool_proofs` is instantiated with the attempts as
  calls, and its invariant is cited, not proved again.  The strengthening has
  one part per promise: `OneAtATime` (attempts up to the current one have been
  issued, only the current one may be waiting, and the ones after it are
  idle), `Summary` (each recorded attempt is in the half of the summary its
  answer calls for), `Breaker` (the consecutive count is the number of
  timeouts since the last success) and `Capping` (the list the loop walks is the
  slice of what was asked that the cap makes; `UptoIsPrefix` says what a slice
  is, negative bounds included).  `SummaryIsTrue`
  needs both sides: from the command that an id is recorded with its answer,
  from the pool that the answer is honest.
* `PurgeQueue_proofs`: type correctness (`Typing`), `PurgeWasConfirmed`
  (`Confirmation`) and the action property `AnswerSettles` (`Settled`), for
  any queue, any depths, any requests and any traffic between the probe and
  the purge.  As above the pool's invariant is instantiated (`UsesPool`).  The
  strengthening says which of the two calls were made at each place of the
  coroutine (`CallsFollowPc`), that the depth of the queue and the depth the
  probe has read are among those seen while the command runs (`SeenKeepsUp`), and that once the purge is under way its confirmation
  covers a depth that was seen (`WasConfirmed`).
* `ForkSafety_proofs`: type correctness (`Typing`), `CountIsTrue`
  (`TrueCount`), `OneExecutor` (`OnePerProcess`), and that at most one thread of a
  process is between acquiring and releasing the executor's lock
  (`MutualExclusion`), which is what lets the second check and the creation under
  it be one step (nothing of the kind holds of the counter's lock, which a child
  may replace while a thread of its own holds the old one); for any threads and any number of
  processes forked at any point.  `NotYetForked` carries the argument for the
  counter: no process can name itself the owner before it exists, so a child
  never takes its parent's count for its own.  `Ownership` says where a thread
  may be by whose the counter is, and `FirstCounts` that the first process
  misses nothing.  `CreatedOnce` and `LockIsHeld` do the same for the executor.
* `TaskReports_proofs`: type correctness (`Typing`), `SignalsApplyMeta`
  (`MetaApplied`), `ReportsInOrder` (`InOrder`) and `EachStepReported`
  (`EachStep`), for any tasks, hosts, metadata, keyword names and numbers of
  retries.  `Moment` maps the attempt and the step of a report to one number.
  `WireInOrder` says that what waits is in the order of its moments and later
  than all the monitor has told, and `ToldInOrder` that later reports on one
  path are of strictly later moments; order follows, and so does the bound of
  two, since a step can then be told once on each path.  `NothingLost` says
  where a step that was heard of is.  It is the part that is not obvious: "it
  waits or was told" is not inductive, because the monitor discards the event
  of being received; what is, is that such a step was told by its worker's own
  signal before its event can be discarded.
* `Agent_proofs` extends `HealthCache`, `RegistryWatch`, `WorkerLifecycle` and
  `BrokerMonitor`, which share nothing, and has an inductive invariant for each.
  * The cache behind a heartbeat: `DetailsAreFresh` (`Fresh`) and
    `AbsenceExplained` (`Explained`), for any number of overlapping heartbeats.
    `HealthInv` has three parts: `Clocks` (nothing read from the clock is ahead
    of it, and no refresh outlives its bound), `Freshness` (the stamp is never
    more than one refresh ahead of the cache, though they may come from two
    threads) and `Reasons` (an empty cache was never written, and then nothing
    was stamped, or was emptied after what the stamp says).
  * The watch over tasks: `ViewIsLastSnapshot` (`ViewTold`) and
    `StepBackIsMended` (`StepBackMended`), for any files, tasks and capacity,
    however often the agent asks and whatever is lost.  Neither
    is inductive, since a delta brings to the view what was true when it was
    queued.  `Sound` says of a snapshot, wherever it waits, that its tasks are
    still registered, and that what it says of files still holds if none was
    changed since; `Sources` keeps the queue sound and what was told no newer
    than the files.  A snapshot is a true account (`SnapshotSound`) because a
    finite set of files that declare a name has a last one (`FiniteHasMax`).  For
    the second property `Mended` looks at the end of the queue: when nothing is
    between a save and the queue and the files' latest account was not lost, the
    last delta is that account; `Unwatched` says that without a watcher nothing
    ever waits.
  * The agent in a worker: type correctness (`WorkerTyping`),
    `OneAgent` (`SingleAgent`), that no child is ever forked beside an outstanding reply it would clean up
    (`NeverWedged`, the safety half of `NobodyWaitsForEver`), and
    `CommandRecognised` (`WorkersTold`), for any pool, settings and number of
    children, and for command lines of any length.  `WalkDefined` shows that
    the scan's recursive definition has a value at every index, and `WalkEnds`
    that behind whole options it ends at the command, which leaves the program's
    name to decide (`ProgramDecides`).
  * The receiver: type correctness (`MonitorTyping`), `NobodyElseReceives`
    (`OnlyReplacedGoOn`) and `AckedMeansDispatched` (`AckedWhole`), for any
    messages and bodies, any number of monitors and of faults.  `Ownership`
    gives its first half: a live receiver that was not told to stop is the one
    the adapter holds or one it replaced, and stop() tells its own before it
    waits.  `LastMessage` gives the other: who has left `drain_events` after being
    told does not come back to it.  `Kept` is what is true
    of each receiver by itself: `SoFar` (the sink has of a message only what it
    should, and of the one in hand all that is due before the next event),
    `Whole` (what left the callback, acknowledged or not, was handed over as
    far as it can be), `FirstTime` (what was not delivered again is in hand
    once and, until it is dispatched, new to the sink, from which the order
    follows) and `PoisonCounted`.  `Known` is needed because a message could
    otherwise be published a second time.

  Where an argument goes by induction - over the length of an option list, over
  the size of a set - it takes the least counterexample instead
  (`LeastNatural`, from the well-founded order of the naturals), since the
  library's induction theorems cannot be instantiated.
* `EventPipeline_proofs`: type correctness with the queue's bound (`Typing`),
  `LossIsCounted` (`LossCounted`), `ThreadOrderKept` (`OrderKept`) and that
  the pipeline implements `LossyFifo` (`Refinement`).  The argument follows
  `Line == delivered \o queue \o pending`.  Lemmas about sequences
  (`MoveBorder`, `DropFirst`, `AppendLast`, `RemovedAt`) give `LineSteps`: each
  step leaves `Line` alone, appends to it, or removes the oldest undelivered
  entry.  Order needs the strengthening `Younger`: what a thread holds is
  younger than all it has handed over, and nothing is younger than the clock.

Only model-checked: the liveness properties (`AnsweredUnlessLoopHeld`,
`BulkTerminates`, `PurgeTerminates`, `EventuallyDelivered`, `NoThreadStuck`,
`NothingBlocks`, `LivesWhileWanted`, `NobodyWaitsForEver`, `SavesAreReported`),
since fairness and ENABLED are out of the prover's reach, and the two violations,
which are counterexamples.

`OffloadPool_proofs` and the modules over it prove the contract step by step;
that the fairness of a call's steps makes it answered stays with the runs.

## 6. What is not modelled

* Payloads, the text of tracebacks and messages and the wire format; z4j_core
  (token arithmetic, the redaction engine, dispatch of commands) and z4j_bare
  (transport, heartbeat scheduling, the file watcher, install) beyond what the
  code here relies on.
* What has no state: `get_task`, `list_queues`, `list_workers`,
  `list_dead_letters` and the queue depths in a heartbeat read
  and answer.
* The parsing of task files and the signatures found in them: `RegistryWatch`
  takes a file for the set of tasks it declares.
* The removal of the signal subscriptions, and a second subscription: a second
  `connect_signals` also leaves the first hooks connected (signals.py:130), so
  that a signal is told twice.  `BrokerMonitor` has the second call,
  `TaskReports` only one.
* The arguments' coercion and the cache's eviction in the handler of
  task-received, which nothing calls.
* The join of the pool's threads at interpreter exit, which belongs to
  `concurrent.futures`.
* Entry points and capability tables: constants.
