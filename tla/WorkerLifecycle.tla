--------------------------- MODULE WorkerLifecycle ---------------------------
(***************************************************************************)
(* The agent inside a Celery worker's main process, from the import to the *)
(* exit (worker_bootstrap.py), beside the prefork pool that keeps forking  *)
(* children while the agent's threads live (engine.py:                     *)
(* _agent_broker_connection).                                              *)
(*                                                                         *)
(* Importing z4j_celery connects two handlers.  worker_ready starts the    *)
(* agent, once, unless it is disabled, not a worker, or fails to start;    *)
(* worker_shutdown stops it.  The agent's health refresh waits for         *)
(* broker replies on a connection; a forked child cleans up the copies it  *)
(* has of the connections in Celery's shared pool before it reports UP,    *)
(* and reads on one that has a reply outstanding - forever.                *)
(***************************************************************************)
EXTENDS WorkerArgv, FiniteSets

CONSTANTS
  Invocations,  \* processes: records [program |-> , options |-> , command |-> ]
  Settings,     \* records [disabled |-> , transport |-> , socketTimeout |-> ]
  PoolSize,     \* children the pool forks before worker_ready
  MaxChildren,  \* bound: children forked in all
  MaxAgents     \* bound: agents installed

ASSUME LifecycleAssumption ==
  /\ PoolSize \in Nat /\ MaxChildren \in Nat /\ PoolSize <= MaxChildren
  /\ MaxAgents \in Nat

\* A process that imports the package runs celery's script ("celery"), celery's
\* module ("main": python -m celery), or another program; behind it stand whole
\* options, and a command.  Interpreters and wrapper launchers are not among
\* the programs: what they run has an argv of its own.
ASSUME InvocationAssumption ==
  \A v \in Invocations :
    /\ v.program \in STRING \ {"python", "uvx", "uv"}
    /\ v.options \in Seq(STRING) /\ v.command \in Seq(STRING)
    /\ Options(v.options)
    /\ v.command # <<>> /\ v.command[1] \notin Dashed

Children == 1..MaxChildren
Agents   == 1..MaxAgents

VARIABLES
  invocation, \* how the process was started
  settings,   \* its environment and broker options
  phase,      \* "booting", "running" (pool forked), "down"
  connected,  \* whether the handlers are connected
  runtime,    \* _runtime: an agent, or 0
  installed,  \* agents installed so far are 1..installed
  live,       \* the agents whose threads run
  refresh,    \* the health refresh: "idle", "waiting", "hung"
  brpop,      \* connections with a reply outstanding: "own", "pool"
  forked,     \* children forked so far are 1..forked
  child       \* child[k]: "unborn", "cleanup", "wedged", "up", "dead"

workerVars == <<invocation, settings, phase, connected, runtime, installed, live,
                refresh, brpop, forked, child>>

process == <<invocation, settings, phase, connected>>
agent   == <<runtime, installed, live>>
waiting == <<refresh, brpop>>
pool    == <<forked, child>>

\* A celery worker, as opposed to any other command or program.
IsWorker == /\ invocation.program \in {"celery", "main"}
            /\ invocation.command[1] = "worker"

\* What the process finds in sys.argv.  For celery's module argv[0] is the path
\* of celery/__main__.py; the interpreter and its -m are not there.
argv == <<invocation.program>> \o invocation.options \o invocation.command

WorkerInit == /\ invocation \in Invocations
              /\ settings \in Settings
              /\ phase = "booting"
              /\ connected = FALSE
              /\ runtime = 0 /\ installed = 0 /\ live = {}
              /\ refresh = "idle" /\ brpop = {}
              /\ forked = 0
              /\ child = [k \in Children |-> "unborn"]
-----------------------------------------------------------------------------
\* register_worker_bootstrap, on import of the package.  Celery drops a second
\* connection of the same receiver.
Register ==
  /\ phase = "booting"
  /\ ~ connected
  /\ connected' = TRUE
  /\ UNCHANGED <<invocation, settings, phase, agent, waiting, pool>>

\* What a child forked now finds in Celery's shared pool.
Born == IF "pool" \in brpop THEN "wedged" ELSE "cleanup"

\* A worker forks its pool; any other command has none.
Boot ==
  /\ phase = "booting"
  /\ phase' = "running"
  /\ forked' = IF IsWorker THEN PoolSize ELSE 0
  /\ child' = [k \in Children |-> IF k <= forked' THEN Born ELSE "unborn"]
  /\ UNCHANGED <<invocation, settings, connected, agent, waiting>>

\* Mutant: no test for a running agent.
WantedAgain == ~ settings.disabled /\ IsCeleryWorkerInvocation(argv)

\* The guards of _on_worker_ready.
Wanted == /\ runtime = 0
          /\ ~ settings.disabled
          /\ IsCeleryWorkerInvocation(argv)

\* _on_worker_ready starts the agent.  The signal may fire more than once; a
\* handler that returns early, or fails to resolve the app or to install the
\* agent (no configuration, an error), changes nothing.
Ready ==
  /\ phase = "running" /\ connected
  /\ Wanted
  /\ installed < MaxAgents
  /\ installed' = installed + 1
  /\ live' = live \union {installed'}
  /\ runtime' = installed'
  /\ UNCHANGED <<process, waiting, pool>>

\* Mutant: the handler only begins the shutdown.
ShutdownBegun == /\ phase = "running"
                 /\ phase' = "stopping"
                 /\ UNCHANGED <<invocation, settings, connected, agent, waiting, pool>>

\* _on_worker_shutdown: stop() ends the agent's threads, or raises and leaves
\* them; either way the agent is forgotten.
Shutdown ==
  /\ phase = "running"
  /\ phase' = "down"
  /\ runtime' = 0
  /\ \/ /\ runtime # 0
        /\ live' = live \ {runtime}
        /\ brpop' = {} /\ refresh' = "idle"
     \/ UNCHANGED <<live, waiting>>
  /\ UNCHANGED <<invocation, settings, connected, installed, pool>>
-----------------------------------------------------------------------------
\* Mutant: the reply is awaited on a connection of Celery's shared pool.
ReplyConnectionPooled == "pool"

\* connection_for_write() opens a connection that is in no pool.
ReplyConnection == "own"

\* Mutant: kombu's default, no read timeout.
BoundedNever == FALSE

\* The read timeout of the agent's connection: the operator's own setting wins,
\* and only Redis gets the default.
Bounded == \/ settings.socketTimeout = "seconds"
           \/ settings.socketTimeout = "unset" /\ settings.transport = "redis"

\* The heartbeat asks the workers and waits for their replies.  On a half-open
\* connection the read never returns by itself.
Ask ==
  /\ live # {} /\ refresh = "idle"
  /\ brpop' = brpop \union {ReplyConnection}
  /\ refresh' \in {"waiting", "hung"}
  /\ UNCHANGED <<process, agent, pool>>

\* The reply arrives, and the connection is released.
Reply ==
  /\ refresh = "waiting"
  /\ brpop' = brpop \ {ReplyConnection}
  /\ refresh' = "idle"
  /\ UNCHANGED <<process, agent, pool>>

\* inspect's own timeout, or the read timeout of the connection.  Releasing the
\* agent's connection closes it; one of the pool goes back as it is.
GiveUp ==
  /\ \/ refresh = "waiting"
     \/ refresh = "hung" /\ Bounded
  /\ brpop' = brpop \ {"own"}
  /\ refresh' = "idle"
  /\ UNCHANGED <<process, agent, pool>>
-----------------------------------------------------------------------------
\* The child's after-fork cleanup is done, and it reports UP.
Up(k) == /\ child[k] = "cleanup"
         /\ child' = [child EXCEPT ![k] = "up"]
         /\ UNCHANGED <<process, agent, waiting, forked>>

\* A child reaches its task or memory limit, is killed or crashes, and the
\* pool forks a replacement.
Recycle(k) ==
  /\ phase = "running"
  /\ child[k] = "up"
  /\ forked < MaxChildren
  /\ forked' = forked + 1
  /\ child' = [child EXCEPT ![k] = "dead", ![forked'] = Born]
  /\ UNCHANGED <<process, agent, waiting>>

WorkerNext == \/ Register \/ Boot \/ Ready \/ Shutdown
              \/ Ask \/ Reply \/ GiveUp
              \/ \E k \in Children : Up(k) \/ Recycle(k)

\* Children are scheduled, and timeouts fire.  No reply is promised, and no
\* signal.
WorkerSpec == /\ WorkerInit /\ [][WorkerNext]_workerVars
              /\ WF_workerVars(GiveUp)
              /\ \A k \in Children : WF_workerVars(Up(k))
-----------------------------------------------------------------------------
WorkerTypeOK == /\ invocation \in Invocations /\ settings \in Settings
                /\ phase \in {"booting", "running", "down"}
                /\ connected \in BOOLEAN
                /\ installed \in 0..MaxAgents /\ runtime \in 0..installed
                /\ live \subseteq 1..installed
                /\ refresh \in {"idle", "waiting", "hung"}
                /\ brpop \subseteq {"own", "pool"}
                /\ forked \in 0..MaxChildren
                /\ child \in [Children -> {"unborn", "cleanup", "wedged", "up", "dead"}]

\* However often worker_ready fires, one agent holds one slot with the brain,
\* and it is the one worker_shutdown will stop.
OneAgent == phase = "running" => live = {runtime} \ {0}

\* No process but a worker is taken for one, so none leaves a stale agent with
\* the brain, and every worker that runs celery's script is, whatever the values
\* of its options are called.  A worker that runs celery's module is not: no
\* branch of the code meets its argv[0], although the docstring lists its command
\* line (worker_bootstrap.py:87).
CommandRecognised ==
  IsCeleryWorkerInvocation(argv) <=> IsWorker /\ invocation.program = "celery"

\* Whatever the agent waits for, every child the pool ever forks comes up
\* (worker_bootstrap.py:260-273).
ChildrenComeUp == \A k \in Children : (k <= forked) ~> child[k] \in {"up", "dead"}

\* A half-open Redis connection does not park the heartbeat for good, unless
\* the operator asked for reads without a timeout (engine.py:123-128).
RefreshEnds ==
  (settings.transport = "redis" /\ settings.socketTimeout # "none")
    => (refresh # "idle" ~> refresh = "idle")

\* A reply the agent waits for keeps neither the pool's children nor the
\* agent's own heartbeat waiting for ever.
NobodyWaitsForEver == ChildrenComeUp /\ RefreshEnds
=============================================================================
