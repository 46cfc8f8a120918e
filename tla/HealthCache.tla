---------------------------- MODULE HealthCache ----------------------------
(***************************************************************************)
(* The worker details in the heartbeat and their cache (engine.py:         *)
(* get_health, _refresh_worker_stats, get_worker_details,                  *)
(* _worker_stats_basic).                                                   *)
(*                                                                         *)
(* Every heartbeat runs get_health in a thread of its own, and gives up    *)
(* waiting for it long before a refresh must end: the thread goes on, the  *)
(* next heartbeat finds the old stamp and starts a refresh beside it.  The *)
(* cache and its stamp are two attributes, written one after the other     *)
(* under no lock, and the stamp is the time at which the writer started.   *)
(* A refresh that fails does not raise: it writes what it got, perhaps     *)
(* nothing.                                                                *)
(*                                                                         *)
(* Time is the monotonic clock, in units of the model; the stamp starts at *)
(* zero, and so may the clock.                                             *)
(***************************************************************************)
EXTENDS Naturals

CONSTANTS
  Beats,        \* the threads in which heartbeats run get_health
  TTL,          \* how long a refresh is good for
  RefreshMax,   \* how long a refresh can take (the replies' timeouts)
  MaxTime       \* bound on the clock

ASSUME HealthAssumption == /\ TTL \in Nat \ {0} /\ RefreshMax \in Nat
                           /\ MaxTime \in Nat /\ MaxTime > TTL

VARIABLES
  now,      \* the monotonic clock
  stamp,    \* _last_worker_stats_at
  cached,   \* _cached_worker_stats: what was found, and when its refresh began
  pc,       \* pc[b]: where b is in get_health
  began,    \* began[b]: the clock as b read it
  report,   \* history: the worker details of the last heartbeat
  failed    \* history: when a refresh last found nothing, or -1 as Never

healthVars == <<now, stamp, cached, pc, began, report, failed>>

\* What a refresh finds: every detail, those asked for before the connection
\* broke, or nothing.
Found   == {"full", "partial", "nothing"}
Empty   == [found |-> "nothing", since |-> 0]
Never   == MaxTime + 1

HealthInit == /\ now \in 0..(TTL + 1)
              /\ stamp = 0
              /\ cached = Empty
              /\ pc = [b \in Beats |-> "idle"]
              /\ began = [b \in Beats |-> 0]
              /\ report = [at |-> 0, details |-> Empty]
              /\ failed = Never

\* Time passes while threads wait for replies, but not past the end of a
\* refresh; what they do between is instantaneous on the model's clock.
Tick == /\ now < MaxTime
        /\ \A b \in Beats :
             pc[b] = "idle" \/ (pc[b] = "refreshing" /\ now < began[b] + RefreshMax)
        /\ now' = now + 1
        /\ UNCHANGED <<stamp, cached, pc, began, report, failed>>

\* Mutant: a refresh is due only while there is something to refresh.
DueIfAny(t) == cached.found # "nothing" /\ t - stamp > TTL

\* now - self._last_worker_stats_at > 60.
Due(t) == t > stamp + TTL

\* After the depth probe a heartbeat looks at the clock and the stamp.
Check(b) ==
  /\ pc[b] = "idle"
  /\ began' = [began EXCEPT ![b] = now]
  /\ pc' = [pc EXCEPT ![b] = IF Due(now) THEN "refreshing" ELSE "reading"]
  /\ UNCHANGED <<now, stamp, cached, report, failed>>

\* Mutant: what was found before is kept when a refresh finds nothing.
CacheKeepsOld(b) ==
  /\ pc[b] = "refreshing"
  /\ \E f \in Found :
       /\ cached' = IF f = "nothing" THEN cached ELSE [found |-> f, since |-> began[b]]
       /\ failed' = IF f = "nothing" THEN now ELSE failed
  /\ pc' = [pc EXCEPT ![b] = "stamping"]
  /\ UNCHANGED <<now, stamp, began, report>>

\* The refresh ends and its result replaces the cache, whatever it is.
Cache(b) ==
  /\ pc[b] = "refreshing"
  /\ \E f \in Found :
       /\ cached' = [found |-> f, since |-> began[b]]
       /\ failed' = IF f = "nothing" THEN now ELSE failed
  /\ pc' = [pc EXCEPT ![b] = "stamping"]
  /\ UNCHANGED <<now, stamp, began, report>>

\* self._last_worker_stats_at = now, the time the refresh began.
Stamp(b) ==
  /\ pc[b] = "stamping"
  /\ stamp' = began[b]
  /\ pc' = [pc EXCEPT ![b] = "reading"]
  /\ UNCHANGED <<now, cached, began, report, failed>>

\* The report carries the cache, unless it is empty.
Read(b) ==
  /\ pc[b] = "reading"
  /\ report' = [at |-> now, details |-> cached]
  /\ pc' = [pc EXCEPT ![b] = "idle"]
  /\ UNCHANGED <<now, stamp, cached, began, failed>>

HealthNext == \/ Tick
              \/ \E b \in Beats : Check(b) \/ Cache(b) \/ Stamp(b) \/ Read(b)

HealthSpec == HealthInit /\ [][HealthNext]_healthVars
-----------------------------------------------------------------------------
HealthTypeOK == /\ now \in 0..MaxTime /\ stamp \in 0..MaxTime
                /\ cached \in [found : Found, since : 0..MaxTime]
                /\ pc \in [Beats -> {"idle", "refreshing", "stamping", "reading"}]
                /\ began \in [Beats -> 0..MaxTime]
                /\ report \in [at : 0..MaxTime, details : [found : Found, since : 0..MaxTime]]
                /\ failed \in 0..Never

\* However refreshes overlap, the details a heartbeat carries were asked for at
\* most one period of validity and one refresh ago.
DetailsAreFresh ==
  report.details.found # "nothing" => report.details.since + TTL + RefreshMax >= report.at

\* A heartbeat without details has a reason that is not older than the validity
\* of a refresh: the clock had not yet passed it once, or a refresh failed.
AbsenceExplained ==
  report.details.found = "nothing" =>
    \/ report.at <= TTL
    \/ failed # Never /\ failed + TTL >= report.at
=============================================================================
