---------------------------- MODULE RegistryWatch ----------------------------
(***************************************************************************)
(* Which tasks exist, and how the brain learns of changes in development   *)
(* mode (discovery/*.py; engine.py: discover_tasks,                        *)
(* subscribe_registry_changes, _on_tasks_file_changed).                    *)
(*                                                                         *)
(* The file watcher's thread only asks the loop to look again; discovery   *)
(* runs on the loop, has no suspension point in it, and always reports the *)
(* whole surface as "added".  The queue to the subscriber is bounded, and  *)
(* a delta that finds it full is dropped; so is one whose discovery        *)
(* raises.  What the agent asks for itself does not go through the queue.  *)
(*                                                                         *)
(* A task definition is abstracted to where it comes from: Loaded, or the  *)
(* file that declares it.  A file that cannot be read or parsed, and one   *)
(* that is too large or a link, declares nothing.  The watcher and the     *)
(* brain, which keeps what it was told until told otherwise, are external. *)
(***************************************************************************)
EXTENDS Integers, SequencesExt, FiniteSetsExt

CONSTANTS Names,      \* task names
          Files,      \* files under the app paths, numbered in scan order
          QueueMax,   \* capacity of _registry_delta_queue
          MaxEdits    \* bound on the changes to files

ASSUME RegistryAssumption == /\ Files \subseteq Nat \ {0} /\ IsFiniteSet(Files)
                             /\ QueueMax \in Nat \ {0}

Loaded == 0     \* defined by the running application
Absent == -1    \* not there, or not told of
Unread == -1    \* in place of the number of changes: no file was looked at

VARIABLES
  devMode,     \* Z4J_DEV_MODE is set
  registered,  \* celery_app.tasks, without Celery's own
  declares,    \* declares[f]: the tasks file f declares
  hints,       \* _discovery_hints is set
  watching,    \* _fs_watcher is set
  subscribed,  \* a subscriber reads the delta queue
  saves,       \* changes the watcher has not reported yet
  notices,     \* calls of _rediscover scheduled on the loop
  deltas,      \* _registry_delta_queue
  lost,        \* history: edits as of the last re-discovery that was lost
  view,        \* what the brain was told of each task
  edits,       \* history: number of changes to files
  told,        \* history: edits and registered as of the brain's snapshot
  newest       \* history: the greatest told.edits so far

watchVars == <<devMode, registered, declares, hints, watching, subscribed, saves, notices, deltas,
               lost, view, edits, told, newest>>

sources == <<devMode, registered, declares, edits>>
brain   == <<view, told, newest>>

WatchInit == /\ devMode \in BOOLEAN
             /\ registered = {}
             /\ declares \in [Files -> SUBSET Names]
             /\ hints = FALSE /\ watching = FALSE /\ subscribed = FALSE
             /\ saves = 0 /\ notices = 0 /\ deltas = <<>> /\ lost = Unread
             /\ view = [n \in Names |-> Absent]
             /\ edits = 0
             /\ told = [edits |-> Unread, registered |-> {}] /\ newest = Unread

\* discover_static: of two files that declare a name, the later one counts
\* (merge_discoveries overwrites).
DeclaredIn(n) == LET fs == {f \in Files : n \in declares[f]}
                 IN  IF fs = {} THEN Absent ELSE Max(fs)

\* Mutant: the static entries are laid over the runtime ones.
MergeStaticWins == [n \in Names |-> IF DeclaredIn(n) # Absent THEN DeclaredIn(n)
                                    ELSE IF n \in registered THEN Loaded ELSE Absent]

\* merge_discoveries: runtime entries win.
Merge == [n \in Names |-> IF n \in registered THEN Loaded ELSE DeclaredIn(n)]

Snapshot == [defs |-> Merge, edits |-> edits, registered |-> registered]

\* Discovery without hints looks at the running application only.
RuntimeOnly == [defs |-> [n \in Names |-> IF n \in registered THEN Loaded ELSE Absent],
                edits |-> Unread, registered |-> registered]

\* The brain adds what a snapshot names; nothing is ever reported removed.
Tell(s) == LET e == IF s.edits = Unread THEN told.edits ELSE s.edits
           IN  /\ view' = [n \in Names |-> IF s.defs[n] = Absent THEN view[n] ELSE s.defs[n]]
               /\ told' = [edits |-> e, registered |-> s.registered]
               /\ newest' = IF e > newest THEN e ELSE newest

\* discover_tasks, which the agent may call at any time: hints, when given,
\* are kept (they are the same each time), and the brain gets the result at
\* once, unless discovery raises.
Discover == \E given \in BOOLEAN :
  /\ hints' = (hints \/ given)
  /\ \/ Tell(IF given THEN Snapshot ELSE RuntimeOnly)
     \/ UNCHANGED brain
  /\ UNCHANGED <<sources, watching, subscribed, saves, notices, deltas, lost>>

\* subscribe_registry_changes is first read: in development mode, and with
\* hints, the watcher is started, which may fail; once is enough.
Subscribe ==
  /\ ~subscribed
  /\ subscribed' = TRUE
  /\ \/ devMode /\ hints /\ ~watching /\ watching' \in BOOLEAN
     \/ ~(devMode /\ hints /\ ~watching) /\ UNCHANGED watching
  /\ UNCHANGED <<sources, hints, saves, notices, deltas, lost, brain>>

\* The agent lets go of the subscription, to subscribe again later.
Unsubscribe ==
  /\ subscribed
  /\ subscribed' = FALSE
  /\ UNCHANGED <<sources, hints, watching, saves, notices, deltas, lost, brain>>

\* A file is saved with other tasks in it.
Edit(f) ==
  /\ edits < MaxEdits
  /\ \E d \in SUBSET Names : d # declares[f] /\ declares' = [declares EXCEPT ![f] = d]
  /\ edits' = edits + 1
  /\ saves' = IF watching THEN saves + 1 ELSE saves
  /\ UNCHANGED <<devMode, registered, hints, watching, subscribed, notices, deltas, lost, brain>>

\* A module is imported and its tasks register.
Import(n) ==
  /\ n \notin registered
  /\ registered' = registered \union {n}
  /\ UNCHANGED <<devMode, declares, edits, hints, watching, subscribed, saves, notices, deltas, lost, brain>>

\* Mutant: the coroutine is handed to the loop as a plain callback, which
\* creates it and never runs it.
NotifyUnscheduled ==
  /\ saves > 0
  /\ saves' \in 0..(saves - 1)
  /\ UNCHANGED <<sources, hints, watching, subscribed, notices, deltas, lost, brain>>

\* _on_tasks_file_changed, for one save or several at once.
Notify ==
  /\ saves > 0
  /\ saves' \in 0..(saves - 1)
  /\ notices' = notices + 1
  /\ UNCHANGED <<sources, hints, watching, subscribed, deltas, lost, brain>>

\* Mutant: nothing is queued while a delta still waits for the subscriber.
RediscoverCoalesced ==
  /\ notices > 0
  /\ notices' = notices - 1
  /\ deltas' = IF deltas = <<>> THEN <<Snapshot>> ELSE deltas
  /\ UNCHANGED <<sources, hints, watching, subscribed, saves, lost, brain>>

\* _rediscover, on the loop: the delta is queued, or lost, because the queue is
\* full or because discovery raises.
Rediscover ==
  /\ notices > 0
  /\ notices' = notices - 1
  /\ \/ /\ Len(deltas) < QueueMax
        /\ deltas' = Append(deltas, Snapshot)
        /\ UNCHANGED lost
     \/ /\ Len(deltas) = QueueMax
        /\ lost' = edits
        /\ UNCHANGED deltas
     \/ /\ lost' = edits
        /\ UNCHANGED deltas
  /\ UNCHANGED <<sources, hints, watching, subscribed, saves, brain>>

\* The subscriber takes the oldest delta and the brain is told.
Consume ==
  /\ subscribed /\ deltas # <<>>
  /\ Tell(Head(deltas))
  /\ deltas' = Tail(deltas)
  /\ UNCHANGED <<sources, hints, watching, subscribed, saves, notices, lost>>

WatchNext == \/ Discover \/ Subscribe \/ Unsubscribe
             \/ \E f \in Files : Edit(f)
             \/ \E n \in Names : Import(n)
             \/ Notify \/ Rediscover \/ Consume

\* The watcher's thread and the loop run, and an agent that let go of the
\* subscription takes it up again and reads on.
Fairness == /\ WF_watchVars(Notify) /\ WF_watchVars(Rediscover)
            /\ WF_watchVars(Subscribe) /\ SF_watchVars(Consume)

WatchSpec == WatchInit /\ [][WatchNext]_watchVars /\ Fairness
-----------------------------------------------------------------------------
\* Of each task that a file declares, the brain's view is the one the sources
\* gave when they were last looked at for it: the running application's entry
\* if it had one (merger.py:3-5), otherwise the last declaration.
ViewIsLastSnapshot ==
  \A n \in Names :
    /\ n \in told.registered => view[n] = Loaded
    /\ (told.edits = edits /\ n \notin told.registered /\ DeclaredIn(n) # Absent)
         => view[n] = DeclaredIn(n)
    /\ view[n] = Loaded => n \in registered

\* A delta that waited while the agent asked again takes the view back to older
\* files (engine.py:491, 538); a newer account of them is then on its way, in a
\* save, a notice or a delta, unless it was lost.
StepBackIsMended ==
  told.edits < newest =>
    \/ saves > 0 \/ notices > 0
    \/ lost >= newest
    \/ \E i \in 1..Len(deltas) : deltas[i].edits >= newest

\* Each save that is made while the watcher runs reaches the brain for good, in
\* a snapshot at least as new, unless one as new was lost: because the queue was
\* full, or because discovery raised (engine.py:525-541).
SavesAreReported ==
  \A k \in 1..MaxEdits :
    (saves > 0 /\ edits = k) ~> (lost >= k \/ [](told.edits >= k))
=============================================================================
