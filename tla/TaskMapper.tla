----------------------------- MODULE TaskMapper -----------------------------
(***************************************************************************)
(* How a lifecycle event's contents are built (events/mapper.py, meta.py). *)
(*                                                                         *)
(* A builder is handed a task as an object, as a name or not at all.  Its  *)
(* metadata (@z4j_meta) hangs on the object's function and is out of reach *)
(* of a name.  Values are "plain" or "redacted"; keys that the redaction   *)
(* engine recognises by itself are in Sensitive.                           *)
(***************************************************************************)
EXTENDS Naturals

CONSTANT Sensitive   \* keyword names the redaction engine scrubs by itself

None == "none"

NoMeta == [keep |-> {}, keeps |-> FALSE, redact |-> {}, redactResult |-> FALSE, tags |-> {}]

\* A reference to a task t, as the callers pass it.
Object(t) == [form |-> "object", task |-> t]
Named(t)  == [form |-> "name", task |-> t]
Absent    == [form |-> "none", task |-> None]

\* get_meta: the metadata of the task behind an object; a string has none.
GetMeta(ref, meta) == IF ref.form = "object" THEN meta[ref.task] ELSE NoMeta

\* _resolve_task_name: the name, or a placeholder made from the task's id.
ResolveTaskName(ref, id) == IF ref.form = "none" THEN [unknown |-> TRUE, name |-> id]
                            ELSE [unknown |-> FALSE, name |-> ref.task]

\* _scrub_args: under a whitelist positional arguments go as a whole.
ScrubArgs(args, m) == IF args = None THEN None
                      ELSE IF m.keeps THEN "redacted" ELSE args

\* Mutant: the whitelist alone decides.
ScrubKwargsKeepOnly(keys, m) ==
  [k \in (IF m.keeps THEN keys \intersect m.keep ELSE keys) |->
     IF k \in Sensitive THEN "redacted" ELSE "plain"]

\* _scrub_kwargs: the whitelist first, then the task's own redactions, then
\* the engine's.
ScrubKwargs(keys, m) ==
  [k \in (IF m.keeps THEN keys \intersect m.keep ELSE keys) |->
     IF k \in m.redact \union Sensitive THEN "redacted" ELSE "plain"]

\* build_task_succeeded_event's treatment of the result.
ScrubResult(m) == IF m.redactResult THEN "redacted" ELSE "plain"
=============================================================================
