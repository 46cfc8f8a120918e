---------------------------- MODULE MCTaskReports ----------------------------
(* A run on the local worker, retried once, of a task with a whitelist and *)
(* redactions of its own, and a run on another worker.                     *)
EXTENDS TaskReports

MCTasks    == {"t1", "t2"}
MCHostOf   == [t1 |-> "local", t2 |-> "remote"]
MCMaxAttempts == [t1 |-> 2, t2 |-> 1]
MCKwargsOf == [t1 |-> {"id", "email", "token", "password"}, t2 |-> {"id"}]
MCMetaOf   == [t1 |-> [keep |-> {"id", "email", "token"}, keeps |-> TRUE, redact |-> {"email"},
                       redactResult |-> TRUE, tags |-> {"billing"}],
               t2 |-> NoMeta]
=============================================================================
