------------------------- MODULE MCWorkerLifecycle -------------------------
(* Celery's script, celery's module and another program, options with and  *)
(* without a value - one named like a sub-command -, and four commands.     *)
EXTENDS WorkerLifecycle

MCInvocations ==
  [program : {"celery", "main", "app"},
   options : {<<>>, <<"-q">>, <<"-A", "app">>, <<"-A", "worker">>, <<"-q", "-A", "app">>,
              <<"-A", "worker", "-q">>},
   command : {<<"worker">>, <<"inspect">>, <<"inspect", "worker">>, <<"app">>}]

MCSettings ==
  [disabled : {FALSE}, transport : {"redis", "other"}, socketTimeout : {"unset", "seconds", "none"}]
    \union [disabled : {TRUE}, transport : {"redis"}, socketTimeout : {"unset"}]
=============================================================================
