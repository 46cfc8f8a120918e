----------------------------- MODULE WorkerArgv -----------------------------
(***************************************************************************)
(* How worker_bootstrap.py tells a "celery worker" process by its argv     *)
(* (_is_celery_worker_invocation, _argv_has_worker_subcommand).            *)
(*                                                                         *)
(* A token stands for all the spellings the code treats alike: "celery"    *)
(* for celery.exe, "python" for any CPython or PyPy name, "uv" for every   *)
(* wrapper launcher (pipx, poetry, hatch, rye, pdm), "-A" for a global     *)
(* option whose value is the next token, "-q" for any other token that     *)
(* starts with a dash.  No process that imports the package has "python",  *)
(* "uvx" or "uv" as argv[0]: an interpreter puts the script there, and a   *)
(* wrapper starts a process of its own.  These branches of the code answer *)
(* argv as its tests patch it.                                             *)
(***************************************************************************)
EXTENDS Integers, Sequences

TakesValue == {"-A"}                 \* options_with_separate_value
Dashed     == {"-A", "-q", "-m"}     \* arg.startswith("-")

From(s, i) == SubSeq(s, i, Len(s))

\* Mutant: the value of an option is taken for the sub-command.
FirstPlainToken(rest) ==
  \E i \in 1..Len(rest) : rest[i] = "worker" /\ \A j \in 1..(i - 1) : rest[j] \in Dashed

\* The index behind the option at i, and behind its value.
Behind(s, i) == IF s[i] \in TakesValue THEN i + 2 ELSE i + 1

\* The loop's walk: where it ends when it looks at i next.
Walk(rest) ==
  LET index[i \in 1..(Len(rest) + 2)] ==
        IF i <= Len(rest) /\ rest[i] \in Dashed THEN index[Behind(rest, i)] ELSE i
  IN  index

\* The first token that is neither an option nor an option's value is "worker".
HasWorkerSubcommand(rest) ==
  LET i == Walk(rest)[1]
  IN  i <= Len(rest) /\ rest[i] = "worker"

\* argv runs celery as a module of an interpreter, from position i on.
RunsModule(argv, i) ==
  /\ i + 2 <= Len(argv)
  /\ argv[i] = "python" /\ argv[i + 1] = "-m" /\ argv[i + 2] = "celery"

\* Where the wrapper's walk finds celery, directly or as a module.
Recognised(argv) == {i \in 2..Len(argv) : argv[i] = "celery" \/ RunsModule(argv, i)}

\* _is_celery_worker_invocation.
IsCeleryWorkerInvocation(argv) ==
  /\ argv # <<>>
  /\ \/ argv[1] = "celery" /\ HasWorkerSubcommand(From(argv, 2))
     \/ RunsModule(argv, 1) /\ HasWorkerSubcommand(From(argv, 4))
     \/ /\ argv[1] = "uvx" /\ Len(argv) > 1 /\ argv[2] = "celery"
        /\ HasWorkerSubcommand(From(argv, 3))
     \/ /\ argv[1] = "uv"
        /\ \E i \in Recognised(argv) :
             /\ \A j \in Recognised(argv) : i <= j
             /\ HasWorkerSubcommand(From(argv, IF argv[i] = "celery" THEN i + 1 ELSE i + 3))
-----------------------------------------------------------------------------
\* Options as celery's command line takes them: each one whole.
Options(s) ==
  \E heads \in SUBSET (1..(Len(s) + 1)) :
    /\ {1, Len(s) + 1} \subseteq heads
    /\ \A i \in heads \ {Len(s) + 1} : s[i] \in Dashed /\ Behind(s, i) \in heads
=============================================================================
