--------------------------- MODULE CommandOutcome ---------------------------
(***************************************************************************)
(* What an operator may conclude from the answer to a command that makes   *)
(* the broker do something (retry, submit, cancel, purge, ...).            *)
(*                                                                         *)
(* A command is carried out by the broker at most once.  "success" is only *)
(* answered for a command that was carried out; after "success" or         *)
(* "failed" the matter is settled and nothing further happens on its       *)
(* behalf; after "indeterminate" the broker may still carry it out.        *)
(*                                                                         *)
(* Nothing here names a thread, a queue or a timeout: OffloadPool is shown *)
(* to implement this module.                                               *)
(***************************************************************************)
EXTENDS Naturals

CONSTANT Calls   \* the commands

VARIABLES
  answer,   \* answer[c]: "idle", "waiting", or what the caller was told
  effects   \* effects[c]: how often the broker carried out command c

vars == <<answer, effects>>

Definite == {"success", "failed"}
Answers  == Definite \union {"indeterminate"}

Init == /\ answer  = [c \in Calls |-> "idle"]
        /\ effects = [c \in Calls |-> 0]

Issue(c) == /\ answer[c] = "idle"
            /\ answer' = [answer EXCEPT ![c] = "waiting"]
            /\ UNCHANGED effects

\* What is wrong with a command on the face of it is refused at once, and
\* nothing was or will be done.
Refuse(c) == /\ answer[c] = "idle"
             /\ answer' = [answer EXCEPT ![c] = "failed"]
             /\ UNCHANGED effects

Apply(c) == /\ answer[c] \in {"waiting", "indeterminate"}
            /\ effects[c] = 0
            /\ effects' = [effects EXCEPT ![c] = 1]
            /\ UNCHANGED answer

Answer(c, r) == /\ answer[c] = "waiting"
                /\ r = "success" => effects[c] = 1
                /\ answer' = [answer EXCEPT ![c] = r]
                /\ UNCHANGED effects

Next == \E c \in Calls : \/ Issue(c)
                         \/ Refuse(c)
                         \/ Apply(c)
                         \/ \E r \in Answers : Answer(c, r)

Spec == Init /\ [][Next]_vars
=============================================================================
