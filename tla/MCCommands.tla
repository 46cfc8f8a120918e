----------------------------- MODULE MCCommands -----------------------------
(* Three commands on one thread: a retry with every combination of sources *)
(* for its inputs, a second retry or another offloaded command, and one    *)
(* that may hold the loop.                                                 *)
EXTENDS Commands

Eta(d) == [form |-> "time", delta |-> d]
NoEta  == [form |-> "none", delta |-> 0]
BadEta == [form |-> "unparsable", delta |-> 0]
Label(l)  == [form |-> "label", label |-> l, number |-> -1]
Number(n) == [form |-> "number", label |-> "", number |-> n]
NoPriority == [form |-> "none", label |-> "", number |-> -1]

Retry(name, storedName, halves, eta, priority) ==
  [kind |-> "retry_task", name |-> name, storedName |-> storedName,
   args |-> halves[1], storedArgs |-> halves[2], kwargs |-> halves[3], storedKwargs |-> halves[4],
   eta |-> eta, priority |-> priority]

Full  == <<"given", "none", "given", "none">>
Names == {"none", "placeholder", "given"}
Given == {"none", "given"}
Stored == {"none", "stored"}

Retries ==
  {Retry(n, s, Full, NoEta, NoPriority) : n \in Names, s \in {"none", "placeholder", "stored"}}
  \union {Retry("given", "none", <<a, sa, k, sk>>, NoEta, NoPriority) :
            a \in Given, sa \in Stored, k \in Given, sk \in Stored}
  \union {Retry("given", "none", Full, e, NoPriority) :
            e \in {BadEta, Eta(-3), Eta(-2), Eta(0), Eta(5), Eta(6)}}
  \union {Retry("given", "none", Full, NoEta, p) :
            p \in {Label("critical"), Label("low"), Label("urgent"), Number(7), Number(256)}}

Rate(n, u) == [kind |-> "rate_limit", named |-> TRUE, rate |-> [number |-> n, unit |-> u]]

Others == {[kind |-> "submit_task", eta |-> NoEta], [kind |-> "submit_task", eta |-> BadEta],
           [kind |-> "requeue_dead_letter"],
           Rate(0, ""), Rate(0, "/m"), Rate(5, "/h"), Rate(5, "/d"),
           [Rate(5, "") EXCEPT !.named = FALSE]}

Restart == [kind |-> "restart_worker"]
Grow    == [kind |-> "pool_grow"]
Probe   == [kind |-> "reconcile_task"]
High    == Retry("given", "none", Full, NoEta, Label("high"))

(* Each retry beside another one and a control; each other command beside  *)
(* a cancel and a query; and three that all need the one thread.           *)
MCScenarios == {<<r, High, Grow>> : r \in Retries}
                 \union {<<o, [kind |-> "cancel_task"], Probe>> : o \in Others}
                 \union {<<High, [kind |-> "cancel_task"], Restart>>}
=============================================================================
