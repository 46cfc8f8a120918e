-------------------------- MODULE Commands_proofs --------------------------
(***************************************************************************)
(* Commands, for any commands, any inputs and any number of threads: what  *)
(* is proved of the pool holds of it, a retry is sent as it was asked or   *)
(* not at all, and commands of every kind keep the one contract.           *)
(***************************************************************************)
EXTENDS Commands, OffloadPool_proofs

\* Every step of the commands is a step of the pool or leaves it alone.
THEOREM OverPool == CommandsSpec => Spec
<1>1. CommandsInit => Init
  BY DEF CommandsInit
<1>2. [CommandsNext]_commandVars => [Next]_vars
  <2> SUFFICES ASSUME [CommandsNext]_commandVars
               PROVE  [Next]_vars
    OBVIOUS
  <2>1. ASSUME NEW c \in Calls, Refuse(c) \/ Hold(c) \/ ControlActs(c) \/ ControlEnds(c)
        PROVE  UNCHANGED vars
    BY <2>1 DEF Refuse, Hold, ControlActs, ControlEnds, vars
  <2>2. ASSUME NEW c \in Calls, Offload(c)
        PROVE  Submit(c)
    BY <2>2 DEF Offload
  <2>3. ASSUME NEW c \in Calls, Publish(c) \/ ThreadStep(c) \/ LoopStep(c)
        PROVE  Step(c)
    BY <2>3 DEF Publish, ThreadStep, LoopStep, Step
  <2>4. CASE UNCHANGED commandVars
    BY <2>4 DEF commandVars, vars
  <2> QED
    BY <2>1, <2>2, <2>3, <2>4 DEF CommandsNext, Next
<1> QED
  BY <1>1, <1>2, PTL DEF CommandsSpec, Spec

\* The pool's answers stay honest among commands that hold the loop.
THEOREM CommandsHonest == CommandsSpec => []HonestAnswer
BY OverPool, Honesty, PTL

\* And no call is started whose caller was answered.
THEOREM CommandsNoLateStart == CommandsSpec => NoStartAfterAnswer
BY OverPool, NoLateStart, PTL
-----------------------------------------------------------------------------
\* Where one command can be: only what was not refused and does not belong on
\* the loop reaches the pool, and nothing else is answered without it; a message
\* is what its command resolves to; and a control's answer follows its message.
Place(c) ==
  /\ caller[c] # "idle" => /\ ~Refused(request[c]) /\ request[c].kind \notin OnLoop
                           /\ reply[c] = "none" /\ loop # {c}
  /\ sent[c] = Nothing \/ sent[c] = MessageOf(request[c])
  /\ (sent[c] # Nothing /\ request[c].kind \notin Controls) =>
       Resolvable(request[c]) /\ ~Refused(request[c])
  /\ loop = {c} => reply[c] = "none" /\ request[c].kind \in OnLoop
  /\ (sent[c] # Nothing /\ request[c].kind \in Controls) => loop = {c} \/ reply[c] # "none"
  /\ (reply[c] = "success" /\ request[c].kind \in Controls) => sent[c] # Nothing
  /\ reply[c] # "none" => Refused(request[c]) \/ request[c].kind \in OnLoop
  /\ reply[c] \in {"none", "success", "failed"}

Places == /\ DOMAIN sent = Calls /\ DOMAIN reply = Calls
          /\ \A c \in Calls : Place(c)

CInv == IInv /\ Places

\* What a command resolves to is settled by what arrived and by the transport.
LEMMA SameCommand ==
  ASSUME NEW c \in Calls, request' = request, transport' = transport
  PROVE  /\ Refused(request[c])' <=> Refused(request[c])
         /\ Resolvable(request[c])' <=> Resolvable(request[c])
         /\ MessageOf(request[c])' = MessageOf(request[c])
<1>1. Refused(request[c])' <=> Refused(request[c])
  BY DEF Refused, EtaAccepted, RateAccepted
<1>2. Resolvable(request[c])' <=> Resolvable(request[c])
  BY DEF Resolvable, NameOf, HalvesResolvable
<1>3. MessageOf(request[c])' = MessageOf(request[c])
  BY DEF MessageOf, NameOf, HalfOf, PriorityOf
<1> QED
  BY <1>1, <1>2, <1>3

\* A call that a step does not touch keeps its place.
LEMMA OtherPlaces ==
  ASSUME NEW d \in Calls, Place(d), request' = request, transport' = transport,
         caller'[d] = caller[d], reply'[d] = reply[d], sent'[d] = sent[d],
         loop' = {d} <=> loop = {d}
  PROVE  Place(d)'
BY SameCommand DEF Place

\* A step of one command.
StepOf(c) == \/ Refuse(c) \/ Offload(c) \/ Hold(c) \/ ControlActs(c) \/ ControlEnds(c)
             \/ Publish(c) \/ ThreadStep(c) \/ LoopStep(c)

\* What a step of one command leaves alone: what arrived, and all that belongs
\* to another command.
LEMMA Untouched ==
  ASSUME TypeOK, Places, NEW c \in Calls, StepOf(c)
  PROVE  /\ request' = request /\ transport' = transport
         /\ \A d \in Calls \ {c} :
              /\ caller'[d] = caller[d] /\ effects'[d] = effects[d]
              /\ reply'[d] = reply[d] /\ sent'[d] = sent[d]
              /\ loop' = {d} <=> loop = {d}
<1> USE DEF StepOf
<1>1. request' = request /\ transport' = transport
  BY DEF Refuse, Offload, Hold, ControlActs, ControlEnds, Publish, ThreadStep, LoopStep
<1>2. ASSUME NEW d \in Calls \ {c}
      PROVE  caller'[d] = caller[d] /\ effects'[d] = effects[d]
  BY DEF Refuse, Offload, Hold, ControlActs, ControlEnds, Publish, ThreadStep, LoopStep, vars,
         Submit, Apply, Take, Return, Raise, Deliver, Timeout, TypeOK
<1>3. ASSUME NEW d \in Calls \ {c}
      PROVE  reply'[d] = reply[d] /\ sent'[d] = sent[d]
  BY DEF Refuse, Offload, Hold, ControlActs, ControlEnds, Publish, ThreadStep, LoopStep, Places
<1>4. ASSUME NEW d \in Calls \ {c}
      PROVE  loop' = {d} <=> loop = {d}
  <2>1. loop' = loop \/ (loop = {} /\ loop' = {c}) \/ (loop = {c} /\ loop' = {})
    BY DEF Refuse, Offload, Hold, ControlActs, ControlEnds, Publish, ThreadStep, LoopStep, Free
  <2>2. {d} # {} /\ {d} # {c}
    OBVIOUS
  <2> QED
    BY <2>1, <2>2
<1> QED
  BY <1>1, <1>2, <1>3, <1>4

LEMMA PlacesStep ==
  ASSUME TypeOK, Agreement, Places, [CommandsNext]_commandVars
  PROVE  Places'
<1>1. ASSUME NEW c \in Calls, StepOf(c), NEW d \in Calls, d # c
      PROVE  Place(d)'
  <2>1. Place(d)
    BY DEF Places
  <2> QED
    BY <1>1, <2>1, Untouched, OtherPlaces
<1>2. ASSUME NEW c \in Calls, StepOf(c)
      PROVE  Place(c)'
  <2>0. Place(c) /\ request' = request /\ transport' = transport
    BY <1>2, Untouched DEF Places
  <2> USE <2>0, SameCommand DEF Place
  <2>1. CASE Refuse(c)
    BY <2>1 DEF Refuse, vars, Places, Free
  <2>2. CASE Offload(c)
    <3>1. loop' # {c} /\ caller'[c] = "waiting" /\ reply'[c] = reply[c] /\ sent'[c] = sent[c]
      BY <2>2 DEF Offload, Submit, TypeOK, Free
    <3>2. ~Refused(request[c]) /\ request[c].kind \notin OnLoop /\ loop # {c}
      BY <2>2 DEF Offload, Free
    <3>3. reply[c] = "none"
      BY <3>2
    <3> QED
      BY <3>1, <3>2, <3>3
  <2>3. CASE Hold(c)
    BY <2>3 DEF Hold, vars, Free, OnLoop
  <2>4. CASE ControlActs(c)
    BY <2>4 DEF ControlActs, vars, Places
  <2>5. CASE ControlEnds(c)
    BY <2>5 DEF ControlEnds, vars, Free, Places
  <2>6. CASE Publish(c)
    <3>1. caller[c] # "idle" /\ caller'[c] = caller[c]
      BY <2>6 DEF Publish, Apply, Agreement, TypeOK
    <3> QED
      BY <2>6, <3>1 DEF Publish, Places, OnLoop
  <2>7. CASE ThreadStep(c)
    <3>1. caller'[c] = caller[c]
      BY <2>7 DEF ThreadStep, Take, Return, Raise
    <3> QED
      BY <2>7, <3>1 DEF ThreadStep
  <2>8. CASE LoopStep(c)
    <3>1. caller[c] # "idle"
      BY <2>8 DEF LoopStep, Deliver, Timeout
    <3> QED
      BY <2>8, <3>1 DEF LoopStep
  <2> QED
    BY <1>2, <2>1, <2>2, <2>3, <2>4, <2>5, <2>6, <2>7, <2>8 DEF StepOf
<1>3. DOMAIN sent' = Calls /\ DOMAIN reply' = Calls
  BY DEF CommandsNext, commandVars, Refuse, Offload, Hold, ControlActs, ControlEnds, Publish, ThreadStep, LoopStep, Places
<1>4. CASE UNCHANGED commandVars
  BY <1>4, SameCommand DEF commandVars, vars, Places, Place
<1> QED
  BY <1>1, <1>2, <1>3, <1>4 DEF CommandsNext, StepOf, Places

\* The inductive invariant of the pool and of what the commands add to it.
LEMMA CommandsInductive == CommandsSpec => []CInv
<1>1. CommandsInit => Places
  BY DEF CommandsInit, Init, Places, Place, Free, OnLoop
<1>2. IInv /\ Places /\ [CommandsNext]_commandVars => Places'
  BY PlacesStep DEF IInv
<1> QED
  BY <1>1, <1>2, OverPool, Inductive, PTL DEF CommandsSpec, CInv
-----------------------------------------------------------------------------
\* Whatever arrives, what is carried out is what was asked: a retry with a
\* known name, both halves of its arguments known, inside the eta window.
THEOREM AsAsked == CommandsSpec => []SentAsAsked
<1>1. CInv => SentAsAsked
  <2> SUFFICES ASSUME CInv, NEW c \in Calls, sent[c] # Nothing
               PROVE  LET r == request[c]  m == sent[c] IN
                      IF r.kind # "retry_task" THEN m = r
                      ELSE /\ m.name \in {r.name, r.storedName} \ {"none", "placeholder"}
                           /\ r.name \in {"none", "placeholder"} \/ m.name = r.name
                           /\ m.args   = (IF r.args   = "none" THEN r.storedArgs   ELSE r.args)
                           /\ m.kwargs = (IF r.kwargs = "none" THEN r.storedKwargs ELSE r.kwargs)
                           /\ "none" \notin {m.args, m.kwargs}
                           /\ m.eta.form = "time" => m.eta.delta <= EtaMaxFuture /\ m.eta.delta >= -EtaMaxPast
    BY DEF SentAsAsked
  <2> DEFINE r == request[c]
             m == sent[c]
  <2>1. m = MessageOf(r)
    BY DEF CInv, Places, Place
  <2>2. CASE r.kind # "retry_task"
    BY <2>1, <2>2 DEF MessageOf
  <2>3. CASE r.kind = "retry_task"
    <3>1. Resolvable(r) /\ ~Refused(r)
      BY <2>3 DEF CInv, Places, Place, Controls
    <3>2. NameOf(r) \notin {"none", "placeholder"} /\ HalvesResolvable(r) /\ EtaAccepted(r.eta)
      BY <2>3, <3>1 DEF Resolvable, Refused
    <3>3. /\ m.name = NameOf(r) /\ m.eta = r.eta
          /\ m.args = HalfOf(r.args, r.storedArgs) /\ m.kwargs = HalfOf(r.kwargs, r.storedKwargs)
      BY <2>1, <2>3 DEF MessageOf
    <3>4. m.eta.form = "time" => m.eta.delta <= EtaMaxFuture /\ m.eta.delta >= -EtaMaxPast
      BY <3>2, <3>3, EtaAssumption DEF EtaAccepted
    <3> QED
      BY <2>3, <3>2, <3>3, <3>4 DEF NameOf, HalvesResolvable, HalfOf
  <2> QED
    BY <2>2, <2>3
<1> QED
  BY <1>1, CommandsInductive, PTL
-----------------------------------------------------------------------------
\* On either transport the two maps of labels agree with how it serves them.
LEMMA LabelOrder ==
  ASSUME NEW p, NEW q, p.form = "label", q.form = "label",
         p.label \in DOMAIN Urgency, q.label \in DOMAIN Urgency,
         Urgency[p.label] > Urgency[q.label]
  PROVE  ServedBefore(PriorityOf(p), PriorityOf(q))
<1>1. p.label \in {"critical", "high", "normal", "low"} /\ q.label \in {"critical", "high", "normal", "low"}
  BY DEF Urgency
<1>2. CASE transport = "redis"
  <2>1. PriorityOf(p) = RedisPriority[p.label] /\ PriorityOf(q) = RedisPriority[q.label]
    BY <1>1, <1>2 DEF PriorityOf, RedisPriority
  <2> QED
    BY <1>1, <1>2, <2>1 DEF ServedBefore, RedisPriority, Urgency
<1>3. CASE transport # "redis"
  <2>1. PriorityOf(p) = AmqpPriority[p.label] /\ PriorityOf(q) = AmqpPriority[q.label]
    BY <1>1, <1>3 DEF PriorityOf, AmqpPriority
  <2> QED
    BY <1>1, <1>3, <2>1 DEF ServedBefore, AmqpPriority, Urgency
<1> QED
  BY <1>2, <1>3

\* Retries named by label are served in the order of their labels whichever
\* transport the application writes to, and a number is sent as it was given.
THEOREM OrderOfLabels == CommandsSpec => []LabelsKeepTheirOrder
<1>1. ASSUME CInv, NEW c \in Calls, sent[c].kind = "retry_task"
      PROVE  sent[c].priority = PriorityOf(request[c].priority)
  <2>1. sent[c] # Nothing
    BY <1>1 DEF Nothing
  <2>2. sent[c] = MessageOf(request[c])
    BY <1>1, <2>1 DEF CInv, Places, Place
  <2>3. request[c].kind = "retry_task"
    BY <1>1, <2>2 DEF MessageOf
  <2> QED
    BY <2>2, <2>3 DEF MessageOf
<1>2. ASSUME NEW p, p.form = "number"
      PROVE  PriorityOf(p) \in {p.number, -1}
  BY <1>2 DEF PriorityOf
<1>3. CInv => LabelsKeepTheirOrder
  BY <1>1, <1>2, LabelOrder DEF LabelsKeepTheirOrder
<1> QED
  BY <1>3, CommandsInductive, PTL
-----------------------------------------------------------------------------
\* What the abstract contract sees of the commands.
Seen(c)    == IF request[c].kind \in Queries THEN "idle" ELSE AnswerTo(c)
Carried(c) == IF sent[c] = Nothing THEN effects[c]
              ELSE IF request[c].kind \in Controls THEN 1 ELSE effects[c]

\* A step that shows in the answer or the effect of one command only shows in
\* those of that command.
LEMMA OthersUnseen ==
  ASSUME TypeOK, Places, NEW c \in Calls, StepOf(c)
  PROVE  \A d \in Calls \ {c} : Seen(d)' = Seen(d) /\ Carried(d)' = Carried(d)
BY Untouched DEF Seen, Carried, AnswerTo

\* Refused, offloaded and direct commands together keep the one contract.
THEOREM OneContract == CommandsSpec => ImplementsContract
<1> DEFINE answers == [c \in Calls |-> IF request[c].kind \in Queries THEN "idle" ELSE AnswerTo(c)]
           carried == [c \in Calls |-> IF sent[c] = Nothing THEN effects[c]
                                       ELSE IF request[c].kind \in Controls THEN 1
                                       ELSE effects[c]]
<1>1. CommandsInit => Contract!Init
  <2> SUFFICES ASSUME CommandsInit PROVE Contract!Init
    OBVIOUS
  <2>1. \A c \in Calls : AnswerTo(c) = "idle"
    BY DEF CommandsInit, Init, AnswerTo, Free
  <2>2. \A c \in Calls : sent[c] = Nothing /\ effects[c] = 0
    BY DEF CommandsInit, Init
  <2> QED
    BY <2>1, <2>2 DEF Contract!Init
<1>2. ASSUME CInv, NEW c \in Calls, StepOf(c)
      PROVE  [Contract!Next]_(Contract!vars)
  <2>0. /\ TypeOK /\ Agreement /\ Places /\ Place(c)
        /\ request' = request /\ transport' = transport
    BY <1>2, Untouched DEF CInv, IInv, Places
  <2>1. \A d \in Calls \ {c} : Seen(d)' = Seen(d) /\ Carried(d)' = Carried(d)
    BY <1>2, <2>0, OthersUnseen
  <2>2. ASSUME Seen(c)' = Seen(c), Carried(c)' = Carried(c)
        PROVE  UNCHANGED Contract!vars
    <3>1. answers' = answers /\ carried' = carried
      BY <2>1, <2>2 DEF Seen, Carried
    <3> QED
      BY <3>1 DEF Contract!vars
  <2>3. ASSUME Carried(c)' = Carried(c)
        PROVE  /\ carried' = carried
               /\ answers' = [answers EXCEPT ![c] = Seen(c)']
    BY <2>1, <2>3 DEF Seen, Carried
  <2>4. ASSUME Seen(c)' = Seen(c)
        PROVE  /\ answers' = answers
               /\ carried' = [carried EXCEPT ![c] = Carried(c)']
    BY <2>1, <2>4 DEF Seen, Carried
  <2>5. answers[c] = Seen(c) /\ carried[c] = Carried(c)
    BY DEF Seen, Carried
  <2>5a. ASSUME NEW r \in {"success", "failed", "indeterminate"},
                Contract!Answer(c, r)
         PROVE  Contract!Next
    BY <2>5a DEF Contract!Next, Contract!Answers, Contract!Definite
  <2>5b. ASSUME Seen(c) = "waiting", Seen(c)' \in {"success", "failed", "indeterminate"},
                Seen(c)' = "success" => Carried(c) = 1, Carried(c)' = Carried(c)
         PROVE  Contract!Next
    <3>1. PICK r \in {"success", "failed", "indeterminate"} : r = Seen(c)'
      BY <2>5b
    <3>2. Contract!Answer(c, r)
      BY <2>3, <2>5, <2>5b, <3>1 DEF Contract!Answer
    <3> QED
      BY <2>5a, <3>2
  <2> USE DEF Seen, Carried, AnswerTo, Queries, Controls, OnLoop, Free
  <2>6. CASE Refuse(c)
    <3>1. Seen(c) = "idle" /\ Seen(c)' = "failed"
      BY <2>0, <2>6 DEF Refuse, Refused, Places
    <3>2. Carried(c)' = Carried(c)
      BY <2>0, <2>6 DEF Refuse, vars
    <3>3. Contract!Refuse(c)
      BY <2>3, <2>5, <3>1, <3>2 DEF Contract!Refuse
    <3> QED
      BY <3>3 DEF Contract!Next
  <2>7. CASE Offload(c)
    <3>1. Seen(c) = "idle" /\ Seen(c)' = "waiting"
      BY <2>0, <2>7 DEF Offload, Submit, TypeOK, Place
    <3>2. Carried(c)' = Carried(c)
      BY <2>0, <2>7 DEF Offload, Submit
    <3>3. Contract!Issue(c)
      BY <2>3, <2>5, <3>1, <3>2 DEF Contract!Issue
    <3> QED
      BY <3>3 DEF Contract!Next
  <2>8. CASE Hold(c)
    <3>1. caller[c] = "idle" /\ Carried(c)' = Carried(c)
      BY <2>0, <2>8 DEF Hold, vars, Place
    <3>2. CASE request[c].kind \in Queries
      BY <2>0, <2>2, <3>1, <3>2
    <3>3. CASE request[c].kind \notin Queries
      <4>1. Seen(c) = "idle" /\ Seen(c)' = "waiting"
        BY <2>0, <2>8, <3>1, <3>3 DEF Hold
      <4>2. Contract!Issue(c)
        BY <2>3, <2>5, <3>1, <4>1 DEF Contract!Issue
      <4> QED
        BY <4>2 DEF Contract!Next
    <3> QED
      BY <3>2, <3>3
  <2>9. CASE ControlActs(c)
    <3>1. Seen(c) = "waiting" /\ Seen(c)' = Seen(c)
      BY <2>0, <2>9 DEF ControlActs, Place, vars
    <3>2. Carried(c) = 0
      BY <2>0, <2>9 DEF ControlActs, Place, Agreement
    <3>3. Carried(c)' = 1
      <4>1. request[c].kind \in Controls
        BY <2>9 DEF ControlActs
      <4>2. request[c].kind # Nothing.kind
        BY <4>1 DEF Nothing
      <4>3. request[c] # Nothing
        BY <4>2
      <4>4. MessageOf(request[c]) = request[c]
        BY <4>1 DEF MessageOf
      <4>5. DOMAIN sent = Calls
        BY <2>0 DEF Places
      <4>6. sent'[c] = request[c]
        BY <2>9, <4>4, <4>5 DEF ControlActs
      <4>7. request' = request
        BY <2>9 DEF ControlActs
      <4> QED
        BY <4>1, <4>3, <4>6, <4>7
    <3>4. Contract!Apply(c)
      BY <2>4, <2>5, <3>1, <3>2, <3>3 DEF Contract!Apply
    <3> QED
      BY <3>4 DEF Contract!Next
  <2>10. CASE ControlEnds(c)
    <3>1. Carried(c)' = Carried(c)
      BY <2>0, <2>10 DEF ControlEnds, vars
    <3>2. CASE request[c].kind \in Queries
      BY <2>0, <2>2, <3>1, <3>2
    <3>3. CASE request[c].kind \notin Queries
      <4>1. Seen(c) = "waiting" /\ request[c].kind \in Controls
        BY <2>0, <2>10, <3>3 DEF ControlEnds, Place
      <4>2. Seen(c)' \in {"success", "failed"} /\ (Seen(c)' = "success" => Carried(c) = 1)
        BY <2>0, <2>10, <4>1 DEF ControlEnds, Places
      <4> QED
        BY <2>5b, <3>1, <4>1, <4>2
    <3> QED
      BY <3>2, <3>3
  <2>11. CASE Publish(c)
    <3>1. caller[c] \in {"waiting", "indeterminate"} /\ effects[c] = 0
      BY <2>0, <2>11 DEF Publish, Apply, TypeOK, CallerStates, Agreement
    <3>2. Seen(c) = caller[c] /\ Seen(c)' = Seen(c)
      BY <2>0, <2>11, <3>1 DEF Publish, Apply, Place
    <3>3. Carried(c) = 0 /\ Carried(c)' = 1
      <4>1. request[c].kind \notin Controls
        BY <2>0, <3>1 DEF Place
      <4>2. effects'[c] = 1 /\ request' = request
        BY <2>0, <2>11, <3>1 DEF Publish, Apply, TypeOK
      <4> QED
        BY <3>1, <4>1, <4>2
    <3>4. Contract!Apply(c)
      BY <2>4, <2>5, <3>1, <3>2, <3>3 DEF Contract!Apply
    <3> QED
      BY <3>4 DEF Contract!Next
  <2>12. CASE ThreadStep(c)
    <3>1. Seen(c)' = Seen(c) /\ Carried(c)' = Carried(c)
      BY <2>0, <2>12 DEF ThreadStep, Take, Return, Raise
    <3> QED
      BY <2>2, <3>1
  <2>13. CASE LoopStep(c)
    <3>1. caller[c] = "waiting" /\ Seen(c) = "waiting" /\ Carried(c)' = Carried(c)
      BY <2>0, <2>13 DEF LoopStep, Deliver, Timeout, Place
    <3>2. Seen(c)' = caller'[c]
      BY <2>0, <2>13, <3>1 DEF LoopStep, Place
    <3>3. caller'[c] \in {"success", "failed", "indeterminate"}
      BY <2>0, <2>13 DEF LoopStep, Deliver, Timeout, OutcomeOf, TimeoutAnswer, TypeOK
    <3>4. caller'[c] = "success" => Carried(c) = 1
      BY <2>0, <2>13, <3>1 DEF LoopStep, Deliver, Timeout, OutcomeOf, TimeoutAnswer, TypeOK, Agreement, Place
    <3> QED
      BY <2>5b, <3>1, <3>2, <3>3, <3>4
  <2> QED
    BY <1>2, <2>6, <2>7, <2>8, <2>9, <2>10, <2>11, <2>12, <2>13 DEF StepOf
<1>3. CInv /\ [CommandsNext]_commandVars => [Contract!Next]_(Contract!vars)
  <2>1. ASSUME UNCHANGED commandVars
        PROVE  UNCHANGED Contract!vars
    BY <2>1 DEF commandVars, vars, Contract!vars, AnswerTo
  <2> QED
    BY <1>2, <2>1 DEF CommandsNext, StepOf
<1> QED
  BY <1>1, <1>3, CommandsInductive, PTL DEF CommandsSpec, ImplementsContract, Contract!Spec
=============================================================================
