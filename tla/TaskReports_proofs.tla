------------------------- MODULE TaskReports_proofs -------------------------
(***************************************************************************)
(* TaskReports, for any tasks, any metadata and any number of retries: the *)
(* task's metadata is applied wherever a signal reports it, the two paths  *)
(* never tell the steps of a task out of order, and together they cover    *)
(* every step and overlap no more than they must.                          *)
(***************************************************************************)
EXTENDS TaskReports, FiniteSetTheorems, SequenceTheorems, TLAPS

\* Where a step stands in the life of its task, as a number.
Moment(k, s) == 3 * k + (IF s = "received" THEN 0 ELSE IF s = "started" THEN 1 ELSE 2)

Now(t)        == Moment(attempt[t], life[t])
When(t, i)    == Moment(reports[t][i].attempt, reports[t][i].step)
WhenWired(t, i) == Moment(wire[t][i][1], wire[t][i][2])
Wired(t)      == 1..Len(wire[t])

\* What can be told of t: anything by its signals, and by the monitor all but
\* that it was received.
Told(t) == {Report(t, k, s, "signal", Object(t)) : k \in Nat, s \in Steps}
           \union {Report(t, k, s, "broker", ref) :
                     k \in Nat, s \in Steps \ {"received"}, ref \in {Named(t), Absent}}

Telling == /\ DOMAIN reports = Tasks
           /\ \A t \in Tasks : reports[t] \in Seq(Told(t))

\* The events of t wait in the order of its steps, and what the monitor told
\* of t came before them.
WireInOrder(t) ==
  /\ \A i \in Wired(t) : WhenWired(t, i) <= Now(t)
  /\ \A i, j \in Wired(t) : i < j => WhenWired(t, i) < WhenWired(t, j)
  /\ \A i \in Reported(t), j \in Wired(t) :
       reports[t][i].path = "broker" => When(t, i) < WhenWired(t, j)

\* A later report on the same path, or that t was received again, is of a
\* later step.
ToldInOrder(t) ==
  /\ \A i \in Reported(t) : When(t, i) <= Now(t)
  /\ \A i, j \in Reported(t) :
       (i < j /\ (reports[t][i].path = reports[t][j].path \/ reports[t][j].step = "received"))
         => When(t, i) < When(t, j)

\* Whose steps are told at all, and which of them the parent of a prefork pool
\* hears by a signal.
ToldOfOwn(t) ==
  /\ (filtering /\ HostOf[t] # "local") => reports[t] = <<>>
  /\ \A i \in Reported(t) :
       (deployment = "prefork" /\ reports[t][i].path = "signal")
         => reports[t][i].step \in {"received", "failed", "revoked"}

IsWired(t, k, s) == \E i \in Wired(t) : wire[t][i] = <<k, s>>
IsTold(t, k, s)  == \E i \in Reported(t) : reports[t][i].attempt = k /\ reports[t][i].step = s

\* A step of a local task that was heard of is waiting or was told; but that it
\* was received the monitor does not tell, and its worker has told already.
NothingLost(t) ==
  HostOf[t] = "local" =>
    \A k \in Nat, s \in Steps : <<t, k, s>> \in heard =>
      /\ s # "received" => IsWired(t, k, s) \/ IsTold(t, k, s)
      /\ (s = "received" /\ deployment # "beside") => IsTold(t, k, s)

Kept(t) == WireInOrder(t) /\ ToldInOrder(t) /\ ToldOfOwn(t) /\ NothingLost(t)

IInv == TypeOK /\ Telling /\ \A t \in Tasks : Kept(t)
-----------------------------------------------------------------------------
\* What the fields of a report say of where it comes from.
LEMMA Fields ==
  ASSUME NEW t, NEW k, NEW s, NEW path, NEW ref
  PROVE  LET r == Report(t, k, s, path, ref) IN r.attempt = k /\ r.step = s /\ r.path = path
BY DEF Report

\* What is told of a task has an attempt, a step and a path, and the monitor
\* never tells that a task was received.
LEMMA ToldFields ==
  ASSUME NEW t, NEW r \in Told(t)
  PROVE  /\ r.attempt \in Nat /\ r.step \in Steps /\ r.path \in {"signal", "broker"}
         /\ r.path = "broker" => r.step # "received"
BY Fields DEF Told

\* The moment of a step is a number.
LEMMA MomentType ==
  ASSUME NEW k \in Nat, NEW s
  PROVE  Moment(k, s) \in Nat
BY DEF Moment

\* A report that is added leaves the others where they were.
LEMMA Added ==
  ASSUME Telling, NEW t \in Tasks, NEW r \in Told(t), reports'[t] = Append(reports[t], r)
  PROVE  /\ reports'[t] \in Seq(Told(t))
         /\ Len(reports[t]) \in Nat /\ Len(reports'[t]) = Len(reports[t]) + 1
         /\ \A i \in Reported(t) : reports'[t][i] = reports[t][i]
         /\ reports'[t][Len(reports[t]) + 1] = r
<1>1. reports[t] \in Seq(Told(t))
  BY DEF Telling
<1> QED
  BY <1>1, AppendProperties, LenProperties DEF Reported

\* A step of a task is of a later moment than the one before it, and changes
\* nothing of another task.
LEMMA StepEffect ==
  ASSUME TypeOK, Telling, NEW t \in Tasks, NEW s \in Steps, Step(t, s)
  PROVE  /\ life'[t] = s /\ attempt'[t] \in Nat /\ Now(t) < Now(t)' /\ Now(t)' = Moment(attempt'[t], s)
         /\ \/ reports'[t] = reports[t]
            \/ "main" \in Processes(t, s)
               /\ reports'[t] = Append(reports[t], Report(t, attempt'[t], s, "signal", Object(t)))
         /\ (Processes(t, s) = {"main"}) => reports'[t] # reports[t]
         /\ wire'[t] = IF listening THEN Append(wire[t], <<attempt'[t], s>>) ELSE wire[t]
         /\ heard' = IF listening THEN heard \union {<<t, attempt'[t], s>>} ELSE heard
         /\ deployment' = deployment /\ filtering' = filtering
         /\ DOMAIN reports' = Tasks
         /\ \A d \in Tasks \ {t} : /\ life'[d] = life[d] /\ attempt'[d] = attempt[d]
                                   /\ wire'[d] = wire[d] /\ reports'[d] = reports[d]
<1>1. /\ life'[t] = s
      /\ attempt'[t] = IF s = "received" THEN attempt[t] + 1 ELSE attempt[t]
      /\ attempt'[t] \in Nat /\ attempt[t] \in Nat /\ life[t] \in Steps \union {"idle"}
  BY DEF Step, TypeOK
<1>2. Now(t) < Now(t)'
  <2>1. s \in Following[life[t]]
    BY DEF Step
  <2>2. CASE s = "received"
    BY <1>1, <2>2 DEF Now, Moment
  <2>3. CASE s = "started"
    <3>1. life[t] = "received"
      BY <1>1, <2>1, <2>3 DEF Following, Steps
    <3> QED
      BY <1>1, <2>3, <3>1 DEF Now, Moment
  <2>4. CASE s \notin {"received", "started"}
    <3>1. life[t] \in {"received", "started"}
      BY <1>1, <2>1, <2>4 DEF Following, Steps
    <3> QED
      BY <1>1, <2>4, <3>1 DEF Now, Moment
  <2> QED
    BY <2>2, <2>3, <2>4
<1>3. /\ wire'[t] = IF listening THEN Append(wire[t], <<attempt'[t], s>>) ELSE wire[t]
      /\ heard' = IF listening THEN heard \union {<<t, attempt'[t], s>>} ELSE heard
      /\ deployment' = deployment /\ filtering' = filtering
  BY DEF Step, TypeOK
<1>4. PICK p \in Processes(t, s) :
        reports' = IF SinkTakes(p)
                   THEN [reports EXCEPT ![t] = Append(@, Report(t, attempt'[t], s, "signal", Object(t)))]
                   ELSE reports
  BY DEF Step
<1>5. /\ \/ reports'[t] = reports[t]
         \/ "main" \in Processes(t, s)
            /\ reports'[t] = Append(reports[t], Report(t, attempt'[t], s, "signal", Object(t)))
      /\ DOMAIN reports' = Tasks
      /\ \A d \in Tasks \ {t} : reports'[d] = reports[d]
  BY <1>4 DEF SinkTakes, Telling
<1>6. ASSUME Processes(t, s) = {"main"}
      PROVE  reports'[t] # reports[t]
  <2>1. reports'[t] = Append(reports[t], Report(t, attempt'[t], s, "signal", Object(t)))
    BY <1>4, <1>6 DEF SinkTakes, Telling
  <2>2. Report(t, attempt'[t], s, "signal", Object(t)) \in Told(t)
    BY <1>1 DEF Told
  <2>3. Len(reports'[t]) # Len(reports[t])
    BY <2>1, <2>2, Added
  <2> QED
    BY <2>3
<1>7. \A d \in Tasks \ {t} : life'[d] = life[d] /\ attempt'[d] = attempt[d] /\ wire'[d] = wire[d]
  BY DEF Step, TypeOK
<1> QED
  BY <1>1, <1>2, <1>3, <1>5, <1>6, <1>7 DEF Now

\* The monitor takes the first event of a task, tells it or not, and changes
\* nothing of another task.
LEMMA HandleEffect ==
  ASSUME TypeOK, Telling, NEW t \in Tasks, Handle(t)
  PROVE  \E k \in Nat, s \in Steps :
         /\ Len(wire[t]) \in Nat \ {0} /\ wire[t][1] = <<k, s>>
         /\ Len(wire'[t]) = Len(wire[t]) - 1
         /\ \A i \in 1..Len(wire'[t]) : wire'[t][i] = wire[t][i + 1]
         /\ wire'[t] \in Seq(Nat \X Steps)
         /\ \/ /\ HostAccepted(t) /\ s # "received"
               /\ \E ref \in {Named(t), Absent} :
                    reports'[t] = Append(reports[t], Report(t, k, s, "broker", ref))
            \/ ~(HostAccepted(t) /\ s # "received") /\ reports'[t] = reports[t]
         /\ life' = life /\ attempt' = attempt /\ heard' = heard
         /\ deployment' = deployment /\ filtering' = filtering
         /\ DOMAIN reports' = Tasks
         /\ \A d \in Tasks \ {t} : wire'[d] = wire[d] /\ reports'[d] = reports[d]
<1> DEFINE w == wire[t]
<1>1. w \in Seq(Nat \X Steps) /\ w # <<>>
  BY DEF Handle, TypeOK
<1>2. PICK k \in Nat, s \in Steps : w[1] = <<k, s>>
  <2>1. Len(w) \in Nat \ {0}
    BY <1>1, LenProperties, EmptySeq
  <2>2. w[1] \in Nat \X Steps
    BY <1>1, <2>1, ElementOfSeq
  <2> QED
    BY <2>2
<1>3. Head(w) = <<k, s>>
  BY <1>1, <1>2
<1>4. Head(w)[1] = k /\ Head(w)[2] = s
  BY <1>3
<1>5. Handled(s) <=> s # "received"
  BY DEF Handled
<1>6. \/ /\ HostAccepted(t) /\ s # "received"
         /\ \E ref \in {Named(t), Absent} :
              reports' = [reports EXCEPT ![t] = Append(@, Report(t, k, s, "broker", ref))]
      \/ ~(HostAccepted(t) /\ s # "received") /\ reports' = reports
  BY <1>4, <1>5 DEF Handle, RefOf
<1>7. /\ wire'[t] = Tail(w) /\ \A d \in Tasks \ {t} : wire'[d] = wire[d]
      /\ life' = life /\ attempt' = attempt /\ heard' = heard
      /\ deployment' = deployment /\ filtering' = filtering
  BY DEF Handle, TypeOK
<1>8. /\ Len(w) \in Nat \ {0} /\ Len(Tail(w)) = Len(w) - 1 /\ Tail(w) \in Seq(Nat \X Steps)
      /\ \A i \in 1..Len(Tail(w)) : Tail(w)[i] = w[i + 1]
  BY <1>1, HeadTailProperties, LenProperties, EmptySeq
<1>9. /\ \/ /\ HostAccepted(t) /\ s # "received"
            /\ \E ref \in {Named(t), Absent} :
                 reports'[t] = Append(reports[t], Report(t, k, s, "broker", ref))
         \/ ~(HostAccepted(t) /\ s # "received") /\ reports'[t] = reports[t]
      /\ DOMAIN reports' = Tasks
      /\ \A d \in Tasks \ {t} : reports'[d] = reports[d]
  BY <1>6 DEF Telling
<1> QED
  BY <1>2, <1>7, <1>8, <1>9

\* What is told and waits of a task that a step leaves alone stays in order.
LEMMA OtherKept ==
  ASSUME NEW d \in Tasks, Kept(d),
         life'[d] = life[d], attempt'[d] = attempt[d], wire'[d] = wire[d], reports'[d] = reports[d],
         deployment' = deployment, filtering' = filtering,
         \A k \in Nat, s \in Steps : <<d, k, s>> \in heard' <=> <<d, k, s>> \in heard
  PROVE  Kept(d)'
<1>1. WireInOrder(d)'
  BY DEF Kept, WireInOrder, Wired, WhenWired, Now, Reported, When
<1>2. ToldInOrder(d)'
  BY DEF Kept, ToldInOrder, Now, Reported, When
<1>3. ToldOfOwn(d)'
  BY DEF Kept, ToldOfOwn, Reported
<1>4. NothingLost(d)'
  <2>1. ASSUME NEW k \in Nat, NEW s \in Steps
        PROVE  (IsWired(d, k, s)' <=> IsWired(d, k, s)) /\ (IsTold(d, k, s)' <=> IsTold(d, k, s))
    BY DEF IsWired, IsTold, Wired, Reported
  <2>2. NothingLost(d)
    BY DEF Kept
  <2>3. ASSUME HostOf[d] = "local", NEW k \in Nat, NEW s \in Steps, <<d, k, s>> \in heard'
        PROVE  /\ s # "received" => IsWired(d, k, s)' \/ IsTold(d, k, s)'
               /\ (s = "received" /\ deployment' # "beside") => IsTold(d, k, s)'
    BY <2>1, <2>2, <2>3 DEF NothingLost
  <2> QED
    BY <2>3 DEF NothingLost
<1> QED
  BY <1>1, <1>2, <1>3, <1>4 DEF Kept

\* A step of a task keeps what is told of it in order: if its signal is told,
\* it is told last, and is of the latest moment.
LEMMA StepKeeps ==
  ASSUME TypeOK, Telling, NEW t \in Tasks, NEW s \in Steps, Step(t, s), Kept(t)
  PROVE  reports'[t] \in Seq(Told(t)) /\ Kept(t)'
<1> DEFINE k == attempt'[t]
           r == Report(t, k, s, "signal", Object(t))
           n == Len(reports[t])
           l == Len(wire[t])
<1>1. /\ k \in Nat /\ Now(t) < Now(t)' /\ Now(t)' = Moment(k, s)
      /\ deployment' = deployment /\ filtering' = filtering
      /\ heard' = IF listening THEN heard \union {<<t, k, s>>} ELSE heard
      /\ wire'[t] = IF listening THEN Append(wire[t], <<k, s>>) ELSE wire[t]
  BY StepEffect
<1>2. Now(t) \in Nat /\ Now(t)' \in Nat
  <2>1. attempt[t] \in Nat
    BY DEF TypeOK
  <2> QED
    BY <1>1, <2>1, MomentType DEF Now
<1>3. reports[t] \in Seq(Told(t)) /\ n \in Nat
  BY LenProperties DEF Telling
<1>4. r \in Told(t) /\ r.attempt = k /\ r.step = s /\ r.path = "signal"
  BY <1>1, Fields DEF Told
<1>5. \/ reports'[t] = reports[t]
      \/ /\ "main" \in Processes(t, s)
         /\ reports'[t] \in Seq(Told(t)) /\ Len(reports'[t]) = n + 1
         /\ \A i \in 1..n : reports'[t][i] = reports[t][i]
         /\ reports'[t][n + 1] = r
  <2>1. CASE reports'[t] = Append(reports[t], r) /\ "main" \in Processes(t, s)
    BY <1>4, <2>1, Added DEF Reported
  <2> QED
    BY <2>1, StepEffect
<1>6. wire[t] \in Seq(Nat \X Steps) /\ l \in Nat
  BY LenProperties DEF TypeOK
<1>7. \/ wire'[t] = wire[t] /\ heard' = heard
      \/ /\ wire'[t] \in Seq(Nat \X Steps) /\ Len(wire'[t]) = l + 1
         /\ \A i \in 1..l : wire'[t][i] = wire[t][i]
         /\ wire'[t][l + 1] = <<k, s>> /\ heard' = heard \union {<<t, k, s>>}
  <2>1. CASE ~listening
    BY <1>1, <2>1
  <2>2. CASE listening
    <3>1. wire'[t] = Append(wire[t], <<k, s>>) /\ <<k, s>> \in Nat \X Steps
      BY <1>1, <2>2
    <3> QED
      BY <1>1, <1>6, <2>2, <3>1, AppendProperties
  <2> QED
    BY <2>1, <2>2
<1> DEFINE W(i) == Moment(wire'[t][i][1], wire'[t][i][2])
           R(i) == Moment(reports'[t][i].attempt, reports'[t][i].step)
\* What was told and waits before the step, and what it adds.
<1>8. \A i \in 1..Len(reports'[t]) :
        \/ i \in Reported(t) /\ reports'[t][i] = reports[t][i] /\ R(i) = When(t, i)
        \/ i = n + 1 /\ reports'[t][i] = r /\ R(i) = Now(t)' /\ "main" \in Processes(t, s)
  BY <1>1, <1>3, <1>4, <1>5 DEF Reported, When
<1>9. \A i \in 1..Len(wire'[t]) :
        \/ i \in Wired(t) /\ wire'[t][i] = wire[t][i] /\ W(i) = WhenWired(t, i)
        \/ i = l + 1 /\ wire'[t][i] = <<k, s>> /\ W(i) = Now(t)'
  BY <1>1, <1>6, <1>7 DEF Wired, WhenWired
<1>10. \A i \in Reported(t) : When(t, i) \in Nat /\ When(t, i) <= Now(t)
  <2>1. \A i \in Reported(t) : reports[t][i].attempt \in Nat
    BY <1>3, ElementOfSeq, ToldFields DEF Reported
  <2> QED
    BY <2>1, MomentType DEF When, Kept, ToldInOrder
<1>11. \A i \in Wired(t) : WhenWired(t, i) \in Nat /\ WhenWired(t, i) <= Now(t)
  <2>1. \A i \in Wired(t) : wire[t][i][1] \in Nat
    BY <1>6, ElementOfSeq DEF Wired
  <2> QED
    BY <2>1, MomentType DEF WhenWired, Kept, WireInOrder
<1>12. /\ \A i, j \in Reported(t) :
            (i < j /\ (reports[t][i].path = reports[t][j].path \/ reports[t][j].step = "received"))
              => When(t, i) < When(t, j)
       /\ \A i, j \in Wired(t) : i < j => WhenWired(t, i) < WhenWired(t, j)
       /\ \A i \in Reported(t), j \in Wired(t) :
            reports[t][i].path = "broker" => When(t, i) < WhenWired(t, j)
  BY DEF Kept, ToldInOrder, WireInOrder
<1> HIDE DEF W, R
<1>13. ToldInOrder(t)'
  <2>1. \A i \in 1..Len(reports'[t]) : R(i) <= Now(t)'
    BY <1>1, <1>2, <1>8, <1>10
  <2>2. \A i, j \in 1..Len(reports'[t]) :
          (i < j /\ (reports'[t][i].path = reports'[t][j].path \/ reports'[t][j].step = "received"))
            => R(i) < R(j)
    <3> SUFFICES ASSUME NEW i \in 1..Len(reports'[t]), NEW j \in 1..Len(reports'[t]), i < j,
                        \/ reports'[t][i].path = reports'[t][j].path
                        \/ reports'[t][j].step = "received"
                 PROVE  R(i) < R(j)
      OBVIOUS
    <3>1. i \in Reported(t)
      BY <1>3, <1>5 DEF Reported
    <3>2. reports'[t][i] = reports[t][i] /\ R(i) = When(t, i)
      BY <1>3, <1>8, <3>1 DEF Reported
    <3>3. CASE j \in Reported(t)
      <4>1. reports'[t][j] = reports[t][j] /\ R(j) = When(t, j)
        BY <1>3, <1>8, <3>3 DEF Reported
      <4> QED
        BY <1>12, <3>1, <3>2, <3>3, <4>1
    <3>4. CASE j \notin Reported(t)
      BY <1>1, <1>2, <1>8, <1>10, <3>1, <3>2, <3>4
    <3> QED
      BY <3>3, <3>4
  <2> QED
    BY <2>1, <2>2 DEF ToldInOrder, When, Reported, R
<1>14. WireInOrder(t)'
  <2>1. \A i \in 1..Len(wire'[t]) : W(i) <= Now(t)'
    BY <1>1, <1>2, <1>9, <1>11
  <2>2. \A i, j \in 1..Len(wire'[t]) : i < j => W(i) < W(j)
    <3> SUFFICES ASSUME NEW i \in 1..Len(wire'[t]), NEW j \in 1..Len(wire'[t]), i < j
                 PROVE  W(i) < W(j)
      OBVIOUS
    <3>1. i \in Wired(t) /\ W(i) = WhenWired(t, i)
      BY <1>6, <1>7, <1>9 DEF Wired
    <3>2. CASE j \in Wired(t)
      <4>1. W(j) = WhenWired(t, j)
        BY <1>6, <1>9, <3>2 DEF Wired
      <4> QED
        BY <1>12, <3>1, <3>2, <4>1
    <3>3. CASE j \notin Wired(t)
      BY <1>1, <1>2, <1>9, <1>11, <3>1, <3>3
    <3> QED
      BY <3>2, <3>3
  <2>3. \A i \in 1..Len(reports'[t]), j \in 1..Len(wire'[t]) :
          reports'[t][i].path = "broker" => R(i) < W(j)
    <3> SUFFICES ASSUME NEW i \in 1..Len(reports'[t]), NEW j \in 1..Len(wire'[t]),
                        reports'[t][i].path = "broker"
                 PROVE  R(i) < W(j)
      OBVIOUS
    <3>1. i \in Reported(t) /\ reports[t][i].path = "broker" /\ R(i) = When(t, i)
      BY <1>4, <1>8
    <3>2. CASE j \in Wired(t) /\ W(j) = WhenWired(t, j)
      BY <1>12, <3>1, <3>2
    <3>3. CASE W(j) = Now(t)'
      BY <1>1, <1>2, <1>10, <3>1, <3>3
    <3> QED
      BY <1>9, <3>2, <3>3
  <2> QED
    BY <2>1, <2>2, <2>3 DEF WireInOrder, WhenWired, When, Wired, Reported, R, W
<1>15. ToldOfOwn(t)'
  <2>1. "main" \in Processes(t, s) => HostOf[t] = "local"
    BY DEF Processes
  <2>2. ("main" \in Processes(t, s) /\ deployment = "prefork") => s \in {"received", "failed", "revoked"}
    BY DEF Processes
  <2>3. (filtering' /\ HostOf[t] # "local") => reports'[t] = <<>>
    BY <1>1, <1>5, <2>1 DEF Kept, ToldOfOwn
  <2>4. \A i \in 1..Len(reports'[t]) :
          (deployment' = "prefork" /\ reports'[t][i].path = "signal")
            => reports'[t][i].step \in {"received", "failed", "revoked"}
    BY <1>1, <1>4, <1>8, <2>2 DEF Kept, ToldOfOwn
  <2> QED
    BY <2>3, <2>4 DEF ToldOfOwn, Reported
<1>16. NothingLost(t)'
  <2> DEFINE Waits(a, u) == \E i \in 1..Len(wire'[t]) : wire'[t][i] = <<a, u>>
             Tells(a, u) == \E i \in 1..Len(reports'[t]) :
                              reports'[t][i].attempt = a /\ reports'[t][i].step = u
  <2>1. ASSUME NEW a \in Nat, NEW u \in Steps, IsWired(t, a, u)
        PROVE  Waits(a, u)
    <3>1. PICK i \in 1..l : wire[t][i] = <<a, u>>
      BY <2>1 DEF IsWired, Wired
    <3>2. i \in 1..Len(wire'[t]) /\ wire'[t][i] = wire[t][i]
      BY <1>6, <1>7
    <3> QED
      BY <3>1, <3>2
  <2>2. ASSUME NEW a \in Nat, NEW u \in Steps, IsTold(t, a, u)
        PROVE  Tells(a, u)
    BY <1>3, <1>5, <2>2 DEF IsTold, Reported
  <2> HIDE DEF Waits, Tells
  <2>3. ASSUME HostOf[t] = "local", NEW a \in Nat, NEW u \in Steps, <<t, a, u>> \in heard'
        PROVE  /\ u # "received" => Waits(a, u) \/ Tells(a, u)
               /\ (u = "received" /\ deployment # "beside") => Tells(a, u)
    <3>1. CASE <<t, a, u>> \in heard
      <4>1. /\ u # "received" => IsWired(t, a, u) \/ IsTold(t, a, u)
            /\ (u = "received" /\ deployment # "beside") => IsTold(t, a, u)
        BY <2>3, <3>1 DEF Kept, NothingLost
      <4> QED
        BY <2>1, <2>2, <4>1
    <3>2. CASE <<t, a, u>> \notin heard
      <4>1. a = k /\ u = s /\ wire'[t][l + 1] = <<k, s>> /\ l + 1 \in 1..Len(wire'[t])
        BY <1>6, <1>7, <2>3, <3>2
      <4>2. Waits(a, u)
        BY <4>1 DEF Waits
      <4>3. CASE u = "received" /\ deployment # "beside"
        <5>1. Processes(t, s) = {"main"}
          BY <2>3, <4>1, <4>3 DEF Processes
        <5>2. reports'[t] # reports[t]
          BY <5>1, StepEffect
        <5>3. /\ n + 1 \in 1..Len(reports'[t])
              /\ reports'[t][n + 1].attempt = a /\ reports'[t][n + 1].step = u
          BY <1>3, <1>4, <1>5, <4>1, <5>2
        <5> QED
          BY <4>3, <5>3 DEF Tells
      <4> QED
        BY <4>2, <4>3
    <3> QED
      BY <3>1, <3>2
  <2>4. ASSUME NEW a \in Nat, NEW u \in Steps
        PROVE  (IsWired(t, a, u)' <=> Waits(a, u)) /\ (IsTold(t, a, u)' <=> Tells(a, u))
    BY DEF IsWired, IsTold, Wired, Reported, Waits, Tells
  <2> QED
    BY <1>1, <2>3, <2>4 DEF NothingLost
<1> QED
  BY <1>3, <1>5, <1>13, <1>14, <1>15, <1>16 DEF Kept

\* The monitor keeps what is told of a task in order: it tells what waited
\* longest, which is of a later moment than all it told before.
LEMMA HandleKeeps ==
  ASSUME TypeOK, Telling, NEW t \in Tasks, Handle(t), Kept(t)
  PROVE  reports'[t] \in Seq(Told(t)) /\ Kept(t)'
<1>1. PICK k \in Nat, s \in Steps :
        /\ Len(wire[t]) \in Nat \ {0} /\ wire[t][1] = <<k, s>>
        /\ Len(wire'[t]) = Len(wire[t]) - 1
        /\ \A i \in 1..Len(wire'[t]) : wire'[t][i] = wire[t][i + 1]
        /\ wire'[t] \in Seq(Nat \X Steps)
        /\ \/ /\ HostAccepted(t) /\ s # "received"
              /\ \E ref \in {Named(t), Absent} :
                   reports'[t] = Append(reports[t], Report(t, k, s, "broker", ref))
           \/ ~(HostAccepted(t) /\ s # "received") /\ reports'[t] = reports[t]
        /\ life' = life /\ attempt' = attempt /\ heard' = heard
        /\ deployment' = deployment /\ filtering' = filtering
  BY HandleEffect
<1> DEFINE n == Len(reports[t])
           l == Len(wire[t])
           m == Moment(k, s)
<1>2. reports[t] \in Seq(Told(t)) /\ n \in Nat
  BY LenProperties DEF Telling
<1>3. \/ ~(HostAccepted(t) /\ s # "received") /\ reports'[t] = reports[t]
      \/ /\ HostAccepted(t) /\ s # "received"
         /\ reports'[t] \in Seq(Told(t)) /\ Len(reports'[t]) = n + 1
         /\ \A i \in 1..n : reports'[t][i] = reports[t][i]
         /\ reports'[t][n + 1].attempt = k /\ reports'[t][n + 1].step = s
         /\ reports'[t][n + 1].path = "broker"
  <2>1. ASSUME s # "received", NEW ref \in {Named(t), Absent}, HostAccepted(t),
               reports'[t] = Append(reports[t], Report(t, k, s, "broker", ref))
        PROVE  /\ reports'[t] \in Seq(Told(t)) /\ Len(reports'[t]) = n + 1
               /\ \A i \in 1..n : reports'[t][i] = reports[t][i]
               /\ reports'[t][n + 1].attempt = k /\ reports'[t][n + 1].step = s
               /\ reports'[t][n + 1].path = "broker"
    <3> DEFINE r == Report(t, k, s, "broker", ref)
    <3>1. r \in Told(t)
      BY <2>1 DEF Told
    <3>2. r.attempt = k /\ r.step = s /\ r.path = "broker"
      BY Fields
    <3> HIDE DEF r
    <3>3. reports'[t] = Append(reports[t], r)
      BY <2>1 DEF r
    <3> QED
      BY <3>1, <3>2, <3>3, Added DEF Reported
  <2> QED
    BY <1>1, <2>1
<1> DEFINE W(i) == Moment(wire'[t][i][1], wire'[t][i][2])
           R(i) == Moment(reports'[t][i].attempt, reports'[t][i].step)
<1>4. Now(t)' = Now(t) /\ Now(t) \in Nat /\ m \in Nat /\ m = WhenWired(t, 1) /\ 1 \in Wired(t)
  <2>1. attempt[t] \in Nat
    BY DEF TypeOK
  <2> QED
    BY <1>1, <2>1, MomentType DEF Now, WhenWired, Wired
<1>5. \A i \in 1..Len(reports'[t]) :
        \/ i \in Reported(t) /\ reports'[t][i] = reports[t][i] /\ R(i) = When(t, i)
        \/ /\ i = n + 1 /\ R(i) = m /\ s # "received"
           /\ reports'[t][i].path = "broker" /\ reports'[t][i].step = s
  BY <1>2, <1>3 DEF Reported, When
<1>6. \A i \in 1..Len(wire'[t]) : /\ i + 1 \in Wired(t) /\ wire'[t][i] = wire[t][i + 1]
                                  /\ W(i) = WhenWired(t, i + 1)
  <2>1. ASSUME NEW i \in 1..Len(wire'[t])
        PROVE  i + 1 \in Wired(t) /\ wire'[t][i] = wire[t][i + 1]
    <3>1. i + 1 \in 1..l
      BY <1>1
    <3>2. wire'[t][i] = wire[t][i + 1]
      BY <1>1
    <3> QED
      BY <3>1, <3>2 DEF Wired
  <2> QED
    BY <2>1 DEF WhenWired
<1>7. \A i \in Reported(t) : When(t, i) \in Nat /\ When(t, i) <= Now(t)
  <2>1. \A i \in Reported(t) : reports[t][i].attempt \in Nat
    BY <1>2, ElementOfSeq, ToldFields DEF Reported
  <2> QED
    BY <2>1, MomentType DEF When, Kept, ToldInOrder
<1>8. /\ \A i, j \in Reported(t) :
           (i < j /\ (reports[t][i].path = reports[t][j].path \/ reports[t][j].step = "received"))
             => When(t, i) < When(t, j)
      /\ \A i \in Wired(t) : WhenWired(t, i) <= Now(t)
      /\ \A i, j \in Wired(t) : i < j => WhenWired(t, i) < WhenWired(t, j)
      /\ \A i \in Reported(t), j \in Wired(t) :
           reports[t][i].path = "broker" => When(t, i) < WhenWired(t, j)
  BY DEF Kept, ToldInOrder, WireInOrder
<1> HIDE DEF W, R, m
<1>9. ToldInOrder(t)'
  <2>1. \A i \in 1..Len(reports'[t]) : R(i) <= Now(t)'
    BY <1>4, <1>5, <1>7, <1>8
  <2>2. \A i, j \in 1..Len(reports'[t]) :
          (i < j /\ (reports'[t][i].path = reports'[t][j].path \/ reports'[t][j].step = "received"))
            => R(i) < R(j)
    <3> SUFFICES ASSUME NEW i \in 1..Len(reports'[t]), NEW j \in 1..Len(reports'[t]), i < j,
                        \/ reports'[t][i].path = reports'[t][j].path
                        \/ reports'[t][j].step = "received"
                 PROVE  R(i) < R(j)
      OBVIOUS
    <3>1. i \in Reported(t)
      BY <1>2, <1>3 DEF Reported
    <3>2. reports'[t][i] = reports[t][i] /\ R(i) = When(t, i)
      BY <1>2, <1>5, <3>1 DEF Reported
    <3>3. CASE j \in Reported(t)
      <4>1. reports'[t][j] = reports[t][j] /\ R(j) = When(t, j)
        BY <1>2, <1>5, <3>3 DEF Reported
      <4> QED
        BY <1>8, <3>1, <3>2, <3>3, <4>1
    <3>4. CASE j \notin Reported(t)
      <4>1. R(j) = m /\ reports[t][i].path = "broker"
        BY <1>5, <3>2, <3>4
      <4> QED
        BY <1>4, <1>8, <3>1, <3>2, <4>1
    <3> QED
      BY <3>3, <3>4
  <2> QED
    BY <2>1, <2>2 DEF ToldInOrder, When, Reported, R
<1>10. WireInOrder(t)'
  <2>1. \A i \in 1..Len(wire'[t]) : W(i) <= Now(t)'
    BY <1>4, <1>6, <1>8
  <2>2. \A i, j \in 1..Len(wire'[t]) : i < j => W(i) < W(j)
    BY <1>1, <1>6, <1>8
  <2>3. ASSUME NEW i \in 1..Len(reports'[t]), NEW j \in 1..Len(wire'[t]),
               reports'[t][i].path = "broker"
        PROVE  R(i) < W(j)
    <3>1. CASE i \in Reported(t) /\ reports'[t][i] = reports[t][i] /\ R(i) = When(t, i)
      BY <1>6, <1>8, <2>3, <3>1
    <3>2. CASE R(i) = m
      <4>1. 1 < j + 1
        BY <1>1
      <4> QED
        BY <1>4, <1>6, <1>8, <3>2, <4>1
    <3> QED
      BY <1>5, <3>1, <3>2
  <2> QED
    BY <2>1, <2>2, <2>3 DEF WireInOrder, WhenWired, When, Wired, Reported, R, W
<1>11. ToldOfOwn(t)'
  <2>1. (filtering' /\ HostOf[t] # "local") => reports'[t] = <<>>
    BY <1>1, <1>3 DEF Kept, ToldOfOwn, HostAccepted
  <2>2. \A i \in 1..Len(reports'[t]) :
          (deployment' = "prefork" /\ reports'[t][i].path = "signal")
            => reports'[t][i].step \in {"received", "failed", "revoked"}
    BY <1>1, <1>5 DEF Kept, ToldOfOwn
  <2> QED
    BY <2>1, <2>2 DEF ToldOfOwn, Reported
<1>12. NothingLost(t)'
  <2> DEFINE Waits(a, u) == \E i \in 1..Len(wire'[t]) : wire'[t][i] = <<a, u>>
             Tells(a, u) == \E i \in 1..Len(reports'[t]) :
                              reports'[t][i].attempt = a /\ reports'[t][i].step = u
  <2>1. ASSUME NEW a \in Nat, NEW u \in Steps, IsTold(t, a, u)
        PROVE  Tells(a, u)
    BY <1>2, <1>3, <2>1 DEF IsTold, Reported
  <2>2. ASSUME HostOf[t] = "local", NEW a \in Nat, NEW u \in Steps, u # "received", IsWired(t, a, u)
        PROVE  Waits(a, u) \/ Tells(a, u)
    <3>1. PICK i \in 1..l : wire[t][i] = <<a, u>>
      BY <2>2 DEF IsWired, Wired
    <3>2. CASE i # 1
      <4>1. i - 1 \in 1..Len(wire'[t]) /\ wire'[t][i - 1] = wire[t][i]
        BY <1>1, <3>2
      <4> QED
        BY <3>1, <4>1
    <3>3. CASE i = 1
      <4>1. a = k /\ u = s /\ HostAccepted(t)
        BY <1>1, <2>2, <3>1, <3>3 DEF HostAccepted
      <4>2. /\ n + 1 \in 1..Len(reports'[t])
            /\ reports'[t][n + 1].attempt = a /\ reports'[t][n + 1].step = u
        BY <1>2, <1>3, <2>2, <4>1
      <4> QED
        BY <4>2
    <3> QED
      BY <3>2, <3>3
  <2> HIDE DEF Waits, Tells
  <2>3. ASSUME HostOf[t] = "local", NEW a \in Nat, NEW u \in Steps, <<t, a, u>> \in heard
        PROVE  /\ u # "received" => Waits(a, u) \/ Tells(a, u)
               /\ (u = "received" /\ deployment # "beside") => Tells(a, u)
    <3>1. /\ u # "received" => IsWired(t, a, u) \/ IsTold(t, a, u)
          /\ (u = "received" /\ deployment # "beside") => IsTold(t, a, u)
      BY <2>3 DEF Kept, NothingLost
    <3> QED
      BY <2>1, <2>2, <2>3, <3>1
  <2>4. ASSUME NEW a \in Nat, NEW u \in Steps
        PROVE  (IsWired(t, a, u)' <=> Waits(a, u)) /\ (IsTold(t, a, u)' <=> Tells(a, u))
    BY DEF IsWired, IsTold, Wired, Reported, Waits, Tells
  <2> QED
    BY <1>1, <2>3, <2>4 DEF NothingLost
<1> QED
  BY <1>2, <1>3, <1>9, <1>10, <1>11, <1>12 DEF Kept
-----------------------------------------------------------------------------
\* A step keeps the types.
LEMMA TypesKept ==
  ASSUME TypeOK, Next
  PROVE  TypeOK'
<1>1. CASE Listen
  BY <1>1 DEF Listen, TypeOK
<1>2. ASSUME NEW t \in Tasks, Handle(t)
      PROVE  TypeOK'
  <2>1. wire[t] \in Seq(Nat \X Steps) /\ wire[t] # <<>>
    BY <1>2 DEF Handle, TypeOK
  <2>2. Tail(wire[t]) \in Seq(Nat \X Steps)
    BY <2>1, HeadTailProperties
  <2>3. wire' \in [Tasks -> Seq(Nat \X Steps)]
    BY <1>2, <2>2 DEF Handle, TypeOK
  <2>4. nameCache' \subseteq Tasks
    BY <1>2 DEF Handle, CacheAfter, TypeOK
  <2> QED
    BY <1>2, <2>3, <2>4 DEF Handle, TypeOK
<1>3. ASSUME NEW t \in Tasks, NEW s \in Steps, Step(t, s)
      PROVE  TypeOK'
  <2>1. attempt' \in [Tasks -> Nat] /\ \A d \in Tasks : attempt'[d] <= MaxAttempts[d]
    <3>1. attempt \in [Tasks -> Nat] /\ \A d \in Tasks : attempt[d] <= MaxAttempts[d]
      BY DEF TypeOK
    <3>2. attempt' = [attempt EXCEPT ![t] = IF s = "received" THEN attempt[t] + 1 ELSE attempt[t]]
      BY <1>3 DEF Step
    <3>3. s = "received" => attempt[t] < MaxAttempts[t]
      BY <1>3 DEF Step
    <3>4. \A d \in Tasks : attempt[d] \in Nat /\ MaxAttempts[d] \in Nat
      BY <3>1, ReportsAssumption
    <3>5. \A d \in Tasks : attempt'[d] \in Nat /\ attempt'[d] <= MaxAttempts[d]
      BY <3>1, <3>2, <3>3, <3>4
    <3>6. attempt' \in [Tasks -> Nat]
      BY <3>1, <3>2, <3>4
    <3> QED
      BY <3>5, <3>6
  <2>2. <<attempt'[t], s>> \in Nat \X Steps /\ <<t, attempt'[t], s>> \in Tasks \X Nat \X Steps
    BY <2>1
  <2>3. Append(wire[t], <<attempt'[t], s>>) \in Seq(Nat \X Steps)
    BY <2>2, AppendProperties DEF TypeOK
  <2>4. wire' \in [Tasks -> Seq(Nat \X Steps)]
    BY <1>3, <2>3 DEF Step, TypeOK
  <2>5. heard' \subseteq Tasks \X Nat \X Steps
    BY <1>3, <2>2 DEF Step, TypeOK
  <2>6. life' \in [Tasks -> Steps \union {"idle"}]
    BY <1>3 DEF Step, TypeOK
  <2> QED
    BY <1>3, <2>1, <2>4, <2>5, <2>6 DEF Step, TypeOK
<1> QED
  BY <1>1, <1>2, <1>3 DEF Next

\* The inductive invariant: the order of what waits and of what was told, task
\* by task, and where every step that was heard of is.
LEMMA Inductive == Spec => []IInv
<1>1. Init => IInv
  <2> SUFFICES ASSUME Init PROVE IInv
    OBVIOUS
  <2>1. TypeOK
    <3>1. attempt \in [Tasks -> Nat] /\ \A t \in Tasks : attempt[t] <= MaxAttempts[t]
      BY ReportsAssumption DEF Init
    <3>2. wire \in [Tasks -> Seq(Nat \X Steps)]
      BY EmptySeq DEF Init
    <3>3. life \in [Tasks -> Steps \union {"idle"}]
      BY DEF Init
    <3> QED
      BY <3>1, <3>2, <3>3 DEF Init, TypeOK
  <2>2. \A t \in Tasks : Len(wire[t]) = 0 /\ Len(reports[t]) = 0 /\ reports[t] = <<>>
    BY DEF Init
  <2>3. Telling
    BY DEF Init, Telling
  <2>4. ASSUME NEW t \in Tasks
        PROVE  Kept(t)
    <3>1. WireInOrder(t) /\ ToldInOrder(t) /\ ToldOfOwn(t)
      BY <2>2 DEF WireInOrder, ToldInOrder, ToldOfOwn, Wired, Reported
    <3>2. NothingLost(t)
      BY DEF NothingLost, Init
    <3> QED
      BY <3>1, <3>2 DEF Kept
  <2> QED
    BY <2>1, <2>3, <2>4 DEF IInv
<1>2. IInv /\ [Next]_vars => IInv'
  <2> SUFFICES ASSUME IInv, [Next]_vars PROVE IInv'
    OBVIOUS
  <2>0. TypeOK /\ Telling /\ \A t \in Tasks : Kept(t)
    BY DEF IInv
  <2>1. TypeOK'
    <3>1. CASE Next
      BY <2>0, <3>1, TypesKept
    <3>2. CASE UNCHANGED vars
      BY <2>0, <3>2 DEF vars, TypeOK
    <3> QED
      BY <3>1, <3>2
  <2>2. ASSUME life' = life, attempt' = attempt, wire' = wire, reports' = reports, heard' = heard,
               deployment' = deployment, filtering' = filtering
        PROVE  Telling' /\ \A t \in Tasks : Kept(t)'
    <3>1. \A t \in Tasks : Kept(t)'
      BY <2>0, <2>2, OtherKept
    <3> QED
      BY <2>0, <2>2, <3>1 DEF Telling
  <2>3. ASSUME NEW t \in Tasks, reports'[t] \in Seq(Told(t)), Kept(t)', DOMAIN reports' = Tasks,
               \A d \in Tasks \ {t} : reports'[d] = reports[d] /\ Kept(d)'
        PROVE  Telling' /\ \A d \in Tasks : Kept(d)'
    BY <2>0, <2>3 DEF Telling
  <2>4. CASE Listen \/ UNCHANGED vars
    BY <2>1, <2>2, <2>4 DEF Listen, vars, IInv
  <2>5. ASSUME NEW t \in Tasks, Handle(t)
        PROVE  Telling' /\ \A d \in Tasks : Kept(d)'
    <3>1. reports'[t] \in Seq(Told(t)) /\ Kept(t)'
      BY <2>0, <2>5, HandleKeeps
    <3>2. /\ life' = life /\ attempt' = attempt /\ heard' = heard
          /\ deployment' = deployment /\ filtering' = filtering /\ DOMAIN reports' = Tasks
          /\ \A d \in Tasks \ {t} : wire'[d] = wire[d] /\ reports'[d] = reports[d]
      BY <2>0, <2>5, HandleEffect
    <3>3. ASSUME NEW d \in Tasks \ {t}
          PROVE  Kept(d)'
      BY <2>0, <3>2, OtherKept
    <3> QED
      BY <2>3, <3>1, <3>2, <3>3
  <2>6. ASSUME NEW t \in Tasks, NEW s \in Steps, Step(t, s)
        PROVE  Telling' /\ \A d \in Tasks : Kept(d)'
    <3>1. reports'[t] \in Seq(Told(t)) /\ Kept(t)'
      BY <2>0, <2>6, StepKeeps
    <3>2. /\ heard' = IF listening THEN heard \union {<<t, attempt'[t], s>>} ELSE heard
          /\ deployment' = deployment /\ filtering' = filtering /\ DOMAIN reports' = Tasks
          /\ \A d \in Tasks \ {t} : /\ life'[d] = life[d] /\ attempt'[d] = attempt[d]
                                    /\ wire'[d] = wire[d] /\ reports'[d] = reports[d]
      BY <2>0, <2>6, StepEffect
    <3>3. ASSUME NEW d \in Tasks \ {t}
          PROVE  Kept(d)'
      <4>1. \A k \in Nat, u \in Steps : <<d, k, u>> \in heard' <=> <<d, k, u>> \in heard
        BY <3>2
      <4> QED
        BY <2>0, <3>2, <4>1, OtherKept
    <3> QED
      BY <2>3, <3>1, <3>2, <3>3
  <2> QED
    BY <2>1, <2>4, <2>5, <2>6 DEF Next, IInv
<1> QED
  BY <1>1, <1>2, PTL DEF Spec

\* The types hold.
THEOREM Typing == Spec => []TypeOK
BY Inductive, PTL DEF IInv

\* What is told of a task by a signal carries the task's own metadata, and the
\* redactions it asks for are made beside the engine's.
THEOREM MetaApplied == Spec => []SignalsApplyMeta
<1>1. IInv => SignalsApplyMeta
  <2> SUFFICES ASSUME IInv, NEW t \in Tasks, NEW i \in Reported(t), reports[t][i].path = "signal"
               PROVE  LET r == reports[t][i]  m == MetaOf[t] IN
                      /\ r.tags = m.tags /\ ~r.name.unknown
                      /\ m.keeps => DOMAIN r.kwargs \subseteq m.keep /\ r.args # "plain"
                      /\ \A k \in DOMAIN r.kwargs : r.kwargs[k] = "plain" => k \notin m.redact \union Sensitive
                      /\ m.redactResult => r.result # "plain"
    BY DEF SignalsApplyMeta
  <2>1. reports[t][i] \in Told(t)
    BY ElementOfSeq DEF IInv, Telling, Reported
  <2>2. PICK k \in Nat, s \in Steps : reports[t][i] = Report(t, k, s, "signal", Object(t))
    BY <2>1, Fields DEF Told
  <2> DEFINE m == MetaOf[t]
             r == reports[t][i]
  <2>3. GetMeta(Object(t), MetaOf) = m /\ ~ResolveTaskName(Object(t), t).unknown
    BY DEF GetMeta, Object, ResolveTaskName
  <2>4. /\ r.tags = m.tags /\ r.name = ResolveTaskName(Object(t), t)
        /\ r.args = IF s \in {"received", "started"} THEN ScrubArgs("plain", m) ELSE None
        /\ r.kwargs = IF s \in {"received", "started"} THEN ScrubKwargs(KwargsOf[t], m)
                                                       ELSE [x \in {} |-> None]
        /\ r.result = IF s = "succeeded" THEN ScrubResult(m) ELSE None
    BY <2>2, <2>3 DEF Report
  <2>5. m.keeps => r.args # "plain"
    BY <2>4 DEF ScrubArgs, None
  <2>6. m.redactResult => r.result # "plain"
    BY <2>4 DEF ScrubResult, None
  <2>7. /\ m.keeps => DOMAIN r.kwargs \subseteq m.keep
        /\ \A x \in DOMAIN r.kwargs : r.kwargs[x] = "plain" => x \notin m.redact \union Sensitive
    BY <2>4 DEF ScrubKwargs, None
  <2> QED
    BY <2>3, <2>4, <2>5, <2>6, <2>7
<1> QED
  BY <1>1, Inductive, PTL

\* On each path the steps of a task are told in the order they happened, and
\* that it was received before all that follows from it.
THEOREM InOrder == Spec => []ReportsInOrder
<1>1. IInv => ReportsInOrder
  <2> SUFFICES ASSUME IInv, NEW t \in Tasks, NEW i \in Reported(t), NEW j \in Reported(t),
                      Earlier(reports[t][i], reports[t][j]),
                      \/ reports[t][i].path = reports[t][j].path
                      \/ reports[t][i].step = "received"
               PROVE  i < j
    BY DEF ReportsInOrder
  <2>1. reports[t][i].attempt \in Nat /\ reports[t][j].attempt \in Nat
    BY ElementOfSeq, ToldFields DEF IInv, Telling, Reported
  <2>2. When(t, i) < When(t, j)
    BY <2>1 DEF Earlier, Rank, When, Moment
  <2>3. (j < i) => When(t, j) < When(t, i)
    BY DEF IInv, Kept, ToldInOrder
  <2>4. When(t, i) \in Nat /\ When(t, j) \in Nat
    BY <2>1, MomentType DEF When
  <2> QED
    BY <2>2, <2>3, <2>4 DEF Reported
<1> QED
  BY <1>1, Inductive, PTL
-----------------------------------------------------------------------------
\* A set no two members of which differ has at most one.
LEMMA AtMostOne ==
  ASSUME NEW S, IsFiniteSet(S), \A x, y \in S : x = y
  PROVE  Cardinality(S) <= 1
<1>1. CASE S = {}
  BY <1>1, FS_EmptySet
<1>2. CASE S # {}
  <2>1. PICK x : S = {x}
    BY <1>2
  <2> QED
    BY <2>1, FS_Singleton
<1> QED
  BY <1>1, <1>2

\* The monitor and the signals together tell every step of a task the agent
\* stands for, none of them more than twice, and being received only once.
THEOREM EachStep == Spec => []EachStepReported
<1>1. IInv => EachStepReported
  <2> SUFFICES ASSUME IInv, NEW t \in Tasks, NEW s \in Steps, NEW k \in 1..MaxAttempts[t]
               PROVE  LET n == Cardinality({i \in Reported(t) : reports[t][i].attempt = k /\ reports[t][i].step = s}) IN
                      /\ n <= 2
                      /\ s = "received" => n <= 1
                      /\ deployment = "prefork" /\ s \notin {"failed", "revoked"} => n <= 1
                      /\ filtering /\ HostOf[t] # "local" => n = 0
                      /\ (/\ <<t, k, s>> \in heard /\ wire[t] = <<>>
                          /\ HostOf[t] = "local"
                          /\ s = "received" => deployment # "beside") => n >= 1
    BY DEF EachStepReported
  <2> DEFINE All     == {i \in Reported(t) : reports[t][i].attempt = k /\ reports[t][i].step = s}
             Via(p)  == {i \in All : reports[t][i].path = p}
  <2>1. reports[t] \in Seq(Told(t)) /\ Len(reports[t]) \in Nat /\ Kept(t)
    BY LenProperties DEF IInv, Telling
  <2>2. \A i \in Reported(t) : /\ reports[t][i].path \in {"signal", "broker"}
                               /\ reports[t][i].path = "broker" => reports[t][i].step # "received"
    BY <2>1, ElementOfSeq, ToldFields DEF Reported
  <2>3. IsFiniteSet(Reported(t))
    BY <2>1, FS_Interval DEF Reported
  <2>4. IsFiniteSet(All) /\ \A p : IsFiniteSet(Via(p))
    BY <2>3, FS_Subset
  <2>5. ASSUME NEW p
        PROVE  Cardinality(Via(p)) \in Nat /\ Cardinality(Via(p)) <= 1
    <3>1. ASSUME NEW i \in Via(p), NEW j \in Via(p), i < j
          PROVE  FALSE
      <4>1. When(t, i) < When(t, j)
        BY <2>1, <3>1 DEF Kept, ToldInOrder
      <4>2. When(t, i) = Moment(k, s) /\ When(t, j) = Moment(k, s)
        BY DEF When
      <4>3. Moment(k, s) \in Nat
        BY MomentType
      <4> QED
        BY <4>1, <4>2, <4>3
    <3>2. \A i, j \in Via(p) : i = j
      BY <2>1, <3>1 DEF Reported
    <3> QED
      BY <2>4, <3>2, AtMostOne, FS_CardinalityType
  <2>6. All = Via("signal") \union Via("broker")
    BY <2>2
  <2>7. Cardinality(All) \in Nat /\ Cardinality(All) <= 2
    <3>1. Cardinality(Via("signal") \union Via("broker"))
            = Cardinality(Via("signal")) + Cardinality(Via("broker"))
              - Cardinality(Via("signal") \intersect Via("broker"))
      <4> DEFINE S == Via("signal")
                 B == Via("broker")
      <4>1. IsFiniteSet(S) /\ IsFiniteSet(B)
        BY <2>4
      <4> HIDE DEF S, B
      <4>2. Cardinality(S \union B) = Cardinality(S) + Cardinality(B) - Cardinality(S \intersect B)
        BY <4>1, FS_Union
      <4> QED
        BY <4>2 DEF S, B
    <3>2. Cardinality(Via("signal") \intersect Via("broker")) \in Nat
      BY <2>4, FS_Intersection, FS_CardinalityType
    <3>3. Cardinality(All) \in Nat
      BY <2>4, FS_CardinalityType
    <3> HIDE DEF All, Via
    <3> QED
      BY <2>5, <2>6, <3>1, <3>2, <3>3
  <2>8. s = "received" => Cardinality(All) <= 1
    <3>1. s = "received" => All = Via("signal")
      BY <2>2
    <3> HIDE DEF All, Via
    <3> QED
      BY <2>5, <3>1
  <2>9. (deployment = "prefork" /\ s \notin {"failed", "revoked"}) => Cardinality(All) <= 1
    <3>1. (deployment = "prefork" /\ s \notin {"received", "failed", "revoked"}) => All = Via("broker")
      BY <2>1, <2>2 DEF Kept, ToldOfOwn
    <3> HIDE DEF All, Via
    <3> QED
      BY <2>5, <2>8, <3>1
  <2>10. (filtering /\ HostOf[t] # "local") => Cardinality(All) = 0
    <3>1. (filtering /\ HostOf[t] # "local") => reports[t] = <<>>
      BY <2>1 DEF Kept, ToldOfOwn
    <3>2. (filtering /\ HostOf[t] # "local") => All = {}
      BY <3>1 DEF Reported
    <3> QED
      BY <3>2, FS_EmptySet
  <2>11. ASSUME <<t, k, s>> \in heard, wire[t] = <<>>, HostOf[t] = "local",
                s = "received" => deployment # "beside"
         PROVE  Cardinality(All) >= 1
    <3>1. ~IsWired(t, k, s)
      BY <2>11 DEF IsWired, Wired
    <3>2. IsTold(t, k, s)
      BY <2>1, <2>11, <3>1 DEF Kept, NothingLost
    <3>3. All # {}
      BY <3>2 DEF IsTold
    <3> HIDE DEF All, Via
    <3> QED
      BY <2>4, <2>7, <3>3, FS_EmptySet
  <2> QED
    BY <2>7, <2>8, <2>9, <2>10, <2>11
<1> QED
  BY <1>1, Inductive, PTL
=============================================================================
