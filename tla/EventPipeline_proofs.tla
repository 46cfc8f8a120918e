------------------------ MODULE EventPipeline_proofs ------------------------
(***************************************************************************)
(* EventPipeline, for any threads, any capacity and any number of events:  *)
(* a loss is always counted, the order of each thread is kept, and the     *)
(* pipeline implements LossyFifo.                                          *)
(*                                                                         *)
(* The argument follows Line, the one sequence that delivered, queue and   *)
(* pending make up: a hand-over appends to it, a callback and a delivery   *)
(* only move the borders within it, and an eviction removes the entry at   *)
(* the border between delivered and queue.                                 *)
(***************************************************************************)
EXTENDS EventPipeline, SequenceTheorems, TLAPS

\* The head of the second sequence moves to the end of the first.
LEMMA MoveBorder ==
  ASSUME NEW S, NEW s \in Seq(S), NEW t \in Seq(S), t # <<>>
  PROVE  Append(s, Head(t)) \o Tail(t) = s \o t
<1> DEFINE u == Append(s, Head(t))
           l == u \o Tail(t)
           r == s \o t
<1>1. Head(t) = t[1] /\ Head(t) \in S /\ Tail(t) \in Seq(S) /\ Len(Tail(t)) = Len(t) - 1
      /\ \A i \in 1..Len(Tail(t)) : Tail(t)[i] = t[i + 1]
  BY HeadTailProperties
<1>2. /\ u \in Seq(S) /\ Len(u) = Len(s) + 1
      /\ \A i \in 1..Len(s) : u[i] = s[i]
      /\ u[Len(s) + 1] = t[1]
  BY <1>1, AppendProperties
<1>3. /\ l \in Seq(S) /\ Len(l) = Len(u) + Len(Tail(t))
      /\ \A i \in 1..(Len(u) + Len(Tail(t))) :
           l[i] = IF i <= Len(u) THEN u[i] ELSE Tail(t)[i - Len(u)]
  BY <1>1, <1>2, ConcatProperties
<1>4. /\ r \in Seq(S) /\ Len(r) = Len(s) + Len(t)
      /\ \A i \in 1..(Len(s) + Len(t)) : r[i] = IF i <= Len(s) THEN s[i] ELSE t[i - Len(s)]
  BY ConcatProperties
<1>5. Len(s) \in Nat /\ Len(t) \in Nat
  BY LenProperties
<1> HIDE DEF u, l, r
<1>6. Len(l) = Len(r)
  BY <1>1, <1>2, <1>3, <1>4, <1>5
<1>7. ASSUME NEW i \in 1..Len(l) PROVE l[i] = r[i]
  <2>1. CASE i <= Len(s)
    <3>1. i \in 1..Len(s) /\ i <= Len(u)
      BY <1>2, <1>5, <2>1
    <3>2. l[i] = u[i]
      BY <1>3, <1>4, <1>6, <3>1
    <3>3. r[i] = s[i]
      BY <1>4, <1>6, <2>1
    <3> QED
      BY <1>2, <3>1, <3>2, <3>3
  <2>2. CASE i = Len(s) + 1
    BY <1>1, <1>2, <1>3, <1>4, <1>5, <1>6, <2>2
  <2>3. CASE i > Len(s) + 1
    <3>1. i - Len(u) \in 1..Len(Tail(t)) /\ (i - Len(u)) + 1 = i - Len(s)
      BY <1>1, <1>2, <1>3, <1>5, <2>3
    <3> QED
      BY <1>1, <1>2, <1>3, <1>4, <1>5, <1>6, <2>3, <3>1
  <2> QED
    BY <1>5, <2>1, <2>2, <2>3
<1>8. l = r
  BY <1>3, <1>4, <1>6, <1>7, SeqEqual
<1> QED
  BY <1>8 DEF l, r, u

\* Dropping the first entry and concatenating commute.
LEMMA DropFirst ==
  ASSUME NEW S, NEW s \in Seq(S), NEW t \in Seq(S), s # <<>>
  PROVE  Tail(s) \o t = Tail(s \o t)
<1> DEFINE l == Tail(s) \o t
           c == s \o t
           r == Tail(c)
<1>1. Tail(s) \in Seq(S) /\ Len(Tail(s)) = Len(s) - 1
      /\ \A i \in 1..Len(Tail(s)) : Tail(s)[i] = s[i + 1]
  BY HeadTailProperties
<1>2. /\ c \in Seq(S) /\ Len(c) = Len(s) + Len(t)
      /\ \A i \in 1..(Len(s) + Len(t)) : c[i] = IF i <= Len(s) THEN s[i] ELSE t[i - Len(s)]
  BY ConcatProperties
<1>3. Len(s) \in Nat \ {0} /\ Len(t) \in Nat
  BY LenProperties, EmptySeq
<1>4. /\ l \in Seq(S) /\ Len(l) = Len(Tail(s)) + Len(t)
      /\ \A i \in 1..(Len(Tail(s)) + Len(t)) :
           l[i] = IF i <= Len(Tail(s)) THEN Tail(s)[i] ELSE t[i - Len(Tail(s))]
  BY <1>1, ConcatProperties
<1> HIDE DEF l, c
<1>5. c # <<>>
  BY <1>2, <1>3, EmptySeq
<1>6. r \in Seq(S) /\ Len(r) = Len(c) - 1 /\ \A i \in 1..Len(r) : r[i] = c[i + 1]
  BY <1>2, <1>5, HeadTailProperties
<1> HIDE DEF r
<1>7. Len(l) = Len(r)
  BY <1>1, <1>2, <1>3, <1>4, <1>6
<1>8. ASSUME NEW i \in 1..Len(l) PROVE l[i] = r[i]
  <2>1. CASE i <= Len(Tail(s))
    BY <1>1, <1>2, <1>3, <1>4, <1>6, <1>7, <2>1
  <2>2. CASE i > Len(Tail(s))
    <3>1. i - Len(Tail(s)) = (i + 1) - Len(s) /\ i + 1 \in 1..Len(c) /\ ~ (i + 1 <= Len(s))
      BY <1>1, <1>2, <1>3, <1>4, <2>2
    <3> QED
      BY <1>1, <1>2, <1>3, <1>4, <1>6, <1>7, <2>2, <3>1
  <2> QED
    BY <1>1, <1>3, <2>1, <2>2
<1>9. l = r
  BY <1>4, <1>6, <1>7, <1>8, SeqEqual
<1> QED
  BY <1>9 DEF l, r, c

\* Appending to the second of two sequences appends to their concatenation.
LEMMA AppendLast ==
  ASSUME NEW S, NEW s \in Seq(S), NEW t \in Seq(S), NEW e \in S
  PROVE  s \o Append(t, e) = Append(s \o t, e)
<1>1. Append(t, e) = t \o <<e>> /\ s \o t \in Seq(S) /\ <<e>> \in Seq(S)
  BY AppendIsConcat, ConcatProperties
<1>2. Append(s \o t, e) = (s \o t) \o <<e>>
  BY <1>1, AppendIsConcat
<1> QED
  BY <1>1, <1>2, ConcatAssociative

\* Three sequences concatenate alike from either end.
LEMMA Regroup ==
  ASSUME NEW S, NEW d \in Seq(S)
  PROVE  \A q, p \in Seq(S) : (d \o q) \o p = d \o (q \o p)
BY ConcatAssociative
-----------------------------------------------------------------------------
\* The three sequences are sequences of events.
Lines == delivered \in Seq(Event) /\ queue \in Seq(Event) /\ pending \in Seq(Event)

Transit == queue \o pending

\* A hand-over appends its event to Line.
LEMMA SinkAppends ==
  ASSUME Lines, NEW e \in Event, pending' = Append(pending, e), UNCHANGED <<queue, delivered>>
  PROVE  Line' = Append(Line, e) /\ Transit' = Append(Transit, e)
<1>1. delivered \o queue \in Seq(Event)
  BY ConcatProperties DEF Lines
<1>2. (delivered \o queue) \o Append(pending, e) = Append((delivered \o queue) \o pending, e)
  BY <1>1, AppendLast DEF Lines
<1>3. queue \o Append(pending, e) = Append(queue \o pending, e)
  BY AppendLast DEF Lines
<1> QED
  BY <1>2, <1>3 DEF Line, Transit

\* A callback that finds room moves one event from pending to queue.
LEMMA RoomKeepsLine ==
  ASSUME Lines, pending # <<>>, pending' = Tail(pending),
         queue' = Append(queue, Head(pending)), UNCHANGED delivered
  PROVE  Line' = Line /\ Transit' = Transit
<1>1. Head(pending) \in Event /\ Tail(pending) \in Seq(Event)
  BY HeadTailProperties DEF Lines
<1>2. Append(queue, Head(pending)) \o Tail(pending) = queue \o pending
  BY MoveBorder DEF Lines
<1>3. Append(queue, Head(pending)) \in Seq(Event)
  BY <1>1, AppendProperties DEF Lines
<1>4. \A q, p \in Seq(Event) : (delivered \o q) \o p = delivered \o (q \o p)
  <2>1. delivered \in Seq(Event)
    BY DEF Lines
  <2> QED
    BY ONLY <2>1, Regroup
<1>5. (delivered \o queue) \o pending = delivered \o (queue \o pending)
  BY <1>4 DEF Lines
<1>6. (delivered \o Append(queue, Head(pending))) \o Tail(pending)
        = delivered \o (Append(queue, Head(pending)) \o Tail(pending))
  BY ONLY <1>1, <1>3, <1>4
<1> QED
  BY <1>2, <1>5, <1>6 DEF Line, Transit

\* A callback that finds the queue full removes the oldest event in transit.
LEMMA EvictionDropsOldest ==
  ASSUME Lines, pending # <<>>, queue # <<>>, pending' = Tail(pending),
         queue' = Append(Tail(queue), Head(pending)), UNCHANGED delivered
  PROVE  Line' = delivered \o Tail(Transit) /\ Transit' = Tail(Transit)
<1>1. /\ Head(pending) \in Event /\ Tail(pending) \in Seq(Event)
      /\ Tail(queue) \in Seq(Event)
  BY HeadTailProperties DEF Lines
<1>2. Append(Tail(queue), Head(pending)) \o Tail(pending) = Tail(queue) \o pending
  BY <1>1, MoveBorder DEF Lines
<1>3. Tail(queue) \o pending = Tail(queue \o pending)
  BY DropFirst DEF Lines
<1>4. Append(Tail(queue), Head(pending)) \in Seq(Event)
  BY <1>1, AppendProperties
<1>5. \A q, p \in Seq(Event) : (delivered \o q) \o p = delivered \o (q \o p)
  <2>1. delivered \in Seq(Event)
    BY DEF Lines
  <2> QED
    BY ONLY <2>1, Regroup
<1>6. (delivered \o Append(Tail(queue), Head(pending))) \o Tail(pending)
        = delivered \o (Append(Tail(queue), Head(pending)) \o Tail(pending))
  BY ONLY <1>1, <1>4, <1>5
<1> QED
  BY <1>2, <1>3, <1>6 DEF Line, Transit

\* A delivery moves the head of the queue to delivered.
LEMMA DeliveryKeepsLine ==
  ASSUME Lines, queue # <<>>, delivered' = Append(delivered, Head(queue)),
         queue' = Tail(queue), UNCHANGED pending
  PROVE  Line' = Line /\ Transit' = Tail(Transit)
<1>1. Append(delivered, Head(queue)) \o Tail(queue) = delivered \o queue
  BY MoveBorder DEF Lines
<1>2. Tail(queue) \o pending = Tail(queue \o pending)
  BY DropFirst DEF Lines
<1> QED
  BY <1>1, <1>2 DEF Line, Transit
-----------------------------------------------------------------------------
\* Whatever the threads and the loop do, every variable keeps its type.
THEOREM Typing == Spec => []TypeOK
<1> USE DEF TypeOK
<1>1. Init => TypeOK
  BY PipelineAssumption DEF Init
<1>2. TypeOK /\ [Next]_vars => TypeOK'
  <2> SUFFICES ASSUME TypeOK, [Next]_vars
               PROVE  TypeOK'
    OBVIOUS
  <2>1. ASSUME NEW t \in Threads, Build(t) PROVE TypeOK'
    <3>1. clock + 1 \in 1..MaxEvents /\ [by |-> t, at |-> clock + 1] \in Event
      BY <2>1, PipelineAssumption DEF Build, Event
    <3>2. <<[by |-> t, at |-> clock + 1]>> \in {<<>>} \union {<<e>> : e \in Event}
      BY <3>1
    <3>3. held' \in [Threads -> {<<>>} \union {<<e>> : e \in Event}]
      BY <2>1, <3>2 DEF Build
    <3> QED
      BY <2>1, <3>1, <3>3 DEF Build
  <2>2. ASSUME NEW t \in Threads, Sink(t) PROVE TypeOK'
    <3>1. held[t][1] \in Event
      BY <2>2 DEF Sink
    <3>2. Append(pending, held[t][1]) \in Seq(Event)
      BY <3>1, AppendProperties
    <3>4. pending' \in Seq(Event)
      BY <2>2, <3>2 DEF Sink
    <3>3. held' \in [Threads -> {<<>>} \union {<<e>> : e \in Event}]
      BY <2>2 DEF Sink
    <3> QED
      BY <2>2, <3>4, <3>3 DEF Sink
  <2>3. CASE Enqueue
    <3>1. Head(pending) \in Event /\ Tail(pending) \in Seq(Event)
      BY <2>3, HeadTailProperties DEF Enqueue
    <3>2. CASE Len(queue) < Capacity
      <4>1. /\ Append(queue, Head(pending)) \in Seq(Event)
            /\ Len(Append(queue, Head(pending))) = Len(queue) + 1
        BY <3>1, AppendProperties
      <4>2. /\ pending' = Tail(pending) /\ queue' = Append(queue, Head(pending))
            /\ UNCHANGED <<loop, clock, held, dropped, delivered, entered, evicted>>
        BY <2>3, <3>2, PipelineAssumption, LenProperties DEF Enqueue
      <4>3. Len(queue') <= Capacity
        BY <3>2, <4>1, <4>2, LenProperties, PipelineAssumption
      <4> QED
        BY <3>1, <4>1, <4>2, <4>3
    <3>3. CASE Len(queue) >= Capacity
      <4>1. queue # <<>> /\ Len(queue) \in Nat
        BY <3>3, PipelineAssumption, LenProperties, EmptySeq
      <4>2. Tail(queue) \in Seq(Event) /\ Len(Tail(queue)) = Len(queue) - 1
        BY <4>1, HeadTailProperties
      <4>3. /\ Append(Tail(queue), Head(pending)) \in Seq(Event)
            /\ Len(Append(Tail(queue), Head(pending))) = Len(Tail(queue)) + 1
        BY <3>1, <4>2, AppendProperties
      <4>4. /\ pending' = Tail(pending) /\ queue' = Append(Tail(queue), Head(pending))
            /\ dropped' = Counted(dropped) /\ evicted' = evicted + 1
            /\ UNCHANGED <<loop, clock, held, delivered, entered>>
        BY <2>3, <3>3, <4>1, PipelineAssumption DEF Enqueue
      <4>5. dropped' \in 0..CounterMax
        BY <4>4, PipelineAssumption DEF Counted
      <4> QED
        BY <3>1, <4>1, <4>2, <4>3, <4>4, <4>5
    <3> QED
      BY <2>3, <3>2, <3>3 DEF Enqueue
  <2>4. CASE Deliver
    <3>1. /\ Head(queue) \in Event /\ Tail(queue) \in Seq(Event)
          /\ Len(Tail(queue)) = Len(queue) - 1 /\ Len(queue) \in Nat
      BY <2>4, HeadTailProperties, LenProperties DEF Deliver
    <3>2. delivered' \in Seq(Event)
      BY <2>4, <3>1, AppendProperties DEF Deliver
    <3> QED
      BY <2>4, <3>1, <3>2, PipelineAssumption DEF Deliver
  <2>5. CASE Close
    BY <2>5 DEF Close
  <2>6. CASE UNCHANGED vars
    BY <2>6 DEF vars
  <2> QED
    BY <2>1, <2>2, <2>3, <2>4, <2>5, <2>6 DEF Next
<1> QED
  BY <1>1, <1>2, PTL DEF Spec
-----------------------------------------------------------------------------
\* How a step moves the events, in terms of Line and Transit.
HandedOver(t) == /\ pending' = Append(pending, held[t][1]) /\ entered' = entered + 1
                 /\ UNCHANGED <<queue, delivered, dropped, evicted>>

Moved == /\ pending # <<>> /\ pending' = Tail(pending)
         /\ queue' = Append(queue, Head(pending))
         /\ UNCHANGED <<delivered, dropped, entered, evicted>>

Evicted == /\ pending # <<>> /\ pending' = Tail(pending)
           /\ queue # <<>> /\ Len(queue) >= Capacity
           /\ queue' = Append(Tail(queue), Head(pending))
           /\ dropped' = Counted(dropped) /\ evicted' = evicted + 1
           /\ UNCHANGED <<delivered, entered>>

Delivered == /\ queue # <<>> /\ delivered' = Append(delivered, Head(queue))
             /\ queue' = Tail(queue)
             /\ UNCHANGED <<pending, dropped, entered, evicted>>

Still == UNCHANGED <<queue, pending, delivered, dropped, entered, evicted>>

\* A callback either finds room or evicts the oldest entry.
LEMMA EnqueueCases ==
  ASSUME TypeOK, Enqueue
  PROVE  (Moved \/ Evicted) /\ UNCHANGED <<held, clock>>
<1>1. Len(queue) \in Nat
  BY LenProperties DEF TypeOK
<1>2. CASE Len(queue) < Capacity
  BY <1>1, <1>2, PipelineAssumption DEF Enqueue, Moved
<1>3. CASE Len(queue) >= Capacity
  <2>1. queue # <<>>
    BY <1>3, PipelineAssumption, EmptySeq
  <2> QED
    BY <1>1, <1>3, <2>1, PipelineAssumption DEF Enqueue, Evicted
<1> QED
  BY <1>1, <1>2, <1>3, PipelineAssumption

\* The length of Line.
LEMMA ThreeLengths ==
  ASSUME NEW S, NEW d \in Seq(S), NEW q \in Seq(S), NEW p \in Seq(S)
  PROVE  Len((d \o q) \o p) = Len(d) + Len(q) + Len(p)
<1>1. d \o q \in Seq(S) /\ Len(d \o q) = Len(d) + Len(q)
  BY ConcatProperties
<1>2. Len((d \o q) \o p) = Len(d \o q) + Len(p)
  BY <1>1, ConcatProperties
<1> QED
  BY <1>1, <1>2

\* An event that the loop accepted is nowhere lost but by a counted eviction,
\* whatever the capacity and wherever the counter saturates.
THEOREM LossCounted == Spec => []LossIsCounted
<1> DEFINE Balance == /\ entered = Len(delivered) + Len(queue) + Len(pending) + evicted
                      /\ dropped = IF evicted > CounterMax THEN CounterMax ELSE evicted
<1>1. Init => Balance
  BY PipelineAssumption, EmptySeq DEF Init
<1>2. TypeOK /\ Balance /\ [Next]_vars => Balance'
  <2> SUFFICES ASSUME TypeOK, Balance, [Next]_vars
               PROVE  Balance'
    OBVIOUS
  <2>0. /\ Len(delivered) \in Nat /\ Len(queue) \in Nat /\ Len(pending) \in Nat
        /\ entered \in Nat /\ evicted \in Nat /\ dropped \in 0..CounterMax
    BY LenProperties DEF TypeOK
  <2>1. ASSUME NEW t \in Threads, HandedOver(t), held[t][1] \in Event PROVE Balance'
    <3>1. Len(Append(pending, held[t][1])) = Len(pending) + 1
      BY <2>1, AppendProperties DEF TypeOK
    <3> QED
      BY <2>0, <2>1, <3>1 DEF HandedOver
  <2>2. CASE Moved
    <3>1. Head(pending) \in Event /\ Len(Tail(pending)) = Len(pending) - 1
      BY <2>2, HeadTailProperties DEF Moved, TypeOK
    <3>2. Len(Append(queue, Head(pending))) = Len(queue) + 1
      BY <3>1, AppendProperties DEF TypeOK
    <3> QED
      BY <2>0, <2>2, <3>1, <3>2 DEF Moved
  <2>3. CASE Evicted
    <3>1. Head(pending) \in Event /\ Len(Tail(pending)) = Len(pending) - 1
      BY <2>3, HeadTailProperties DEF Evicted, TypeOK
    <3>2. Tail(queue) \in Seq(Event) /\ Len(Tail(queue)) = Len(queue) - 1
      BY <2>3, HeadTailProperties DEF Evicted, TypeOK
    <3>3. Len(Append(Tail(queue), Head(pending))) = Len(queue)
      BY <2>0, <3>1, <3>2, AppendProperties
    <3>4. Len(delivered') + Len(queue') + Len(pending') + evicted'
            = Len(delivered) + Len(queue) + Len(pending) + evicted
      BY <2>0, <2>3, <3>1, <3>3 DEF Evicted
    <3> QED
      BY <2>0, <2>3, <3>4, PipelineAssumption DEF Evicted, Counted
  <2>4. CASE Delivered
    <3>1. Head(queue) \in Event /\ Len(Tail(queue)) = Len(queue) - 1
      BY <2>4, HeadTailProperties DEF Delivered, TypeOK
    <3>2. Len(Append(delivered, Head(queue))) = Len(delivered) + 1
      BY <3>1, AppendProperties DEF TypeOK
    <3> QED
      BY <2>0, <2>4, <3>1, <3>2 DEF Delivered
  <2>5. CASE Still
    BY <2>5 DEF Still
  <2>6. ASSUME NEW t \in Threads, Sink(t)
        PROVE  (HandedOver(t) /\ held[t][1] \in Event) \/ Still
    BY <2>6 DEF Sink, HandedOver, Still, TypeOK
  <2>7. Deliver => Delivered
    BY DEF Deliver, Delivered
  <2>8. ASSUME (\E t \in Threads : Build(t)) \/ Close \/ UNCHANGED vars PROVE Still
    BY <2>8 DEF Build, Close, vars, Still
  <2> QED
    BY <2>1, <2>2, <2>3, <2>4, <2>5, <2>6, <2>7, <2>8, EnqueueCases DEF Next
<1>3. TypeOK /\ Balance => LossIsCounted
  BY ThreeLengths DEF TypeOK, LossIsCounted, Line
<1> QED
  BY <1>1, <1>2, <1>3, Typing, PTL DEF Spec
-----------------------------------------------------------------------------
\* The events of each thread stand in the order in which it built them.
Ordered(l) == \A i, j \in 1..Len(l) : (i < j /\ l[i].by = l[j].by) => l[i].at < l[j].at

\* No event is younger than the clock, and what a thread holds is younger than
\* whatever it has handed over: so a hand-over keeps the order.
Younger == /\ \A i \in 1..Len(Line) : Line[i].at <= clock
           /\ \A t \in Threads : held[t] # <<>> =>
                /\ held[t][1].by = t
                /\ held[t][1].at <= clock
                /\ \A i \in 1..Len(Line) : Line[i].by = t => Line[i].at < held[t][1].at

OrderInv == Ordered(Line) /\ Younger

\* Where the entries go when the first of the second sequence is removed.
LEMMA RemovedAt ==
  ASSUME NEW S, NEW d \in Seq(S), NEW s \in Seq(S), s # <<>>
  PROVE  /\ Len(d \o Tail(s)) = Len(d \o s) - 1 /\ Len(d \o s) \in Nat
         /\ \A i \in 1..Len(d \o Tail(s)) :
              (d \o Tail(s))[i] = (d \o s)[IF i <= Len(d) THEN i ELSE i + 1]
<1> DEFINE l == d \o Tail(s)
           r == d \o s
<1>1. Tail(s) \in Seq(S) /\ Len(Tail(s)) = Len(s) - 1
      /\ \A i \in 1..Len(Tail(s)) : Tail(s)[i] = s[i + 1]
  BY HeadTailProperties
<1>2. /\ l \in Seq(S) /\ Len(l) = Len(d) + Len(Tail(s))
      /\ \A i \in 1..(Len(d) + Len(Tail(s))) :
           l[i] = IF i <= Len(d) THEN d[i] ELSE Tail(s)[i - Len(d)]
  BY <1>1, ConcatProperties
<1>3. /\ r \in Seq(S) /\ Len(r) = Len(d) + Len(s)
      /\ \A i \in 1..(Len(d) + Len(s)) : r[i] = IF i <= Len(d) THEN d[i] ELSE s[i - Len(d)]
  BY ConcatProperties
<1>4. Len(d) \in Nat /\ Len(s) \in Nat \ {0}
  BY LenProperties, EmptySeq
<1> HIDE DEF l, r
<1>5. Len(l) = Len(r) - 1 /\ Len(r) \in Nat
  BY <1>1, <1>2, <1>3, <1>4
<1>6. ASSUME NEW i \in 1..Len(l) PROVE l[i] = r[IF i <= Len(d) THEN i ELSE i + 1]
  <2>1. CASE i <= Len(d)
    BY <1>1, <1>2, <1>3, <1>4, <2>1
  <2>2. CASE i > Len(d)
    <3>1. /\ i - Len(d) \in 1..Len(Tail(s)) /\ (i - Len(d)) + 1 = (i + 1) - Len(d)
          /\ i + 1 \in 1..Len(r) /\ ~ (i + 1 <= Len(d)) /\ ~ (i <= Len(d))
      BY <1>1, <1>2, <1>3, <1>4, <2>2
    <3>2. l[i] = Tail(s)[i - Len(d)]
      BY <1>1, <1>2, <1>4, <3>1
    <3>3. r[i + 1] = s[(i + 1) - Len(d)]
      BY <1>3, <3>1
    <3> QED
      BY <1>1, <3>1, <3>2, <3>3
  <2> QED
    BY <1>2, <1>4, <1>5, <2>1, <2>2
<1> QED
  BY <1>5, <1>6 DEF l, r

\* What becomes of Line and Transit in each kind of step.
LEMMA LineSteps ==
  ASSUME TypeOK, [Next]_vars
  PROVE  \/ /\ \E t \in Threads : Build(t)
            /\ Line' = Line /\ Transit' = Transit /\ UNCHANGED evicted
         \/ \E t \in Threads :
              /\ held[t] # <<>> /\ held[t][1] \in Event
              /\ Line' = Append(Line, held[t][1]) /\ Transit' = Append(Transit, held[t][1])
              /\ held' = [held EXCEPT ![t] = <<>>]
              /\ UNCHANGED <<clock, evicted>>
         \/ /\ Line' = Line /\ Transit' = Transit
            /\ \/ UNCHANGED held
               \/ \E t \in Threads : held' = [held EXCEPT ![t] = <<>>]
            /\ UNCHANGED <<clock, evicted>>
         \/ /\ Transit # <<>> /\ Len(Transit) > Capacity
            /\ Line' = delivered \o Tail(Transit) /\ Transit' = Tail(Transit)
            /\ evicted' = evicted + 1
            /\ UNCHANGED <<held, clock>>
         \/ /\ Transit # <<>>
            /\ Line' = Line /\ Transit' = Tail(Transit)
            /\ UNCHANGED <<held, clock, evicted>>
<1>0. Lines
  BY DEF TypeOK, Lines
<1>1. ASSUME NEW t \in Threads, Build(t) PROVE Line' = Line /\ Transit' = Transit /\ UNCHANGED evicted
  BY <1>1 DEF Build, Line, Transit
<1>2. ASSUME NEW t \in Threads, Sink(t)
      PROVE  \/ /\ held[t] # <<>> /\ held[t][1] \in Event
                /\ Line' = Append(Line, held[t][1]) /\ Transit' = Append(Transit, held[t][1])
                /\ held' = [held EXCEPT ![t] = <<>>] /\ UNCHANGED <<clock, evicted>>
             \/ /\ Line' = Line /\ Transit' = Transit
                /\ held' = [held EXCEPT ![t] = <<>>] /\ UNCHANGED <<clock, evicted>>
  <2>1. held[t] # <<>> /\ held[t][1] \in Event
    BY <1>2 DEF Sink, TypeOK
  <2>2. CASE pending' = Append(pending, held[t][1])
    BY <1>0, <1>2, <2>1, <2>2, SinkAppends DEF Sink
  <2>3. CASE UNCHANGED pending
    BY <1>2, <2>3 DEF Sink, Line, Transit
  <2> QED
    BY <1>2, <2>2, <2>3 DEF Sink
<1>3. ASSUME Enqueue, Moved
      PROVE  Line' = Line /\ Transit' = Transit /\ UNCHANGED <<held, clock, evicted>>
  BY <1>0, <1>3, RoomKeepsLine, EnqueueCases DEF Moved
<1>4. ASSUME Enqueue, Evicted
      PROVE  /\ Transit # <<>> /\ Len(Transit) > Capacity
             /\ Line' = delivered \o Tail(Transit) /\ Transit' = Tail(Transit)
             /\ evicted' = evicted + 1 /\ UNCHANGED <<held, clock>>
  <2>1. /\ Line' = delivered \o Tail(Transit) /\ Transit' = Tail(Transit)
    BY <1>0, <1>4, EvictionDropsOldest DEF Evicted
  <2>2. Len(pending) \in Nat \ {0} /\ Len(queue) \in Nat
    BY <1>0, <1>4, EmptySeq, LenProperties DEF Evicted, Lines
  <2>3. Transit \in Seq(Event) /\ Len(Transit) = Len(queue) + Len(pending)
    BY <1>0, ConcatProperties DEF Lines, Transit
  <2>4. Len(Transit) > Capacity /\ Transit # <<>>
    BY <1>4, <2>2, <2>3, PipelineAssumption, EmptySeq DEF Evicted
  <2> QED
    BY <1>4, <2>1, <2>4, EnqueueCases DEF Evicted
<1>5. ASSUME Deliver
      PROVE  /\ Transit # <<>> /\ Line' = Line /\ Transit' = Tail(Transit)
             /\ UNCHANGED <<held, clock, evicted>>
  <2>1. Line' = Line /\ Transit' = Tail(Transit)
    BY <1>0, <1>5, DeliveryKeepsLine DEF Deliver
  <2>2. Transit # <<>>
    BY <1>0, <1>5, ConcatEqualIffEmpty DEF Deliver, Lines, Transit
  <2> QED
    BY <1>5, <2>1, <2>2 DEF Deliver
<1>6. ASSUME Close \/ UNCHANGED vars
      PROVE  Line' = Line /\ Transit' = Transit /\ UNCHANGED <<held, clock, evicted>>
  BY <1>6 DEF Close, vars, Line, Transit
<1>7. CASE \E t \in Threads : Build(t)
  BY <1>1, <1>7
<1>8. CASE \E t \in Threads : Sink(t)
  BY <1>2, <1>8
<1>9. CASE Enqueue
  BY <1>3, <1>4, <1>9, EnqueueCases
<1> QED
  BY <1>5, <1>6, <1>7, <1>8, <1>9 DEF Next
-----------------------------------------------------------------------------
\* Whatever is evicted and however the threads interleave, the transport and
\* all that waits for it hold the events of each thread in its order.
THEOREM OrderKept == Spec => []ThreadOrderKept
<1> USE DEF OrderInv, Ordered, Younger
<1>1. Init => OrderInv
  <2> SUFFICES ASSUME Init PROVE OrderInv
    OBVIOUS
  <2>1. Line = <<>> /\ Len(Line) = 0
    BY EmptySeq, ConcatEmptySeq DEF Init, Line
  <2> QED
    BY <2>1 DEF Init
<1>2. TypeOK /\ OrderInv /\ [Next]_vars => OrderInv'
  <2> SUFFICES ASSUME TypeOK, OrderInv, [Next]_vars
               PROVE  OrderInv'
    OBVIOUS
  <2>1. /\ Line \in Seq(Event) /\ Len(Line) \in Nat /\ clock \in Nat
        /\ \A i \in 1..Len(Line) : Line[i] \in Event /\ Line[i].at \in Nat
    <3>1. Line \in Seq(Event)
      BY ConcatProperties DEF TypeOK, Line
    <3>2. Len(Line) \in Nat /\ \A i \in 1..Len(Line) : Line[i] \in Event
      BY <3>1, LenProperties, ElementOfSeq
    <3>3. clock \in Nat /\ \A e \in Event : e.at \in Nat
      BY PipelineAssumption DEF TypeOK, Event
    <3> QED
      BY <3>1, <3>2, <3>3
  <2>2. ASSUME NEW t \in Threads, Build(t), Line' = Line PROVE OrderInv'
    <3>1. /\ clock' = clock + 1 /\ held[t] = <<>>
          /\ held'[t] = <<[by |-> t, at |-> clock + 1]>>
          /\ \A u \in Threads \ {t} : held'[u] = held[u]
      BY <2>2 DEF Build, TypeOK
    <3>2. held'[t][1].by = t /\ held'[t][1].at = clock + 1
      BY <3>1
    <3>3. \A u \in Threads : held[u] # <<>> => held[u][1].at \in Nat
      BY PipelineAssumption DEF TypeOK, Event
    <3> QED
      BY <2>1, <2>2, <3>1, <3>2, <3>3
  <2>3. ASSUME NEW t \in Threads, held[t] # <<>>, held[t][1] \in Event,
               Line' = Append(Line, held[t][1]),
               held' = [held EXCEPT ![t] = <<>>], UNCHANGED clock
        PROVE  OrderInv'
    <3> DEFINE e == held[t][1]
    <3>1. /\ Len(Line') = Len(Line) + 1
          /\ \A i \in 1..Len(Line) : Line'[i] = Line[i]
          /\ Line'[Len(Line) + 1] = e
      BY <2>1, <2>3, AppendProperties
    <3>2. e.by = t /\ e.at <= clock /\ \A i \in 1..Len(Line) : Line[i].by = t => Line[i].at < e.at
      BY <2>3
    <3>3. held'[t] = <<>> /\ \A u \in Threads \ {t} : held'[u] = held[u]
      BY <2>3 DEF TypeOK
    <3> HIDE DEF e
    <3>4. Ordered(Line)'
      BY <2>1, <3>1, <3>2
    <3>5. Younger'
      BY <2>1, <2>3, <3>1, <3>2, <3>3
    <3> QED
      BY <3>4, <3>5
  <2>4. ASSUME Line' = Line, UNCHANGED clock,
               UNCHANGED held \/ \E t \in Threads : held' = [held EXCEPT ![t] = <<>>]
        PROVE  OrderInv'
    <3>1. \A u \in Threads : held'[u] # <<>> => held'[u] = held[u]
      BY <2>4 DEF TypeOK
    <3> QED
      BY <2>4, <3>1
  <2>5. ASSUME Transit # <<>>, Line' = delivered \o Tail(Transit), UNCHANGED <<held, clock>>
        PROVE  OrderInv'
    <3>1. Transit \in Seq(Event) /\ Line = delivered \o Transit
      BY ConcatProperties, ConcatAssociative DEF TypeOK, Transit, Line
    <3>2. /\ Len(Line') = Len(Line) - 1
          /\ \A i \in 1..Len(Line') : Line'[i] = Line[IF i <= Len(delivered) THEN i ELSE i + 1]
      <4>1. delivered \in Seq(Event)
        BY DEF TypeOK
      <4> QED
        BY <2>5, <3>1, <4>1, RemovedAt
    <3> DEFINE f(i) == IF i <= Len(delivered) THEN i ELSE i + 1
    <3>3. Len(delivered) \in Nat /\ Len(Line') \in Int
      BY <2>1, <3>2, LenProperties DEF TypeOK
    <3>4. /\ \A i \in 1..Len(Line') : f(i) \in 1..Len(Line) /\ Line'[i] = Line[f(i)]
          /\ \A i, j \in 1..Len(Line') : i < j => f(i) < f(j)
      BY <2>1, <3>2, <3>3
    <3> HIDE DEF f
    <3>5. Ordered(Line')
      <4> SUFFICES ASSUME NEW i \in 1..Len(Line'), NEW j \in 1..Len(Line'),
                          i < j, Line'[i].by = Line'[j].by
                   PROVE  Line'[i].at < Line'[j].at
        OBVIOUS
      <4>1. /\ f(i) \in 1..Len(Line) /\ f(j) \in 1..Len(Line) /\ f(i) < f(j)
            /\ Line'[i] = Line[f(i)] /\ Line'[j] = Line[f(j)]
        BY <3>4
      <4> QED
        BY <4>1
    <3>6. Younger'
      <4>1. ASSUME NEW i \in 1..Len(Line') PROVE Line'[i].at <= clock'
        BY <2>5, <3>4
      <4>2. ASSUME NEW t \in Threads, held'[t] # <<>>
            PROVE  /\ held'[t][1].by = t /\ held'[t][1].at <= clock'
                   /\ \A i \in 1..Len(Line') : Line'[i].by = t => Line'[i].at < held'[t][1].at
        <5>1. held'[t] = held[t] /\ clock' = clock
          BY <2>5
        <5> QED
          BY <3>4, <4>2, <5>1
      <4> QED
        BY <4>1, <4>2
    <3> QED
      BY <3>5, <3>6
  <2> QED
    BY <2>2, <2>3, <2>4, <2>5, LineSteps
<1>3. OrderInv => ThreadOrderKept
  BY DEF ThreadOrderKept
<1> QED
  BY <1>1, <1>2, <1>3, Typing, PTL DEF Spec

\* Every step of the pipeline lets one event enter, delivers or loses the
\* oldest in transit, or is invisible to LossyFifo.
THEOREM Refinement == Spec => ImplementsLossyFifo
<1> USE DEF Fifo!Next, Fifo!Enter, Fifo!Deliver, Fifo!Lose, Fifo!vars
<1>1. Init => Fifo!Init
  BY EmptySeq, ConcatEmptySeq DEF Init, Fifo!Init
<1>2. TypeOK /\ [Next]_vars => [Fifo!Next]_(Fifo!vars)
  <2> SUFFICES ASSUME TypeOK, [Next]_vars
               PROVE  [Fifo!Next]_(Fifo!vars)
    OBVIOUS
  <2> QED
    BY LineSteps DEF Transit
<1> QED
  BY <1>1, <1>2, Typing, PTL DEF Spec, ImplementsLossyFifo, Fifo!Spec
=============================================================================
