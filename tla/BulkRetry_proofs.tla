-------------------------- MODULE BulkRetry_proofs --------------------------
(***************************************************************************)
(* BulkRetry, for any list of ids, any max, any cap and any breaker: the   *)
(* summary is true, the breaker is exact and the cap is kept.  As in       *)
(* PurgeQueue_proofs, what is known of the pool is taken from              *)
(* OffloadPool_proofs.                                                     *)
(***************************************************************************)
EXTENDS BulkRetry, FiniteSetTheorems, SequenceTheorems, TLAPS

PoolCalls == Attempts \union Others

PoolProofs == INSTANCE OffloadPool_proofs WITH Calls <- Attempts \union Others

OwnTypes == /\ request \in Requests
            /\ pc \in {"start", "refused", "batch", "issue", "await", "done"}
            /\ ids \in Seq(Tids)
            /\ capped \in BOOLEAN
            /\ processed \in 0..Cardinality(Attempts)
            /\ streak \in 0..BreakAfter
            /\ newTaskIds \subseteq Tids
            /\ failures \subseteq Tids

\* The list the loop runs over is what capping made of the request.
Capping ==
  IF pc \in {"start", "refused"}
  THEN ids = <<>>
  ELSE /\ capped = (Len(request.ids) > EffectiveCap(request.max))
       /\ ids = IF capped THEN Upto(request.ids, EffectiveCap(request.max)) ELSE request.ids

\* The loop goes through the list one attempt at a time: those behind it were
\* answered, the next one is out exactly while it is awaited, the others were
\* never issued.  It stops at the end of the list or with the breaker.
OneAtATime ==
  /\ processed <= Len(ids)
  /\ pc \in {"issue", "await"} => processed < Len(ids)
  /\ pc = "done" => processed = Len(ids) \/ streak = BreakAfter
  /\ pc # "done" => streak < BreakAfter
  /\ \A k \in Attempts :
       /\ k <= processed => Answered(k)
       /\ k = processed + 1 => (caller[k] # "idle" <=> pc = "await")
       /\ k > processed + 1 => caller[k] = "idle"

\* The summary lists the attempts made so far by their answer, and its two
\* parts together count them when no id is listed twice.
Summary ==
  /\ newTaskIds = {ids[k] : k \in {j \in 1..processed : caller[j] = "success"}}
  /\ failures   = {ids[k] : k \in {j \in 1..processed : caller[j] # "success"}}
  /\ IsFiniteSet(newTaskIds) /\ IsFiniteSet(failures)
  /\ IsInjective(ids) => Cardinality(newTaskIds) + Cardinality(failures) = processed

\* The streak is what it stands for, and it was below the breaker's limit at
\* every attempt that was made.
Breaker ==
  /\ streak = TimeoutsSinceSuccess(processed)
  /\ \A k \in 1..Len(ids) : caller[k] # "idle" => TimeoutsSinceSuccess(k - 1) < BreakAfter

IInv == Capping /\ OneAtATime /\ Summary /\ Breaker

\* What is inductive by itself, before the pool's contract is known.
Own == OwnTypes /\ IInv /\ caller \in [PoolCalls -> Pool!CallerStates]
-----------------------------------------------------------------------------
\* A request's list is a finite list of ids, no longer than there are attempts.
LEMMA RequestList ==
  ASSUME NEW r \in Requests
  PROVE  /\ r.ids \in Seq(Tids) /\ Len(r.ids) \in 0..Cardinality(Attempts)
         /\ r.max \in Int
<1>1. /\ r.ids \in Seq(Range(r.ids)) /\ r.max \in Int
      /\ Len(r.ids) \in 0..Cardinality(Attempts)
  BY BulkAssumption
<1>2. \A i \in 1..Len(r.ids) : r.ids[i] \in Tids
  <2> SUFFICES ASSUME NEW i \in 1..Len(r.ids)
               PROVE  r.ids[i] \in Tids
    OBVIOUS
  <2>1. r.ids[i] \in Range(r.ids)
    BY <1>1, ElementOfSeq
  <2> QED
    BY <2>1 DEF Tids
<1>3. SubSeq(r.ids, 1, Len(r.ids)) \in Seq(Tids)
  BY <1>1, <1>2, SubSeqProperties
<1>4. SubSeq(r.ids, 1, Len(r.ids)) = r.ids
  BY <1>1
<1> QED
  BY <1>1, <1>3, <1>4

\* A slice is a prefix of the list, whatever n is; for an n that is not negative
\* it is the prefix of length n, or the whole list.
LEMMA UptoIsPrefix ==
  ASSUME NEW S, NEW s \in Seq(S), NEW n \in Int
  PROVE  /\ Upto(s, n) \in Seq(S)
         /\ Len(Upto(s, n)) <= Len(s)
         /\ \A k \in 1..Len(Upto(s, n)) : Upto(s, n)[k] = s[k]
         /\ n >= 0 => Len(Upto(s, n)) = IF n < Len(s) THEN n ELSE Len(s)
<1> DEFINE end == IF n >= 0 THEN n ELSE Len(s) + n
           m   == IF end < Len(s) THEN end ELSE Len(s)
<1>1. /\ Len(s) \in Nat
      /\ \A i \in 1..Len(s) : s[i] \in S
  BY LenProperties, ElementOfSeq
<1>2. m \in Int /\ m <= Len(s) /\ (n >= 0 => m = IF n < Len(s) THEN n ELSE Len(s))
  BY <1>1
<1>3. Upto(s, n) = SubSeq(s, 1, m)
  BY DEF Upto
<1> HIDE DEF m, end
<1>4. /\ SubSeq(s, 1, m) \in Seq(S)
      /\ Len(SubSeq(s, 1, m)) = IF 1 <= m THEN m ELSE 0
      /\ \A i \in 1..m : SubSeq(s, 1, m)[i] = s[i]
  BY <1>1, <1>2, SubSeqProperties
<1> QED
  BY <1>1, <1>2, <1>3, <1>4

\* The capped list is a prefix of the request's.
LEMMA CappedList ==
  ASSUME OwnTypes, Capping, pc \notin {"start", "refused"}
  PROVE  /\ Len(ids) <= Len(request.ids)
         /\ \A k \in 1..Len(ids) : ids[k] = request.ids[k]
         /\ capped => ids = Upto(request.ids, EffectiveCap(request.max))
         /\ request.max >= 0 => /\ Len(ids) <= request.max /\ Len(ids) <= HardCap
                                /\ capped <=> Len(ids) < Len(request.ids)
<1> DEFINE cap == EffectiveCap(request.max)
<1>1. request.ids \in Seq(Tids) /\ request.max \in Int /\ Len(request.ids) \in Nat
  BY RequestList DEF OwnTypes
<1>2. /\ cap \in Int /\ cap <= request.max /\ cap <= HardCap
      /\ request.max >= 0 => cap >= 0
  BY <1>1, BulkAssumption DEF EffectiveCap
<1>3. /\ capped <=> Len(request.ids) > cap
      /\ ids = IF capped THEN Upto(request.ids, cap) ELSE request.ids
  BY DEF Capping, OwnTypes
<1> HIDE DEF cap
<1>4. /\ Len(Upto(request.ids, cap)) <= Len(request.ids)
      /\ Upto(request.ids, cap) \in Seq(Tids)
      /\ \A k \in 1..Len(Upto(request.ids, cap)) : Upto(request.ids, cap)[k] = request.ids[k]
      /\ cap >= 0 => Len(Upto(request.ids, cap))
                       = IF cap < Len(request.ids) THEN cap ELSE Len(request.ids)
  BY <1>1, <1>2, UptoIsPrefix
<1>5. Len(Upto(request.ids, cap)) \in Nat
  BY <1>4, LenProperties
<1>6. ids = Upto(request.ids, cap) => /\ Len(ids) <= Len(request.ids)
                                      /\ \A k \in 1..Len(ids) : ids[k] = request.ids[k]
  BY <1>4
<1>7. CASE capped
  BY <1>1, <1>2, <1>3, <1>4, <1>5, <1>6, <1>7, BulkAssumption DEF cap
<1>8. CASE ~ capped
  BY <1>1, <1>2, <1>3, <1>8, BulkAssumption
<1> QED
  BY <1>7, <1>8
-----------------------------------------------------------------------------
\* The attempts among the first n that timed out with no success after them.
Timeouts(n) == {k \in 1..n : /\ caller[k] = "indeterminate"
                             /\ \A j \in k..n : caller[j] # "success"}

\* How the answer to attempt n changes the number of timeouts since a success:
\* exactly as it changes the streak.
LEMMA NextTimeout ==
  ASSUME NEW n \in Nat \ {0}
  PROVE  /\ TimeoutsSinceSuccess(n - 1) \in Nat
         /\ TimeoutsSinceSuccess(n) =
              CASE caller[n] = "indeterminate" -> TimeoutsSinceSuccess(n - 1) + 1
                [] caller[n] = "success"       -> 0
                [] OTHER                       -> TimeoutsSinceSuccess(n - 1)
<1>1. /\ TimeoutsSinceSuccess(n) = Cardinality(Timeouts(n))
      /\ TimeoutsSinceSuccess(n - 1) = Cardinality(Timeouts(n - 1))
  BY DEF TimeoutsSinceSuccess, Timeouts
<1>2. IsFiniteSet(Timeouts(n - 1)) /\ Cardinality(Timeouts(n - 1)) \in Nat /\ n \notin Timeouts(n - 1)
  <2>1. Timeouts(n - 1) \subseteq 1..(n - 1)
    BY DEF Timeouts
  <2>2. IsFiniteSet(1..(n - 1))
    BY FS_Interval
  <2> QED
    BY <2>1, <2>2, FS_Subset, FS_CardinalityType
<1>3. CASE caller[n] = "indeterminate"
  <2>1. Timeouts(n) = Timeouts(n - 1) \union {n}
    BY <1>3 DEF Timeouts
  <2>2. Cardinality(Timeouts(n)) = Cardinality(Timeouts(n - 1)) + 1
    BY <1>2, <2>1, FS_AddElement
  <2> QED
    BY <1>1, <1>2, <1>3, <2>2
<1>4. CASE caller[n] = "success"
  <2>1. Timeouts(n) = {}
    BY <1>4 DEF Timeouts
  <2> QED
    BY <1>1, <1>2, <1>4, <2>1, FS_EmptySet
<1>5. CASE caller[n] \notin {"indeterminate", "success"}
  <2>1. Timeouts(n) = Timeouts(n - 1)
    BY <1>5 DEF Timeouts
  <2> QED
    BY <1>1, <1>2, <1>5, <2>1
<1> QED
  BY <1>3, <1>4, <1>5

\* Before the first attempt there are no timeouts.
LEMMA NoTimeouts == TimeoutsSinceSuccess(0) = 0
<1>1. {k \in 1..0 : caller[k] = "indeterminate" /\ \A j \in k..0 : caller[j] # "success"} = {}
  OBVIOUS
<1> QED
  BY <1>1, FS_EmptySet DEF TimeoutsSinceSuccess

\* What was counted stays so while those attempts keep their answers.
LEMMA TimeoutsKept ==
  ASSUME NEW n \in Nat, \A k \in 1..n : caller'[k] = caller[k]
  PROVE  TimeoutsSinceSuccess(n)' = TimeoutsSinceSuccess(n)
<1>1. {k \in 1..n : caller[k] = "indeterminate" /\ \A j \in k..n : caller[j] # "success"}
        = {k \in 1..n : caller'[k] = "indeterminate" /\ \A j \in k..n : caller'[j] # "success"}
  OBVIOUS
<1> QED
  BY <1>1 DEF TimeoutsSinceSuccess
-----------------------------------------------------------------------------
\* The pool's definitions, reached through the component and through the proofs
\* about the pool, are the same.
LEMMA SamePool ==
  /\ Pool!Init <=> PoolProofs!Init
  /\ Pool!TypeOK <=> PoolProofs!TypeOK
  /\ poolVars = PoolProofs!vars
<1>1. Pool!Init <=> PoolProofs!Init
  BY DEF Pool!Init, PoolProofs!Init
<1>2. Pool!TypeOK <=> PoolProofs!TypeOK
  BY DEF Pool!TypeOK, PoolProofs!TypeOK, Pool!CallerStates, PoolProofs!CallerStates,
         Pool!WorkStates, PoolProofs!WorkStates
<1>3. poolVars = PoolProofs!vars
  BY DEF poolVars, PoolProofs!vars
<1> QED
  BY <1>1, <1>2, <1>3

\* Each step of the pool that a command takes is one the proofs know.
LEMMA SameSteps ==
  ASSUME NEW c \in PoolCalls
  PROVE  /\ Pool!Submit(c) => PoolProofs!Next
         /\ Pool!Step(c) => PoolProofs!Next
<1> USE DEF PoolCalls
<1>1. Pool!Submit(c) => PoolProofs!Submit(c)
  BY DEF Pool!Submit, PoolProofs!Submit
<1>2. Pool!Take(c) => PoolProofs!Take(c)
  BY DEF Pool!Take, PoolProofs!Take, Pool!Busy, PoolProofs!Busy,
         Pool!Cardinality, PoolProofs!Cardinality, Pool!IsFiniteSet, PoolProofs!IsFiniteSet
<1>3. Pool!Apply(c) => PoolProofs!Apply(c)
  BY DEF Pool!Apply, PoolProofs!Apply
<1>4. Pool!Return(c) => PoolProofs!Return(c)
  BY DEF Pool!Return, PoolProofs!Return
<1>5. Pool!Raise(c) => PoolProofs!Raise(c)
  BY DEF Pool!Raise, PoolProofs!Raise
<1>6. Pool!Deliver(c) => PoolProofs!Deliver(c)
  BY DEF Pool!Deliver, PoolProofs!Deliver, Pool!OutcomeOf, PoolProofs!OutcomeOf
<1>7. Pool!Timeout(c) => PoolProofs!Timeout(c)
  BY DEF Pool!Timeout, PoolProofs!Timeout, Pool!TimeoutAnswer, PoolProofs!TimeoutAnswer
<1> QED
  BY <1>1, <1>2, <1>3, <1>4, <1>5, <1>6, <1>7 DEF PoolProofs!Next, PoolProofs!Step, Pool!Step

\* The list is no longer than there are attempts, so the next one is one of them.
LEMMA NextAttempt ==
  ASSUME OwnTypes, IInv
  PROVE  /\ Len(ids) \in 0..Cardinality(Attempts) /\ processed \in Nat
         /\ Cardinality(Attempts) \in Nat /\ Attempts = 1..Cardinality(Attempts)
         /\ pc \in {"issue", "await"} => processed + 1 \in Attempts
<1>1. Len(ids) \in Nat /\ Cardinality(Attempts) \in Nat
      /\ Attempts = 1..Cardinality(Attempts)
  BY LenProperties, BulkAssumption DEF OwnTypes
<1>2. Len(ids) <= Cardinality(Attempts)
  <2>1. CASE pc \in {"start", "refused"}
    BY <2>1, <1>1, EmptySeq DEF IInv, Capping
  <2>2. CASE pc \notin {"start", "refused"}
    <3>1. Len(ids) <= Len(request.ids) /\ Len(request.ids) \in 0..Cardinality(Attempts)
      BY <2>2, CappedList, RequestList DEF IInv, OwnTypes
    <3> QED
      BY <1>1, <3>1
  <2> QED
    BY <2>1, <2>2
<1> QED
  BY <1>1, <1>2 DEF OwnTypes, IInv, OneAtATime

\* The pool answers an attempt that waits, once; it never issues one and never
\* changes an answer.
LEMMA PoolKeepsAnswers ==
  ASSUME caller \in [PoolCalls -> Pool!CallerStates], NEW c \in PoolCalls, Pool!Step(c)
  PROVE  /\ caller' \in [PoolCalls -> Pool!CallerStates]
         /\ \A k \in PoolCalls : /\ caller'[k] = "idle" <=> caller[k] = "idle"
                                 /\ Answered(k) => caller'[k] = caller[k]
<1> USE DEF Answered, Pool!CallerStates
<1>1. CASE Pool!Take(c) \/ Pool!Apply(c) \/ Pool!Return(c) \/ Pool!Raise(c)
  BY <1>1 DEF Pool!Take, Pool!Apply, Pool!Return, Pool!Raise
<1>2. CASE Pool!Deliver(c)
  BY <1>2 DEF Pool!Deliver, Pool!OutcomeOf
<1>3. CASE Pool!Timeout(c)
  BY <1>3 DEF Pool!Timeout, Pool!TimeoutAnswer
<1> QED
  BY <1>1, <1>2, <1>3 DEF Pool!Step

\* So a step that leaves the command alone keeps the command's invariant.
LEMMA CommandAtRest ==
  ASSUME OwnTypes, IInv, UNCHANGED bulkVars,
         \A k \in Attempts : /\ caller'[k] = "idle" <=> caller[k] = "idle"
                             /\ Answered(k) => caller'[k] = caller[k]
  PROVE  OwnTypes' /\ IInv'
<1> USE DEF bulkVars
<1>0. /\ Len(ids) \in 0..Cardinality(Attempts) /\ processed \in Nat /\ processed <= Len(ids)
      /\ Cardinality(Attempts) \in Nat /\ Attempts = 1..Cardinality(Attempts)
  BY NextAttempt DEF IInv, OneAtATime
<1>1. \A k \in 1..processed : Answered(k) /\ caller'[k] = caller[k]
  BY <1>0 DEF IInv, OneAtATime
<1>2. OwnTypes' /\ Capping'
  BY DEF OwnTypes, IInv, Capping
<1>3. OneAtATime'
  BY <1>0 DEF IInv, OneAtATime, Answered
<1>4. Summary'
  <2>1. /\ {j \in 1..processed : caller'[j] = "success"} = {j \in 1..processed : caller[j] = "success"}
        /\ {j \in 1..processed : caller'[j] # "success"} = {j \in 1..processed : caller[j] # "success"}
    BY <1>1
  <2> QED
    BY <2>1 DEF IInv, Summary
<1>5. Breaker'
  <2>1. TimeoutsSinceSuccess(processed)' = TimeoutsSinceSuccess(processed)
    BY <1>0, <1>1, TimeoutsKept
  <2>2. ASSUME NEW k \in 1..Len(ids), caller'[k] # "idle"
        PROVE  TimeoutsSinceSuccess(k - 1)' < BreakAfter
    <3>1. caller[k] # "idle" /\ k \in Attempts
      BY <1>0, <2>2
    <3>2. k <= processed + 1
      BY <1>0, <3>1 DEF IInv, OneAtATime
    <3>3. TimeoutsSinceSuccess(k - 1)' = TimeoutsSinceSuccess(k - 1)
      BY <1>0, <1>1, <3>2, TimeoutsKept
    <3> QED
      BY <3>1, <3>3 DEF IInv, Breaker
  <2> QED
    BY <2>1, <2>2 DEF IInv, Breaker
<1> QED
  BY <1>2, <1>3, <1>4, <1>5 DEF IInv

\* Capping yields a list of the request's ids, and the loop starts at its head.
LEMMA AcceptStep ==
  ASSUME OwnTypes, IInv, Accept
  PROVE  OwnTypes' /\ IInv'
<1> USE DEF Accept, poolVars
<1>1. /\ ids = <<>> /\ Len(ids) = 0 /\ processed = 0 /\ streak < BreakAfter
      /\ request \in Requests /\ request.ids \in Seq(Tids) /\ request.max \in Int
  BY RequestList, EmptySeq DEF OwnTypes, IInv, Capping, OneAtATime
<1>2. /\ ids' \in Seq(Tids) /\ Len(ids') \in 0..Cardinality(Attempts)
      /\ Cardinality(Attempts) \in Nat /\ Attempts = 1..Cardinality(Attempts)
  <2>0. /\ Len(request.ids) \in 0..Cardinality(Attempts)
        /\ Cardinality(Attempts) \in Nat /\ Attempts = 1..Cardinality(Attempts)
    BY <1>1, RequestList, BulkAssumption
  <2>1. CASE ids' = Upto(request.ids, EffectiveCap(request.max))
    <3>1. EffectiveCap(request.max) \in Int
      BY <1>1, BulkAssumption DEF EffectiveCap
    <3> QED
      BY <1>1, <2>0, <2>1, <3>1, UptoIsPrefix, LenProperties
  <2>2. CASE ids' # Upto(request.ids, EffectiveCap(request.max))
    BY <1>1, <2>0, <2>2
  <2> QED
    BY <2>0, <2>1, <2>2
<1>3. OwnTypes'
  <2>0. /\ pc' \in {"refused", "batch"}
        /\ \/ UNCHANGED capped
           \/ capped' = (Len(request.ids) > EffectiveCap(request.max))
    OBVIOUS
  <2>1. capped' \in BOOLEAN
    <3>1. (Len(request.ids) > EffectiveCap(request.max)) \in BOOLEAN
      OBVIOUS
    <3> QED
      BY <2>0, <3>1, Zenon DEF OwnTypes
  <2>2. UNCHANGED <<request, processed, streak, newTaskIds, failures>>
    OBVIOUS
  <2> QED
    BY <1>2, <2>0, <2>1, <2>2 DEF OwnTypes
<1>4. Capping'
  BY <1>1 DEF Capping
<1>5. OneAtATime'
  BY <1>1, <1>2 DEF IInv, OneAtATime, Answered
<1>6. Summary' 
  <2>1. newTaskIds = {} /\ failures = {}
    BY <1>1 DEF IInv, Summary
  <2> QED
    BY <1>1, <2>1, FS_EmptySet DEF Summary
<1>7. Breaker'
  <2>1. \A k \in 1..Len(ids') : caller[k] = "idle"
    <3>1. \A k \in 1..Len(ids') : k \in Attempts
      BY <1>2
    <3> QED
      BY <1>1, <3>1 DEF IInv, OneAtATime
  <2> QED
    BY <1>1, <2>1 DEF IInv, Breaker, TimeoutsSinceSuccess
<1> QED
  BY <1>3, <1>4, <1>5, <1>6, <1>7 DEF IInv

\* The head of the loop moves the place only.
LEMMA BatchStep ==
  ASSUME OwnTypes, IInv, Batch
  PROVE  OwnTypes' /\ IInv'
<1> USE DEF Batch, poolVars
<1>1. OwnTypes'
  BY DEF OwnTypes
<1>2. Capping' /\ Summary'
  BY DEF IInv, Capping, Summary
<1>3. OneAtATime'
  BY NextAttempt DEF IInv, OneAtATime, Answered
<1>4. Breaker'
  BY DEF IInv, Breaker, TimeoutsSinceSuccess
<1> QED
  BY <1>1, <1>2, <1>3, <1>4 DEF IInv

\* The next attempt is handed to the pool, with the breaker below its limit.
LEMMA IssueStep ==
  ASSUME Own, Issue
  PROVE  OwnTypes' /\ IInv'
<1> USE DEF Own
<1> DEFINE next == processed + 1
<1>0. /\ Len(ids) \in 0..Cardinality(Attempts) /\ processed \in Nat
      /\ Cardinality(Attempts) \in Nat /\ Attempts = 1..Cardinality(Attempts)
      /\ next \in Attempts /\ processed < Len(ids)
  BY NextAttempt DEF Issue, IInv, OneAtATime
<1>1. /\ caller[next] = "idle" /\ caller'[next] = "waiting"
      /\ \A k \in Attempts \ {next} : caller'[k] = caller[k]
      /\ pc = "issue" /\ pc' = "await"
      /\ UNCHANGED <<request, ids, capped, processed, streak, newTaskIds, failures>>
  BY <1>0 DEF Issue, Pool!Submit, PoolCalls
<1> HIDE DEF next
<1>2. \A k \in 1..processed : k \in Attempts /\ caller'[k] = caller[k]
  BY <1>0, <1>1 DEF next
<1>3. OwnTypes' /\ Capping'
  BY <1>1 DEF OwnTypes, IInv, Capping
<1>4. OneAtATime'
  BY <1>0, <1>1 DEF IInv, OneAtATime, Answered, next
<1>5. Summary'
  <2>1. /\ {j \in 1..processed : caller'[j] = "success"} = {j \in 1..processed : caller[j] = "success"}
        /\ {j \in 1..processed : caller'[j] # "success"} = {j \in 1..processed : caller[j] # "success"}
    BY <1>2
  <2> QED
    BY <1>1, <2>1 DEF IInv, Summary
<1>6. \A n \in 0..processed : TimeoutsSinceSuccess(n)' = TimeoutsSinceSuccess(n)
  BY <1>0, <1>2, TimeoutsKept
<1>7. Breaker'
  <2>1. streak' = TimeoutsSinceSuccess(processed)' /\ TimeoutsSinceSuccess(processed)' < BreakAfter
    BY <1>0, <1>1, <1>6 DEF IInv, Breaker, OneAtATime
  <2>2. ASSUME NEW k \in 1..Len(ids), caller'[k] # "idle"
        PROVE  TimeoutsSinceSuccess(k - 1)' < BreakAfter
    <3>1. CASE k = next
      BY <1>0, <1>1, <2>1, <3>1 DEF next
    <3>2. CASE k # next
      <4>1. caller[k] # "idle" /\ k \in Attempts
        BY <1>0, <1>1, <2>2, <3>2
      <4>2. k - 1 \in 0..processed
        BY <1>0, <4>1, <3>2 DEF IInv, OneAtATime, next
      <4> QED
        BY <1>6, <4>1, <4>2 DEF IInv, Breaker
    <3> QED
      BY <3>1, <3>2
  <2> QED
    BY <1>1, <2>1, <2>2 DEF Breaker
<1> QED
  BY <1>3, <1>4, <1>5, <1>7 DEF IInv

\* An answer is filed under the one heading it belongs to, once, and the streak
\* follows it.
LEMMA RecordStep ==
  ASSUME Own, Record
  PROVE  OwnTypes' /\ IInv'
<1> USE DEF Own
<1> DEFINE k == processed + 1
<1>0. /\ Len(ids) \in 0..Cardinality(Attempts) /\ processed \in Nat
      /\ Cardinality(Attempts) \in Nat /\ Attempts = 1..Cardinality(Attempts)
      /\ k \in Attempts /\ k \in 1..Len(ids) /\ pc = "await" /\ streak < BreakAfter
      /\ streak \in Nat /\ BreakAfter \in Nat
  BY NextAttempt, BulkAssumption DEF Record, IInv, OneAtATime, OwnTypes
<1>1. /\ Answered(k) /\ processed' = k /\ streak' = StreakAfter(k)
      /\ UNCHANGED <<caller, request, ids, capped>>
  BY DEF Record, poolVars
<1>2. \/ /\ caller[k] = "success"
         /\ newTaskIds' = newTaskIds \union {ids[k]} /\ failures' = failures
      \/ /\ caller[k] # "success"
         /\ failures' = failures \union {ids[k]} /\ newTaskIds' = newTaskIds
  BY DEF Record, Succeeded
<1>3. pc' = IF Tripped(streak') THEN "done"
            ELSE IF k % BatchSize = 0 \/ k = Len(ids) THEN "batch" ELSE "issue"
  BY DEF Record
<1>4. /\ streak' \in 0..BreakAfter
      /\ pc' \in {"done", "batch", "issue"}
      /\ pc' = "done" <=> streak' = BreakAfter
      /\ pc' = "issue" => k < Len(ids)
  <2>1. streak' \in 0..BreakAfter
    BY <1>0, <1>1 DEF StreakAfter
  <2>2. CASE Tripped(streak')
    <3>1. pc' = "done"
      BY <1>3, <2>2
    <3> QED
      BY <1>0, <2>1, <2>2, <3>1 DEF Tripped
  <2>3. CASE ~ Tripped(streak')
    <3>1. /\ pc' \in {"batch", "issue"}
          /\ pc' = "issue" => k # Len(ids)
      BY <1>3, <2>3, Zenon
    <3> QED
      BY <1>0, <2>1, <2>3, <3>1 DEF Tripped
  <2> QED
    BY <2>2, <2>3
<1>5. ids[k] \in Tids /\ ids \in [1..Len(ids) -> Tids]
  BY <1>0, LenProperties DEF OwnTypes
<1> HIDE DEF k
<1>6. OwnTypes'
  BY <1>0, <1>1, <1>2, <1>4, <1>5 DEF OwnTypes
<1>7. Capping'
  BY <1>0, <1>1, <1>4 DEF IInv, Capping
<1>8. OneAtATime'
  BY <1>0, <1>1, <1>4 DEF IInv, OneAtATime, Answered, k
<1>9. Summary'
  <2>1. 1..k = (1..processed) \union {k} /\ k \notin 1..processed
    BY <1>0 DEF k
  <2>2. /\ newTaskIds' = {ids[i] : i \in {j \in 1..k : caller[j] = "success"}}
        /\ failures'   = {ids[i] : i \in {j \in 1..k : caller[j] # "success"}}
    BY <1>2, <2>1 DEF IInv, Summary
  <2>3. IsInjective(ids) => ids[k] \notin newTaskIds \union failures
    <3> SUFFICES ASSUME IsInjective(ids), NEW i \in 1..processed, ids[i] = ids[k]
                 PROVE  FALSE
      BY DEF IInv, Summary
    <3>1. i \in DOMAIN ids /\ k \in DOMAIN ids /\ i # k
      BY <1>0, <1>5, <2>1
    <3> QED
      BY <3>1 DEF IsInjective
  <2>4. /\ Cardinality(newTaskIds) \in Nat /\ Cardinality(failures) \in Nat
        /\ IsFiniteSet(newTaskIds) /\ IsFiniteSet(failures)
    BY FS_CardinalityType DEF IInv, Summary
  <2>5. /\ IsFiniteSet(newTaskIds') /\ IsFiniteSet(failures')
        /\ IsInjective(ids) => Cardinality(newTaskIds') + Cardinality(failures') = k
    <3>1. /\ IsFiniteSet(newTaskIds \union {ids[k]}) /\ IsFiniteSet(failures \union {ids[k]})
          /\ IsInjective(ids)
               => /\ Cardinality(newTaskIds \union {ids[k]}) = Cardinality(newTaskIds) + 1
                  /\ Cardinality(failures \union {ids[k]}) = Cardinality(failures) + 1
      BY <2>3, <2>4, FS_AddElement
    <3>2. IsInjective(ids) => Cardinality(newTaskIds) + Cardinality(failures) = processed
      BY DEF IInv, Summary
    <3> QED
      <4>1. CASE newTaskIds' = newTaskIds \union {ids[k]} /\ failures' = failures
        BY <1>0, <2>4, <3>1, <3>2, <4>1 DEF k
      <4>2. CASE failures' = failures \union {ids[k]} /\ newTaskIds' = newTaskIds
        BY <1>0, <2>4, <3>1, <3>2, <4>2 DEF k
      <4> QED
        BY <1>2, <4>1, <4>2
  <2>6. ids' = ids /\ caller' = caller /\ processed' = k
    BY <1>1
  <2> QED
    BY <2>2, <2>5, <2>6 DEF Summary, IsInjective
<1>10. Breaker'
  <2>1. streak = TimeoutsSinceSuccess(k - 1) /\ k \in Nat \ {0}
    BY <1>0 DEF IInv, Breaker, k
  <2>2. StreakAfter(k) = TimeoutsSinceSuccess(k)
    BY <2>1, NextTimeout DEF StreakAfter
  <2>3. streak' = TimeoutsSinceSuccess(processed)'
    BY <1>1, <2>2 DEF TimeoutsSinceSuccess
  <2>4. \A n \in 1..Len(ids) : TimeoutsSinceSuccess(n - 1)' = TimeoutsSinceSuccess(n - 1)
    BY <1>1 DEF TimeoutsSinceSuccess
  <2> QED
    BY <1>1, <2>3, <2>4 DEF IInv, Breaker
<1> QED
  BY <1>6, <1>7, <1>8, <1>9, <1>10 DEF IInv

\* The command's invariant holds of every behaviour.
LEMMA Inductive == Spec => []Own
<1>1. Init => Own
  <2> SUFFICES ASSUME Init PROVE Own
    OBVIOUS
  <2>1. OwnTypes /\ caller \in [PoolCalls -> Pool!CallerStates]
    <3>1. ids \in Seq(Tids)
      BY EmptySeq DEF Init
    <3>2. 0 \in 0..Cardinality(Attempts) /\ 0 \in 0..BreakAfter
      BY BulkAssumption
    <3>3. caller \in [PoolCalls -> Pool!CallerStates]
      BY DEF Init, Pool!Init, PoolCalls, Pool!CallerStates
    <3> QED
      BY <3>1, <3>2, <3>3 DEF Init, OwnTypes
  <2>2. Capping /\ OneAtATime
    BY EmptySeq, BulkAssumption DEF Init, Pool!Init, Capping, OneAtATime
  <2>3. Summary
    BY FS_EmptySet DEF Init, Summary
  <2>4. Breaker
    BY NoTimeouts, EmptySeq DEF Init, Breaker
  <2> QED
    BY <2>1, <2>2, <2>3, <2>4 DEF Own, IInv
<1>2. Own /\ [Next]_vars => Own'
  <2> SUFFICES ASSUME Own, [Next]_vars PROVE Own'
    OBVIOUS
  <2>0. Attempts \subseteq PoolCalls /\ Others \subseteq PoolCalls /\ Attempts \intersect Others = {}
    BY BulkAssumption DEF PoolCalls
  <2>1. CASE Accept
    BY <2>1, AcceptStep DEF Own, Accept, poolVars
  <2>2. CASE Batch
    BY <2>2, BatchStep DEF Own, Batch, poolVars
  <2>3. CASE Issue
    <3>1. caller' \in [PoolCalls -> Pool!CallerStates]
      BY <2>3 DEF Issue, Pool!Submit, Own, Pool!CallerStates
    <3> QED
      BY <2>3, <3>1, IssueStep DEF Own
  <2>4. CASE Record
    BY <2>4, RecordStep DEF Own, Record, poolVars
  <2>5. ASSUME NEW o \in Others, EarlierCommand(o) PROVE Own'
    <3>1. /\ caller' \in [PoolCalls -> Pool!CallerStates]
          /\ \A k \in Attempts : caller'[k] = caller[k]
      BY <2>0, <2>5 DEF EarlierCommand, Pool!Submit, Own, Pool!CallerStates
    <3> QED
      BY <2>5, <3>1, CommandAtRest DEF Own, EarlierCommand
  <2>6. ASSUME NEW c \in PoolCalls, Pool!Step(c), UNCHANGED bulkVars PROVE Own'
    BY <2>0, <2>6, PoolKeepsAnswers, CommandAtRest DEF Own
  <2>7. CASE UNCHANGED vars
    BY <2>7, CommandAtRest DEF Own, vars, poolVars
  <2> QED
    BY <2>1, <2>2, <2>3, <2>4, <2>5, <2>6, <2>7 DEF Next, Bulk, PoolCalls
<1> QED
  BY <1>1, <1>2, PTL DEF Spec
-----------------------------------------------------------------------------
\* A step of the command or of an earlier call is a step of the pool or leaves
\* the pool alone.
LEMMA StepIsPoolStep ==
  ASSUME Own, [Next]_vars
  PROVE  [PoolProofs!Next]_(PoolProofs!vars)
<1> USE DEF PoolCalls, poolVars, PoolProofs!vars
<1>1. CASE Accept
  BY <1>1 DEF Accept
<1>2. CASE Batch
  BY <1>2 DEF Batch
<1>3. CASE Issue
  <2>1. processed + 1 \in PoolCalls
    BY <1>3, NextAttempt DEF Own, Issue
  <2> QED
    BY <1>3, <2>1, SameSteps DEF Issue
<1>4. CASE Record
  BY <1>4 DEF Record
<1>5. ASSUME NEW o \in Others, EarlierCommand(o) PROVE PoolProofs!Next
  BY <1>5, SameSteps DEF EarlierCommand
<1>6. ASSUME NEW c \in PoolCalls, Pool!Step(c) PROVE PoolProofs!Next
  BY <1>6, SameSteps
<1>7. CASE UNCHANGED vars
  BY <1>7 DEF vars
<1> QED
  BY <1>1, <1>2, <1>3, <1>4, <1>5, <1>6, <1>7 DEF Next, Bulk

\* The command keeps the pool's contract: every behaviour of BulkRetry is, as
\* far as the pool is concerned, a behaviour of OffloadPool.
THEOREM UsesPool == Spec => PoolProofs!Spec
<1>1. Init => PoolProofs!Init
  BY SamePool DEF Init
<1>2. Own /\ [Next]_vars => [PoolProofs!Next]_(PoolProofs!vars)
  BY StepIsPoolStep
<1> QED
  BY <1>1, <1>2, Inductive, PTL DEF Spec, PoolProofs!Spec

\* So the pool's inductive invariant holds while the command runs.
LEMMA PoolInvariant == Spec => []PoolProofs!IInv
<1>1. MaxWorkers \in Nat \ {0}
  BY BulkAssumption
<1> QED
  BY <1>1, UsesPool, PoolProofs!Inductive, PTL

\* Every variable of the command and of the pool keeps its type.
THEOREM Typing == Spec => []TypeOK
<1>1. PoolProofs!IInv /\ Own => TypeOK
  BY SamePool DEF PoolProofs!IInv, Own, OwnTypes, TypeOK
<1> QED
  BY <1>1, Inductive, PoolInvariant, PTL
-----------------------------------------------------------------------------
\* The summary never claims a retry the broker did not see, leaves none out, and
\* adds up when no id is listed twice.
THEOREM TrueSummary == Spec => []SummaryIsTrue
<1>1. PoolProofs!IInv /\ Own => SummaryIsTrue
  <2> SUFFICES ASSUME PoolProofs!IInv, Own
               PROVE  SummaryIsTrue
    OBVIOUS
  <2> DEFINE enqueued == {ids[k] : k \in {j \in 1..Len(ids) : effects[j] > 0}}
  <2>0. /\ Len(ids) \in 0..Cardinality(Attempts) /\ processed \in Nat /\ processed <= Len(ids)
        /\ Cardinality(Attempts) \in Nat /\ Attempts = 1..Cardinality(Attempts)
    BY NextAttempt DEF Own, IInv, OneAtATime
  <2>1. \A k \in Attempts : /\ caller[k] = "success" => effects[k] = 1
                            /\ caller[k] = "idle" => effects[k] = 0
    BY DEF PoolProofs!IInv, PoolProofs!Agreement
  <2>2. newTaskIds \subseteq enqueued
    BY <2>0, <2>1 DEF Own, IInv, Summary
  <2>3. pc = "done" => enqueued \subseteq newTaskIds \union failures
    <3>1. pc = "done" => \A j \in 1..Len(ids) : effects[j] > 0 => j \in 1..processed
      BY <2>0, <2>1 DEF Own, IInv, OneAtATime
    <3> QED
      BY <3>1 DEF Own, IInv, Summary
  <2>4. (pc = "done" /\ IsInjective(ids))
           => Cardinality(newTaskIds) + Cardinality(failures) + Skipped = Len(ids)
    BY <2>0, FS_CardinalityType DEF Own, IInv, Summary, Skipped
  <2> QED
    BY <2>2, <2>3, <2>4 DEF SummaryIsTrue
<1> QED
  BY <1>1, Inductive, PoolInvariant, PTL

\* No attempt starts once BreakAfter timeouts went by without a success, and ids
\* are skipped for that reason only.
THEOREM ExactBreaker == Spec => []BreakerExact
<1>1. Own => BreakerExact
  BY NextAttempt DEF Own, IInv, Breaker, OneAtATime, BreakerExact, Skipped
<1> QED
  BY <1>1, Inductive, PTL

\* With a max that is not negative, at most that many ids and at most the hard
\* cap are touched, in the order given, and the answer says whether ids fell out.
THEOREM KeptCap == Spec => []CapRespected
<1>1. Own => CapRespected
  <2> SUFFICES ASSUME Own, request.max >= 0, pc \notin {"start", "refused"}
               PROVE  LET touched == {k \in Attempts : caller[k] # "idle"}
                      IN  /\ Cardinality(touched) <= request.max
                          /\ Cardinality(touched) <= HardCap
                          /\ \A k \in touched : ids[k] = request.ids[k]
                          /\ capped <=> Len(ids) < Len(request.ids)
    BY DEF CapRespected
  <2> DEFINE touched == {k \in Attempts : caller[k] # "idle"}
  <2>0. /\ Len(ids) \in Nat /\ processed \in Nat /\ processed <= Len(ids)
        /\ Cardinality(Attempts) \in Nat /\ Attempts = 1..Cardinality(Attempts)
    BY NextAttempt DEF Own, IInv, OneAtATime
  <2>1. touched \subseteq 1..Len(ids)
    BY <2>0 DEF Own, IInv, OneAtATime
  <2>2. Cardinality(touched) <= Len(ids) /\ Cardinality(touched) \in Nat
    <3>1. IsFiniteSet(1..Len(ids)) /\ Cardinality(1..Len(ids)) = Len(ids)
      <4>1. /\ IsFiniteSet(1..Len(ids))
            /\ Cardinality(1..Len(ids)) = IF 1 > Len(ids) THEN 0 ELSE Len(ids) - 1 + 1
        <5>1. 1 \in Int /\ Len(ids) \in Int
          BY <2>0
        <5> QED
          BY <5>1, FS_Interval, Zenon
      <4> QED
        BY <2>0, <4>1
    <3> QED
      BY <2>1, <3>1, FS_Subset, FS_CardinalityType
  <2>3. request.max \in Int /\ HardCap \in Nat
    BY RequestList, BulkAssumption DEF Own, OwnTypes
  <2>4. /\ \A k \in 1..Len(ids) : ids[k] = request.ids[k]
        /\ Len(ids) <= request.max /\ Len(ids) <= HardCap
        /\ capped <=> Len(ids) < Len(request.ids)
    BY CappedList DEF Own, IInv
  <2> QED
    BY <2>0, <2>1, <2>2, <2>3, <2>4
<1> QED
  BY <1>1, Inductive, PTL
=============================================================================
