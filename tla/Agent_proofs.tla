---------------------------- MODULE Agent_proofs ----------------------------
(***************************************************************************)
(* What the agent does beside its commands, for every value of the         *)
(* constants: the cache behind a heartbeat's details (HealthCache), the    *)
(* watch over the registry of tasks (RegistryWatch), the agent's own life  *)
(* in a worker process (WorkerLifecycle) and the receiver of broker events *)
(* (BrokerMonitor).  The four share no state: each part below has an       *)
(* inductive invariant of its own and the theorems that follow from it.    *)
(***************************************************************************)
EXTENDS Integers, HealthCache, RegistryWatch, WorkerLifecycle, BrokerMonitor,
        FiniteSetTheorems, SequenceTheorems, WellFoundedInduction, TLAPS

\* Among natural numbers there is a least one.
LEMMA LeastNatural ==
  ASSUME NEW T, T \subseteq Nat, T # {}
  PROVE  \E m \in T : \A k \in T : m <= k
<1>1. PICK m \in T : \A k \in T : ~ (<<k, m>> \in OpToRel(<, Nat))
  BY NatLessThanWellFounded, WFMin
<1>2. \A k \in T : ~ (k < m)
  BY <1>1 DEF OpToRel
<1> QED
  BY <1>2

\* A finite set of natural numbers has a greatest one: no least size of a set
\* without one exists.
LEMMA FiniteHasMax ==
  ASSUME NEW S, S \subseteq Nat, IsFiniteSet(S), S # {}
  PROVE  \E x \in S : \A y \in S : x >= y
<1> DEFINE Topped(U) == \E x \in U : \A y \in U : x >= y
           Sizes == {k \in Nat : \E U \in SUBSET S : U # {} /\ Cardinality(U) = k /\ ~ Topped(U)}
<1>1. SUFFICES ASSUME ~ Topped(S)
               PROVE  FALSE
  OBVIOUS
<1>2. Cardinality(S) \in Sizes
  BY <1>1, FS_CardinalityType
<1>3. PICK m \in Sizes : \A k \in Sizes : m <= k
  BY <1>2, LeastNatural
<1>4. PICK U \in SUBSET S : U # {} /\ Cardinality(U) = m /\ ~ Topped(U)
  BY <1>3
<1>5. PICK x \in U : TRUE
  BY <1>4
<1>6. IsFiniteSet(U) /\ IsFiniteSet(U \ {x})
  BY FS_Subset
<1>7. Cardinality(U \ {x}) = m - 1 /\ Cardinality(U \ {x}) \in Nat
  BY <1>4, <1>5, <1>6, FS_RemoveElement, FS_CardinalityType
<1>8. Cardinality(U \ {x}) \notin Sizes
  <2>1. m \in Nat
    BY <1>3
  <2>2. \A k \in Sizes : m <= k
    BY <1>3
  <2> DEFINE c == Cardinality(U \ {x})
  <2>3. c = m - 1
    BY <1>7
  <2> HIDE DEF c, Sizes
  <2>4. c \notin Sizes
    BY <2>1, <2>2, <2>3
  <2> QED
    BY <2>4 DEF c
<1>9. U \ {x} # {} => Topped(U \ {x})
  BY <1>7, <1>8
<1>10. CASE U \ {x} = {}
  <2>1. x >= x /\ \A y \in U : y = x
    BY <1>5, <1>10
  <2> QED
    BY <1>4, <1>5, <2>1
<1>11. CASE Topped(U \ {x})
  <2>1. PICK t \in U \ {x} : \A y \in U \ {x} : t >= y
    BY <1>11
  <2>2. x \in Nat /\ t \in Nat /\ U \subseteq Nat
    BY <1>5
  <2>3. CASE x >= t
    <3>1. \A y \in U : x >= y
      BY <2>1, <2>2, <2>3
    <3> QED
      BY <1>4, <1>5, <3>1
  <2>4. CASE ~ (x >= t)
    <3>1. \A y \in U : t >= y
      BY <2>1, <2>2, <2>4
    <3> QED
      BY <1>4, <2>1, <3>1
  <2> QED
    BY <2>3, <2>4
<1> QED
  BY <1>9, <1>10, <1>11
-----------------------------------------------------------------------------
(***************************************************************************)
(* The cache behind a heartbeat.                                           *)
(***************************************************************************)
\* No time read from the clock is ahead of it, and a refresh in progress began
\* no longer ago than a refresh can take.
Clocks == /\ stamp <= now /\ report.at <= now
          /\ \A b \in Beats : pc[b] = "refreshing" => began[b] <= now /\ now <= began[b] + RefreshMax
          /\ \A b \in Beats : pc[b] = "stamping" => began[b] <= now

\* The stamp never runs ahead of the cache by more than a refresh, though the
\* two may come from different threads; whoever reads has made sure of it.
Freshness ==
  /\ cached.since + RefreshMax >= stamp
  /\ \A b \in Beats : pc[b] = "stamping" => cached.since + RefreshMax >= now
  /\ \A b \in Beats : pc[b] = "reading" => cached.since + TTL + RefreshMax >= now
  /\ report.details.since + TTL + RefreshMax >= report.at

\* An empty cache was never written, and then nothing was stamped, or it was
\* emptied after what the stamp says.
Reasons ==
  /\ (cached.found = "nothing" /\ failed = Never) =>
       /\ stamp = 0
       /\ \A b \in Beats : pc[b] # "stamping" /\ (pc[b] = "reading" => now <= TTL)
  /\ (cached.found = "nothing" /\ failed # Never) =>
       /\ failed >= stamp
       /\ \A b \in Beats : /\ pc[b] = "stamping" => failed >= now
                           /\ pc[b] = "reading" => failed + TTL >= now
  /\ AbsenceExplained

HealthInv == HealthTypeOK /\ Clocks /\ Freshness /\ Reasons
-----------------------------------------------------------------------------
\* HealthInv holds at the start, when the clock has run for any
\* time up to just past the first validity.
LEMMA HealthInitially ==
  ASSUME HealthInit
  PROVE  HealthInv
<1> USE HealthAssumption DEF HealthInit, Empty
<1>1. HealthTypeOK
  BY DEF HealthTypeOK, Found, Never
<1>2. Clocks /\ Freshness
  BY DEF Clocks, Freshness
<1>3. Reasons
  BY DEF Reasons, AbsenceExplained, Never
<1> QED
  BY <1>1, <1>2, <1>3 DEF HealthInv

LEMMA TickStep ==
  ASSUME HealthInv, Tick
  PROVE  HealthInv'
<1> USE HealthAssumption DEF HealthInv, Tick
<1>1. HealthTypeOK'
  BY DEF HealthTypeOK, Never
<1>2. Clocks'
  BY DEF HealthTypeOK, Clocks
<1>3. Freshness'
  BY DEF HealthTypeOK, Freshness
<1>4. Reasons'
  BY DEF HealthTypeOK, Reasons, AbsenceExplained, Never
<1> QED
  BY <1>1, <1>2, <1>3, <1>4

LEMMA CheckStep ==
  ASSUME HealthInv, NEW b \in Beats, Check(b)
  PROVE  HealthInv'
<1> USE HealthAssumption DEF HealthInv, Check, Due
<1>1. HealthTypeOK'
  BY DEF HealthTypeOK, Never
<1>2. Clocks'
  BY DEF HealthTypeOK, Clocks
<1>3. Freshness'
  BY DEF HealthTypeOK, Freshness
<1>4. Reasons'
  BY DEF HealthTypeOK, Reasons, AbsenceExplained, Never
<1> QED
  BY <1>1, <1>2, <1>3, <1>4

LEMMA CacheStep ==
  ASSUME HealthInv, NEW b \in Beats, Cache(b)
  PROVE  HealthInv'
<1> USE HealthAssumption DEF HealthInv, Cache, Found
<1>1. HealthTypeOK'
  BY DEF HealthTypeOK, Never
<1>2. Clocks'
  BY DEF HealthTypeOK, Clocks
<1>3. Freshness'
  BY DEF HealthTypeOK, Clocks, Freshness
<1>4. Reasons'
  <2> PICK f \in Found : /\ cached' = [found |-> f, since |-> began[b]]
                         /\ failed' = IF f = "nothing" THEN now ELSE failed
    OBVIOUS
  <2>1. now # Never /\ now \in Nat /\ stamp \in Nat /\ TTL \in Nat
    BY DEF HealthTypeOK, Never
  <2>2. AbsenceExplained'
    <3>1. report.details.found = "nothing" => \/ report.at <= TTL
                                              \/ failed # Never /\ failed + TTL >= report.at
      BY DEF Reasons, AbsenceExplained
    <3>2. report.at \in 0..MaxTime /\ report.at <= now
      BY DEF HealthTypeOK, Clocks
    <3>3. report' = report
      OBVIOUS
    <3>4. CASE f = "nothing"
      <4>1. failed' = now
        BY <3>4
      <4>2. now + TTL >= report.at
        BY <2>1, <3>2
      <4>3. failed' # Never' /\ failed' + TTL >= report'.at
        BY <2>1, <3>3, <4>1, <4>2 DEF Never
      <4> QED
        BY <4>3 DEF AbsenceExplained
    <3>5. CASE f # "nothing"
      BY <3>1, <3>3, <3>5 DEF AbsenceExplained, Never
    <3> QED
      BY <3>4, <3>5
  <2>3. CASE f = "nothing"
    BY <2>1, <2>2, <2>3 DEF HealthTypeOK, Clocks, Reasons, Never
  <2>4. CASE f # "nothing"
    BY <2>2, <2>4 DEF Reasons
  <2> QED
    BY <2>3, <2>4
<1> QED
  BY <1>1, <1>2, <1>3, <1>4

LEMMA StampStep ==
  ASSUME HealthInv, NEW b \in Beats, Stamp(b)
  PROVE  HealthInv'
<1> USE HealthAssumption DEF HealthInv, Stamp
<1>1. HealthTypeOK'
  BY DEF HealthTypeOK, Never
<1>2. Clocks'
  BY DEF HealthTypeOK, Clocks
<1>3. Freshness'
  BY DEF HealthTypeOK, Clocks, Freshness
<1>4. Reasons'
  BY DEF HealthTypeOK, Clocks, Reasons, AbsenceExplained, Never
<1> QED
  BY <1>1, <1>2, <1>3, <1>4

LEMMA ReadStep ==
  ASSUME HealthInv, NEW b \in Beats, Read(b)
  PROVE  HealthInv'
<1> USE HealthAssumption DEF HealthInv, Read
<1>1. HealthTypeOK'
  BY DEF HealthTypeOK, Never
<1>2. Clocks'
  BY DEF HealthTypeOK, Clocks
<1>3. Freshness'
  BY DEF HealthTypeOK, Clocks, Freshness
<1>4. Reasons'
  BY DEF HealthTypeOK, Clocks, Reasons, AbsenceExplained, Never
<1> QED
  BY <1>1, <1>2, <1>3, <1>4

LEMMA HealthInductive == HealthSpec => []HealthInv
<1>1. HealthInit => HealthInv
  BY HealthInitially
<1>2. HealthInv /\ [HealthNext]_healthVars => HealthInv'
  <2> SUFFICES ASSUME HealthInv, [HealthNext]_healthVars
               PROVE  HealthInv'
    OBVIOUS
  <2>1. CASE UNCHANGED healthVars
    BY <2>1 DEF healthVars, HealthInv, HealthTypeOK, Clocks, Freshness, Reasons, AbsenceExplained
  <2> QED
    BY <2>1, TickStep, CheckStep, CacheStep, StampStep, ReadStep DEF HealthNext
<1> QED
  BY <1>1, <1>2, PTL DEF HealthSpec
-----------------------------------------------------------------------------
\* However refreshes overlap, the details a heartbeat carries were asked for at
\* most one period of validity and one refresh ago.
THEOREM Fresh == HealthSpec => []DetailsAreFresh
<1>1. HealthInv => DetailsAreFresh
  BY DEF HealthInv, Freshness, DetailsAreFresh
<1> QED
  BY <1>1, HealthInductive, PTL

\* A heartbeat without details comes before the first refresh is due, or no
\* longer after a refresh that found nothing than a refresh is good for.
THEOREM Explained == HealthSpec => []AbsenceExplained
<1>1. HealthInv => AbsenceExplained
  BY DEF HealthInv, Reasons
<1> QED
  BY <1>1, HealthInductive, PTL
-----------------------------------------------------------------------------
(***************************************************************************)
(* The watch over the registry of tasks.                                   *)
(***************************************************************************)
Entries   == Files \union {Loaded, Absent}
Accounts  == [defs : [Names -> Entries], edits : Nat \union {Unread}, registered : SUBSET Names]
Snapshots == [defs : [Names -> Entries], edits : Nat, registered : SUBSET Names]

WatchTypes == /\ registered \subseteq Names
              /\ declares \in [Files -> SUBSET Names]
              /\ hints \in BOOLEAN /\ watching \in BOOLEAN
              /\ saves \in Nat /\ notices \in Nat
              /\ deltas \in Seq(Snapshots)
              /\ lost \in Nat \union {Unread}
              /\ view \in [Names -> Entries]
              /\ edits \in Nat
              /\ told \in [edits : Nat \union {Unread}, registered : SUBSET Names]
              /\ newest \in Nat \union {Unread}

\* A snapshot is a true account of some moment up to now: of this one, when no
\* file was changed since, as far as the files go.
Sound(s) == /\ s.registered \subseteq registered
            /\ s.edits <= edits
            /\ \A n \in Names : IF n \in s.registered
                                THEN s.defs[n] = Loaded
                                ELSE /\ s.defs[n] # Loaded
                                     /\ s.edits = edits => s.defs[n] = DeclaredIn(n)

\* Nothing is on its way, and the view steps back behind nothing, before the
\* watcher runs.
Unwatched == ~watching => /\ saves = 0 /\ notices = 0 /\ deltas = <<>>
                          /\ told.edits = newest

\* The queued snapshots are sound, and what was told is no newer than the files.
Sources == /\ told.edits <= newest /\ newest <= edits
           /\ \A i \in 1..Len(deltas) : Sound(deltas[i])

\* When nothing is between a save and the queue and no account of the files as
\* they are was lost, the last of the queue is such an account, or nothing newer
\* than what the brain has was ever told.
Mended == (saves = 0 /\ notices = 0 /\ lost < edits) =>
            IF deltas = <<>> THEN told.edits = newest ELSE deltas[Len(deltas)].edits = edits

ViewTrue ==
  \A n \in Names :
    /\ n \in told.registered => view[n] = Loaded
    /\ (told.edits = edits /\ n \notin told.registered /\ DeclaredIn(n) # Absent)
         => view[n] = DeclaredIn(n)
    /\ view[n] = Loaded => n \in registered

WatchInv == WatchTypes /\ Unwatched /\ Sources /\ Mended /\ ViewTrue
-----------------------------------------------------------------------------
\* What the files say of a task is one of them or nothing.
LEMMA DeclaredFile ==
  ASSUME NEW n
  PROVE  DeclaredIn(n) \in Files \union {Absent} /\ DeclaredIn(n) # Loaded
<1> DEFINE fs == {f \in Files : n \in declares[f]}
<1>1. CASE fs = {}
  BY <1>1 DEF DeclaredIn, Absent, Loaded
<1>2. CASE fs # {}
  <2>1. fs \subseteq Nat /\ IsFiniteSet(fs)
    BY RegistryAssumption, FS_Subset
  <2>2. \E x \in fs : \A y \in fs : x >= y
    BY <1>2, <2>1, FiniteHasMax
  <2>3. Max(fs) \in fs
    BY <2>2 DEF Max
  <2> QED
    BY <1>2, <2>3, RegistryAssumption DEF DeclaredIn, Loaded
<1> QED
  BY <1>1, <1>2

LEMMA SnapshotSound ==
  ASSUME WatchTypes
  PROVE  Snapshot \in Snapshots /\ Sound(Snapshot) /\ Snapshot.edits = edits
<1>1. /\ Snapshot.defs = [n \in Names |-> IF n \in registered THEN Loaded ELSE DeclaredIn(n)]
      /\ Snapshot.edits = edits /\ Snapshot.registered = registered
  BY DEF Snapshot, Merge
<1>2. Snapshot.defs \in [Names -> Entries]
  BY <1>1, DeclaredFile DEF Entries
<1>3. Snapshot \in Snapshots
  BY <1>2 DEF Snapshot, Snapshots, WatchTypes
<1>4. \A n \in Names : IF n \in registered THEN Snapshot.defs[n] = Loaded
                       ELSE Snapshot.defs[n] # Loaded /\ Snapshot.defs[n] = DeclaredIn(n)
  BY <1>1, DeclaredFile
<1> QED
  BY <1>1, <1>3, <1>4 DEF Sound, WatchTypes

\* Being told a sound account keeps the view true; one that looked at no file
\* must be of this moment.
LEMMA TellStep ==
  ASSUME WatchTypes, ViewTrue, told.edits <= newest, newest <= edits,
         NEW s \in Accounts, Sound(s), Tell(s),
         s.edits = Unread => /\ s.registered = registered
                             /\ \A n \in Names \ registered : s.defs[n] = Absent,
         UNCHANGED <<registered, declares, edits>>
  PROVE  /\ view' \in [Names -> Entries]
         /\ told' \in [edits : Nat \union {Unread}, registered : SUBSET Names]
         /\ newest' \in Nat \union {Unread}
         /\ told'.edits <= newest' /\ newest' <= edits'
         /\ told'.edits = IF s.edits = Unread THEN told.edits ELSE s.edits
         /\ s.edits = Unread => newest' = newest
         /\ s.edits = edits => newest' = edits
         /\ ViewTrue'
<1> DEFINE e == IF s.edits = Unread THEN told.edits ELSE s.edits
<1>1. /\ view' = [n \in Names |-> IF s.defs[n] = Absent THEN view[n] ELSE s.defs[n]]
      /\ told' = [edits |-> e, registered |-> s.registered]
      /\ newest' = IF e > newest THEN e ELSE newest
  BY DEF Tell
<1>2. /\ s.defs \in [Names -> Entries] /\ s.edits \in Nat \union {Unread} /\ s.registered \in SUBSET Names
      /\ told.edits \in Nat \union {Unread} /\ newest \in Nat \union {Unread} /\ edits \in Nat
  BY DEF Accounts, WatchTypes
<1>3. view' \in [Names -> Entries]
  BY <1>1, <1>2 DEF WatchTypes
<1>4. told'.edits = e /\ told'.registered = s.registered
  BY <1>1
<1>5. e \in Nat \union {Unread} /\ e <= edits
  BY <1>2 DEF Sound, Unread
<1>6. /\ told' \in [edits : Nat \union {Unread}, registered : SUBSET Names]
      /\ newest' \in Nat \union {Unread}
  BY <1>1, <1>2, <1>5
<1>7. /\ told'.edits <= newest' /\ newest' <= edits'
      /\ s.edits = Unread => newest' = newest
      /\ s.edits = edits => newest' = edits
  BY <1>1, <1>2, <1>4, <1>5 DEF Unread
<1>8. ASSUME NEW n \in Names
      PROVE  /\ n \in told'.registered => view'[n] = Loaded
             /\ (told'.edits = edits' /\ n \notin told'.registered /\ DeclaredIn(n)' # Absent)
                  => view'[n] = DeclaredIn(n)'
             /\ view'[n] = Loaded => n \in registered'
  <2>1. DeclaredIn(n)' = DeclaredIn(n)
    BY DEF DeclaredIn
  <2>2. view'[n] = IF s.defs[n] = Absent THEN view[n] ELSE s.defs[n]
    BY <1>1
  <2>3. /\ n \in told.registered => n \in registered
        /\ view[n] = Loaded => n \in registered
        /\ (told.edits = edits /\ n \notin told.registered /\ DeclaredIn(n) # Absent)
             => view[n] = DeclaredIn(n)
    BY DEF ViewTrue
  <2>4. CASE s.edits = Unread
    BY <1>4, <2>1, <2>2, <2>3, <2>4 DEF Sound, Loaded, Absent
  <2>5. CASE s.edits # Unread
    BY <1>4, <2>1, <2>2, <2>3, <2>5 DEF Sound, Loaded, Absent
  <2> QED
    BY <2>4, <2>5
<1>9. ViewTrue'
  BY <1>8 DEF ViewTrue
<1> QED
  BY <1>3, <1>4, <1>6, <1>7, <1>9

LEMMA WatchInitially ==
  ASSUME WatchInit
  PROVE  WatchInv
<1> USE DEF WatchInit
<1>1. WatchTypes
  BY EmptySeq DEF WatchTypes, Entries
<1>2. Unwatched
  BY DEF Unwatched
<1>3. Sources
  <2>1. told.edits <= newest /\ newest <= edits /\ Len(deltas) = 0
    BY DEF Unread
  <2> QED
    BY <2>1 DEF Sources
<1>4. Mended
  BY DEF Mended
<1>5. ViewTrue
  BY DEF ViewTrue, Loaded, Absent, Unread
<1> QED
  BY <1>1, <1>2, <1>3, <1>4, <1>5 DEF WatchInv

\* The agent's own discovery tells the files as they are, or nothing of them.
LEMMA DiscoverStep ==
  ASSUME WatchInv, Discover
  PROVE  WatchInv'
<1> USE DEF WatchInv
<1>1. PICK given \in BOOLEAN :
        /\ hints' = (hints \/ given)
        /\ Tell(IF given THEN Snapshot ELSE RuntimeOnly) \/ UNCHANGED brain
        /\ UNCHANGED <<sources, watching, subscribed, saves, notices, deltas, lost>>
  BY DEF Discover
<1>2. UNCHANGED <<registered, declares, edits, watching, saves, notices, deltas, lost>>
  BY <1>1 DEF sources
<1>3. /\ edits \in Nat /\ told.edits <= newest /\ newest <= edits
      /\ told.edits \in Nat \union {Unread} /\ newest \in Nat \union {Unread}
  BY DEF Sources, WatchTypes
<1>4. /\ view' \in [Names -> Entries]
      /\ told' \in [edits : Nat \union {Unread}, registered : SUBSET Names]
      /\ newest' \in Nat \union {Unread}
      /\ told'.edits <= newest' /\ newest' <= edits'
      /\ told.edits = newest => told'.edits = newest'
      /\ ViewTrue'
  <2>1. CASE Tell(Snapshot)
    <3>1. Snapshot \in Accounts /\ Sound(Snapshot) /\ Snapshot.edits = edits /\ Snapshot.edits # Unread
      BY <1>3, SnapshotSound DEF Accounts, Snapshots, Unread
    <3> QED
      BY <1>2, <1>3, <2>1, <3>1, TellStep
  <2>2. CASE Tell(RuntimeOnly)
    <3> DEFINE d == [n \in Names |-> IF n \in registered THEN Loaded ELSE Absent]
    <3>1. RuntimeOnly = [defs |-> d, edits |-> Unread, registered |-> registered]
      BY DEF RuntimeOnly
    <3>2. d \in [Names -> Entries]
      BY DEF Entries
    <3>3. RuntimeOnly \in Accounts
      BY <3>1, <3>2 DEF Accounts, WatchTypes
    <3>4. /\ RuntimeOnly.edits = Unread /\ RuntimeOnly.registered = registered
          /\ \A n \in Names : RuntimeOnly.defs[n] = IF n \in registered THEN Loaded ELSE Absent
      BY <3>1
    <3>5. Sound(RuntimeOnly)
      BY <1>3, <3>4 DEF Sound, Unread, Loaded, Absent
    <3>6. \A n \in Names \ registered : RuntimeOnly.defs[n] = Absent
      BY <3>4
    <3> HIDE DEF d
    <3> QED
      BY <1>2, <1>3, <2>2, <3>3, <3>4, <3>5, <3>6, TellStep
  <2>3. CASE UNCHANGED brain
    <3>1. view' = view /\ told' = told /\ newest' = newest
      BY <2>3 DEF brain
    <3>2. ViewTrue'
      BY <1>2, <3>1 DEF ViewTrue, DeclaredIn
    <3> QED
      BY <1>2, <1>3, <3>1, <3>2 DEF WatchTypes
  <2> QED
    BY <1>1, <2>1, <2>2, <2>3
<1>5. WatchTypes'
  BY <1>1, <1>2, <1>4 DEF WatchTypes
<1>6. Unwatched' /\ Mended'
  BY <1>2, <1>4 DEF Unwatched, Mended
<1>7. \A i \in 1..Len(deltas') : Sound(deltas[i])'
  <2>1. \A s : Sound(s) => Sound(s)'
    BY <1>2 DEF Sound, DeclaredIn
  <2>2. \A i \in 1..Len(deltas) : Sound(deltas[i])
    BY DEF Sources
  <2> QED
    BY <1>2, <2>1, <2>2
<1>8. Sources'
  BY <1>4, <1>7 DEF Sources
<1> QED
  BY <1>4, <1>5, <1>6, <1>8

\* Subscribing, letting go and noticing touch neither the snapshots nor what
\* they are about.
LEMMA QuietStep ==
  ASSUME WatchInv, Subscribe \/ Unsubscribe \/ Notify
  PROVE  WatchInv'
<1>1. UNCHANGED <<registered, declares, hints, deltas, lost, view, edits, told, newest>>
  BY DEF Subscribe, Unsubscribe, Notify, sources, brain
<1>2. /\ watching' \in BOOLEAN /\ saves' \in Nat /\ notices' \in Nat
      /\ ~watching' => ~watching
      /\ UNCHANGED <<saves, notices>> \/ (saves > 0 /\ notices' = notices + 1)
  BY DEF Subscribe, Unsubscribe, Notify, WatchInv, WatchTypes
<1>3. WatchTypes'
  BY <1>1, <1>2 DEF WatchInv, WatchTypes
<1>4. notices \in Nat
  BY DEF WatchInv, WatchTypes
<1>5. Unwatched' /\ Mended'
  BY <1>1, <1>2, <1>4 DEF WatchInv, Unwatched, Mended
<1>6. Sources' /\ ViewTrue'
  BY <1>1 DEF WatchInv, Sources, ViewTrue, Sound, DeclaredIn
<1> QED
  BY <1>3, <1>5, <1>6 DEF WatchInv

\* A changed file makes every snapshot an older one, and is noticed if watched.
LEMMA EditStep ==
  ASSUME WatchInv, NEW f \in Files, Edit(f)
  PROVE  WatchInv'
<1>1. /\ UNCHANGED <<registered, hints, watching, notices, deltas, lost, view, told, newest>>
      /\ edits' = edits + 1 /\ edits \in Nat /\ saves \in Nat
      /\ saves' = IF watching THEN saves + 1 ELSE saves
  BY DEF Edit, brain, WatchInv, WatchTypes
<1>2. declares' \in [Files -> SUBSET Names]
  BY DEF Edit, WatchInv, WatchTypes
<1>3. WatchTypes' /\ Unwatched'
  BY <1>1, <1>2 DEF WatchInv, WatchTypes, Unwatched
<1>4. /\ told.edits <= newest /\ newest <= edits
      /\ told.edits \in Int /\ newest \in Int
  BY DEF WatchInv, Sources, WatchTypes, Unread
<1>5. ViewTrue'
  BY <1>1, <1>4 DEF WatchInv, ViewTrue
<1>6. Mended'
  BY <1>1 DEF WatchInv, Unwatched, Mended
<1>7. ASSUME NEW i \in 1..Len(deltas)
      PROVE  Sound(deltas[i])'
  <2>1. deltas[i] \in Snapshots
    BY ElementOfSeq DEF WatchInv, WatchTypes
  <2>2. deltas[i].edits \in Nat
    BY <2>1 DEF Snapshots
  <2>3. Sound(deltas[i])
    BY DEF WatchInv, Sources
  <2> QED
    BY <1>1, <2>2, <2>3 DEF Sound
<1>8. Sources'
  BY <1>1, <1>4, <1>7 DEF Sources
<1> QED
  BY <1>3, <1>5, <1>6, <1>8 DEF WatchInv

LEMMA ImportStep ==
  ASSUME WatchInv, NEW n \in Names, Import(n)
  PROVE  WatchInv'
<1>1. /\ UNCHANGED <<declares, hints, watching, saves, notices, deltas, lost, view, edits, told, newest>>
      /\ registered' = registered \union {n}
  BY DEF Import, brain
<1>2. WatchTypes' /\ Unwatched' /\ Mended'
  BY <1>1 DEF WatchInv, WatchTypes, Unwatched, Mended
<1>3. ViewTrue'
  BY <1>1 DEF WatchInv, ViewTrue, DeclaredIn
<1>4. Sources'
  BY <1>1 DEF WatchInv, Sources, Sound, DeclaredIn
<1> QED
  BY <1>2, <1>3, <1>4 DEF WatchInv

\* A new snapshot goes behind the others, or is lost and remembered as such.
LEMMA RediscoverStep ==
  ASSUME WatchInv, Rediscover
  PROVE  WatchInv'
<1>1. /\ UNCHANGED <<registered, declares, hints, watching, saves, view, edits, told, newest>>
      /\ notices > 0 /\ notices' = notices - 1
      /\ \/ deltas' = deltas /\ lost' = edits
         \/ deltas' = Append(deltas, Snapshot) /\ lost' = lost
  BY DEF Rediscover, sources, brain
<1>2. /\ deltas \in Seq(Snapshots) /\ Snapshot \in Snapshots /\ Sound(Snapshot)
      /\ Snapshot.edits = edits /\ edits \in Nat
  BY SnapshotSound DEF WatchInv, WatchTypes
<1>3. deltas' \in Seq(Snapshots) /\ lost' \in Nat \union {Unread}
  <2>1. deltas' \in Seq(Snapshots)
    BY <1>1, <1>2, AppendProperties
  <2>2. lost \in Nat \union {Unread}
    BY DEF WatchInv, WatchTypes
  <2> QED
    BY <1>1, <1>2, <2>1, <2>2
<1>4. WatchTypes'
  BY <1>1, <1>3 DEF WatchInv, WatchTypes
<1>5. watching
  BY <1>1 DEF WatchInv, Unwatched
<1>6. Unwatched'
  BY <1>1, <1>5 DEF Unwatched
<1>7. ViewTrue'
  BY <1>1 DEF WatchInv, ViewTrue, DeclaredIn
<1>8. ASSUME NEW i \in 1..Len(deltas'), Sound(deltas'[i])
      PROVE  Sound(deltas[i])'
  <2>1. \A n : DeclaredIn(n)' = DeclaredIn(n)
    BY <1>1 DEF DeclaredIn
  <2> QED
    BY <1>1, <1>8, <2>1 DEF Sound
<1>9. Sources' /\ Mended'
  <2>1. CASE deltas' = deltas /\ lost' = edits
    <3>1. Sources'
      BY <1>1, <1>8, <2>1 DEF WatchInv, Sources
    <3>2. ~ (lost' < edits')
      BY <1>1, <1>2, <2>1
    <3> QED
      BY <3>1, <3>2 DEF Mended
  <2>2. CASE deltas' = Append(deltas, Snapshot) /\ lost' = lost
    <3>1. /\ Len(deltas') = Len(deltas) + 1 /\ Len(deltas) \in Nat
          /\ \A i \in 1..Len(deltas) : deltas'[i] = deltas[i]
          /\ deltas'[Len(deltas) + 1] = Snapshot
      BY <1>2, <2>2, AppendProperties, LenProperties
    <3>2. \A i \in 1..Len(deltas') : i \in 1..Len(deltas) \/ deltas'[i] = Snapshot
      BY <3>1
    <3>3. \A i \in 1..Len(deltas') : Sound(deltas'[i])
      BY <1>2, <3>1, <3>2 DEF WatchInv, Sources
    <3>4. Sources'
      BY <1>1, <1>8, <3>3 DEF WatchInv, Sources
    <3>5. deltas'[Len(deltas')].edits = edits'
      BY <1>1, <1>2, <3>1
    <3>6. deltas' # <<>>
      BY <1>3, <3>1, EmptySeq
    <3> QED
      BY <3>4, <3>5, <3>6 DEF Mended
  <2> QED
    BY <1>1, <2>1, <2>2
<1> QED
  BY <1>4, <1>6, <1>7, <1>9 DEF WatchInv

\* The brain is told the oldest queued snapshot; when it is the last one too, no
\* newer account was told.
LEMMA ConsumeStep ==
  ASSUME WatchInv, Consume
  PROVE  WatchInv'
<1>1. /\ UNCHANGED <<registered, declares, hints, watching, saves, notices, lost, edits>>
      /\ deltas # <<>> /\ deltas' = Tail(deltas) /\ Tell(Head(deltas))
  BY DEF Consume, sources
<1>2. deltas \in Seq(Snapshots)
  BY DEF WatchInv, WatchTypes
<1>3. /\ deltas' \in Seq(Snapshots) /\ Head(deltas) = deltas[1] /\ deltas[1] \in Snapshots
      /\ Len(deltas) \in Nat \ {0} /\ Len(deltas') = Len(deltas) - 1
      /\ \A i \in 1..Len(deltas') : deltas'[i] = deltas[i + 1]
  BY <1>1, <1>2, HeadTailProperties, EmptySeq, ElementOfSeq
<1>4. Sound(deltas[1]) /\ told.edits <= newest /\ newest <= edits
  BY <1>3 DEF WatchInv, Sources
<1>5. deltas[1] \in Accounts /\ deltas[1].edits # Unread /\ deltas[1].edits \in Nat
  BY <1>3 DEF Accounts, Snapshots, Unread
<1>6. /\ view' \in [Names -> Entries]
      /\ told' \in [edits : Nat \union {Unread}, registered : SUBSET Names]
      /\ newest' \in Nat \union {Unread}
      /\ told'.edits = deltas[1].edits /\ told'.edits <= newest' /\ newest' <= edits'
      /\ deltas[1].edits = edits => newest' = edits
      /\ ViewTrue'
  <2>1. Tell(deltas[1])
    BY <1>1, <1>3
  <2>2. WatchTypes /\ ViewTrue
    BY DEF WatchInv
  <2> QED
    BY <1>1, <1>4, <1>5, <2>1, <2>2, TellStep
<1>7. WatchTypes'
  BY <1>1, <1>3, <1>6 DEF WatchInv, WatchTypes
<1>8. watching /\ watching'
  BY <1>1 DEF WatchInv, Unwatched
<1>9. ASSUME NEW i \in 1..Len(deltas')
      PROVE  Sound(deltas[i])'
  <2>1. \A n : DeclaredIn(n)' = DeclaredIn(n)
    BY <1>1 DEF DeclaredIn
  <2>2. i + 1 \in 1..Len(deltas) /\ deltas'[i] = deltas[i + 1]
    BY <1>3
  <2>3. Sound(deltas'[i])
    BY <2>2 DEF WatchInv, Sources
  <2> QED
    BY <1>1, <2>1, <2>3 DEF Sound
<1>10. Sources'
  BY <1>6, <1>9 DEF Sources
<1>11. Mended'
  <2> SUFFICES ASSUME saves' = 0, notices' = 0, lost' < edits'
               PROVE  IF deltas' = <<>> THEN told'.edits = newest'
                      ELSE deltas'[Len(deltas')].edits = edits'
    BY DEF Mended
  <2>1. deltas[Len(deltas)].edits = edits
    BY <1>1 DEF WatchInv, Mended
  <2>2. CASE deltas' = <<>>
    <3>1. Len(deltas) = 1
      BY <1>3, <2>2, EmptySeq
    <3> QED
      BY <1>6, <2>1, <2>2, <3>1
  <2>3. CASE deltas' # <<>>
    <3>1. Len(deltas') \in Nat /\ Len(deltas') # 0
      BY <1>3, <2>3, EmptySeq, LenProperties
    <3>2. deltas'[Len(deltas')] = deltas[Len(deltas)]
      BY <1>3, <3>1
    <3> QED
      BY <1>1, <2>1, <2>3, <3>2
  <2> QED
    BY <2>2, <2>3
<1> QED
  BY <1>6, <1>7, <1>8, <1>10, <1>11 DEF WatchInv, Unwatched

LEMMA WatchInductive == WatchSpec => []WatchInv
<1>1. WatchInit => WatchInv
  BY WatchInitially
<1>2. WatchInv /\ [WatchNext]_watchVars => WatchInv'
  <2> SUFFICES ASSUME WatchInv, [WatchNext]_watchVars
               PROVE  WatchInv'
    OBVIOUS
  <2>1. CASE UNCHANGED watchVars
    <3> USE <2>1 DEF watchVars, WatchInv
    <3>1. WatchTypes' /\ Unwatched' /\ Mended'
      BY DEF WatchTypes, Unwatched, Mended
    <3>2. Sources'
      BY DEF Sources, Sound, DeclaredIn
    <3>3. ViewTrue'
      BY DEF ViewTrue, DeclaredIn
    <3> QED
      BY <3>1, <3>2, <3>3
  <2>2. CASE Discover \/ Subscribe \/ Unsubscribe \/ Notify
    BY <2>2, DiscoverStep, QuietStep
  <2>3. CASE \E f \in Files : Edit(f)
    BY <2>3, EditStep
  <2>4. CASE \E n \in Names : Import(n)
    BY <2>4, ImportStep
  <2>5. CASE Rediscover
    BY <2>5, RediscoverStep
  <2>6. CASE Consume
    BY <2>6, ConsumeStep
  <2> QED
    BY <2>1, <2>2, <2>3, <2>4, <2>5, <2>6 DEF WatchNext
<1> QED
  BY <1>1, <1>2, PTL DEF WatchSpec
-----------------------------------------------------------------------------
\* However often the agent asks again, and however long deltas wait: of each
\* task that a file declares the brain's view is the one of the snapshot it was
\* told last, the running application's entry first, for any tasks, any files
\* and any capacity of the queue (merger.py; engine.py: discover_tasks).
THEOREM ViewTold == WatchSpec => []ViewIsLastSnapshot
<1>1. WatchInv => ViewIsLastSnapshot
  BY DEF WatchInv, ViewTrue, ViewIsLastSnapshot
<1> QED
  BY <1>1, WatchInductive, PTL

\* Whenever a delta that waited has taken the view back behind a newer
\* discovery, an account of the files at least as new is on its way, or was
\* lost (engine.py: _on_tasks_file_changed).
THEOREM StepBackMended == WatchSpec => []StepBackIsMended
<1>1. ASSUME WatchInv
      PROVE  StepBackIsMended
  <2> SUFFICES ASSUME told.edits < newest, saves = 0, notices = 0, ~ (lost >= newest)
               PROVE  \E i \in 1..Len(deltas) : deltas[i].edits >= newest
    <3>1. saves \in Nat /\ notices \in Nat
      BY <1>1 DEF WatchInv, WatchTypes
    <3> QED
      BY <3>1 DEF StepBackIsMended
  <2>1. /\ newest \in Int /\ edits \in Int /\ lost \in Int /\ told.edits \in Int
        /\ newest <= edits /\ deltas \in Seq(Snapshots)
    BY <1>1 DEF WatchInv, WatchTypes, Sources, Unread
  <2>2. lost < edits
    BY <2>1
  <2>3. deltas # <<>> /\ deltas[Len(deltas)].edits = edits
    BY <1>1, <2>1, <2>2 DEF WatchInv, Mended
  <2>4. Len(deltas) \in 1..Len(deltas)
    BY <2>1, <2>3, EmptySeq, LenProperties
  <2> QED
    BY <2>1, <2>3, <2>4
<1> QED
  BY <1>1, WatchInductive, PTL
-----------------------------------------------------------------------------
(***************************************************************************)
(* The agent's life in a worker process.                                   *)
(***************************************************************************)
\* No agent is there before the pool's first children, and none while another
\* one runs.
OneAtATime == /\ phase = "booting" => installed = 0
              /\ OneAgent

\* What waits for a reply is never a connection that a child would clean up.
CleanForks == /\ brpop \subseteq {"own"}
              /\ \A k \in Children : child[k] # "wedged"

WorkerInv == WorkerTypeOK /\ OneAtATime /\ CleanForks

LEMMA WorkerInitially ==
  ASSUME WorkerInit
  PROVE  WorkerInv
<1> USE DEF WorkerInit
<1>1. /\ installed \in 0..MaxAgents /\ runtime \in 0..installed /\ live \subseteq 1..installed
      /\ forked \in 0..MaxChildren
  BY LifecycleAssumption
<1>2. WorkerTypeOK
  BY <1>1 DEF WorkerTypeOK
<1> QED
  BY <1>2 DEF WorkerInv, OneAtATime, OneAgent, CleanForks

LEMMA BootStep ==
  ASSUME WorkerInv, Boot
  PROVE  WorkerInv'
<1> USE DEF WorkerInv, Boot, agent, waiting, WorkerTypeOK, OneAtATime, CleanForks
<1>1. Born = "cleanup"
  BY DEF Born
<1>2. forked' \in 0..MaxChildren
  BY LifecycleAssumption
<1>3. WorkerTypeOK' /\ CleanForks'
  BY <1>1, <1>2
<1>4. runtime = 0 /\ live = {}
  OBVIOUS
<1>5. OneAtATime'
  BY <1>4 DEF OneAgent
<1> QED
  BY <1>3, <1>5

\* An agent starts only where none runs.
LEMMA ReadyStep ==
  ASSUME WorkerInv, Ready
  PROVE  WorkerInv'
<1> USE DEF WorkerInv, Ready, process, waiting, pool
<1>1. WorkerTypeOK'
  <2>1. installed' \in 0..MaxAgents /\ runtime' \in 0..installed'
    BY LifecycleAssumption DEF WorkerTypeOK
  <2>2. live' \subseteq 1..installed'
    BY LifecycleAssumption DEF WorkerTypeOK
  <2> QED
    BY <2>1, <2>2 DEF WorkerTypeOK
<1>2. OneAtATime'
  BY DEF OneAtATime, OneAgent, Wanted, WorkerTypeOK
<1>3. CleanForks'
  BY DEF CleanForks
<1> QED
  BY <1>1, <1>2, <1>3

LEMMA ShutdownStep ==
  ASSUME WorkerInv, Shutdown
  PROVE  WorkerInv'
<1> USE DEF WorkerInv, Shutdown, waiting, pool
<1>1. WorkerTypeOK'
  <2>1. live' \subseteq live
    OBVIOUS
  <2>2. runtime' = 0 /\ installed' = installed
    OBVIOUS
  <2>3. installed \in Nat /\ live \subseteq 1..installed
    BY LifecycleAssumption DEF WorkerTypeOK
  <2>4. brpop' \subseteq {"own", "pool"} /\ refresh' \in {"idle", "waiting", "hung"}
    BY DEF WorkerTypeOK
  <2> QED
    BY <2>1, <2>2, <2>3, <2>4 DEF WorkerTypeOK
<1>2. OneAtATime'
  BY DEF OneAtATime, OneAgent
<1>3. CleanForks'
  BY DEF CleanForks
<1> QED
  BY <1>1, <1>2, <1>3

LEMMA WaitStep ==
  ASSUME WorkerInv, Ask \/ Reply \/ GiveUp
  PROVE  WorkerInv'
<1> USE DEF WorkerInv, Ask, Reply, GiveUp, ReplyConnection, process, agent, pool
<1>1. WorkerTypeOK'
  BY DEF WorkerTypeOK
<1>2. OneAtATime'
  BY DEF OneAtATime, OneAgent
<1>3. CleanForks'
  BY DEF CleanForks
<1> QED
  BY <1>1, <1>2, <1>3

\* A replacement is forked beside the agent's threads, and comes up clean.
LEMMA ChildStep ==
  ASSUME WorkerInv, NEW k \in Children, Up(k) \/ Recycle(k)
  PROVE  WorkerInv'
<1> USE DEF WorkerInv, Up, Recycle, process, agent, waiting
<1>1. Born = "cleanup"
  BY DEF Born, CleanForks
<1>2. WorkerTypeOK'
  <2>1. forked' \in 0..MaxChildren
    BY LifecycleAssumption DEF WorkerTypeOK
  <2>2. child' \in [Children -> {"unborn", "cleanup", "wedged", "up", "dead"}]
    BY <1>1 DEF WorkerTypeOK
  <2> QED
    BY <2>1, <2>2 DEF WorkerTypeOK
<1>3. OneAtATime'
  BY DEF OneAtATime, OneAgent
<1>4. CleanForks'
  BY <1>1 DEF CleanForks, WorkerTypeOK
<1> QED
  BY <1>2, <1>3, <1>4

LEMMA WorkerInductive == WorkerSpec => []WorkerInv
<1>1. WorkerInit => WorkerInv
  BY WorkerInitially
<1>2. WorkerInv /\ [WorkerNext]_workerVars => WorkerInv'
  <2> SUFFICES ASSUME WorkerInv, [WorkerNext]_workerVars
               PROVE  WorkerInv'
    OBVIOUS
  <2>1. CASE UNCHANGED workerVars
    BY <2>1 DEF workerVars, WorkerInv, WorkerTypeOK, OneAtATime, OneAgent, CleanForks
  <2>2. CASE Register
    BY <2>2 DEF Register, agent, waiting, pool, WorkerInv, WorkerTypeOK, OneAtATime, OneAgent, CleanForks
  <2> QED
    BY <2>1, <2>2, BootStep, ReadyStep, ShutdownStep, WaitStep, ChildStep DEF WorkerNext
<1> QED
  BY <1>1, <1>2, PTL DEF WorkerSpec
-----------------------------------------------------------------------------
\* Every variable of the worker's life keeps its type, for any command lines,
\* settings, pool and number of restarts.
THEOREM WorkerTyping == WorkerSpec => []WorkerTypeOK
<1>1. WorkerInv => WorkerTypeOK
  BY DEF WorkerInv
<1> QED
  BY <1>1, WorkerInductive, PTL

\* However often worker_ready fires, the agent that runs is the one that
\* worker_shutdown will stop.
THEOREM SingleAgent == WorkerSpec => []OneAgent
<1>1. WorkerInv => OneAgent
  BY DEF WorkerInv, OneAtATime
<1> QED
  BY <1>1, WorkerInductive, PTL

\* Whatever the agent waits for at the moment of a fork, no child finds a
\* connection it would read on for ever.
THEOREM NeverWedged == WorkerSpec => [](\A k \in Children : child[k] # "wedged")
<1>1. WorkerInv => \A k \in Children : child[k] # "wedged"
  BY DEF WorkerInv, CleanForks
<1> QED
  BY <1>1, WorkerInductive, PTL
-----------------------------------------------------------------------------
\* The walk is a function: there is one for the last k indices, whatever k is.
LEMMA WalkDefined ==
  ASSUME NEW rest \in Seq(STRING)
  PROVE  Walk(rest) = [i \in 1..(Len(rest) + 2) |->
                         IF i <= Len(rest) /\ rest[i] \in Dashed
                         THEN Walk(rest)[Behind(rest, i)] ELSE i]
<1> DEFINE n == Len(rest)
           On(f, i) == IF i <= n /\ rest[i] \in Dashed THEN f[Behind(rest, i)] ELSE i
           Walks(f, k) == f = [i \in (n + 2 - k)..(n + 2) |-> On(f, i)]
           Stuck == {k \in 0..(n + 1) : \A f : ~ Walks(f, k)}
<1>1. n \in Nat
  BY LenProperties
<1>2. \A i \in 1..n : Behind(rest, i) \in {i + 1, i + 2}
  BY <1>1 DEF Behind
<1>3. SUFFICES \E f : Walks(f, n + 1)
  <2>1. n + 2 - (n + 1) = 1
    BY <1>1
  <2>2. Walk(rest) = CHOOSE f : f = [i \in 1..(n + 2) |-> On(f, i)]
    BY DEF Walk
  <2>3. SUFFICES ASSUME \E f : Walks(f, n + 1)
                 PROVE  Walk(rest) = [i \in 1..(n + 2) |-> On(Walk(rest), i)]
    OBVIOUS
  <2>4. \E f : f = [i \in 1..(n + 2) |-> On(f, i)]
    BY <2>1, <2>3
  <2> HIDE DEF On
  <2> QED
    BY <2>2, <2>4
<1>4. Stuck = {}
  <2>1. SUFFICES ASSUME Stuck # {}
                 PROVE  FALSE
    OBVIOUS
  <2>2. Stuck \subseteq Nat
    BY <1>1
  <2>3. PICK k \in Stuck : \A j \in Stuck : k <= j
    <3> HIDE DEF Stuck
    <3> QED
      BY <2>1, <2>2, LeastNatural
  <2>4. k \in 0..(n + 1) /\ \A f : ~ Walks(f, k)
    BY <2>3
  <2>5. k # 0
    <3> DEFINE f == [i \in (n + 2 - 0)..(n + 2) |-> i]
    <3>1. \A i \in (n + 2 - 0)..(n + 2) : On(f, i) = i
      BY <1>1
    <3>2. f = [i \in (n + 2 - 0)..(n + 2) |-> On(f, i)]
      BY <3>1
    <3> QED
      BY <2>4, <3>2
  <2>6. k - 1 \in 0..(n + 1) /\ k - 1 \notin Stuck
    <3> HIDE DEF Stuck
    <3>1. k \in Nat /\ k - 1 \in 0..(n + 1)
      BY <1>1, <2>4, <2>5
    <3>2. k - 1 \notin Stuck
      BY <2>3, <3>1
    <3> QED
      BY <3>1, <3>2
  <2>7. PICK f : Walks(f, k - 1)
    BY <2>6
  <2> DEFINE a == n + 2 - k
             g == [i \in a..(n + 2) |-> IF i = a THEN On(f, a) ELSE f[i]]
  <2>8. a \in Nat /\ a >= 1 /\ a <= n + 1 /\ n + 2 - (k - 1) = a + 1
    <3>1. k \in Nat /\ k >= 1 /\ k <= n + 1
      BY <1>1, <2>4, <2>5
    <3> HIDE DEF n, Stuck
    <3> QED
      BY <1>1, <3>1
  <2>9. f = [i \in (a + 1)..(n + 2) |-> On(f, i)]
    BY <2>7, <2>8
  <2>10. \A i \in (a + 1)..(n + 2) : f[i] = On(f, i) /\ g[i] = f[i]
    <3> HIDE DEF On
    <3>1. \A i \in (a + 1)..(n + 2) : f[i] = On(f, i)
      BY <2>9
    <3>2. \A i \in (a + 1)..(n + 2) : i \in a..(n + 2) /\ i # a
      BY <1>1, <2>8
    <3> QED
      BY <3>1, <3>2
  <2>11. ASSUME NEW i \in a..(n + 2)
         PROVE  On(g, i) = On(f, i)
    <3>1. i \in Nat /\ i >= 1
      BY <2>8
    <3>2. CASE i <= n /\ rest[i] \in Dashed
      <4>1. Behind(rest, i) \in (a + 1)..(n + 2)
        <5>1. Behind(rest, i) \in {i + 1, i + 2} /\ i >= a
          BY <1>1, <1>2, <2>8, <3>1, <3>2
        <5> HIDE DEF a, n
        <5> QED
          BY <1>1, <2>8, <3>1, <3>2, <5>1
      <4>2. g[Behind(rest, i)] = f[Behind(rest, i)]
        BY <2>10, <4>1
      <4> QED
        BY <3>2, <4>2
    <3>3. CASE ~ (i <= n /\ rest[i] \in Dashed)
      BY <3>3
    <3> QED
      BY <3>2, <3>3
  <2>12. \A i \in a..(n + 2) : g[i] = On(g, i)
    <3> HIDE DEF On
    <3>1. \A i \in a..(n + 2) : i = a \/ i \in (a + 1)..(n + 2)
      BY <1>1, <2>8
    <3>2. g[a] = On(f, a) /\ a \in a..(n + 2)
      BY <1>1, <2>8
    <3> HIDE DEF g
    <3> QED
      BY <2>10, <2>11, <3>1, <3>2
  <2>13. g = [i \in a..(n + 2) |-> On(g, i)]
    <3>1. g = [i \in a..(n + 2) |-> g[i]]
      OBVIOUS
    <3> HIDE DEF On, g
    <3> QED
      BY <2>12, <3>1
  <2>14. Walks(g, k)
    BY <2>13
  <2> HIDE DEF Walks
  <2> QED
    BY <2>4, <2>14
<1>5. n + 1 \in 0..(n + 1)
  BY <1>1
<1> HIDE DEF Walks
<1> QED
  BY <1>4, <1>5

\* Behind whole options, the walk ends at the command.
LEMMA WalkEnds ==
  ASSUME NEW options \in Seq(STRING), NEW command \in Seq(STRING), Options(options),
         command # <<>>, command[1] \notin Dashed
  PROVE  HasWorkerSubcommand(options \o command) <=> command[1] = "worker"
<1> DEFINE rest == options \o command
           n == Len(options)
<1>1. /\ rest \in Seq(STRING) /\ n \in Nat /\ Len(command) \in Nat \ {0} /\ Len(rest) = n + Len(command)
      /\ \A i \in 1..n : rest[i] = options[i]
      /\ rest[n + 1] = command[1]
  <2>1. /\ rest \in Seq(STRING) /\ Len(rest) = n + Len(command)
        /\ \A i \in 1..Len(rest) : rest[i] = IF i <= n THEN options[i] ELSE command[i - n]
    BY ConcatProperties
  <2>2. n \in Nat /\ Len(command) \in Nat \ {0}
    BY LenProperties, EmptySeq
  <2> QED
    BY <2>1, <2>2
<1> DEFINE walk == Walk(rest)
<1>2. \A i \in 1..(Len(rest) + 2) :
         walk[i] = IF i <= Len(rest) /\ rest[i] \in Dashed THEN walk[Behind(rest, i)] ELSE i
  BY <1>1, WalkDefined
<1> HIDE DEF rest, walk
<1>3. PICK heads \in SUBSET (1..(n + 1)) :
        /\ {1, n + 1} \subseteq heads
        /\ \A i \in heads \ {n + 1} : options[i] \in Dashed /\ Behind(options, i) \in heads
  BY DEF Options
<1> DEFINE Astray == {k \in Nat : \E i \in heads : k = n + 1 - i /\ walk[i] # n + 1}
<1>4. Astray = {}
  <2>1. SUFFICES ASSUME Astray # {}
                 PROVE  FALSE
    OBVIOUS
  <2>2. PICK k \in Astray : \A j \in Astray : k <= j
    <3>1. Astray \subseteq Nat
      OBVIOUS
    <3> HIDE DEF Astray
    <3> QED
      BY <2>1, <3>1, LeastNatural
  <2>3. PICK i \in heads : k = n + 1 - i /\ walk[i] # n + 1
    BY <2>2
  <2>4. i \in 1..(n + 1) /\ i \in 1..(Len(rest) + 2) /\ i <= Len(rest)
    BY <1>1
  <2>5. i # n + 1
    BY <1>1, <1>2, <2>3, <2>4
  <2>6. rest[i] = options[i] /\ options[i] \in Dashed /\ Behind(options, i) \in heads
    BY <1>1, <1>3, <2>4, <2>5
  <2>7. Behind(rest, i) = Behind(options, i) /\ Behind(rest, i) > i
    BY <2>4, <2>6 DEF Behind
  <2>8. walk[i] = walk[Behind(options, i)]
    BY <1>2, <2>4, <2>6, <2>7
  <2> DEFINE j == Behind(options, i)
  <2> HIDE DEF j
  <2>9. j \in heads /\ j \in 1..(n + 1) /\ j > i /\ walk[j] # n + 1
    BY <2>3, <2>6, <2>7, <2>8 DEF j
  <2>10. n + 1 - j \in Astray /\ n + 1 - j < k
    BY <1>1, <2>3, <2>4, <2>9
  <2> HIDE DEF Astray
  <2>11. \A x \in Astray : k <= x
    BY <2>2
  <2> QED
    BY <1>1, <2>3, <2>4, <2>9, <2>10, <2>11
<1>5. walk[1] = n + 1
  <2>1. 1 \in heads /\ n + 1 - 1 \in Nat
    BY <1>1, <1>3
  <2> QED
    BY <1>4, <2>1
<1> QED
  BY <1>1, <1>5 DEF HasWorkerSubcommand, rest, walk

\* The program's name alone decides how the rest of argv is read: behind
\* celery's script stands the command line, and no other program that imports the
\* package is looked behind at all.
LEMMA ProgramDecides ==
  ASSUME NEW p \in STRING \ {"python", "uvx", "uv"}, NEW rest \in Seq(STRING)
  PROVE  IsCeleryWorkerInvocation(<<p>> \o rest) <=> p = "celery" /\ HasWorkerSubcommand(rest)
<1> DEFINE a == <<p>> \o rest
<1>1. /\ <<p>> \in Seq(STRING) /\ Len(<<p>>) = 1 /\ <<p>>[1] = p
      /\ Len(rest) \in Nat
  BY LenProperties
<1>2. /\ a \in Seq(STRING) /\ Len(a) = 1 + Len(rest)
      /\ \A i \in 1..Len(a) : a[i] = IF i <= 1 THEN p ELSE rest[i - 1]
  BY <1>1, ConcatProperties
<1>3. a # <<>> /\ a[1] = p
  BY <1>1, <1>2, EmptySeq
<1>4. From(a, 2) = rest
  <2> DEFINE t == SubSeq(a, 2, Len(a))
  <2>1. t \in Seq(STRING) /\ Len(t) = Len(rest) /\ \A i \in 1..Len(rest) : t[i] = a[1 + i]
    BY <1>1, <1>2, SubSeqProperties
  <2>2. \A i \in 1..Len(rest) : t[i] = rest[i]
    BY <1>1, <1>2, <2>1
  <2> HIDE DEF t
  <2>3. t = rest
    BY <2>1, <2>2, SeqEqual
  <2> QED
    BY <2>3 DEF From, t
<1>5. ~ RunsModule(a, 1)
  BY <1>3 DEF RunsModule
<1> HIDE DEF a
<1>6. IsCeleryWorkerInvocation(a) <=> p = "celery" /\ HasWorkerSubcommand(rest)
  BY <1>3, <1>4, <1>5 DEF IsCeleryWorkerInvocation
<1> QED
  BY <1>6 DEF a

\* For command lines of any length: no process but a worker is taken for one,
\* and a worker that runs celery's script always is, whatever the values of its
\* options are called (worker_bootstrap.py: _is_celery_worker_invocation).
THEOREM WorkersTold == WorkerSpec => []CommandRecognised
<1>1. ASSUME WorkerInv
      PROVE  CommandRecognised
  <2> DEFINE p == invocation.program
             o == invocation.options
             c == invocation.command
  <2>1. /\ p \in STRING \ {"python", "uvx", "uv"} /\ o \in Seq(STRING) /\ c \in Seq(STRING)
        /\ Options(o) /\ c # <<>> /\ c[1] \notin Dashed
    BY <1>1, InvocationAssumption DEF WorkerInv, WorkerTypeOK
  <2> HIDE DEF p, o, c
  <2>2. <<p>> \o o \o c = <<p>> \o (o \o c) /\ o \o c \in Seq(STRING)
    <3>1. <<p>> \in Seq(STRING)
      BY <2>1
    <3> QED
      BY <2>1, <3>1, ConcatAssociative, ConcatProperties
  <2>3. HasWorkerSubcommand(o \o c) <=> c[1] = "worker"
    BY <2>1, WalkEnds
  <2>4. IsCeleryWorkerInvocation(<<p>> \o o \o c) <=> p = "celery" /\ c[1] = "worker"
    BY <2>1, <2>2, <2>3, ProgramDecides
  <2> QED
    BY <2>4 DEF CommandRecognised, argv, IsWorker, p, o, c
<1> QED
  BY <1>1, WorkerInductive, PTL
-----------------------------------------------------------------------------
(***************************************************************************)
(* The receiver of broker events.                                          *)
(***************************************************************************)
Places == {<<>>} \union (Messages \X Nat)

MonitorTypes == /\ MonitorTypeOK
                /\ msg \in [Monitors -> Places]
                /\ sunk \in [Monitors -> [Messages -> Seq(Nat)]]
                /\ again \in [Monitors -> SUBSET Messages]
                /\ acked \in [Monitors -> SUBSET Messages]

Alive(g) == thread[g] \notin {"none", "exited"}

\* A receiver that was not told to stop is the one the adapter holds or one
\* it replaced, and stop() tells its own before it waits.
Ownership == /\ joining => stopping[current]
             /\ \A g \in Monitors : g > made => thread[g] = "none"
             /\ \A g \in Monitors : Alive(g) /\ ~ stopping[g] => g \in {current} \union replaced

\* Who was told to stop and no longer waits took one message at most since.
LastMessage(g) == late[g] = 0 \/ (late[g] = 1 /\ stopping[g] /\ thread[g] # "waiting")

\* What a receiver has, and what it handed over, was published.
Known(g) == /\ \A i \in 1..Len(inbox[g]) : inbox[g][i] \in published
            /\ thread[g] = "dispatching" => msg[g][1] \in published
            /\ unacked[g] \subseteq published
            /\ \A m \in Messages : sunk[g][m] # <<>> => m \in published

\* The sink never gets an event it should not, and has those before the next.
SoFar(g) ==
  /\ \A m \in Messages : Elements(sunk[g][m]) \subseteq ToSink(m)
  /\ thread[g] = "dispatching" =>
       \A j \in 1..(msg[g][2] - 1) :
         /\ Body[msg[g][1]][j] # "poison"
         /\ j \in ToSink(msg[g][1]) => j \in Elements(sunk[g][msg[g][1]])

\* A message that left the callback was dispatched as far as it can be.
Whole(g) == \A m \in acked[g] \union unacked[g] : Elements(sunk[g][m]) = ToSink(m)

\* What was not delivered again is in hand once, and new to the sink until it
\* is dispatched.
FirstTime(g) ==
  /\ \A m \in Messages \ again[g] :
       /\ Ascending(sunk[g][m])
       /\ (thread[g] = "dispatching" /\ msg[g][1] = m)
            => \A k \in Elements(sunk[g][m]) : k < msg[g][2]
  /\ \A i \in 1..Len(inbox[g]) : inbox[g][i] \notin again[g] =>
       /\ sunk[g][inbox[g][i]] = <<>>
       /\ thread[g] = "dispatching" => msg[g][1] # inbox[g][i]
       /\ \A j \in 1..Len(inbox[g]) : inbox[g][j] = inbox[g][i] => j = i

Cut(g) == {c \in acked[g] : "poison" \in Elements(Body[c])}

PoisonCounted(g) == /\ IsFiniteSet(acked[g]) /\ IsFiniteSet(unacked[g])
                    /\ Cardinality(Cut(g)) <= poisoned[g]

Kept(g) == Known(g) /\ SoFar(g) /\ Whole(g) /\ FirstTime(g) /\ PoisonCounted(g)

MonitorInv == /\ MonitorTypes /\ Ownership
              /\ \A g \in Monitors : LastMessage(g) /\ Kept(g)
-----------------------------------------------------------------------------
LEMMA AppendedElements ==
  ASSUME NEW s \in Seq(Nat), NEW e \in Nat
  PROVE  /\ Append(s, e) \in Seq(Nat)
         /\ Elements(Append(s, e)) = Elements(s) \union {e}
<1>1. /\ Append(s, e) \in Seq(Nat) /\ Len(s) \in Nat
      /\ DOMAIN Append(s, e) = 1..(Len(s) + 1) /\ DOMAIN s = 1..Len(s)
      /\ \A i \in 1..Len(s) : Append(s, e)[i] = s[i]
      /\ Append(s, e)[Len(s) + 1] = e
  BY AppendProperties, LenProperties
<1>2. \A i \in 1..(Len(s) + 1) : i \in 1..Len(s) \/ i = Len(s) + 1
  BY <1>1
<1>3. Elements(Append(s, e)) \subseteq Elements(s) \union {e}
  BY <1>1, <1>2 DEF Elements
<1>4. Elements(s) \union {e} \subseteq Elements(Append(s, e))
  <2>1. 1..Len(s) \subseteq 1..(Len(s) + 1) /\ Len(s) + 1 \in 1..(Len(s) + 1)
    BY <1>1
  <2> QED
    BY <1>1, <2>1 DEF Elements
<1> QED
  BY <1>1, <1>3, <1>4

LEMMA AppendedAscending ==
  ASSUME NEW s \in Seq(Nat), NEW e \in Nat, Ascending(s), \A k \in Elements(s) : k < e
  PROVE  Ascending(Append(s, e))
<1>1. /\ DOMAIN Append(s, e) = 1..(Len(s) + 1) /\ DOMAIN s = 1..Len(s) /\ Len(s) \in Nat
      /\ \A i \in 1..Len(s) : Append(s, e)[i] = s[i] /\ s[i] < e
      /\ Append(s, e)[Len(s) + 1] = e
  BY AppendProperties, LenProperties DEF Elements
<1>2. \A i, j \in 1..Len(s) : i < j => s[i] < s[j]
  BY <1>1 DEF Ascending
<1>3. ASSUME NEW i \in 1..(Len(s) + 1), NEW j \in 1..(Len(s) + 1), i < j
      PROVE  Append(s, e)[i] < Append(s, e)[j]
  <2>1. i \in 1..Len(s)
    BY <1>1, <1>3
  <2>2. CASE j \in 1..Len(s)
    BY <1>1, <1>2, <1>3, <2>1, <2>2
  <2>3. CASE j = Len(s) + 1
    BY <1>1, <2>1, <2>3
  <2> QED
    BY <1>1, <2>2, <2>3
<1> QED
  BY <1>1, <1>3 DEF Ascending

LEMMA BodyType ==
  ASSUME NEW m \in Messages
  PROVE  Len(Body[m]) \in Nat /\ DOMAIN Body[m] = 1..Len(Body[m])
BY MonitorAssumption, LenProperties

\* What is true of a receiver stays true while nothing it is about changes.
LEMMA UntouchedKept ==
  ASSUME NEW g \in Monitors, Kept(g),
         inbox'[g] = inbox[g], msg'[g] = msg[g], unacked'[g] = unacked[g],
         sunk'[g] = sunk[g], again'[g] = again[g], acked'[g] = acked[g],
         poisoned'[g] = poisoned[g], published \subseteq published',
         thread'[g] = "dispatching" <=> thread[g] = "dispatching"
  PROVE  Kept(g)'
<1>1. Known(g)'
  BY DEF Kept, Known
<1>2. SoFar(g)' /\ Whole(g)'
  BY DEF Kept, SoFar, Whole
<1>3. FirstTime(g)'
  BY DEF Kept, FirstTime
<1>4. PoisonCounted(g)'
  BY DEF Kept, PoisonCounted, Cut
<1> QED
  BY <1>1, <1>2, <1>3, <1>4 DEF Kept

\* A receiver that moves on stays whose it was.
LEMMA MoveOwnership ==
  ASSUME MonitorTypes, Ownership, UNCHANGED owner, NEW g \in Monitors, Alive(g),
         NEW l, thread' = [thread EXCEPT ![g] = l]
  PROVE  Ownership'
<1>1. /\ UNCHANGED <<current, made, replaced, joining, stopping>>
      /\ \A h \in Monitors : thread'[h] = IF h = g THEN l ELSE thread[h]
  BY DEF owner, MonitorTypes, MonitorTypeOK
<1>2. ~ (g > made)
  BY DEF Ownership, Alive
<1>3. \A h \in Monitors : Alive(h)' => Alive(h)
  BY <1>1 DEF Alive
<1> QED
  BY <1>1, <1>2, <1>3 DEF Ownership

\* It took no message when it moves on by itself.
LEMMA MoveLast ==
  ASSUME MonitorTypes, UNCHANGED <<owner, late>>, NEW g \in Monitors, NEW l,
         thread' = [thread EXCEPT ![g] = l], l # "waiting" \/ ~ stopping[g],
         \A h \in Monitors : LastMessage(h)
  PROVE  \A h \in Monitors : LastMessage(h)'
<1>1. /\ stopping' = stopping /\ late' = late
      /\ \A h \in Monitors : thread'[h] = IF h = g THEN l ELSE thread[h]
  BY DEF owner, MonitorTypes, MonitorTypeOK
<1> QED
  BY <1>1 DEF LastMessage

LEMMA MonitorInitially ==
  ASSUME MonitorInit
  PROVE  MonitorInv
<1> USE DEF MonitorInit
<1>1. <<>> \in Seq(Messages) /\ <<>> \in Seq(Nat) /\ Len(<<>>) = 0
  BY EmptySeq
<1>2. MonitorTypes
  <2>1. current \in 0..made /\ made \in 0..MaxMonitors /\ faults \in 0..MaxFaults
    BY MonitorAssumption
  <2>2. MonitorTypeOK
    BY <1>1, <2>1 DEF MonitorTypeOK, Locations
  <2> QED
    BY <1>1, <2>2 DEF MonitorTypes, Places
<1>3. Ownership
  BY DEF Ownership, Alive
<1>4. ASSUME NEW g \in Monitors
      PROVE  LastMessage(g) /\ Kept(g)
  <2>0. LastMessage(g)
    BY DEF LastMessage
  <2>1. /\ inbox[g] = <<>> /\ thread[g] = "none" /\ unacked[g] = {} /\ acked[g] = {}
        /\ poisoned[g] = 0 /\ \A m \in Messages : sunk[g][m] = <<>>
    OBVIOUS
  <2>2. DOMAIN <<>> = {} /\ Elements(<<>>) = {}
    BY <1>1, LenProperties DEF Elements
  <2>3. Known(g) /\ SoFar(g) /\ Whole(g)
    BY <1>1, <2>1, <2>2 DEF Known, SoFar, Whole
  <2>4. FirstTime(g)
    BY <1>1, <2>1, <2>2 DEF FirstTime, Ascending
  <2>5. PoisonCounted(g)
    <3>1. Cut(g) = {}
      BY <2>1 DEF Cut
    <3> QED
      BY <2>1, <3>1, FS_EmptySet DEF PoisonCounted
  <2> QED
    BY <2>0, <2>3, <2>4, <2>5 DEF Kept
<1> QED
  BY <1>2, <1>3, <1>4 DEF MonitorInv

\* The adapter's steps leave what the receivers hold alone.
LEMMA OwnerStep ==
  ASSUME MonitorInv, Connect \/ Disconnect \/ JoinReturns
  PROVE  MonitorInv'
<1> USE DEF MonitorInv, Locations
<1>1. UNCHANGED <<published, inbox, msg, unacked, sunk, again, acked, late, poisoned, faults>>
  BY DEF Connect, Disconnect, JoinReturns, history
<1>2. \A g \in Monitors : thread'[g] = "dispatching" <=> thread[g] = "dispatching"
  <2>1. CASE thread' = thread
    BY <2>1
  <2>2. CASE Connect
    <3>1. thread' = [thread EXCEPT ![made + 1] = "outer"]
      BY <2>2 DEF Connect, Goto
    <3>2. DOMAIN thread = Monitors /\ made \in Nat
      BY MonitorAssumption DEF MonitorTypes, MonitorTypeOK
    <3>3. made + 1 \in Monitors => thread[made + 1] = "none"
      BY <3>2 DEF Ownership
    <3> QED
      BY <3>1, <3>2, <3>3
  <2> QED
    BY <2>1, <2>2 DEF Disconnect, JoinReturns
<1>3. \A g \in Monitors : Kept(g)'
  BY <1>1, <1>2, UntouchedKept
<1>4. CASE Connect
  <2> USE <1>4 DEF Connect, Goto
  <2>1. /\ made \in Nat /\ made + 1 \in Monitors /\ joining = FALSE
        /\ thread \in [Monitors -> Locations]
    BY MonitorAssumption DEF MonitorTypes, MonitorTypeOK, Monitors
  <2>2. \A g \in Monitors : g \in Nat /\ thread'[g] = IF g = made + 1 THEN "outer" ELSE thread[g]
    BY <2>1 DEF Monitors
  <2>3. /\ current' \in 0..made' /\ made' \in 0..MaxMonitors /\ joining' = FALSE
        /\ replaced' \subseteq 1..made'
    BY <2>1, MonitorAssumption DEF MonitorTypes, MonitorTypeOK
  <2>4. MonitorTypeOK'
    BY <1>1, <1>2, <2>1, <2>3 DEF MonitorTypes, MonitorTypeOK
  <2>5. Ownership'
    <3>1. \A g \in Monitors : Alive(g) /\ ~ stopping[g] => g \in {current} \union replaced
      BY DEF Ownership
    <3>2. \A g \in Monitors : Alive(g)' => g = made + 1 \/ Alive(g)
      BY <2>2 DEF Alive
    <3>4. current = 0 => 0 \notin Monitors
      BY DEF Monitors
    <3>5. \A g \in Monitors : Alive(g)' /\ ~ stopping'[g] => g \in {current'} \union replaced'
      BY <3>1, <3>2, <3>4
    <3>3. \A g \in Monitors : g > made' => thread'[g] = "none"
      BY <2>1, <2>2 DEF Ownership
    <3> QED
      BY <2>1, <3>3, <3>5 DEF Ownership
  <2>6. \A g \in Monitors : LastMessage(g)'
    BY <1>1, <2>2 DEF LastMessage
  <2> QED
    BY <1>1, <1>3, <2>4, <2>5, <2>6 DEF MonitorTypes
<1>5. CASE Disconnect
  <2> USE <1>5 DEF Disconnect
  <2>1. current \in Monitors /\ stopping \in [Monitors -> BOOLEAN]
    BY MonitorAssumption DEF MonitorTypes, MonitorTypeOK, Monitors
  <2>2. MonitorTypeOK'
    BY <1>1, <2>1 DEF MonitorTypes, MonitorTypeOK
  <2>3. Ownership'
    BY <2>1 DEF Ownership, Alive
  <2>4. \A g \in Monitors : LastMessage(g)'
    BY <1>1, <2>1 DEF LastMessage
  <2> QED
    BY <1>1, <1>3, <2>2, <2>3, <2>4 DEF MonitorTypes
<1>6. CASE JoinReturns
  <2> USE <1>6 DEF JoinReturns
  <2>0. current' \in 0..made' /\ joining' = FALSE
    BY MonitorAssumption DEF MonitorTypes, MonitorTypeOK
  <2>1. MonitorTypeOK'
    BY <1>1, <2>0 DEF MonitorTypes, MonitorTypeOK
  <2>2. Ownership'
    <3>1. current # 0 => stopping[current]
      BY DEF Ownership, MonitorTypes, MonitorTypeOK
    <3>2. \A g \in Monitors : Alive(g) /\ ~ stopping[g] => g \in replaced
      BY <3>1, MonitorAssumption DEF Ownership, Monitors
    <3> QED
      BY <3>2 DEF Ownership, Alive
  <2>3. \A g \in Monitors : LastMessage(g)'
    BY <1>1 DEF LastMessage
  <2> QED
    BY <1>1, <1>3, <2>1, <2>2, <2>3 DEF MonitorTypes
<1> QED
  BY <1>4, <1>5, <1>6

\* Loops, connects and waits move a receiver without a message in hand.
LEMMA LoopStep ==
  ASSUME MonitorInv, NEW g \in Monitors, Outer(g) \/ Open(g) \/ OpenFails(g) \/ Backoff(g) \/ Quiet(g)
  PROVE  MonitorInv'
<1> USE DEF MonitorInv, Locations
<1>1. /\ UNCHANGED <<owner, published, inbox, msg, unacked, sunk, again, acked, late, poisoned>>
      /\ Alive(g) /\ thread[g] # "dispatching"
  BY DEF Outer, Open, OpenFails, Backoff, Quiet, history, Alive
<1>2. PICK l \in {"outer", "connecting", "draining", "backoff", "exited"} : thread' = [thread EXCEPT ![g] = l]
  BY DEF Outer, Open, OpenFails, Backoff, Quiet, Goto, AfterError
<1>3. thread \in [Monitors -> Locations]
  BY DEF MonitorTypes, MonitorTypeOK
<1>4. \A h \in Monitors : thread'[h] = "dispatching" <=> thread[h] = "dispatching"
  BY <1>1, <1>2, <1>3
<1>5. faults' \in 0..MaxFaults
  BY MonitorAssumption DEF Outer, Open, OpenFails, Backoff, Quiet, MonitorTypes, MonitorTypeOK
<1>6. thread' \in [Monitors -> Locations]
  BY <1>2, <1>3
<1>7. MonitorTypeOK'
  BY <1>1, <1>4, <1>5, <1>6 DEF owner, MonitorTypes, MonitorTypeOK
<1>8. Ownership'
  BY <1>1, <1>2, MoveOwnership
<1>9. \A h \in Monitors : Kept(h)'
  BY <1>1, <1>4, UntouchedKept
<1>10. \A h \in Monitors : LastMessage(h)'
  BY <1>1, <1>2, MoveLast
<1> QED
  BY <1>1, <1>7, <1>8, <1>9, <1>10 DEF MonitorTypes

\* What is published is new, to the queues and to the sink.
LEMMA PublishStep ==
  ASSUME MonitorInv, NEW m \in Messages, Publish(m)
  PROVE  MonitorInv'
<1> USE DEF MonitorInv, Locations
<1>1. /\ UNCHANGED <<owner, thread, msg, unacked, sunk, again, acked, late, poisoned, faults>>
      /\ m \notin published /\ published' = published \union {m}
      /\ inbox' = [g \in Monitors |-> IF Connected(g) THEN Append(inbox[g], m) ELSE inbox[g]]
  BY DEF Publish, history
<1>2. inbox \in [Monitors -> Seq(Messages)]
  BY DEF MonitorTypes, MonitorTypeOK
<1>3. inbox' \in [Monitors -> Seq(Messages)]
  BY <1>1, <1>2, AppendProperties
<1>4. MonitorTypes'
  BY <1>1, <1>3 DEF owner, MonitorTypes, MonitorTypeOK
<1>5. Ownership'
  BY <1>1 DEF owner, Ownership, Alive
<1>6. ASSUME NEW g \in Monitors
      PROVE  Kept(g)'
  <2>1. Kept(g)
    OBVIOUS
  <2>2. CASE inbox'[g] = inbox[g]
    BY <1>1, <2>1, <2>2, UntouchedKept
  <2>3. CASE inbox'[g] = Append(inbox[g], m)
    <3>1. inbox[g] \in Seq(Messages)
      BY <1>2
    <3>2. /\ Len(inbox'[g]) = Len(inbox[g]) + 1 /\ Len(inbox[g]) \in Nat
          /\ \A i \in 1..Len(inbox[g]) : inbox'[g][i] = inbox[g][i] /\ inbox[g][i] \in published
          /\ inbox'[g][Len(inbox[g]) + 1] = m
      BY <2>1, <2>3, <3>1, AppendProperties, LenProperties DEF Kept, Known
    <3>3. sunk[g][m] = <<>> /\ (thread[g] = "dispatching" => msg[g][1] # m)
      BY <1>1, <2>1 DEF Kept, Known
    <3>4. \A i \in 1..Len(inbox'[g]) : i \in 1..Len(inbox[g]) \/ (i = Len(inbox[g]) + 1 /\ inbox'[g][i] = m)
      BY <3>2
    <3>5. Known(g)'
      BY <1>1, <2>1, <3>2, <3>4 DEF Kept, Known
    <3>6. SoFar(g)' /\ Whole(g)' /\ PoisonCounted(g)'
      BY <1>1, <2>1 DEF Kept, SoFar, Whole, PoisonCounted, Cut
    <3>7. FirstTime(g)'
      <4>1. ASSUME NEW i \in 1..Len(inbox'[g]), inbox'[g][i] \notin again[g]
            PROVE  /\ sunk[g][inbox'[g][i]] = <<>>
                   /\ thread[g] = "dispatching" => msg[g][1] # inbox'[g][i]
                   /\ \A j \in 1..Len(inbox'[g]) : inbox'[g][j] = inbox'[g][i] => j = i
        <5>1. CASE i \in 1..Len(inbox[g])
          <6>1. inbox'[g][i] = inbox[g][i] /\ inbox[g][i] # m
            BY <1>1, <3>2, <5>1
          <6>2. /\ sunk[g][inbox[g][i]] = <<>>
                /\ thread[g] = "dispatching" => msg[g][1] # inbox[g][i]
                /\ \A j \in 1..Len(inbox[g]) : inbox[g][j] = inbox[g][i] => j = i
            BY <2>1, <4>1, <5>1, <6>1 DEF Kept, FirstTime
          <6> QED
            BY <3>2, <3>4, <6>1, <6>2
        <5>2. CASE i = Len(inbox[g]) + 1 /\ inbox'[g][i] = m
          BY <1>1, <3>2, <3>3, <3>4, <5>2
        <5> QED
          BY <3>4, <5>1, <5>2
      <4>2. \A k \in Messages \ again[g] :
              /\ Ascending(sunk[g][k])
              /\ (thread[g] = "dispatching" /\ msg[g][1] = k) => \A x \in Elements(sunk[g][k]) : x < msg[g][2]
        BY <2>1 DEF Kept, FirstTime
      <4> QED
        BY <1>1, <4>1, <4>2 DEF FirstTime
    <3> QED
      BY <3>5, <3>6, <3>7 DEF Kept
  <2> QED
    BY <1>1, <2>2, <2>3
<1>7. \A g \in Monitors : LastMessage(g)'
  BY <1>1 DEF owner, LastMessage
<1> QED
  BY <1>4, <1>5, <1>6, <1>7

\* A receiver that was told to stop lets go of all it has; any other waits.
LEMMA DrainStep ==
  ASSUME MonitorInv, NEW g \in Monitors, Drain(g)
  PROVE  MonitorInv'
<1> USE DEF MonitorInv, Locations
<1>1. /\ UNCHANGED <<owner, published, msg, sunk, again, acked, late, poisoned, faults>>
      /\ Alive(g) /\ thread[g] = "draining"
  BY DEF Drain, history, Alive
<1>2. /\ inbox \in [Monitors -> Seq(Messages)] /\ msg \in [Monitors -> Places]
      /\ unacked \in [Monitors -> SUBSET Messages]
      /\ thread \in [Monitors -> Locations]
      /\ sunk[g] \in [Messages -> Seq(Nat)]
  BY DEF MonitorTypes, MonitorTypeOK
<1>3. Kept(g)
  OBVIOUS
<1>4. CASE stopping[g]
  <2>1. /\ thread' = [thread EXCEPT ![g] = "outer"] /\ inbox' = [inbox EXCEPT ![g] = <<>>]
        /\ unacked' = [unacked EXCEPT ![g] = {}]
    BY <1>4 DEF Drain, Goto
  <2>2. <<>> \in Seq(Messages) /\ Len(<<>>) = 0
    BY EmptySeq
  <2>3. MonitorTypes'
    BY <1>1, <1>2, <2>1, <2>2 DEF owner, MonitorTypes, MonitorTypeOK
  <2>4. Ownership'
    BY <1>1, <2>1, MoveOwnership
  <2>5. inbox'[g] = <<>> /\ unacked'[g] = {} /\ thread'[g] = "outer"
    BY <1>2, <2>1
  <2>6. Kept(g)'
    <3>1. Known(g)' /\ SoFar(g)' /\ Whole(g)' /\ FirstTime(g)'
      BY <1>1, <1>3, <2>2, <2>5 DEF Kept, Known, SoFar, Whole, FirstTime
    <3>2. PoisonCounted(g)'
      BY <1>1, <1>3, <2>5, FS_EmptySet DEF Kept, PoisonCounted, Cut
    <3> QED
      BY <3>1, <3>2 DEF Kept
  <2>7. ASSUME NEW h \in Monitors, h # g
        PROVE  Kept(h)'
    BY <1>1, <1>2, <2>1, <2>7, UntouchedKept
  <2>8. \A h \in Monitors : LastMessage(h)'
    BY <1>1, <2>1, MoveLast
  <2> QED
    BY <2>3, <2>4, <2>6, <2>7, <2>8
<1>5. CASE ~ stopping[g]
  <2>1. thread' = [thread EXCEPT ![g] = "waiting"] /\ UNCHANGED <<inbox, unacked>>
    BY <1>5 DEF Drain, Goto
  <2>2. /\ thread' \in [Monitors -> Locations]
        /\ \A h \in Monitors : thread'[h] = "dispatching" <=> thread[h] = "dispatching"
    BY <1>1, <1>2, <2>1
  <2>3. MonitorTypes'
    BY <1>1, <2>1, <2>2 DEF owner, MonitorTypes, MonitorTypeOK
  <2>4. Ownership'
    BY <1>1, <2>1, MoveOwnership
  <2>5. \A h \in Monitors : LastMessage(h)'
    BY <1>1, <1>5, <2>1, MoveLast
  <2>6. \A h \in Monitors : Kept(h)'
    BY <1>1, <2>1, <2>2, UntouchedKept
  <2> QED
    BY <2>3, <2>4, <2>5, <2>6
<1> QED
  BY <1>4, <1>5

\* The next message is no longer in the queue unless it is delivered again.
LEMMA DeliverStep ==
  ASSUME MonitorInv, NEW g \in Monitors, Deliver(g)
  PROVE  MonitorInv'
<1> USE DEF MonitorInv, Locations
<1>1. /\ UNCHANGED <<owner, published, sunk, again, acked, poisoned, faults>>
      /\ Alive(g) /\ thread[g] = "waiting"
  BY DEF Deliver, Alive
<1>2. /\ inbox \in [Monitors -> Seq(Messages)] /\ msg \in [Monitors -> Places]
      /\ unacked \in [Monitors -> SUBSET Messages]
      /\ thread \in [Monitors -> Locations]
      /\ sunk[g] \in [Messages -> Seq(Nat)]
      /\ late \in [Monitors -> Nat]
  BY DEF MonitorTypes, MonitorTypeOK
<1>3. Kept(g)
  OBVIOUS
<1>4. late' = [late EXCEPT ![g] = IF stopping[g] THEN late[g] + 1 ELSE late[g]]
  BY DEF Deliver
<1>5. late' \in [Monitors -> Nat]
  BY <1>2, <1>4
<1>6. /\ thread' = [thread EXCEPT ![g] = "dispatching"] /\ inbox' = [inbox EXCEPT ![g] = Tail(@)]
      /\ msg' = [msg EXCEPT ![g] = <<Head(inbox[g]), 1>>] /\ unacked' = unacked /\ inbox[g] # <<>>
  BY DEF Deliver, Goto
<1>7. inbox[g] \in Seq(Messages)
  BY <1>2
<1>8. /\ inbox'[g] \in Seq(Messages) /\ inbox'[g] = Tail(inbox[g])
      /\ Head(inbox[g]) = inbox[g][1] /\ inbox[g][1] \in Messages
      /\ Len(inbox[g]) \in Nat \ {0} /\ Len(inbox'[g]) = Len(inbox[g]) - 1
      /\ \A i \in 1..Len(inbox'[g]) : inbox'[g][i] = inbox[g][i + 1] /\ i + 1 \in 1..Len(inbox[g])
  BY <1>2, <1>6, <1>7, HeadTailProperties, EmptySeq, ElementOfSeq
<1>9. thread'[g] = "dispatching" /\ msg'[g] = <<inbox[g][1], 1>>
  BY <1>2, <1>6, <1>8
<1>10. /\ msg'[g] \in Messages \X Nat /\ msg'[g][1] = inbox[g][1] /\ msg'[g][2] = 1
       /\ 1 \in 1..(Len(Body[inbox[g][1]]) + 1)
  BY <1>8, <1>9, BodyType
<1>11. MonitorTypes'
  <2>1. inbox' \in [Monitors -> Seq(Messages)]
    BY <1>2, <1>6, <1>8
  <2>2. msg' \in [Monitors -> Places]
    BY <1>2, <1>6, <1>9, <1>10 DEF Places
  <2>3. \A h \in Monitors : h # g => msg'[h] = msg[h] /\ thread'[h] = thread[h]
    BY <1>2, <1>6
  <2>4. thread' \in [Monitors -> Locations]
    BY <1>2, <1>6
  <2> QED
    BY <1>1, <1>5, <1>6, <1>9, <1>10, <2>1, <2>2, <2>3, <2>4 DEF owner, MonitorTypes, MonitorTypeOK
<1>12. Ownership'
  BY <1>1, <1>6, MoveOwnership
<1>13. Kept(g)'
  <2>1. 1 \in 1..Len(inbox[g])
    BY <1>8
  <2>2. Known(g)'
    BY <1>1, <1>3, <1>6, <1>8, <1>10, <2>1 DEF Kept, Known
  <2>3. SoFar(g)' /\ Whole(g)' /\ PoisonCounted(g)'
    BY <1>1, <1>3, <1>6, <1>10 DEF Kept, SoFar, Whole, PoisonCounted, Cut
  <2>4. FirstTime(g)'
    <3>1. ASSUME NEW i \in 1..Len(inbox[g]), inbox[g][i] \notin again[g]
          PROVE  /\ sunk[g][inbox[g][i]] = <<>>
                 /\ \A j \in 1..Len(inbox[g]) : inbox[g][j] = inbox[g][i] => j = i
      BY <1>3, <3>1 DEF Kept, FirstTime
    <3>2. ASSUME NEW i \in 1..Len(inbox'[g]), inbox'[g][i] \notin again[g]
          PROVE  /\ sunk[g][inbox'[g][i]] = <<>>
                 /\ inbox[g][1] # inbox'[g][i]
                 /\ \A j \in 1..Len(inbox'[g]) : inbox'[g][j] = inbox'[g][i] => j = i
      <4>1. inbox'[g][i] = inbox[g][i + 1] /\ i + 1 \in 1..Len(inbox[g]) /\ i \in Nat /\ i + 1 # 1
        BY <1>8
      <4>2. /\ sunk[g][inbox[g][i + 1]] = <<>>
            /\ \A j \in 1..Len(inbox[g]) : inbox[g][j] = inbox[g][i + 1] => j = i + 1
        BY <3>1, <3>2, <4>1
      <4>3. inbox[g][1] # inbox[g][i + 1]
        BY <2>1, <4>1, <4>2
      <4>4. ASSUME NEW j \in 1..Len(inbox'[g]), inbox'[g][j] = inbox'[g][i]
            PROVE  j = i
        <5>1. inbox[g][j + 1] = inbox[g][i + 1] /\ j + 1 \in 1..Len(inbox[g]) /\ j \in Nat
          BY <1>8, <4>1, <4>4
        <5>2. j + 1 = i + 1
          BY <4>2, <5>1
        <5> QED
          BY <4>1, <5>1, <5>2
      <4> QED
        BY <4>1, <4>2, <4>3, <4>4
    <3>3. ASSUME NEW m \in Messages \ again[g], msg'[g][1] = m
          PROVE  Elements(sunk[g][m]) = {}
      <4>1. sunk[g][m] = <<>>
        BY <1>10, <2>1, <3>1, <3>3
      <4>2. DOMAIN <<>> = {}
        OBVIOUS
      <4> QED
        BY <4>1, <4>2 DEF Elements
    <3>4. \A m \in Messages \ again[g] : Ascending(sunk[g][m])
      BY <1>3 DEF Kept, FirstTime
    <3> QED
      BY <1>1, <1>10, <3>2, <3>3, <3>4 DEF FirstTime
  <2> QED
    BY <2>2, <2>3, <2>4 DEF Kept
<1>14. ASSUME NEW h \in Monitors, h # g
       PROVE  Kept(h)'
  BY <1>1, <1>2, <1>6, <1>14, UntouchedKept
<1>15. \A h \in Monitors : LastMessage(h)'
  <2>1. /\ late'[g] = IF stopping[g] THEN 1 ELSE 0
        /\ \A h \in Monitors : h # g => late'[h] = late[h] /\ thread'[h] = thread[h]
    <3>1. late[g] = 0
      BY <1>1 DEF LastMessage
    <3> QED
      BY <1>2, <1>4, <1>6, <3>1
  <2>2. stopping' = stopping /\ thread'[g] # "waiting"
    BY <1>1, <1>9 DEF owner
  <2>3. ASSUME NEW h \in Monitors
        PROVE  LastMessage(h)'
    BY <2>1, <2>2 DEF LastMessage
  <2> QED
    BY <2>3
<1> QED
  BY <1>11, <1>12, <1>13, <1>14, <1>15

\* What the broker delivers again, in any order, was in no one's hands.
LEMMA BreakStep ==
  ASSUME MonitorInv, NEW g \in Monitors, Break(g)
  PROVE  MonitorInv'
<1> USE DEF MonitorInv, Locations
<1>1. /\ UNCHANGED <<owner, published, msg, sunk, acked, late, poisoned>>
      /\ Alive(g) /\ thread[g] = "waiting"
      /\ unacked' = [unacked EXCEPT ![g] = {}]
      /\ faults < MaxFaults /\ faults' = faults + 1
  BY DEF Break, Alive
<1>2. PICK l \in {"outer", "exited", "backoff"} : thread' = [thread EXCEPT ![g] = l]
  BY DEF Break, Goto, AfterError
<1>3. /\ inbox \in [Monitors -> Seq(Messages)] /\ again \in [Monitors -> SUBSET Messages]
      /\ unacked \in [Monitors -> SUBSET Messages]
      /\ thread \in [Monitors -> Locations]
      /\ faults \in 0..MaxFaults
  BY DEF MonitorTypes, MonitorTypeOK
<1>4. Kept(g) /\ inbox[g] \in Seq(Messages) /\ unacked[g] \subseteq Messages
  BY <1>3
<1>5. PICK o \in Seq(Messages) :
        /\ \A i \in 1..Len(o) : o[i] \in unacked[g]
        /\ again' = [again EXCEPT ![g] = again'[g]]
        /\ \/ inbox' = [inbox EXCEPT ![g] = <<>>] /\ again'[g] = again[g]
           \/ inbox' = [inbox EXCEPT ![g] = o \o inbox[g]] /\ again'[g] = again[g] \union unacked[g]
  <2>1. CASE inbox' = [inbox EXCEPT ![g] = <<>>] /\ again' = again
    <3>1. <<>> \in Seq(Messages) /\ \A i \in 1..Len(<<>>) : <<>>[i] \in unacked[g]
      BY EmptySeq
    <3>2. again' = [again EXCEPT ![g] = again'[g]] /\ again'[g] = again[g]
      BY <1>3, <2>1
    <3> QED
      BY <2>1, <3>1, <3>2
  <2>2. CASE \E order \in [1..Cardinality(unacked[g]) -> unacked[g]] :
               /\ inbox' = [inbox EXCEPT ![g] = order \o @]
               /\ again' = [again EXCEPT ![g] = @ \union unacked[g]]
    <3>1. PICK order \in [1..Cardinality(unacked[g]) -> unacked[g]] :
               /\ inbox' = [inbox EXCEPT ![g] = order \o @]
               /\ again' = [again EXCEPT ![g] = @ \union unacked[g]]
      BY <2>2
    <3>2. Cardinality(unacked[g]) \in Nat
      BY <1>4, FS_CardinalityType DEF Kept, PoisonCounted
    <3>3. order \in Seq(Messages) /\ Len(order) = Cardinality(unacked[g])
      BY <1>4, <3>2
    <3>4. \A i \in 1..Len(order) : order[i] \in unacked[g]
      BY <3>3
    <3>5. inbox' = [inbox EXCEPT ![g] = order \o inbox[g]] /\ again'[g] = again[g] \union unacked[g]
      BY <1>3, <3>1
    <3> QED
      BY <1>3, <3>1, <3>3, <3>4, <3>5
  <2> QED
    BY <2>1, <2>2 DEF Break
<1>6. inbox'[g] \in Seq(Messages) /\ again'[g] \subseteq Messages /\ again[g] \subseteq again'[g]
  <2>1. again[g] \subseteq Messages
    BY <1>3
  <2>2. CASE inbox' = [inbox EXCEPT ![g] = <<>>] /\ again'[g] = again[g]
    <3>1. inbox'[g] = <<>> /\ <<>> \in Seq(Messages)
      BY <1>3, <2>2, EmptySeq
    <3> QED
      BY <2>1, <2>2, <3>1
  <2>3. CASE inbox' = [inbox EXCEPT ![g] = o \o inbox[g]] /\ again'[g] = again[g] \union unacked[g]
    <3>1. inbox'[g] = o \o inbox[g] /\ o \o inbox[g] \in Seq(Messages)
      BY <1>3, <1>4, <2>3, ConcatProperties
    <3> QED
      BY <1>4, <2>1, <2>3, <3>1
  <2> QED
    BY <1>5, <2>2, <2>3
<1>7. MonitorTypes'
  <2>1. inbox' \in [Monitors -> Seq(Messages)] /\ again' \in [Monitors -> SUBSET Messages]
    BY <1>3, <1>5, <1>6
  <2>2. unacked' \in [Monitors -> SUBSET Messages]
    BY <1>1, <1>3
  <2>3. faults' \in 0..MaxFaults
    BY <1>1, <1>3, MonitorAssumption
  <2>4. /\ thread' \in [Monitors -> Locations]
        /\ \A h \in Monitors : thread'[h] = "dispatching" <=> thread[h] = "dispatching"
    BY <1>1, <1>2, <1>3
  <2> QED
    BY <1>1, <2>1, <2>2, <2>3, <2>4 DEF owner, MonitorTypes, MonitorTypeOK
<1>8. Ownership'
  BY <1>1, <1>2, MoveOwnership
<1>9. Kept(g)'
  <2>1. thread'[g] # "dispatching" /\ unacked'[g] = {}
    BY <1>1, <1>2, <1>3
  <2>2. \A i \in 1..Len(o) : o[i] \in published
    BY <1>4, <1>5 DEF Kept, Known
  <2>3. SoFar(g)' /\ Whole(g)'
    BY <1>1, <1>4, <2>1 DEF Kept, SoFar, Whole
  <2>4. PoisonCounted(g)'
    BY <1>1, <1>4, <2>1, FS_EmptySet DEF Kept, PoisonCounted, Cut
  <2>5. ASSUME NEW m \in Messages \ again'[g]
        PROVE  Ascending(sunk[g][m])
    BY <1>4, <1>6, <2>5 DEF Kept, FirstTime
  <2>6. CASE inbox' = [inbox EXCEPT ![g] = <<>>]
    <3>1. inbox'[g] = <<>> /\ Len(<<>>) = 0
      BY <1>3, <2>6, EmptySeq
    <3>2. Known(g)' /\ FirstTime(g)'
      BY <1>1, <1>4, <2>1, <2>5, <3>1 DEF Kept, Known, FirstTime
    <3> QED
      BY <2>3, <2>4, <3>2 DEF Kept
  <2>7. CASE /\ inbox' = [inbox EXCEPT ![g] = o \o inbox[g]]
             /\ again'[g] = again[g] \union unacked[g]
    <3>1. inbox'[g] = o \o inbox[g]
      BY <1>3, <2>7
    <3>2. /\ Len(o) \in Nat /\ Len(inbox[g]) \in Nat /\ Len(inbox'[g]) = Len(o) + Len(inbox[g])
          /\ \A i \in 1..Len(inbox'[g]) :
               inbox'[g][i] = IF i <= Len(o) THEN o[i] ELSE inbox[g][i - Len(o)]
      BY <1>4, <3>1, ConcatProperties, LenProperties
    <3>3. ASSUME NEW i \in 1..Len(inbox'[g])
          PROVE  \/ i <= Len(o) /\ inbox'[g][i] \in unacked[g]
                 \/ i - Len(o) \in 1..Len(inbox[g]) /\ inbox'[g][i] = inbox[g][i - Len(o)]
      BY <1>5, <3>2
    <3>4. Known(g)'
      <4>1. unacked[g] \subseteq published /\ \A i \in 1..Len(inbox[g]) : inbox[g][i] \in published
        BY <1>4 DEF Kept, Known
      <4>2. \A i \in 1..Len(inbox'[g]) : inbox'[g][i] \in published
        BY <3>3, <4>1
      <4> QED
        BY <1>1, <1>4, <2>1, <4>2 DEF Kept, Known
    <3>5. ASSUME NEW i \in 1..Len(inbox'[g]), inbox'[g][i] \notin again'[g]
          PROVE  /\ sunk[g][inbox'[g][i]] = <<>>
                 /\ \A j \in 1..Len(inbox'[g]) : inbox'[g][j] = inbox'[g][i] => j = i
      <4>1. /\ i - Len(o) \in 1..Len(inbox[g]) /\ inbox'[g][i] = inbox[g][i - Len(o)]
            /\ inbox'[g][i] \notin again[g] /\ inbox'[g][i] \notin unacked[g]
        BY <2>7, <3>3, <3>5
      <4>2. /\ sunk[g][inbox'[g][i]] = <<>>
            /\ \A j \in 1..Len(inbox[g]) : inbox[g][j] = inbox'[g][i] => j = i - Len(o)
        BY <1>4, <4>1 DEF Kept, FirstTime
      <4>3. ASSUME NEW j \in 1..Len(inbox'[g]), inbox'[g][j] = inbox'[g][i]
            PROVE  j = i
        <5>1. j - Len(o) \in 1..Len(inbox[g]) /\ inbox'[g][j] = inbox[g][j - Len(o)]
          BY <3>3, <4>1, <4>3
        <5>2. j - Len(o) = i - Len(o)
          BY <4>2, <4>3, <5>1
        <5> QED
          BY <3>2, <5>2
      <4> QED
        BY <4>2, <4>3
    <3>6. FirstTime(g)'
      BY <1>1, <2>1, <2>5, <3>5 DEF FirstTime
    <3> QED
      BY <2>3, <2>4, <3>4, <3>6 DEF Kept
  <2> QED
    BY <1>5, <2>6, <2>7
<1>10. ASSUME NEW h \in Monitors, h # g
       PROVE  Kept(h)'
  BY <1>1, <1>2, <1>3, <1>5, <1>10, UntouchedKept
<1>11. \A h \in Monitors : LastMessage(h)'
  BY <1>1, <1>2, MoveLast
<1> QED
  BY <1>7, <1>8, <1>9, <1>10, <1>11

\* One event further: the sink gets it when it is due, and only then.
LEMMA HandleStep ==
  ASSUME MonitorInv, NEW g \in Monitors, Handle(g)
  PROVE  MonitorInv'
<1> USE DEF MonitorInv, Locations
<1> DEFINE m == msg[g][1]
           i == msg[g][2]
<1>1. /\ UNCHANGED <<owner, thread, published, inbox, unacked, again, acked, late, poisoned, faults>>
      /\ thread[g] = "dispatching" /\ Alive(g)
      /\ i <= Len(Body[m]) /\ Body[m][i] # "poison"
      /\ sunk' = IF Body[m][i] = "task" THEN [sunk EXCEPT ![g][m] = Append(@, i)] ELSE sunk
      /\ msg' = [msg EXCEPT ![g] = <<m, i + 1>>]
  BY DEF Handle, Kind, Alive
<1>2. /\ msg \in [Monitors -> Places] /\ sunk \in [Monitors -> [Messages -> Seq(Nat)]]
      /\ thread \in [Monitors -> Locations]
      /\ m \in Messages /\ i \in 1..(Len(Body[m]) + 1)
  BY <1>1 DEF MonitorTypes, MonitorTypeOK
<1>3. Len(Body[m]) \in Nat /\ i \in 1..Len(Body[m])
  BY <1>1, <1>2, BodyType
<1>4. Kept(g)
  OBVIOUS
<1>5. sunk[g] \in [Messages -> Seq(Nat)] /\ \A k \in Messages : sunk[g][k] \in Seq(Nat)
  BY <1>2
<1>6. /\ \A k \in Messages : k # m => sunk'[g][k] = sunk[g][k]
      /\ sunk'[g][m] = IF Body[m][i] = "task" THEN Append(sunk[g][m], i) ELSE sunk[g][m]
      /\ \A h \in Monitors : h # g => sunk'[h] = sunk[h]
  BY <1>1, <1>2, <1>5
<1>7. Append(sunk[g][m], i) \in Seq(Nat) /\ Elements(Append(sunk[g][m], i)) = Elements(sunk[g][m]) \union {i}
  BY <1>2, <1>3, <1>5, AppendedElements
<1>8. /\ msg'[g] = <<m, i + 1>> /\ msg'[g][1] = m /\ msg'[g][2] = i + 1
      /\ \A h \in Monitors : h # g => msg'[h] = msg[h]
  BY <1>1, <1>2
<1>9. \A j \in 1..(i - 1) : Body[m][j] # "poison" /\ (j \in ToSink(m) => j \in Elements(sunk[g][m]))
  BY <1>1, <1>4 DEF Kept, SoFar
<1>10. Body[m][i] = "task" <=> i \in ToSink(m)
  BY <1>1, <1>3, <1>9 DEF ToSink
<1>11. MonitorTypes'
  <2>1. sunk' \in [Monitors -> [Messages -> Seq(Nat)]]
    <3>1. CASE Body[m][i] = "task"
      <4>1. sunk' = [sunk EXCEPT ![g] = [sunk[g] EXCEPT ![m] = Append(sunk[g][m], i)]]
        BY <1>1, <3>1
      <4>2. [sunk[g] EXCEPT ![m] = Append(sunk[g][m], i)] \in [Messages -> Seq(Nat)]
        BY <1>5, <1>7
      <4> QED
        BY <1>2, <4>1, <4>2
    <3> QED
      BY <1>1, <1>2, <3>1
  <2>2. msg' \in [Monitors -> Places]
    <3>1. <<m, i + 1>> \in Places
      BY <1>2, <1>3 DEF Places
    <3> QED
      BY <1>1, <1>2, <3>1
  <2>3. \A h \in Monitors : IF thread[h] = "dispatching"
                             THEN msg'[h] \in Messages \X Nat /\ msg'[h][2] \in 1..(Len(Body[msg'[h][1]]) + 1)
                             ELSE msg'[h] = <<>>
    <3>1. msg'[g] \in Messages \X Nat /\ msg'[g][2] \in 1..(Len(Body[msg'[g][1]]) + 1)
      BY <1>2, <1>3, <1>8
    <3>2. \A h \in Monitors : IF thread[h] = "dispatching"
                               THEN msg[h] \in Messages \X Nat /\ msg[h][2] \in 1..(Len(Body[msg[h][1]]) + 1)
                               ELSE msg[h] = <<>>
      BY DEF MonitorTypes, MonitorTypeOK
    <3> QED
      BY <1>1, <1>8, <3>1, <3>2
  <2> QED
    BY <1>1, <2>1, <2>2, <2>3 DEF owner, MonitorTypes, MonitorTypeOK
<1>12. Ownership'
  BY <1>1 DEF owner, Ownership, Alive
<1>13. Kept(g)'
  <2>1. Known(g)'
    <3>1. m \in published /\ \A k \in Messages : sunk[g][k] # <<>> => k \in published
      BY <1>1, <1>4 DEF Kept, Known
    <3>2. \A k \in Messages : sunk'[g][k] # <<>> => k \in published
      BY <1>6, <3>1
    <3>3. \A k \in 1..Len(inbox[g]) : inbox[g][k] \in published
      BY <1>4 DEF Kept, Known
    <3>4. unacked[g] \subseteq published
      BY <1>4 DEF Kept, Known
    <3> QED
      BY <1>1, <1>8, <3>1, <3>2, <3>3, <3>4 DEF Known
  <2>2. Elements(sunk'[g][m]) = Elements(sunk[g][m]) \union (IF Body[m][i] = "task" THEN {i} ELSE {})
    BY <1>6, <1>7
  <2>3. SoFar(g)'
    <3>1. \A k \in Messages : Elements(sunk'[g][k]) \subseteq ToSink(k)
      BY <1>4, <1>6, <1>10, <2>2 DEF Kept, SoFar
    <3>2. ASSUME NEW j \in 1..i
          PROVE  Body[m][j] # "poison" /\ (j \in ToSink(m) => j \in Elements(sunk'[g][m]))
      BY <1>1, <1>3, <1>9, <1>10, <2>2
    <3>3. (msg'[g][2] - 1) = i
      BY <1>3, <1>8
    <3> QED
      BY <1>1, <1>8, <3>1, <3>2, <3>3 DEF SoFar
  <2>4. Whole(g)'
    <3>1. ASSUME NEW k \in acked[g] \union unacked[g]
          PROVE  Elements(sunk'[g][k]) = ToSink(k)
      <4>1. k \in Messages /\ Elements(sunk[g][k]) = ToSink(k)
        BY <1>4 DEF Kept, Whole, MonitorTypes, MonitorTypeOK
      <4> QED
        BY <1>6, <1>10, <2>2, <4>1
    <3> QED
      BY <1>1, <3>1 DEF Whole
  <2>5. FirstTime(g)'
    <3>1. ASSUME NEW k \in Messages \ again[g]
          PROVE  /\ Ascending(sunk'[g][k])
                 /\ (thread[g] = "dispatching" /\ m = k) => \A x \in Elements(sunk'[g][k]) : x < i + 1
      <4>1. Ascending(sunk[g][k]) /\ (m = k => \A x \in Elements(sunk[g][k]) : x < i)
        BY <1>1, <1>4 DEF Kept, FirstTime
      <4>2. CASE k # m
        BY <1>6, <4>1, <4>2
      <4>3. CASE k = m
        <5>1. Elements(sunk[g][m]) \subseteq Nat
          <6>1. ToSink(m) \subseteq Nat
            BY <1>3 DEF ToSink
          <6> QED
            BY <1>2, <1>4, <6>1 DEF Kept, SoFar
        <5>2. \A x \in Elements(sunk'[g][m]) : x < i + 1
          BY <1>3, <2>2, <4>1, <4>3, <5>1
        <5>3. Ascending(sunk'[g][m])
          BY <1>2, <1>3, <1>5, <1>6, <4>1, <4>3, AppendedAscending
        <5> QED
          BY <4>3, <5>2, <5>3
      <4> QED
        BY <4>2, <4>3
    <3>2. ASSUME NEW k \in 1..Len(inbox[g]), inbox[g][k] \notin again[g]
          PROVE  /\ sunk'[g][inbox[g][k]] = <<>>
                 /\ thread[g] = "dispatching" => m # inbox[g][k]
                 /\ \A j \in 1..Len(inbox[g]) : inbox[g][j] = inbox[g][k] => j = k
      <4>1. inbox[g] \in Seq(Messages)
        BY DEF MonitorTypes, MonitorTypeOK
      <4>2. inbox[g][k] \in Messages
        BY <4>1, ElementOfSeq
      <4> QED
        BY <1>1, <1>4, <1>6, <3>2, <4>2 DEF Kept, FirstTime
    <3>3. thread' = thread /\ inbox' = inbox /\ again' = again
      BY <1>1
    <3> QED
      BY <1>8, <3>1, <3>2, <3>3 DEF FirstTime
  <2>6. PoisonCounted(g)'
    BY <1>1, <1>4 DEF Kept, PoisonCounted, Cut
  <2> QED
    BY <2>1, <2>3, <2>4, <2>5, <2>6 DEF Kept
<1>14. ASSUME NEW h \in Monitors, h # g
       PROVE  Kept(h)'
  BY <1>1, <1>6, <1>8, <1>14, UntouchedKept
<1>15. \A h \in Monitors : LastMessage(h)'
  BY <1>1 DEF owner, LastMessage
<1> QED
  BY <1>11, <1>12, <1>13, <1>14, <1>15

\* A message leaves the callback whole, and counted when poison cut it short.
LEMMA SettleStep ==
  ASSUME MonitorInv, NEW g \in Monitors, Settle(g), thread[g] = "dispatching",
         UNCHANGED <<owner, published, inbox, sunk, again, late>>,
         Elements(sunk[g][msg[g][1]]) = ToSink(msg[g][1]),
         \/ poisoned' = poisoned /\ "poison" \notin Elements(Body[msg[g][1]])
         \/ poisoned' = [poisoned EXCEPT ![g] = @ + 1]
  PROVE  MonitorInv'
<1> USE DEF MonitorInv, Locations
<1> DEFINE m == msg[g][1]
<1>1. /\ thread' = [thread EXCEPT ![g] = "draining"] /\ msg' = [msg EXCEPT ![g] = <<>>]
      /\ \/ acked' = [acked EXCEPT ![g] = @ \union {m}] /\ unacked' = unacked /\ faults' = faults
         \/ unacked' = [unacked EXCEPT ![g] = @ \union {m}] /\ acked' = acked
              /\ faults < MaxFaults /\ faults' = faults + 1
  BY DEF Settle, Goto
<1>2. /\ msg \in [Monitors -> Places] /\ poisoned \in [Monitors -> Nat] /\ faults \in 0..MaxFaults
      /\ thread \in [Monitors -> Locations]
      /\ acked \in [Monitors -> SUBSET Messages] /\ unacked \in [Monitors -> SUBSET Messages]
      /\ m \in Messages
  BY DEF MonitorTypes, MonitorTypeOK
<1>3. Kept(g) /\ Alive(g)
  BY DEF Alive
<1>4. /\ thread'[g] = "draining" /\ msg'[g] = <<>>
      /\ acked[g] \subseteq acked'[g] /\ acked'[g] \subseteq acked[g] \union {m}
      /\ unacked[g] \subseteq unacked'[g] /\ unacked'[g] \subseteq unacked[g] \union {m}
      /\ acked'[g] = acked[g] \/ acked'[g] = acked[g] \union {m}
      /\ unacked'[g] = unacked[g] \/ unacked'[g] = unacked[g] \union {m}
  BY <1>1, <1>2
<1>5. \A h \in Monitors : h # g =>
         /\ thread'[h] = thread[h] /\ msg'[h] = msg[h] /\ acked'[h] = acked[h]
         /\ unacked'[h] = unacked[h] /\ poisoned'[h] = poisoned[h]
  BY <1>1, <1>2
<1>6. MonitorTypes'
  <2>1. acked' \in [Monitors -> SUBSET Messages] /\ unacked' \in [Monitors -> SUBSET Messages]
    <3>1. acked[g] \union {m} \in SUBSET Messages /\ unacked[g] \union {m} \in SUBSET Messages
      BY <1>2
    <3>2. CASE acked' = [acked EXCEPT ![g] = acked[g] \union {m}] /\ unacked' = unacked
      BY <1>2, <3>1, <3>2
    <3>3. CASE unacked' = [unacked EXCEPT ![g] = unacked[g] \union {m}] /\ acked' = acked
      BY <1>2, <3>1, <3>3
    <3> QED
      BY <1>1, <3>2, <3>3
  <2>2. /\ thread' \in [Monitors -> Locations]
        /\ msg' \in [Monitors -> Places]
    BY <1>1, <1>2 DEF Places
  <2>3. poisoned' \in [Monitors -> Nat]
    BY <1>2
  <2>4. faults' \in 0..MaxFaults
    BY <1>1, <1>2, MonitorAssumption
  <2>5. \A h \in Monitors : IF thread'[h] = "dispatching"
                             THEN msg'[h] \in Messages \X Nat /\ msg'[h][2] \in 1..(Len(Body[msg'[h][1]]) + 1)
                             ELSE msg'[h] = <<>>
    <3>1. \A h \in Monitors : IF thread[h] = "dispatching"
                               THEN msg[h] \in Messages \X Nat /\ msg[h][2] \in 1..(Len(Body[msg[h][1]]) + 1)
                               ELSE msg[h] = <<>>
      BY DEF MonitorTypes, MonitorTypeOK
    <3>2. ASSUME NEW h \in Monitors, h # g
          PROVE  thread'[h] = thread[h] /\ msg'[h] = msg[h]
      BY <1>5, <3>2
    <3> QED
      BY <1>4, <3>1, <3>2
  <2> QED
    BY <2>1, <2>2, <2>3, <2>4, <2>5 DEF owner, MonitorTypes, MonitorTypeOK
<1>7. Ownership'
  BY <1>1, <1>3, MoveOwnership
<1>8. Kept(g)'
  <2>1. Known(g)'
    BY <1>3, <1>4 DEF Kept, Known
  <2>2. SoFar(g)' /\ Whole(g)'
    BY <1>3, <1>4 DEF Kept, SoFar, Whole
  <2>3. FirstTime(g)'
    BY <1>3, <1>4 DEF Kept, FirstTime
  <2>4. PoisonCounted(g)'
    <3>1. IsFiniteSet(acked'[g]) /\ IsFiniteSet(unacked'[g])
      <4>1. IsFiniteSet(acked[g]) /\ IsFiniteSet(unacked[g])
        BY <1>3 DEF Kept, PoisonCounted
      <4>2. IsFiniteSet(acked[g] \union {m}) /\ IsFiniteSet(unacked[g] \union {m})
        BY <4>1, FS_AddElement
      <4> QED
        BY <1>4, <4>1, <4>2
    <3>2. IsFiniteSet(Cut(g)) /\ Cardinality(Cut(g)) \in Nat /\ Cardinality(Cut(g)) <= poisoned[g]
      <4>1. Cut(g) \subseteq acked[g]
        BY DEF Cut
      <4> QED
        BY <1>3, <4>1, FS_Subset, FS_CardinalityType DEF Kept, PoisonCounted
    <3>3. CASE poisoned' = poisoned /\ "poison" \notin Elements(Body[m])
      <4>1. Cut(g)' = Cut(g)
        BY <1>4, <3>3 DEF Cut
      <4> QED
        BY <3>1, <3>2, <3>3, <4>1 DEF PoisonCounted
    <3>4. CASE poisoned' = [poisoned EXCEPT ![g] = @ + 1]
      <4>1. poisoned'[g] = poisoned[g] + 1 /\ poisoned[g] \in Nat
        BY <1>2, <3>4
      <4>2. Cut(g)' = Cut(g) \/ Cut(g)' = Cut(g) \union {m}
        BY <1>4 DEF Cut
      <4>3. \/ Cardinality(Cut(g) \union {m}) = Cardinality(Cut(g))
            \/ Cardinality(Cut(g) \union {m}) = Cardinality(Cut(g)) + 1
        BY <3>2, FS_AddElement
      <4>4. \/ Cardinality(Cut(g)') = Cardinality(Cut(g))
            \/ Cardinality(Cut(g)') = Cardinality(Cut(g)) + 1
        BY <4>2, <4>3
      <4> QED
        BY <3>1, <3>2, <4>1, <4>4 DEF PoisonCounted
    <3> QED
      BY <3>3, <3>4
  <2> QED
    BY <2>1, <2>2, <2>3, <2>4 DEF Kept
<1>9. ASSUME NEW h \in Monitors, h # g
      PROVE  Kept(h)'
  <2>1. inbox' = inbox /\ sunk' = sunk /\ again' = again /\ published' = published
    OBVIOUS
  <2>2. Kept(h)
    OBVIOUS
  <2> QED
    BY <1>5, <1>9, <2>1, <2>2, UntouchedKept
<1>10. \A h \in Monitors : LastMessage(h)'
  BY <1>1, MoveLast
<1> QED
  BY <1>6, <1>7, <1>8, <1>9, <1>10

\* Poison ends a batch: nothing behind it is due.
LEMMA PoisonStep ==
  ASSUME MonitorInv, NEW g \in Monitors, Poison(g)
  PROVE  MonitorInv'
<1> USE DEF MonitorInv, Locations
<1> DEFINE m == msg[g][1]
           i == msg[g][2]
<1>1. /\ thread[g] = "dispatching" /\ i <= Len(Body[m]) /\ Body[m][i] = "poison"
      /\ poisoned' = [poisoned EXCEPT ![g] = @ + 1] /\ Settle(g)
      /\ UNCHANGED <<owner, published, inbox, sunk, again, late>>
  BY DEF Poison, Kind
<1>2. m \in Messages /\ i \in 1..(Len(Body[m]) + 1) /\ Len(Body[m]) \in Nat
  BY <1>1, BodyType DEF MonitorTypes, MonitorTypeOK
<1>3. /\ Elements(sunk[g][m]) \subseteq ToSink(m)
      /\ \A j \in 1..(i - 1) : j \in ToSink(m) => j \in Elements(sunk[g][m])
  BY <1>1, <1>2 DEF Kept, SoFar
<1>4. \A j \in ToSink(m) : j \in 1..(i - 1)
  BY <1>1, <1>2 DEF ToSink
<1>5. Elements(sunk[g][m]) = ToSink(m)
  BY <1>3, <1>4
<1> QED
  BY <1>1, <1>5, SettleStep

\* A batch that ran to its end held no poison, and all of it was handed over.
LEMMA AckStep ==
  ASSUME MonitorInv, NEW g \in Monitors, Ack(g)
  PROVE  MonitorInv'
<1> USE DEF MonitorInv, Locations
<1> DEFINE m == msg[g][1]
           i == msg[g][2]
<1>1. /\ thread[g] = "dispatching" /\ i > Len(Body[m]) /\ poisoned' = poisoned /\ Settle(g)
      /\ UNCHANGED <<owner, published, inbox, sunk, again, late>>
  BY DEF Ack
<1>2. m \in Messages /\ i \in 1..(Len(Body[m]) + 1) /\ Len(Body[m]) \in Nat /\ DOMAIN Body[m] = 1..Len(Body[m])
  BY <1>1, BodyType DEF MonitorTypes, MonitorTypeOK
<1>3. /\ Elements(sunk[g][m]) \subseteq ToSink(m)
      /\ \A j \in 1..(i - 1) : Body[m][j] # "poison" /\ (j \in ToSink(m) => j \in Elements(sunk[g][m]))
  BY <1>1, <1>2 DEF Kept, SoFar
<1>4. 1..(i - 1) = 1..Len(Body[m])
  BY <1>1, <1>2
<1>5. Elements(sunk[g][m]) = ToSink(m)
  BY <1>3, <1>4 DEF ToSink
<1>6. "poison" \notin Elements(Body[m])
  BY <1>2, <1>3, <1>4 DEF Elements
<1> QED
  BY <1>1, <1>5, <1>6, SettleStep

LEMMA MonitorInductive == MonitorSpec => []MonitorInv
<1>1. MonitorInit => MonitorInv
  BY MonitorInitially
<1>2. MonitorInv /\ [MonitorNext]_monitorVars => MonitorInv'
  <2> SUFFICES ASSUME MonitorInv, [MonitorNext]_monitorVars
               PROVE  MonitorInv'
    OBVIOUS
  <2>1. CASE Connect \/ Disconnect \/ JoinReturns
    BY <2>1, OwnerStep
  <2>2. CASE \E m \in Messages : Publish(m)
    BY <2>2, PublishStep
  <2>3. ASSUME NEW g \in Monitors, Receive(g) \/ Connecting(g) \/ Break(g)
        PROVE  MonitorInv'
    BY <2>3, LoopStep, DrainStep, DeliverStep, BreakStep, HandleStep, PoisonStep, AckStep DEF Receive, Connecting
  <2>4. CASE UNCHANGED monitorVars
    <3>1. MonitorTypes'
      BY <2>4 DEF monitorVars, MonitorInv, MonitorTypes, MonitorTypeOK
    <3>2. Ownership'
      BY <2>4 DEF monitorVars, MonitorInv, Ownership, Alive
    <3>3. \A g \in Monitors : Kept(g)'
      BY <2>4, UntouchedKept DEF monitorVars, MonitorInv
    <3>4. \A g \in Monitors : LastMessage(g)'
      BY <2>4 DEF monitorVars, MonitorInv, LastMessage
    <3> QED
      BY <3>1, <3>2, <3>3, <3>4 DEF MonitorInv
  <2> QED
    BY <2>1, <2>2, <2>3, <2>4 DEF MonitorNext
<1> QED
  BY <1>1, <1>2, PTL DEF MonitorSpec

\* The monitor keeps to its types: a receiver dispatches a message or holds
\* none, and stop() waits for a monitor the adapter still has.
THEOREM MonitorTyping == MonitorSpec => []MonitorTypeOK
<1>1. MonitorInv => MonitorTypeOK
  BY DEF MonitorInv, MonitorTypes
<1> QED
  BY <1>1, MonitorInductive, PTL

\* However often the adapter connects and disconnects, and however long a
\* receiver outlives the join of stop(): beside the adapter's own receiver only
\* those go on that a second connect_signals replaced, and one that was told to
\* stop takes one message more at most (broker.py: start, stop, _run).
THEOREM OnlyReplacedGoOn == MonitorSpec => []NobodyElseReceives
<1>1. MonitorInv => NobodyElseReceives
  BY DEF MonitorInv, Ownership, Alive, LastMessage, NobodyElseReceives
<1> QED
  BY <1>1, MonitorInductive, PTL

\* A message is acknowledged only when the sink has all of its events it is to
\* have, in the order of the batch and once unless the broker delivered it
\* again, and a batch that poison cut short is counted (broker.py: the
\* callback of the consumer).
THEOREM AckedWhole == MonitorSpec => []AckedMeansDispatched
<1>1. ASSUME MonitorInv, NEW g \in Monitors, NEW m \in acked[g]
      PROVE  /\ Elements(sunk[g][m]) = ToSink(m)
             /\ m \notin again[g] => Ascending(sunk[g][m])
             /\ Cardinality(Cut(g)) <= poisoned[g]
  <2>1. Kept(g) /\ m \in Messages
    BY <1>1 DEF MonitorInv, MonitorTypes
  <2>2. Elements(sunk[g][m]) = ToSink(m)
    BY <1>1, <2>1 DEF Kept, Whole
  <2>3. m \notin again[g] => Ascending(sunk[g][m])
    BY <2>1 DEF Kept, FirstTime
  <2> QED
    BY <2>1, <2>2, <2>3 DEF Kept, PoisonCounted
<1>2. MonitorInv => AckedMeansDispatched
  BY <1>1 DEF AckedMeansDispatched, Cut
<1> QED
  BY <1>2, MonitorInductive, PTL
=============================================================================
