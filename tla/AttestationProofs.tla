------------------------- MODULE AttestationProofs -------------------------
(***************************************************************************)
(* Attestation's safety for any mirrors, relays, clocks and windows.         *)
(***************************************************************************)
EXTENDS Attestation, FiniteSetTheorems, TLAPS

USE DEF keyVars

\* What relays have taken is not ahead of them.
BeatsOK == \A r \in Relays : \A b \in beats[r] : b.at <= now + Tolerance

\* An attestation is by a key that its mirror has had, was dated by the clocks, and
\* knows of nothing by its own key.

EventOK(i) ==
    LET e == said[i]
    IN  /\ e.at <= now + Tolerance /\ e.at <= now + Skew[e.by[1]]
        /\ e.by[2] <= used[e.by[1]]
        /\ \A id \in e.seen : id \in 1..(i - 1) /\ said[id].by # e.by
        /\ e.peers[e.by] = Unseen

SaidOK == \A i \in DOMAIN said : EventOK(i)

\* What m is about to publish: nothing it knows of is by the key it runs with, nor
\* ahead of the relays.
PeersOK(m) ==
    /\ \A k \in Keys : work[m].peers[k] # Unseen =>
           work[m].peers[k].last <= now + Tolerance
    /\ work[m].peers[work[m].key] = Unseen

SeenOK(m) ==
    \A id \in work[m].seen : id \in DOMAIN said /\ said[id].by # work[m].key

\* Between its two events, m has dated them, and a relay has the first.
DayOK(m) ==
    LET t == work[m].at
    IN  /\ t <= Clock(m)
        /\ \A k \in Keys : work[m].peers[k] # Unseen =>
               work[m].peers[k].last <= t - Skew[m] + Tolerance
        /\ \A id \in work[m].seen : said[id].at <= t - Skew[m] + Tolerance
        /\ \E q \in Relays : \E j \in atts[q] :
               said[j].d = Current /\ said[j].by = work[m].key /\ said[j].at >= t

WorkOK ==
    \A m \in Mirrors : work[m] # Idle =>
        /\ IsFiniteSet(work[m].got) /\ PeersOK(m) /\ SeenOK(m)
        /\ work[m].phase = "day" => DayOK(m)

\* The inductive invariant.
IInv ==
    /\ TypeOK /\ BeatsOK /\ SaidOK /\ WorkOK
    /\ RecordsAreExact /\ NothingFromTheFuture /\ CurrentStateLanded

\* A key is a mirror and the number of one of its keys.
LEMMA KeyFacts ==
    \A k \in Keys : /\ k[1] \in Mirrors /\ k[2] \in Nat \ {0}
                    /\ k = <<k[1], k[2]>> /\ k[2] <= MaxKeys[k[1]]
BY BoundsAssumption DEF Keys

\* A mirror's present key is one of its own.
LEMMA OwnKey ==
    ASSUME TypeOK, NEW m \in Mirrors
    PROVE  Key(m) \in Keys /\ Key(m)[1] = m /\ Key(m)[2] = key[m] /\ key[m] <= used[m]
<1>1. key[m] \in 1..MaxKeys[m] /\ key[m] <= used[m]
    BY BoundsAssumption DEF TypeOK
<1> QED
    BY <1>1 DEF Key, Keys

\* Clocks show integers.
LEMMA ClockIsInt ==
    ASSUME TypeOK, NEW m \in Mirrors
    PROVE  now \in Int /\ Clock(m) \in Int
<1>1. now \in Int
    BY BoundsAssumption DEF TypeOK
<1>2. Skew[m] \in Int
    BY ClockAssumption
<1> QED
    BY <1>1, <1>2 DEF Clock

\* Every attestation has its type.
LEMMA SaidTypes ==
    ASSUME TypeOK, NEW i \in DOMAIN said
    PROVE  said[i] \in Events /\ said[i].at \in Int
<1>1. said[i] \in Events
    BY DEF TypeOK
<1> QED
    BY <1>1 DEF Events

\* A build under way is at one of its relays.
LEMMA AskedIsRelay ==
    ASSUME TypeOK, NEW m \in Mirrors, work[m] # Idle
    PROVE  Asked(m) \in Relays
<1>1. RelaysOf[m] \in Seq(Relays) /\ work[m].i \in DOMAIN RelaysOf[m]
    BY RelaysAssumption DEF TypeOK
<1> QED
    BY <1>1 DEF Asked

\* One more heartbeat on a record.
LEMMA ObserveFacts ==
    ASSUME NEW p \in Observation \cup {Unseen}, NEW t \in Int
    PROVE  /\ Observe(p, t) \in Observation /\ Observe(p, t) # Unseen
           /\ p = Unseen => /\ Observe(p, t).first = t /\ Observe(p, t).last = t
                            /\ Observe(p, t).count = 1
           /\ p # Unseen => /\ Observe(p, t).first \in {t, p.first}
                            /\ Observe(p, t).last \in {t, p.last}
                            /\ Observe(p, t).first <= t /\ t <= Observe(p, t).last
                            /\ Observe(p, t).first <= p.first
                            /\ p.last <= Observe(p, t).last
                            /\ Observe(p, t).count = p.count + 1
<1>1. Observe(p, t) \in Observation
    BY DEF Observe, Observation
<1> QED
    BY <1>1, MarkersAssumption DEF Observe, Observation

-----------------------------------------------------------------------------
(* Steps that publish no attestation.                                       *)

\* With time, clocks and relays only move on.
LEMMA TickStep == IInv /\ Tick => IInv'
<1> SUFFICES ASSUME IInv, Tick PROVE IInv'
    OBVIOUS
<1> USE DEF IInv, Tick
<1>1. /\ now \in Int /\ now' = now + 1 /\ now' \in 0..MaxTime
      /\ UNCHANGED <<keyVars, beats, said, atts, work>>
    BY BoundsAssumption DEF TypeOK
<1>2. TypeOK'
    BY <1>1 DEF TypeOK, Key
<1>3. \A r \in Relays : \A b \in beats[r] : b.at \in Int
    BY DEF TypeOK, Beats
<1>4. BeatsOK'
    BY <1>1, <1>3, ClockAssumption DEF BeatsOK
<1>5. \A i \in DOMAIN said : said[i].at \in Int /\ Skew[said[i].by[1]] \in Int
    <2>1. \A i \in DOMAIN said : said[i] \in Events
        BY DEF TypeOK
    <2> QED
        BY <2>1, KeyFacts, ClockAssumption DEF Events
<1>6. SaidOK'
    BY <1>1, <1>5, ClockAssumption DEF SaidOK, EventOK
<1>7. \A m \in Mirrors : work[m] # Idle =>
          /\ work[m].at \in Int /\ Skew[m] \in Int
          /\ \A k \in Keys : work[m].peers[k] # Unseen => work[m].peers[k].last \in Int
    BY ClockAssumption DEF TypeOK, Builds, Peers, Observation
<1>8. WorkOK'
    <2> SUFFICES ASSUME NEW m \in Mirrors, work[m] # Idle
                 PROVE  /\ PeersOK(m)' /\ SeenOK(m)'
                        /\ work[m].phase = "day" => DayOK(m)'
        BY <1>1 DEF WorkOK
    <2>1. PeersOK(m)'
        BY <1>1, <1>7, ClockAssumption DEF WorkOK, PeersOK
    <2>2. SeenOK(m)'
        BY <1>1 DEF WorkOK, SeenOK
    <2>3. ASSUME work[m].phase = "day" PROVE DayOK(m)'
        BY <1>1, <1>7, <2>3 DEF WorkOK, DayOK, Clock
    <2> QED
        BY <2>1, <2>2, <2>3
<1>9. RecordsAreExact'
    BY <1>1 DEF RecordsAreExact, Querying, Copies
<1>10. NothingFromTheFuture'
    BY <1>1 DEF NothingFromTheFuture
<1>11. CurrentStateLanded'
    BY <1>1 DEF CurrentStateLanded
<1> QED
    BY <1>10, <1>11, <1>2, <1>4, <1>6, <1>8, <1>9

\* A heartbeat that a relay takes is not ahead of it.
LEMMA BeatStep ==
    ASSUME IInv, NEW m \in Mirrors, NEW A \in SUBSET Relays, Beat(m, A)
    PROVE  IInv'
<1> USE DEF IInv
<1> DEFINE b == [by |-> Key(m), at |-> Clock(m)]
<1>1. /\ A # {} /\ Clock(m) <= now + Tolerance
      /\ beats' = [r \in Relays |-> IF r \in A THEN beats[r] \cup {b} ELSE beats[r]]
      /\ UNCHANGED <<now, keyVars, said, atts, work>>
    BY DEF Beat, Acknowledge
<1>2. b \in Beats
    <2>1. Key(m) \in Keys /\ Clock(m) \in Int
        BY OwnKey, ClockIsInt
    <2> QED
        BY <2>1 DEF Beats
<1>3. TypeOK'
    BY <1>1, <1>2 DEF TypeOK, Key
<1>4. BeatsOK'
    BY <1>1, <1>2 DEF BeatsOK
<1>5. SaidOK' /\ WorkOK'
    BY <1>1 DEF SaidOK, EventOK, WorkOK, PeersOK, SeenOK, DayOK, Clock
<1>6. RecordsAreExact' /\ NothingFromTheFuture' /\ CurrentStateLanded'
    BY <1>1 DEF RecordsAreExact, Querying, Copies, NothingFromTheFuture, CurrentStateLanded
<1> QED
    BY <1>3, <1>4, <1>5, <1>6

\* What RecordsAreExact says of one build.
Exact(w) ==
    \A k \in Keys :
        LET times == {c[2].at : c \in Copies(w, k)}
            p == w.peers[k]
        IN  IF times = {} THEN p = Unseen
            ELSE /\ p # Unseen
                 /\ p.first \in times /\ p.last \in times
                 /\ \A t \in times : p.first <= t /\ t <= p.last
                 /\ Cardinality(times) <= p.count
                 /\ p.count <= Cardinality(Copies(w, k))

\* RecordsAreExact, one build at a time.
LEMMA ExactEach == RecordsAreExact <=> \A m \in Mirrors : Querying(m) => Exact(work[m])
BY DEF RecordsAreExact, Exact

\* A mirror that comes back, under whichever key, has nothing under way.
LEMMA RestartStep ==
    ASSUME IInv, NEW m \in Mirrors, NEW f \in 0..MaxKeys[m], NEW k \in 1..MaxKeys[m],
           Restart(m, f, k)
    PROVE  IInv'
<1> USE DEF IInv
<1>1. /\ key' = [key EXCEPT ![m] = k] /\ file' = [file EXCEPT ![m] = f]
      /\ work' = [work EXCEPT ![m] = Idle]
      /\ UNCHANGED <<now, beats, said, atts>>
    BY DEF Restart
<1>2. /\ used \in [Mirrors -> Nat] /\ MaxKeys[m] \in Nat /\ k \in Nat /\ f \in Nat
      /\ 1 <= k /\ used[m] <= MaxKeys[m]
    BY BoundsAssumption DEF TypeOK
<1>3. /\ used' \in [Mirrors -> Nat] /\ \A n \in Mirrors : n # m => used'[n] = used[n]
      /\ used[m] <= used'[m] /\ used'[m] <= MaxKeys[m] /\ k <= used'[m] /\ f <= used'[m]
    <2>1. f <= used[m]
        BY <1>2 DEF Restart, Leaves, TypeOK
    <2>2. CASE f # 0 /\ k = f /\ UNCHANGED used
        BY <1>2, <2>1, <2>2
    <2>3. CASE used[m] < MaxKeys[m] /\ k = used[m] + 1 /\ used' = [used EXCEPT ![m] = k]
        BY <1>2, <2>1, <2>3
    <2> QED
        BY <2>2, <2>3 DEF Restart
<1>4. /\ work' \in [Mirrors -> Builds \cup {Idle}] /\ work'[m] = Idle
      /\ \A n \in Mirrors : n # m => work'[n] = work[n] /\ key'[n] = key[n]
    BY <1>1 DEF TypeOK
<1>5. TypeOK'
    <2>1. /\ key' \in [Mirrors -> Nat] /\ file' \in [Mirrors -> Nat]
          /\ used' \in [Mirrors -> Nat]
        BY <1>1, <1>2, <1>3 DEF TypeOK
    <2>2. \A n \in Mirrors : /\ 1 <= key'[n] /\ key'[n] <= used'[n]
                             /\ used'[n] <= MaxKeys[n] /\ file'[n] <= used'[n]
        BY <1>1, <1>2, <1>3 DEF TypeOK
    <2> QED
        BY <1>1, <1>4, <2>1, <2>2 DEF TypeOK, Key
<1>6. BeatsOK'
    BY <1>1 DEF BeatsOK
<1>7. SaidOK'
    <2>1. \A i \in DOMAIN said : said[i] \in Events
        BY DEF TypeOK
    <2>2. \A i \in DOMAIN said : said[i].by[1] \in Mirrors /\ said[i].by[2] \in Nat
        BY <2>1, KeyFacts DEF Events
    <2>3. \A n \in Mirrors : used[n] \in Nat /\ used'[n] \in Nat /\ used[n] <= used'[n]
        BY <1>2, <1>3
    <2> QED
        BY <1>1, <2>2, <2>3 DEF SaidOK, EventOK
<1>8. WorkOK'
    <2> SUFFICES ASSUME NEW n \in Mirrors, work'[n] # Idle
                 PROVE  /\ IsFiniteSet(work'[n].got) /\ PeersOK(n)' /\ SeenOK(n)'
                        /\ work'[n].phase = "day" => DayOK(n)'
        BY DEF WorkOK
    <2>1. n # m /\ work'[n] = work[n]
        BY <1>4
    <2>2. /\ IsFiniteSet(work[n].got) /\ PeersOK(n) /\ SeenOK(n)
          /\ work[n].phase = "day" => DayOK(n)
        BY <2>1 DEF WorkOK
    <2>3. PeersOK(n)' /\ SeenOK(n)'
        BY <1>1, <2>1, <2>2 DEF PeersOK, SeenOK
    <2>4. DayOK(n) => DayOK(n)'
        BY <1>1, <2>1 DEF DayOK, Clock
    <2> QED
        BY <2>1, <2>2, <2>3, <2>4
<1>9. RecordsAreExact' /\ NothingFromTheFuture' /\ CurrentStateLanded'
    <2>1. RecordsAreExact'
        <3>1. \A n \in Mirrors : Querying(n) => Exact(work[n])
            BY ExactEach
        <3>2. \A n \in Mirrors : Querying(n)' => Exact(work'[n])
            BY <1>4, <3>1 DEF Querying
        <3> QED
            BY <3>2 DEF RecordsAreExact, Exact
    <2>2. NothingFromTheFuture'
        BY <1>1 DEF NothingFromTheFuture
    <2>3. CurrentStateLanded'
        BY <1>1 DEF CurrentStateLanded
    <2> QED
        BY <2>1, <2>2, <2>3
<1> QED
    BY <1>5, <1>6, <1>7, <1>8, <1>9

\* What only one mirror's build changes leaves the rest of the invariant alone.
LEMMA BuildStep ==
    ASSUME IInv, NEW m \in Mirrors, NEW w \in Builds \cup {Idle},
           work' = [work EXCEPT ![m] = w], UNCHANGED <<now, keyVars, beats, said, atts>>,
           w # Idle => /\ w.key = Key(m) /\ w.i \in DOMAIN RelaysOf[m]
                       /\ IsFiniteSet(w.got) /\ PeersOK(m)' /\ SeenOK(m)'
                       /\ w.phase # "day"
                       /\ w.phase # "current" => Exact(w)
    PROVE  IInv'
<1> USE DEF IInv
<1>1. /\ work' \in [Mirrors -> Builds \cup {Idle}] /\ work'[m] = w
      /\ \A n \in Mirrors : n # m => work'[n] = work[n]
    BY DEF TypeOK
<1>2. TypeOK'
    BY <1>1 DEF TypeOK, Key
<1>3. BeatsOK' /\ SaidOK'
    BY DEF BeatsOK, SaidOK, EventOK
<1>4. WorkOK'
    <2>1. ASSUME NEW n \in Mirrors, n # m, work'[n] # Idle
          PROVE  /\ IsFiniteSet(work'[n].got) /\ PeersOK(n)' /\ SeenOK(n)'
                 /\ work'[n].phase = "day" => DayOK(n)'
        BY <1>1, <2>1 DEF WorkOK, PeersOK, SeenOK, DayOK, Clock
    <2> QED
        BY <1>1, <2>1 DEF WorkOK
<1>5. NothingFromTheFuture'
    BY DEF NothingFromTheFuture
<1>6. CurrentStateLanded'
    BY DEF CurrentStateLanded
<1>7. RecordsAreExact'
    <2>1. \A n \in Mirrors : Querying(n) => Exact(work[n])
        BY ExactEach
    <2>2. \A n \in Mirrors : Querying(n)' => Exact(work'[n])
        BY <1>1, <2>1 DEF Querying
    <2> QED
        BY <2>2 DEF RecordsAreExact, Exact
<1> QED
    BY <1>2, <1>3, <1>4, <1>5, <1>6, <1>7

\* A build starts with no peers, which is exact.
LEMMA StartStep == ASSUME IInv, NEW m \in Mirrors, Start(m) PROVE IInv'
<1> DEFINE w == [key |-> Key(m), since |-> Clock(m) - Lookback, i |-> 1, at |-> 0,
                 phase |-> "beats", got |-> {}, peers |-> [k \in Keys |-> Unseen],
                 seen |-> {}]
<1>1. /\ work' = [work EXCEPT ![m] = w] /\ UNCHANGED <<now, keyVars, beats, said, atts>>
      /\ TypeOK
    BY DEF Start, IInv
<1>2. w \in Builds
    <2>1. Clock(m) - Lookback \in Int
        BY <1>1, ClockIsInt, ClockAssumption
    <2>2. Key(m) \in Keys
        BY <1>1, OwnKey
    <2> QED
        BY <2>1, <2>2 DEF Builds, Peers
<1>3. w.i \in DOMAIN RelaysOf[m]
    BY RelaysAssumption
<1>4. work'[m] = w
    BY <1>1 DEF TypeOK
<1>5. PeersOK(m)' /\ SeenOK(m)'
    BY <1>1, <1>4, OwnKey DEF PeersOK, SeenOK
<1>6. Exact(w)
    BY DEF Exact, Copies
<1>7. IsFiniteSet(w.got)
    BY FS_EmptySet
<1>8. w.key = Key(m) /\ w.phase = "beats"
    OBVIOUS
<1> HIDE DEF w
<1> QED
    BY <1>1, <1>2, <1>3, <1>5, <1>6, <1>7, <1>8, BuildStep

\* A copy that came in for k, in the record of k.
LEMMA ExactHears ==
    ASSUME NEW w \in Builds, IsFiniteSet(w.got), Exact(w), NEW b \in Beats,
           <<w.i, b>> \notin w.got
    PROVE  Exact([w EXCEPT !.got = @ \cup {<<w.i, b>>}, !.peers[b.by] = Observe(@, b.at)])
<1> DEFINE n == [w EXCEPT !.got = @ \cup {<<w.i, b>>}, !.peers[b.by] = Observe(@, b.at)]
<1>1. b.by \in Keys /\ b.at \in Int
    BY DEF Beats
<1>2. /\ w.peers \in [Keys -> Observation \cup {Unseen}]
      /\ n.got = w.got \cup {<<w.i, b>>}
      /\ n.peers = [w.peers EXCEPT ![b.by] = Observe(w.peers[b.by], b.at)]
    BY DEF Builds, Peers
<1> HIDE DEF n
<1>3. ASSUME NEW k \in Keys, k # b.by
      PROVE  Copies(n, k) = Copies(w, k) /\ n.peers[k] = w.peers[k]
    BY <1>1, <1>2, <1>3 DEF Copies
<1> DEFINE k == b.by
           C == Copies(w, k)
           T == {c[2].at : c \in C}
           p == w.peers[k]
           q == n.peers[k]
<1>4. /\ Copies(n, k) = C \cup {<<w.i, b>>} /\ <<w.i, b>> \notin C
      /\ q = Observe(p, b.at)
    BY <1>1, <1>2 DEF Copies
<1>5. {c[2].at : c \in Copies(n, k)} = T \cup {b.at}
    BY <1>4
<1>6. IsFiniteSet(C) /\ IsFiniteSet(T)
    <2>1. IsFiniteSet(C)
        <3>1. C \in SUBSET w.got
            BY DEF Copies
        <3> QED
            BY <3>1, FS_Subset
    <2>2. [c \in C |-> c[2].at] \in Surjection(C, T)
        BY DEF Surjection
    <2> QED
        BY <2>1, <2>2, FS_Surjection
<1> HIDE DEF C, T
<1>7. /\ Cardinality(C) \in Nat /\ Cardinality(T) \in Nat
      /\ Cardinality(Copies(n, k)) = Cardinality(C) + 1
      /\ Cardinality(T \cup {b.at}) <= Cardinality(T) + 1
      /\ Cardinality(T \cup {b.at}) \in Nat
    <2>1. Cardinality(C) \in Nat /\ Cardinality(T) \in Nat
        BY <1>6, FS_CardinalityType
    <2>2. Cardinality(C \cup {<<w.i, b>>}) = Cardinality(C) + 1
        BY <1>4, <1>6, FS_AddElement
    <2>3. Cardinality(T \cup {b.at}) \in {Cardinality(T), Cardinality(T) + 1}
        BY <1>6, FS_AddElement
    <2> QED
        BY <1>4, <2>1, <2>2, <2>3
<1>8. /\ T = {} => p = Unseen
      /\ T # {} => /\ p # Unseen
                   /\ p.first \in T /\ p.last \in T
                   /\ \A t \in T : p.first <= t /\ t <= p.last
                   /\ Cardinality(T) <= p.count /\ p.count <= Cardinality(C)
    BY <1>1 DEF Exact, C, T
<1>9. /\ p \in Observation \cup {Unseen} /\ T \subseteq Int
      /\ p # Unseen => p.first \in Int /\ p.last \in Int /\ p.count \in Nat
    <2>1. p \in Observation \cup {Unseen}
        BY <1>1, <1>2
    <2>2. \A c \in C : c[2].at \in Int
        BY DEF C, Copies, Builds, Beats
    <2> QED
        BY <2>1, <2>2 DEF T, Observation
<1> HIDE DEF p, q
<1>10. /\ q # Unseen
       /\ q.first \in T \cup {b.at} /\ q.last \in T \cup {b.at}
       /\ \A t \in T \cup {b.at} : q.first <= t /\ t <= q.last
       /\ Cardinality(T \cup {b.at}) <= q.count
       /\ q.count <= Cardinality(Copies(n, k))
    <2>1. CASE T = {}
        <3>1. Cardinality(T \cup {b.at}) = 1
            BY <2>1, FS_Singleton
        <3>2. q # Unseen /\ q.first = b.at /\ q.last = b.at /\ q.count = 1
            BY <1>1, <1>4, <1>8, <1>9, <2>1, ObserveFacts
        <3> QED
            BY <1>1, <1>7, <2>1, <3>1, <3>2
    <2>2. CASE T # {}
        <3>1. /\ q # Unseen /\ q \in Observation
              /\ q.first \in {b.at, p.first} /\ q.last \in {b.at, p.last}
              /\ q.first <= b.at /\ b.at <= q.last
              /\ q.first <= p.first /\ p.last <= q.last
              /\ q.count = p.count + 1
            BY <1>1, <1>4, <1>8, <1>9, <2>2, ObserveFacts
        <3>2. q.first \in Int /\ q.last \in Int
            BY <3>1 DEF Observation
        <3>3. \A t \in T : q.first <= t /\ t <= q.last
            BY <1>8, <1>9, <2>2, <3>1, <3>2
        <3>4. Cardinality(T \cup {b.at}) <= q.count /\ q.count <= Cardinality(Copies(n, k))
            BY <1>7, <1>8, <1>9, <2>2, <3>1
        <3> QED
            BY <1>8, <2>2, <3>1, <3>3, <3>4
    <2> QED
        BY <2>1, <2>2
<1>11. ASSUME NEW l \in Keys
       PROVE  LET times == {c[2].at : c \in Copies(n, l)}
                  r == n.peers[l]
              IN  IF times = {} THEN r = Unseen
                  ELSE /\ r # Unseen
                       /\ r.first \in times /\ r.last \in times
                       /\ \A t \in times : r.first <= t /\ t <= r.last
                       /\ Cardinality(times) <= r.count
                       /\ r.count <= Cardinality(Copies(n, l))
    <2>1. CASE l = k
        BY <1>5, <1>10, <2>1 DEF q
    <2>2. CASE l # k
        BY <1>3, <2>2 DEF Exact
    <2> QED
        BY <2>1, <2>2
<1> QED
    BY <1>11 DEF Exact, n

\* One more heartbeat, to a build.
LEMMA HearsStep ==
    ASSUME IInv, NEW m \in Mirrors, NEW b, HearsBeat(m, b)
    PROVE  IInv'
<1> DEFINE w == work[m]
           n == [w EXCEPT !.got = @ \cup {<<w.i, b>>}, !.peers[b.by] = Observe(@, b.at)]
<1>1. /\ TypeOK /\ w \in Builds /\ w.phase = "beats" /\ b.by # w.key
      /\ <<w.i, b>> \notin w.got /\ b \in beats[Asked(m)]
      /\ UNCHANGED <<now, keyVars, beats, said, atts>>
    BY DEF IInv, TypeOK, HearsBeat, Answer
<1>2. work' = [work EXCEPT ![m] = n]
    BY DEF HearsBeat
<1>3. Asked(m) \in Relays /\ b \in Beats /\ b.at <= now + Tolerance
    <2>1. Asked(m) \in Relays
        BY <1>1, AskedIsRelay DEF HearsBeat
    <2> QED
        BY <1>1, <2>1 DEF IInv, TypeOK, BeatsOK
<1>4. b.by \in Keys /\ b.at \in Int
    BY <1>3 DEF Beats
<1>5. /\ w.peers \in [Keys -> Observation \cup {Unseen}]
      /\ w.i \in Nat \ {0} /\ w.key = Key(m)
    <2>1. w.key = Key(m)
        BY <1>1 DEF TypeOK, HearsBeat
    <2> QED
        BY <1>1, <2>1 DEF Builds, Peers
<1>6. Observe(w.peers[b.by], b.at) \in Observation
    BY <1>4, <1>5, ObserveFacts
<1>7. /\ n.key = w.key /\ n.i = w.i /\ n.phase = "beats" /\ n.seen = w.seen
      /\ n.got = w.got \cup {<<w.i, b>>}
      /\ n.peers = [w.peers EXCEPT ![b.by] = Observe(w.peers[b.by], b.at)]
    BY <1>1, <1>5 DEF Builds
<1>8. n \in Builds
    <2>1. n.got \in SUBSET (Nat \X Beats)
        BY <1>1, <1>3, <1>5, <1>7 DEF Builds
    <2>2. n.peers \in Peers
        BY <1>5, <1>6, <1>7 DEF Peers
    <2> QED
        BY <1>1, <2>1, <2>2 DEF Builds
<1>9. work[m] # Idle /\ Querying(m)
    BY DEF HearsBeat, Querying
<1>10. IsFiniteSet(w.got) /\ PeersOK(m) /\ SeenOK(m) /\ Exact(w)
    BY <1>9, ExactEach DEF IInv, WorkOK
<1>11. Exact(n)
    BY <1>1, <1>3, <1>10, ExactHears
<1>12. IsFiniteSet(n.got)
    BY <1>7, <1>10, FS_AddElement
<1> HIDE DEF n
<1>13. work'[m] = n
    BY <1>1, <1>2 DEF TypeOK
<1>14. PeersOK(m)'
    <2>0. w.key \in Keys /\ n.peers[w.key] = Unseen
        BY <1>1, <1>4, <1>5, <1>7, <1>10 DEF PeersOK, Builds
    <2> SUFFICES ASSUME NEW k \in Keys, n.peers[k] # Unseen
                 PROVE  n.peers[k].last <= now + Tolerance
        BY <1>1, <1>7, <1>13, <2>0 DEF PeersOK
    <2>1. CASE k # b.by
        BY <1>5, <1>7, <1>10, <2>1 DEF PeersOK
    <2>2. CASE k = b.by
        <3>1. /\ w.peers[k] \in Observation \cup {Unseen}
              /\ n.peers[k] = Observe(w.peers[k], b.at)
            BY <1>5, <1>7, <2>2
        <3>2. w.peers[k] # Unseen => w.peers[k].last <= now + Tolerance
            BY <1>10 DEF PeersOK
        <3>3. n.peers[k].last = b.at \/ n.peers[k].last = w.peers[k].last
            BY <1>4, <3>1, ObserveFacts
        <3>4. w.peers[k] = Unseen => n.peers[k].last = b.at
            BY <1>4, <3>1, ObserveFacts
        <3> QED
            BY <1>3, <3>2, <3>3, <3>4
    <2> QED
        BY <2>1, <2>2
<1>15. SeenOK(m)'
    BY <1>1, <1>7, <1>10, <1>13 DEF SeenOK
<1>16. n.i \in DOMAIN RelaysOf[m]
    BY <1>1, <1>7, <1>9 DEF TypeOK
<1> QED
    BY <1>1, <1>2, <1>5, <1>7, <1>8, <1>11, <1>12, <1>14, <1>15, <1>16, BuildStep

\* One more attestation referred to, which is older than what will refer to it.
LEMMA SeesStep ==
    ASSUME IInv, NEW m \in Mirrors, NEW id \in DOMAIN said, SeesAtt(m, id)
    PROVE  IInv'
<1> DEFINE w == work[m]
           n == [w EXCEPT !.seen = @ \cup {id}]
<1>1. /\ TypeOK /\ w \in Builds /\ w # Idle /\ w.phase = "atts" /\ said[id].by # w.key
      /\ work' = [work EXCEPT ![m] = n]
      /\ UNCHANGED <<now, keyVars, beats, said, atts>>
    BY DEF IInv, TypeOK, SeesAtt
<1>2. said[id] \in Events /\ id \in Nat
    BY <1>1 DEF TypeOK
<1>3. /\ n \in Builds /\ n.seen = w.seen \cup {id} /\ n.phase = "atts" /\ n.key = w.key
      /\ n.i = w.i /\ n.got = w.got /\ n.peers = w.peers
    BY <1>1, <1>2 DEF Builds
<1>4. Querying(m)
    BY <1>1 DEF Querying
<1>5. IsFiniteSet(w.got) /\ PeersOK(m) /\ SeenOK(m) /\ Exact(w)
    BY <1>1, <1>4, ExactEach DEF IInv, WorkOK
<1>6. Exact(n)
    BY <1>3, <1>5 DEF Exact, Copies
<1>7. n.key = Key(m) /\ n.i \in DOMAIN RelaysOf[m]
    BY <1>1, <1>3 DEF TypeOK
<1> HIDE DEF n
<1>8. work'[m] = n
    BY <1>1 DEF TypeOK
<1>9. PeersOK(m)'
    BY <1>1, <1>3, <1>5, <1>8 DEF PeersOK
<1>10. SeenOK(m)'
    BY <1>1, <1>3, <1>5, <1>8 DEF SeenOK
<1> QED
    BY <1>1, <1>3, <1>5, <1>6, <1>7, <1>9, <1>10, BuildStep

\* A query that ends leads to the next one, or to publishing.
LEMMA MovesOn ==
    ASSUME IInv, NEW m \in Mirrors, Querying(m), NEW n \in Builds,
           work' = [work EXCEPT ![m] = n], UNCHANGED <<now, keyVars, beats, said, atts>>,
           n.key = work[m].key, n.i \in DOMAIN RelaysOf[m], n.peers = work[m].peers,
           n.seen = work[m].seen, n.phase # "day",
           n.phase # "current" => n.got = work[m].got,
           n.phase = "current" => n.got = {}
    PROVE  IInv'
<1>1. TypeOK /\ work[m] # Idle
    BY DEF IInv, Querying
<1>2. IsFiniteSet(work[m].got) /\ PeersOK(m) /\ SeenOK(m) /\ Exact(work[m])
    BY <1>1, ExactEach DEF IInv, WorkOK
<1>3. IsFiniteSet(n.got) /\ (n.phase # "current" => Exact(n))
    BY <1>2, FS_EmptySet DEF Exact, Copies
<1>4. work'[m] = n
    BY <1>1 DEF TypeOK
<1>5. PeersOK(m)' /\ SeenOK(m)'
    BY <1>2, <1>4 DEF PeersOK, SeenOK
<1>6. n.key = Key(m)
    BY <1>1 DEF TypeOK
<1> QED
    BY <1>3, <1>5, <1>6, BuildStep

\* The ends of both queries.
LEMMA EndsStep ==
    ASSUME IInv, NEW m \in Mirrors, EndsBeats(m) \/ EndsAtts(m)
    PROVE  IInv'
<1> DEFINE w == work[m]
<1>1. TypeOK /\ w \in Builds /\ Querying(m)
    BY DEF IInv, TypeOK, EndsBeats, EndsAtts, Querying
<1>2. RelaysOf[m] \in Seq(Relays) /\ RelaysOf[m] # <<>> /\ w.i \in DOMAIN RelaysOf[m]
    BY <1>1, RelaysAssumption DEF TypeOK, Querying
<1>3. CASE EndsBeats(m)
    <2> DEFINE n == [w EXCEPT !.phase = "atts"]
    <2>1. work' = [work EXCEPT ![m] = n] /\ UNCHANGED <<now, keyVars, beats, said, atts>>
        BY <1>3 DEF EndsBeats
    <2>2. /\ n \in Builds /\ n.key = w.key /\ n.i = w.i /\ n.peers = w.peers
          /\ n.seen = w.seen /\ n.phase = "atts" /\ n.got = w.got
        BY <1>1 DEF Builds
    <2> HIDE DEF n
    <2>3. n.i \in DOMAIN RelaysOf[m] /\ n.phase # "day"
        BY <1>2, <2>2
    <2> QED
        BY <1>1, <2>1, <2>2, <2>3, MovesOn
<1>4. CASE EndsAtts(m) /\ w.i < Len(RelaysOf[m])
    <2> DEFINE n == [w EXCEPT !.i = @ + 1, !.phase = "beats"]
    <2>1. work' = [work EXCEPT ![m] = n] /\ UNCHANGED <<now, keyVars, beats, said, atts>>
        BY <1>4 DEF EndsAtts
    <2>2. w.i + 1 \in DOMAIN RelaysOf[m] /\ w.i + 1 \in Nat \ {0}
        BY <1>2, <1>4
    <2>3. /\ n \in Builds /\ n.key = w.key /\ n.i = w.i + 1 /\ n.peers = w.peers
          /\ n.seen = w.seen /\ n.phase = "beats" /\ n.got = w.got
        BY <1>1, <2>2 DEF Builds
    <2> HIDE DEF n
    <2>4. n.phase # "day"
        BY <2>3
    <2> QED
        BY <1>1, <2>1, <2>2, <2>3, <2>4, MovesOn
<1>5. CASE EndsAtts(m) /\ ~(w.i < Len(RelaysOf[m]))
    <2> DEFINE x == [w EXCEPT !.phase = "current"]
               y == [x EXCEPT !.got = {}]
               n == [y EXCEPT !.i = 1]
    <2>1. work' = [work EXCEPT ![m] = n] /\ UNCHANGED <<now, keyVars, beats, said, atts>>
        BY <1>5 DEF EndsAtts
    <2>2. {} \in SUBSET (Nat \X Beats) /\ 1 \in Nat \ {0} /\ 1 \in DOMAIN RelaysOf[m]
        BY <1>2
    <2>3. /\ x \in Builds /\ x.key = w.key /\ x.peers = w.peers /\ x.seen = w.seen
          /\ x.phase = "current"
        BY <1>1 DEF Builds
    <2> HIDE DEF x
    <2>4. /\ y \in Builds /\ y.key = w.key /\ y.peers = w.peers /\ y.seen = w.seen
          /\ y.phase = "current" /\ y.got = {}
        BY <2>2, <2>3 DEF Builds
    <2> HIDE DEF y
    <2>5. /\ n \in Builds /\ n.key = w.key /\ n.peers = w.peers /\ n.seen = w.seen
          /\ n.phase = "current" /\ n.got = {} /\ n.i = 1
        BY <2>2, <2>4 DEF Builds
    <2> HIDE DEF n
    <2> QED
        BY <1>1, <2>1, <2>2, <2>5, MovesOn
<1> QED
    BY <1>3, <1>4, <1>5

-----------------------------------------------------------------------------
(* Steps that publish an attestation.                                       *)

\* What a relay that takes an event does to what was said before.
LEMMA SendFacts ==
    ASSUME IInv, NEW m \in Mirrors, NEW e \in Events, NEW A \in SUBSET Relays,
           A # {}, Send(m, e, A)
    PROVE  /\ e.at <= now + Tolerance /\ UNCHANGED <<now, keyVars, beats>>
           /\ said' \in Seq(Events) /\ DOMAIN said = 1..Len(said) /\ Len(said) \in Nat
           /\ DOMAIN said' = DOMAIN said \cup {Len(said) + 1}
           /\ \A i \in DOMAIN said : said[i] \in Events /\ said'[i] = said[i]
           /\ said'[Len(said) + 1] = e
           /\ atts' \in [Relays -> SUBSET DOMAIN said']
           /\ \A r \in Relays : atts[r] \subseteq DOMAIN said
           /\ \A r \in Relays :
                  atts'[r] = IF r \in A THEN Holds(atts[r], e) ELSE atts[r]
<1>1. said \in Seq(Events) /\ atts \in [Relays -> SUBSET DOMAIN said]
    BY DEF IInv, TypeOK
<1>2. /\ said' = Append(said, e) /\ e.at <= now + Tolerance
      /\ atts' = [r \in Relays |-> IF r \in A THEN Holds(atts[r], e) ELSE atts[r]]
      /\ UNCHANGED <<now, keyVars, beats>>
    BY DEF Send, Acknowledge
<1>3. /\ said' \in Seq(Events) /\ DOMAIN said = 1..Len(said) /\ Len(said) \in Nat
      /\ DOMAIN said' = DOMAIN said \cup {Len(said) + 1}
      /\ \A i \in DOMAIN said : said[i] \in Events /\ said'[i] = said[i]
      /\ said'[Len(said) + 1] = e
    BY <1>1, <1>2
<1>4. atts' \in [Relays -> SUBSET DOMAIN said']
    BY <1>1, <1>2, <1>3 DEF Holds
<1> QED
    BY <1>1, <1>2, <1>3, <1>4

\* What both events have in common: their mirror, what it saw and how they are dated.
Own(m, e) ==
    /\ work[m] # Idle /\ e.by = Key(m) /\ e.peers = work[m].peers /\ e.seen = work[m].seen
    /\ e.at <= Clock(m)
    /\ Skew[m] >= 0 =>
          /\ \A k \in Keys : e.peers[k] # Unseen => e.peers[k].last <= e.at + Tolerance
          /\ \A id \in e.seen : said[id].at <= e.at + Tolerance
    /\ IF e.d = Current THEN e.at = Clock(m)
       ELSE \E q \in Relays : \E j \in atts[q] :
                said[j].d = Current /\ said[j].by = e.by /\ said[j].at >= e.at

\* The new event, and all older ones.
LEMMA SaidStep ==
    ASSUME IInv, NEW m \in Mirrors, NEW e \in Events, NEW A \in SUBSET Relays,
           A # {}, Send(m, e, A), Own(m, e)
    PROVE  BeatsOK' /\ SaidOK' /\ NothingFromTheFuture'
<1>0. PICK x \in Nat : /\ x = Len(said) + 1 /\ x \notin DOMAIN said
                       /\ DOMAIN said = 1..(x - 1)
    BY SendFacts
<1>1. /\ e.at <= now + Tolerance /\ UNCHANGED <<now, keyVars, beats>>
      /\ DOMAIN said' = DOMAIN said \cup {x}
      /\ \A i \in DOMAIN said : said[i] \in Events /\ said'[i] = said[i]
      /\ said'[x] = e
    BY <1>0, SendFacts
<1>2. /\ TypeOK /\ PeersOK(m) /\ SeenOK(m) /\ work[m].key = Key(m)
      /\ Key(m)[1] = m /\ Key(m)[2] = key[m] /\ key[m] <= used[m]
    BY OwnKey DEF IInv, WorkOK, Own, TypeOK
<1>3. BeatsOK'
    BY <1>1 DEF IInv, BeatsOK
<1>4. \A i \in DOMAIN said : \A id \in said[i].seen : id \in DOMAIN said
    <2> SUFFICES ASSUME NEW i \in DOMAIN said, NEW id \in said[i].seen
                 PROVE  id \in DOMAIN said
        OBVIOUS
    <2>1. id \in 1..(i - 1)
        BY DEF IInv, SaidOK, EventOK
    <2> QED
        BY <1>0, <2>1
<1>5. ASSUME NEW i \in DOMAIN said PROVE EventOK(i)'
    <2>1. EventOK(i)
        BY DEF IInv, SaidOK
    <2>2. said'[i] = said[i] /\ \A id \in said[i].seen : said'[id] = said[id]
        BY <1>1, <1>4
    <2> QED
        BY <1>1, <2>1, <2>2 DEF EventOK
<1>6. EventOK(x)'
    <2>1. e.at <= now + Skew[e.by[1]] /\ e.by[2] <= used[e.by[1]]
        BY <1>2 DEF Own, Clock
    <2>2. ASSUME NEW id \in e.seen
          PROVE  id \in 1..(x - 1) /\ said'[id] = said[id] /\ said[id].by # e.by
        BY <1>0, <1>1, <1>2, <2>2 DEF Own, SeenOK
    <2>3. e.peers[e.by] = Unseen
        BY <1>2 DEF Own, PeersOK
    <2> QED
        BY <1>1, <2>1, <2>2, <2>3 DEF EventOK
<1>7. SaidOK'
    BY <1>1, <1>5, <1>6 DEF SaidOK
<1>8. NothingFromTheFuture'
    <2> SUFFICES ASSUME NEW i \in DOMAIN said', Skew[said'[i].by[1]] >= 0
                 PROVE  /\ \A id \in said'[i].seen :
                               id < i /\ said'[id].at <= said'[i].at + Tolerance
                        /\ \A k \in Keys : said'[i].peers[k] # Unseen =>
                               said'[i].peers[k].last <= said'[i].at + Tolerance
        BY DEF NothingFromTheFuture
    <2>1. CASE i \in DOMAIN said
        <3>1. said'[i] = said[i] /\ \A id \in said[i].seen : said'[id] = said[id]
            BY <1>1, <1>4, <2>1
        <3> QED
            BY <2>1, <3>1 DEF IInv, NothingFromTheFuture
    <2>2. CASE i = x
        <3>1. Skew[m] >= 0
            BY <1>1, <1>2, <2>2 DEF Own
        <3>2. ASSUME NEW id \in e.seen
              PROVE  id < x /\ said'[id] = said[id]
            BY <1>0, <1>1, <1>2, <3>2 DEF Own, SeenOK
        <3> QED
            BY <1>1, <2>2, <3>1, <3>2 DEF Own
    <2> QED
        BY <1>1, <2>1, <2>2
<1> QED
    BY <1>3, <1>7, <1>8

\* A current state is replaced by a newer one of its key only.
LEMMA LandedStep ==
    ASSUME IInv, NEW m \in Mirrors, NEW e \in Events, NEW A \in SUBSET Relays,
           A # {}, Send(m, e, A), Own(m, e)
    PROVE  CurrentStateLanded'
<1>0. PICK x \in Nat : x = Len(said) + 1 /\ x \notin DOMAIN said
    BY SendFacts
<1> DEFINE Landed(k, t) == \E q \in Relays : \E j \in atts[q] :
                               said[j].d = Current /\ said[j].by = k /\ said[j].at >= t
           LandedNow(k, t) == \E q \in Relays : \E j \in atts'[q] :
                                  said'[j].d = Current /\ said'[j].by = k /\ said'[j].at >= t
<1>1. /\ DOMAIN said' = DOMAIN said \cup {x}
      /\ \A i \in DOMAIN said : said[i] \in Events /\ said'[i] = said[i]
      /\ said'[x] = e /\ atts' \in [Relays -> SUBSET DOMAIN said']
      /\ \A r \in Relays : atts[r] \subseteq DOMAIN said
    BY <1>0, SendFacts
<1>1a. ASSUME NEW r \in Relays
       PROVE  /\ r \in A => x \in atts'[r]
              /\ \A i \in atts'[r] : i = x \/ i \in atts[r]
              /\ \A i \in atts[r] :
                    i \in atts'[r] \/ (r \in A /\ said[i].by = e.by /\ said[i].d = e.d)
    <2>1. atts'[r] = IF r \in A THEN Holds(atts[r], e) ELSE atts[r]
        BY SendFacts
    <2>2. \A i : i \in Holds(atts[r], e) <=>
              i = x \/ (i \in atts[r] /\ (said[i].by # e.by \/ said[i].d # e.d))
        BY <1>0 DEF Holds
    <2> QED
        BY <2>1, <2>2
<1>2. e.at \in Int /\ e.by = Key(m) /\ Key(m)[1] = m /\ Clock(m) = now + Skew[m] /\ TypeOK
    BY OwnKey DEF Own, Events, IInv, Clock
<1>3. ASSUME NEW k, NEW t \in Int, Landed(k, t) PROVE LandedNow(k, t)
    <2>1. PICK q \in Relays : \E j \in atts[q] :
                said[j].d = Current /\ said[j].by = k /\ said[j].at >= t
        BY <1>3
    <2>2. PICK j \in atts[q] : said[j].d = Current /\ said[j].by = k /\ said[j].at >= t
        BY <2>1
    <2>3. j \in DOMAIN said /\ said'[j] = said[j] /\ said[j].at \in Int
        BY <1>1 DEF Events
    <2>4. CASE j \in atts'[q]
        BY <2>2, <2>3, <2>4
    <2>5. CASE j \notin atts'[q]
        <3>1. q \in A /\ x \in atts'[q] /\ said[j].by = e.by /\ said[j].d = e.d
            BY <1>1a, <2>5
        <3>2. e.d = Current /\ e.at = Clock(m)
            BY <2>2, <3>1 DEF Own
        <3>3. said[j].at <= now + Skew[m]
            BY <1>2, <2>3, <3>1 DEF IInv, SaidOK, EventOK
        <3>4. e.at >= t
            BY <1>2, <2>2, <2>3, <3>2, <3>3
        <3> QED
            BY <1>1, <2>2, <3>1, <3>2, <3>4
    <2> QED
        BY <2>4, <2>5
<1>4. ASSUME NEW r \in Relays, NEW i \in atts'[r], said'[i].d # Current
      PROVE  LandedNow(said'[i].by, said'[i].at)
    <2>1. CASE i = x
        <3>1. said'[i] = e /\ e.d # Current
            BY <1>1, <1>4, <2>1
        <3>2. Landed(e.by, e.at)
            BY <3>1 DEF Own
        <3>3. LandedNow(e.by, e.at)
            BY <1>2, <1>3, <3>2
        <3> QED
            BY <3>1, <3>3
    <2>2. CASE i # x
        <3>1. i \in atts[r] /\ i \in DOMAIN said /\ said'[i] = said[i] /\ said[i].at \in Int
            BY <1>1, <1>1a, <1>4, <2>2 DEF Events
        <3> QED
            BY <1>3, <1>4, <3>1 DEF IInv, CurrentStateLanded
    <2> QED
        BY <2>1, <2>2
<1> QED
    BY <1>4 DEF CurrentStateLanded

\* No mirror but m replaces what m has put on the relays.
LEMMA OthersStep ==
    ASSUME IInv, NEW m \in Mirrors, NEW e \in Events, NEW A \in SUBSET Relays,
           A # {}, Send(m, e, A), Own(m, e),
           NEW n \in Mirrors, n # m, work'[n] = work[n], work[n] # Idle
    PROVE  /\ IsFiniteSet(work[n].got) /\ PeersOK(n)' /\ SeenOK(n)'
           /\ work[n].phase = "day" => DayOK(n)'
<1>1. /\ DOMAIN said' = DOMAIN said \cup {Len(said) + 1}
      /\ \A i \in DOMAIN said : said'[i] = said[i]
      /\ \A r \in Relays : atts[r] \subseteq DOMAIN said
      /\ \A r \in Relays :
             atts'[r] = IF r \in A THEN Holds(atts[r], e) ELSE atts[r]
      /\ UNCHANGED <<now, keyVars, beats>>
    BY SendFacts
<1>2. /\ IsFiniteSet(work[n].got) /\ PeersOK(n) /\ SeenOK(n)
      /\ work[n].phase = "day" => DayOK(n)
    BY DEF IInv, WorkOK
<1>3. PeersOK(n)' /\ SeenOK(n)'
    BY <1>1, <1>2 DEF PeersOK, SeenOK
<1>4. ASSUME work[n].phase = "day" PROVE DayOK(n)'
    <2>1. Key(m) # work[n].key
        <3>1. work[n].key = Key(n) /\ Key(n)[1] = n /\ Key(m)[1] = m
            BY OwnKey DEF IInv, TypeOK
        <3> QED
            BY <3>1
    <2>2. PICK q \in Relays : \E j \in atts[q] :
              said[j].d = Current /\ said[j].by = work[n].key /\ said[j].at >= work[n].at
        BY <1>2, <1>4 DEF DayOK
    <2>3. PICK j \in atts[q] :
              said[j].d = Current /\ said[j].by = work[n].key /\ said[j].at >= work[n].at
        BY <2>2
    <2>4. j \in atts'[q] /\ said'[j] = said[j]
        BY <1>1, <2>1, <2>3 DEF Holds, Own
    <2>5. \A id \in work[n].seen : said'[id] = said[id]
        BY <1>1, <1>2 DEF SeenOK
    <2> QED
        BY <1>1, <1>2, <1>4, <2>3, <2>4, <2>5 DEF DayOK, Clock
<1> QED
    BY <1>2, <1>3, <1>4

\* Work goes on with one mirror's new state and the others' as they are.
LEMMA PublishedStep ==
    ASSUME IInv, NEW m \in Mirrors, NEW e \in Events, NEW A \in SUBSET Relays,
           A # {}, Send(m, e, A), Own(m, e), NEW w \in Builds \cup {Idle},
           work' = [work EXCEPT ![m] = w],
           w # Idle => /\ w.key = work[m].key /\ w.i = work[m].i /\ w.got = work[m].got
                       /\ w.peers = work[m].peers /\ w.seen = work[m].seen
                       /\ w.phase = "day" /\ DayOK(m)'
    PROVE  IInv'
<1>1. /\ DOMAIN said' = DOMAIN said \cup {Len(said) + 1} /\ said' \in Seq(Events)
      /\ \A i \in DOMAIN said : said'[i] = said[i]
      /\ atts' \in [Relays -> SUBSET DOMAIN said'] /\ UNCHANGED <<now, keyVars, beats>>
    BY SendFacts
<1>2. /\ work' \in [Mirrors -> Builds \cup {Idle}] /\ work'[m] = w
      /\ \A n \in Mirrors : n # m => work'[n] = work[n]
    BY DEF IInv, TypeOK
<1>3. /\ work[m] # Idle /\ TypeOK /\ IsFiniteSet(work[m].got) /\ PeersOK(m) /\ SeenOK(m)
    BY DEF Own, IInv, WorkOK
<1>4. TypeOK'
    BY <1>1, <1>2, <1>3 DEF TypeOK, Key
<1>5. WorkOK'
    <2>1. ASSUME NEW n \in Mirrors, n # m, work'[n] # Idle
          PROVE  /\ IsFiniteSet(work'[n].got) /\ PeersOK(n)' /\ SeenOK(n)'
                 /\ work'[n].phase = "day" => DayOK(n)'
        BY <1>2, <2>1, OthersStep
    <2>2. ASSUME w # Idle
          PROVE  IsFiniteSet(w.got) /\ PeersOK(m)' /\ SeenOK(m)'
        BY <1>1, <1>2, <1>3, <2>2 DEF PeersOK, SeenOK
    <2> QED
        BY <1>2, <2>1, <2>2 DEF WorkOK
<1>6. RecordsAreExact'
    <2>1. \A n \in Mirrors : Querying(n) => Exact(work[n])
        BY ExactEach DEF IInv
    <2>2. \A n \in Mirrors : Querying(n)' => Exact(work'[n])
        BY <1>2, <2>1 DEF Querying
    <2> QED
        BY <2>2 DEF RecordsAreExact, Exact
<1> QED
    BY <1>4, <1>5, <1>6, SaidStep, LandedStep DEF IInv

\* The time of both events is taken after the last query.
LEMMA CurrentStep ==
    ASSUME IInv, NEW m \in Mirrors, NEW A \in SUBSET Relays, PublishCurrent(m, A)
    PROVE  IInv'
<1> DEFINE e == Says(m, Current, Clock(m))
           y == [work[m] EXCEPT !.phase = "day"]
           z == [y EXCEPT !.at = Clock(m)]
           w == [z EXCEPT !.since = 0]
<1>1. /\ TypeOK /\ work[m] # Idle /\ work[m] \in Builds /\ work[m].key = Key(m)
      /\ Clock(m) \in Int /\ Skew[m] \in Int /\ Clock(m) = now + Skew[m] /\ now \in Int
      /\ Key(m)[1] = m
    BY ClockIsInt, OwnKey, ClockAssumption DEF IInv, TypeOK, PublishCurrent, Clock
<1>2. PeersOK(m) /\ SeenOK(m)
    BY <1>1 DEF IInv, WorkOK
<1>3. /\ e.by = Key(m) /\ e.d = Current /\ e.at = Clock(m)
      /\ e.peers = work[m].peers /\ e.seen = work[m].seen /\ e \in Events
    BY <1>1 DEF Says, Events, Builds
<1>4. Send(m, e, A)
    BY DEF PublishCurrent
<1>5. CASE A = {}
    <2>1. work' = [work EXCEPT ![m] = Idle] /\ UNCHANGED <<now, keyVars, beats, said>>
        BY <1>5 DEF PublishCurrent, Send
    <2>2. atts' = atts
        BY <1>1, <1>5 DEF PublishCurrent, Send, TypeOK
    <2> QED
        BY <2>1, <2>2, BuildStep
<1>6. CASE A # {}
    <2>1. work' = [work EXCEPT ![m] = w]
        BY <1>6 DEF PublishCurrent
    <2>2. /\ w \in Builds /\ w.key = work[m].key /\ w.i = work[m].i /\ w.got = work[m].got
          /\ w.peers = work[m].peers /\ w.seen = work[m].seen
          /\ w.phase = "day" /\ w.at = Clock(m)
        <3>1. /\ y \in Builds /\ y.key = work[m].key /\ y.i = work[m].i
              /\ y.got = work[m].got /\ y.peers = work[m].peers /\ y.seen = work[m].seen
              /\ y.phase = "day"
            BY <1>1 DEF Builds
        <3> HIDE DEF y
        <3>2. /\ z \in Builds /\ z.key = work[m].key /\ z.i = work[m].i
              /\ z.got = work[m].got /\ z.peers = work[m].peers /\ z.seen = work[m].seen
              /\ z.phase = "day" /\ z.at = Clock(m)
            BY <1>1, <3>1 DEF Builds
        <3> HIDE DEF z
        <3> QED
            BY <3>2 DEF Builds
    <2> HIDE DEF e, w
    <2>3. work'[m] = w
        BY <1>1, <2>1 DEF TypeOK
    <2>4. \A id \in work[m].seen : id \in DOMAIN said /\ said[id].at <= now + Tolerance
        BY <1>2 DEF SeenOK, IInv, SaidOK, EventOK
    <2>5. \A id \in work[m].seen : said[id].at \in Int
        BY <1>1, <2>4, SaidTypes
    <2>6. \A k \in Keys : work[m].peers[k] # Unseen =>
              work[m].peers[k].last \in Int /\ work[m].peers[k].last <= now + Tolerance
        BY <1>1, <1>2 DEF PeersOK, Builds, Peers, Observation
    <2>7. Tolerance \in Int
        BY ClockAssumption
    <2>8. Own(m, e)
        <3>1. Skew[m] >= 0 => now + Tolerance <= e.at + Tolerance
            BY <1>1, <1>3, <2>7
        <3>2. e.at <= Clock(m)
            BY <1>1, <1>3
        <3> QED
            BY <1>1, <1>3, <2>4, <2>5, <2>6, <2>7, <3>1, <3>2 DEF Own
    <2>9. /\ DOMAIN said' = DOMAIN said \cup {Len(said) + 1}
          /\ \A i \in DOMAIN said : said'[i] = said[i]
          /\ said'[Len(said) + 1] = e /\ UNCHANGED <<now, keyVars, beats>>
          /\ \A r \in Relays :
                 atts'[r] = IF r \in A THEN Holds(atts[r], e) ELSE atts[r]
        BY <1>3, <1>4, <1>6, SendFacts
    <2>10. DayOK(m)'
        <3>1. /\ Clock(m)' = Clock(m) /\ w.at - Skew[m] + Tolerance = now + Tolerance
              /\ w.at <= Clock(m)
            BY <1>1, <2>2, <2>7, <2>9 DEF Clock
        <3>2. \A id \in w.seen : said'[id] = said[id]
            BY <2>2, <2>4, <2>9
        <3>3. PICK q \in A : q \in Relays
            BY <1>6
        <3>4. Len(said) + 1 \in atts'[q]
            BY <2>9, <3>3 DEF Holds
        <3>5. PICK x \in atts'[q] : said'[x] = e
            BY <2>9, <3>4
        <3>6. said'[x].d = Current /\ said'[x].by = w.key /\ said'[x].at >= w.at
            BY <1>1, <1>3, <2>2, <3>5
        <3> QED
            BY <2>2, <2>3, <2>4, <2>6, <2>9, <3>1, <3>2, <3>3, <3>6 DEF DayOK
    <2> QED
        BY <1>3, <1>4, <1>6, <2>1, <2>2, <2>8, <2>10, PublishedStep
<1> QED
    BY <1>5, <1>6

\* The archive gets the time of the current state that landed before it.
LEMMA DayStep ==
    ASSUME IInv, NEW m \in Mirrors, NEW A \in SUBSET Relays, PublishDay(m, A)
    PROVE  IInv'
<1> DEFINE e == Says(m, work[m].at \div DayLength, work[m].at)
<1>1. /\ TypeOK /\ work[m] # Idle /\ work[m] \in Builds /\ work[m].key = Key(m)
      /\ Skew[m] \in Int /\ DayOK(m) /\ work[m].at \in Int /\ Tolerance \in Int
    <2>1. TypeOK /\ work[m] # Idle /\ work[m].phase = "day"
        BY DEF IInv, PublishDay
    <2>2. work[m] \in Builds /\ work[m].key = Key(m)
        BY <2>1 DEF TypeOK
    <2>3. DayOK(m)
        BY <2>1 DEF IInv, WorkOK
    <2> QED
        BY <2>1, <2>2, <2>3, ClockAssumption DEF Builds
<1>2. work[m].at \div DayLength \in Int
    BY <1>1, ClockAssumption
<1>3. /\ e.by = Key(m) /\ e.d = work[m].at \div DayLength /\ e.at = work[m].at
      /\ e.peers = work[m].peers /\ e.seen = work[m].seen /\ e \in Events
    BY <1>1, <1>2 DEF Says, Events, Builds
<1>4. Send(m, e, A) /\ work' = [work EXCEPT ![m] = Idle]
    BY DEF PublishDay
<1>5. CASE A = {}
    <2>1. UNCHANGED <<now, keyVars, beats, said>>
        BY <1>5 DEF PublishDay, Send
    <2>2. atts' = atts
        BY <1>1, <1>5 DEF PublishDay, Send, TypeOK
    <2> QED
        BY <1>4, <2>1, <2>2, BuildStep
<1>6. CASE A # {}
    <2>1. e.d # Current
        BY <1>2, <1>3, MarkersAssumption
    <2> HIDE DEF e
    <2>2. \A id \in work[m].seen : said[id].at \in Int
        BY <1>1, SaidTypes DEF IInv, WorkOK, SeenOK
    <2>3. \A k \in Keys : work[m].peers[k] # Unseen => work[m].peers[k].last \in Int
        BY <1>1 DEF Builds, Peers, Observation
    <2>4. Skew[m] >= 0 => work[m].at - Skew[m] + Tolerance <= e.at + Tolerance
        BY <1>1, <1>3
    <2>5. Own(m, e)
        BY <1>1, <1>3, <2>1, <2>2, <2>3, <2>4 DEF Own, DayOK
    <2> QED
        BY <1>3, <1>4, <1>6, <2>5, PublishedStep
<1> QED
    BY <1>5, <1>6

-----------------------------------------------------------------------------
\* Nothing has been heard or said at first.
LEMMA InitIInv == Init => IInv
<1> SUFFICES ASSUME Init PROVE IInv
    OBVIOUS
<1>1. DOMAIN said = {} /\ said \in Seq(Events)
    BY DEF Init
<1>2. TypeOK
    BY <1>1, BoundsAssumption DEF Init, TypeOK
<1>3. BeatsOK /\ SaidOK /\ WorkOK
    BY <1>1 DEF Init, BeatsOK, SaidOK, WorkOK
<1>4. RecordsAreExact /\ NothingFromTheFuture /\ CurrentStateLanded
    BY <1>1 DEF Init, RecordsAreExact, Querying, NothingFromTheFuture, CurrentStateLanded
<1> QED
    BY <1>2, <1>3, <1>4 DEF IInv

\* The inductive invariant holds throughout.
LEMMA AttestationInvariant == Spec => []IInv
<1>1. IInv /\ [Next]_vars => IInv'
    <2> SUFFICES ASSUME IInv, [Next]_vars PROVE IInv'
        OBVIOUS
    <2>1. CASE UNCHANGED vars
        <3>1. UNCHANGED <<now, keyVars, beats, said, atts, work>>
            BY <2>1 DEF vars
        <3>2. TypeOK' /\ BeatsOK' /\ SaidOK' /\ WorkOK'
            BY <3>1
            DEF IInv, TypeOK, Key, BeatsOK, SaidOK, EventOK, WorkOK, PeersOK, SeenOK, DayOK,
                Clock
        <3>3. RecordsAreExact'
            BY <3>1 DEF IInv, RecordsAreExact, Querying, Copies
        <3>4. NothingFromTheFuture'
            BY <3>1 DEF IInv, NothingFromTheFuture
        <3>5. CurrentStateLanded'
            BY <3>1 DEF IInv, CurrentStateLanded
        <3> QED
            BY <3>2, <3>3, <3>4, <3>5 DEF IInv
    <2> QED
        BY <2>1, TickStep, BeatStep, RestartStep, StartStep, HearsStep, SeesStep, EndsStep,
            CurrentStep, DayStep
        DEF Next
<1> QED
    BY <1>1, InitIInv, PTL DEF Spec

\* Everyone's variables keep their types.
THEOREM AttestationTypeCorrect == Spec => []TypeOK
BY AttestationInvariant, PTL DEF IInv

\* A peer record bounds, and counts, the heartbeats that it was put together from.
THEOREM AttestationRecordsAreExact == Spec => []RecordsAreExact
BY AttestationInvariant, PTL DEF IInv

\* An attestation refers to no event that is dated after it.
THEOREM AttestationNothingFromTheFuture == Spec => []NothingFromTheFuture
BY AttestationInvariant, PTL DEF IInv

\* Where there is an entry of the archive, there is a current state as new.
THEOREM AttestationCurrentStateLanded == Spec => []CurrentStateLanded
BY AttestationInvariant, PTL DEF IInv

\* A set that counts two has two members.
LEMMA TwoMembers ==
    ASSUME NEW S, Cardinality(S) >= 2
    PROVE  \E a, b \in S : a # b
<1> SUFFICES ASSUME \A a, b \in S : a = b PROVE FALSE
    OBVIOUS
<1>1. CASE S = {}
    BY <1>1, FS_EmptySet
<1>2. ASSUME NEW a \in S PROVE FALSE
    <2>1. S = {a}
        BY <1>2
    <2> QED
        BY <2>1, FS_Singleton
<1> QED
    BY <1>1, <1>2

\* No key endorses itself, and the mirror of an established one has others vouch for
\* it, or three keys.
THEOREM AttestationEstablishedByOthers == Spec => []EstablishedByOthers
<1>1. IInv => EstablishedByOthers
    <2> SUFFICES ASSUME IInv, NEW S \in Answers, NEW p \in Keys
                 PROVE  /\ p \notin Endorsers(S, p)
                        /\ Established(S, p) => \/ \E a \in Endorsers(S, p) : a[1] # p[1]
                                                \/ used[p[1]] >= 3
        BY DEF EstablishedByOthers
    <2>1. TypeOK /\ S \subseteq DOMAIN said
        BY DEF IInv, TypeOK, Answers
    <2>2. ASSUME NEW i \in DOMAIN said
          PROVE  EventOK(i) /\ said[i].by \in Keys /\ said[i].by[2] <= used[said[i].by[1]]
        BY <2>1, SaidTypes DEF IInv, SaidOK, Events, EventOK
    <2>3. \A a \in Endorsers(S, p) : a \in Keys /\ a # p /\ a[2] <= used[a[1]]
        <3> SUFFICES ASSUME NEW a \in Endorsers(S, p)
                     PROVE  a \in Keys /\ a # p /\ a[2] <= used[a[1]]
            OBVIOUS
        <3>1. PICK j \in DOMAIN said :
                  a = said[j].by /\ (said[j].peers[p] # Unseen \/ p # said[j].by)
            BY <2>1 DEF Endorsers, LatestByAttester
        <3> QED
            BY <2>2, <3>1 DEF EventOK
    <2>4. ASSUME Established(S, p), \A a \in Endorsers(S, p) : a[1] = p[1]
          PROVE  used[p[1]] >= 3
        <3>1. PICK a \in Endorsers(S, p), b \in Endorsers(S, p) : a # b
            BY <2>4, TwoMembers DEF Established
        <3>2. p[2] <= used[p[1]]
            BY <2>1, <2>2, <2>4 DEF Established, LatestByAttester
        <3>3. /\ a = <<a[1], a[2]>> /\ b = <<b[1], b[2]>> /\ p = <<p[1], p[2]>>
              /\ a[2] \in Nat \ {0} /\ b[2] \in Nat \ {0} /\ p[2] \in Nat \ {0}
              /\ p[1] \in Mirrors
            BY <2>3, KeyFacts
        <3>4. a[1] = p[1] /\ b[1] = p[1]
            BY <2>4
        <3>5. a[2] # b[2] /\ a[2] # p[2] /\ b[2] # p[2]
            BY <2>3, <3>1, <3>3, <3>4
        <3>6. used[p[1]] \in Nat /\ a[2] <= used[p[1]] /\ b[2] <= used[p[1]]
            BY <2>1, <2>3, <3>3, <3>4 DEF TypeOK
        <3> QED
            BY <3>2, <3>3, <3>5, <3>6
    <2> QED
        BY <2>3, <2>4
<1> QED
    BY <1>1, AttestationInvariant, PTL

-----------------------------------------------------------------------------
\* What a build has heard, it has heard of one of the relays it has asked so far.
HeardOfAsked ==
    \A m \in Mirrors : work[m] # Idle => \A c \in work[m].got : c[1] \in 1..work[m].i

\* A build goes from relay to relay, and hears of the one it is at.
LEMMA HeardStep == TypeOK /\ HeardOfAsked /\ [Next]_vars => HeardOfAsked'
<1> SUFFICES ASSUME TypeOK, HeardOfAsked, [Next]_vars PROVE HeardOfAsked'
    OBVIOUS
<1>1. /\ work \in [Mirrors -> Builds \cup {Idle}]
      /\ \A n \in Mirrors : work[n] # Idle => work[n].i \in Nat \ {0}
    BY DEF TypeOK, Builds
<1>2. CASE UNCHANGED work
    BY <1>2 DEF HeardOfAsked
<1>3. ASSUME NEW m \in Mirrors, NEW w, work' = [work EXCEPT ![m] = w],
             w # Idle => \A c \in w.got : c[1] \in 1..w.i
      PROVE  HeardOfAsked'
    BY <1>1, <1>3 DEF HeardOfAsked
<1>4. ASSUME NEW m \in Mirrors, NEW f \in 0..MaxKeys[m], NEW k \in 1..MaxKeys[m],
             Restart(m, f, k)
      PROVE  HeardOfAsked'
    BY <1>3, <1>4 DEF Restart
<1>5. ASSUME NEW m \in Mirrors, Start(m) PROVE HeardOfAsked'
    BY <1>1, <1>5 DEF Start, HeardOfAsked
<1>6. ASSUME NEW m \in Mirrors, NEW b \in AllBeats, HearsBeat(m, b) PROVE HeardOfAsked'
    <2> DEFINE x == [work[m] EXCEPT !.got = @ \cup {<<work[m].i, b>>}]
               w == [x EXCEPT !.peers[b.by] = Observe(@, b.at)]
    <2>1. work[m] # Idle /\ work[m] \in Builds
        BY <1>1, <1>6 DEF HearsBeat
    <2>2. work' = [work EXCEPT ![m] = w]
        BY <1>6 DEF HearsBeat
    <2>3. x.got = work[m].got \cup {<<work[m].i, b>>} /\ x.i = work[m].i
        BY <2>1 DEF Builds
    <2>4. w.got = x.got /\ w.i = x.i
        BY <2>1 DEF Builds
    <2>5. \A c \in w.got : c[1] \in 1..w.i
        <3> HIDE DEF x, w
        <3>1. work[m].i \in 1..work[m].i
            BY <1>1, <2>1
        <3> QED
            BY <2>1, <2>3, <2>4, <3>1 DEF HeardOfAsked
    <2> HIDE DEF w
    <2> QED
        BY <1>3, <2>2, <2>5
<1>7. ASSUME NEW m \in Mirrors, NEW id \in DOMAIN said, SeesAtt(m, id) PROVE HeardOfAsked'
    BY <1>1, <1>7 DEF SeesAtt, HeardOfAsked, Builds
<1>8. ASSUME NEW m \in Mirrors, EndsBeats(m) PROVE HeardOfAsked'
    BY <1>1, <1>8 DEF EndsBeats, HeardOfAsked, Builds
<1>9. ASSUME NEW m \in Mirrors, EndsAtts(m) PROVE HeardOfAsked'
    <2>1. work[m] # Idle /\ work[m] \in Builds
        BY <1>1, <1>9 DEF EndsAtts
    <2>2. CASE work[m].i < Len(RelaysOf[m])
        BY <1>1, <1>9, <2>1, <2>2 DEF EndsAtts, HeardOfAsked, Builds
    <2>3. CASE ~(work[m].i < Len(RelaysOf[m]))
        BY <1>1, <1>9, <2>1, <2>3 DEF EndsAtts, HeardOfAsked, Builds
    <2> QED
        BY <2>2, <2>3
<1>10. ASSUME NEW m \in Mirrors, NEW A \in SUBSET Relays, PublishCurrent(m, A)
       PROVE  HeardOfAsked'
    <2>1. CASE A = {}
        BY <1>3, <1>10, <2>1 DEF PublishCurrent
    <2>2. CASE A # {}
        <3>1. work[m] # Idle /\ work[m] \in Builds
            BY <1>1, <1>10 DEF PublishCurrent
        <3> DEFINE w == [work[m] EXCEPT !.phase = "day", !.at = Clock(m), !.since = 0]
        <3>2. work' = [work EXCEPT ![m] = w]
            BY <1>10, <2>2 DEF PublishCurrent
        <3>3. w.got = work[m].got /\ w.i = work[m].i
            BY <3>1 DEF Builds
        <3> HIDE DEF w
        <3> QED
            BY <1>3, <3>1, <3>2, <3>3 DEF HeardOfAsked
    <2> QED
        BY <2>1, <2>2
<1>11. ASSUME NEW m \in Mirrors, NEW A \in SUBSET Relays, PublishDay(m, A)
       PROVE  HeardOfAsked'
    BY <1>3, <1>11 DEF PublishDay
<1> QED
    BY <1>2, <1>4, <1>5, <1>6, <1>7, <1>8, <1>9, <1>10, <1>11
    DEF Next, vars, Tick, Beat

\* A heartbeat is counted once for each relay that it came from: however the relays
\* overlap, a record counts at most as many times too many as relays were asked.
CountedOncePerRelay ==
    \A m \in Mirrors : Querying(m) =>
        \A k \in Keys : work[m].peers[k] # Unseen =>
            work[m].peers[k].count
                <= work[m].i * Cardinality({c[2].at : c \in Copies(work[m], k)})

\* A copy is told by its relay and its time.
LEMMA CopiesAreFew ==
    ASSUME NEW w \in Builds, IsFiniteSet(w.got), \A c \in w.got : c[1] \in 1..w.i,
           NEW k \in Keys
    PROVE  Cardinality(Copies(w, k)) <= w.i * Cardinality({c[2].at : c \in Copies(w, k)})
<1> DEFINE S == Copies(w, k)
           T == {c[2].at : c \in S}
           g == [c \in S |-> c[2].at]
           f == [c \in S |-> <<c[1], c[2].at>>]
<1>1. w.i \in Nat \ {0} /\ w.got \subseteq Nat \X Beats
    BY DEF Builds
<1>2. IsFiniteSet(S)
    <2>1. S \in SUBSET w.got
        BY DEF Copies
    <2> QED
        BY <2>1, FS_Subset
<1>3. IsFiniteSet(T)
    <2>1. g \in Surjection(S, T)
        BY DEF Surjection
    <2> QED
        BY <1>2, <2>1, FS_Surjection
<1>4. IsFiniteSet(1..w.i) /\ Cardinality(1..w.i) = w.i
    <2> DEFINE n == w.i
    <2>1. n \in Int /\ 1 \in Int /\ ~(1 > n) /\ n - 1 + 1 = n
        BY <1>1
    <2> HIDE DEF n
    <2>2. IsFiniteSet(1..n) /\ Cardinality(1..n) = IF 1 > n THEN 0 ELSE n - 1 + 1
        BY <2>1, FS_Interval
    <2>3. IsFiniteSet(1..n) /\ Cardinality(1..n) = n
        BY <2>1, <2>2
    <2> QED
        BY <2>3 DEF n
<1>5. /\ IsFiniteSet((1..w.i) \X T)
      /\ Cardinality((1..w.i) \X T) = Cardinality(1..w.i) * Cardinality(T)
    <2> HIDE DEF T
    <2> QED
        BY <1>3, <1>4, FS_Product
<1>6. f \in Injection(S, (1..w.i) \X T)
    <2>1. f \in [S -> (1..w.i) \X T]
        BY DEF Copies
    <2>2. ASSUME NEW c \in S, NEW d \in S, f[c] = f[d] PROVE c = d
        <3>1. c[1] = d[1] /\ c[2].at = d[2].at
            BY <2>2
        <3>2. /\ c = <<c[1], c[2]>> /\ d = <<d[1], d[2]>>
              /\ c[2] \in Beats /\ d[2] \in Beats /\ c[2].by = k /\ d[2].by = k
            BY <1>1 DEF Copies
        <3>3. c[2] = d[2]
            BY <3>1, <3>2 DEF Beats
        <3> QED
            BY <3>1, <3>2, <3>3
    <2> HIDE DEF S, T, f
    <2>3. \A c, d \in DOMAIN f : f[c] = f[d] => c = d
        BY <2>1, <2>2
    <2> QED
        BY <2>1, <2>3 DEF Injection, IsInjective
<1>7. Cardinality(S) <= Cardinality((1..w.i) \X T)
    <2> HIDE DEF S, T, f
    <2> QED
        BY <1>5, <1>6, FS_Injection
<1> HIDE DEF S, T
<1> QED
    BY <1>4, <1>5, <1>7 DEF S, T

\* Heartbeats that several relays hold are counted by each of them, and no more often
\* (attestation.go: buildAttestation removes no duplicates).
THEOREM AttestationCountedOncePerRelay == Spec => []CountedOncePerRelay
<1>1. Spec => []HeardOfAsked
    <2>1. Init => HeardOfAsked
        BY DEF Init, HeardOfAsked
    <2>2. IInv /\ HeardOfAsked /\ [Next]_vars => HeardOfAsked'
        BY HeardStep DEF IInv
    <2> QED
        BY <2>1, <2>2, AttestationInvariant, PTL DEF Spec
<1>2. IInv /\ HeardOfAsked => CountedOncePerRelay
    <2> SUFFICES ASSUME IInv, HeardOfAsked, NEW m \in Mirrors, Querying(m),
                        NEW k \in Keys, work[m].peers[k] # Unseen
                 PROVE  work[m].peers[k].count
                            <= work[m].i * Cardinality({c[2].at : c \in Copies(work[m], k)})
        BY DEF CountedOncePerRelay
    <2> DEFINE w == work[m]
               T == {c[2].at : c \in Copies(w, k)}
    <2>1. w # Idle /\ w \in Builds /\ IsFiniteSet(w.got) /\ \A c \in w.got : c[1] \in 1..w.i
        BY DEF IInv, TypeOK, WorkOK, HeardOfAsked, Querying
    <2>2. w.peers[k].count \in Nat /\ w.i \in Nat
        BY <2>1 DEF Builds, Peers, Observation
    <2>3. w.peers[k].count <= Cardinality(Copies(w, k))
        BY ExactEach DEF IInv, Exact
    <2>4. IsFiniteSet(Copies(w, k)) /\ IsFiniteSet(T)
        <3>1. Copies(w, k) \in SUBSET w.got
            BY DEF Copies
        <3>2. IsFiniteSet(Copies(w, k))
            BY <2>1, <3>1, FS_Subset
        <3>3. [c \in Copies(w, k) |-> c[2].at] \in Surjection(Copies(w, k), T)
            BY DEF Surjection
        <3> QED
            BY <3>2, <3>3, FS_Surjection
    <2> HIDE DEF w, T
    <2>5. Cardinality(Copies(w, k)) \in Nat /\ Cardinality(T) \in Nat
        BY <2>4, FS_CardinalityType
    <2>6. Cardinality(Copies(w, k)) <= w.i * Cardinality(T)
        BY <2>1, CopiesAreFew DEF T
    <2>7. w.i * Cardinality(T) \in Nat
        BY <2>2, <2>5
    <2>8. w.peers[k].count <= w.i * Cardinality(T)
        BY <2>2, <2>3, <2>5, <2>6, <2>7
    <2> QED
        BY <2>8 DEF w, T
<1> QED
    BY <1>1, <1>2, AttestationInvariant, PTL
=============================================================================
