-------------------------- MODULE RelayConnProofs --------------------------
(***************************************************************************)
(* RelayConn's safety for any number of callers and connections.            *)
(***************************************************************************)
EXTENDS RelayConn, FiniteSetTheorems, TLAPS

\* A connection a goroutine has just dialed is not closed.
FreshIsOpen == \A c \in Callers :
    pc[c] = "install" => conn[held[c]] \in {"open", "lost"}

\* While there is a connection in the pool, some caller is not dialing: the one that
\* put it there has used it since, and finds it there if it comes back.
SomeoneRests ==
    relay # None => \E c \in Callers : pc[c] \notin {"dial", "install"}

\* The inductive invariant: NoLeak and HandsOutLive need to know that the loser
\* of a race closes a connection nobody else has.
IInv == TypeOK /\ FreshIsOpen /\ LoserIsAlone /\ HandsOutLive /\ NoLeak /\ SomeoneRests

\* Every variable keeps its type.
LEMMA TypeStep == TypeOK /\ FreshIsOpen /\ [Next]_vars => TypeOK'
<1> SUFFICES ASSUME TypeOK, FreshIsOpen, [Next]_vars
             PROVE  TypeOK'
    OBVIOUS
<1> USE NoneAssumption DEF TypeOK, PCs
<1>1. CASE UNCHANGED vars
    BY <1>1 DEF vars
<1>2. ASSUME NEW c \in Callers, Publish(c) \/ PublishReturns(c) PROVE TypeOK'
    BY <1>2 DEF Publish, PublishReturns
<1>3. ASSUME NEW c \in Callers, Step(c) PROVE TypeOK'
    <2>1. CASE GetLive(c)
        BY <2>1 DEF GetLive
    <2>2. ASSUME NEW i \in Conns, Dial(c, i) PROVE TypeOK'
        BY <2>2 DEF Dial
    <2>3. CASE DialFails(c)
        BY <2>3 DEF DialFails
    <2>4. CASE Install(c)
        BY <2>4 DEF Install, FreshIsOpen
    <2>5. CASE LoseRace(c)
        BY <2>5 DEF LoseRace, FreshIsOpen
    <2>6. CASE Send(c) \/ SendFails(c)
        BY <2>6 DEF Send, SendFails
    <2>7. CASE MarkDead(c)
        BY <2>7 DEF MarkDead
    <2> QED
        BY <1>3, <2>1, <2>2, <2>3, <2>4, <2>5, <2>6, <2>7 DEF Step
<1>4. CASE Close
    BY <1>4 DEF Close
<1>5. ASSUME NEW i \in Conns, Drop(i) PROVE TypeOK'
    BY <1>5 DEF Drop
<1> QED
    BY <1>1, <1>2, <1>3, <1>4, <1>5 DEF Next

\* Nobody but its goroutine closes a connection that waits to be installed.
LEMMA FreshStep == TypeOK /\ FreshIsOpen /\ LoserIsAlone /\ [Next]_vars => FreshIsOpen'
<1> SUFFICES ASSUME TypeOK, FreshIsOpen, LoserIsAlone, [Next]_vars
             PROVE  FreshIsOpen'
    OBVIOUS
<1> USE NoneAssumption DEF TypeOK, PCs, FreshIsOpen
<1>1. CASE UNCHANGED vars
    BY <1>1 DEF vars
<1>2. ASSUME NEW c \in Callers, Publish(c) \/ PublishReturns(c) PROVE FreshIsOpen'
    BY <1>2 DEF Publish, PublishReturns
<1>3. ASSUME NEW c \in Callers, Step(c) PROVE FreshIsOpen'
    <2>1. CASE GetLive(c)
        BY <2>1 DEF GetLive
    <2>2. ASSUME NEW i \in Conns, Dial(c, i) PROVE FreshIsOpen'
        BY <2>2 DEF Dial
    <2>3. CASE DialFails(c)
        BY <2>3 DEF DialFails
    <2>4. CASE Install(c)
        BY <2>4 DEF Install
    <2>5. CASE LoseRace(c)
        BY <2>5 DEF LoseRace, LoserIsAlone
    <2>6. CASE Send(c) \/ SendFails(c)
        BY <2>6 DEF Send, SendFails
    <2>7. CASE MarkDead(c)
        BY <2>7 DEF MarkDead, LoserIsAlone
    <2> QED
        BY <1>3, <2>1, <2>2, <2>3, <2>4, <2>5, <2>6, <2>7 DEF Step
<1>4. CASE Close
    BY <1>4 DEF Close, LoserIsAlone
<1>5. ASSUME NEW i \in Conns, Drop(i) PROVE FreshIsOpen'
    BY <1>5 DEF Drop
<1> QED
    BY <1>1, <1>2, <1>3, <1>4, <1>5 DEF Next

\* A dial never reuses a connection somebody still refers to.
LEMMA AloneStep ==
    TypeOK /\ FreshIsOpen /\ LoserIsAlone /\ HandsOutLive /\ [Next]_vars => LoserIsAlone'
<1> SUFFICES ASSUME TypeOK, FreshIsOpen, LoserIsAlone, HandsOutLive, [Next]_vars
             PROVE  LoserIsAlone'
    OBVIOUS
<1> USE NoneAssumption DEF TypeOK, PCs, LoserIsAlone
<1>1. CASE UNCHANGED vars
    BY <1>1 DEF vars
<1>2. ASSUME NEW c \in Callers, Publish(c) \/ PublishReturns(c) PROVE LoserIsAlone'
    BY <1>2 DEF Publish, PublishReturns, FreshIsOpen
<1>3. ASSUME NEW c \in Callers, Step(c) PROVE LoserIsAlone'
    <2>1. CASE GetLive(c)
        BY <2>1 DEF GetLive
    <2>2. ASSUME NEW i \in Conns, Dial(c, i) PROVE LoserIsAlone'
        BY <2>2 DEF Dial, Unused, HandsOutLive
    <2>3. CASE DialFails(c)
        BY <2>3 DEF DialFails
    <2>4. CASE Install(c)
        BY <2>4 DEF Install, FreshIsOpen
    <2>5. CASE LoseRace(c)
        BY <2>5 DEF LoseRace
    <2>6. CASE Send(c) \/ SendFails(c)
        BY <2>6 DEF Send, SendFails
    <2>7. CASE MarkDead(c)
        BY <2>7 DEF MarkDead, FreshIsOpen
    <2> QED
        BY <1>3, <2>1, <2>2, <2>3, <2>4, <2>5, <2>6, <2>7 DEF Step
<1>4. CASE Close
    BY <1>4 DEF Close, FreshIsOpen
<1>5. ASSUME NEW i \in Conns, Drop(i) PROVE LoserIsAlone'
    BY <1>5 DEF Drop
<1> QED
    BY <1>1, <1>2, <1>3, <1>4, <1>5 DEF Next

\* Only the loser's connection is closed, and that one is not in the pool; the one
\* that is installed was dialed by its goroutine and is not closed.
LEMMA LiveStep ==
    TypeOK /\ FreshIsOpen /\ LoserIsAlone /\ HandsOutLive /\ NoLeak /\ [Next]_vars => HandsOutLive'
<1> SUFFICES ASSUME TypeOK, FreshIsOpen, LoserIsAlone, HandsOutLive, NoLeak, [Next]_vars
             PROVE  HandsOutLive'
    OBVIOUS
<1> USE NoneAssumption DEF TypeOK, PCs, HandsOutLive
<1>1. CASE UNCHANGED vars
    BY <1>1 DEF vars
<1>2. ASSUME NEW c \in Callers, Publish(c) \/ PublishReturns(c) PROVE HandsOutLive'
    BY <1>2 DEF Publish, PublishReturns
<1>3. ASSUME NEW c \in Callers, Step(c) PROVE HandsOutLive'
    <2>1. CASE GetLive(c)
        BY <2>1 DEF GetLive
    <2>2. ASSUME NEW i \in Conns, Dial(c, i) PROVE HandsOutLive'
        BY <2>2 DEF Dial
    <2>3. CASE DialFails(c)
        BY <2>3 DEF DialFails
    <2>4. CASE Install(c)
        BY <2>4 DEF Install, FreshIsOpen
    <2>5. CASE LoseRace(c)
        BY <2>5 DEF LoseRace, LoserIsAlone
    <2>6. CASE Send(c) \/ SendFails(c)
        BY <2>6 DEF Send, SendFails
    <2>7. CASE MarkDead(c)
        BY <2>7 DEF MarkDead
    <2> QED
        BY <1>3, <2>1, <2>2, <2>3, <2>4, <2>5, <2>6, <2>7 DEF Step
<1>4. CASE Close
    BY <1>4 DEF Close
<1>5. ASSUME NEW i \in Conns, Drop(i) PROVE HandsOutLive'
    BY <1>5 DEF Drop
<1> QED
    BY <1>1, <1>2, <1>3, <1>4, <1>5 DEF Next

\* A connection that leaves the pool, or loses the race, is closed.
LEMMA LeakStep ==
    TypeOK /\ FreshIsOpen /\ LoserIsAlone /\ NoLeak /\ [Next]_vars => NoLeak'
<1> SUFFICES ASSUME TypeOK, FreshIsOpen, LoserIsAlone, NoLeak, [Next]_vars
             PROVE  NoLeak'
    OBVIOUS
<1> USE NoneAssumption DEF TypeOK, PCs, NoLeak
<1>1. CASE UNCHANGED vars
    BY <1>1 DEF vars
<1>2. ASSUME NEW c \in Callers, Publish(c) \/ PublishReturns(c) PROVE NoLeak'
    BY <1>2 DEF Publish, PublishReturns
<1>3. ASSUME NEW c \in Callers, Step(c) PROVE NoLeak'
    <2>1. CASE GetLive(c)
        BY <2>1 DEF GetLive
    <2>2. ASSUME NEW i \in Conns, Dial(c, i) PROVE NoLeak'
        BY <2>2 DEF Dial
    <2>3. CASE DialFails(c)
        BY <2>3 DEF DialFails
    <2>4. CASE Install(c)
        BY <2>4 DEF Install
    <2>5. CASE LoseRace(c)
        BY <2>5 DEF LoseRace, FreshIsOpen, LoserIsAlone
    <2>6. CASE Send(c) \/ SendFails(c)
        BY <2>6 DEF Send, SendFails
    <2>7. CASE MarkDead(c)
        BY <2>7 DEF MarkDead
    <2> QED
        BY <1>3, <2>1, <2>2, <2>3, <2>4, <2>5, <2>6, <2>7 DEF Step
<1>4. CASE Close
    BY <1>4 DEF Close
<1>5. ASSUME NEW i \in Conns, Drop(i) PROVE NoLeak'
    BY <1>5 DEF Drop
<1> QED
    BY <1>1, <1>2, <1>3, <1>4, <1>5 DEF Next

\* A caller goes to dial only when there is nothing in the pool.
LEMMA RestsStep == TypeOK /\ SomeoneRests /\ [Next]_vars => SomeoneRests'
<1> SUFFICES ASSUME TypeOK, SomeoneRests, [Next]_vars
             PROVE  SomeoneRests'
    OBVIOUS
<1> USE DEF TypeOK, SomeoneRests
<1>1. CASE UNCHANGED vars
    BY <1>1 DEF vars
<1>2. ASSUME NEW c \in Callers, Publish(c) \/ PublishReturns(c) PROVE SomeoneRests'
    BY <1>2 DEF Publish, PublishReturns
<1>3. ASSUME NEW c \in Callers, Step(c) PROVE SomeoneRests'
    <2>1. CASE GetLive(c)
        BY <2>1 DEF GetLive
    <2>2. ASSUME NEW i \in Conns, Dial(c, i) PROVE SomeoneRests'
        BY <2>2 DEF Dial
    <2>3. CASE DialFails(c)
        BY <2>3 DEF DialFails
    <2>4. CASE Install(c)
        BY <2>4 DEF Install
    <2>5. CASE LoseRace(c)
        BY <2>5 DEF LoseRace
    <2>6. CASE Send(c) \/ SendFails(c)
        BY <2>6 DEF Send, SendFails
    <2>7. CASE MarkDead(c)
        BY <2>7 DEF MarkDead
    <2> QED
        BY <1>3, <2>1, <2>2, <2>3, <2>4, <2>5, <2>6, <2>7 DEF Step
<1>4. CASE Close
    BY <1>4 DEF Close
<1>5. ASSUME NEW i \in Conns, Drop(i) PROVE SomeoneRests'
    BY <1>5 DEF Drop
<1> QED
    BY <1>1, <1>2, <1>3, <1>4, <1>5 DEF Next

\* The inductive invariant holds in every reachable state.
LEMMA ConnInvariant == Spec => []IInv
<1>1. Init => IInv
    BY NoneAssumption DEF Init, IInv, TypeOK, FreshIsOpen, LoserIsAlone, HandsOutLive,
       NoLeak, SomeoneRests, PCs
<1>2. IInv /\ [Next]_vars => IInv'
    BY TypeStep, FreshStep, AloneStep, LiveStep, LeakStep, RestsStep DEF IInv
<1> QED
    BY <1>1, <1>2, PTL DEF Spec

\* Every variable has its type in every reachable state.
THEOREM ConnTypeCorrect == Spec => []TypeOK
    BY ConnInvariant, PTL DEF IInv

\* Whatever connects, fails and closes at the same time, every connection that
\* was dialed is in the pool, or about to be installed or dropped by the goroutine
\* that dialed it (relaypool.go: getOrConnect, markDead, close).
THEOREM ConnNeverLeaks == Spec => []NoLeak
    BY ConnInvariant, PTL DEF IInv

\* The pool never hands out a connection this process has closed.
THEOREM ConnHandsOutLive == Spec => []HandsOutLive
    BY ConnInvariant, PTL DEF IInv

\* The loser of a race between two dials closes nobody else's connection.
THEOREM ConnLoserIsAlone == Spec => []LoserIsAlone
    BY ConnInvariant, PTL DEF IInv

\* Only a goroutine whose own publish failed on the connection in the pool, or
\* RelayPool.Close, takes it out of the pool.
THEOREM ConnDropsOnlyFailed == Spec => OnlyFailedDropped
<1> DEFINE Dropped ==
        relay # None /\ relay' = None =>
            \/ closed' /\ ~closed
            \/ \E c \in Callers : pc[c] = "dead" /\ held[c] = relay
<1>1. IInv /\ [Next]_vars => [Dropped]_vars
    <2> SUFFICES ASSUME IInv, Next PROVE Dropped
        BY DEF vars
    <2>1. ASSUME NEW c \in Callers, Publish(c) \/ PublishReturns(c) PROVE Dropped
        BY <2>1 DEF Publish, PublishReturns
    <2>2. ASSUME NEW c \in Callers, Step(c) PROVE Dropped
        BY <2>2 DEF IInv, FreshIsOpen, Step, GetLive, Dial, DialFails, Install, LoseRace,
                    Send, SendFails, MarkDead
    <2>3. CASE Close
        BY <2>3 DEF Close
    <2>4. ASSUME NEW i \in Conns, Drop(i) PROVE Dropped
        BY <2>4 DEF Drop
    <2> QED
        BY <2>1, <2>2, <2>3, <2>4 DEF Next
<1> QED
    BY <1>1, ConnInvariant, PTL DEF Spec, OnlyFailedDropped

\* What one function takes out of a finite set is finite, and no larger.
LEMMA RangeIsSmall ==
    ASSUME NEW S, IsFiniteSet(S), NEW f
    PROVE  LET R == {f[x] : x \in S}
           IN  IsFiniteSet(R) /\ Cardinality(R) <= Cardinality(S)
<1> DEFINE R == {f[x] : x \in S}
           g == [x \in S |-> f[x]]
<1>1. g \in Surjection(S, R)
    BY DEF Surjection
<1> QED
    BY <1>1, FS_Surjection

\* No more connections than callers: all but one of those that may be dialing, and
\* the pool's own; or nothing in the pool, and one for each that is dialing.
THEOREM ConnFewConnections == Spec => []FewConnections
<1>1. IInv => FewConnections
    <2> SUFFICES ASSUME TypeOK, NoLeak, SomeoneRests
                 PROVE  Cardinality(Live) <= Cardinality(Callers)
        BY DEF IInv, FewConnections
    <2> DEFINE I == {c \in Callers : pc[c] = "install"}
               R == {held[c] : c \in I}
    <2>1. /\ IsFiniteSet(Callers) /\ IsFiniteSet(I)
          /\ Cardinality(I) <= Cardinality(Callers)
        <3>1. I \in SUBSET Callers
            OBVIOUS
        <3> QED
            BY <3>1, CallersAssumption, FS_Subset
    <2>2. relay # None => Cardinality(I) # Cardinality(Callers)
        <3>1. relay # None => I # Callers
            BY DEF SomeoneRests
        <3> QED
            BY <2>1, <3>1, FS_Subset
    <2>3. IsFiniteSet(R) /\ Cardinality(R) <= Cardinality(I)
        BY <2>1, RangeIsSmall
    <2>4. Live \subseteq IF relay = None THEN R ELSE R \cup {relay}
        BY NoneAssumption DEF Live, NoLeak
    <2> HIDE DEF I, R
    <2>5. /\ Cardinality(I) \in Nat /\ Cardinality(R) \in Nat
          /\ Cardinality(Callers) \in Nat
        BY <2>1, <2>3, FS_CardinalityType
    <2>6. CASE relay = None
        <3>1. IsFiniteSet(Live) /\ Cardinality(Live) <= Cardinality(R)
            BY <2>3, <2>4, <2>6, FS_Subset
        <3>2. Cardinality(Live) \in Nat
            BY <3>1, FS_CardinalityType
        <3> QED
            BY <2>1, <2>3, <2>5, <3>1, <3>2
    <2>7. CASE relay # None
        <3>1. /\ IsFiniteSet(R \cup {relay})
              /\ Cardinality(R \cup {relay}) <= Cardinality(R) + 1
            <4>1. /\ IsFiniteSet(R \cup {relay})
                  /\ \/ Cardinality(R \cup {relay}) = Cardinality(R)
                     \/ Cardinality(R \cup {relay}) = Cardinality(R) + 1
                BY <2>3, FS_AddElement, Zenon
            <4> QED
                BY <2>5, <4>1
        <3>2. IsFiniteSet(Live) /\ Cardinality(Live) <= Cardinality(R \cup {relay})
            BY <2>4, <2>7, <3>1, FS_Subset
        <3>3. Cardinality(Live) \in Nat /\ Cardinality(R \cup {relay}) \in Nat
            BY <3>1, <3>2, FS_CardinalityType
        <3> QED
            BY <2>1, <2>2, <2>3, <2>5, <2>7, <3>1, <3>2, <3>3
    <2> QED
        BY <2>6, <2>7
<1> QED
    BY <1>1, ConnInvariant, PTL
=============================================================================
