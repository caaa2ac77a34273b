--------------------------- MODULE NetworkProofs ---------------------------
(***************************************************************************)
(* The composition for any signers, mirrors, visitors and thresholds: what    *)
(* PublisherProofs shows of announcements carries over to what mirrors hold   *)
(* and browsers tick, and every mirror of the network is a Mirror.            *)
(***************************************************************************)
EXTENDS Network, PublisherProofs

HostCoherent == host # NoFile => Coherent(host, made, strays)
OverridesCoherent ==
    \A v \in Visitors : override[v] # NoFile => Coherent(override[v], made, strays)

\* A page that got past the signatures got past them with an announcement.
VisitsBacked ==
    \A v \in Visitors : visit[v] # Idle =>
        /\ visit[v].step \in {"manifest", "page"} \/ Ticked(v) =>
               /\ visit[v].latest # NoFile
               /\ Backed(visit[v].latest.cid, visit[v].latest.version, Hardcoded)
        /\ visit[v].step # "done" => visit[v].badge = "pending"

\* The inductive invariant: copies outlive the files that they were taken from, so
\* every place that one may be at is to keep its entries tied to their signers.
NetIInv ==
    /\ IInv /\ NetTypeOK
    /\ HostCoherent /\ OverridesCoherent /\ VisitsBacked /\ HeldMeansPeople

\* Thresholds of the deployed configurations are met by one signer at least.
LEMMA ThresholdsArePositive ==
    ASSUME NEW t \in Trusts
    PROVE  EffectiveThreshold(t) \in Int /\ EffectiveThreshold(t) >= 1
BY TrustFilesAssumption, HardcodedAssumption DEF Trusts, EffectiveThreshold

\* An announcement that passes the check, with entries tied to signers, is backed.
LEMMA VerifiedIsBacked ==
    ASSUME TypeOK, NEW l, Coherent(l, made, strays), NEW t \in Trusts, VerifyThreshold(t, l)
    PROVE  Backed(l.cid, l.version, t)
<1> DEFINE r == SigningMessage(l)
<1>1. EffectiveThreshold(t) \in Int /\ EffectiveThreshold(t) >= 1
    BY ThresholdsArePositive
<1>2. Cardinality(ValidEntries(t, l)) >= EffectiveThreshold(t)
    BY DEF VerifyThreshold
<1>3. People(t, l) # {}
    <2>1. ValidEntries(t, l) # {}
        BY <1>1, <1>2, FS_EmptySet
    <2> QED
        BY <2>1 DEF ValidEntries, People, Coherent, Genuine
<1>4. Cardinality(People(t, l)) >= EffectiveThreshold(t) \/ Repeated(r)
    <2>1. ASSUME ~Repeated(r)
          PROVE  /\ Cardinality(ValidEntries(t, l)) <= Cardinality(People(t, l))
                 /\ Cardinality(ValidEntries(t, l)) \in Nat
                 /\ Cardinality(People(t, l)) \in Nat
        BY <2>1, EntriesArePeople
    <2> QED
        BY <1>1, <1>2, <2>1
<1>5. PICK p \in made : p[2] = r
    BY <1>3 DEF People
<1>6. r[1] = l.cid /\ r[2] = l.version
    BY DEF SigningMessage
<1>7. r \in Backing(l.cid, t)
    BY <1>3, <1>4, <1>5, <1>6 DEF Backing, People
<1> QED
    BY <1>6, <1>7 DEF Backed

\* What is backed stays so when more is signed.
LEMMA BackingMonotone ==
    ASSUME TypeOK, TypeOK', made \subseteq made', strays \subseteq strays'
    PROVE  \A t \in Trusts : \A c : Backing(c, t) \subseteq Backing(c, t)'
<1> SUFFICES ASSUME NEW t \in Trusts, NEW c, NEW r \in Backing(c, t)
             PROVE  r \in Backing(c, t)'
    OBVIOUS
<1> DEFINE P == {s \in t.signers : <<s, r>> \in made}
           Q == {s \in t.signers : <<s, r>> \in made'}
<1>1. /\ r \in {p[2] : p \in made'} /\ r[1] = c /\ P # {}
      /\ Cardinality(P) >= EffectiveThreshold(t) \/ Repeated(r)
    BY DEF Backing
<1>2. P \subseteq Q
    OBVIOUS
<1>3. IsFiniteSet(Q)
    <2>1. IsFiniteSet(t.signers) /\ Q \subseteq t.signers
        BY FiniteAssumption DEF Trusts
    <2> QED
        BY <2>1, FS_Subset
<1>4. IsFiniteSet(P) /\ Cardinality(P) <= Cardinality(Q)
    BY <1>2, <1>3, FS_Subset
<1>5. Cardinality(P) \in Nat /\ Cardinality(Q) \in Nat
    BY <1>3, <1>4, FS_CardinalityType
<1>6. Cardinality(P) >= EffectiveThreshold(t) => Cardinality(Q) >= EffectiveThreshold(t)
    BY <1>4, <1>5, ThresholdsArePositive
<1>7. Repeated(r) => Repeated(r)'
    BY DEF Repeated
<1> QED
    BY <1>1, <1>2, <1>6, <1>7 DEF Backing

\* A release that is backed stays backed.
LEMMA BackedMonotone ==
    ASSUME TypeOK, TypeOK', made \subseteq made', strays \subseteq strays'
    PROVE  \A t \in Trusts : \A c, v : Backed(c, v, t) => Backed(c, v, t)'
BY BackingMonotone DEF Backed

\* The publisher's commands keep the publisher's invariant and withdraw no signature,
\* and what no tool writes stays around.
LEMMA PublisherStep ==
    IInv /\ [Next]_vars => IInv' /\ made \subseteq made' /\ strays \subseteq strays'
<1>1. IInv /\ [Next]_vars => IInv'
    BY SignStep, CirculateStep, OtherSteps
<1>2. [Next]_vars => made \subseteq made' /\ strays \subseteq strays'
    BY DEF Next, vars, fileVars, pubVars, Tick, Circulate, Sign, WriteTorn, Share, Take,
        Publish, PublishDies, Accepts, Refuses, Hangs, TooLate, PublishEnds
<1> QED
    BY <1>1, <1>2

\* Wherever an announcement is taken from, its entries are tied to their signers.
LEMMA Sources ==
    ASSUME NetIInv
    PROVE  /\ \A l \in OnRelays \cup Announcements :
                  l \in Latest /\ Coherent(l, made, strays)
           /\ host # NoFile => host \in Latest /\ Coherent(host, made, strays)
           /\ \A v \in Visitors : \A l \in Candidates(v) :
                  l # NoFile => l \in Latest /\ Coherent(l, made, strays)
<1>1. TypeOK
    BY DEF NetIInv, IInv
<1>2. ASSUME NEW l \in OnRelays \cup Announcements
      PROVE  l \in Latest /\ Coherent(l, made, strays)
    <2>1. OnRelays \subseteq Announcements
        BY DEF OnRelays, Announcements
    <2> QED
        BY <1>2, <2>1, AllCoherent DEF NetIInv
<1>3. host # NoFile => host \in Latest /\ Coherent(host, made, strays)
    BY DEF NetIInv, NetTypeOK, HostCoherent
<1>4. ASSUME NEW v \in Visitors, NEW l \in Candidates(v), l # NoFile
      PROVE  l \in Latest /\ Coherent(l, made, strays)
    <2>1. \/ l = override[v] \/ l = host
          \/ \E S \in SUBSET OnRelays : l \in NewestOf(S)
        BY <1>4 DEF Candidates
    <2>2. CASE \E S \in SUBSET OnRelays : l \in NewestOf(S)
        <3>1. l \in OnRelays
            BY <1>4, <2>2 DEF NewestOf
        <3> QED
            BY <3>1, <1>2
    <2>3. CASE l = override[v]
        BY <1>4, <2>3 DEF NetIInv, NetTypeOK, OverridesCoherent
    <2> QED
        BY <1>3, <1>4, <2>1, <2>2, <2>3
<1> QED
    BY <1>2, <1>3, <1>4

\* The conjuncts of NetIInv that are not about the variables of a visitor ...
MirrorsOK ==
    /\ up \in [Mirrors -> BOOLEAN] /\ trust \in [Mirrors -> TrustFiles \cup {NoTrust}]
    /\ held \in [Mirrors -> Held] /\ saved \in [Mirrors -> Held]
    /\ site \in [Mirrors -> CIDs \cup {NoCID}]
    /\ HeldMeansPeople

\* ... and the others.
VisitorsOK ==
    /\ override \in [Visitors -> Latest \cup {NoFile}]
    /\ visit \in [Visitors -> Visits \cup {Idle}]
    /\ OverridesCoherent /\ VisitsBacked

HostOK == host \in Latest \cup {NoFile} /\ HostCoherent

\* The invariant by whose variables it is about.
LEMMA Parts == NetIInv <=> IInv /\ HostOK /\ MirrorsOK /\ VisitorsOK
BY DEF NetIInv, IInv, HostOK, MirrorsOK, VisitorsOK, NetTypeOK

\* What is signed later takes nothing from what mirrors, host and browsers have.
LEMMA SignedLater ==
    ASSUME NetIInv, IInv', made \subseteq made', strays \subseteq strays',
           UNCHANGED <<host, mirrorVars, visitorVars>>
    PROVE  NetIInv'
<1>1. TypeOK /\ TypeOK'
    BY DEF NetIInv, IInv
<1>2. \A l : Coherent(l, made, strays) => Coherent(l, made', strays')
    BY CoherentMonotone
<1>3. \A t \in Trusts : \A c : Backing(c, t) \subseteq Backing(c, t)'
    BY <1>1, BackingMonotone
<1>4. \A t \in Trusts : \A c, v : Backed(c, v, t) => Backed(c, v, t)'
    BY <1>1, BackedMonotone
<1>5. Hardcoded \in Trusts /\ TrustFiles \subseteq Trusts
    BY DEF Trusts
<1> USE DEF mirrorVars, visitorVars
<1>6. HostOK'
    BY <1>2, Parts DEF HostOK, HostCoherent
<1>7. HeldMeansPeople'
    <2>1. ASSUME NEW m \in Mirrors, NEW h \in {held[m], saved[m]}, h.cid # NoCID
          PROVE  \E t \in TrustFiles : Backed(h.cid, h.ver, t)'
        BY <1>4, <1>5, <2>1 DEF NetIInv, HeldMeansPeople
    <2>2. ASSUME NEW m \in Mirrors, site[m] # NoCID
          PROVE  \E t \in TrustFiles : Backing(site[m], t)' # {}
        BY <1>3, <1>5, <2>2 DEF NetIInv, HeldMeansPeople
    <2> QED
        BY <2>1, <2>2 DEF HeldMeansPeople
<1>8. MirrorsOK'
    BY <1>7, Parts DEF MirrorsOK
<1>9. VisitsBacked'
    BY <1>4, <1>5 DEF NetIInv, VisitsBacked, Ticked
<1>10. OverridesCoherent'
    BY <1>2 DEF NetIInv, OverridesCoherent
<1>11. VisitorsOK'
    BY <1>9, <1>10, Parts DEF VisitorsOK
<1> QED
    BY <1>6, <1>8, <1>11
    DEF NetIInv, IInv, HostOK, MirrorsOK, VisitorsOK, NetTypeOK

\* A mirror adopts only what it verified, and saves and serves only what it held.
LEMMA MirrorStepOK ==
    ASSUME NetIInv, NEW m \in Mirrors, MirrorStep(m)
    PROVE  MirrorsOK'
<1>1. TypeOK /\ MirrorsOK /\ made' = made /\ strays' = strays
    BY Parts DEF IInv, MirrorStep, ComeUp, GoDown, Adopt, Save, TakeDown, Populate, vars, fileVars
<1>2. \A c, t : Backing(c, t)' = Backing(c, t)
    BY <1>1 DEF Backing, Repeated
<1>3. \A c, v, t : Backed(c, v, t)' = Backed(c, v, t)
    BY <1>2 DEF Backed
<1>4. None \in Held /\ None.cid = NoCID
    BY DEF None, Held
<1> USE <1>1, <1>2, <1>3, <1>4 DEF MirrorsOK, HeldMeansPeople
<1>5. ASSUME NEW t \in TrustFiles, NEW h \in {saved[m], None}, ComeUp(m, t, h)
      PROVE  MirrorsOK'
    BY <1>5 DEF ComeUp
<1>6. CASE GoDown(m)
    BY <1>6 DEF GoDown
<1>7. ASSUME NEW l \in OnRelays \cup {host}, Adopt(m, l) PROVE MirrorsOK'
    <2>1. l \in Latest /\ Coherent(l, made, strays)
        BY <1>7, Sources DEF Adopt
    <2>2. trust[m] \in TrustFiles /\ VerifyThreshold(trust[m], l)
        BY <1>7 DEF Adopt, NoTrust
    <2>3. Backed(l.cid, l.version, trust[m])
        BY <2>1, <2>2, VerifiedIsBacked DEF Trusts
    <2>4. [cid |-> l.cid, ver |-> l.version] \in Held
        BY <2>1 DEF Latest, Held
    <2>5. /\ held' = [held EXCEPT ![m] = [cid |-> l.cid, ver |-> l.version]]
          /\ UNCHANGED <<up, trust, saved, site>>
        BY <1>7 DEF Adopt
    <2>6. \A n \in Mirrors : \A h \in {held'[n], saved'[n]} :
              h.cid # NoCID => \E t \in TrustFiles : Backed(h.cid, h.ver, t)
        BY <2>2, <2>3, <2>5
    <2> QED
        BY <2>4, <2>5, <2>6
<1>8. ASSUME NEW s \in {None, held[m]}, Save(m, s) PROVE MirrorsOK'
    <2>1. s \in Held /\ saved' = [saved EXCEPT ![m] = s] /\ UNCHANGED <<up, trust, held, site>>
        BY <1>8 DEF Save
    <2> QED
        BY <2>1
<1>9. CASE TakeDown(m)
    BY <1>9 DEF TakeDown
<1>10. CASE Populate(m)
    <2>1. \A c, v, t : Backed(c, v, t) => Backing(c, t) # {}
        BY DEF Backed
    <2> QED
        BY <1>10, <2>1 DEF Populate, Held
<1> QED
    BY <1>5, <1>6, <1>7, <1>8, <1>9, <1>10 DEF MirrorStep

\* A page is ticked after its announcement passed the check, and then keeps it.
LEMMA VisitorStepOK ==
    ASSUME NetIInv, NEW v \in Visitors, VisitorStep(v)
    PROVE  VisitorsOK'
<1>1. TypeOK /\ VisitorsOK /\ made' = made /\ strays' = strays
    BY Parts DEF IInv, VisitorStep, Paste, Clear, Open, NoSource, Checks, NoCrypto,
        NoManifest, Manifest, Hashes, PageBlocked, vars, fileVars
<1>2. \A c, n, t : Backed(c, n, t)' = Backed(c, n, t)
    BY <1>1 DEF Backed, Backing, Repeated
<1> USE <1>1, <1>2 DEF VisitorsOK, OverridesCoherent, VisitsBacked, Ticked
<1>3. ASSUME NEW l \in Announcements \cup {host}, Paste(v, l) PROVE VisitorsOK'
    <2>1. l \in Latest /\ Coherent(l, made, strays)
        BY <1>3, Sources DEF Paste
    <2> QED
        BY <1>3, <2>1 DEF Paste
<1>4. CASE Clear(v)
    BY <1>4 DEF Clear
<1>5. ASSUME NEW m \in Mirrors, Open(v, m) PROVE VisitorsOK'
    BY <1>5 DEF Open, Visits, Badges
<1>6. CASE NoSource(v)
    BY <1>6 DEF NoSource, AtStep, Shows, Visits, Badges
<1>7. ASSUME NEW l \in Candidates(v), NoCrypto(v, l) PROVE VisitorsOK'
    BY <1>7 DEF NoCrypto, AtStep, Shows, Visits, Badges
<1>8. ASSUME NEW l \in Candidates(v), Checks(v, l) PROVE VisitorsOK'
    <2>1. l \in Latest /\ Coherent(l, made, strays) /\ l # NoFile
        BY <1>8, Sources DEF Checks
    <2>2. CASE Verifies(l)
        <3>1. Backed(l.cid, l.version, Hardcoded)
            BY <2>1, <2>2, VerifiedIsBacked DEF Verifies, Trusts
        <3> QED
            BY <1>8, <2>1, <2>2, <3>1 DEF Checks, AtStep, Visits
    <2>3. CASE ~Verifies(l)
        BY <1>8, <2>3 DEF Checks, AtStep, Shows, Visits, Badges
    <2> QED
        BY <2>2, <2>3
<1>9. CASE NoManifest(v) \/ PageBlocked(v)
    BY <1>9 DEF NoManifest, PageBlocked, AtStep, Shows, Visits, Badges
<1>10. CASE Manifest(v)
    BY <1>10 DEF Manifest, AtStep, Visits
<1>11. CASE Hashes(v)
    <2>1. PICK b \in {"matched", "invalid"} : Shows(v, b)
        BY <1>11 DEF Hashes
    <2> QED
        BY <1>11, <2>1 DEF Hashes, AtStep, Shows, Visits, Badges
<1> QED
    BY <1>3, <1>4, <1>5, <1>6, <1>7, <1>8, <1>9, <1>10, <1>11
    DEF VisitorStep

\* What nobody touches keeps its part of the invariant.
LEMMA Kept ==
    /\ IInv /\ UNCHANGED vars => IInv' /\ UNCHANGED <<made, strays>>
    /\ HostOK /\ UNCHANGED <<made, strays, host>> => HostOK'
    /\ MirrorsOK /\ UNCHANGED <<made, strays, mirrorVars>> => MirrorsOK'
    /\ VisitorsOK /\ UNCHANGED <<made, strays, visitorVars>> => VisitorsOK'
<1>1. IInv /\ UNCHANGED vars => IInv' /\ UNCHANGED <<made, strays>>
    BY PublisherStep DEF vars, fileVars
<1>2. HostOK /\ UNCHANGED <<made, strays, host>> => HostOK'
    BY DEF HostOK, HostCoherent
<1>3. UNCHANGED <<made, strays>> =>
          /\ \A c, t : Backing(c, t)' = Backing(c, t)
          /\ \A c, v, t : Backed(c, v, t)' = Backed(c, v, t)
    BY DEF Backing, Backed, Repeated
<1>4. MirrorsOK /\ UNCHANGED <<made, strays, mirrorVars>> => MirrorsOK'
    BY <1>3 DEF MirrorsOK, HeldMeansPeople, mirrorVars
<1>5. VisitorsOK /\ UNCHANGED <<made, strays, visitorVars>> => VisitorsOK'
    BY <1>3 DEF VisitorsOK, OverridesCoherent, VisitsBacked, Ticked, visitorVars
<1> QED
    BY <1>1, <1>2, <1>4, <1>5

\* Every step of anyone preserves the invariant.
LEMMA NetStep == NetIInv /\ [NetNext]_netVars => NetIInv'
<1> SUFFICES ASSUME NetIInv, [NetNext]_netVars
             PROVE  NetIInv'
    OBVIOUS
<1>1. IInv /\ HostOK /\ MirrorsOK /\ VisitorsOK
    BY Parts
<1>2. ASSUME UNCHANGED <<vars, host, mirrorVars>>, VisitorsOK' PROVE NetIInv'
    <2>1. IInv' /\ HostOK' /\ MirrorsOK'
        BY <1>1, <1>2, Kept
    <2> QED
        BY <1>2, <2>1 DEF NetIInv, IInv, HostOK, MirrorsOK, VisitorsOK, NetTypeOK
<1>3. ASSUME UNCHANGED <<vars, host, visitorVars>>, MirrorsOK' PROVE NetIInv'
    <2>1. IInv' /\ HostOK' /\ VisitorsOK'
        BY <1>1, <1>3, Kept
    <2> QED
        BY <1>3, <2>1 DEF NetIInv, IInv, HostOK, MirrorsOK, VisitorsOK, NetTypeOK
<1>4. CASE Next /\ UNCHANGED <<host, mirrorVars, visitorVars>>
    BY <1>1, <1>4, PublisherStep, SignedLater
<1>5. CASE UNCHANGED netVars
    BY <1>1, <1>5, PublisherStep, SignedLater DEF netVars
<1>6. ASSUME NEW l \in Announcements, Push(l) PROVE NetIInv'
    <2>1. l \in Latest /\ Coherent(l, made, strays)
        BY <1>1, <1>6, AllCoherent
    <2>2. UNCHANGED <<vars, mirrorVars, visitorVars>> /\ host' = l
        BY <1>6 DEF Push
    <2>3. HostOK'
        BY <2>1, <2>2 DEF HostOK, HostCoherent, vars, fileVars
    <2>4. IInv' /\ MirrorsOK' /\ VisitorsOK'
        BY <1>1, <2>2, Kept
    <2> QED
        BY <2>3, <2>4 DEF NetIInv, IInv, HostOK, MirrorsOK, VisitorsOK, NetTypeOK
<1>7. ASSUME NEW m \in Mirrors, MirrorStep(m) PROVE NetIInv'
    BY <1>3, <1>7, MirrorStepOK
    DEF MirrorStep, ComeUp, GoDown, Adopt, Save, TakeDown, Populate
<1>8. ASSUME NEW v \in Visitors, VisitorStep(v) PROVE NetIInv'
    BY <1>2, <1>8, VisitorStepOK
    DEF VisitorStep, Paste, Clear, Open, NoSource, Checks, NoCrypto, NoManifest,
        Manifest, Hashes, PageBlocked
<1> QED
    BY <1>4, <1>5, <1>6, <1>7, <1>8 DEF NetNext

\* At first there is only the signed latest.json of the repository.
LEMMA InitNetIInv == NetInit => NetIInv
<1> SUFFICES ASSUME NetInit PROVE NetIInv
    OBVIOUS
<1>1. IInv
    BY InitIInv DEF NetInit
<1>2. HostOK
    BY <1>1 DEF NetInit, IInv, TypeOK, FilesCoherent, HostOK, HostCoherent
<1>3. MirrorsOK
    BY DEF NetInit, MirrorsOK, HeldMeansPeople, None, Held
<1>4. VisitorsOK
    BY DEF NetInit, VisitorsOK, OverridesCoherent, VisitsBacked, Ticked
<1> QED
    BY <1>1, <1>2, <1>3, <1>4 DEF NetIInv, IInv, HostOK, MirrorsOK, VisitorsOK, NetTypeOK

\* The inductive invariant holds throughout.
LEMMA NetworkInvariant == NetSpec => []NetIInv
BY InitNetIInv, NetStep, PTL DEF NetSpec

-----------------------------------------------------------------------------
\* Everyone's variables keep their types.
THEOREM NetworkTypeCorrect == NetSpec => []NetTypeOK
BY NetworkInvariant, PTL DEF NetIInv

\* What a mirror holds, saved or serves was signed by someone that a deployed
\* trusted-signers.json lists, and by as many different people as its threshold asks
\* for unless an entry was repeated by hand in that round.
THEOREM NetworkHeldMeansPeople == NetSpec => []HeldMeansPeople
BY NetworkInvariant, PTL DEF NetIInv

\* A tick in a browser stands for as many different signers as it says, or for one at
\* least where an entry was repeated by hand.
THEOREM NetworkBadgeMeansPeople == NetSpec => []BadgeMeansPeople
<1>1. NetIInv => BadgeMeansPeople
    BY DEF NetIInv, VisitsBacked, BadgeMeansPeople, Ticked
<1> QED
    BY <1>1, NetworkInvariant, PTL

\* The browsers' announcements and the mirrors' releases are backed alike.
LEMMA AcceptedAreBacked ==
    ASSUME NetIInv, NEW h \in Accepted
    PROVE  \E t \in Trusts : Backed(h.cid, h.ver, t)
<1>1. CASE h \in {held[m] : m \in Mirrors} /\ h.cid # NoCID
    BY <1>1 DEF NetIInv, HeldMeansPeople, Trusts
<1>2. CASE \E v \in Visitors : Ticked(v) /\
               h = [cid |-> visit[v].latest.cid, ver |-> visit[v].latest.version]
    BY <1>2 DEF NetIInv, VisitsBacked, Ticked, Trusts
<1> QED
    BY <1>1, <1>2 DEF Accepted

\* Two thresholds that meet cannot both be reached without a common signer.
LEMMA QuorumsShare ==
    ASSUME QuorumsMeet, NEW t \in Trusts, NEW u \in Trusts,
           NEW P \in SUBSET t.signers, NEW Q \in SUBSET u.signers,
           Cardinality(P) >= EffectiveThreshold(t), Cardinality(Q) >= EffectiveThreshold(u)
    PROVE  P \cap Q # {}
<1> DEFINE W == t.signers \cup u.signers
<1>1. IsFiniteSet(t.signers) /\ IsFiniteSet(u.signers)
    BY FiniteAssumption DEF Trusts
<1>2. IsFiniteSet(P) /\ IsFiniteSet(Q) /\ IsFiniteSet(W)
    BY <1>1, FS_Subset, FS_Union
<1>3. /\ Cardinality(P \cup Q) = Cardinality(P) + Cardinality(Q) - Cardinality(P \cap Q)
      /\ Cardinality(P) \in Nat /\ Cardinality(Q) \in Nat /\ Cardinality(W) \in Nat
    BY <1>2, FS_Union, FS_CardinalityType
<1>4. Cardinality(P \cup Q) <= Cardinality(W)
    <2>1. P \cup Q \in SUBSET W
        OBVIOUS
    <2> QED
        BY <1>2, <2>1, FS_Subset
<1>5. Cardinality(W) < EffectiveThreshold(t) + EffectiveThreshold(u)
    BY DEF QuorumsMeet
<1>6. EffectiveThreshold(t) \in Int /\ EffectiveThreshold(u) \in Int
    BY ThresholdsArePositive
<1>7. Cardinality(P \cap Q) # 0
    <2> HIDE DEF W
    <2> SUFFICES ASSUME Cardinality(P \cap Q) = 0 PROVE FALSE
        OBVIOUS
    <2> QED
        BY <1>3, <1>4, <1>5, <1>6
<1> QED
    BY <1>7, FS_EmptySet

\* What backs an accepted release has someone's signature under it.
LEMMA BackingIsMade ==
    ASSUME NEW c, NEW t, NEW r \in Backing(c, t)
    PROVE  r[1] = c /\ \E p \in made : p[2] = r
BY DEF Backing

\* Where thresholds meet, the network is split over one version only by a signer who
\* signed two builds under it, or by an entry that was repeated by hand.
THEOREM NetworkSplitMeansDoubleSigned == NetSpec => []SplitMeansDoubleSigned
<1>1. NetIInv => SplitMeansDoubleSigned
    <2> DEFINE Double(h, g) ==
                   \E p, q \in made : /\ p[1] = q[1] /\ p[2][2] = q[2][2]
                                      /\ p[2][1] = h.cid /\ q[2][1] = g.cid
               ByHand(h, g) ==
                   \E p \in made : /\ p[2][1] \in {h.cid, g.cid} /\ p[2][2] = h.ver
                                   /\ Repeated(p[2])
    <2> SUFFICES ASSUME NetIInv, QuorumsMeet, NEW h \in Accepted, NEW g \in Accepted,
                        h.ver = g.ver
                 PROVE  Double(h, g) \/ ByHand(h, g)
        BY DEF SplitMeansDoubleSigned
    <2>1. PICK t \in Trusts : Backed(h.cid, h.ver, t)
        BY AcceptedAreBacked
    <2>2. PICK u \in Trusts : Backed(g.cid, g.ver, u)
        BY AcceptedAreBacked
    <2>3. PICK r \in Backing(h.cid, t) : r[2] = h.ver
        BY <2>1 DEF Backed
    <2>4. PICK z \in Backing(g.cid, u) : z[2] = g.ver
        BY <2>2 DEF Backed
    <2>5. CASE Repeated(r) \/ Repeated(z)
        <3>1. /\ r[1] = h.cid /\ z[1] = g.cid
              /\ (\E p \in made : p[2] = r) /\ (\E p \in made : p[2] = z)
            BY BackingIsMade
        <3> QED
            BY <2>3, <2>4, <2>5, <3>1
    <2>6. CASE ~Repeated(r) /\ ~Repeated(z)
        <3> DEFINE P == {s \in t.signers : <<s, r>> \in made}
                   Q == {s \in u.signers : <<s, z>> \in made}
        <3>1. /\ Cardinality(P) >= EffectiveThreshold(t) /\ r[1] = h.cid
              /\ Cardinality(Q) >= EffectiveThreshold(u) /\ z[1] = g.cid
            BY <2>3, <2>4, <2>6 DEF Backing
        <3>2. PICK s \in P : s \in Q
            <4>1. P \in SUBSET t.signers /\ Q \in SUBSET u.signers
                OBVIOUS
            <4>2. P \cap Q # {}
                BY <3>1, <4>1, QuorumsShare
            <4> QED
                BY <4>2
        <3>3. Double(h, g)
            BY <2>3, <2>4, <3>1, <3>2
        <3> QED
            BY <3>3
    <2> QED
        BY <2>5, <2>6
<1> QED
    BY <1>1, NetworkInvariant, PTL

-----------------------------------------------------------------------------
\* Mirrors move by their own steps only.
LEMMA WhoMoves ==
    [NetNext]_netVars => UNCHANGED mirrorVars \/ \E n \in Mirrors : MirrorStep(n)
BY DEF NetNext, netVars, Push, VisitorStep, Paste, Clear, Open, NoSource, Checks,
    NoCrypto, NoManifest, Manifest, Hashes, PageBlocked

\* Each mirror of the network, seen as Mirror sees one.
M(m) == INSTANCE Mirror WITH
            Latests <- Latest, SignerConfigs <- TrustFiles, Signed <- VerifyThreshold,
            up <- up[m], trust <- trust[m], current <- held[m], saved <- saved[m]

\* What Daemon implements is what the network is composed of: whatever signers,
\* relays, visitors and the other mirrors do, each mirror takes the steps of Mirror.
THEOREM NetworkMirrorsImplementMirror ==
    ASSUME NEW m \in Mirrors
    PROVE  NetSpec => M(m)!Spec
<1>1. NetInit => M(m)!Init
    BY DEF NetInit, M!Init, M!None, M!NoTrust, None, NoTrust
<1>2. NetIInv /\ [NetNext]_netVars => [M(m)!Next]_(M(m)!vars)
    <2> SUFFICES ASSUME NetIInv, [NetNext]_netVars
                 PROVE  M(m)!Next \/ UNCHANGED M(m)!vars
        OBVIOUS
    <2> USE DEF M!vars
    <2>1. CASE UNCHANGED mirrorVars
        BY <2>1 DEF mirrorVars
    <2>2. ASSUME NEW n \in Mirrors, MirrorStep(n)
          PROVE  M(m)!Next \/ UNCHANGED M(m)!vars
        <3>1. MirrorsOK
            BY Parts
        <3>2. CASE n # m
            BY <2>2, <3>1, <3>2
            DEF MirrorsOK, MirrorStep, ComeUp, GoDown, Adopt, Save, TakeDown, Populate
        <3>3. CASE n = m
            <4>1. ASSUME NEW t \in TrustFiles, NEW h \in {saved[m], None}, ComeUp(m, t, h)
                  PROVE  M(m)!Next
                BY <3>1, <4>1 DEF MirrorsOK, ComeUp, M!ComeUp, M!Next, M!None, None
            <4>2. ASSUME GoDown(m) PROVE M(m)!Next
                BY <3>1, <4>2
                DEF MirrorsOK, GoDown, M!GoDown, M!Next, M!None, M!NoTrust, None, NoTrust
            <4>3. ASSUME NEW l \in OnRelays \cup {host}, Adopt(m, l) PROVE M(m)!Next
                <5>1. l \in Latest
                    BY <4>3, Sources DEF Adopt
                <5>2. M(m)!Adopt(l)
                    BY <3>1, <4>3 DEF MirrorsOK, Adopt, M!Adopt
                <5> QED
                    BY <5>1, <5>2 DEF M!Next
            <4>4. ASSUME NEW s \in {None, held[m]}, Save(m, s) PROVE M(m)!Next
                BY <3>1, <4>4
                DEF MirrorsOK, Save, M!Forget, M!Save, M!Next, M!None, None
            <4>5. ASSUME TakeDown(m) \/ Populate(m) PROVE UNCHANGED M(m)!vars
                BY <4>5 DEF TakeDown, Populate
            <4> QED
                BY <2>2, <3>3, <4>1, <4>2, <4>3, <4>4, <4>5 DEF MirrorStep
        <3> QED
            BY <3>2, <3>3
    <2> QED
        BY <2>1, <2>2, WhoMoves
<1> QED
    BY <1>1, <1>2, NetworkInvariant, PTL DEF NetSpec, M!Spec

\* Each mirror's directory, seen as SiteDir sees one.
D(m) == INSTANCE SiteDir WITH
            Releases <- CIDs, None <- NoCID, held <- held[m].cid, site <- site[m]

\* The promise that ServeDir and Daemon keep is the one that visitors rely on here:
\* a mirror shows them whole releases, and between two of them none.
THEOREM NetworkMirrorsImplementSiteDir ==
    ASSUME NEW m \in Mirrors
    PROVE  NetSpec => D(m)!Spec
<1>1. NetInit => D(m)!Init
    BY DEF NetInit, D!Init, None
<1>2. NetIInv /\ [NetNext]_netVars => [D(m)!Next]_(D(m)!vars)
    <2> SUFFICES ASSUME NetIInv, [NetNext]_netVars
                 PROVE  D(m)!Next \/ UNCHANGED <<held[m].cid, site[m]>>
        BY DEF D!vars
    <2>1. MirrorsOK
        BY Parts
    <2>2. CASE UNCHANGED mirrorVars
        BY <2>2 DEF mirrorVars
    <2>3. ASSUME NEW n \in Mirrors, n # m, MirrorStep(n)
          PROVE  UNCHANGED <<held[m].cid, site[m]>>
        BY <2>1, <2>3
        DEF MirrorsOK, MirrorStep, ComeUp, GoDown, Adopt, Save, TakeDown, Populate
    <2>4. ASSUME MirrorStep(m)
          PROVE  D(m)!Next \/ UNCHANGED <<held[m].cid, site[m]>>
        <3>1. ASSUME NEW t \in TrustFiles, NEW h \in {saved[m], None}, ComeUp(m, t, h)
              PROVE  D(m)!Hold
            BY <2>1, <3>1 DEF MirrorsOK, ComeUp, D!Hold, Held, None
        <3>2. ASSUME GoDown(m) PROVE D(m)!Hold
            BY <2>1, <3>2 DEF MirrorsOK, GoDown, D!Hold, None
        <3>3. ASSUME NEW l \in OnRelays \cup {host}, Adopt(m, l) PROVE D(m)!Hold
            <4>1. l.cid \in CIDs
                BY <3>3, Sources DEF Adopt, Latest
            <4> QED
                BY <2>1, <3>3, <4>1 DEF MirrorsOK, Adopt, D!Hold
        <3>4. ASSUME NEW s \in {None, held[m]}, Save(m, s)
              PROVE  UNCHANGED <<held[m].cid, site[m]>>
            BY <3>4 DEF Save
        <3>5. ASSUME TakeDown(m) PROVE D(m)!TakeDown
            BY <2>1, <3>5 DEF MirrorsOK, TakeDown, D!TakeDown
        <3>6. ASSUME Populate(m) PROVE D(m)!PutUp
            BY <2>1, <3>6 DEF MirrorsOK, Populate, D!PutUp
        <3> QED
            BY <2>4, <3>1, <3>2, <3>3, <3>4, <3>5, <3>6 DEF MirrorStep, D!Next
    <2> QED
        BY <2>2, <2>3, <2>4, WhoMoves
<1> QED
    BY <1>1, <1>2, NetworkInvariant, PTL DEF NetSpec, D!Spec
=============================================================================
