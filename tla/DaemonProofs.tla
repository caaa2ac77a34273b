---------------------------- MODULE DaemonProofs ----------------------------
(***************************************************************************)
(* Daemon's safety for any releases, signers files, URLs, number of          *)
(* goroutines and number of restarts.                                       *)
(***************************************************************************)
EXTENDS Daemon, TLAPS

BeforeUpdate == {"ping", "pinadd", "pinrm", "update"}
AfterUpdate  == {"save", "write", "serve", "promote", "beat"}

\* A poll that is under way holds the mutex.
Locked == \A p \in Polls : pc[p] # "idle" => pollMu = p /\ running

\* A poll past its early returns carries a release this process trusts.
Trusted ==
    \A p \in Polls : pc[p] \in BeforeUpdate \cup AfterUpdate =>
        latest[p] \in Latests /\ ts.signers # {} /\ VerifyThreshold(ts, latest[p])

\* What it compared with the state still holds when it acts on it.
Ahead ==
    \A p \in Polls : pc[p] \in BeforeUpdate =>
        /\ prev[p] = mem.cid /\ latest[p].cid # mem.cid
        /\ latest[p].version > mem.ver \/ mem.ver = 0

Adopted == \A p \in Polls : pc[p] \in AfterUpdate => Names(mem, latest[p])

\* The old CID is unpinned only once the new one is pinned.
Replaced ==
    \A p \in Polls : pc[p] \in {"pinrm", "update"} => latest[p].cid \in pins

\* While new files replace old ones the directory shows no release.
Promoting == \A p \in Polls : pc[p] = "promote" => served = Partial

Keys == (running => mem.sk # 0) /\ (disk # NoState => disk.sk # 0)

\* A record the relays or a URL served, whatever it announces.
LEMMA LatestFacts ==
    ASSUME NEW l \in Latests
    PROVE  l.cid \in CIDs /\ l.cid # NoCID /\ l.version \in Nat
BY LatestsAssumption DEF CIDs

\* The state of a process that has loaded nothing.
LEMMA EmptyFacts == Empty \in States /\ Empty.cid = NoCID /\ Empty.ver = 0 /\ Empty.sk = 0
BY BoundsAssumption DEF Empty, States

\* A poll chooses one of the two records it fetched.
LEMMA ChosenFacts ==
    ASSUME TypeOK, NEW p \in Polls, Fetched(p)
    PROVE  Choose(http[p], nostr[p]) \in Latests \cup {NoLatest}
BY DEF TypeOK, Fetched, Choose

\* A poll past its early returns is about to adopt a verified release.
LEMMA VerifiedFacts ==
    ASSUME TypeOK, Trusted, NEW p \in Polls, pc[p] \in BeforeUpdate \cup AfterUpdate
    PROVE  latest[p] \in Latests /\ Verified(latest[p])
<1>1. ts.signers # {} /\ VerifyThreshold(ts, latest[p]) /\ latest[p] \in Latests
    BY DEF Trusted
<1>2. ts \in loaded
    BY <1>1 DEF TypeOK, NoTrust
<1> QED
    BY <1>1, <1>2 DEF Verified

\* Signers that were loaded stay loaded in the history, so a verified release
\* stays one.
LEMMA VerifiedStays ==
    ASSUME [Next]_vars
    PROVE  \A l \in Latests : Verified(l) => Verified(l)'
<1> USE DEF procVars, pollVars, sourceVars
<1>1. CASE UNCHANGED vars
    BY <1>1 DEF vars, Verified
<1>2. CASE Environment \/ BeatReads \/ BeatSends \/ BeatFails
    BY <1>2 DEF Environment, Upload, Announce, Expire, Deploy, BeatReads, BeatSends,
        BeatFails, Verified
<1>3. CASE Start \/ Exit
    BY <1>3 DEF Start, Exit, Verified
<1>4. ASSUME NEW p \in Polls, PollStart(p) \/ PollStep(p) \/ KuboPins(p) \/ KuboUnpins(p)
      PROVE  loaded' = loaded
    BY <1>4 DEF PollStart, PollStep, KuboPins, KuboUnpins, FetchClearweb,
        FetchClearwebFails, FetchNostr, Reject, Accept, PinFails, Ping, PinAdd, PinRm,
        UpdateState, SaveTruncates, SaveWrites, SaveFails, PromoteStarts, PromoteEnds,
        GetTarFails, PollBeat, PollBeatFails
<1> QED
    BY <1>1, <1>2, <1>3, <1>4 DEF Next, Verified

\* Every variable keeps its type.
LEMMA TypeStep ==
    TypeOK /\ Trusted /\ [Next]_vars => TypeOK'
<1> SUFFICES ASSUME TypeOK, Trusted, [Next]_vars
             PROVE  TypeOK'
    OBVIOUS
<1> USE LatestFacts, NoPollAssumption, BoundsAssumption
        DEF TypeOK, PCs, States, Beats, Adverts, SignerConfigs, procVars, pollVars, sourceVars
<1>1. CASE UNCHANGED vars
    BY <1>1 DEF vars
<1>2. CASE Environment
    BY <1>2 DEF Environment, Upload, Announce, Expire, Deploy
<1>3. CASE Start
    <2>1. mem' \in States
        BY <1>3, EmptyFacts DEF Start, Loadable
    <2>2. ts' \in SignerConfigs \cup {NoTrust} /\ loaded' = loaded \cup {ts'}
        BY <1>3 DEF Start
    <2>3. passedOver' \in BOOLEAN
        BY <1>3 DEF Start
    <2> QED
        BY <1>3, <2>1, <2>2, <2>3 DEF Start
<1>4. CASE Exit
    BY <1>4, EmptyFacts DEF Exit
<1>5. CASE BeatReads \/ BeatSends \/ BeatFails
    BY <1>5 DEF BeatReads, BeatSends, BeatFails
<1>6. ASSUME NEW p \in Polls, PollStart(p) \/ PollStep(p) \/ KuboPins(p) \/ KuboUnpins(p)
      PROVE  TypeOK'
    <2>1. CASE PollStart(p)
        BY <2>1 DEF PollStart, Goto
    <2>2. CASE FetchClearwebFails(p) \/ \E u \in Urls : FetchClearweb(p, u)
        BY <2>2 DEF FetchClearweb, FetchClearwebFails
    <2>3. CASE \E S \in SUBSET Announced : FetchNostr(p, S)
        BY <2>3 DEF FetchNostr, Newest, Announced
    <2>4. CASE Reject(p) \/ PinFails(p) \/ PollBeatFails(p)
        BY <2>4 DEF Reject, PinFails, PollBeatFails, Return
    <2>5. CASE PollBeat(p)
        BY <2>5 DEF PollBeat, Return, Trusted, BeforeUpdate, AfterUpdate
    <2>6. CASE Accept(p)
        BY <2>6, ChosenFacts DEF Accept, Fetched, Goto, Accepts
    <2>7. CASE Ping(p) \/ PinAdd(p) \/ PinRm(p)
        BY <2>7 DEF Ping, PinAdd, PinRm, Goto
    <2>8. CASE KuboPins(p)
        BY <2>8 DEF KuboPins, Trusted, BeforeUpdate, AfterUpdate
    <2>9. CASE KuboUnpins(p)
        BY <2>9 DEF KuboUnpins
    <2>10. CASE UpdateState(p)
        BY <2>10 DEF UpdateState, Goto, Trusted, BeforeUpdate, AfterUpdate
    <2>11. CASE SaveTruncates(p) \/ SaveWrites(p) \/ SaveFails(p)
        BY <2>11 DEF SaveTruncates, SaveWrites, SaveFails, AfterSave, Goto
    <2>12. CASE PromoteStarts(p) \/ PromoteEnds(p) \/ GetTarFails(p)
        BY <2>12 DEF PromoteStarts, PromoteEnds, GetTarFails, Goto, Trusted, BeforeUpdate,
            AfterUpdate
    <2> QED
        BY <1>6, <2>1, <2>2, <2>3, <2>4, <2>5, <2>6, <2>7, <2>8, <2>9, <2>10, <2>11, <2>12 DEF
            PollStep
<1> QED
    BY <1>1, <1>2, <1>3, <1>4, <1>5, <1>6 DEF Next

\* TryLock lets a poll in only when no other is under way.
LEMMA LockStep ==
    TypeOK /\ Locked /\ [Next]_vars => Locked'
<1> SUFFICES ASSUME TypeOK, Locked, [Next]_vars
             PROVE  Locked'
    OBVIOUS
<1> USE NoPollAssumption DEF TypeOK, PCs, Locked, procVars, pollVars, sourceVars
<1>1. CASE UNCHANGED vars
    BY <1>1 DEF vars
<1>2. CASE Environment
    BY <1>2 DEF Environment, Upload, Announce, Expire, Deploy
<1>3. CASE Start
    BY <1>3 DEF Start
<1>4. CASE Exit
    BY <1>4 DEF Exit
<1>5. CASE BeatReads \/ BeatSends \/ BeatFails
    BY <1>5 DEF BeatReads, BeatSends, BeatFails
<1>6. ASSUME NEW p \in Polls, PollStart(p) \/ PollStep(p) \/ KuboPins(p) \/ KuboUnpins(p)
      PROVE  Locked'
    <2>1. CASE PollStart(p)
        BY <2>1 DEF PollStart, Goto
    <2>2. CASE FetchClearwebFails(p) \/ \E u \in Urls : FetchClearweb(p, u)
        BY <2>2 DEF FetchClearweb, FetchClearwebFails
    <2>3. CASE \E S \in SUBSET Announced : FetchNostr(p, S)
        BY <2>3 DEF FetchNostr
    <2>4. CASE Reject(p) \/ PinFails(p) \/ PollBeatFails(p)
        BY <2>4 DEF Reject, PinFails, PollBeatFails, Return, Fetched
    <2>5. CASE PollBeat(p)
        BY <2>5 DEF PollBeat, Return
    <2>6. CASE Accept(p)
        BY <2>6 DEF Accept, Fetched, Goto
    <2>7. CASE Ping(p) \/ PinAdd(p) \/ PinRm(p)
        BY <2>7 DEF Ping, PinAdd, PinRm, Goto
    <2>8. CASE KuboPins(p)
        BY <2>8 DEF KuboPins
    <2>9. CASE KuboUnpins(p)
        BY <2>9 DEF KuboUnpins
    <2>10. CASE UpdateState(p)
        BY <2>10 DEF UpdateState, Goto
    <2>11. CASE SaveTruncates(p) \/ SaveWrites(p) \/ SaveFails(p)
        BY <2>11 DEF SaveTruncates, SaveWrites, SaveFails, AfterSave, Goto
    <2>12. CASE PromoteStarts(p) \/ PromoteEnds(p) \/ GetTarFails(p)
        BY <2>12 DEF PromoteStarts, PromoteEnds, GetTarFails, Goto
    <2> QED
        BY <1>6, <2>1, <2>2, <2>3, <2>4, <2>5, <2>6, <2>7, <2>8, <2>9, <2>10, <2>11, <2>12 DEF
            PollStep
<1> QED
    BY <1>1, <1>2, <1>3, <1>4, <1>5, <1>6 DEF Next

\* The early returns let only trusted releases through, and a process keeps the
\* signers it loaded.
LEMMA TrustStep ==
    TypeOK /\ Locked /\ Trusted /\ [Next]_vars => Trusted'
<1> SUFFICES ASSUME TypeOK, Locked, Trusted, [Next]_vars
             PROVE  Trusted'
    OBVIOUS
<1> USE NoPollAssumption DEF TypeOK, Locked, Trusted, PCs, BeforeUpdate, AfterUpdate, procVars,
    pollVars, sourceVars
<1>1. CASE UNCHANGED vars
    BY <1>1 DEF vars
<1>2. CASE Environment
    BY <1>2 DEF Environment, Upload, Announce, Expire, Deploy
<1>3. CASE Start
    BY <1>3 DEF Start
<1>4. CASE Exit
    BY <1>4 DEF Exit
<1>5. CASE BeatReads \/ BeatSends \/ BeatFails
    BY <1>5 DEF BeatReads, BeatSends, BeatFails
<1>6. ASSUME NEW p \in Polls, PollStart(p) \/ PollStep(p) \/ KuboPins(p) \/ KuboUnpins(p)
      PROVE  Trusted'
    <2>1. CASE PollStart(p)
        BY <2>1 DEF PollStart, Goto
    <2>2. CASE FetchClearwebFails(p) \/ \E u \in Urls : FetchClearweb(p, u)
        BY <2>2 DEF FetchClearweb, FetchClearwebFails
    <2>3. CASE \E S \in SUBSET Announced : FetchNostr(p, S)
        BY <2>3 DEF FetchNostr
    <2>4. CASE Reject(p) \/ PinFails(p) \/ PollBeatFails(p)
        BY <2>4 DEF Reject, PinFails, PollBeatFails, Return
    <2>5. CASE PollBeat(p)
        BY <2>5 DEF PollBeat, Return
    <2>6. CASE Accept(p)
        BY <2>6, ChosenFacts DEF Accept, Fetched, Goto, Accepts
    <2>7. CASE Ping(p) \/ PinAdd(p) \/ PinRm(p)
        BY <2>7 DEF Ping, PinAdd, PinRm, Goto
    <2>8. CASE KuboPins(p)
        BY <2>8 DEF KuboPins
    <2>9. CASE KuboUnpins(p)
        BY <2>9 DEF KuboUnpins
    <2>10. CASE UpdateState(p)
        BY <2>10 DEF UpdateState, Goto
    <2>11. CASE SaveTruncates(p) \/ SaveWrites(p) \/ SaveFails(p)
        BY <2>11 DEF SaveTruncates, SaveWrites, SaveFails, AfterSave, Goto
    <2>12. CASE PromoteStarts(p) \/ PromoteEnds(p) \/ GetTarFails(p)
        BY <2>12 DEF PromoteStarts, PromoteEnds, GetTarFails, Goto
    <2> QED
        BY <1>6, <2>1, <2>2, <2>3, <2>4, <2>5, <2>6, <2>7, <2>8, <2>9, <2>10, <2>11, <2>12 DEF
            PollStep
<1> QED
    BY <1>1, <1>2, <1>3, <1>4, <1>5, <1>6 DEF Next

\* Nobody else moves the state between poll's comparison and its update.
LEMMA AheadStep ==
    TypeOK /\ Locked /\ Ahead /\ [Next]_vars => Ahead'
<1> SUFFICES ASSUME TypeOK, Locked, Ahead, [Next]_vars
             PROVE  Ahead'
    OBVIOUS
<1> USE LatestFacts, NoPollAssumption DEF TypeOK, States, Locked, Ahead, PCs, BeforeUpdate,
    AfterUpdate, procVars, pollVars, sourceVars
<1>1. CASE UNCHANGED vars
    BY <1>1 DEF vars
<1>2. CASE Environment
    BY <1>2 DEF Environment, Upload, Announce, Expire, Deploy
<1>3. CASE Start
    BY <1>3 DEF Start
<1>4. CASE Exit
    BY <1>4 DEF Exit
<1>5. CASE BeatReads \/ BeatSends \/ BeatFails
    BY <1>5 DEF BeatReads, BeatSends, BeatFails
<1>6. ASSUME NEW p \in Polls, PollStart(p) \/ PollStep(p) \/ KuboPins(p) \/ KuboUnpins(p)
      PROVE  Ahead'
    <2>1. CASE PollStart(p)
        BY <2>1 DEF PollStart, Goto
    <2>2. CASE FetchClearwebFails(p) \/ \E u \in Urls : FetchClearweb(p, u)
        BY <2>2 DEF FetchClearweb, FetchClearwebFails
    <2>3. CASE \E S \in SUBSET Announced : FetchNostr(p, S)
        BY <2>3 DEF FetchNostr
    <2>4. CASE Reject(p) \/ PinFails(p) \/ PollBeatFails(p)
        BY <2>4 DEF Reject, PinFails, PollBeatFails, Return
    <2>5. CASE PollBeat(p)
        BY <2>5 DEF PollBeat, Return
    <2>6. CASE Accept(p)
        BY <2>6, ChosenFacts DEF Accept, Fetched, Goto, Accepts
    <2>7. CASE Ping(p) \/ PinAdd(p) \/ PinRm(p)
        BY <2>7 DEF Ping, PinAdd, PinRm, Goto
    <2>8. CASE KuboPins(p)
        BY <2>8 DEF KuboPins
    <2>9. CASE KuboUnpins(p)
        BY <2>9 DEF KuboUnpins
    <2>10. CASE UpdateState(p)
        BY <2>10 DEF UpdateState, Goto
    <2>11. CASE SaveTruncates(p) \/ SaveWrites(p) \/ SaveFails(p)
        BY <2>11 DEF SaveTruncates, SaveWrites, SaveFails, AfterSave, Goto
    <2>12. CASE PromoteStarts(p) \/ PromoteEnds(p) \/ GetTarFails(p)
        BY <2>12 DEF PromoteStarts, PromoteEnds, GetTarFails, Goto
    <2> QED
        BY <1>6, <2>1, <2>2, <2>3, <2>4, <2>5, <2>6, <2>7, <2>8, <2>9, <2>10, <2>11, <2>12 DEF
            PollStep
<1> QED
    BY <1>1, <1>2, <1>3, <1>4, <1>5, <1>6 DEF Next

\* Nor between its update and its return.
LEMMA AdoptStep ==
    TypeOK /\ Locked /\ Adopted /\ [Next]_vars => Adopted'
<1> SUFFICES ASSUME TypeOK, Locked, Adopted, [Next]_vars
             PROVE  Adopted'
    OBVIOUS
<1> USE NoPollAssumption DEF TypeOK, States, Locked, Adopted, Names, PCs, BeforeUpdate,
    AfterUpdate, procVars, pollVars, sourceVars
<1>1. CASE UNCHANGED vars
    BY <1>1 DEF vars
<1>2. CASE Environment
    BY <1>2 DEF Environment, Upload, Announce, Expire, Deploy
<1>3. CASE Start
    BY <1>3 DEF Start
<1>4. CASE Exit
    BY <1>4 DEF Exit
<1>5. CASE BeatReads \/ BeatSends \/ BeatFails
    BY <1>5 DEF BeatReads, BeatSends, BeatFails
<1>6. ASSUME NEW p \in Polls, PollStart(p) \/ PollStep(p) \/ KuboPins(p) \/ KuboUnpins(p)
      PROVE  Adopted'
    <2>1. CASE PollStart(p)
        BY <2>1 DEF PollStart, Goto
    <2>2. CASE FetchClearwebFails(p) \/ \E u \in Urls : FetchClearweb(p, u)
        BY <2>2 DEF FetchClearweb, FetchClearwebFails
    <2>3. CASE \E S \in SUBSET Announced : FetchNostr(p, S)
        BY <2>3 DEF FetchNostr
    <2>4. CASE Reject(p) \/ PinFails(p) \/ PollBeatFails(p)
        BY <2>4 DEF Reject, PinFails, PollBeatFails, Return
    <2>5. CASE PollBeat(p)
        BY <2>5 DEF PollBeat, Return
    <2>6. CASE Accept(p)
        BY <2>6 DEF Accept, Fetched, Goto
    <2>7. CASE Ping(p) \/ PinAdd(p) \/ PinRm(p)
        BY <2>7 DEF Ping, PinAdd, PinRm, Goto
    <2>8. CASE KuboPins(p)
        BY <2>8 DEF KuboPins
    <2>9. CASE KuboUnpins(p)
        BY <2>9 DEF KuboUnpins
    <2>10. CASE UpdateState(p)
        BY <2>10 DEF UpdateState, Goto
    <2>11. CASE SaveTruncates(p) \/ SaveWrites(p) \/ SaveFails(p)
        BY <2>11 DEF SaveTruncates, SaveWrites, SaveFails, AfterSave, Goto
    <2>12. CASE PromoteStarts(p) \/ PromoteEnds(p) \/ GetTarFails(p)
        BY <2>12 DEF PromoteStarts, PromoteEnds, GetTarFails, Goto
    <2> QED
        BY <1>6, <2>1, <2>2, <2>3, <2>4, <2>5, <2>6, <2>7, <2>8, <2>9, <2>10, <2>11, <2>12 DEF
            PollStep
<1> QED
    BY <1>1, <1>2, <1>3, <1>4, <1>5, <1>6 DEF Next

\* A pin/rm that kubo carries out is never of the CID that was just pinned.
LEMMA ReplaceStep ==
    TypeOK /\ Locked /\ Ahead /\ Replaced /\ [Next]_vars => Replaced'
<1> SUFFICES ASSUME TypeOK, Locked, Ahead, Replaced, [Next]_vars
             PROVE  Replaced'
    OBVIOUS
<1> USE NoPollAssumption DEF TypeOK, Locked, Replaced, PCs, BeforeUpdate, AfterUpdate, procVars,
    pollVars, sourceVars
<1>1. CASE UNCHANGED vars
    BY <1>1 DEF vars
<1>2. CASE Environment
    BY <1>2 DEF Environment, Upload, Announce, Expire, Deploy
<1>3. CASE Start
    BY <1>3 DEF Start
<1>4. CASE Exit
    BY <1>4 DEF Exit
<1>5. CASE BeatReads \/ BeatSends \/ BeatFails
    BY <1>5 DEF BeatReads, BeatSends, BeatFails
<1>6. ASSUME NEW p \in Polls, PollStart(p) \/ PollStep(p) \/ KuboPins(p) \/ KuboUnpins(p)
      PROVE  Replaced'
    <2>1. CASE PollStart(p)
        BY <2>1 DEF PollStart, Goto
    <2>2. CASE FetchClearwebFails(p) \/ \E u \in Urls : FetchClearweb(p, u)
        BY <2>2 DEF FetchClearweb, FetchClearwebFails
    <2>3. CASE \E S \in SUBSET Announced : FetchNostr(p, S)
        BY <2>3 DEF FetchNostr
    <2>4. CASE Reject(p) \/ PinFails(p) \/ PollBeatFails(p)
        BY <2>4 DEF Reject, PinFails, PollBeatFails, Return
    <2>5. CASE PollBeat(p)
        BY <2>5 DEF PollBeat, Return
    <2>6. CASE Accept(p)
        BY <2>6 DEF Accept, Fetched, Goto
    <2>7. CASE Ping(p) \/ PinAdd(p) \/ PinRm(p)
        BY <2>7 DEF Ping, PinAdd, PinRm, Goto
    <2>8. CASE KuboPins(p)
        BY <2>8 DEF KuboPins
    <2>9. CASE KuboUnpins(p)
        BY <2>9 DEF KuboUnpins, Ahead
    <2>10. CASE UpdateState(p)
        BY <2>10 DEF UpdateState, Goto
    <2>11. CASE SaveTruncates(p) \/ SaveWrites(p) \/ SaveFails(p)
        BY <2>11 DEF SaveTruncates, SaveWrites, SaveFails, AfterSave, Goto
    <2>12. CASE PromoteStarts(p) \/ PromoteEnds(p) \/ GetTarFails(p)
        BY <2>12 DEF PromoteStarts, PromoteEnds, GetTarFails, Goto
    <2> QED
        BY <1>6, <2>1, <2>2, <2>3, <2>4, <2>5, <2>6, <2>7, <2>8, <2>9, <2>10, <2>11, <2>12 DEF
            PollStep
<1> QED
    BY <1>1, <1>2, <1>3, <1>4, <1>5, <1>6 DEF Next

\* What poll adopts is pinned by then, and nothing unpins it before the poll ends.
LEMMA RecordStep ==
    TypeOK /\ Locked /\ Replaced /\ RecordsOnlyPinned /\ [Next]_vars => RecordsOnlyPinned'
<1> SUFFICES ASSUME TypeOK, Locked, Replaced, RecordsOnlyPinned, [Next]_vars
             PROVE  RecordsOnlyPinned'
    OBVIOUS
<1> USE NoPollAssumption DEF TypeOK, States, Locked, RecordsOnlyPinned, PCs, procVars, pollVars,
    sourceVars
<1>1. CASE UNCHANGED vars
    BY <1>1 DEF vars
<1>2. CASE Environment
    BY <1>2 DEF Environment, Upload, Announce, Expire, Deploy
<1>3. CASE Start
    BY <1>3 DEF Start
<1>4. CASE Exit
    BY <1>4 DEF Exit
<1>5. CASE BeatReads \/ BeatSends \/ BeatFails
    BY <1>5 DEF BeatReads, BeatSends, BeatFails
<1>6. ASSUME NEW p \in Polls, PollStart(p) \/ PollStep(p) \/ KuboPins(p) \/ KuboUnpins(p)
      PROVE  RecordsOnlyPinned'
    <2>1. CASE PollStart(p)
        BY <2>1 DEF PollStart, Goto
    <2>2. CASE FetchClearwebFails(p) \/ \E u \in Urls : FetchClearweb(p, u)
        BY <2>2 DEF FetchClearweb, FetchClearwebFails
    <2>3. CASE \E S \in SUBSET Announced : FetchNostr(p, S)
        BY <2>3 DEF FetchNostr
    <2>4. CASE Reject(p) \/ PinFails(p) \/ PollBeatFails(p)
        BY <2>4 DEF Reject, PinFails, PollBeatFails, Return
    <2>5. CASE PollBeat(p)
        BY <2>5 DEF PollBeat, Return
    <2>6. CASE Accept(p)
        BY <2>6 DEF Accept, Fetched, Goto
    <2>7. CASE Ping(p) \/ PinAdd(p) \/ PinRm(p)
        BY <2>7 DEF Ping, PinAdd, PinRm, Goto
    <2>8. CASE KuboPins(p)
        BY <2>8 DEF KuboPins
    <2>9. CASE KuboUnpins(p)
        BY <2>9 DEF KuboUnpins
    <2>10. CASE UpdateState(p)
        BY <2>10 DEF UpdateState, Goto, Replaced
    <2>11. CASE SaveTruncates(p) \/ SaveWrites(p) \/ SaveFails(p)
        BY <2>11 DEF SaveTruncates, SaveWrites, SaveFails, AfterSave, Goto
    <2>12. CASE PromoteStarts(p) \/ PromoteEnds(p) \/ GetTarFails(p)
        BY <2>12 DEF PromoteStarts, PromoteEnds, GetTarFails, Goto
    <2> QED
        BY <1>6, <2>1, <2>2, <2>3, <2>4, <2>5, <2>6, <2>7, <2>8, <2>9, <2>10, <2>11, <2>12 DEF
            PollStep
<1> QED
    BY <1>1, <1>2, <1>3, <1>4, <1>5, <1>6 DEF Next

\* Only the poll that promotes touches the directory.
LEMMA PromotingStep ==
    TypeOK /\ Locked /\ Promoting /\ [Next]_vars => Promoting'
<1> SUFFICES ASSUME TypeOK, Locked, Promoting, [Next]_vars
             PROVE  Promoting'
    OBVIOUS
<1> USE NoPollAssumption DEF TypeOK, Locked, Promoting, PCs, procVars, pollVars, sourceVars
<1>1. CASE UNCHANGED vars
    BY <1>1 DEF vars
<1>2. CASE Environment
    BY <1>2 DEF Environment, Upload, Announce, Expire, Deploy
<1>3. CASE Start
    BY <1>3 DEF Start
<1>4. CASE Exit
    BY <1>4 DEF Exit
<1>5. CASE BeatReads \/ BeatSends \/ BeatFails
    BY <1>5 DEF BeatReads, BeatSends, BeatFails
<1>6. ASSUME NEW p \in Polls, PollStart(p) \/ PollStep(p) \/ KuboPins(p) \/ KuboUnpins(p)
      PROVE  Promoting'
    <2>1. CASE PollStart(p)
        BY <2>1 DEF PollStart, Goto
    <2>2. CASE FetchClearwebFails(p) \/ \E u \in Urls : FetchClearweb(p, u)
        BY <2>2 DEF FetchClearweb, FetchClearwebFails
    <2>3. CASE \E S \in SUBSET Announced : FetchNostr(p, S)
        BY <2>3 DEF FetchNostr
    <2>4. CASE Reject(p) \/ PinFails(p) \/ PollBeatFails(p)
        BY <2>4 DEF Reject, PinFails, PollBeatFails, Return
    <2>5. CASE PollBeat(p)
        BY <2>5 DEF PollBeat, Return
    <2>6. CASE Accept(p)
        BY <2>6 DEF Accept, Fetched, Goto
    <2>7. CASE Ping(p) \/ PinAdd(p) \/ PinRm(p)
        BY <2>7 DEF Ping, PinAdd, PinRm, Goto
    <2>8. CASE KuboPins(p)
        BY <2>8 DEF KuboPins
    <2>9. CASE KuboUnpins(p)
        BY <2>9 DEF KuboUnpins
    <2>10. CASE UpdateState(p)
        BY <2>10 DEF UpdateState, Goto
    <2>11. CASE SaveTruncates(p) \/ SaveWrites(p) \/ SaveFails(p)
        BY <2>11 DEF SaveTruncates, SaveWrites, SaveFails, AfterSave, Goto
    <2>12. CASE PromoteStarts(p) \/ PromoteEnds(p) \/ GetTarFails(p)
        BY <2>12 DEF PromoteStarts, PromoteEnds, GetTarFails, Goto
    <2> QED
        BY <1>6, <2>1, <2>2, <2>3, <2>4, <2>5, <2>6, <2>7, <2>8, <2>9, <2>10, <2>11, <2>12 DEF
            PollStep
<1> QED
    BY <1>1, <1>2, <1>3, <1>4, <1>5, <1>6 DEF Next

\* A process always has a Nostr key, and saves it with the rest.
LEMMA KeysStep ==
    TypeOK /\ Locked /\ Keys /\ [Next]_vars => Keys'
<1> SUFFICES ASSUME TypeOK, Locked, Keys, [Next]_vars
             PROVE  Keys'
    OBVIOUS
<1> USE NoPollAssumption DEF TypeOK, States, Locked, Keys, procVars, pollVars, sourceVars
<1>1. CASE UNCHANGED vars
    BY <1>1 DEF vars
<1>2. CASE Environment
    BY <1>2 DEF Environment, Upload, Announce, Expire, Deploy
<1>3. CASE Start
    BY <1>3 DEF Start, Loadable, Empty
<1>4. CASE Exit
    BY <1>4 DEF Exit
<1>5. CASE BeatReads \/ BeatSends \/ BeatFails
    BY <1>5 DEF BeatReads, BeatSends, BeatFails
<1>6. ASSUME NEW p \in Polls, PollStart(p) \/ PollStep(p) \/ KuboPins(p) \/ KuboUnpins(p)
      PROVE  Keys'
    <2>1. CASE PollStart(p)
        BY <2>1 DEF PollStart, Goto
    <2>2. CASE FetchClearwebFails(p) \/ \E u \in Urls : FetchClearweb(p, u)
        BY <2>2 DEF FetchClearweb, FetchClearwebFails
    <2>3. CASE \E S \in SUBSET Announced : FetchNostr(p, S)
        BY <2>3 DEF FetchNostr
    <2>4. CASE Reject(p) \/ PinFails(p) \/ PollBeatFails(p)
        BY <2>4 DEF Reject, PinFails, PollBeatFails, Return
    <2>5. CASE PollBeat(p)
        BY <2>5 DEF PollBeat, Return
    <2>6. CASE Accept(p)
        BY <2>6 DEF Accept, Fetched, Goto
    <2>7. CASE Ping(p) \/ PinAdd(p) \/ PinRm(p)
        BY <2>7 DEF Ping, PinAdd, PinRm, Goto
    <2>8. CASE KuboPins(p)
        BY <2>8 DEF KuboPins
    <2>9. CASE KuboUnpins(p)
        BY <2>9 DEF KuboUnpins
    <2>10. CASE UpdateState(p)
        BY <2>10 DEF UpdateState, Goto
    <2>11. CASE SaveTruncates(p) \/ SaveWrites(p) \/ SaveFails(p)
        BY <2>11 DEF SaveTruncates, SaveWrites, SaveFails, AfterSave, Goto
    <2>12. CASE PromoteStarts(p) \/ PromoteEnds(p) \/ GetTarFails(p)
        BY <2>12 DEF PromoteStarts, PromoteEnds, GetTarFails, Goto
    <2> QED
        BY <1>6, <2>1, <2>2, <2>3, <2>4, <2>5, <2>6, <2>7, <2>8, <2>9, <2>10, <2>11, <2>12 DEF
            PollStep
<1> QED
    BY <1>1, <1>2, <1>3, <1>4, <1>5, <1>6 DEF Next

\* The file is written from the state, and the state only moves forward.
LEMMA DiskStep ==
    TypeOK /\ Locked /\ Trusted /\ Ahead /\ Keys /\ DiskNeverAhead /\ [Next]_vars =>
        DiskNeverAhead'
<1> SUFFICES ASSUME TypeOK, Locked, Trusted, Ahead, Keys, DiskNeverAhead, [Next]_vars
             PROVE  DiskNeverAhead'
    OBVIOUS
<1> USE LatestFacts, NoPollAssumption DEF TypeOK, States, Locked, Keys, DiskNeverAhead,
    procVars, pollVars, sourceVars
<1>1. CASE UNCHANGED vars
    BY <1>1 DEF vars
<1>2. CASE Environment
    BY <1>2 DEF Environment, Upload, Announce, Expire, Deploy
<1>3. CASE Start
    <2>1. CASE mem' = disk /\ disk # NoState
        BY <1>3, <2>1 DEF Start
    <2>2. CASE disk = NoState \/ passedOver'
        BY <1>3, <2>2 DEF Start
    <2> QED
        BY <1>3, <2>1, <2>2 DEF Start, Loadable
<1>4. CASE Exit
    BY <1>4 DEF Exit
<1>5. CASE BeatReads \/ BeatSends \/ BeatFails
    BY <1>5 DEF BeatReads, BeatSends, BeatFails
<1>6. ASSUME NEW p \in Polls, PollStart(p) \/ PollStep(p) \/ KuboPins(p) \/ KuboUnpins(p)
      PROVE  DiskNeverAhead'
    <2>1. CASE PollStart(p)
        BY <2>1 DEF PollStart, Goto
    <2>2. CASE FetchClearwebFails(p) \/ \E u \in Urls : FetchClearweb(p, u)
        BY <2>2 DEF FetchClearweb, FetchClearwebFails
    <2>3. CASE \E S \in SUBSET Announced : FetchNostr(p, S)
        BY <2>3 DEF FetchNostr
    <2>4. CASE Reject(p) \/ PinFails(p) \/ PollBeatFails(p)
        BY <2>4 DEF Reject, PinFails, PollBeatFails, Return
    <2>5. CASE PollBeat(p)
        BY <2>5 DEF PollBeat, Return
    <2>6. CASE Accept(p)
        BY <2>6 DEF Accept, Fetched, Goto
    <2>7. CASE Ping(p) \/ PinAdd(p) \/ PinRm(p)
        BY <2>7 DEF Ping, PinAdd, PinRm, Goto
    <2>8. CASE KuboPins(p)
        BY <2>8 DEF KuboPins
    <2>9. CASE KuboUnpins(p)
        BY <2>9 DEF KuboUnpins
    <2>10. CASE UpdateState(p)
        BY <2>10 DEF UpdateState, Goto, Ahead, Trusted, BeforeUpdate, AfterUpdate
    <2>11. CASE SaveTruncates(p) \/ SaveWrites(p) \/ SaveFails(p)
        <3>1. CASE SaveTruncates(p)
            BY <3>1 DEF SaveTruncates
        <3>2. CASE SaveWrites(p)
            <4>1. disk' = mem /\ mem' = mem
                BY <3>2 DEF SaveWrites
            <4> QED
                BY <4>1
        <3>3. CASE SaveFails(p)
            BY <3>3 DEF SaveFails
        <3> QED
            BY <2>11, <3>1, <3>2, <3>3
    <2>12. CASE PromoteStarts(p) \/ PromoteEnds(p) \/ GetTarFails(p)
        BY <2>12 DEF PromoteStarts, PromoteEnds, GetTarFails, Goto
    <2> QED
        BY <1>6, <2>1, <2>2, <2>3, <2>4, <2>5, <2>6, <2>7, <2>8, <2>9, <2>10, <2>11, <2>12 DEF
            PollStep
<1> QED
    BY <1>1, <1>2, <1>3, <1>4, <1>5, <1>6 DEF Next

\* The parts of Provenance and HeartbeatsProvenant: what names a release, and what
\* holds the content of one.
Recorded ==
    /\ Provenant(mem) /\ (disk # NoState => Provenant(disk))
    /\ (hb # NoBeat => Provenant(hb)) /\ (advert # NoBeat => Provenant(advert))

Signed(c) == \E l \in Latests : Verified(l) /\ l.cid = c

Stored == \A c \in pins \cup ({served} \ {NoCID, Partial}) : Signed(c)

\* What a step leaves alone keeps its provenance.
LEMMA Kept ==
    ASSUME [Next]_vars
    PROVE  /\ Recorded /\ UNCHANGED <<mem, disk, hb, advert>> => Recorded'
           /\ Stored /\ UNCHANGED <<pins, served>> => Stored'
<1>1. ASSUME Recorded, UNCHANGED <<mem, disk, hb, advert>> PROVE Recorded'
    BY <1>1, VerifiedStays DEF Recorded, Provenant, Names
<1>2. ASSUME Stored, UNCHANGED <<pins, served>> PROVE Stored'
    BY <1>2, VerifiedStays DEF Stored, Signed
<1> QED
    BY <1>1, <1>2

\* The content of a verified release is pinned and shown, or what already was.
LEMMA StoredStep ==
    ASSUME TypeOK, Trusted, Stored, NEW p \in Polls,
           PollStart(p) \/ PollStep(p) \/ KuboPins(p) \/ KuboUnpins(p)
    PROVE  Stored'
<1> USE DEF TypeOK, pollVars, sourceVars
<1>n. [Next]_vars
    BY DEF Next
<1>0. \A c : Signed(c) => Signed(c)'
    BY <1>n, VerifiedStays DEF Signed
<1>1. CASE KuboPins(p) \/ PromoteEnds(p)
    <2>1. latest[p] \in Latests /\ Verified(latest[p])
        BY <1>1, VerifiedFacts DEF KuboPins, PromoteEnds, Goto, BeforeUpdate, AfterUpdate
    <2>2. Signed(latest[p].cid)
        BY <2>1 DEF Signed
    <2>3. pins' \subseteq pins \cup {latest[p].cid} /\ served' \in {served, latest[p].cid}
        BY <1>1 DEF KuboPins, PromoteEnds
    <2>4. \A c \in pins' \cup ({served'} \ {NoCID, Partial}) : Signed(c)
        BY <2>2, <2>3 DEF Stored
    <2> QED
        BY <2>4, <1>0 DEF Stored
<1>2. CASE KuboUnpins(p) \/ PromoteStarts(p)
    <2>1. pins' \subseteq pins /\ served' \in {served, Partial}
        BY <1>2 DEF KuboUnpins, PromoteStarts
    <2> QED
        BY <2>1, <1>0 DEF Stored
<1>3. CASE ~KuboPins(p) /\ ~PromoteEnds(p) /\ ~KuboUnpins(p) /\ ~PromoteStarts(p)
    <2>1. UNCHANGED <<pins, served>>
        BY <1>3 DEF PollStart, PollStep, FetchClearweb, FetchClearwebFails, FetchNostr,
            Reject, Accept, PinFails, Ping, PinAdd, PinRm, UpdateState, SaveTruncates,
            SaveWrites, SaveFails, GetTarFails, PollBeat, PollBeatFails
    <2> QED
        BY <1>n, <2>1, Kept
<1> QED
    BY <1>1, <1>2, <1>3

\* The state, the file and poll's heartbeat name what the poll has verified.
LEMMA RecordedStep ==
    ASSUME TypeOK, Trusted, Recorded, NEW p \in Polls,
           PollStart(p) \/ PollStep(p) \/ KuboPins(p) \/ KuboUnpins(p)
    PROVE  Recorded'
<1> USE DEF TypeOK, States, pollVars, sourceVars
<1>n. [Next]_vars
    BY DEF Next
<1>0. \A l \in Latests : Verified(l) => Verified(l)'
    BY <1>n, VerifiedStays
<1>1. CASE UpdateState(p) \/ PollBeat(p)
    <2>1. latest[p] \in Latests /\ Verified(latest[p])
        BY <1>1, VerifiedFacts DEF UpdateState, PollBeat, Goto, BeforeUpdate, AfterUpdate
    <2>2. CASE UpdateState(p)
        <3>1. Names(mem', latest[p]) /\ UNCHANGED <<disk, hb, advert>>
            BY <2>2 DEF UpdateState, Names
        <3> QED
            BY <1>0, <2>1, <3>1 DEF Recorded, Provenant, Names
    <2>3. CASE PollBeat(p)
        <3>1. Names(advert', latest[p]) /\ UNCHANGED <<disk, hb, mem>>
            BY <2>3 DEF PollBeat, Names
        <3> QED
            BY <1>0, <2>1, <3>1 DEF Recorded, Provenant, Names
    <2> QED
        BY <1>1, <2>2, <2>3
<1>2. CASE SaveTruncates(p) \/ SaveWrites(p)
    <2>1. disk' \in {NoState, mem} /\ UNCHANGED <<mem, hb, advert>>
        BY <1>2 DEF SaveTruncates, SaveWrites
    <2> QED
        BY <1>0, <2>1 DEF Recorded, Provenant, Names
<1>3. CASE ~UpdateState(p) /\ ~PollBeat(p) /\ ~SaveTruncates(p) /\ ~SaveWrites(p)
    <2>1. UNCHANGED <<mem, disk, hb, advert>>
        BY <1>3 DEF PollStart, PollStep, KuboPins, KuboUnpins, FetchClearweb,
            FetchClearwebFails, FetchNostr, Reject, Accept, PinFails, Ping, PinAdd, PinRm,
            SaveFails, PromoteStarts, PromoteEnds, GetTarFails, PollBeatFails
    <2> QED
        BY <1>n, <2>1, Kept
<1> QED
    BY <1>1, <1>2, <1>3

\* A release enters the state, the heartbeats, kubo and the directory only through
\* poll's checks.
LEMMA ProvenanceStep ==
    TypeOK /\ Trusted /\ Provenance /\ HeartbeatsProvenant /\ [Next]_vars =>
        Provenance' /\ HeartbeatsProvenant'
<1> SUFFICES ASSUME TypeOK, Trusted, Recorded, Stored, [Next]_vars
             PROVE  Recorded' /\ Stored'
    BY DEF Provenance, HeartbeatsProvenant, Recorded, Stored, Signed
<1> USE VerifiedStays DEF procVars, pollVars, sourceVars
<1>1. CASE UNCHANGED vars
    BY <1>1, Kept DEF vars
<1>2. CASE Environment
    BY <1>2, Kept DEF Environment, Upload, Announce, Expire, Deploy
<1>3. CASE Start \/ Exit
    <2>1. hb' \in {hb, NoBeat} /\ UNCHANGED <<disk, advert, pins, served>>
        BY <1>3 DEF Start, Exit
    <2>2. mem'.cid = NoCID \/ (disk # NoState /\ mem'.cid = disk.cid /\ mem'.ver = disk.ver)
        BY <1>3, EmptyFacts DEF Start, Loadable, Exit, TypeOK, States
    <2> QED
        BY <2>1, <2>2, Kept DEF Recorded, Provenant, Names
<1>4. CASE BeatReads \/ BeatSends \/ BeatFails
    <2>1. UNCHANGED <<mem, disk, pins, served>>
        BY <1>4 DEF BeatReads, BeatSends, BeatFails
    <2>2. hb' \in {hb, NoBeat} \/ (hb'.cid = mem.cid /\ hb'.ver = mem.ver)
        BY <1>4 DEF BeatReads, BeatSends, BeatFails
    <2>3. advert' = advert \/ (hb # NoBeat /\ advert'.cid = hb.cid /\ advert'.ver = hb.ver)
        BY <1>4 DEF BeatReads, BeatSends, BeatFails
    <2> QED
        BY <2>1, <2>2, <2>3, Kept DEF Recorded, Provenant, Names
<1>5. ASSUME NEW p \in Polls, PollStart(p) \/ PollStep(p) \/ KuboPins(p) \/ KuboUnpins(p)
      PROVE  Recorded' /\ Stored'
    BY <1>5, RecordedStep, StoredStep
<1> QED
    BY <1>1, <1>2, <1>3, <1>4, <1>5 DEF Next

\* What replaces an unpinned CID is newer than all the state and the file name.
LEMMA CoverStep ==
    /\ TypeOK /\ Locked /\ Trusted /\ Ahead /\ Replaced /\ Adopted
    /\ RecordsOnlyPinned /\ DiskNeverAhead /\ NeverLosesRelease /\ [Next]_vars
    => NeverLosesRelease'
<1> SUFFICES ASSUME TypeOK, Locked, Trusted, Ahead, Replaced, Adopted, RecordsOnlyPinned,
                    DiskNeverAhead, NeverLosesRelease, [Next]_vars
             PROVE  NeverLosesRelease'
    OBVIOUS
<1> USE LatestFacts, NoPollAssumption, VerifiedStays DEF TypeOK, States, NeverLosesRelease, Covered, procVars,
    pollVars, sourceVars
<1>1. CASE UNCHANGED vars
    BY <1>1 DEF vars, Verified
<1>2. CASE Environment
    BY <1>2 DEF Environment, Upload, Announce, Expire, Deploy
<1>3. CASE Start
    <2>1. mem'.cid = NoCID \/ (disk # NoState /\ mem'.cid = disk.cid /\ mem'.ver = disk.ver)
        BY <1>3, EmptyFacts DEF Start, Loadable
    <2>2. UNCHANGED <<disk, pins>> /\ (~passedOver' => ~passedOver)
        BY <1>3 DEF Start
    <2> QED
        BY <2>1, <2>2
<1>4. CASE Exit
    BY <1>4, EmptyFacts DEF Exit
<1>5. CASE BeatReads \/ BeatSends \/ BeatFails
    BY <1>5 DEF BeatReads, BeatSends, BeatFails
<1>6. ASSUME NEW p \in Polls, PollStart(p) \/ PollStep(p) \/ KuboPins(p) \/ KuboUnpins(p)
      PROVE  NeverLosesRelease'
    <2>1. CASE PollStart(p)
        BY <2>1 DEF PollStart, Goto
    <2>2. CASE FetchClearwebFails(p) \/ \E u \in Urls : FetchClearweb(p, u)
        BY <2>2 DEF FetchClearweb, FetchClearwebFails
    <2>3. CASE \E S \in SUBSET Announced : FetchNostr(p, S)
        BY <2>3 DEF FetchNostr
    <2>4. CASE Reject(p) \/ PinFails(p) \/ PollBeatFails(p)
        BY <2>4 DEF Reject, PinFails, PollBeatFails, Return
    <2>5. CASE PollBeat(p)
        BY <2>5 DEF PollBeat, Return
    <2>6. CASE Accept(p)
        BY <2>6 DEF Accept, Fetched, Goto
    <2>7. CASE Ping(p) \/ PinAdd(p) \/ PinRm(p)
        BY <2>7 DEF Ping, PinAdd, PinRm, Goto
    <2>8. CASE KuboPins(p)
        BY <2>8 DEF KuboPins
    <2>9. CASE KuboUnpins(p)
        BY <2>9, VerifiedFacts DEF KuboUnpins, Ahead, Replaced, Locked, DiskNeverAhead, PCs,
            BeforeUpdate, AfterUpdate
    <2>10. CASE UpdateState(p)
        BY <2>10, VerifiedFacts DEF UpdateState, Goto, Replaced, PCs, BeforeUpdate, AfterUpdate
    <2>11. CASE SaveTruncates(p) \/ SaveWrites(p) \/ SaveFails(p)
        <3>1. CASE SaveTruncates(p)
            <4>1. /\ latest[p] \in Latests /\ Verified(latest[p])
                  /\ Names(mem, latest[p]) /\ mem.cid \in pins
                BY <3>1, VerifiedFacts DEF SaveTruncates, Goto, Adopted, RecordsOnlyPinned,
                    PCs, BeforeUpdate, AfterUpdate
            <4>2. mem' = mem /\ pins' = pins /\ disk' = NoState
                BY <3>1 DEF SaveTruncates
            <4> QED
                BY <4>1, <4>2 DEF Names
        <3>2. CASE SaveWrites(p)
            <4>1. disk' = mem /\ UNCHANGED <<mem, pins, passedOver>>
                BY <3>2 DEF SaveWrites
            <4> QED
                BY <4>1
        <3>3. CASE SaveFails(p)
            BY <3>3 DEF SaveFails
        <3> QED
            BY <2>11, <3>1, <3>2, <3>3
    <2>12. CASE PromoteStarts(p) \/ PromoteEnds(p) \/ GetTarFails(p)
        BY <2>12 DEF PromoteStarts, PromoteEnds, GetTarFails, Goto
    <2> QED
        BY <1>6, <2>1, <2>2, <2>3, <2>4, <2>5, <2>6, <2>7, <2>8, <2>9, <2>10, <2>11, <2>12 DEF
            PollStep
<1> QED
    BY <1>1, <1>2, <1>3, <1>4, <1>5, <1>6 DEF Next

\* The inductive invariant: Provenance, DiskNeverAhead and NeverLosesRelease need
\* to know what a poll that is under way has checked, and that it is alone; and a
\* save that gets hold of a file passed over makes NeverLosesRelease true again
\* because of RecordsOnlyPinned.
IInv ==
    /\ TypeOK /\ Locked /\ Trusted /\ Ahead /\ Adopted /\ Replaced /\ Keys
    /\ Promoting /\ DiskNeverAhead /\ Provenance /\ HeartbeatsProvenant
    /\ NeverLosesRelease /\ RecordsOnlyPinned

\* A mirror that has never run holds, has pinned and has saved nothing.
LEMMA InitIInv == Init => IInv
<1> SUFFICES ASSUME Init PROVE IInv
    OBVIOUS
<1>1. TypeOK
    <2>1. mem \in States
        BY EmptyFacts DEF Init
    <2>2. starts \in 0..MaxStarts
        BY BoundsAssumption DEF Init
    <2> QED
        BY <2>1, <2>2 DEF Init, TypeOK, PCs
<1>2. Locked /\ Trusted /\ Ahead /\ Adopted /\ Replaced
    BY DEF Init, Locked, Trusted, Ahead, Adopted, Replaced, BeforeUpdate, AfterUpdate
<1>3. Keys /\ DiskNeverAhead /\ Promoting /\ RecordsOnlyPinned
    BY DEF Init, Keys, DiskNeverAhead, Promoting, RecordsOnlyPinned
<1>4. Provenance /\ HeartbeatsProvenant /\ NeverLosesRelease
    BY EmptyFacts DEF Init, Provenance, HeartbeatsProvenant, Provenant, NeverLosesRelease,
        Covered
<1> QED
    BY <1>1, <1>2, <1>3, <1>4 DEF IInv

\* IInv holds initially and every step of Next, or a stutter, preserves it.
LEMMA DaemonInvariant == Spec => []IInv
<1>1. IInv /\ [Next]_vars => IInv'
    BY TypeStep, LockStep, TrustStep, AheadStep, AdoptStep, ReplaceStep, KeysStep, DiskStep,
       PromotingStep, ProvenanceStep, CoverStep, RecordStep
       DEF IInv
<1> QED
    BY InitIInv, <1>1, PTL DEF Spec

\* Every variable has its type in every reachable state.
THEOREM DaemonTypeCorrect == Spec => []TypeOK
    BY DaemonInvariant, PTL DEF IInv

\* What the daemon holds or has saved is a release that the signers it was running
\* with signed, and what is pinned and served is the content of one, through any
\* number of crashes, restarts, other signers files and bad announcements
\* (daemon.go: poll; config.go: loadState, saveState).
THEOREM DaemonProvenance == Spec => []Provenance
    BY DaemonInvariant, PTL DEF IInv

\* And so is what it advertises, although it sends what it read some time ago
\* (daemon.go: heartbeat, sendHeartbeat).
THEOREM DaemonHeartbeatsProvenant == Spec => []HeartbeatsProvenant
    BY DaemonInvariant, PTL DEF IInv

\* Although poll() unpins before it saves, and may be cut off anywhere, kubo
\* always has a verified release pinned that is no older than the one the state,
\* or the file a restart loads, names; unless a start could not read that file,
\* and then again from the next save on (config.go: loadState, saveState).
THEOREM DaemonNeverLosesRelease == Spec => []NeverLosesRelease
    BY DaemonInvariant, PTL DEF IInv

\* A restart never finds a newer version or another identity in the file than the
\* process had, unless that process could not read the file when it started.
THEOREM DaemonDiskNeverAhead == Spec => []DiskNeverAhead
    BY DaemonInvariant, PTL DEF IInv

\* Until the poll that adopted it ends, what the state names is pinned.
THEOREM DaemonRecordsOnlyPinned == Spec => []RecordsOnlyPinned
    BY DaemonInvariant, PTL DEF IInv

\* While the process runs, its version never goes back and its key stays.
THEOREM DaemonNoDowngrade == Spec => NoDowngrade
<1> DEFINE Forward == running /\ running' => mem'.ver >= mem.ver /\ mem'.sk = mem.sk
<1>1. IInv /\ [Next]_vars => [Forward]_vars
    <2> SUFFICES ASSUME IInv, Next PROVE Forward
        BY DEF vars
    <2> USE LatestFacts DEF IInv, TypeOK, States, procVars, pollVars, sourceVars
    <2>1. CASE Environment
        BY <2>1 DEF Environment, Upload, Announce, Expire, Deploy
    <2>2. CASE Start \/ Exit
        BY <2>2 DEF Start, Exit
    <2>3. CASE BeatReads \/ BeatSends \/ BeatFails
        BY <2>3 DEF BeatReads, BeatSends, BeatFails
    <2>4. ASSUME NEW p \in Polls, PollStart(p) \/ PollStep(p) \/ KuboPins(p) \/ KuboUnpins(p)
          PROVE  Forward
        <3>1. CASE UpdateState(p)
            BY <3>1 DEF UpdateState, Goto, Ahead, Trusted, BeforeUpdate, AfterUpdate
        <3>2. CASE ~UpdateState(p)
            <4>1. mem' = mem
                BY <2>4, <3>2 DEF PollStart, PollStep, KuboPins, KuboUnpins, FetchClearweb,
                    FetchClearwebFails, FetchNostr, Reject, Accept, PinFails, Ping, PinAdd,
                    PinRm, SaveTruncates, SaveWrites, SaveFails, PromoteStarts, PromoteEnds,
                    GetTarFails, PollBeat, PollBeatFails
            <4> QED
                BY <4>1
        <3> QED
            BY <3>1, <3>2
    <2> QED
        BY <2>1, <2>2, <2>3, <2>4 DEF Next
<1> QED
    BY <1>1, DaemonInvariant, PTL DEF Spec, NoDowngrade

\* Every step of the daemon is a step of the abstract mirror, or none of its
\* business: polls, kubo, half-written files and heartbeats refine "adopt only
\* newer signed releases; come back to what was written down".
THEOREM DaemonImplementsMirror == Spec => ImplementsMirror
<1> DEFINE Down(d) == Release(IF d = NoState THEN Empty ELSE d)
<1>1. Init => M!Init
    BY DEF Init, M!Init, M!None, M!NoTrust, NoTrust, Release, Empty
<1>2. IInv /\ [Next]_vars => [M!Next]_(M!vars)
    <2> SUFFICES ASSUME IInv, [Next]_vars PROVE M!Next \/ UNCHANGED M!vars
        OBVIOUS
    <2> USE DEF procVars, pollVars, sourceVars, M!vars
    <2>1. CASE UNCHANGED vars
        BY <2>1 DEF vars
    <2>2. CASE Environment \/ BeatReads \/ BeatSends \/ BeatFails
        BY <2>2 DEF Environment, Upload, Announce, Expire, Deploy, BeatReads, BeatSends, BeatFails
    <2>3. CASE Start
        <3>1. ts' \in SignerConfigs \cup {NoTrust}
            BY <2>3 DEF IInv, TypeOK, Start, SignerConfigs
        <3>2. Release(mem') \in {Down(disk), M!None}
            BY <2>3, EmptyFacts DEF Start, Loadable, Release, IInv, TypeOK, States, Empty,
                M!None
        <3>3. M!ComeUp
            BY <2>3, <3>1, <3>2 DEF Start, M!ComeUp, M!NoTrust, NoTrust
        <3> QED
            BY <3>3 DEF M!Next
    <2>4. CASE Exit
        <3>1. M!GoDown
            BY <2>4 DEF Exit, M!GoDown, M!NoTrust, M!None, NoTrust, Release, Empty
        <3> QED
            BY <3>1 DEF M!Next
    <2>5. ASSUME NEW p \in Polls, PollStart(p) \/ PollStep(p) \/ KuboPins(p) \/ KuboUnpins(p)
          PROVE  M!Next \/ UNCHANGED M!vars
        <3>1. CASE UpdateState(p)
            <4>1. latest[p] \in Latests /\ running
                BY <3>1 DEF UpdateState, Goto, IInv, Locked, Trusted, BeforeUpdate, AfterUpdate
            <4>2. /\ ts.signers # {} /\ VerifyThreshold(ts, latest[p])
                  /\ latest[p].cid # mem.cid
                  /\ latest[p].version > mem.ver \/ mem.ver = 0
                BY <3>1 DEF UpdateState, Goto, IInv, Trusted, Ahead, BeforeUpdate, AfterUpdate
            <4>3. Release(mem') = [cid |-> latest[p].cid, ver |-> latest[p].version]
                BY <3>1 DEF UpdateState, Release, IInv, TypeOK, States
            <4>4. M!Adopt(latest[p])
                BY <3>1, <4>1, <4>2, <4>3 DEF UpdateState, M!Adopt, Release
            <4> QED
                BY <4>1, <4>4 DEF M!Next
        <3>2. CASE SaveTruncates(p)
            <4>1. M!Forget
                BY <3>2 DEF SaveTruncates, Goto, IInv, Locked, M!Forget, M!None, Release, Empty
            <4> QED
                BY <4>1 DEF M!Next
        <3>3. CASE SaveWrites(p)
            <4>1. running /\ disk' = mem /\ mem' = mem
                BY <3>3 DEF SaveWrites, Goto, IInv, Locked
            <4>2. CASE mem # NoState
                <5>1. M!Save
                    BY <3>3, <4>1, <4>2 DEF SaveWrites, M!Save
                <5> QED
                    BY <5>1 DEF M!Next
            <4>3. CASE mem = NoState
                <5>1. disk' = NoState /\ UNCHANGED <<running, ts, mem>>
                    BY <3>3, <4>1, <4>3 DEF SaveWrites
                <5>2. M!Forget
                    BY <4>1, <5>1 DEF M!Forget, M!None, Release, Empty
                <5> QED
                    BY <5>2 DEF M!Next
            <4> QED
                BY <4>2, <4>3
        <3>4. CASE ~UpdateState(p) /\ ~SaveTruncates(p) /\ ~SaveWrites(p)
            <4>1. UNCHANGED <<running, ts, mem, disk>>
                BY <2>5, <3>4 DEF PollStart, PollStep, KuboPins, KuboUnpins, FetchClearweb,
                    FetchClearwebFails, FetchNostr, Reject, Accept, PinFails, Ping, PinAdd,
                    PinRm, SaveFails, PromoteStarts, PromoteEnds, GetTarFails, PollBeat,
                    PollBeatFails
            <4> QED
                BY <4>1
        <3> QED
            BY <3>1, <3>2, <3>3, <3>4
    <2> QED
        BY <2>1, <2>2, <2>3, <2>4, <2>5 DEF Next
<1> QED
    BY <1>1, <1>2, DaemonInvariant, PTL DEF Spec, ImplementsMirror, M!Spec

\* Every step of the daemon keeps what GetTar promises of the directory, or leaves
\* it and the release in memory alone.
LEMMA SiteDirStep == IInv /\ [Next]_vars => [D!Next]_(D!vars)
<1> DEFINE Up == IF served = Partial THEN NoCID ELSE served
<1> SUFFICES ASSUME IInv, [Next]_vars
             PROVE  D!Next \/ UNCHANGED <<mem.cid, Up>>
    BY DEF D!vars
<1> USE DEF IInv, TypeOK, States, procVars, pollVars, sourceVars
<1>1. CASE UNCHANGED vars
    BY <1>1 DEF vars
<1>2. CASE Environment \/ BeatReads \/ BeatSends \/ BeatFails
    BY <1>2 DEF Environment, Upload, Announce, Expire, Deploy, BeatReads, BeatSends, BeatFails
<1>3. CASE Start \/ Exit
    <2>1. mem'.cid \in CIDs \cup {NoCID} /\ UNCHANGED served
        BY <1>3, EmptyFacts DEF Start, Loadable, Exit
    <2>2. D!Hold
        BY <2>1 DEF D!Hold
    <2> QED
        BY <2>2 DEF D!Next
<1>4. ASSUME NEW p \in Polls, PollStart(p) \/ PollStep(p) \/ KuboPins(p) \/ KuboUnpins(p)
      PROVE  D!Next \/ UNCHANGED <<mem.cid, Up>>
    <2>1. CASE UpdateState(p)
        <3>1. latest[p] \in Latests
            BY <2>1 DEF UpdateState, Goto, Trusted, BeforeUpdate, AfterUpdate
        <3>2. mem'.cid \in CIDs \cup {NoCID} /\ UNCHANGED served
            BY <2>1, <3>1, LatestFacts DEF UpdateState
        <3>3. D!Hold
            BY <3>2 DEF D!Hold
        <3> QED
            BY <3>3 DEF D!Next
    <2>2. CASE PromoteStarts(p)
        <3>1. latest[p] \in Latests /\ mem.cid = latest[p].cid
            BY <2>2 DEF PromoteStarts, Goto, Trusted, Adopted, Names, BeforeUpdate, AfterUpdate
        <3>2. mem.cid # NoCID /\ mem' = mem /\ served' = Partial
            BY <2>2, <3>1, LatestFacts DEF PromoteStarts
        <3>3. D!TakeDown
            BY <3>2 DEF D!TakeDown
        <3> QED
            BY <3>3 DEF D!Next
    <2>3. CASE PromoteEnds(p)
        <3>1. latest[p] \in Latests /\ mem.cid = latest[p].cid /\ served = Partial
            BY <2>3 DEF PromoteEnds, Goto, Trusted, Adopted, Names, Promoting, BeforeUpdate,
                AfterUpdate
        <3>2. mem.cid # NoCID /\ mem' = mem /\ served' = mem.cid /\ served' # Partial
            BY <2>3, <3>1, LatestFacts, LatestsAssumption DEF PromoteEnds
        <3>3. D!PutUp
            BY <3>1, <3>2 DEF D!PutUp
        <3> QED
            BY <3>3 DEF D!Next
    <2>4. CASE ~UpdateState(p) /\ ~PromoteStarts(p) /\ ~PromoteEnds(p)
        <3>1. UNCHANGED <<mem, served>>
            BY <1>4, <2>4 DEF PollStart, PollStep, KuboPins, KuboUnpins, FetchClearweb,
                FetchClearwebFails, FetchNostr, Reject, Accept, PinFails, Ping, PinAdd,
                PinRm, SaveTruncates, SaveWrites, SaveFails, GetTarFails, PollBeat,
                PollBeatFails
        <3> QED
            BY <3>1
    <2> QED
        BY <2>1, <2>2, <2>3, <2>4
<1> QED
    BY <1>1, <1>2, <1>3, <1>4 DEF Next

\* The directory shows whole releases only, when it is put up the one in memory,
\* and none while files are replaced, in the middle of all that poll does.
THEOREM DaemonImplementsSiteDir == Spec => ImplementsSiteDir
<1>1. Init => D!Init
    BY LatestsAssumption DEF Init, D!Init, Empty
<1>2. IInv /\ [Next]_vars => [D!Next]_(D!vars)
    BY SiteDirStep
<1> QED
    BY <1>1, <1>2, DaemonInvariant, PTL DEF Spec, ImplementsSiteDir, D!Spec
=============================================================================
