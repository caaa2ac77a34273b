------------------------------- MODULE Daemon -------------------------------
(***************************************************************************)
(* One mirror daemon (packages/mirror) with everything it touches: the two  *)
(* places it learns of releases from, the kubo node it pins in, the state   *)
(* file, the directory nginx serves, and its last heartbeat on the relays.  *)
(*                                                                          *)
(* poll() is a goroutine that a ticker starts; every call it makes to       *)
(* another process is a step of its own, so that publications, heartbeats   *)
(* and a process exit can fall between any two of them.                     *)
(***************************************************************************)
EXTENDS Signing

CONSTANTS
    Latests,        \* the announcements that may ever be published
    SignerFiles,    \* what trusted-signers.json may be found to hold
    NumUrls,        \* how many clearweb URLs buildLatestURLs returns
    Polls,          \* goroutines running poll()
    ServeDir,       \* whether SERVE_DIR and the gateway URL are configured
    MaxStarts,      \* bound: how often the process is started
    NoLatest, Pending, NoCID, NoState, NoPoll, NoBeat, Unreadable, Partial

CIDs == {l.cid : l \in Latests}
Urls == 1..NumUrls
SignerConfigs == SignerFiles \ {Unreadable}

ASSUME LatestsAssumption ==
    /\ \A l \in Latests : l.version \in Nat
    /\ NoLatest \notin Latests /\ Pending \notin Latests
    /\ NoLatest # Pending /\ NoCID \notin CIDs /\ Partial \notin CIDs
ASSUME NoPollAssumption == NoPoll \notin Polls
ASSUME BoundsAssumption == NumUrls \in Nat /\ MaxStarts \in Nat
ASSUME ServeDirAssumption == ServeDir \in BOOLEAN

VARIABLES
    clearweb,     \* latest.json as each clearweb URL serves it, in URL order
    events,       \* update events of the last 14 days that some relay holds
    signersFile,  \* trusted-signers.json on the mirror's disk
    running,      \* whether the process is up
    starts,       \* how often it has been started
    ts,           \* the signers newDaemon loaded
    mem,          \* d.state: [sk, cid, ver]
    pollMu,       \* the poll() that holds the mutex, or NoPoll
    pc, http, nostr, latest, prev,  \* where each poll() is, and its variables
    hb,           \* the [cid, ver] heartbeat() has read but not yet sent
    disk,         \* the state file, NoState when absent or not parsable
    pins,         \* the CIDs kubo has pinned
    served,       \* the CID the serve directory holds, or Partial
    advert,       \* the last heartbeat a relay took from this mirror
    loaded,       \* history: what newDaemon has loaded as signers, over all starts
    passedOver    \* history: a start got nothing out of the state file that is there

sourceVars == <<clearweb, events, signersFile>>
procVars   == <<running, starts, ts, loaded, passedOver>>
pollVars   == <<pollMu, pc, http, nostr, latest, prev>>
vars == <<sourceVars, procVars, pollVars, mem, hb, disk, pins, served, advert>>

NoTrust == [threshold |-> 1, signers |-> {}]
Empty   == [sk |-> 0, cid |-> NoCID, ver |-> 0]
States  == [sk : 0..MaxStarts, cid : CIDs \cup {NoCID}, ver : Nat]
Beats   == [cid : CIDs, ver : Nat]
Adverts == [sk : 0..MaxStarts, cid : CIDs, ver : Nat]

PCs == {"idle", "fetch", "ping", "pinadd", "pinrm", "update", "save", "write",
        "serve", "promote", "beat"}

TypeOK ==
    /\ clearweb \in [Urls -> Latests \cup {NoLatest}]
    /\ events \subseteq Latests
    /\ signersFile \in SignerFiles
    /\ running \in BOOLEAN /\ starts \in 0..MaxStarts
    /\ loaded \subseteq SignerConfigs \cup {NoTrust}
    /\ ts \in loaded \cup {NoTrust}
    /\ mem \in States
    /\ pollMu \in Polls \cup {NoPoll}
    /\ pc \in [Polls -> PCs]
    /\ http \in [Polls -> Latests \cup {NoLatest, Pending}]
    /\ nostr \in [Polls -> Latests \cup {NoLatest, Pending}]
    /\ latest \in [Polls -> Latests \cup {NoLatest}]
    /\ prev \in [Polls -> CIDs \cup {NoCID}]
    /\ hb \in Beats \cup {NoBeat}
    /\ disk \in States \cup {NoState}
    /\ pins \subseteq CIDs
    /\ served \in CIDs \cup {NoCID, Partial}
    /\ advert \in Adverts \cup {NoBeat}
    /\ passedOver \in BOOLEAN

Init ==
    /\ clearweb = [u \in Urls |-> NoLatest] /\ events = {}
    /\ signersFile \in SignerFiles
    /\ running = FALSE /\ starts = 0 /\ ts = NoTrust /\ mem = Empty
    /\ pollMu = NoPoll /\ pc = [p \in Polls |-> "idle"]
    /\ http = [p \in Polls |-> Pending] /\ nostr = [p \in Polls |-> Pending]
    /\ latest = [p \in Polls |-> NoLatest] /\ prev = [p \in Polls |-> NoCID]
    /\ hb = NoBeat /\ disk = NoState /\ pins = {} /\ served = NoCID
    /\ advert = NoBeat /\ loaded = {} /\ passedOver = FALSE

-----------------------------------------------------------------------------
(* The publishers, the relays and the operator.                             *)

\* A latest.json reaches a clearweb URL: a push, an IPNS update, a revert.
Upload(u, l) ==
    /\ clearweb[u] # l
    /\ clearweb' = [clearweb EXCEPT ![u] = l]
    /\ UNCHANGED <<events, signersFile, procVars, pollVars, mem, hb, disk,
                   pins, served, advert>>

\* `publisher publish`: it asks for a signature, never for a threshold of them.
Announce(l) ==
    /\ l \notin events /\ AllSigs(l) # <<>>
    /\ events' = events \cup {l}
    /\ UNCHANGED <<clearweb, signersFile, procVars, pollVars, mem, hb, disk,
                   pins, served, advert>>

\* An event leaves the 14 days poll() looks back over, or its last relay.
Expire(l) ==
    /\ l \in events
    /\ events' = events \ {l}
    /\ UNCHANGED <<clearweb, signersFile, procVars, pollVars, mem, hb, disk,
                   pins, served, advert>>

\* The operator deploys another trusted-signers.json, or a broken one.
Deploy(c) ==
    /\ c # signersFile
    /\ signersFile' = c
    /\ UNCHANGED <<clearweb, events, procVars, pollVars, mem, hb, disk, pins,
                   served, advert>>

-----------------------------------------------------------------------------
(* The process: newDaemon, and its end.                                     *)

\* What loadState may return. Whatever keeps os.ReadFile from reading the file,
\* the state is the empty one, and the file stays what it was.
Loadable == IF disk = NoState THEN {Empty} ELSE {disk, Empty}

\* loadState, ensureNostrKey and loadSignersConfig. A new key is named by the
\* number of the start that generated it; it is not written to the file here.
Start ==
    /\ ~running /\ starts < MaxStarts
    /\ running' = TRUE /\ starts' = starts + 1
    /\ \E s \in Loadable :
           /\ mem' = IF s.sk = 0 THEN [s EXCEPT !.sk = starts + 1] ELSE s
           /\ passedOver' = (passedOver \/ (disk # NoState /\ s # disk))
    /\ ts' = IF signersFile = Unreadable THEN NoTrust ELSE signersFile
    /\ loaded' = loaded \cup {ts'}
    /\ UNCHANGED <<sourceVars, pollVars, hb, disk, pins, served, advert>>

\* A crash, a kill or a signal: Run returns without waiting for the goroutines.
Exit ==
    /\ running
    /\ running' = FALSE /\ mem' = Empty /\ ts' = NoTrust
    /\ pollMu' = NoPoll /\ pc' = [p \in Polls |-> "idle"]
    /\ http' = [p \in Polls |-> Pending] /\ nostr' = [p \in Polls |-> Pending]
    /\ latest' = [p \in Polls |-> NoLatest] /\ prev' = [p \in Polls |-> NoCID]
    /\ hb' = NoBeat
    /\ UNCHANGED <<sourceVars, starts, loaded, passedOver, disk, pins, served, advert>>

-----------------------------------------------------------------------------
(* poll().                                                                  *)

Goto(p, from, to) == pc[p] = from /\ pc' = [pc EXCEPT ![p] = to]

\* The deferred Unlock, whichever return runs it.
Return(p) ==
    /\ pc' = [pc EXCEPT ![p] = "idle"]
    /\ pollMu' = NoPoll
    /\ http' = [http EXCEPT ![p] = Pending]
    /\ nostr' = [nostr EXCEPT ![p] = Pending]
    /\ latest' = [latest EXCEPT ![p] = NoLatest]
    /\ prev' = [prev EXCEPT ![p] = NoCID]

\* A bug: no mutex around poll().
PollStart_NoTryLock(p) ==
    /\ running
    /\ Goto(p, "idle", "fetch")
    /\ pollMu' = p
    /\ UNCHANGED <<sourceVars, procVars, http, nostr, latest, prev, mem, hb,
                   disk, pins, served, advert>>

\* The ticker starts a poll; a TryLock that fails ends it with no effect.
PollStart(p) ==
    /\ running /\ pollMu = NoPoll
    /\ Goto(p, "idle", "fetch")
    /\ pollMu' = p
    /\ UNCHANGED <<sourceVars, procVars, http, nostr, latest, prev, mem, hb,
                   disk, pins, served, advert>>

\* fetchLatest: the URLs before u failed; u answers with what it serves now.
FetchClearweb(p, u) ==
    /\ pc[p] = "fetch" /\ http[p] = Pending /\ clearweb[u] # NoLatest
    /\ http' = [http EXCEPT ![p] = clearweb[u]]
    /\ UNCHANGED <<sourceVars, procVars, pollMu, pc, nostr, latest, prev, mem,
                   hb, disk, pins, served, advert>>

FetchClearwebFails(p) ==
    /\ pc[p] = "fetch" /\ http[p] = Pending
    /\ http' = [http EXCEPT ![p] = NoLatest]
    /\ UNCHANGED <<sourceVars, procVars, pollMu, pc, nostr, latest, prev, mem,
                   hb, disk, pins, served, advert>>

Announced == {l \in events : AllSigs(l) # <<>>}

\* The results fetchUpdateFromNostr may return when it receives the events S.
Newest(S) == IF S = {} THEN {NoLatest}
             ELSE {l \in S : \A m \in S : m.version <= l.version}

\* S is what the relays that answered before the deadline hold; the signatures
\* are not verified here.
FetchNostr(p, S) ==
    /\ pc[p] = "fetch" /\ nostr[p] = Pending
    /\ \E l \in Newest(S) : nostr' = [nostr EXCEPT ![p] = l]
    /\ UNCHANGED <<sourceVars, procVars, pollMu, pc, http, latest, prev, mem,
                   hb, disk, pins, served, advert>>

Choose(h, n) ==
    IF h # NoLatest /\ (n = NoLatest \/ h.version >= n.version) THEN h ELSE n

\* Bugs: the signatures not verified, the downgrade check missing.
Accepts_Unverified(l) ==
    /\ l # NoLatest
    /\ l.cid # mem.cid
    /\ ~(l.version <= mem.ver /\ mem.ver > 0)

Accepts_Downgrade(l) ==
    /\ l # NoLatest
    /\ ts.signers # {}
    /\ VerifyThreshold(ts, l)
    /\ l.cid # mem.cid

\* The early returns of poll(), all passed: signed by enough trusted signers,
\* not the CID already held, not a downgrade.
Accepts(l) ==
    /\ l # NoLatest
    /\ ts.signers # {}
    /\ VerifyThreshold(ts, l)
    /\ l.cid # mem.cid
    /\ ~(l.version <= mem.ver /\ mem.ver > 0)

Fetched(p) == pc[p] = "fetch" /\ http[p] # Pending /\ nostr[p] # Pending

\* A bug: an early return that skips the Unlock.
Reject_KeepsLock(p) ==
    /\ Fetched(p)
    /\ ~Accepts(Choose(http[p], nostr[p]))
    /\ pc' = [pc EXCEPT ![p] = "idle"]
    /\ http' = [http EXCEPT ![p] = Pending]
    /\ nostr' = [nostr EXCEPT ![p] = Pending]
    /\ UNCHANGED <<sourceVars, procVars, pollMu, latest, prev, mem, hb, disk,
                   pins, served, advert>>

Reject(p) ==
    /\ Fetched(p)
    /\ ~Accepts(Choose(http[p], nostr[p]))
    /\ Return(p)
    /\ UNCHANGED <<sourceVars, procVars, mem, hb, disk, pins, served, advert>>

Accept(p) ==
    /\ Fetched(p)
    /\ Accepts(Choose(http[p], nostr[p]))
    /\ Goto(p, "fetch", "ping")
    /\ latest' = [latest EXCEPT ![p] = Choose(http[p], nostr[p])]
    /\ prev' = [prev EXCEPT ![p] = mem.cid]
    /\ http' = [http EXCEPT ![p] = Pending]
    /\ nostr' = [nostr EXCEPT ![p] = Pending]
    /\ UNCHANGED <<sourceVars, procVars, pollMu, mem, hb, disk, pins, served,
                   advert>>

\* kubo does not answer the ping, or pin/add fails or times out.
PinFails(p) ==
    /\ pc[p] \in {"ping", "pinadd"}
    /\ Return(p)
    /\ UNCHANGED <<sourceVars, procVars, mem, hb, disk, pins, served, advert>>

Ping(p) ==
    /\ Goto(p, "ping", "pinadd")
    /\ UNCHANGED <<sourceVars, procVars, pollMu, http, nostr, latest, prev, mem,
                   hb, disk, pins, served, advert>>

\* kubo carries out the pin/add it was sent; its answer may still be lost.
KuboPins(p) ==
    /\ pc[p] = "pinadd" /\ latest[p].cid \notin pins
    /\ pins' = pins \cup {latest[p].cid}
    /\ UNCHANGED <<sourceVars, procVars, pollVars, mem, hb, disk, served,
                   advert>>

\* A bug: the error of pin/add ignored.
PinAdd_IgnoresError(p) ==
    /\ Goto(p, "pinadd", IF prev[p] # NoCID THEN "pinrm" ELSE "update")
    /\ UNCHANGED <<sourceVars, procVars, pollMu, http, nostr, latest, prev, mem,
                   hb, disk, pins, served, advert>>

PinAdd(p) ==
    /\ Goto(p, "pinadd", IF prev[p] # NoCID THEN "pinrm" ELSE "update")
    /\ latest[p].cid \in pins
    /\ UNCHANGED <<sourceVars, procVars, pollMu, http, nostr, latest, prev, mem,
                   hb, disk, pins, served, advert>>

\* kubo carries out the pin/rm it was sent.
KuboUnpins(p) ==
    /\ pc[p] = "pinrm" /\ prev[p] \in pins
    /\ pins' = pins \ {prev[p]}
    /\ UNCHANGED <<sourceVars, procVars, pollVars, mem, hb, disk, served,
                   advert>>

\* PinRm returns, whether or not kubo did it: every error is ignored.
PinRm(p) ==
    /\ Goto(p, "pinrm", "update")
    /\ UNCHANGED <<sourceVars, procVars, pollMu, http, nostr, latest, prev, mem,
                   hb, disk, pins, served, advert>>

UpdateState(p) ==
    /\ Goto(p, "update", "save")
    /\ mem' = [mem EXCEPT !.cid = latest[p].cid, !.ver = latest[p].version]
    /\ UNCHANGED <<sourceVars, procVars, pollMu, http, nostr, latest, prev, hb,
                   disk, pins, served, advert>>

AfterSave == IF ServeDir THEN "serve" ELSE "beat"

\* saveState, first half: os.WriteFile opens the file and truncates it.
SaveTruncates(p) ==
    /\ Goto(p, "save", "write")
    /\ disk' = NoState /\ passedOver' = FALSE
    /\ UNCHANGED <<sourceVars, running, starts, ts, loaded, pollMu, http, nostr, latest, prev, mem,
                   hb, pins, served, advert>>

\* Second half: the copy of the state, which is still mem, since only the
\* holder of pollMu writes it.
SaveWrites(p) ==
    /\ Goto(p, "write", AfterSave)
    /\ disk' = mem
    /\ UNCHANGED <<sourceVars, procVars, pollMu, http, nostr, latest, prev, mem,
                   hb, pins, served, advert>>

\* A bug: a failed save undoes the update, and poll() goes on all the same.
SaveFails_RollsBack(p) ==
    /\ pc[p] \in {"save", "write"}
    /\ pc' = [pc EXCEPT ![p] = AfterSave]
    /\ mem' = [mem EXCEPT !.cid = prev[p]]
    /\ UNCHANGED <<sourceVars, procVars, pollMu, http, nostr, latest, prev, hb,
                   disk, pins, served, advert>>

\* The directory, the open or the write fails; the error is logged.
SaveFails(p) ==
    /\ pc[p] \in {"save", "write"}
    /\ pc' = [pc EXCEPT ![p] = AfterSave]
    /\ UNCHANGED <<sourceVars, procVars, pollMu, http, nostr, latest, prev, mem,
                   hb, disk, pins, served, advert>>

\* GetTar has staged the site and starts to replace the files of the live one.
PromoteStarts(p) ==
    /\ Goto(p, "serve", "promote")
    /\ served' = Partial
    /\ UNCHANGED <<sourceVars, procVars, pollMu, http, nostr, latest, prev, mem,
                   hb, disk, pins, advert>>

PromoteEnds(p) ==
    /\ Goto(p, "promote", "beat")
    /\ served' = latest[p].cid
    /\ UNCHANGED <<sourceVars, procVars, pollMu, http, nostr, latest, prev, mem,
                   hb, disk, pins, advert>>

\* GetTar fails while staging, or while promoting; the error is logged.
GetTarFails(p) ==
    /\ pc[p] \in {"serve", "promote"}
    /\ pc' = [pc EXCEPT ![p] = "beat"]
    /\ UNCHANGED <<sourceVars, procVars, pollMu, http, nostr, latest, prev, mem,
                   hb, disk, pins, served, advert>>

\* The heartbeat poll() sends after a version bump, and its return.
PollBeat(p) ==
    /\ pc[p] = "beat"
    /\ Return(p)
    /\ advert' = [sk |-> mem.sk, cid |-> latest[p].cid,
                  ver |-> latest[p].version]
    /\ UNCHANGED <<sourceVars, procVars, mem, hb, disk, pins, served>>

PollBeatFails(p) ==
    /\ pc[p] = "beat"
    /\ Return(p)
    /\ UNCHANGED <<sourceVars, procVars, mem, hb, disk, pins, served, advert>>

-----------------------------------------------------------------------------
(* heartbeat(): it reads under stateMu, and sends after releasing it. Two    *)
(* ticks are at least 50s apart and a send gives up after 15s, so at most    *)
(* one is in flight.                                                         *)

\* A bug: a mirror that holds nothing yet sends a heartbeat.
BeatReads_Empty ==
    /\ running /\ hb = NoBeat
    /\ hb' = [cid |-> mem.cid, ver |-> mem.ver]
    /\ UNCHANGED <<sourceVars, procVars, pollVars, mem, disk, pins, served,
                   advert>>

\* A bug: a timer where the ticker should be.
BeatReads_Once ==
    /\ running /\ hb = NoBeat /\ mem.cid # NoCID /\ advert = NoBeat
    /\ hb' = [cid |-> mem.cid, ver |-> mem.ver]
    /\ UNCHANGED <<sourceVars, procVars, pollVars, mem, disk, pins, served,
                   advert>>

BeatReads ==
    /\ running /\ hb = NoBeat /\ mem.cid # NoCID
    /\ hb' = [cid |-> mem.cid, ver |-> mem.ver]
    /\ UNCHANGED <<sourceVars, procVars, pollVars, mem, disk, pins, served,
                   advert>>

\* A bug: the version read when sending and not together with the CID.
BeatSends_VersionLate ==
    /\ hb # NoBeat
    /\ advert' = [sk |-> mem.sk, cid |-> hb.cid, ver |-> mem.ver]
    /\ hb' = NoBeat
    /\ UNCHANGED <<sourceVars, procVars, pollVars, mem, disk, pins, served>>

BeatSends ==
    /\ hb # NoBeat
    /\ advert' = [sk |-> mem.sk, cid |-> hb.cid, ver |-> hb.ver]
    /\ hb' = NoBeat
    /\ UNCHANGED <<sourceVars, procVars, pollVars, mem, disk, pins, served>>

\* No relay acknowledged it.
BeatFails ==
    /\ hb # NoBeat
    /\ hb' = NoBeat
    /\ UNCHANGED <<sourceVars, procVars, pollVars, mem, disk, pins, served,
                   advert>>

-----------------------------------------------------------------------------
Environment ==
    \/ \E l \in Latests : (\E u \in Urls : Upload(u, l)) \/ Announce(l) \/ Expire(l)
    \/ \E c \in SignerFiles : Deploy(c)

\* What poll() does once started, other than waiting for kubo to act.
PollStep(p) ==
    \/ (\E u \in Urls : FetchClearweb(p, u)) \/ FetchClearwebFails(p)
    \/ \E S \in SUBSET Announced : FetchNostr(p, S)
    \/ Reject(p) \/ Accept(p) \/ Ping(p) \/ PinFails(p) \/ PinAdd(p) \/ PinRm(p)
    \/ UpdateState(p) \/ SaveTruncates(p) \/ SaveWrites(p) \/ SaveFails(p)
    \/ PromoteStarts(p) \/ PromoteEnds(p) \/ GetTarFails(p)
    \/ PollBeat(p) \/ PollBeatFails(p)

Next ==
    \/ Environment
    \/ Start \/ Exit
    \/ \E p \in Polls : PollStart(p) \/ PollStep(p) \/ KuboPins(p) \/ KuboUnpins(p)
    \/ BeatReads \/ BeatSends \/ BeatFails

Spec == Init /\ [][Next]_vars

\* Tickers and timeouts keep every goroutine moving; the container restarts the
\* process; and a URL, the relays and kubo, tried again and again, answer again
\* and again. PollStep alone promises only that a poll ends.
Fairness ==
    /\ WF_vars(Start)
    /\ WF_vars(\E p \in Polls : PollStart(p))
    /\ WF_vars(\E p \in Polls : PollStep(p))
    /\ SF_vars(\E p \in Polls : \E u \in Urls : u = 1 /\ FetchClearweb(p, u))
    /\ SF_vars(\E p \in Polls : Ping(p))
    /\ SF_vars(\E p \in Polls : KuboPins(p))
    /\ SF_vars(\E p \in Polls : PinAdd(p))
    /\ WF_vars(BeatReads) /\ WF_vars(BeatSends \/ BeatFails)
    /\ SF_vars(BeatSends)

FairSpec == Spec /\ Fairness

-----------------------------------------------------------------------------
(* Safety.                                                                  *)

\* A release that the signers of this, or of an earlier, run of the process signed.
Verified(l) ==
    \E t \in loaded : t.signers # {} /\ VerifyThreshold(t, l)

Names(s, l) == s.cid = l.cid /\ s.ver = l.version

Provenant(s) == s.cid # NoCID => \E l \in Latests : Verified(l) /\ Names(s, l)

\* What the daemon holds and saves names a release that met the threshold of the
\* signers it was running with, in this or in an earlier run of the process, and
\* not of those the operator has meanwhile deployed (poll, saveState, loadState);
\* and kubo is asked for, and the directory shows, the content of such releases
\* only.
Provenance ==
    /\ Provenant(mem) /\ (disk # NoState => Provenant(disk))
    /\ \A c \in pins \cup ({served} \ {NoCID, Partial}) :
           \E l \in Latests : Verified(l) /\ l.cid = c

\* And so does the heartbeat it is about to send, and the last one it has sent,
\* although heartbeat() sends only after it has let go of the state.
HeartbeatsProvenant ==
    (hb # NoBeat => Provenant(hb)) /\ (advert # NoBeat => Provenant(advert))

\* From the moment the state names a release to the end of the poll that adopted
\* it, kubo has it pinned: no lost answer of pin/add is taken for a good one, and
\* the unpinning never hits it, not even when the site goes back to an old CID.
RecordsOnlyPinned ==
    \A p \in Polls : pc[p] \in {"save", "write", "serve", "promote", "beat"} =>
        mem.cid = latest[p].cid /\ mem.cid \in pins

\* kubo has a verified release pinned that is at least as new as the one s names.
Covered(s) ==
    s.cid # NoCID =>
        \E l \in Latests : /\ Verified(l) /\ l.cid \in pins
                           /\ l.version >= s.ver

\* poll() unpins the old CID before it updates and saves the state, and any of
\* its calls may be cut off by an exit: the state in memory, and the one a
\* restart would load, must still never outlive the content in kubo. The one
\* exception is a file that some start has passed over because it could not be
\* read: the process that then started from nothing may have adopted an older
\* release and unpinned. The next save that gets to open the file mends it.
NeverLosesRelease ==
    ~passedOver => Covered(mem) /\ (disk # NoState => Covered(disk))

\* The file a restart will load never names a newer version, nor another Nostr
\* identity, than the process that is running (saveState, loadState), unless it
\* was there and a start passed it over.
DiskNeverAhead ==
    running /\ disk # NoState /\ ~passedOver =>
        disk.ver <= mem.ver /\ disk.sk = mem.sk

\* While the process runs its version never goes back, although a poll compares
\* it minutes before it writes it, and its identity never changes (pollMu, and
\* the downgrade check of poll).
NoDowngrade ==
    [][running /\ running' => mem'.ver >= mem.ver /\ mem'.sk = mem.sk]_vars

\* The daemon implements the abstract mirror: its release is the one in memory,
\* and the one it would come back to is the one a restart would load.
Release(s) == [cid |-> s.cid, ver |-> s.ver]

M == INSTANCE Mirror WITH
         up <- running, trust <- ts, current <- Release(mem),
         Signed <- VerifyThreshold,
         saved <- Release(IF disk = NoState THEN Empty ELSE disk)

ImplementsMirror == M!Spec

\* And the directory it keeps is the one that GetTar promises, of the release that
\* is in memory while GetTar runs.
D == INSTANCE SiteDir WITH
         Releases <- CIDs, None <- NoCID, held <- mem.cid,
         site <- IF served = Partial THEN NoCID ELSE served

ImplementsSiteDir == D!Spec

-----------------------------------------------------------------------------
(* Liveness, under FairSpec.                                                *)

\* The daemon runs, its first URL serves l and keeps serving it, l meets the
\* threshold it loaded, and no relay holds an announcement of a newer version.
Settled(l) ==
    /\ running /\ clearweb[1] = l /\ ts.signers # {} /\ VerifyThreshold(ts, l)
    /\ \A e \in events : e.version <= l.version

\* Then the mirror comes to hold it, or something newer: no early return of
\* poll() keeps the mutex, and no failed pin is the last one tried.
EventuallyAdopts ==
    \A l \in Latests :
        <>[]Settled(l) => <>(mem.cid = l.cid \/ mem.ver >= l.version)

\* A heartbeat that was read before a version bump may be sent after the one
\* poll() sends; but once the mirror's state stays put, so does the heartbeat
\* that relays show for it.
HeartbeatCatchesUp ==
    \A l \in Latests :
        <>[](running /\ Names(mem, l)) =>
            <>[](advert # NoBeat /\ Names(advert, l) /\ advert.sk = mem.sk)

-----------------------------------------------------------------------------
(* What the repository says and the code does not do.                       *)

\* "Already pinned v%d, nothing to do" (poll), "the current CID always pinned"
\* (README): when poll() returns because it holds this CID, kubo has it pinned.
AlreadyPinned ==
    \A p \in Polls : Fetched(p) =>
        LET l == Choose(http[p], nostr[p])
        IN  /\ l # NoLatest /\ ts.signers # {}
            /\ VerifyThreshold(ts, l) /\ l.cid = mem.cid
            => l.cid \in pins

\* "As long as ANY relay in the federation has the publisher's signed update
\* event, we ingest it without GitHub being reachable" (poll): relays hold l, it
\* meets the threshold, nothing newer that does is announced, and so it stays.
OnRelays(l) ==
    /\ running /\ clearweb = [u \in Urls |-> NoLatest]
    /\ l \in events /\ ts.signers # {} /\ VerifyThreshold(ts, l)
    /\ \A m \in events : VerifyThreshold(ts, m) => m.version <= l.version

IngestsFromAnyRelay ==
    \A l \in Latests, S \in SUBSET Latests :
        <>[](OnRelays(l) /\ events = S) =>
            <>(mem.cid = l.cid \/ mem.ver >= l.version)

\* "Populate serve directory so clearweb mirrors auto-update" (poll): a mirror
\* that holds one release for good comes to serve it.
ServesWhatItHolds ==
    \A c \in CIDs : <>[](running /\ mem.cid = c) => <>(served = c)

\* For these two, nothing outside the daemon fails for good: the relays answer
\* again and again with all they hold, and GetTar succeeds again and again if it
\* is called again and again.
HelpfulSpec ==
    /\ FairSpec
    /\ SF_vars(\E p \in Polls : FetchNostr(p, Announced))
    /\ SF_vars(\E p \in Polls : PromoteStarts(p))
    /\ SF_vars(\E p \in Polls : PromoteEnds(p))
=============================================================================
