------------------------------ MODULE ServeDir ------------------------------
(***************************************************************************)
(* The directory nginx serves (packages/mirror): GetTar replaces the site in *)
(* it entry by entry, while goroutines of the same daemon write              *)
(* propagation.json and peers.json into it, and the process may end between  *)
(* any two file operations. pollMu lets one GetTar run at a time; the other  *)
(* goroutines take no lock.                                                  *)
(***************************************************************************)
EXTENDS Integers

CONSTANTS
    CIDs,      \* the releases
    Entries,   \* names of top-level entries of any release
    Site,      \* Site[c]: the entries release c consists of
    Rank,      \* the order of file names, in which os.ReadDir lists them
    Writers,   \* bound: updatePropagation goroutines alive at once
    None, Empty, Garbled

ASSUME SiteAssumption == Site \in [CIDs -> SUBSET Entries]
ASSUME NoneAssumption == None \notin CIDs

SideFiles == {"propagation.json", "peers.json", "peers.json.tmp"}

ASSUME SideFilesAssumption == SideFiles \cap Entries = {}
ASSUME RankAssumption == Rank \in [Entries \cup SideFiles -> Int]

VARIABLES
    held,       \* the CID in d.state
    pc,         \* where poll() is in GetTar
    cid,        \* GetTar's argument
    live,       \* each entry of the directory: the release it is of, or None
    stage,      \* the same for .cjp-staging
    todo,       \* the rest of the directory listing GetTar works through
    populated,  \* the release GetTar last reported, until it is replaced
    prop,       \* propagation.json: the CID it is about, None, Empty or Garbled
    wpc, wcid,  \* where each updatePropagation is, and its argument
    linked,     \* whether the file it has open is still in the directory
    peers, tmp, \* whether peers.json and peers.json.tmp exist
    att         \* whether updateAttestation is between its write and rename

getVars  == <<pc, cid, stage, todo, populated>>
propVars == <<prop, wpc, wcid, linked>>
attVars  == <<peers, tmp, att>>
vars == <<held, live, getVars, propVars, attVars>>

Absent == [e \in Entries |-> None]

TypeOK ==
    /\ held \in CIDs \cup {None} /\ cid \in CIDs \cup {None}
    /\ pc \in {"idle", "get", "extract", "remove", "promote", "spawn"}
    /\ pc # "idle" => cid \in CIDs
    /\ live \in [Entries -> CIDs \cup {None}]
    /\ stage \in [Entries -> CIDs \cup {None}]
    /\ todo \subseteq Entries \cup SideFiles
    /\ populated \in CIDs \cup {None}
    /\ prop \in CIDs \cup {None, Empty, Garbled}
    /\ wpc \in [Writers -> {"idle", "provs", "open"}]
    /\ wcid \in [Writers -> CIDs \cup {None}]
    /\ linked \in [Writers -> BOOLEAN]
    /\ \A w \in Writers : wpc[w] # "idle" => wcid[w] \in CIDs
    /\ peers \in BOOLEAN /\ tmp \in BOOLEAN /\ att \in BOOLEAN

Init ==
    /\ held = None /\ pc = "idle" /\ cid = None
    /\ live = Absent /\ stage = Absent /\ todo = {} /\ populated = None
    /\ prop = None /\ wpc = [w \in Writers |-> "idle"]
    /\ wcid = [w \in Writers |-> None] /\ linked = [w \in Writers |-> FALSE]
    /\ peers = FALSE /\ tmp = FALSE /\ att = FALSE

-----------------------------------------------------------------------------
(* poll() and GetTar.                                                       *)

\* A bug: no mutex, so that another poll moves on while GetTar is at work.
Bump_NoLock(c) ==
    /\ c # held /\ held' = c
    /\ pc' = IF pc = "idle" THEN "get" ELSE pc
    /\ cid' = IF pc = "idle" THEN c ELSE cid
    /\ UNCHANGED <<live, stage, todo, populated, propVars, attVars>>

\* poll() has pinned c and written it to the state; it calls GetTar.
Bump(c) ==
    /\ pc = "idle" /\ c # held
    /\ held' = c /\ cid' = c /\ pc' = "get"
    /\ UNCHANGED <<live, stage, todo, populated, propVars, attVars>>

\* The request, the mkdir or the removal of old staging fails.
GetFails ==
    /\ pc = "get" /\ pc' = "spawn"
    /\ UNCHANGED <<held, live, cid, stage, todo, populated, propVars, attVars>>

GetBegins ==
    /\ pc = "get" /\ pc' = "extract"
    /\ stage' = Absent
    /\ UNCHANGED <<held, live, cid, todo, populated, propVars, attVars>>

\* The next entry of the tar is written to staging.
Extract(e) ==
    /\ pc = "extract" /\ e \in Site[cid] /\ stage[e] = None
    /\ stage' = [stage EXCEPT ![e] = cid]
    /\ UNCHANGED <<held, live, pc, cid, todo, populated, propVars, attVars>>

\* Any later error: the deferred RemoveAll drops what is in staging.
GetTarFails ==
    /\ pc \in {"extract", "remove", "promote"} /\ pc' = "spawn"
    /\ stage' = Absent /\ todo' = {}
    /\ UNCHANGED <<held, live, cid, populated, propVars, attVars>>

Present ==
    {e \in Entries : live[e] # None}
        \cup (IF prop # None THEN {"propagation.json"} ELSE {})
        \cup (IF peers THEN {"peers.json"} ELSE {})
        \cup (IF tmp THEN {"peers.json.tmp"} ELSE {})

\* Bugs: the new entries moved over the old ones; a tar that ended early taken
\* for a whole one.
ListOld_SameNames ==
    /\ pc = "extract" /\ \A e \in Site[cid] : stage[e] = cid
    /\ pc' = "remove" /\ todo' = {e \in Present : e \in Site[cid]}
    /\ populated' = None
    /\ UNCHANGED <<held, live, cid, stage, propVars, attVars>>

ListOld_Early ==
    /\ pc = "extract"
    /\ pc' = "remove" /\ todo' = Present
    /\ populated' = None
    /\ UNCHANGED <<held, live, cid, stage, propVars, attVars>>

\* The tar is read to its end, and all of the release was in it: assumed here, for a tar
\* that is cut off between two entries reads like a whole one, and the errors of
\* MkdirAll are dropped. ReadDir lists what is to be removed.
ListOld ==
    /\ pc = "extract" /\ \A e \in Site[cid] : stage[e] = cid
    /\ pc' = "remove" /\ todo' = Present
    /\ populated' = None
    /\ UNCHANGED <<held, live, cid, stage, propVars, attVars>>

\* The entry the loop over the listing has come to: os.ReadDir sorts by name.
IsNext(e) == e \in todo /\ \A f \in todo : Rank[e] <= Rank[f]

Remove(e) ==
    /\ pc = "remove" /\ IsNext(e)
    /\ todo' = todo \ {e}
    /\ live' = IF e \in Entries THEN [live EXCEPT ![e] = None] ELSE live
    /\ prop' = IF e = "propagation.json" THEN None ELSE prop
    /\ linked' = IF e = "propagation.json" THEN [w \in Writers |-> FALSE] ELSE linked
    /\ peers' = (peers /\ e # "peers.json")
    /\ tmp' = (tmp /\ e # "peers.json.tmp")
    /\ UNCHANGED <<held, pc, cid, stage, populated, wpc, wcid, att>>

ListNew ==
    /\ pc = "remove" /\ todo = {}
    /\ pc' = "promote" /\ todo' = {e \in Entries : stage[e] # None}
    /\ UNCHANGED <<held, live, cid, stage, populated, propVars, attVars>>

Promote(e) ==
    /\ pc = "promote" /\ IsNext(e)
    /\ todo' = todo \ {e}
    /\ live' = [live EXCEPT ![e] = stage[e]]
    /\ stage' = [stage EXCEPT ![e] = None]
    /\ UNCHANGED <<held, pc, cid, populated, propVars, attVars>>

GetTarReturns ==
    /\ pc = "promote" /\ todo = {}
    /\ pc' = "spawn" /\ populated' = cid
    /\ UNCHANGED <<held, live, cid, stage, todo, propVars, attVars>>

-----------------------------------------------------------------------------
(* updatePropagation, any number of them, and updateAttestation.            *)

StartWriter(w, c) ==
    /\ wpc[w] = "idle"
    /\ wpc' = [wpc EXCEPT ![w] = "provs"]
    /\ wcid' = [wcid EXCEPT ![w] = c]
    /\ UNCHANGED <<held, live, stage, todo, populated, prop, linked, attVars>>

\* The one poll() starts when GetTar is over, well or not; poll() ends.
Spawn(w) ==
    /\ pc = "spawn" /\ pc' = "idle" /\ cid' = None
    /\ StartWriter(w, cid)

\* Bugs: a daemon that holds nothing asks all the same; the ticker passes on the
\* CID the file is already about.
PropTick_NoCID(w) ==
    /\ StartWriter(w, held)
    /\ UNCHANGED <<pc, cid>>

PropTick_OldCID(w) ==
    /\ held # None
    /\ StartWriter(w, IF prop \in CIDs THEN prop ELSE held)
    /\ UNCHANGED <<pc, cid>>

\* The ticker's, or the one Run seeds: with the CID held when it starts.
PropTick(w) ==
    /\ held # None
    /\ StartWriter(w, held)
    /\ UNCHANGED <<pc, cid>>

\* FindProvs, the open or the write fails.
PropFails(w) ==
    /\ wpc[w] # "idle"
    /\ wpc' = [wpc EXCEPT ![w] = "idle"] /\ wcid' = [wcid EXCEPT ![w] = None]
    /\ linked' = [linked EXCEPT ![w] = FALSE]
    /\ UNCHANGED <<held, live, getVars, prop, attVars>>

\* os.WriteFile creates or truncates the file ...
PropOpens(w) ==
    /\ wpc[w] = "provs"
    /\ wpc' = [wpc EXCEPT ![w] = "open"] /\ linked' = [linked EXCEPT ![w] = TRUE]
    /\ prop' = Empty
    /\ UNCHANGED <<held, live, getVars, wcid, attVars>>

\* ... and writes from its start, over what another one wrote since, which may
\* be longer; a file that was removed in between takes the bytes with it.
PropWrites(w) ==
    /\ wpc[w] = "open"
    /\ wpc' = [wpc EXCEPT ![w] = "idle"] /\ wcid' = [wcid EXCEPT ![w] = None]
    /\ linked' = [linked EXCEPT ![w] = FALSE]
    /\ prop' \in IF ~linked[w] THEN {prop}
                 ELSE IF prop = Empty THEN {wcid[w]} ELSE {wcid[w], Garbled}
    /\ UNCHANGED <<held, live, getVars, attVars>>

\* writePeersFile writes peers.json.tmp ...
PeersTmp ==
    /\ ~att /\ att' = TRUE /\ tmp' = TRUE
    /\ UNCHANGED <<held, live, getVars, propVars, peers>>

\* ... and renames it, unless GetTar has removed it.
PeersRename ==
    /\ att /\ att' = FALSE
    /\ tmp' = FALSE /\ peers' = (peers \/ tmp)
    /\ UNCHANGED <<held, live, getVars, propVars>>

\* The process ends and starts again, with the state it finds: the last one, an
\* older one when a save failed since, or none when it cannot be read.
Restart ==
    /\ held' \in CIDs \cup {None}
    /\ pc' = "idle" /\ cid' = None /\ todo' = {}
    /\ wpc' = [w \in Writers |-> "idle"] /\ wcid' = [w \in Writers |-> None]
    /\ linked' = [w \in Writers |-> FALSE] /\ att' = FALSE
    /\ UNCHANGED <<live, stage, populated, prop, peers, tmp>>

GetTarStep ==
    \/ GetFails \/ GetBegins \/ (\E e \in Entries : Extract(e) \/ Promote(e))
    \/ GetTarFails \/ ListOld \/ (\E e \in Entries \cup SideFiles : Remove(e))
    \/ ListNew \/ GetTarReturns

Next ==
    \/ \E c \in CIDs : Bump(c)
    \/ GetTarStep
    \/ \E w \in Writers : \/ Spawn(w) \/ PropTick(w)
                          \/ PropFails(w) \/ PropOpens(w) \/ PropWrites(w)
    \/ PeersTmp \/ PeersRename
    \/ Restart

Spec == Init /\ [][Next]_vars

\* Tickers keep starting updatePropagation and updateAttestation; findprovs and
\* the disk, tried again and again, work again and again. Of GetTar nothing is
\* assumed: it may hang.
Fairness ==
    /\ WF_vars(\E w \in Writers : PropTick(w))
    /\ WF_vars(\E w \in Writers : PropFails(w) \/ PropOpens(w) \/ PropWrites(w))
    /\ SF_vars(\E w \in Writers : PropOpens(w))
    /\ SF_vars(\E w \in Writers : PropWrites(w))
    /\ WF_vars(PeersTmp) /\ SF_vars(PeersRename)

FairSpec == Spec /\ Fairness

-----------------------------------------------------------------------------
\* Whatever fails and wherever the process ends, the directory never holds parts
\* of two releases: the old entries are all gone before the first new one is
\* promoted, and staging never mixes two tars (GetTar).
OneRelease ==
    \A e, f \in Entries : live[e] # None /\ live[f] # None => live[e] = live[f]

AllOf(c) == [e \in Entries |-> IF e \in Site[c] THEN c ELSE None]

\* What GetTar reported populated stays, entry by entry, exactly that release
\* until a later tar has been read to its end: no failed or interrupted
\* extraction, restart or snapshot file touches it (GetTar: "If extraction fails
\* midway, the live serve dir is untouched").
PopulatedIsWhole == populated # None => live = AllOf(populated)

\* The release whose entries a directory has, each of them and no other.
ReleaseIn(dir) ==
    LET W == {c \in CIDs : Site[c] # {} /\ dir = AllOf(c)}
    IN  IF W = {} THEN None ELSE CHOOSE c \in W : TRUE

\* Entry by entry, with failures, restarts and other writers in between, the
\* directory is what SiteDir says, whatever GetTar has reported of it (poll, GetTar).
D == INSTANCE SiteDir WITH Releases <- CIDs, site <- ReleaseIn(live)

ImplementsSiteDir == D!Spec

\* Once the mirror stays on one release, propagation.json stops naming another
\* one, however late an updatePropagation that was started for it writes, and
\* both snapshots are there again and again although GetTar deletes them.
SnapshotsSettle ==
    \A c \in CIDs :
        <>[](held = c) =>
            /\ <>[](prop \in {c, None, Empty, Garbled})
            /\ []<>(prop = c) /\ []<>peers
=============================================================================
