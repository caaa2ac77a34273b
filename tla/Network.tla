------------------------------ MODULE Network ------------------------------
(***************************************************************************)
(* The whole way of a release: signers and their files (Publisher), the git   *)
(* host and the relays, the mirrors as Mirror describes them and Daemon        *)
(* implements them, and visitors whose browser checks the site on its own      *)
(* (packages/site/js/verify.js). Nobody coordinates any of these.             *)
(***************************************************************************)
EXTENDS Publisher

CONSTANTS
    Mirrors, Visitors,
    Hardcoded,   \* HARDCODED_SIGNERS and HARDCODED_THRESHOLD
    PageOf,      \* the page a visitor opens, as each build has it
    NoCID, NoPage

ASSUME NoCIDAssumption == NoCID \notin CIDs
ASSUME HardcodedAssumption == Hardcoded.threshold \in Int
ASSUME FiniteAssumption ==
    \A t \in TrustFiles \cup {Hardcoded} : IsFiniteSet(t.signers)
ASSUME PageOfAssumption == DOMAIN PageOf = CIDs

VARIABLES
    host,      \* latest.json as the git host serves it
    up, trust, held, saved,   \* the variables of Mirror, for each of them
    site,      \* the build each mirror serves, NoCID while there is not all of one
    override,  \* the latest.json that each visitor pasted, or NoFile
    visit      \* each visitor's page and what verify.js is doing there, or Idle

mirrorVars  == <<up, trust, held, saved, site>>
visitorVars == <<override, visit>>
netVars == <<vars, host, mirrorVars, visitorVars>>

NoTrust == [threshold |-> 1, signers |-> {}]
None    == [cid |-> NoCID, ver |-> 0]
Held    == [cid : CIDs \cup {NoCID}, ver : Nat]
Badges  == {"pending", "unknown", "invalid", "signed", "matched"}
Visits  == [at : Mirrors, latest : Latest \cup {NoFile},
            step : {"latest", "manifest", "page", "done"}, badge : Badges]

NetTypeOK ==
    /\ TypeOK
    /\ host \in Latest \cup {NoFile}
    /\ up \in [Mirrors -> BOOLEAN] /\ trust \in [Mirrors -> TrustFiles \cup {NoTrust}]
    /\ held \in [Mirrors -> Held] /\ saved \in [Mirrors -> Held]
    /\ site \in [Mirrors -> CIDs \cup {NoCID}]
    /\ override \in [Visitors -> Latest \cup {NoFile}]
    /\ visit \in [Visitors -> Visits \cup {Idle}]

\* The repository's latest.json is what everyone starts from.
NetInit ==
    /\ Init
    /\ \E s \in Signers : host = file[s]
    /\ up = [m \in Mirrors |-> FALSE] /\ trust = [m \in Mirrors |-> NoTrust]
    /\ held = [m \in Mirrors |-> None] /\ saved = [m \in Mirrors |-> None]
    /\ site = [m \in Mirrors |-> NoCID]
    /\ override = [v \in Visitors |-> NoFile] /\ visit = [v \in Visitors |-> Idle]

\* "git commit && git push", of whatever there is: it asks for no signature.
Push(l) ==
    /\ l \in {file[s] : s \in Signers} \cup strays
    /\ l # NoFile /\ host # l
    /\ host' = l
    /\ UNCHANGED <<vars, mirrorVars, visitorVars>>

\* Anyone can publish an event with any content (broadcastUpdate): relays hold what
\* is around, and not only what `publisher publish` sent.
OnRelays == (UNION {relayed[r] : r \in Relays}) \cup strays

-----------------------------------------------------------------------------
(* Mirrors.                                                                 *)

\* With what was saved, or without it when it cannot be read; it stays all the same.
ComeUp(m, t, h) ==
    /\ ~up[m] /\ h \in {saved[m], None}
    /\ up' = [up EXCEPT ![m] = TRUE] /\ trust' = [trust EXCEPT ![m] = t]
    /\ held' = [held EXCEPT ![m] = h]
    /\ UNCHANGED <<vars, host, saved, site, visitorVars>>

GoDown(m) ==
    /\ up[m]
    /\ up' = [up EXCEPT ![m] = FALSE] /\ trust' = [trust EXCEPT ![m] = NoTrust]
    /\ held' = [held EXCEPT ![m] = None]
    /\ UNCHANGED <<vars, host, saved, site, visitorVars>>

\* A bug: what the host serves taken unverified.
Adopt_Host(m, l) ==
    /\ up[m] /\ l \in OnRelays \cup {host} /\ l # NoFile
    /\ trust[m].signers # {} /\ (l = host \/ VerifyThreshold(trust[m], l))
    /\ l.cid # held[m].cid /\ (l.version > held[m].ver \/ held[m].ver = 0)
    /\ held' = [held EXCEPT ![m] = [cid |-> l.cid, ver |-> l.version]]
    /\ UNCHANGED <<vars, host, up, trust, saved, site, visitorVars>>

\* One poll: any source may fail to answer, so any announcement that the host or a
\* relay has may be the one that the poll settles on.
Adopt(m, l) ==
    /\ up[m] /\ l \in OnRelays \cup {host} /\ l # NoFile
    /\ trust[m].signers # {} /\ VerifyThreshold(trust[m], l)
    /\ l.cid # held[m].cid /\ (l.version > held[m].ver \/ held[m].ver = 0)
    /\ held' = [held EXCEPT ![m] = [cid |-> l.cid, ver |-> l.version]]
    /\ UNCHANGED <<vars, host, up, trust, saved, site, visitorVars>>

\* saveState erases what was saved before it writes what is held.
Save(m, s) ==
    /\ up[m] /\ s \in {None, held[m]} /\ s # saved[m]
    /\ saved' = [saved EXCEPT ![m] = s]
    /\ UNCHANGED <<vars, host, up, trust, held, site, visitorVars>>

\* GetTar, which may come too late, be cut off when the old site is gone, or fail.
TakeDown(m) ==
    /\ up[m] /\ held[m].cid # NoCID /\ site[m] # NoCID
    /\ site' = [site EXCEPT ![m] = NoCID]
    /\ UNCHANGED <<vars, host, up, trust, held, saved, visitorVars>>

Populate(m) ==
    /\ up[m] /\ held[m].cid # NoCID /\ site[m] = NoCID
    /\ site' = [site EXCEPT ![m] = held[m].cid]
    /\ UNCHANGED <<vars, host, up, trust, held, saved, visitorVars>>

-----------------------------------------------------------------------------
(* Visitors.                                                                *)

\* The paste form of trust.html, with an announcement from wherever there is one.
Paste(v, l) ==
    /\ l \in Announcements \cup {host} /\ l # NoFile /\ l # override[v]
    /\ VerifyThreshold(Hardcoded, l)
    /\ override' = [override EXCEPT ![v] = l]
    /\ UNCHANGED <<vars, host, mirrorVars, visit>>

Clear(v) ==
    /\ override[v] # NoFile
    /\ override' = [override EXCEPT ![v] = NoFile]
    /\ UNCHANGED <<vars, host, mirrorVars, visit>>

\* The browser loads a page of a mirror and runs verify.js.
Open(v, m) ==
    /\ site[m] # NoCID
    /\ visit' = [visit EXCEPT ![v] = [at |-> m, latest |-> NoFile,
                                      step |-> "latest", badge |-> "pending"]]
    /\ UNCHANGED <<vars, host, mirrorVars, override>>

Shows(v, b) ==
    visit' = [visit EXCEPT ![v].step = "done", ![v].badge = b]

AtStep(v, s) == visit[v] # Idle /\ visit[v].step = s

\* fetchLatestFromNostr: of what the relays that answer hold, the newest.
NewestOf(S) ==
    IF S = {} THEN {NoFile} ELSE {l \in S : \A k \in S : k.version <= l.version}

\* Step 1: the override, else the host, else the relays.
Candidates(v) ==
    IF override[v] # NoFile THEN {override[v]}
    ELSE ({host} \ {NoFile}) \cup UNION {NewestOf(S) : S \in SUBSET OnRelays}

NoSource(v) ==
    /\ AtStep(v, "latest") /\ NoFile \in Candidates(v)
    /\ Shows(v, "unknown")
    /\ UNCHANGED <<vars, host, mirrorVars, override>>

\* A bug: what the host serves taken for verified.
Verifies_Host(l) == l = host \/ VerifyThreshold(Hardcoded, l)

\* Steps 2 and 3.
Verifies(l) == VerifyThreshold(Hardcoded, l)

Checks(v, l) ==
    /\ AtStep(v, "latest") /\ l \in Candidates(v) /\ l # NoFile
    /\ IF Verifies(l)
       THEN visit' = [visit EXCEPT ![v].step = "manifest", ![v].latest = l]
       ELSE Shows(v, "invalid")
    /\ UNCHANGED <<vars, host, mirrorVars, override>>

\* There is an entry to verify, but the browser gives the page no crypto.subtle.
NoCrypto(v, l) ==
    /\ AtStep(v, "latest") /\ l \in Candidates(v) /\ l # NoFile
    /\ \E i \in DOMAIN AllSigs(l) : AllSigs(l)[i].signer \in Hardcoded.signers
    /\ Shows(v, "unknown")
    /\ UNCHANGED <<vars, host, mirrorVars, override>>

\* Step 4: no gateway has integrity.json, or it does not list the page.
NoManifest(v) ==
    /\ AtStep(v, "manifest")
    /\ Shows(v, "signed")
    /\ UNCHANGED <<vars, host, mirrorVars, override>>

Manifest(v) ==
    /\ AtStep(v, "manifest")
    /\ visit' = [visit EXCEPT ![v].step = "page"]
    /\ UNCHANGED <<vars, host, mirrorVars, override>>

\* Step 5: the page is fetched once more, from what the mirror serves by then.
PageNow(v) ==
    LET c == site[visit[v].at] IN IF c = NoCID THEN NoPage ELSE PageOf[c]

\* A bug: the page in the place of the verdict.
Hashes_Page(v) ==
    /\ AtStep(v, "page")
    /\ Shows(v, PageNow(v))
    /\ UNCHANGED <<vars, host, mirrorVars, override>>

Hashes(v) ==
    /\ AtStep(v, "page")
    /\ Shows(v, IF PageNow(v) = PageOf[visit[v].latest.cid] THEN "matched" ELSE "invalid")
    /\ UNCHANGED <<vars, host, mirrorVars, override>>

PageBlocked(v) ==
    /\ AtStep(v, "page")
    /\ Shows(v, "signed")
    /\ UNCHANGED <<vars, host, mirrorVars, override>>

-----------------------------------------------------------------------------
MirrorStep(m) ==
    \/ (\E t \in TrustFiles, h \in {saved[m], None} : ComeUp(m, t, h)) \/ GoDown(m)
    \/ (\E l \in OnRelays \cup {host} : Adopt(m, l))
    \/ (\E s \in {None, held[m]} : Save(m, s)) \/ TakeDown(m) \/ Populate(m)

VisitorStep(v) ==
    \/ (\E l \in Announcements \cup {host} : Paste(v, l)) \/ Clear(v)
    \/ (\E m \in Mirrors : Open(v, m)) \/ NoSource(v)
    \/ (\E l \in Candidates(v) : Checks(v, l) \/ NoCrypto(v, l))
    \/ NoManifest(v) \/ Manifest(v) \/ Hashes(v) \/ PageBlocked(v)

NetNext ==
    \/ Next /\ UNCHANGED <<host, mirrorVars, visitorVars>>
    \/ \E l \in Announcements : Push(l)
    \/ \E m \in Mirrors : MirrorStep(m)
    \/ \E v \in Visitors : VisitorStep(v)

NetSpec == NetInit /\ [][NetNext]_netVars

-----------------------------------------------------------------------------
Trusts == TrustFiles \cup {Hardcoded}

\* The messages about c that someone t trusts has signed: as many people as t asks for,
\* or fewer if the round has gone around with an entry repeated.
Backing(c, t) ==
    {r \in {p[2] : p \in made} :
        LET people == {s \in t.signers : <<s, r>> \in made}
        IN  /\ r[1] = c /\ people # {}
            /\ Cardinality(people) >= EffectiveThreshold(t) \/ Repeated(r)}

Backed(c, v, t) == \E r \in Backing(c, t) : r[2] = v

\* What a mirror holds, would come back to or serves to its visitors was signed by
\* someone that a deployed trusted-signers.json lists, and by as many people as it
\* asks for unless an entry was repeated by hand, although every announcement of it
\* may be gone from files, host and relays.
HeldMeansPeople ==
    /\ \A m \in Mirrors : \A h \in {held[m], saved[m]} :
           h.cid # NoCID => \E t \in TrustFiles : Backed(h.cid, h.ver, t)
    /\ \A m \in Mirrors : site[m] # NoCID =>
           \E t \in TrustFiles : Backing(site[m], t) # {}

Ticked(v) == visit[v] # Idle /\ visit[v].badge \in {"signed", "matched"}

\* "The badge requires >= threshold of them to be valid and from trusted keys": a
\* tick stands for that many different people, or for one at least where an entry was
\* repeated by hand, wherever the browser had the announcement from, and however old
\* the pasted one was.
BadgeMeansPeople ==
    \A v \in Visitors : Ticked(v) =>
        Backed(visit[v].latest.cid, visit[v].latest.version, Hardcoded)

\* "Minimum number of distinct valid signatures required before showing" a tick
\* (HARDCODED_THRESHOLD in verify.js). It is no such minimum: entries are counted.
DistinctSigners ==
    \A v \in Visitors : Ticked(v) =>
        Cardinality(People(Hardcoded, visit[v].latest)) >= EffectiveThreshold(Hardcoded)

\* The releases that a mirror holds or that a visitor's browser ticked.
Accepted ==
    {h \in {held[m] : m \in Mirrors} : h.cid # NoCID} \cup
        {[cid |-> visit[v].latest.cid, ver |-> visit[v].latest.version] :
            v \in {u \in Visitors : Ticked(u)}}

\* Any two thresholds have a signer in common.
QuorumsMeet ==
    \A t, u \in Trusts :
        Cardinality(t.signers \cup u.signers)
            < EffectiveThreshold(t) + EffectiveThreshold(u)

\* Rounds started apart get one number, and a mirror that took one passes over the
\* other. Where thresholds meet, mirrors and browsers are split like that only if
\* some signer signed two builds under one version, or if one of the two rounds has
\* gone around with an entry repeated.
SplitMeansDoubleSigned ==
    QuorumsMeet =>
        \A h, g \in Accepted : h.ver = g.ver /\ h.cid # g.cid =>
            \/ \E p, q \in made :
                  /\ p[1] = q[1] /\ p[2][2] = q[2][2]
                  /\ p[2][1] = h.cid /\ q[2][1] = g.cid
            \/ \E p \in made : /\ p[2][1] \in {h.cid, g.cid} /\ p[2][2] = h.ver
                               /\ Repeated(p[2])
=============================================================================
