---------------------------- MODULE Attestation ----------------------------
(***************************************************************************)
(* Mirrors that watch each other (packages/mirror/attestation.go): each one  *)
(* reads the heartbeats and the attestations of the others off the relays,   *)
(* one relay after another, publishes what it saw, and the trust page adds   *)
(* the published attestations up. Time passes, heartbeats arrive and others  *)
(* publish between any two events that a query yields.                       *)
(***************************************************************************)
EXTENDS Integers, Sequences, FiniteSets

CONSTANTS
    Mirrors, Relays,
    RelaysOf,    \* the relays of each mirror, its own first, as it queries them
    Skew,        \* how far the clock of each mirror is ahead
    Tolerance,   \* rejectEventsNewerThanSeconds of the relays
    Cap,         \* the most events a query gets: the relays' maxFilterLimit
    Lookback, DayLength,
    MaxTime,     \* bound: the last moment
    MaxKeys,     \* bound: how many keys each mirror may come to have
    Restarting,  \* bound: the mirrors that end and come back
    MaxEvents,   \* bound: events published, heartbeats and attestations
    MaxQuerying, \* bound: mirrors that query relays at one time
    Current,     \* the tag "v1"
    Unseen, Idle

\* A mirror that gets no key out of its state file comes back under a new one.
Keys == UNION {{m} \X (1..MaxKeys[m]) : m \in Mirrors}
Pool(m) == {RelaysOf[m][i] : i \in DOMAIN RelaysOf[m]}

ASSUME RelaysAssumption ==
    \A m \in Mirrors : RelaysOf[m] \in Seq(Relays) /\ RelaysOf[m] # <<>>
ASSUME ClockAssumption ==
    /\ Skew \in [Mirrors -> Int] /\ Tolerance \in Nat /\ Lookback \in Nat
    /\ DayLength \in Nat \ {0}
ASSUME BoundsAssumption ==
    /\ MaxTime \in Nat /\ MaxEvents \in Nat /\ MaxQuerying \in Nat
    /\ MaxKeys \in [Mirrors -> Nat \ {0}]

VARIABLES
    now,
    key,     \* the number of the key each mirror runs with
    file,    \* the number of the key its process found in the state file, or 0
    used,    \* how many keys it has had
    beats,   \* the heartbeats each relay holds
    said,    \* every attestation event a relay took; its place is its event id
    atts,    \* the ids that each relay still holds
    work     \* each mirror's updateAttestation, or Idle

keyVars == <<key, file, used>>
vars == <<now, keyVars, beats, said, atts, work>>

Key(m)   == <<m, key[m]>>
Clock(m) == now + Skew[m]

Beats == [by : Keys, at : Int]
Observation == [first : Int, last : Int, count : Nat \ {0}]
Peers  == [Keys -> Observation \cup {Unseen}]
Events == [by : Keys, d : Int \cup {Current}, at : Int,
           peers : Peers, seen : SUBSET Nat]
Builds == [key : Keys, since : Int, i : Nat \ {0}, at : Int,
           phase : {"beats", "atts", "current", "day"},
           got : SUBSET (Nat \X Beats), peers : Peers, seen : SUBSET Nat]

ASSUME MarkersAssumption ==
    Current \notin Int /\ Unseen \notin Observation /\ Idle \notin Builds

TypeOK ==
    /\ now \in 0..MaxTime
    /\ key \in [Mirrors -> Nat] /\ file \in [Mirrors -> Nat] /\ used \in [Mirrors -> Nat]
    /\ \A m \in Mirrors : /\ 1 <= key[m] /\ key[m] <= used[m] /\ used[m] <= MaxKeys[m]
                          /\ file[m] <= used[m]
    /\ beats \in [Relays -> SUBSET Beats]
    /\ said \in Seq(Events)
    /\ atts \in [Relays -> SUBSET DOMAIN said]
    /\ work \in [Mirrors -> Builds \cup {Idle}]
    /\ \A m \in Mirrors : work[m] # Idle =>
           work[m].key = Key(m) /\ work[m].i \in DOMAIN RelaysOf[m]

Init ==
    /\ now = 0 /\ key = [m \in Mirrors |-> 1] /\ used = key
    /\ file = [m \in Mirrors |-> 0]
    /\ beats = [r \in Relays |-> {}]
    /\ said = <<>> /\ atts = [r \in Relays |-> {}]
    /\ work = [m \in Mirrors |-> Idle]

Tick ==
    /\ now < MaxTime
    /\ now' = now + 1
    /\ UNCHANGED <<keyVars, beats, said, atts, work>>

\* The pool sends to all relays at once; those in A acknowledge. A relay takes no
\* event that its own clock says is too far ahead.
Acknowledge(m, t, A) == A \subseteq Pool(m) /\ (A # {} => t <= now + Tolerance)

AllBeats == UNION {beats[r] : r \in Relays}
Published == Cardinality(AllBeats) + Len(said)

Beat(m, A) ==
    LET b == [by |-> Key(m), at |-> Clock(m)]
    IN  /\ A # {} /\ Acknowledge(m, b.at, A)
        /\ b \notin AllBeats /\ Published < MaxEvents
        /\ beats' = [r \in Relays |-> IF r \in A THEN beats[r] \cup {b} ELSE beats[r]]
        /\ UNCHANGED <<now, keyVars, said, atts, work>>

\* What a process leaves in the state file: what it found there, if poll() has
\* adopted nothing or could not open the file; its own key; or nothing, if a save got
\* no further than to erase it.
Leaves(m) == {file[m], key[m], 0}

\* The process ends, and the next one finds f and runs with k (loadState,
\* ensureNostrKey). A new key comes of a file that is not there, that was lost with
\* the container, or that could not be read; in the last case it stays, and a later
\* start may read it.
Restart(m, f, k) ==
    /\ m \in Restarting /\ f \in Leaves(m)
    /\ \/ f # 0 /\ k = f /\ UNCHANGED used
       \/ used[m] < MaxKeys[m] /\ k = used[m] + 1 /\ used' = [used EXCEPT ![m] = k]
    /\ key' = [key EXCEPT ![m] = k] /\ file' = [file EXCEPT ![m] = f]
    /\ work' = [work EXCEPT ![m] = Idle]
    /\ UNCHANGED <<now, beats, said, atts>>

-----------------------------------------------------------------------------
(* buildAttestation.                                                        *)

Querying(m) == work[m] # Idle /\ work[m].phase \in {"beats", "atts"}

Start(m) ==
    /\ work[m] = Idle /\ Published < MaxEvents
    /\ Cardinality({n \in Mirrors : Querying(n)}) < MaxQuerying
    /\ work' = [work EXCEPT ![m] =
          [key |-> Key(m), since |-> Clock(m) - Lookback, i |-> 1, at |-> 0,
           phase |-> "beats", got |-> {}, peers |-> [k \in Keys |-> Unseen],
           seen |-> {}]]
    /\ UNCHANGED <<now, keyVars, beats, said, atts>>

Asked(m) == RelaysOf[m][work[m].i]

\* What a relay answers with, of events e that are dated at[e]: the newest Cap since
\* the window began.
Answer(at, since) ==
    {e \in DOMAIN at :
        at[e] >= since /\ Cardinality({f \in DOMAIN at : at[f] > at[e]}) < Cap}

\* Bugs: only the first heartbeat of a key looked at; the last one kept.
Observe_FirstOnly(p, t) ==
    IF p = Unseen THEN [first |-> t, last |-> t, count |-> 1]
    ELSE [p EXCEPT !.count = @ + 1]

Observe(p, t) ==
    IF p = Unseen THEN [first |-> t, last |-> t, count |-> 1]
    ELSE [first |-> IF t < p.first THEN t ELSE p.first,
          last  |-> IF t > p.last THEN t ELSE p.last,
          count |-> p.count + 1]

\* A bug: the mirror's own heartbeats not left out.
HearsBeat_Own(m, b) ==
    LET w == work[m]
    IN  /\ w # Idle /\ w.phase = "beats"
        /\ b \in Answer([e \in beats[Asked(m)] |-> e.at], w.since)
        /\ <<w.i, b>> \notin w.got
        /\ work' = [work EXCEPT ![m].got = @ \cup {<<w.i, b>>},
                                ![m].peers[b.by] = Observe(@, b.at)]
        /\ UNCHANGED <<now, keyVars, beats, said, atts>>

\* One more event of the heartbeat query; the mirror's own are passed over. Any number
\* of them arrives before the query ends: at its end, at its timeout, or when it fails.
HearsBeat(m, b) ==
    LET w == work[m]
    IN  /\ w # Idle /\ w.phase = "beats"
        /\ b \in Answer([e \in beats[Asked(m)] |-> e.at], w.since)
        /\ b.by # w.key /\ <<w.i, b>> \notin w.got
        /\ work' = [work EXCEPT ![m].got = @ \cup {<<w.i, b>>},
                                ![m].peers[b.by] = Observe(@, b.at)]
        /\ UNCHANGED <<now, keyVars, beats, said, atts>>

EndsBeats(m) ==
    /\ work[m] # Idle /\ work[m].phase = "beats"
    /\ work' = [work EXCEPT ![m].phase = "atts"]
    /\ UNCHANGED <<now, keyVars, beats, said, atts>>

SeesAtt(m, id) ==
    LET w == work[m]
    IN  /\ w # Idle /\ w.phase = "atts"
        /\ id \in Answer([i \in atts[Asked(m)] |-> said[i].at], w.since)
        /\ said[id].by # w.key /\ id \notin w.seen
        /\ work' = [work EXCEPT ![m].seen = @ \cup {id}]
        /\ UNCHANGED <<now, keyVars, beats, said, atts>>

\* A bug: one relay too many.
EndsAtts_OneMore(m) ==
    /\ work[m] # Idle /\ work[m].phase = "atts"
    /\ work' = IF work[m].i <= Len(RelaysOf[m])
               THEN [work EXCEPT ![m].i = @ + 1, ![m].phase = "beats"]
               ELSE [work EXCEPT ![m].phase = "current", ![m].got = {}, ![m].i = 1]
    /\ UNCHANGED <<now, keyVars, beats, said, atts>>

EndsAtts(m) ==
    /\ work[m] # Idle /\ work[m].phase = "atts"
    /\ work' = IF work[m].i < Len(RelaysOf[m])
               THEN [work EXCEPT ![m].i = @ + 1, ![m].phase = "beats"]
               ELSE [work EXCEPT ![m].phase = "current", ![m].got = {}, ![m].i = 1]
    /\ UNCHANGED <<now, keyVars, beats, said, atts>>

-----------------------------------------------------------------------------
(* publishAttestation: two replaceable events with one content and one time. *)

Says(m, d, t) == [by |-> work[m].key, d |-> d, at |-> t,
                  peers |-> work[m].peers, seen |-> work[m].seen]

\* A relay keeps the newest event of a key and a tag.
Holds(S, e) == {i \in S : said[i].by # e.by \/ said[i].d # e.d} \cup {Len(said) + 1}

Send(m, e, A) ==
    /\ Acknowledge(m, e.at, A) /\ (A # {} => Published < MaxEvents)
    /\ said' = IF A = {} THEN said ELSE Append(said, e)
    /\ atts' = [r \in Relays |-> IF r \in A THEN Holds(atts[r], e) ELSE atts[r]]
    /\ UNCHANGED <<now, keyVars, beats>>

\* Bugs: the time of the build and not of the publication; the error ignored.
PublishCurrent_BuildTime(m, A) ==
    /\ work[m] # Idle /\ work[m].phase = "current"
    /\ Send(m, Says(m, Current, work[m].since + Lookback), A)
    /\ work' = [work EXCEPT ![m] =
           IF A = {} THEN Idle ELSE [@ EXCEPT !.phase = "day"]]

PublishCurrent_GoesOn(m, A) ==
    /\ work[m] # Idle /\ work[m].phase = "current"
    /\ Send(m, Says(m, Current, Clock(m)), A)
    /\ work' = [work EXCEPT ![m] = [@ EXCEPT !.phase = "day", !.at = Clock(m), !.since = 0]]

\* Without a relay that takes it, the archive is not tried.
PublishCurrent(m, A) ==
    /\ work[m] # Idle /\ work[m].phase = "current"
    /\ Send(m, Says(m, Current, Clock(m)), A)
    /\ work' = [work EXCEPT ![m] =
           IF A = {} THEN Idle ELSE [@ EXCEPT !.phase = "day", !.at = Clock(m), !.since = 0]]

PublishDay(m, A) ==
    /\ work[m] # Idle /\ work[m].phase = "day"
    /\ Send(m, Says(m, work[m].at \div DayLength, work[m].at), A)
    /\ work' = [work EXCEPT ![m] = Idle]

Next ==
    \/ Tick
    \/ \E m \in Mirrors :
        \/ (\E A \in SUBSET Relays : Beat(m, A) \/ PublishCurrent(m, A) \/ PublishDay(m, A))
        \/ (\E f \in 0..MaxKeys[m], k \in 1..MaxKeys[m] : Restart(m, f, k))
        \/ Start(m) \/ EndsBeats(m) \/ EndsAtts(m)
        \/ (\E b \in AllBeats : HearsBeat(m, b))
        \/ (\E id \in DOMAIN said : SeesAtt(m, id))

Spec == Init /\ [][Next]_vars

-----------------------------------------------------------------------------
(* The trust page's load(), over the attestations S that it got.            *)

\* latestByAttester: the newest current-state event of each key.
LatestByAttester(S) ==
    {i \in S : /\ said[i].d = Current
               /\ \A j \in S : said[j].d = Current /\ said[j].by = said[i].by
                                   => said[j].at <= said[i].at}

\* The keys that endorse p: they list it, or refer to an attestation by it.
Endorsers(S, p) ==
    {said[i].by : i \in {j \in LatestByAttester(S) :
        \/ said[j].peers[p] # Unseen
        \/ p # said[j].by /\ \E id \in said[j].seen : said[id].by = p}}

Established(S, p) ==
    /\ \E i \in LatestByAttester(S) : said[i].by = p
    /\ Cardinality(Endorsers(S, p)) >= 2

\* Whatever subset of the attestations a browser gets.
Answers == SUBSET UNION {atts[r] : r \in Relays}

-----------------------------------------------------------------------------
(* Correctness.                                                             *)

\* What w has heard of k, once per relay that it came from.
Copies(w, k) == {c \in w.got : c[2].by = k}

\* Each peer record, put together event by event over several relays that hold
\* different parts and copies of the heartbeats (buildAttestation), names the
\* first and the last heartbeat there was among them, and counts no fewer than
\* there were and no more than came in; a key not heard of is not listed.
RecordsAreExact ==
    \A m \in Mirrors : Querying(m) =>
        LET w == work[m]
        IN  \A k \in Keys :
                LET times == {c[2].at : c \in Copies(w, k)}
                    p == w.peers[k]
                IN  IF times = {} THEN p = Unseen
                    ELSE /\ p # Unseen
                         /\ p.first \in times /\ p.last \in times
                         /\ \A t \in times : p.first <= t /\ t <= p.last
                         /\ Cardinality(times) <= p.count
                         /\ p.count <= Cardinality(Copies(w, k))

\* "Back-dating an attestation chain requires also forging every event that
\* references it": an attestation refers to nothing, and lists no heartbeat, that
\* is dated later than itself by more than the relays let pass, unless the clock
\* of its mirror is slow; for it takes its time after its last query.
NothingFromTheFuture ==
    \A i \in DOMAIN said : Skew[said[i].by[1]] >= 0 =>
        /\ \A id \in said[i].seen : id < i /\ said[id].at <= said[i].at + Tolerance
        /\ \A k \in Keys : said[i].peers[k] # Unseen =>
               said[i].peers[k].last <= said[i].at + Tolerance

\* "Best-effort - current-state still landed": wherever a relay has an entry of the
\* daily archive, one of them has a current state of that key that is not older.
CurrentStateLanded ==
    \A r \in Relays : \A i \in atts[r] : said[i].d # Current =>
        \E q \in Relays : \E j \in atts[q] :
            said[j].d = Current /\ said[j].by = said[i].by /\ said[j].at >= said[i].at

\* "Attesters >= 2 have been independently observed by multiple mirrors" (README):
\* no key endorses itself, whichever keys its mirror has run with and returned to,
\* since a build passes over what its own key sent; so a key that the trust page
\* calls established has another mirror among its endorsers, unless its mirror has
\* had three keys, of which two can do it.
EstablishedByOthers ==
    \A S \in Answers : \A p \in Keys :
        /\ p \notin Endorsers(S, p)
        /\ Established(S, p) => \/ \E a \in Endorsers(S, p) : a[1] # p[1]
                                \/ used[p[1]] >= 3
=============================================================================
