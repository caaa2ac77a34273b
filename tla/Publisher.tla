----------------------------- MODULE Publisher -----------------------------
(***************************************************************************)
(* The publisher's command line (packages/publisher): signers who sign       *)
(* releases, each in a copy of latest.json of their own, pass the file on,    *)
(* and broadcast it to the relays. There is no server and no lock: what keeps *)
(* a signing round together is only what `publisher sign` reads and writes.   *)
(* latest.json is a text file, and relays take events from everyone: there    *)
(* are announcements that no `publisher` wrote.                               *)
(***************************************************************************)
EXTENDS Signing

CONSTANTS
    Signers,       \* the keys `publisher sign` is run with
    CIDs,          \* builds of the site
    FirstFiles,    \* what latest.json may hold at first
    TrustFiles,    \* the trusted-signers.json that mirrors may have
    Flags,         \* values of --version, 0 standing for none
    Strays,        \* announcements that `publisher` does not write, each as what it says
                   \* and its entries: <<message, <<<<key, message>>, ...>>>>
    NumRelays,     \* publishRelays, in the order they are tried
    MaxTime,       \* bound: the last time stamp
    MaxVersion,    \* bound: the last version
    MaxSigned,     \* bound: signatures made, over different messages or by different keys
    MaxPublishes,  \* bound: runs of `publisher publish`
    NoFile, Idle

Relays  == 1..NumRelays
Message == CIDs \X Nat \X Nat
Entry   == [signer : Signers, msg : Message]
Latest  == [cid : CIDs, version : Nat, timestamp : Nat,
            signatures : Seq(Entry), legacy : {q \in Seq(Entry) : Len(q) <= 1}]

ASSUME SignersAssumption == IsFiniteSet(Signers)
ASSUME FirstFilesAssumption ==
    \A f \in FirstFiles : /\ f \in Latest
                          /\ Len(AllSigs(f)) = 1
                          /\ AllSigs(f)[1].msg = SigningMessage(f)
ASSUME StraysAssumption == Strays \subseteq Message \X Seq(Signers \X Message)
ASSUME BoundsAssumption ==
    /\ NumRelays \in Nat /\ MaxTime \in Nat /\ MaxVersion \in Nat
    /\ MaxPublishes \in Nat /\ MaxSigned \in Nat /\ Flags \subseteq Nat
ASSUME TrustFilesAssumption == \A t \in TrustFiles : t.threshold \in Int
ASSUME NoFileAssumption == NoFile \notin Latest

VARIABLES
    file,       \* latest.json as each signer has it, NoFile when not readable
    clock,
    made,       \* every signature ever made: <<key, message>>
    strays,     \* the announcements not of `publisher` that are around
    relayIs,    \* how each relay answers: "up", "refuses" or "hangs"
    relayed,    \* the update events each relay holds
    pub,        \* each signer's `publisher publish`, or Idle
    publishes,  \* how many were started
    failed      \* whether one ended with "no relays accepted the event"

fileVars == <<file, clock, made, strays>>
pubVars  == <<relayIs, relayed, pub, publishes, failed>>
vars == <<fileVars, pubVars>>

Broadcasts == [l : Latest, next : 1..(NumRelays + 1), inTime : BOOLEAN, ok : BOOLEAN]

TypeOK ==
    /\ file \in [Signers -> Latest \cup {NoFile}]
    /\ clock \in 0..MaxTime
    /\ made \subseteq Signers \X Message
    /\ strays \subseteq Latest
    /\ relayIs \in [Relays -> {"up", "refuses", "hangs"}]
    /\ relayed \in [Relays -> SUBSET Latest]
    /\ pub \in [Signers -> Broadcasts \cup {Idle}]
    /\ publishes \in 0..MaxPublishes
    /\ failed \in BOOLEAN

\* Everyone starts from the latest.json of the repository.
Init ==
    /\ \E f \in FirstFiles :
          /\ file = [s \in Signers |-> f]
          /\ made = {<<AllSigs(f)[1].signer, AllSigs(f)[1].msg>>}
    /\ clock = 0 /\ strays = {}
    /\ relayIs \in [Relays -> {"up", "refuses", "hangs"}]
    /\ relayed = [r \in Relays |-> {}]
    /\ pub = [s \in Signers |-> Idle]
    /\ publishes = 0 /\ failed = FALSE

Tick ==
    /\ clock < MaxTime
    /\ clock' = clock + 1
    /\ UNCHANGED <<file, made, strays, pubVars>>

-----------------------------------------------------------------------------
(* publisher sign.                                                          *)

\* Bugs: a co-signer stamps the round again; a new round keeps the signatures.
Round_Restamped(s, c, v) ==
    IF file[s] # NoFile /\ file[s].cid = c
    THEN [file[s] EXCEPT !.legacy = <<>>, !.timestamp = clock]
    ELSE [cid |-> c, timestamp |-> clock, signatures |-> <<>>, legacy |-> <<>>,
          version |-> IF v > 0 THEN v
                      ELSE IF file[s] # NoFile THEN file[s].version + 1 ELSE 1]

\* The round that s signs: the one in the file when it is about the same CID, or
\* a fresh one. Either way no legacy signature is kept.
Round(s, c, v) ==
    IF file[s] # NoFile /\ file[s].cid = c
    THEN [file[s] EXCEPT !.legacy = <<>>]
    ELSE [cid |-> c, timestamp |-> clock, signatures |-> <<>>, legacy |-> <<>>,
          version |-> IF v > 0 THEN v
                      ELSE IF file[s] # NoFile THEN file[s].version + 1 ELSE 1]

\* signLatest: the entry that a key's signature over what l says becomes.
SignLatest(s, l) == [signer |-> s, msg |-> SigningMessage(l)]

SignedBy(l, s) == \E i \in DOMAIN l.signatures : l.signatures[i].signer = s

\* A bug: nothing keeps a key from signing twice.
Sign_Twice(s, c, v) ==
    LET l == Round(s, c, v)
    IN  /\ l.version <= MaxVersion /\ Cardinality(made) < MaxSigned /\ Len(l.signatures) < 3
        /\ file' = [file EXCEPT ![s] = [l EXCEPT !.signatures =
                       Append(@, SignLatest(s, l))]]
        /\ made' = made \cup {<<s, SigningMessage(l)>>}
        /\ UNCHANGED <<clock, strays, pubVars>>

Sign(s, c, v) ==
    LET l == Round(s, c, v)
    IN  /\ l.version <= MaxVersion /\ Cardinality(made) < MaxSigned
        /\ ~SignedBy(l, s)
        /\ file' = [file EXCEPT ![s] = [l EXCEPT !.signatures =
                       Append(@, SignLatest(s, l))]]
        /\ made' = made \cup {<<s, SigningMessage(l)>>}
        /\ UNCHANGED <<clock, strays, pubVars>>

\* writeLatest is cut off after it truncated the file; the next sign takes an
\* unreadable file for none and starts again at version 1.
WriteTorn(s) ==
    /\ file[s] # NoFile
    /\ file' = [file EXCEPT ![s] = NoFile]
    /\ UNCHANGED <<clock, made, strays, pubVars>>

\* "Share latest.json with other signers": t takes s's copy for its own.
Share(s, t) ==
    /\ file[s] # NoFile /\ file[t] # file[s]
    /\ file' = [file EXCEPT ![t] = file[s]]
    /\ UNCHANGED <<clock, made, strays, pubVars>>

-----------------------------------------------------------------------------
(* What no tool writes.                                                     *)

\* The latest.json that x is.
Written(x) ==
    [cid |-> x[1][1], version |-> x[1][2], timestamp |-> x[1][3], legacy |-> <<>>,
     signatures |-> [i \in DOMAIN x[2] |-> [signer |-> x[2][i][1], msg |-> x[2][i][2]]]]

\* What x has of signatures that are good for what it says, their keys made.
Unforged(x) == \A i \in DOMAIN x[2] : x[2][i][2] = x[1] => x[2][i] \in made

\* Two copies of a latest.json merged, one edited, or an event posted: whatever there
\* is in it, "they cannot forge a valid signature without the trusted signing keys".
Circulate(x) ==
    /\ Unforged(x) /\ Written(x) \notin strays
    /\ strays' = strays \cup {Written(x)}
    /\ UNCHANGED <<file, clock, made, pubVars>>

\* A signer takes one for latest.json.
Take(s, l) ==
    /\ l \in strays /\ file[s] # l
    /\ file' = [file EXCEPT ![s] = l]
    /\ UNCHANGED <<clock, made, strays, pubVars>>

-----------------------------------------------------------------------------
(* publisher publish.                                                       *)

\* A bug: the error of reading the file ignored.
Publish_Unread(s) ==
    /\ pub[s] = Idle /\ publishes < MaxPublishes
    /\ file[s] = NoFile \/ AllSigs(file[s]) # <<>>
    /\ pub' = [pub EXCEPT ![s] =
                  [l |-> file[s], next |-> 1, inTime |-> TRUE, ok |-> FALSE]]
    /\ publishes' = publishes + 1
    /\ UNCHANGED <<fileVars, relayIs, relayed, failed>>

\* The file is read once; what it holds is broadcast after ipfs add and IPNS,
\* whatever becomes of the file meanwhile, and whatever they answer.
Publish(s) ==
    /\ pub[s] = Idle /\ publishes < MaxPublishes
    /\ file[s] # NoFile /\ AllSigs(file[s]) # <<>>
    /\ pub' = [pub EXCEPT ![s] =
                  [l |-> file[s], next |-> 1, inTime |-> TRUE, ok |-> FALSE]]
    /\ publishes' = publishes + 1
    /\ UNCHANGED <<fileVars, relayIs, relayed, failed>>

\* `ipfs add`, the CID comparison or reading the key fails: the command dies.
PublishDies(s) ==
    /\ pub[s] # Idle /\ pub[s].next = 1
    /\ pub' = [pub EXCEPT ![s] = Idle]
    /\ UNCHANGED <<fileVars, relayIs, relayed, publishes, failed>>

\* The next relay of the loop, while the 30 seconds of the context last.
Trying(s, r) ==
    pub[s] # Idle /\ r = pub[s].next /\ r <= NumRelays /\ pub[s].inTime

Accepts(s, r) ==
    /\ Trying(s, r) /\ relayIs[r] = "up"
    /\ relayed' = [relayed EXCEPT ![r] = @ \cup {pub[s].l}]
    /\ pub' = [pub EXCEPT ![s].next = r + 1, ![s].ok = TRUE]
    /\ UNCHANGED <<fileVars, relayIs, publishes, failed>>

\* A bug: a relay that refuses ends the loop.
Refuses_Returns(s, r) ==
    /\ Trying(s, r) /\ relayIs[r] = "refuses"
    /\ pub' = [pub EXCEPT ![s].next = NumRelays + 1]
    /\ UNCHANGED <<fileVars, relayIs, relayed, publishes, failed>>

Refuses(s, r) ==
    /\ Trying(s, r) /\ relayIs[r] = "refuses"
    /\ pub' = [pub EXCEPT ![s].next = r + 1]
    /\ UNCHANGED <<fileVars, relayIs, relayed, publishes, failed>>

\* A relay that does not answer takes what is left of the context.
Hangs(s, r) ==
    /\ Trying(s, r) /\ relayIs[r] = "hangs"
    /\ pub' = [pub EXCEPT ![s].next = r + 1, ![s].inTime = FALSE]
    /\ UNCHANGED <<fileVars, relayIs, relayed, publishes, failed>>

\* With an expired context every later relay fails at once.
TooLate(s) ==
    /\ pub[s] # Idle /\ pub[s].next <= NumRelays /\ ~pub[s].inTime
    /\ pub' = [pub EXCEPT ![s].next = @ + 1]
    /\ UNCHANGED <<fileVars, relayIs, relayed, publishes, failed>>

PublishEnds(s) ==
    /\ pub[s] # Idle /\ pub[s].next > NumRelays
    /\ pub' = [pub EXCEPT ![s] = Idle]
    /\ failed' = (failed \/ ~pub[s].ok)
    /\ UNCHANGED <<fileVars, relayIs, relayed, publishes>>

Next ==
    \/ Tick \/ (\E x \in Strays : Circulate(x))
    \/ \E s \in Signers :
        \/ \E c \in CIDs, v \in Flags : Sign(s, c, v)
        \/ WriteTorn(s) \/ (\E t \in Signers : Share(s, t))
        \/ (\E l \in strays : Take(s, l))
        \/ Publish(s) \/ PublishDies(s)
        \/ \E r \in Relays : Accepts(s, r) \/ Refuses(s, r) \/ Hangs(s, r)
        \/ TooLate(s) \/ PublishEnds(s)

Spec == Init /\ [][Next]_vars

-----------------------------------------------------------------------------
\* Every announcement there is: in a file, being broadcast, on a relay, or around.
Announcements ==
    {file[s] : s \in {t \in Signers : file[t] # NoFile}}
        \cup {pub[s].l : s \in {t \in Signers : pub[t] # Idle}}
        \cup (UNION {relayed[r] : r \in Relays}) \cup strays

\* The signers that t trusts and that ran `publisher sign` on what l says.
People(t, l) == {s \in t.signers : <<s, SigningMessage(l)>> \in made}

\* l has two entries of one key.
Repeats(l) ==
    \E i, j \in DOMAIN AllSigs(l) : i # j /\ AllSigs(l)[i].signer = AllSigs(l)[j].signer

\* Someone has repeated an entry in the round of the message r, or has had a hand in it
\* at all. No tool does.
Repeated(r) == \E l \in strays : SigningMessage(l) = r /\ Repeats(l)
Handled(r)  == \E l \in strays : SigningMessage(l) = r

\* verifyThreshold counts entries of the array and not signers. Whatever files were
\* passed on, torn, merged, signed again or broadcast in between, an announcement that
\* passes it has been signed by someone trusted over exactly this CID, version and
\* time stamp; and by as many different ones as the threshold asks for, unless the
\* same round has gone around with an entry repeated by hand: `sign` refuses a second
\* entry of a key, and a co-signer keeps the round.
ThresholdMeansPeople ==
    \A l \in Announcements, t \in TrustFiles :
        VerifyThreshold(t, l) =>
            /\ People(t, l) # {}
            /\ \/ Cardinality(People(t, l)) >= EffectiveThreshold(t)
               \/ Repeated(SigningMessage(l))

\* "Threshold met - ready to publish" counts entries and verifies none. When all
\* of them are by trusted keys, what it says is so, in a round that only the tools have
\* written: no entry is ever made void by a later signer.
ReadyIsAccepted ==
    \A l \in Announcements, t \in TrustFiles :
        /\ Len(l.signatures) >= EffectiveThreshold(t)
        /\ \A i \in DOMAIN l.signatures : l.signatures[i].signer \in t.signers
        /\ ~Handled(SigningMessage(l))
        => VerifyThreshold(t, l)

\* A relay that refuses the event does not keep it from the others: as far as the
\* loop has come, every relay that is up has it, unless one used up the time.
ReachesAllUp ==
    \A s \in Signers : pub[s] # Idle /\ pub[s].inTime =>
        \A r \in Relays : r < pub[s].next /\ relayIs[r] = "up" =>
                              pub[s].l \in relayed[r]

\* "Mixed CF/non-CF set so update broadcasts don't depend on any single CDN's
\* availability" (publishRelays): with all relays up but one, one accepts it.
SurvivesOneRelay ==
    Cardinality({r \in Relays : relayIs[r] # "up"}) <= 1 => ~failed
=============================================================================
