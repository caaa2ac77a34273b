-------------------------- MODULE PublisherProofs --------------------------
(***************************************************************************)
(* What a threshold of entries is worth: for any signers, releases, relays   *)
(* and trusted-signers.json, any way of passing latest.json around, and any   *)
(* announcements that no tool wrote.                                          *)
(***************************************************************************)
EXTENDS Publisher, FiniteSetTheorems, TLAPS

\* An entry over what l says was made by its key.
Genuine(l, m) ==
    \A i \in DOMAIN AllSigs(l) :
        AllSigs(l)[i].msg = SigningMessage(l) => <<AllSigs(l)[i].signer, SigningMessage(l)>> \in m

\* A key has one entry, or one of k repeats an entry in the same round.
Single(l, k) ==
    \/ \E x \in k : SigningMessage(x) = SigningMessage(l) /\ Repeats(x)
    \/ ~Repeats(l)

\* Every entry is over what l says, or one of k is in the same round.
Plain(l, k) ==
    \/ \E x \in k : SigningMessage(x) = SigningMessage(l)
    \/ \A i \in DOMAIN AllSigs(l) : AllSigs(l)[i].msg = SigningMessage(l)

Coherent(l, m, k) == Genuine(l, m) /\ Single(l, k) /\ Plain(l, k)

FilesCoherent == \A s \in Signers : file[s] # NoFile => Coherent(file[s], made, strays)
PubCoherent == \A s \in Signers : pub[s] # Idle => Coherent(pub[s].l, made, strays)
RelayedCoherent == \A r \in Relays : \A l \in relayed[r] : Coherent(l, made, strays)
StraysCoherent == \A l \in strays : Coherent(l, made, strays)

\* The inductive invariant: threshold checks count entries, so what must be kept
\* is that entries stay tied to their signers, wherever an announcement is, and
\* that what no tool writes shows in the round that it is in.
IInv == TypeOK /\ FilesCoherent /\ PubCoherent /\ RelayedCoherent /\ StraysCoherent

\* What an announcement says is a message.
LEMMA LatestMessage == ASSUME NEW l \in Latest PROVE SigningMessage(l) \in Message
BY DEF Latest, SigningMessage, Message

\* Without its legacy signature, or without any, an announcement stays coherent.
LEMMA FewerCoherent ==
    ASSUME NEW l, NEW n, NEW m, NEW k, Coherent(l, m, k),
           SigningMessage(n) = SigningMessage(l),
           AllSigs(n) = AllSigs(l) \/ AllSigs(n) = <<>>
    PROVE  Coherent(n, m, k)
<1>1. CASE AllSigs(n) = AllSigs(l)
    BY <1>1 DEF Coherent, Genuine, Single, Plain, Repeats
<1>2. CASE AllSigs(n) = <<>>
    BY <1>2 DEF Coherent, Genuine, Single, Plain, Repeats
<1> QED
    BY <1>1, <1>2

\* A round that is fresh, or that is taken up again without a legacy signature.
LEMMA RoundFacts ==
    ASSUME TypeOK, FilesCoherent, NEW s \in Signers, NEW c \in CIDs, NEW v \in Flags
    PROVE  /\ Round(s, c, v) \in Latest
           /\ Round(s, c, v).legacy = <<>>
           /\ Coherent(Round(s, c, v), made, strays)
<1> DEFINE r == Round(s, c, v)
<1>1. CASE file[s] # NoFile /\ file[s].cid = c
    <2>1. file[s] \in Latest /\ Coherent(file[s], made, strays)
        BY <1>1 DEF TypeOK, FilesCoherent
    <2>2. r = [file[s] EXCEPT !.legacy = <<>>]
        BY <1>1 DEF Round
    <2>0. <<>> \in Seq(Entry) /\ Len(<<>>) = 0
        OBVIOUS
    <2>3. /\ r \in Latest /\ r.legacy = <<>> /\ r.signatures = file[s].signatures
          /\ SigningMessage(r) = SigningMessage(file[s])
        <3>1. <<>> \in {q \in Seq(Entry) : Len(q) <= 1}
            BY <2>0
        <3> QED
            BY <2>1, <2>2, <3>1 DEF Latest, SigningMessage
    <2>4. AllSigs(r) = AllSigs(file[s]) \/ AllSigs(r) = <<>>
        BY <2>3 DEF AllSigs
    <2> QED
        BY <2>1, <2>3, <2>4, FewerCoherent
<1>2. CASE ~(file[s] # NoFile /\ file[s].cid = c)
    <2>1. file[s] # NoFile => file[s].version \in Nat
        BY DEF TypeOK, Latest
    <2>2. r = [cid |-> c, timestamp |-> clock, signatures |-> <<>>, legacy |-> <<>>,
               version |-> IF v > 0 THEN v
                           ELSE IF file[s] # NoFile THEN file[s].version + 1 ELSE 1]
        BY <1>2 DEF Round
    <2>3. clock \in Nat /\ v \in Nat
        BY BoundsAssumption DEF TypeOK
    <2>4. <<>> \in Seq(Entry) /\ Len(<<>>) = 0
        OBVIOUS
    <2>5. r \in Latest /\ r.legacy = <<>> /\ r.signatures = <<>>
        BY <2>1, <2>2, <2>3, <2>4 DEF Latest
    <2> QED
        BY <2>5 DEF Coherent, Genuine, Single, Plain, Repeats, AllSigs
<1> QED
    BY <1>1, <1>2

\* A key that is not in the array yet may add its entry.
LEMMA AppendCoherent ==
    ASSUME NEW l \in Latest, l.legacy = <<>>, NEW m, NEW k, Coherent(l, m, k),
           NEW s \in Signers, ~SignedBy(l, s)
    PROVE  LET e == [signer |-> s, msg |-> SigningMessage(l)]
               n == [l EXCEPT !.signatures = Append(@, e)]
           IN  n \in Latest /\ Coherent(n, m \cup {<<s, SigningMessage(l)>>}, k)
<1> DEFINE e == [signer |-> s, msg |-> SigningMessage(l)]
           n == [l EXCEPT !.signatures = Append(@, e)]
           h == Len(l.signatures)
           o == m \cup {<<s, SigningMessage(l)>>}
<1>1. e \in Entry
    BY LatestMessage DEF Entry
<1>2. l.signatures \in Seq(Entry)
    BY DEF Latest
<1>3. /\ n.signatures = Append(l.signatures, e) /\ n.signatures \in Seq(Entry)
      /\ SigningMessage(n) = SigningMessage(l)
    BY <1>1, <1>2 DEF Latest, SigningMessage
<1>4. n \in Latest
    BY <1>3 DEF Latest
<1>5. /\ DOMAIN n.signatures = 1..(h + 1) /\ h \in Nat
      /\ n.signatures[h + 1] = e
      /\ \A i \in 1..h : n.signatures[i] = l.signatures[i]
      /\ DOMAIN l.signatures = 1..h
    BY <1>1, <1>2, <1>3
<1>6. AllSigs(n) = n.signatures
    <2>1. DOMAIN <<>> = {}
        OBVIOUS
    <2>2. 1 \in DOMAIN n.signatures
        BY <1>5
    <2>3. n.signatures # <<>>
        BY <2>1, <2>2
    <2> QED
        BY <2>3 DEF AllSigs
<1>7. AllSigs(l) = l.signatures
    BY DEF AllSigs
<1>8. \A i \in 1..h : l.signatures[i].signer # s
    BY <1>5 DEF SignedBy
<1>9. e.signer = s /\ e.msg = SigningMessage(l)
    OBVIOUS
<1> HIDE DEF n, e, h
<1>10. Genuine(n, o)
    <2>1. ASSUME NEW i \in 1..(h + 1), n.signatures[i].msg = SigningMessage(n)
          PROVE  <<n.signatures[i].signer, SigningMessage(n)>> \in o
        <3>1. CASE i = h + 1
            BY <3>1, <1>3, <1>5, <1>9
        <3>2. CASE i \in 1..h
            BY <3>2, <2>1, <1>3, <1>5, <1>7 DEF Coherent, Genuine
        <3> QED
            BY <3>1, <3>2, <1>5
    <2> QED
        BY <2>1, <1>5, <1>6 DEF Genuine
<1>11. Single(n, k)
    <2>1. CASE \E x \in k : SigningMessage(x) = SigningMessage(l) /\ Repeats(x)
        BY <2>1, <1>3 DEF Single
    <2>2. CASE ~Repeats(l)
        <3>1. \A i, j \in 1..h :
                  l.signatures[i].signer = l.signatures[j].signer => i = j
            BY <2>2, <1>5, <1>7 DEF Repeats
        <3>2. \A i, j \in 1..(h + 1) :
                  n.signatures[i].signer = n.signatures[j].signer => i = j
            <4>1. \A i \in 1..(h + 1) : i = h + 1 \/ i \in 1..h
                BY <1>5
            <4> QED
                BY <4>1, <3>1, <1>5, <1>8, <1>9
        <3>3. ~Repeats(n)
            BY <3>2, <1>5, <1>6 DEF Repeats
        <3> QED
            BY <3>3 DEF Single
    <2> QED
        BY <2>1, <2>2 DEF Coherent, Single
<1>12. Plain(n, k)
    <2>1. CASE \E x \in k : SigningMessage(x) = SigningMessage(l)
        BY <2>1, <1>3 DEF Plain
    <2>2. CASE \A i \in 1..h : l.signatures[i].msg = SigningMessage(l)
        <3>1. \A i \in 1..(h + 1) : i = h + 1 \/ i \in 1..h
            BY <1>5
        <3> QED
            BY <3>1, <2>2, <1>3, <1>5, <1>6, <1>9 DEF Plain
    <2> QED
        BY <2>1, <2>2, <1>5, <1>7 DEF Coherent, Plain
<1>13. Coherent(n, o, k)
    BY <1>10, <1>11, <1>12 DEF Coherent
<1> QED
    BY <1>4, <1>13 DEF n, e, o

\* More signatures made, and more of what no tool writes, leave what is coherent
\* coherent.
LEMMA CoherentMonotone ==
    ASSUME NEW l, NEW m, NEW n, m \subseteq n, NEW k, NEW j, k \subseteq j,
           Coherent(l, m, k)
    PROVE  Coherent(l, n, j)
<1>1. Genuine(l, n)
    BY DEF Coherent, Genuine
<1>2. Single(l, j) /\ Plain(l, j)
    BY DEF Coherent, Single, Plain
<1> QED
    BY <1>1, <1>2 DEF Coherent

\* Entries of a coherent announcement that count are by different people, unless
\* its round has an entry repeated.
LEMMA EntriesArePeople ==
    ASSUME TypeOK, NEW l, Coherent(l, made, strays), ~Repeated(SigningMessage(l)), NEW t
    PROVE  /\ Cardinality(ValidEntries(t, l)) <= Cardinality(People(t, l))
           /\ Cardinality(ValidEntries(t, l)) \in Nat
           /\ Cardinality(People(t, l)) \in Nat
<1> DEFINE f == [i \in ValidEntries(t, l) |-> AllSigs(l)[i].signer]
<1>1. People(t, l) \in SUBSET Signers
    BY DEF People, TypeOK
<1>2. IsFiniteSet(People(t, l))
    BY <1>1, SignersAssumption, FS_Subset
<1>3. \A i \in ValidEntries(t, l) :
          /\ i \in DOMAIN AllSigs(l)
          /\ AllSigs(l)[i].signer \in People(t, l)
    BY DEF ValidEntries, People, Coherent, Genuine
<1>4. f \in [ValidEntries(t, l) -> People(t, l)]
    BY <1>3
<1>5. ~Repeats(l)
    BY DEF Coherent, Single, Repeated
<1>6. \A i, j \in ValidEntries(t, l) : f[i] = f[j] => i = j
    BY <1>3, <1>5 DEF Repeats
<1>7. f \in Injection(ValidEntries(t, l), People(t, l))
    BY <1>4, <1>6 DEF Injection, IsInjective
<1>8. /\ IsFiniteSet(ValidEntries(t, l))
      /\ Cardinality(ValidEntries(t, l)) <= Cardinality(People(t, l))
    BY <1>2, <1>7, FS_Injection
<1> QED
    BY <1>2, <1>8, FS_CardinalityType

\* Wherever an announcement is, it is coherent.
LEMMA AllCoherent ==
    ASSUME IInv, NEW l \in Announcements
    PROVE  TypeOK /\ l \in Latest /\ Coherent(l, made, strays)
<1>1. CASE l \in strays
    BY <1>1 DEF IInv, TypeOK, StraysCoherent
<1>2. CASE \E s \in Signers : file[s] # NoFile /\ l = file[s]
    BY <1>2 DEF IInv, TypeOK, FilesCoherent
<1>3. CASE \E s \in Signers : pub[s] # Idle /\ l = pub[s].l
    BY <1>3 DEF IInv, TypeOK, PubCoherent, Broadcasts
<1>4. CASE \E r \in Relays : l \in relayed[r]
    BY <1>4 DEF IInv, TypeOK, RelayedCoherent
<1> QED
    BY <1>1, <1>2, <1>3, <1>4 DEF Announcements

\* What the relations between entries and signers are worth.
LEMMA CoherentEnough == IInv => ThresholdMeansPeople
<1> SUFFICES ASSUME IInv, NEW l \in Announcements, NEW t \in TrustFiles,
                    VerifyThreshold(t, l)
             PROVE  /\ People(t, l) # {}
                    /\ \/ Cardinality(People(t, l)) >= EffectiveThreshold(t)
                       \/ Repeated(SigningMessage(l))
    BY DEF ThresholdMeansPeople
<1>1. TypeOK /\ Coherent(l, made, strays)
    BY AllCoherent
<1>2. EffectiveThreshold(t) \in Int /\ EffectiveThreshold(t) >= 1
    BY TrustFilesAssumption DEF EffectiveThreshold
<1>3. Cardinality(ValidEntries(t, l)) >= EffectiveThreshold(t)
    BY DEF VerifyThreshold
<1>4. People(t, l) # {}
    <2>1. ValidEntries(t, l) # {}
        BY <1>2, <1>3, FS_EmptySet
    <2> QED
        BY <1>1, <2>1 DEF ValidEntries, People, Coherent, Genuine
<1>5. CASE ~Repeated(SigningMessage(l))
    <2>1. /\ Cardinality(ValidEntries(t, l)) <= Cardinality(People(t, l))
          /\ Cardinality(ValidEntries(t, l)) \in Nat /\ Cardinality(People(t, l)) \in Nat
        BY <1>1, <1>5, EntriesArePeople
    <2> QED
        BY <1>2, <1>3, <1>4, <2>1
<1> QED
    BY <1>4, <1>5

\* The same relations, the other way: an entry by a trusted key counts.
LEMMA CoherentReady == IInv => ReadyIsAccepted
<1> SUFFICES ASSUME IInv, NEW l \in Announcements, NEW t \in TrustFiles,
                    Len(l.signatures) >= EffectiveThreshold(t),
                    \A i \in DOMAIN l.signatures : l.signatures[i].signer \in t.signers,
                    ~Handled(SigningMessage(l))
             PROVE  VerifyThreshold(t, l)
    BY DEF ReadyIsAccepted
<1>1. Coherent(l, made, strays) /\ l \in Latest
    BY AllCoherent
<1>2. EffectiveThreshold(t) \in Int /\ EffectiveThreshold(t) >= 1
    BY TrustFilesAssumption DEF EffectiveThreshold
<1>3. /\ l.signatures \in Seq(Entry) /\ Len(l.signatures) \in Nat
      /\ DOMAIN l.signatures = 1..Len(l.signatures)
    BY <1>1 DEF Latest
<1>4. AllSigs(l) = l.signatures
    <2>1. 1 \in DOMAIN l.signatures /\ DOMAIN <<>> = {}
        BY <1>2, <1>3
    <2>2. l.signatures # <<>>
        BY <2>1
    <2> QED
        BY <2>2 DEF AllSigs
<1>5. ValidEntries(t, l) = 1..Len(l.signatures)
    BY <1>1, <1>3, <1>4 DEF ValidEntries, Coherent, Plain, Handled
<1>6. Cardinality(ValidEntries(t, l)) = Len(l.signatures)
    BY <1>3, <1>5, FS_Interval
<1> QED
    BY <1>6 DEF VerifyThreshold

\* The signature that `publisher sign` adds leaves its file coherent.
LEMMA SignStep ==
    ASSUME IInv, NEW s \in Signers, NEW c \in CIDs, NEW v \in Flags, Sign(s, c, v)
    PROVE  IInv'
<1> DEFINE r == Round(s, c, v)
           n == [r EXCEPT !.signatures =
                    Append(@, [signer |-> s, msg |-> SigningMessage(r)])]
           m == made \cup {<<s, SigningMessage(r)>>}
<1>1. r \in Latest /\ r.legacy = <<>> /\ Coherent(r, made, strays)
    BY RoundFacts DEF IInv
<1>2. ~SignedBy(r, s)
    BY DEF Sign
<1>3. n \in Latest /\ Coherent(n, m, strays)
    BY <1>1, <1>2, AppendCoherent
<1>4. /\ file' = [file EXCEPT ![s] = n] /\ made' = m
      /\ UNCHANGED <<clock, strays, pubVars>>
    BY DEF Sign, SignLatest
<1>5. <<s, SigningMessage(r)>> \in Signers \X Message
    BY <1>1, LatestMessage
<1> HIDE DEF r, n, m
<1>6. made \subseteq made'
    BY <1>4 DEF m
<1>7. TypeOK'
    BY <1>3, <1>4, <1>5 DEF IInv, TypeOK, pubVars, m
<1>8. \A l : Coherent(l, made, strays) => Coherent(l, made', strays')
    BY <1>4, <1>6, CoherentMonotone
<1>9. FilesCoherent'
    BY <1>3, <1>4, <1>8 DEF IInv, TypeOK, FilesCoherent
<1>10. PubCoherent' /\ RelayedCoherent' /\ StraysCoherent'
    BY <1>4, <1>8 DEF IInv, PubCoherent, RelayedCoherent, StraysCoherent, pubVars
<1> QED
    BY <1>7, <1>9, <1>10 DEF IInv

\* What no tool writes is the reason for what it lacks itself.
LEMMA CirculateStep ==
    ASSUME IInv, NEW x \in Strays, Circulate(x)
    PROVE  IInv'
<1> DEFINE l == Written(x)
<1>1. x[1] \in Message /\ x[2] \in Seq(Signers \X Message)
    BY StraysAssumption
<1>2. /\ DOMAIN x[2] = 1..Len(x[2]) /\ Len(x[2]) \in Nat
      /\ \A i \in DOMAIN x[2] : x[2][i] \in Signers \X Message
    BY <1>1
<1>3. x[1] = <<x[1][1], x[1][2], x[1][3]>>
      /\ x[1][1] \in CIDs /\ x[1][2] \in Nat /\ x[1][3] \in Nat
    BY <1>1 DEF Message
<1>4. ASSUME NEW i \in DOMAIN x[2]
      PROVE  /\ x[2][i] = <<x[2][i][1], x[2][i][2]>>
             /\ [signer |-> x[2][i][1], msg |-> x[2][i][2]] \in Entry
    BY <1>2 DEF Entry
<1>5. l.signatures \in Seq(Entry)
    <2>1. l.signatures \in [1..Len(x[2]) -> Entry]
        BY <1>2, <1>4 DEF Written
    <2> QED
        BY <1>2, <2>1
<1>6. l.legacy \in {q \in Seq(Entry) : Len(q) <= 1}
    <2>1. <<>> \in Seq(Entry) /\ Len(<<>>) = 0
        OBVIOUS
    <2> QED
        BY <2>1 DEF Written
<1>7. l \in Latest
    BY <1>3, <1>5, <1>6 DEF Written, Latest
<1>8. SigningMessage(l) = x[1]
    BY <1>3 DEF Written, SigningMessage
<1>9. Genuine(l, made)
    <2>1. AllSigs(l) = l.signatures
        BY DEF AllSigs, Written
    <2>2. \A i \in DOMAIN x[2] : /\ l.signatures[i].signer = x[2][i][1]
                                 /\ l.signatures[i].msg = x[2][i][2]
        BY DEF Written
    <2>3. DOMAIN l.signatures = DOMAIN x[2]
        BY DEF Written
    <2>4. \A i \in DOMAIN x[2] : x[2][i][2] = x[1] => x[2][i] \in made
        BY DEF Circulate, Unforged
    <2> HIDE DEF l
    <2>5. ASSUME NEW i \in DOMAIN x[2], l.signatures[i].msg = x[1]
          PROVE  <<l.signatures[i].signer, x[1]>> \in made
        <3>1. x[2][i][2] = x[1] /\ x[2][i] \in made
            BY <2>2, <2>4, <2>5
        <3>2. x[2][i] = <<x[2][i][1], x[1]>>
            BY <1>4, <3>1
        <3> QED
            BY <2>2, <3>1, <3>2
    <2> QED
        BY <1>8, <2>1, <2>3, <2>5 DEF Genuine
<1>10. strays' = strays \cup {l} /\ UNCHANGED <<file, clock, made, pubVars>>
    BY DEF Circulate
<1> HIDE DEF l
<1>11. Coherent(l, made', strays')
    BY <1>9, <1>10 DEF Coherent, Single, Plain
<1>12. \A n : Coherent(n, made, strays) => Coherent(n, made', strays')
    BY <1>10, CoherentMonotone
<1>13. TypeOK'
    BY <1>7, <1>10 DEF IInv, TypeOK, pubVars
<1>14. FilesCoherent' /\ PubCoherent' /\ RelayedCoherent' /\ StraysCoherent'
    BY <1>10, <1>11, <1>12
    DEF IInv, FilesCoherent, PubCoherent, RelayedCoherent, StraysCoherent, pubVars
<1> QED
    BY <1>13, <1>14 DEF IInv

\* No other command makes an announcement: it passes one on, or drops it.
LEMMA OtherSteps ==
    ASSUME IInv, [Next]_vars,
           ~ \E s \in Signers, c \in CIDs, v \in Flags : Sign(s, c, v),
           ~ \E x \in Strays : Circulate(x)
    PROVE  IInv'
<1> USE BoundsAssumption
    DEF IInv, TypeOK, FilesCoherent, PubCoherent, RelayedCoherent, StraysCoherent
<1>1. CASE UNCHANGED vars
    BY <1>1 DEF vars, fileVars, pubVars
<1>2. CASE Tick
    BY <1>2 DEF Tick, pubVars
<1>3. ASSUME NEW s \in Signers, WriteTorn(s) PROVE IInv'
    BY <1>3 DEF WriteTorn, pubVars
<1>4. ASSUME NEW s \in Signers, NEW t \in Signers, Share(s, t) PROVE IInv'
    BY <1>4 DEF Share, pubVars
<1>5. ASSUME NEW s \in Signers, Publish(s) PROVE IInv'
    <2>1. file[s] \in Latest /\ Coherent(file[s], made, strays)
        BY <1>5 DEF Publish
    <2>2. [l |-> file[s], next |-> 1, inTime |-> TRUE, ok |-> FALSE] \in Broadcasts
        BY <2>1 DEF Broadcasts
    <2> QED
        BY <1>5, <2>1, <2>2 DEF Publish, fileVars
<1>6. ASSUME NEW s \in Signers, PublishDies(s) PROVE IInv'
    BY <1>6 DEF PublishDies, fileVars
<1>7. ASSUME NEW s \in Signers, PublishEnds(s) PROVE IInv'
    BY <1>7 DEF PublishEnds, fileVars
<1>8. ASSUME NEW s \in Signers, NEW r \in Relays, Accepts(s, r) PROVE IInv'
    <2>1. pub[s] \in Broadcasts /\ r + 1 \in 1..(NumRelays + 1)
        BY <1>8 DEF Accepts, Trying, Relays
    <2>2. [pub[s] EXCEPT !.next = r + 1, !.ok = TRUE] \in Broadcasts
        BY <2>1 DEF Broadcasts
    <2>3. /\ pub' = [pub EXCEPT ![s] = [pub[s] EXCEPT !.next = r + 1, !.ok = TRUE]]
          /\ relayed' = [relayed EXCEPT ![r] = @ \cup {pub[s].l}]
          /\ UNCHANGED <<fileVars, relayIs, publishes, failed>>
        BY <1>8 DEF Accepts
    <2>4. pub[s].l \in Latest /\ Coherent(pub[s].l, made, strays)
        BY <1>8, <2>1 DEF Accepts, Trying, Broadcasts
    <2>5. pub'[s].l = pub[s].l
        BY <2>1, <2>3 DEF Broadcasts
    <2> QED
        BY <2>2, <2>3, <2>4, <2>5 DEF fileVars
<1>9. ASSUME NEW s \in Signers, NEW r \in Relays, Refuses(s, r) \/ Hangs(s, r)
      PROVE  IInv'
    <2>1. pub[s] \in Broadcasts /\ r + 1 \in 1..(NumRelays + 1)
        BY <1>9 DEF Refuses, Hangs, Trying, Relays
    <2>2. PICK b \in Broadcasts :
              /\ b.l = pub[s].l /\ pub' = [pub EXCEPT ![s] = b]
              /\ UNCHANGED <<fileVars, relayIs, relayed, publishes, failed>>
        BY <1>9, <2>1 DEF Refuses, Hangs, Broadcasts
    <2> QED
        BY <1>9, <2>2 DEF fileVars, Refuses, Hangs, Trying
<1>10. ASSUME NEW s \in Signers, TooLate(s) PROVE IInv'
    <2>1. pub[s] \in Broadcasts /\ pub[s].next + 1 \in 1..(NumRelays + 1)
        BY <1>10 DEF TooLate, Broadcasts
    <2>2. PICK b \in Broadcasts :
              /\ b.l = pub[s].l /\ pub' = [pub EXCEPT ![s] = b]
              /\ UNCHANGED <<fileVars, relayIs, relayed, publishes, failed>>
        BY <1>10, <2>1 DEF TooLate, Broadcasts
    <2> QED
        BY <1>10, <2>2 DEF fileVars, TooLate
<1>11. ASSUME NEW s \in Signers, NEW l \in strays, Take(s, l) PROVE IInv'
    BY <1>11 DEF Take, pubVars
<1> QED
    BY <1>1, <1>2, <1>3, <1>4, <1>5, <1>6, <1>7, <1>8, <1>9, <1>10, <1>11 DEF Next

\* The loop over the relays skips none that is up while there is time.
LEMMA ReachesStep == TypeOK /\ ReachesAllUp /\ [Next]_vars => ReachesAllUp'
<1> SUFFICES ASSUME TypeOK, ReachesAllUp, [Next]_vars
             PROVE  ReachesAllUp'
    OBVIOUS
<1> USE BoundsAssumption DEF TypeOK, ReachesAllUp, Broadcasts
<1>1. CASE UNCHANGED <<relayIs, relayed, pub>>
    BY <1>1
<1>2. ASSUME NEW s \in Signers, Publish(s) PROVE ReachesAllUp'
    BY <1>2 DEF Publish, Relays
<1>3. ASSUME NEW s \in Signers, PublishDies(s) \/ PublishEnds(s) PROVE ReachesAllUp'
    BY <1>3 DEF PublishDies, PublishEnds
<1>4. ASSUME NEW s \in Signers, NEW r \in Relays, Accepts(s, r) PROVE ReachesAllUp'
    BY <1>4 DEF Accepts, Trying, Relays
<1>5. ASSUME NEW s \in Signers, NEW r \in Relays, Refuses(s, r) PROVE ReachesAllUp'
    BY <1>5 DEF Refuses, Trying, Relays
<1>6. ASSUME NEW s \in Signers, NEW r \in Relays, Hangs(s, r) PROVE ReachesAllUp'
    BY <1>6 DEF Hangs
<1>7. ASSUME NEW s \in Signers, TooLate(s) PROVE ReachesAllUp'
    BY <1>7 DEF TooLate
<1> QED
    BY <1>1, <1>2, <1>3, <1>4, <1>5, <1>6, <1>7
    DEF Next, Tick, Circulate, Sign, WriteTorn, Share, Take, vars, pubVars

\* The file everyone starts from carries one signature, over what it says.
LEMMA InitIInv == Init => IInv
<1> SUFFICES ASSUME Init PROVE IInv
    OBVIOUS
<1>1. PICK f \in FirstFiles :
          /\ file = [s \in Signers |-> f]
          /\ made = {<<AllSigs(f)[1].signer, AllSigs(f)[1].msg>>}
    BY DEF Init
<1>2. /\ f \in Latest /\ Len(AllSigs(f)) = 1
      /\ AllSigs(f)[1].msg = SigningMessage(f)
    BY FirstFilesAssumption
<1>3. AllSigs(f) \in Seq(Entry)
    BY <1>2 DEF Latest, AllSigs
<1>4. DOMAIN AllSigs(f) = {1} /\ AllSigs(f)[1] \in Entry
    BY <1>2, <1>3
<1>5. Coherent(f, made, strays)
    BY <1>1, <1>2, <1>4 DEF Coherent, Genuine, Single, Plain, Repeats
<1>6. made \subseteq Signers \X Message
    BY <1>1, <1>4 DEF Entry
<1>7. TypeOK
    <2>1. file \in [Signers -> Latest \cup {NoFile}]
        BY <1>1, <1>2
    <2>2. clock \in 0..MaxTime /\ publishes \in 0..MaxPublishes
        BY BoundsAssumption DEF Init
    <2>3. relayed \in [Relays -> SUBSET Latest]
        BY DEF Init
    <2> QED
        BY <1>6, <2>1, <2>2, <2>3 DEF Init, TypeOK
<1>8. FilesCoherent /\ PubCoherent /\ RelayedCoherent /\ StraysCoherent
    BY <1>1, <1>5 DEF Init, FilesCoherent, PubCoherent, RelayedCoherent, StraysCoherent
<1> QED
    BY <1>7, <1>8 DEF IInv

\* IInv holds initially and is preserved, so it always holds.
LEMMA PublisherInvariant == Spec => []IInv
<1>1. IInv /\ [Next]_vars => IInv'
    BY SignStep, CirculateStep, OtherSteps
<1> QED
    BY <1>1, InitIInv, PTL DEF Spec

\* Files, broadcasts and relays keep their types.
THEOREM PublisherTypeCorrect == Spec => []TypeOK
BY PublisherInvariant, PTL DEF IInv

\* An announcement that meets a threshold, whoever wrote it, was signed as it stands by
\* a trusted signer, and by as many different ones as the threshold asks for unless its
\* round has gone around with an entry repeated.
THEOREM PublisherThresholdMeansPeople == Spec => []ThresholdMeansPeople
BY PublisherInvariant, CoherentEnough, PTL

\* A file that `sign` calls ready, with entries by trusted keys only and in a round
\* that only the tools have written, is accepted.
THEOREM PublisherReadyIsAccepted == Spec => []ReadyIsAccepted
BY PublisherInvariant, CoherentReady, PTL

\* No relay that is up is skipped because another one refused the event.
THEOREM PublisherReachesAllUp == Spec => []ReachesAllUp
<1>1. Init => ReachesAllUp
    BY DEF Init, ReachesAllUp
<1> QED
    BY <1>1, PublisherTypeCorrect, ReachesStep, PTL DEF Spec
=============================================================================
