----------------------------- MODULE MCNetwork -----------------------------
(***************************************************************************)
(* Network for TLC: two signers of whom mirrors and browsers ask for both.    *)
(***************************************************************************)
EXTENDS Network

CONSTANTS s1, s2, A, B, C

First(sigs) == [cid |-> A, version |-> 1, timestamp |-> 0,
                signatures |-> sigs, legacy |-> <<>>]

MCFirstFiles == {First(<<[signer |-> s1, msg |-> <<A, 1, 0>>]>>)}
\* What is on the relays: a round of s1 alone, with the entry twice.
MCStrays     == {<<<<B, 2, 0>>, <<<<s1, <<B, 2, 0>>>>, <<s1, <<B, 2, 0>>>>>>>>}
Both         == [threshold |-> 2, signers |-> {s1, s2}]
MCTrustFiles == {Both}
MCPageOf     == [c \in CIDs |-> c]

\* A bound: relays that refuse or hang are left to MCPublisher.
RelaysUp     == \A r \in Relays : relayIs[r] = "up"

\* Bounds: nobody's file is torn, s2 has no part in the first round, and of the rounds
\* that compete s1 starts the one about B and s2 the one about C.
Roles ==
    /\ NoFile \notin {file[s] : s \in Signers} /\ <<s2, <<A, 1, 0>>>> \notin made
    /\ \A s \in Signers : AllSigs(file[s])[1].signer = IF file[s].cid = C THEN s2 ELSE s1
=============================================================================
