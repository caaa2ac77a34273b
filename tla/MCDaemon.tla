------------------------------ MODULE MCDaemon ------------------------------
(***************************************************************************)
(* Instances of Daemon for TLC: three signers of which two must sign, a     *)
(* second trusted-signers.json that revokes one of them, and a history in   *)
(* which the site is rolled back: A is released, then B, then A again.      *)
(***************************************************************************)
EXTENDS Daemon, TLC

CONSTANTS s1, s2, s3, A, B

Signed(c, v, signers) ==
    LET t == [cid |-> c, version |-> v, timestamp |-> v]
    IN  [cid |-> c, version |-> v, timestamp |-> v, legacy |-> <<>>,
         signatures |-> [i \in DOMAIN signers |->
             [signer |-> signers[i], msg |-> SigningMessage(t)]]]

A1 == Signed(A, 1, <<s1, s2>>)
B2 == Signed(B, 2, <<s2, s3>>)
A3 == Signed(A, 3, <<s1, s2>>)

TwoOfThree == [threshold |-> 2, signers |-> {s1, s2, s3}]
Revoked3   == [threshold |-> 2, signers |-> {s1, s2}]

MCLatests  == {A1, B2, A3}
MCFiles    == {TwoOfThree, Revoked3}

\* Two versions and no revocation, for the runs about liveness.
TwoLatests == {A1, B2}
OneFile    == {TwoOfThree}

\* A newer announcement that `publisher publish` sent with one signature of two.
HalfSigned  == {A1, Signed(B, 2, <<s3>>)}

Goroutines == Permutations(Polls)

\* Only the heartbeats read hb and advert: a run whose properties name neither may
\* identify states that differ in nothing else.
PollView == <<sourceVars, procVars, pollVars, mem, disk, pins, served>>

\* A bound: relays have one announcement at a time, of all that come and go. A poll is
\* answered with one or none.
OneAnnounced == Cardinality(events) <= 1
=============================================================================
