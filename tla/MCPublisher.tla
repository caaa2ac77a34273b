---------------------------- MODULE MCPublisher ----------------------------
(***************************************************************************)
(* Publisher for TLC: two signers, with a latest.json of the current and one *)
(* of the legacy format, and mirrors that ask for one or for both of them.    *)
(***************************************************************************)
EXTENDS Publisher

CONSTANTS s1, s2, A, B

First(sigs, legacy) == [cid |-> A, version |-> 1, timestamp |-> 0,
                        signatures |-> sigs, legacy |-> legacy]
ByS1 == <<[signer |-> s1, msg |-> <<A, 1, 0>>]>>

\* The first round with its entry twice, and with one of s2 from another round.
MCStrays ==
    {<<<<A, 1, 0>>, <<<<s1, <<A, 1, 0>>>>, <<s1, <<A, 1, 0>>>>, <<s2, <<A, 1, 1>>>>>>>>}

MCFirstFiles == {First(ByS1, <<>>), First(<<>>, ByS1)}
MCTrustFiles == {[threshold |-> n, signers |-> S] : n \in {0, 2}, S \in {{s1, s2}, {s2}}}
=============================================================================
