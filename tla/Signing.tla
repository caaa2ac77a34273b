------------------------------ MODULE Signing ------------------------------
(***************************************************************************)
(* A release announcement ("Latest") and its M-of-N signature rule, shared  *)
(* by the publisher, the mirror daemon and the site's verify.js.            *)
(*                                                                          *)
(* A Latest is a record with the fields                                     *)
(*   cid, version, timestamp   what is announced                            *)
(*   signatures                the multi-signature array, a sequence        *)
(*   legacy                    the v1 signer/signature pair: <<>> or <<sig>> *)
(* and a signature names its signer and the message it was made over, so    *)
(* that it is valid exactly when that message is the record's own.          *)
(***************************************************************************)
EXTENDS Integers, Sequences, FiniteSets

\* What a signer signs: the hash of cid, version and timestamp.
SigningMessage(l) == <<l.cid, l.version, l.timestamp>>

\* The array when it is not empty, else the legacy pair, else nothing.
AllSigs(l) == IF l.signatures # <<>> THEN l.signatures ELSE l.legacy

\* A trusted-signers.json whose threshold is missing or not positive asks for 1.
EffectiveThreshold(ts) == IF ts.threshold <= 0 THEN 1 ELSE ts.threshold

\* The ENTRIES (not the signers) that carry a trusted key and a good signature.
ValidEntries(ts, l) ==
    {i \in DOMAIN AllSigs(l) : /\ AllSigs(l)[i].signer \in ts.signers
                               /\ AllSigs(l)[i].msg = SigningMessage(l)}

VerifyThreshold(ts, l) ==
    Cardinality(ValidEntries(ts, l)) >= EffectiveThreshold(ts)
=============================================================================
