------------------------------- MODULE Mirror -------------------------------
(***************************************************************************)
(* What a mirror promises to the network, without polls, kubo or files: it  *)
(* moves only forward, only to releases its signers signed, and a restart   *)
(* takes it back to the release it last wrote down, or to none.             *)
(***************************************************************************)
EXTENDS Integers

CONSTANTS
    Latests, SignerConfigs, NoCID,
    Signed(_, _)   \* whether enough of the given signers signed a release

None    == [cid |-> NoCID, ver |-> 0]
NoTrust == [threshold |-> 1, signers |-> {}]

VARIABLES
    up,       \* whether the mirror is running
    trust,    \* the signers it trusts in this run
    current,  \* the release it holds
    saved     \* the release it would come back to

vars == <<up, trust, current, saved>>

Init == up = FALSE /\ trust = NoTrust /\ current = None /\ saved = None

\* The mirror comes up with some deployed set of signers. It may fail to read what
\* it wrote down and start from nothing, which leaves that as it was.
ComeUp ==
    /\ ~up
    /\ up' = TRUE /\ trust' \in SignerConfigs \cup {NoTrust}
    /\ current' \in {saved, None}
    /\ UNCHANGED saved

GoDown ==
    /\ up
    /\ up' = FALSE /\ trust' = NoTrust /\ current' = None
    /\ UNCHANGED saved

\* The only way to another release: newer, and signed.
Adopt(l) ==
    /\ up /\ trust.signers # {} /\ Signed(trust, l)
    /\ l.cid # current.cid /\ (l.version > current.ver \/ current.ver = 0)
    /\ current' = [cid |-> l.cid, ver |-> l.version]
    /\ UNCHANGED <<up, trust, saved>>

\* Writing the release down, which first erases what was written.
Forget == up /\ saved' = None /\ UNCHANGED <<up, trust, current>>
Save   == up /\ saved' = current /\ UNCHANGED <<up, trust, current>>

Next == ComeUp \/ GoDown \/ (\E l \in Latests : Adopt(l)) \/ Forget \/ Save

Spec == Init /\ [][Next]_vars
=============================================================================
