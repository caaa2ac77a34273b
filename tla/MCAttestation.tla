--------------------------- MODULE MCAttestation ---------------------------
(***************************************************************************)
(* Attestation for TLC: two mirrors and one relay that both use; the first    *)
(* has a relay of its own before it, the second a clock that runs ahead.      *)
(***************************************************************************)
EXTENDS Attestation

CONSTANTS m1, m2, r1, r2

MCRelaysOf == [m \in Mirrors |-> IF m = m1 THEN <<r1, r2>> ELSE <<r2>>]
MCSkew     == [m \in Mirrors |-> IF m = m2 THEN 1 ELSE 0]
MCMaxKeys  == [m \in Mirrors |-> IF m = m1 THEN 2 ELSE 1]

\* A bound on what a start finds: a state file that it may fail to read and another
\* start reads. To others a mirror with the key it had is as before, and one that has
\* lost its file is like one that does not get to read it any more.
Returns == \A m \in Mirrors : IF used[m] = 1 THEN file[m] = 0 ELSE file[m] = 1
=============================================================================
