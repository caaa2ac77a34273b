---------------------------- MODULE MCRelayConn ----------------------------
(***************************************************************************)
(* RelayConn for TLC: two callers can hold one connection each while a third *)
(* is in the pool, so three names for connections are enough for them.       *)
(***************************************************************************)
EXTENDS RelayConn
=============================================================================
