---------------------------- MODULE MCWsManager ----------------------------
(* WsManager for TLC: no definition tells one client from another. *)
EXTENDS WsManager, TLC

Symmetry == Permutations(Clients)
=============================================================================
