---------------------------- MODULE MCRepository ----------------------------
(* Repository for TLC: no definition tells one flow from another. *)
EXTENDS Repository, TLC

Symmetry == Permutations(Flows)
=============================================================================
