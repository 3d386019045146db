----------------------------- MODULE MCPipeline -----------------------------
(* Handed for TLC: no definition tells one flow from another. *)
EXTENDS Handed, TLC

Symmetry == Permutations(Flows)
=============================================================================
