----------------------------- MODULE MCPostCache -----------------------------
(* Instance of PostCache for TLC. *)
EXTENDS PostCache, TLC

Symmetry == Permutations(Request)
=============================================================================
