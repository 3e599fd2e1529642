------------------------------ MODULE MCAuthors ------------------------------
(* Instance of Authors for TLC. *)
EXTENDS Authors, TLC

Symmetry == Permutations(User) \cup Permutations(Request) \cup Permutations(Email)
=============================================================================
