------------------------------- MODULE MCPublish -------------------------------
(* Instance of Publish for TLC. *)
EXTENDS Publish, TLC

Symmetry ==
    Permutations(Commit) \cup Permutations(Tag) \cup Permutations(Run) \cup Permutations(BuildId)
=============================================================================
