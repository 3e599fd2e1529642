------------------------------ MODULE MCRollout ------------------------------
(* Instance of Rollout for TLC; symmetry only where no liveness is checked. *)
EXTENDS Rollout, TLC

Symmetry == Permutations(Release)
=============================================================================
