-------------------------------- MODULE MCChat --------------------------------
(* Instance of Chat for TLC: no symmetry, which TLC cannot use for liveness. *)
EXTENDS Chat, TLC
=============================================================================
