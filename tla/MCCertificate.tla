----------------------------- MODULE MCCertificate -----------------------------
(* Certificate with the periods of the code, in units of 6 hours. *)
EXTENDS Certificate
=============================================================================
