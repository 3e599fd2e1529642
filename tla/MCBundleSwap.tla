---------------------------- MODULE MCBundleSwap ----------------------------
(* Instance of BundleSwap for TLC: a bundle of three files that stand for  *)
(* the six, compose.prod.yaml first, check-deploy.sh last, and between     *)
(* them one of the files a legacy bundle does not have.                    *)
EXTENDS BundleSwap, TLC

CONSTANTS compose, template, check

InstallOrder == << compose, template, check >>

\* The compose file is the one a restore asks for; what is left of a directory
\* whose .ready is gone is read by no command.
PartOfFiles == { {}, {compose}, {template, check}, File }

Symmetry == Permutations(Release)
=============================================================================
