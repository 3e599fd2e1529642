---------------------------- MODULE MCDeployJob ----------------------------
(* Instance of DeployJob for TLC, with the bundle of MCBundleSwap.        *)
EXTENDS DeployJob, TLC

CONSTANTS compose, template, check

InstallOrder == << compose, template, check >>

\* The compose file is the one a restore asks for; what is left of a directory
\* whose .ready is gone is read by no command.
PartOfFiles == { {}, {compose}, {template, check}, File }

Symmetry == Permutations(Release)
=============================================================================
