---------------------------- MODULE BundleStore ----------------------------
(***************************************************************************)
(* What the install step promises of the snapshot it keeps: one slot that  *)
(* is filled in a single step with the live bundle as it was before the    *)
(* session touched it, and that holds that bundle for as long as the live  *)
(* one is being overwritten.  The promise can be lost in one way only: a   *)
(* session has overwritten nothing yet, and what it found is given up for  *)
(* the older bundle in the slot.                                           *)
(***************************************************************************)
CONSTANTS Value,        \* the bundles
          Empty,        \* the slot that holds nothing
          Complete(_)   \* bundles worth keeping

VARIABLES live,         \* the bundle in use
          base,         \* the bundle in use when the session began
          slot,         \* the bundle that can be put back
          givenUp       \* nothing is promised of base any more

vars == << live, base, slot, givenUp >>

Kept(b) == [ready |-> TRUE, files |-> b]

Init == live \in Value /\ base = live /\ slot = Empty /\ givenUp = FALSE

Begin == base' = live /\ givenUp' = FALSE /\ UNCHANGED << live, slot >>

Save == /\ Complete(live) /\ live = base /\ ~givenUp
        /\ slot' = Kept(live)
        /\ UNCHANGED << live, base, givenUp >>

GiveUp == /\ live = base
          /\ givenUp' = TRUE
          /\ UNCHANGED << live, base, slot >>

\* Installing, restoring or removing files, one at a time or all at once.
Overwrite == /\ Complete(base) => slot = Kept(base) \/ givenUp
             /\ live' \in Value
             /\ UNCHANGED << base, slot, givenUp >>

Next == Begin \/ Save \/ GiveUp \/ Overwrite

Spec == Init /\ [][Next]_vars
=============================================================================
