------------------------------- MODULE LaneWalk -------------------------------
(***************************************************************************)
(* What a learner is promised of the step controls of the visual lab: he   *)
(* stands on one step of one lane of one scenario, and walks along the     *)
(* arrows between lanes.  VisualLab keeps a single index into the steps of *)
(* all lanes instead.                                                      *)
(***************************************************************************)
EXTENDS Integers

CONSTANTS
    Scenario,    \* the scenarios of all pages
    Opening,     \* those a page opens with
    Lane,        \* scenario -> set of its lanes
    FirstLane,   \* scenario -> the lane it begins with
    Length,      \* scenario -> lane -> number of its steps
    Onward,      \* scenario -> set of << lane, following lane >>
    Reach        \* scenario -> how many steps a single click may skip

VARIABLES scenario, lane, pos

place == << scenario, lane, pos >>

After(l)  == {m \in Lane[scenario] : << l, m >> \in Onward[scenario]}
Before(l) == {m \in Lane[scenario] : << m, l >> \in Onward[scenario]}

At(s, l, p) == scenario' = s /\ lane' = l /\ pos' = p

Init == scenario \in Opening /\ lane = FirstLane[scenario] /\ pos = 1

Forward ==
    \/ pos < Length[scenario][lane] /\ At(scenario, lane, pos + 1)
    \/ /\ pos = Length[scenario][lane]
       /\ \E m \in After(lane) : After(lane) = {m} /\ At(scenario, m, 1)

Back ==
    \/ pos > 1 /\ At(scenario, lane, pos - 1)
    \/ /\ pos = 1
       /\ \E m \in Before(lane) :
             Before(lane) = {m} /\ At(scenario, m, Length[scenario][m])

Skip == \E p \in 1..Length[scenario][lane] :
            p - pos \in -Reach[scenario]..Reach[scenario] /\ At(scenario, lane, p)

ChangeLane == \E m \in Lane[scenario] : At(scenario, m, 1)

Leave == \E s \in Scenario : At(s, FirstLane[s], 1)

Next == Forward \/ Back \/ Skip \/ ChangeLane \/ Leave

Spec == Init /\ [][Next]_place
=============================================================================
