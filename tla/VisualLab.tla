------------------------------ MODULE VisualLab ------------------------------
(***************************************************************************)
(* The pages of docs/visual-lab (visual-lab.js): a hub that lists the      *)
(* sequence pages, and on each of these a learner who chooses a scenario,  *)
(* predicts its outcome, opens it, and walks through the steps of its      *)
(* lanes; a scenario without a diagram has the nodes of a route instead.   *)
(* The page keeps one index into the steps of all lanes laid end to end.   *)
(* After a click render() throws the whole page away and draws it again,   *)
(* and the focus of the keyboard is put back in the next frame, on what is *)
(* drawn then.  Check marks and notes, which nothing else depends on, are  *)
(* left out.                                                               *)
(***************************************************************************)
EXTENDS Integers, Sequences, FiniteSetsExt, SequencesExt

CONSTANTS
    Page,            \* names of the sequence pages
    Hub,             \* the page that lists them
    Journey,         \* those it lists
    Content,         \* sequence page -> its data (see VisualLabData)
    MaxPending,      \* bound: clicks within one frame
    MaxPredictions   \* bound: scenarios with a prediction

HasDiagram(s) == s.lanes # <<>>

IsSeq(s) == s \in Seq(ToSet(s))

\* What the viewer takes for granted of a lane, and of a scenario.
LaneData(l) == IsSeq(l.steps) /\ l.steps # <<>> /\ IsSeq(l.nextLaneIds)

ScenarioData(s) ==
    /\ IsSeq(s.lanes)
    /\ IF HasDiagram(s)
       THEN /\ \A l \in DOMAIN s.lanes : LaneData(s.lanes[l])
            /\ IsInjective([l \in DOMAIN s.lanes |-> s.lanes[l].id])
       ELSE s.flow \in Nat \ {0} /\ s.route \in Nat \ {0} /\ s.stopAfter \in 0..s.route - 1

\* What a step shows of the code: it names code points, or its ends do.
CodePointsOfNode(p, n) ==
    IF n \in DOMAIN Content[p].nodes THEN Content[p].nodes[n] ELSE <<>>

Named(p, e) ==
    {e.codePointIds, CodePointsOfNode(p, e.to), CodePointsOfNode(p, e.from)}

\* A step that can be checked in the code names code points the page has.
EvidenceData(p, e) ==
    e.scope = "code" =>
        /\ Named(p, e) # {<<>>}
        /\ \A ids \in Named(p, e) : ToSet(ids) \subseteq ToSet(Content[p].codePoints)

StepsData(p, s) ==
    \A l \in DOMAIN s.lanes : \A i \in DOMAIN s.lanes[l].steps :
        EvidenceData(p, s.lanes[l].steps[i])

ASSUME EvidenceAssumption ==
    \A p \in Page : \A k \in DOMAIN Content[p].scenarios :
        StepsData(p, Content[p].scenarios[k])

ASSUME PagesAssumption ==
    /\ Hub \notin Page /\ Journey \subseteq Page
    /\ MaxPending \in Nat
    /\ \A p \in Page :
        /\ p = "09" /\ Content[p].next = "10" => "10" \in Page
        /\ IsSeq(Content[p].scenarios) /\ Content[p].scenarios # <<>>
        /\ \A k \in DOMAIN Content[p].scenarios : ScenarioData(Content[p].scenarios[k])

VARIABLES
    page,            \* the page that is open
    narrow,          \* the window is too narrow for the time line (styles.css)
    scenarioIndex,
    stepIndex,       \* index into the steps of all lanes
    predictions,     \* scenario index -> whether the option chosen is the answer
    revealed,        \* scenarios that have been opened
    focus,           \* key of the control that has the focus
    frames,          \* focusKeys of the calls of render() since the last frame
    expected         \* history: where the last call of render() sends the focus

learner  == << predictions, revealed >>
indices  == << scenarioIndex, stepIndex >>
keyboard == << focus, frames, expected >>
vars     == << page, narrow, indices, learner, keyboard >>

Window == 7    \* steps that are drawn at once

OnSequence  == page # Hub
ScenariosOf(p) == Content[p].scenarios
ScenarioAt(k)  == ScenariosOf(page)[k + 1]
Indices        == IF OnSequence THEN 0..Len(ScenariosOf(page)) - 1 ELSE {0}

SemanticSteps(s) ==
    FlattenSeq([l \in DOMAIN s.lanes |->
        [i \in DOMAIN s.lanes[l].steps |-> [lane |-> l, index |-> i - 1]]])

\* currentSteps: without a diagram the steps of the flow, all in one lane
CurrentSteps(s) ==
    IF HasDiagram(s) THEN SemanticSteps(s)
                     ELSE [i \in 1..s.flow |-> [lane |-> 1, index |-> i - 1]]

StepsOf ==
    [p \in Page |-> [k \in DOMAIN ScenariosOf(p) |-> CurrentSteps(ScenariosOf(p)[k])]]

scenario   == ScenarioAt(scenarioIndex)
diagram    == HasDiagram(scenario)
lanes      == scenario.lanes
steps      == StepsOf[page][scenarioIndex + 1]
activeStep == steps[stepIndex + 1]
activeLane == lanes[activeStep.lane]

\* currentLaneContext
LaneStepsOf == [p \in Page |-> [k \in DOMAIN ScenariosOf(p) |->
    [l \in DOMAIN ScenariosOf(p)[k].lanes |->
        {i \in 0..Len(StepsOf[p][k]) - 1 : StepsOf[p][k][i + 1].lane = l}]]]

laneSteps  == LaneStepsOf[page][scenarioIndex + 1][activeStep.lane]
laneStart  == Min(laneSteps)
laneEnd    == Max(laneSteps)
laneLength == Cardinality(laneSteps)

\* laneStartIndex: the lengths of the lanes before l, added up
StartOf(s, l) ==
    LET start[k \in 1..l] == IF k = 1 THEN 0 ELSE start[k - 1] + Len(s.lanes[k - 1].steps)
    IN  start[l]

\* Mutant: the selected lane is added up too.
SelectedLaneToo(l) == StartOf(scenario, l + 1)

LaneStartIndex(l) == StartOf(scenario, l)

\* Mutant: the window stays where the lane begins.
WindowFixed == laneStart

LaneWindowStart ==
    laneStart + Min({Max({activeStep.index - 3, 0}), Max({laneLength - Window, 0})})

Shown == {i \in laneSteps : i \in LaneWindowStart..LaneWindowStart + Window - 1}

PreviousLanes == {l \in DOMAIN lanes : activeLane.id \in ToSet(lanes[l].nextLaneIds)}

NextLanes ==
    {l \in DOMAIN lanes : activeLane.nextLaneIds = << lanes[l].id >>}

\* Mutant: of several lanes that lead here the first is taken.
FirstPreviousLane == IF PreviousLanes = {} THEN {} ELSE {Min(PreviousLanes)}

OnlyPreviousLane == IF Cardinality(PreviousLanes) = 1 THEN PreviousLanes ELSE {}

CanMoveToPreviousLane == activeStep.index = 0 /\ OnlyPreviousLane # {}
CanMoveToNextLane     == activeStep.index >= laneLength - 1 /\ NextLanes # {}
PreviousDisabled == activeStep.index = 0 /\ ~CanMoveToPreviousLane
NextDisabled     == activeStep.index >= laneLength - 1 /\ ~CanMoveToNextLane

PreviousTarget ==
    IF CanMoveToPreviousLane
    THEN LET l == Min(OnlyPreviousLane) IN LaneStartIndex(l) + Len(lanes[l].steps) - 1
    ELSE Max({laneStart, stepIndex - 1})

NextTarget ==
    IF CanMoveToNextLane THEN LaneStartIndex(Min(NextLanes))
                         ELSE Min({laneEnd, stepIndex + 1})

\* Mutant: fractions are cut off.
RoundDown(a, b) == a \div b

\* Math.round(a / b)
Round(a, b) == (2 * a + b) \div (2 * b)

\* routeState: the node of the route that is drawn as active
ActiveNode ==
    LET mapped == IF Len(steps) <= 1 THEN scenario.route - 1
                  ELSE Round(stepIndex * (scenario.route - 1), Len(steps) - 1)
    IN  Min({mapped, scenario.stopAfter})

\* The step that a click on the node n selects.
StepOfNode(n) ==
    IF scenario.route <= 1 THEN 0 ELSE Round(n * (Len(steps) - 1), scenario.route - 1)

OpenNodes == 0..scenario.stopAfter

-----------------------------------------------------------------------------
(* The evidence of the active step.                                        *)

Edge == activeLane.steps[activeStep.index + 1]

\* Mutant: only what the step itself names.
OwnCodePointIds(e) == e.codePointIds

LinkedCodePointIds(e) ==
    IF e.codePointIds # <<>> THEN e.codePointIds
    ELSE IF CodePointsOfNode(page, e.to) # <<>> THEN CodePointsOfNode(page, e.to)
    ELSE CodePointsOfNode(page, e.from)

\* Without any the first two of the page are shown.
LinkedCodePoints(e) ==
    LET all == Content[page].codePoints
        ids == LinkedCodePointIds(e)
    IN  IF ids = <<>> THEN {all[i] : i \in 1..Min({2, Len(all)})}
                      ELSE ToSet(ids) \cap ToSet(all)

-----------------------------------------------------------------------------
Key(control, i) == << control, i >>
Nowhere == Key("page", 0)
Keys == {"page", "scenario", "option", "lane", "step", "route"} \X Int

IsRevealed == OnSequence /\ scenarioIndex \in revealed

\* Where focus() has an effect in the page as it is drawn now.  Of the two
\* elements with the key of a step one is hidden: the article of the active
\* step, or the whole time line.
Focusable(key) ==
    \/ key[1] = "scenario" /\ OnSequence /\ key[2] \in Indices
    \/ /\ IsRevealed /\ diagram
       /\ \/ key[1] = "lane" /\ Len(lanes) > 1 /\ key[2] \in DOMAIN lanes
          \/ key[1] = "step" /\ key[2] \in IF narrow THEN {stepIndex} ELSE Shown
    \/ key[1] = "route" /\ IsRevealed /\ ~diagram /\ key[2] \in OpenNodes

TypeOK ==
    /\ page \in Page \cup {Hub}
    /\ narrow \in BOOLEAN
    /\ scenarioIndex \in Indices
    /\ stepIndex \in IF OnSequence THEN 0..Len(steps) - 1 ELSE {0}
    /\ DOMAIN predictions \subseteq Indices /\ Range(predictions) \subseteq BOOLEAN
    /\ revealed \subseteq DOMAIN predictions
    /\ focus \in Keys /\ expected \in Keys
    /\ frames \in Seq(Keys) /\ Len(frames) <= MaxPending

\* A page that is loaded starts afresh: nothing is stored.
Fresh(p) ==
    /\ page' = p
    /\ scenarioIndex' = 0 /\ stepIndex' = 0
    /\ predictions' = <<>> /\ revealed' = {}
    /\ focus' = Nowhere /\ frames' = <<>> /\ expected' = Nowhere
    /\ UNCHANGED narrow

Init ==
    /\ page \in Page \cup {Hub}
    /\ narrow \in BOOLEAN
    /\ scenarioIndex = 0 /\ stepIndex = 0
    /\ predictions = <<>> /\ revealed = {}
    /\ focus = Nowhere /\ frames = <<>> /\ expected = Nowhere

\* render() puts both indices into range before it draws; the element that had
\* the focus is gone.
Render(k, i) ==
    /\ UNCHANGED << page, narrow >>
    /\ scenarioIndex' = Min({k, Len(ScenariosOf(page)) - 1})
    /\ stepIndex' = Min({i, Len(steps') - 1})
    /\ focus' = Nowhere

Click(k, i, key) ==
    /\ Len(frames) < MaxPending
    /\ Render(k, i)
    /\ frames' = Append(frames, key)
    /\ expected' = key

\* The setting prefers-reduced-motion changes: render() without a focusKey.
MotionChanged ==
    /\ OnSequence
    /\ Render(scenarioIndex, stepIndex)
    /\ expected' = Nowhere
    /\ UNCHANGED << learner, frames >>

\* The callbacks of requestAnimationFrame run in their order.
Frame ==
    /\ frames # <<>>
    /\ LET found == {i \in DOMAIN frames : Focusable(frames[i])}
       IN  focus' = IF found = {} THEN focus ELSE frames[Max(found)]
    /\ frames' = <<>>
    /\ UNCHANGED << page, narrow, indices, learner, expected >>

-----------------------------------------------------------------------------
\* Mutant: the number of the next sequence is all that counts.
AnyNext(p) == Content[p].next

\* localNextHref: sequence 10 is in this repository, what follows it is not.
LocalNext(p) == IF p = "09" /\ Content[p].next = "10" THEN Content[p].next ELSE Hub

\* The pages that the open page has links to.
Links == IF OnSequence THEN {Hub, LocalNext(page)} ELSE {Hub} \cup Journey

Open(p) == Fresh(p)    \* a link, or a reload

\* Mutant: the step stays selected when the scenario changes.
SameStep == stepIndex

StepOfNewScenario == 0

SelectScenario(k) ==
    /\ Click(k, StepOfNewScenario, Key("scenario", k))
    /\ UNCHANGED learner

\* The radio button that is clicked takes the focus itself.
Predict(o) ==
    /\ ~IsRevealed
    /\ Cardinality(DOMAIN predictions \cup {scenarioIndex}) <= MaxPredictions
    /\ predictions' = [k \in DOMAIN predictions \cup {scenarioIndex} |->
          IF k = scenarioIndex THEN o = scenario.answer ELSE predictions[k]]
    /\ focus' = Key("option", 0) /\ expected' = Nowhere
    /\ UNCHANGED << page, narrow, indices, revealed, frames >>

PredictionMade == scenarioIndex \in DOMAIN predictions

Reveal ==
    /\ ~IsRevealed /\ PredictionMade
    /\ revealed' = revealed \cup {scenarioIndex}
    /\ Click(scenarioIndex, stepIndex, Key(IF diagram THEN "step" ELSE "route", stepIndex))
    /\ UNCHANGED predictions

\* The controls of a path are drawn for an opened scenario only.
GoTo(i, key) ==
    /\ IsRevealed
    /\ Click(scenarioIndex, i, key)
    /\ UNCHANGED learner

\* Mutant: the key is made before the index changes.
KeyOfOldStep(i) == Key("step", stepIndex)

KeyOfStep(i) == Key("step", i)

MoveTo(i) == GoTo(i, KeyOfStep(i))

SelectLane(l) == diagram /\ Len(lanes) > 1 /\ GoTo(LaneStartIndex(l), Key("lane", l))
SelectStep(i) == diagram /\ ~narrow /\ i \in Shown /\ MoveTo(i)
Previous      == diagram /\ ~PreviousDisabled /\ MoveTo(PreviousTarget)
Following     == diagram /\ ~NextDisabled /\ MoveTo(NextTarget)

SelectNode(n) ==
    /\ ~diagram /\ n \in OpenNodes
    /\ GoTo(StepOfNode(n), Key("route", n))

Next ==
    \/ \E p \in Links \cup {page} : Open(p)
    \/ Frame
    \/ MotionChanged
    \/ /\ OnSequence
       /\ \/ \E k \in Indices : SelectScenario(k)
          \/ \E o \in scenario.options : Predict(o)
          \/ Reveal
          \/ \E l \in DOMAIN lanes : SelectLane(l)
          \/ \E i \in 0..Len(steps) - 1 : SelectStep(i)
          \/ Previous
          \/ Following
          \/ ~diagram /\ \E n \in OpenNodes : SelectNode(n)

Spec == Init /\ [][Next]_vars

-----------------------------------------------------------------------------
(* Before a scenario is opened nothing of its path has been walked: the    *)
(* first thing shown after the prediction is the first step.               *)
LockedAtStart == ~IsRevealed => stepIndex = 0

(* The step whose effect and evidence the page describes is among the      *)
(* steps drawn in the time line, however long the lane is.                 *)
ActiveStepShown == OnSequence /\ diagram => stepIndex \in Shown

(* When the frame after a click has come, the focus is where the click     *)
(* sends it, although the page was thrown away: the control exists, is     *)
(* visible and not disabled in what is drawn by then, which may be the     *)
(* result of a later click.                                                *)
FocusFollows == frames = <<>> /\ expected # Nowhere => focus = expected

(* Where the page says that a step can be checked in the code, the code    *)
(* shown is what the step or one of its ends names, all of it: never the   *)
(* first code points of the page, which stand in where nothing is named.   *)
CodeIsOfStep ==
    IsRevealed /\ diagram /\ Edge.scope = "code" =>
        \E ids \in Named(page, Edge) : ids # <<>> /\ LinkedCodePoints(Edge) = ToSet(ids)

(* The two buttons are inverse wherever both are offered: after one of     *)
(* them, also across lanes that fork or join, the other is disabled or     *)
(* leads back to the step one came from.                                   *)
ButtonsAreInverse ==
    [][OnSequence =>
          /\ Following => PreviousDisabled' \/ PreviousTarget' = stepIndex
          /\ Previous => NextDisabled' \/ NextTarget' = stepIndex]_vars

(* A node of a route that is clicked becomes the active one, although the  *)
(* page keeps only the step it stands for: the two conversions between     *)
(* nodes and steps agree when the flow has a step for each node.           *)
ClickedNodeActive ==
    [][OnSequence /\ ~diagram => \A n \in OpenNodes :
          SelectNode(n) /\ scenario.route <= scenario.flow => ActiveNode' = n]_vars

(* The index arithmetic implements a walk over lanes and positions.        *)
AllScenarios ==
    {<< Hub, 0 >>} \cup UNION {{<< p, k - 1 >> : k \in DOMAIN ScenariosOf(p)} : p \in Page}

LengthsOf(s) ==
    IF s[1] = Hub THEN << 1 >>
    ELSE LET x == ScenariosOf(s[1])[s[2] + 1] IN
         IF HasDiagram(x) THEN [l \in DOMAIN x.lanes |-> Len(x.lanes[l].steps)]
                          ELSE << x.flow >>

ArrowsOf(s) ==
    IF s[1] = Hub THEN {}
    ELSE LET x == ScenariosOf(s[1])[s[2] + 1].lanes IN
         {e \in (DOMAIN x) \X (DOMAIN x) : x[e[2]].id \in ToSet(x[e[1]].nextLaneIds)}

Firsts   == {s \in AllScenarios : s[2] = 0}
Lengths  == [s \in AllScenarios |-> LengthsOf(s)]
LaneSet  == [s \in AllScenarios |-> DOMAIN LengthsOf(s)]
LaneOne  == [s \in AllScenarios |-> 1]
Arrows   == [s \in AllScenarios |-> ArrowsOf(s)]

\* A click on a time line reaches what is drawn, one on a route any node.
Reaches ==
    [s \in AllScenarios |->
        IF s[1] # Hub /\ ~HasDiagram(ScenariosOf(s[1])[s[2] + 1]) THEN LengthsOf(s)[1]
                                                                 ELSE Window - 1]

Walk == INSTANCE LaneWalk WITH
    Scenario <- AllScenarios, Opening <- Firsts, Lane <- LaneSet, FirstLane <- LaneOne,
    Length <- Lengths, Onward <- Arrows, Reach <- Reaches,
    scenario <- << page, scenarioIndex >>,
    lane     <- IF OnSequence THEN activeStep.lane ELSE 1,
    pos      <- IF OnSequence THEN activeStep.index + 1 ELSE 1

WalkSpec == Walk!Spec
=============================================================================
