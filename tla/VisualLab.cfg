SPECIFICATION Spec
CONSTANTS
    Page <- MCPage
    Hub = "hub"
    Journey <- HubSequences
    Content <- MCContent
    MaxPending = 2
    MaxPredictions = 2
INVARIANTS
    TypeOK
    LockedAtStart
    ActiveStepShown
    FocusFollows
    CodeIsOfStep
PROPERTIES
    ButtonsAreInverse
    ClickedNodeActive
    WalkSpec
