SPECIFICATION FairSpec
CONSTANTS
    Release = {r1, r2}
    Legacy = legacy
    None = none
    Mixture = mixture
    MaxTroubles = 1
INVARIANTS
    TypeOK
    RollbackRestoresHost
    RollbackImageWasFound
    EarlyFailureHarmless
    VerifiedIsInstalled
    NoMixtureLeft
    ImageWithItsSettings
    SessionCanGoOn
PROPERTY
    SessionEnds
