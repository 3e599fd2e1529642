SPECIFICATION Spec
CONSTANTS
    Release = {r1, r2}
    Legacy = legacy
    None = none
    Mixture = mixture
    MaxTroubles = 0
SYMMETRY Symmetry
INVARIANT RollbackIsOneRelease
