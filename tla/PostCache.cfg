SPECIFICATION Spec
CONSTANTS
    Request = {q1, q2, q3}
    TTL = 2
    MaxDelay = 1
    MaxVersions = 2
SYMMETRY Symmetry
INVARIANTS
    StaleIsExplained
    StalenessBounded
