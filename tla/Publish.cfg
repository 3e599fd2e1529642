SPECIFICATION Spec
CONSTANTS
    Commit = {c1, c2}
    Tag = {t1}
    Run = {r1, r2}
    BuildId = {b1, b2}
    Foreign = Foreign
    None = None
SYMMETRY Symmetry
INVARIANTS
    TypeOK
    SourceIsRevision
    AliasIsOfRelease
    AliasWasDeployable
