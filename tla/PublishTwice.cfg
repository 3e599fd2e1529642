SPECIFICATION Spec
CONSTANTS
    Commit = {c1}
    Tag = {t1}
    Run = {r1}
    BuildId = {b1, b2}
    Foreign = Foreign
    None = None
INVARIANT
    ShaTagImmutable
