SPECIFICATION FairSpec
CONSTANTS
    Page = {p1, p2}
    Connection = {c1, c2, c3}
    Message = {m1}
    Nobody = Nobody
INVARIANTS
    TypeOK
    CurrentSubscribed
    ShownByClicks
PROPERTY
    Heard
CHECK_DEADLOCK FALSE
