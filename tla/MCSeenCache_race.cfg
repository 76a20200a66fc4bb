CONSTANTS
    Posts = {p1}
    Readers = {r1}
    Writers = {u1, u2}

SPECIFICATION FairSpec
INVARIANT TypeOK
INVARIANT MissesOnlyRacingLooks
PROPERTY StaleIsTemporary
