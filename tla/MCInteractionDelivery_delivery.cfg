CONSTANTS
    p1 = p1
    l1 = l1
    l2 = l2
    Looks = {l1, l2}
    Posts = {p1}
    PostOf <- MCPostOf
    Opens = {}
    Tabs = {t1}
    Requests = {q1}
    Replays = {sync, periodic}
    Sync = sync
    Ids = {i1}
    FlushAt = 2
    None = None

SPECIFICATION FairSpec
INVARIANT TypeOK
INVARIANT NoLookVanishes
PROPERTY EvidenceOnce
PROPERTY LookGetsItsTry
