CONSTANTS
    Posts = {p1, p2}
    Tags = {t1}
    Callers = {c1, c2}
    Workers = {w1, w2}
    DriftThreshold = 2
    Operations = {"save", "hydrate", "remove"}
    MaxBumps = 2
    MaxFailures = 1

SPECIFICATION FairSpec
INVARIANT TypeOK
INVARIANT DfCoversPostings
INVARIANT OneRebuilder
INVARIANT NoBumpLost
PROPERTY RebuildIsServed
