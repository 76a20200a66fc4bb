CONSTANTS
    Posts = {p1, p2}
    Tags = {t1}
    Callers = {c1}
    Workers = {w1, w2}
    DriftThreshold = 2
    Operations = {"save", "hydrate", "remove"}
    MaxBumps = 3
    MaxFailures = 1

SPECIFICATION Spec
INVARIANT DfIsExact
