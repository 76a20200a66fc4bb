SPECIFICATION FairSpec
CONSTANTS
    p1 = p1
    p2 = p2
    p3 = p3
    Posts = {p1, p2, p3}
    Worker = worker
    Removers = {r1, r2}
    Broken = {p3}
    BatchSize = 2
    Attempts = 2
    Budget = 1
    EvictBatch = 1
    MaxMoves = 3
INVARIANTS TypeOK RowHasFileUnlessTorn BudgetUnlessCut
PROPERTIES SavedIsStored
