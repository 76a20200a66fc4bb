SPECIFICATION FairSpec
CONSTANTS
    Tags = {"t1", "t2"}
    TagLists <- MCTagLists
    LastId = 2
    BatchSize = 1
    MaxLives = 2
    MaxSaves = 2
INVARIANTS TypeOK OvercountIsBounded NothingIsSkipped
PROPERTIES RebuildCountsOnce BackfillEnds
