SPECIFICATION Spec
CONSTANTS
    a1 = a1
    a2 = a2
    p1 = p1
    p2 = p2
    Accounts = {a1, a2}
    Posts = {p1, p2}
    Runs = {1}
    PageSize = 1
    FullCap = 3
    IncrementalCap = 3
    SyncCap = 3
    MaxConsecutiveFailures = 2
    Modes = {"auto"}
    Imported = {a1}
    MaxChanges = 1
    Favourites <- MCFavourites
    Owned <- MCOwned
INVARIANTS OverlapMeansComplete
