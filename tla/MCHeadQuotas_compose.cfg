CONSTANTS
    a = a
    b = b
    c = c
    d = d
    None = None
    Size = 5
    Kinds <- MCKinds
    Settings <- MCSettings
    TopK = 3
    SmallestTop = 3
    MinArtists = 2
    MinCharacters = 2
    Window = 2

SPECIFICATION QuotaFairSpec
INVARIANT QuotaTypeOK
INVARIANT FloorsAreMet
INVARIANT CeilingHolds
PROPERTY MinimumIsReached
PROPERTY PassesEnd
CHECK_DEADLOCK FALSE
