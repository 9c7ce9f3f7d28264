SPECIFICATION FairSpec
CONSTANTS
    N = 2
    ChunkSize = 2
    BufSize = 2
    ReadTries = 5
    MaxTroubles = 2
    Names <- MCNames
    Parts <- MCLists
    Sources <- MCSources
    Leftovers <- MCLeftovers
    Options <- MCOptions
INVARIANTS
    EachUnitOnce
    CopiedOrReported
PROPERTIES
    SectionsApart
    Ends
