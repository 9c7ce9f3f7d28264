SPECIFICATION FairSpec
CONSTANTS
    Ranks <- MCRanks
    Root = 0
    Parent <- MCParent
    NoRank = NoRank
    Items <- MCItems
    InitialQueues <- MCInitialQueues
    MaxNew = 2
INVARIANTS
    Handshake
    EachItemOnce
    NoWorkLeft
    CleanExit
    Wave
PROPERTIES
    AllDone
    ImplementsPool
CHECK_DEADLOCK FALSE
