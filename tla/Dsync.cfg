SPECIFICATION FairSpec
CONSTANTS
    Paths <- MCPaths
    Root = "r"
    ParentOf <- MCParentOf
    Depth <- MCDepth
    Bytes <- MCBytes
    SrcTrees <- MCSrcTrees
    DstTrees <- MCDstTrees
    Options <- MCOptions
    Faults <- NoFaults
    MaxFaults = 0
    MaxRuns = 2
    Crashes = TRUE
    Coarse = FALSE
INVARIANT Converged
INVARIANT CopiedMetadata
INVARIANT TornNeverLooksDone
PROPERTY RepeatIsQuiet
PROPERTY Ends
CHECK_DEADLOCK FALSE
