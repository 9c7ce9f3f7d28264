SPECIFICATION Spec
CONSTANTS
    Paths <- MCPaths
    Root = "r"
    ParentOf <- MCParentOf
    Depth <- MCDepth
    Bytes <- MCBytes
    SrcTrees <- MCSrcTrees
    DstTrees <- MCDstTrees
    Options <- MCOptions
    Faults <- CopyFault
    MaxFaults = 1
    MaxRuns = 1
    Crashes = FALSE
    Coarse = FALSE
INVARIANT FailedCopyDeleted
CHECK_DEADLOCK FALSE
