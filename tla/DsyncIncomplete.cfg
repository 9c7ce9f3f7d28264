SPECIFICATION Spec
CONSTANTS
    Paths <- MCPaths
    Root = "r"
    ParentOf <- MCParentOf
    Depth <- MCDepth
    Bytes <- MCBytes
    SrcTrees <- MCSrcTrees
    DstTrees <- MCDstTrees
    Options <- MCOptions
    Faults <- WalkSrcFault
    MaxFaults = 1
    MaxRuns = 1
    Crashes = FALSE
    Coarse = FALSE
INVARIANT IncompleteWalkKeeps
CHECK_DEADLOCK FALSE
