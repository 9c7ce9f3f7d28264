SPECIFICATION Spec
CONSTANTS
    Paths <- MCPaths
    Root = "r"
    ParentOf <- MCParentOf
    Depth <- MCDepth
    Bytes <- MCBytes
    SrcTrees <- MCSrcTrees
    DstTrees <- MCDstTrees
    Options <- MCOptions
    Faults <- NoFaults
    MaxFaults = 0
    MaxRuns = 2
    Crashes = FALSE
    Coarse = FALSE
PROPERTY RepeatKeepsTimes
CHECK_DEADLOCK FALSE
