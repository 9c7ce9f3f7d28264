SPECIFICATION Spec
CONSTANTS
    Paths <- MCPaths
    Root = "r"
    ParentOf <- MCParentOf
    Depth <- MCDepth
    Bytes <- MCBytes
    SrcTrees <- MCSrcTrees
    DstTrees <- MCDstTrees
    Options <- MCOptions
    Faults <- NoFaults
    MaxFaults = 0
    MaxRuns = 1
    Crashes = FALSE
    Coarse = FALSE
INVARIANT TopDirectoryCreated
CHECK_DEADLOCK FALSE
