SPECIFICATION Spec
CONSTANTS
    Paths <- MCPaths
    Root = "r"
    ParentOf <- MCParentOf
    Depth <- MCDepth
    Bytes <- MCBytes
    SrcTrees <- MCSrcTrees
    DstTrees <- MCCoarseDstTrees
    Options <- MCOptions
    Faults <- SomeFaults
    MaxFaults = 2
    MaxRuns = 1
    Crashes = FALSE
    Coarse = TRUE
INVARIANT KeepsExtraneous
INVARIANT FailureReported
PROPERTY DryRunNonMutating
CHECK_DEADLOCK FALSE
