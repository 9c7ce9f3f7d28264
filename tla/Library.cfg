SPECIFICATION FairSpec
CONSTANTS
    Tries = 5
    Size = 3
    Pairs <- MCPairs
    CommandLines <- MCCommandLines
    Piece = 2
    Listed = {"d", "e", "f", "l"}
    Within <- MCWithin
    DepthOf <- MCDepth
    Types <- MCTypes
    Modes <- MCModes
    Owners <- MCOwners
    Jobs <- MCJobs
    LinkFiles = {"f", "x"}
    Scenes <- MCScenes
    LinkFaults = {"read", "readlink", "check", "remove", "copy", "link", "refresh"}
    MaxLinkFaults = 1
    Components <- MCComponents
    CommandArgs <- MCCommandArgs
    ItemsBelow <- MCItemsBelow
    StartsWith <- MCStartsWith
    Procs = {0, 1, 2, 3}
    Top = 0
    ParentOf <- MCParentOf
    Objects = 1
    MaxReduces = 2
INVARIANTS
    Balanced
    ReadBack
    Honest
    Accounted
    Reported
    Changed
    LinkDestKept
    Linked
    Placed
    Reduced
PROPERTIES
    ImplementsMap
    Ends
CHECK_DEADLOCK FALSE
