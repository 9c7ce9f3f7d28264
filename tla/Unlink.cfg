SPECIFICATION FairSpec
CONSTANTS
    N = 3
    MaxCount = 2
    Items <- MCItems
    Dirs <- MCDirs
    Top = "top"
    ParentOf <- MCParentOf
    DepthOf <- MCDepthOf
    Parts <- MCLists
    Hashes <- MCHashes
    Algos = {"SPREAD", "MAP", "LIBCIRCLE"}
INVARIANTS
    Remapped
    AllGone
    TimesRestored
PROPERTIES
    Ends
