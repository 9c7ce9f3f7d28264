SPECIFICATION Spec
CONSTANTS
    N <- MCN
    MaxWork <- MCMaxWork
INVARIANTS
    KeepGoingInUpdate
    OneRound
    NothingUnmatched
    FinalTotals
PROPERTIES
    AllReturn
