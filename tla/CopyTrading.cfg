SPECIFICATION Spec
CONSTANTS
    Users = {u1}
    Leaders = {leader}
    leader = leader
    Parts = 2
    Buys <- MCBuys
    Configs <- MCConfigs
    Prices = {2}
    Nothing = nothing
    Span = 1
    MaxBlocks = 3
    MaxCopies = 2
INVARIANTS
    CopiedOnce
    NothingSkipped
    LedgerTrue
PROPERTIES
    RecordedWithinCap
