SPECIFICATION FairSpec
CONSTANTS
    Logs <- MCLogs
    Wallets = {w1}
    Nodes = {n1, n2}
    None = None
    MaxLogs = 1
    MaxBlocks = 2
    Lookback = 1
    NodeCap = 2
    MaxHead = 3
    MaxWei = 1
    MaxFaults = 1
CONSTRAINT OneKind
INVARIANTS
    AnnouncedOnce
    NoPhantomDeposit
PROPERTIES
    CursorCatchesUp
CHECK_DEADLOCK FALSE
