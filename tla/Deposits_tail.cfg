SPECIFICATION Spec
CONSTANTS
    Logs <- MCLogs
    Wallets = {w1}
    Nodes = {n1}
    None = None
    MaxLogs = 1
    MaxBlocks = 2
    Lookback = 1
    NodeCap = 3
    MaxHead = 3
    MaxWei = 0
    MaxFaults = 0
INVARIANT NothingIsDropped
CHECK_DEADLOCK FALSE
