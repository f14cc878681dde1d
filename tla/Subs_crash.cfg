SPECIFICATION Spec
CONSTANTS
    Taps = {t1, t2}
    Scopes = {s1, s2}
    Wallets = {w1}
    Amounts = {a1}
    None = None
    SettleAge = 1
    FlightAge = 1
    GiveUpAge = 2
    Batch = 25
    MaxScanBlocks = 1
    Faults = {}
    MaxCrashes = 1
    MaxHead = 3
INVARIANT CreditedMeansGranted
CHECK_DEADLOCK FALSE
