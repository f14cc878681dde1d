SPECIFICATION InstanceSpec
CONSTANTS
    t1 = t1
    t2 = t2
    p1 = p1
    p2 = p2
    p3 = p3
    r1 = r1
    Trades = {t1, t2}
    Patches = {p1, p2, p3}
    Records = {r1, r2}
    MaxUsd = 2
    Limits = {0, 1}
    Values = {2}
    Threshold = 2
    BasePct = 1
    TopPct = 2
    MaxDays = 1
    Claims = {k1, k2}
    ClaimChains = {"solana", "evm", "base"}
    MinClaim = 2
    FeePer = 2
    Levels = {3, 5}
SYMMETRY Symmetry
VIEW Present
INVARIANTS
    
    FoldedOnce
    RollupIsSum
    NeverInflated
    ReservedWithinEarned
    PaidIsNeverReleased
    WalletUpToOverlap
    ClaimsAreCovered
PROPERTIES
    ConfirmedIsFinal
CHECK_DEADLOCK FALSE
