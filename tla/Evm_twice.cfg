SPECIFICATION Spec
CONSTANTS
    Trades = {}
    Patches = {}
    Records = {r1, r2}
    MaxUsd = 0
    Limits = {0}
    Values = {2}
    Threshold = 2
    BasePct = 1
    TopPct = 2
    MaxDays = 0
INVARIANT RecordedOnce
CHECK_DEADLOCK FALSE
