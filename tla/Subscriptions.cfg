SPECIFICATION FairSpec
CONSTANTS
    Taps = {t1, t2}
    Scopes = {s1}
    Wallets = {t1, t2}
    Amounts = {a1}
    None = None
    SettleAge = 0
    FlightAge = 1
    GiveUpAge = 1
    Batch = 1
    MaxScanBlocks = 0
    Faults = {"block", "answer", "scan", "receipt"}
    MaxCrashes = 1
    MaxHead = 3
INVARIANTS
    OneMonthPerTransfer
    EveryTransferIsRecorded
PROPERTIES
    CreditedIsFinal
    RevivedOnlyForATransfer
    ImplementsPromise
    LostPaymentIsCredited
    UnsentIsGivenUp
CONSTRAINT FirstPayer
CHECK_DEADLOCK FALSE
