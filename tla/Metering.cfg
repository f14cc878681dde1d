SPECIFICATION FairSpec
CONSTANTS
    Scopes = {s1}
    Groups = {s1}
    Questions = {q1, q2}
    FreeUser = 1
    FreeGroup = 1
    SubDaily = 1
    SubMonthly = 2
    FreeDays = 1
    Gone = {q2}
    Flaky = TRUE
    MaxGrants = 1
    MaxCrashes = 2
INVARIANTS
    TypeOK
    BooksBalance
    RationHolds
PROPERTIES
    WaitersAreTold
CHECK_DEADLOCK FALSE
