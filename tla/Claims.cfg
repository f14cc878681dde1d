SPECIFICATION FairSpec
CONSTANTS
    c1 = c1
    o1 = o1
    o2 = o2
    alice = alice
    Tokens = {c1, c2}
    Openings = {o1, o2, o3}
    Handles = {alice, bob}
    None = None
CONSTRAINT Cast
INVARIANTS
    PaysOnce
    ReleasedIsNeverPaid
    HashIsOfThePayment
PROPERTIES
    NeverHangsForEver
CHECK_DEADLOCK FALSE
