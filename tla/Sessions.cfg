SPECIFICATION Spec
CONSTANTS
    Nonces = {n1}
    Logins = {l1, l2}
    Requests = {r1, r2, r3}
    Gateways = {g1, g2}
    Auths = {a1}
    Redis = redis
    None = none
SYMMETRY Symmetry
INVARIANTS
    OneSignInPerCopy
    LogoutHolds
    GatewayRemembers
    SessionHonoursLogout
CHECK_DEADLOCK FALSE
