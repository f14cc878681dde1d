SPECIFICATION Spec
CONSTANTS
    SolanaWallets = {s1, s2}
    EvmWallets = {e1}
    Socials = {tg}
    Calls = {c1, c2}
    None = none
SYMMETRY Symmetry
INVARIANTS
    OneAccountPerWallet
PROPERTIES
    WalletsStay
CHECK_DEADLOCK FALSE
