SPECIFICATION Spec
CONSTANTS
    SolanaWallets = {s1, s2}
    EvmWallets = {}
    Socials = {}
    Calls = {c1, c2}
    None = none
INVARIANT OneWalletPerChain
CHECK_DEADLOCK FALSE
