----------------------------- MODULE MCAccounts -----------------------------
(* Accounts for TLC: wallets of a kind, and calls, can be exchanged. *)
EXTENDS Accounts, TLC

Symmetry == Permutations(SolanaWallets) \cup Permutations(Calls)
=============================================================================
