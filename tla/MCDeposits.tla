----------------------------- MODULE MCDeposits -----------------------------
(***************************************************************************)
(* Instances of Deposits for TLC: three transfers in up to three blocks, one *)
(* wallet.                                                                 *)
(***************************************************************************)
EXTENDS Deposits

MCLogs == 1..3

(* Native and token deposits share no state but the blocks: either tokens
   arrive, and no balance can be read, or balances change.  Once readings are
   inexact and several nodes have been asked, NoPhantomDeposit says nothing. *)
Tokens ==
    /\ known = NoUpdates /\ updates = NoUpdates /\ ~inexact
    /\ asked \subseteq {CHOOSE n \in Nodes : TRUE}
    /\ \A w \in Wallets, b \in Blocks : wei[w][b] = 0
Native ==
    /\ blind = {} /\ \A l \in Logs : block[l] = 0
    /\ OneAsked \/ ~inexact
OneKind == Tokens \/ Native
=============================================================================
