----------------------------- MODULE MCRewards ------------------------------
(***************************************************************************)
(* Instances of Rewards for TLC.                                           *)
(***************************************************************************)
EXTENDS Rewards, TLC

CONSTANTS t1, t2, p1, p2, p3, r1

(* Claims are interchangeable calls. *)
Symmetry == Permutations(Claims)

(* Two reports are about one trade and the first of them says it was
   confirmed; the third confirms the other trade. *)
Cast ==
    /\ about[p1] = t1 /\ about[p2] = t1 /\ about[p3] = t2
    /\ wants[p1] = "confirmed" /\ wants[p3] = "confirmed"

(* The spending counter: one limit at a time is set, and nothing is reported
   or claimed. *)
NoClaims ==
    /\ linked /\ referral = 0 /\ earned["base"] = 0 /\ peak = earned
    /\ \A k \in Claims : cpc[k] = "idle" /\ chain[k] = "evm"

Spending ==
    /\ limits.perTx = 0 \/ limits.perDay = 0
    /\ \A t \in Trades : tpc[t] = "done" => row[t] = "pending"
    /\ wants[p2] = "failed" /\ \A w \in Workers : pc[w] = "idle"
    /\ NoClaims

(* The ledger: trades are recorded without a check or an amount and reported
   three times, or one of them is, while the swap is recorded twice. *)
NoSpending ==
    /\ day = 0 /\ limits = [perTx |-> 0, perDay |-> 0] /\ passed = {}
    /\ \A t \in Trades : /\ tpc[t] \in {"idle", "inserted", "counted", "done"}
                         /\ usd[t] = 0 /\ added[t] = 0 /\ seen[t] = limits

Ledger ==
    /\ NoSpending /\ NoClaims
    /\ \/ \A r \in Records : pc[r] = "idle"
       \/ tpc[t2] = "idle" /\ \A p \in {p2, p3} : pc[p] = "idle"

(* The claims, of one chain or of two, of which "evm" is one; the third chain
   earns only if a wallet without an account claims on it, and once.  Claims
   see one step of a recorded swap, the one that rolls up a commission: it may
   come at any moment, and the others come before the first claim or not at
   all. *)
Claimed == {chain[k] : k \in Claims}

Claiming ==
    /\ NoSpending
    /\ wants[p2] = "failed" /\ \A t \in Trades : tpc[t] = "idle"
    /\ Claimed = {"solana"} \/ "evm" \in Claimed
    /\ earned["base"] \in IF "base" \in Claimed /\ ~linked THEN {0, 3} ELSE {0}
    /\ \A w \in Workers \ {r1} : pc[w] = "idle"
    /\ \/ \A k \in Claims : cpc[k] = "idle"
       \/ book[r1].fee > 0 /\ (IF folds[r1] = 0 THEN pc[r1] = "roll" ELSE pc[r1] = "daily")

(* What is explored together.  The spending counter and the ledger share
   nothing but the step of create_transaction they hang on, the two ways into
   the ledger nothing but the rollup, and the ledger and the claims nothing
   but the cashback in it. *)
Instance == Cast /\ (Spending \/ Ledger \/ Claiming)

(* The behaviours of RewardsSpec that stay within the instance. *)
InstanceNext == (TradeStep /\ Instance') \/ (ClaimStep /\ Instance')
InstanceInit == RewardsInit /\ Instance
InstanceSpec == InstanceInit /\ [][InstanceNext]_<<vars, cashVars>>

(* All but the history that no property of this instance is about. *)
Present ==
    <<spendVars, tradeVars, pc, about, wants, pct, ledgerVars, rollVars, cashVars>>
=============================================================================
