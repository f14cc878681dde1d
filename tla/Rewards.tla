------------------------------- MODULE Rewards ------------------------------
(***************************************************************************)
(* Trades and Cashback together, for one account: the cashback that        *)
(* claim_cashback pays out of (v_account_cashback_by_chain of              *)
(* admin-service-go) is the cashback_usd that finalize_confirmed and       *)
(* record_evm_confirmed of solana-service-rs add to                        *)
(* wallet_economics_rollup.  The two services share nothing but that       *)
(* table: a statement that adds to it is a step of both.  The chain that   *)
(* Trades calls "evm" is one of the EVM chains of CLAIM_CHAINS.            *)
(***************************************************************************)
EXTENDS Trades

CONSTANTS
    Claims, ClaimChains, MinClaim, FeePer, Levels    \* of Cashback

VARIABLES    \* of Cashback
    earned, referral, peak, top, linked,
    cpc, chain, by, own, bonus, taken,
    cstatus, amount, csince, out

Cash == INSTANCE Cashback
            WITH Chains <- ClaimChains, Solana <- "solana",
                 pc <- cpc, status <- cstatus, since <- csince

(* One can claim on the chains that trades are rolled up on. *)
ASSUME RewardsAssumption == Cash!CashbackAssumption /\ Chains \subseteq ClaimChains

cashVars == <<earned, referral, peak, top, linked, cpc, chain, by, own, bonus, taken,
              cstatus, amount, csince, out>>

RewardsInit == Init /\ Cash!Init

(* What the view shows of the rollup. *)
Shown(r) == [c \in ClaimChains |-> IF c \in Chains THEN r[c].cash ELSE earned[c]]

(* A step of the trades; if it adds to a wallet's cashback, the balances that
   claims read have grown. *)
TradeStep ==
    /\ Next
    /\ earned' = Shown(roll')
    /\ IF earned' = earned THEN UNCHANGED cashVars
       ELSE /\ Cash!Keep(earned', referral)
            /\ UNCHANGED <<referral, linked, cpc, chain, by, own, bonus, taken,
                           cstatus, amount, csince, out>>

(* A step of the claims, or of trades on a chain that Trades leaves out. *)
ClaimStep ==
    /\ \/ \E c \in ClaimChains \ Chains : Cash!Earn(c)
       \/ Cash!Refer \/ Cash!Link
       \/ \E k \in Claims : Cash!ClaimCashback(k)
    /\ UNCHANGED vars

RewardsNext == TradeStep \/ ClaimStep

RewardsSpec == RewardsInit /\ [][RewardsNext]_<<vars, cashVars>>

-----------------------------------------------------------------------------
(* Properties *)

(* What an account has claimed on a chain, pending or paid, never exceeds the
   most it has earned there, whatever claims run at once, whichever fail, and
   though the balance may fall. *)
ReservedWithinEarned ==
    \A c \in ClaimChains :
        Total(amount, {k \in Claims : Cash!Live(k) /\ by[k] = "account" /\ chain[k] = c}) <= peak[c]

(* A claim whose transfer was broadcast is never handed back to the balance
   ("any other failure is ambiguous ... never a double payout"). *)
PaidIsNeverReleased == \A k \in out : Cash!Live(k)

(* For a wallet without an account the lock is per chain but the balance is
   not: what the wallet has claimed exceeds its balances only by what other
   calls reserved between some call's reading and its own reservation. *)
WalletUpToOverlap ==
    linked \/ LET all == Total(amount, {k \in Claims : Cash!Live(k)})
              IN  all <= top \/ \E k \in Claims : all <= top + csince[k]

(* What an account has claimed on a chain that referrals do not count to, paid
   or under way, is covered by the cashback of its confirmed trades there, each
   counted once: not by repeated or contradicting reports, by two claims at
   once, or by a payout whose fate is unknown. *)
ClaimsAreCovered ==
    \A c \in Chains \ {"solana"} :
        /\ Cash!AccountClaimed(c) <= Total(CashOf, Folded(c))
        /\ \A x \in Folded(c) : row[x] = "confirmed" /\ folds[x] = 1
=============================================================================
