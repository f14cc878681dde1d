------------------------------ MODULE Cashback ------------------------------
(***************************************************************************)
(* Claiming cashback: claim_cashback of chat-service-py (app/main.py), the *)
(* balances it reads (admin-service-go/sql/analytics_views.sql) and the    *)
(* two ways of paying out, evm_payout.payout and the Solana service's      *)
(* cashback-payout route.                                                  *)
(*                                                                         *)
(* One person claims, with one wallet that may not be linked to an account *)
(* yet.  A claim reserves the whole balance of a chain under an advisory   *)
(* lock and pays outside it; the row is released only when the payout was  *)
(* turned away before anything was broadcast.  Own cashback grows as       *)
(* trades are rolled up; referral cashback also falls, when a referee's    *)
(* wallet turns out to be of the same account.                             *)
(*                                                                         *)
(* Amounts are whole units, and the claim fee is taken per unit.  Both     *)
(* treasuries are configured and the recipient's addresses are known.  A   *)
(* stopped service is a call that takes no further step.                   *)
(***************************************************************************)
EXTENDS Integers, FiniteSetsExt, Totals

CONSTANTS
    Claims,      \* calls of claim_cashback, and the rows they insert
    Chains,      \* CLAIM_CHAINS
    Solana,      \* the chain that the Solana service pays and referrals count to
    MinClaim,    \* MIN_CLAIM_USD, of both services
    FeePer,      \* one unit of claim fee per so many units (CLAIM_FEE_PCT)
    Levels       \* the values each balance can take, besides 0

(* What claim_cashback relies on of its settings. *)
CashbackAssumption ==
    /\ Solana \in Chains
    /\ MinClaim \in Nat \ {0} /\ FeePer \in Nat \ {0} /\ Levels \subseteq Nat \ {0}

VARIABLES
    earned,     \* lifetime_cashback_usd of the rollup, by chain
    referral,   \* referral_cashback_usd
    peak, top,  \* the most each chain's balance, and one of an unlinked
                \* wallet, has ever been (history)
    linked,     \* the wallet is in v_wallet_account
    pc,         \* where each call is
    chain,      \* the chain it claims
    by,         \* what it claims for: the account or, unlinked, the wallet
    own, bonus, taken,   \* what it has read: cashback, referral, claims
    status,     \* cashback_claims.status, "none" before the INSERT
    amount,     \* cashback_claims.amount_usd
    since,      \* what others reserved between its reading and its INSERT (history)
    out         \* claims whose transfer was broadcast

balanceVars == <<earned, referral, peak, top, linked>>
readVars == <<chain, by, own, bonus, taken>>
rowVars == <<status, amount, since>>
vars == <<balanceVars, pc, readVars, rowVars, out>>

TypeOK ==
    /\ earned \in [Chains -> {0} \cup Levels] /\ referral \in {0} \cup Levels
    /\ peak \in [Chains -> Nat] /\ top \in Nat /\ linked \in BOOLEAN
    /\ pc \in [Claims -> {"idle", "waiting", "own", "referral", "claimed", "decide",
                          "paying", "refused", "lost", "sent", "done"}]
    /\ chain \in [Claims -> Chains] /\ by \in [Claims -> {"account", "wallet"}]
    /\ own \in [Claims -> Nat] /\ bonus \in [Claims -> Nat] /\ taken \in [Claims -> Nat]
    /\ status \in [Claims -> {"none", "pending", "paid", "failed"}]
    /\ amount \in [Claims -> Nat] /\ since \in [Claims -> Nat]
    /\ out \subseteq Claims
    /\ \A k \in Claims : status[k] # "none" => amount[k] >= MinClaim

Init ==
    /\ earned = [c \in Chains |-> 0] /\ referral = 0 /\ peak = [c \in Chains |-> 0]
    /\ top = 0 /\ linked \in BOOLEAN
    /\ pc = [k \in Claims |-> "idle"] /\ chain \in [Claims -> Chains]
    /\ by = [k \in Claims |-> "wallet"]
    /\ own = [k \in Claims |-> 0] /\ bonus = [k \in Claims |-> 0] /\ taken = [k \in Claims |-> 0]
    /\ status = [k \in Claims |-> "none"] /\ amount = [k \in Claims |-> 0]
    /\ since = [k \in Claims |-> 0] /\ out = {}

-----------------------------------------------------------------------------
(* The balances *)

(* Referral cashback is attributed to Solana's balance. *)
Balance(c, e, r) == e[c] + (IF c = Solana THEN r ELSE 0)

Keep(e, r) ==
    /\ peak' = [c \in Chains |-> Max({peak[c], Balance(c, e, r)})]
    /\ top' \in {top} \cup {e[c] + r : c \in Chains}
    /\ top' >= top /\ \A c \in Chains : top' >= e[c] + r

Earn(c) ==
    /\ \E n \in Levels : n > earned[c] /\ earned' = [earned EXCEPT ![c] = n]
    /\ Keep(earned', referral)
    /\ UNCHANGED <<referral, linked, pc, readVars, rowVars, out>>

Refer ==
    /\ referral' \in {0} \cup Levels
    /\ referral' > referral \/ (referral' = 0 /\ referral > 0)
    /\ Keep(earned, referral')
    /\ UNCHANGED <<earned, linked, pc, readVars, rowVars, out>>

Link ==
    /\ ~linked
    /\ linked' = TRUE
    /\ UNCHANGED <<earned, referral, peak, top, pc, readVars, rowVars, out>>

-----------------------------------------------------------------------------
(* claim_cashback, up to the reservation *)

Live(k) == status[k] \in {"pending", "paid"}

(* Slip: a claim whose payout is under way is not counted. *)
PaidOnly(k) == status[k] = "paid"

Counts(k) == Live(k)

AccountClaimed(c) == Total(amount, {k \in Claims : Counts(k) /\ by[k] = "account" /\ chain[k] = c})
WalletClaimed == Total(amount, {k \in Claims : Counts(k)})

Go(k, from, to) == pc[k] = from /\ pc' = [pc EXCEPT ![k] = to]

Resolve(k) ==
    /\ Go(k, "idle", "waiting")
    /\ by' = [by EXCEPT ![k] = IF linked THEN "account" ELSE "wallet"]
    /\ UNCHANGED <<balanceVars, chain, own, bonus, taken, rowVars, out>>

Locked(k) == pc[k] \in {"own", "referral", "claimed", "decide"}

(* Slip: the lock is of the person who claims and the moment, not of the
   account and chain. *)
LockNothing(k) ==
    /\ Go(k, "waiting", "own")
    /\ UNCHANGED <<balanceVars, readVars, rowVars, out>>

(* pg_advisory_xact_lock on "<account or wallet>:<chain>", held up to the
   commit of the row. *)
Lock(k) ==
    /\ \A m \in Claims : Locked(m) => by[m] # by[k] \/ chain[m] # chain[k]
    /\ Go(k, "waiting", "own")
    /\ UNCHANGED <<balanceVars, readVars, rowVars, out>>

ReadOwn(k) ==
    /\ by[k] = "account"
    /\ Go(k, "own", IF chain[k] = Solana THEN "referral" ELSE "claimed")
    /\ own' = [own EXCEPT ![k] = earned[chain[k]]]
    /\ UNCHANGED <<balanceVars, chain, by, bonus, taken, rowVars, out>>

ReadReferral(k) ==
    /\ Go(k, "referral", "claimed")
    /\ bonus' = [bonus EXCEPT ![k] = referral]
    /\ UNCHANGED <<balanceVars, chain, by, own, taken, rowVars, out>>

ReadClaimed(k) ==
    /\ Go(k, "claimed", "decide")
    /\ taken' = [taken EXCEPT ![k] = AccountClaimed(chain[k])]
    /\ UNCHANGED <<balanceVars, chain, by, own, bonus, rowVars, out>>

(* Unlinked: v_user_cashback has one row per chain the wallet traded on, each
   less all of the wallet's claims, and the query takes the first. *)
ReadView(k) ==
    /\ by[k] = "wallet"
    /\ Go(k, "own", "decide")
    /\ \E c \in Chains : own' = [own EXCEPT ![k] = earned[c] + referral]
    /\ taken' = [taken EXCEPT ![k] = WalletClaimed]
    /\ UNCHANGED <<balanceVars, chain, by, bonus, rowVars, out>>

Claimable(k) == Max({0, own[k] + bonus[k] - taken[k]})

(* The locals end with the transaction. *)
Forget(k) ==
    /\ own' = [own EXCEPT ![k] = 0] /\ bonus' = [bonus EXCEPT ![k] = 0]
    /\ taken' = [taken EXCEPT ![k] = 0]

Refuse(k) ==
    /\ Claimable(k) < MinClaim
    /\ Go(k, "decide", "done")
    /\ Forget(k)
    /\ UNCHANGED <<balanceVars, chain, by, rowVars, out>>

Reserve(k) ==
    /\ Claimable(k) >= MinClaim
    /\ Go(k, "decide", "paying")
    /\ status' = [status EXCEPT ![k] = "pending"]
    /\ amount' = [amount EXCEPT ![k] = Claimable(k)]
    /\ since' = [m \in Claims |-> since[m] + (IF m # k /\ pc[m] = "decide" THEN Claimable(k) ELSE 0)]
    /\ Forget(k)
    /\ UNCHANGED <<balanceVars, chain, by, out>>

-----------------------------------------------------------------------------
(* The payout, outside the lock *)

Net(a) == a - a \div FeePer

(* What the payer turns away before it broadcasts: the Solana service a net
   amount under its own minimum; an EVM payout that the gas would eat up,
   whatever its size. *)
TooSmall(k) == IF chain[k] = Solana THEN Net(amount[k]) < MinClaim ELSE TRUE

PayRefused(k) ==
    /\ TooSmall(k)
    /\ Go(k, "paying", "refused")
    /\ UNCHANGED <<balanceVars, readVars, rowVars, out>>

Release(k) ==
    /\ Go(k, "refused", "done")
    /\ status' = [status EXCEPT ![k] = "failed"]
    /\ UNCHANGED <<balanceVars, readVars, amount, since, out>>

(* The transfer goes out, possibly after the caller stopped waiting. *)
Broadcast(k) ==
    /\ chain[k] = Solana => Net(amount[k]) >= MinClaim
    /\ Go(k, "paying", "sent") \/ Go(k, "lost", "done")
    /\ out' = out \cup {k}
    /\ UNCHANGED <<balanceVars, readVars, rowVars>>

(* Slip: an EVM payout that was sent and then failed releases the claim. *)
LoseReleased(k) ==
    /\ Go(k, "paying", "lost") \/ Go(k, "sent", "done")
    /\ status' = IF chain[k] = Solana \/ pc[k] = "paying" THEN status
                 ELSE [status EXCEPT ![k] = "failed"]
    /\ UNCHANGED <<balanceVars, readVars, amount, since, out>>

(* A timeout, or any answer but 200 and 400: nobody knows whether the
   transfer went out, and the row stays pending. *)
Lose(k) ==
    /\ Go(k, "paying", "lost") \/ Go(k, "sent", "done")
    /\ UNCHANGED <<balanceVars, readVars, rowVars, out>>

MarkPaid(k) ==
    /\ Go(k, "sent", "done")
    /\ status' = [status EXCEPT ![k] = "paid"]
    /\ UNCHANGED <<balanceVars, readVars, amount, since, out>>

ClaimCashback(k) ==
    \/ Resolve(k) \/ Lock(k) \/ ReadOwn(k) \/ ReadReferral(k) \/ ReadClaimed(k) \/ ReadView(k)
    \/ Refuse(k) \/ Reserve(k)
    \/ PayRefused(k) \/ Release(k) \/ Broadcast(k) \/ Lose(k) \/ MarkPaid(k)

Next ==
    \/ \E c \in Chains : Earn(c)
    \/ Refer \/ Link
    \/ \E k \in Claims : ClaimCashback(k)

Spec == Init /\ [][Next]_vars
=============================================================================
