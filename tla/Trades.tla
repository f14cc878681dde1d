------------------------------- MODULE Trades -------------------------------
(***************************************************************************)
(* One account's trades, from the spending check to the rewards rollup.    *)
(*                                                                         *)
(* A Solana trade is quoted (solana-service-rs, POST /actions/quote) under *)
(* the spending limits that auth-service-go keeps, signed and broadcast by *)
(* the user, recorded by create_transaction, which adds it to the daily    *)
(* total and opens a row of tx_economics, and later reported confirmed,    *)
(* failed or cancelled by calls of patch_transaction_status, which may be  *)
(* repeated and may contradict each other.  An EVM swap has one call,      *)
(* record_evm_confirmed, which may be repeated too; all the calls modelled *)
(* are for one swap.  Confirmed rows are folded into the rollup that the   *)
(* account's cashback tier is read from.                                   *)
(*                                                                         *)
(* Abstracted: a commission is 0 or the notional itself, cashback is the   *)
(* commission times the tier's percentage, and the tier ladder has two     *)
(* steps.  Left out: transaction_events and the columns of transactions    *)
(* other than status.  A service that stops, or a statement that fails, is *)
(* a call that takes no further step, wherever the code does not go on.    *)
(***************************************************************************)
EXTENDS Totals

CONSTANTS
    Trades,      \* Solana trades, by transactions.id
    Patches,     \* calls of patch_transaction_status
    Records,     \* calls of record_evm_confirmed, and the rows they insert
    MaxUsd,      \* the largest amount estimated for a trade, or stated
    Limits,      \* values of a spending limit; 0 is "unlimited"
    Values,      \* what a confirmed trade can turn out to be worth
    Threshold, BasePct, TopPct,   \* the tier ladder
    MaxDays      \* the number of day changes

ASSUME TradesAssumption ==
    /\ Patches \cap Records = {} /\ Trades \cap Records = {}
    /\ MaxUsd \in Nat /\ Limits \subseteq Nat /\ 0 \in Limits /\ Values \subseteq Nat
    /\ Threshold \in Nat /\ BasePct \in Nat /\ TopPct \in Nat /\ BasePct <= TopPct
    /\ MaxDays \in Nat

VARIABLES
    limits,     \* spending_limits: per transaction and per day
    spent,      \* spending_daily.total_usd of today
    day,        \* days gone by
    tpc,        \* where each trade is, up to the end of create_transaction
    usd,        \* its estimate, est_usd; 0 when no price was found
    seen,       \* the limits its check has read
    passed,     \* the trades that a check of the limits has let through (history)
    since,      \* what others added to the total since that check read it (history)
    added,      \* what each trade's own report added to it (history)
    status,     \* transactions.status, "none" before the INSERT
    row,        \* tx_economics.outcome, "none" before the INSERT
    book,       \* notional_usd, fee_usd and the tier behind cashback_usd of the row
    pc,         \* where each PATCH or record call is, its spawned part included
    about,      \* the trade a PATCH is about
    wants,      \* the status it reports
    pct,        \* the tier percentage a call has read
    peers,      \* record calls in progress when this one looked for the hash (history)
    roll,       \* wallet_economics_rollup, by chain
    daily,      \* daily_economics_rollup
    folds       \* how often each row was folded into roll (history)

spendVars == <<limits, spent, day>>
checkVars == <<usd, seen, passed, since, added>>
tradeVars == <<tpc, checkVars, status>>
callVars == <<pc, about, wants, pct, peers>>
ledgerVars == <<row, book>>
rollVars == <<roll, daily, folds>>
vars == <<spendVars, tradeVars, callVars, ledgerVars, rollVars>>

Workers == Patches \cup Records
Rows == Trades \cup Records
Chains == {"solana", "evm"}
Outcomes == {"confirmed", "failed", "cancelled"}
Chain(x) == IF x \in Trades THEN "solana" ELSE "evm"

(* The row a call works on: a record call inserts one of its own. *)
On(w) == IF w \in Patches THEN about[w] ELSE w

TypeOK ==
    /\ limits \in [perTx : Limits, perDay : Limits]
    /\ spent \in Nat /\ day \in 0..MaxDays
    /\ tpc \in [Trades -> {"idle", "quoted", "limits", "allowed", "refused",
                           "inserted", "counted", "done"}]
    /\ usd \in [Trades -> 0..MaxUsd]
    /\ seen \in [Trades -> [perTx : Limits, perDay : Limits]]
    /\ passed \in SUBSET Trades
    /\ since \in [Trades -> Nat] /\ added \in [Trades -> 0..MaxUsd]
    /\ status \in [Trades -> {"none", "pending", "submitted"} \cup Outcomes]
    /\ row \in [Rows -> {"none", "pending"} \cup Outcomes]
    /\ book \in [Rows -> [notional : Nat, fee : Nat, pct : Nat]]
    /\ pc \in [Workers -> {"idle", "update", "other", "flip", "value", "tier", "book",
                           "insert", "ledger", "roll", "daily", "done"}]
    /\ about \in [Patches -> Trades]
    /\ wants \in [Patches -> {"submitted"} \cup Outcomes]
    /\ pct \in [Workers -> Nat]
    /\ peers \in [Records -> SUBSET Records]
    /\ roll \in [Chains -> [volume : Nat, feeVolume : Nat, cash : Nat, count : Nat]]
    /\ daily \in [volume : Nat, count : Nat]
    /\ folds \in [Rows -> Nat]

NoBook == [notional |-> 0, fee |-> 0, pct |-> 0]

Init ==
    /\ limits \in [perTx : Limits, perDay : Limits] /\ spent = 0 /\ day = 0
    /\ tpc = [t \in Trades |-> "idle"] /\ usd = [t \in Trades |-> 0]
    /\ seen = [t \in Trades |-> limits] /\ passed = {}
    /\ since = [t \in Trades |-> 0] /\ added = [t \in Trades |-> 0]
    /\ status = [t \in Trades |-> "none"] /\ row = [x \in Rows |-> "none"]
    /\ book = [x \in Rows |-> NoBook]
    /\ pc = [w \in Workers |-> "idle"] /\ pct = [w \in Workers |-> 0]
    /\ about \in [Patches -> Trades] /\ wants \in [Patches -> {"submitted"} \cup Outcomes]
    /\ peers = [r \in Records |-> {}]
    /\ roll = [c \in Chains |-> [volume |-> 0, feeVolume |-> 0, cash |-> 0, count |-> 0]]
    /\ daily = [volume |-> 0, count |-> 0] /\ folds = [x \in Rows |-> 0]

-----------------------------------------------------------------------------
(* Spending limits: the user's PUT, the check and the commit *)

Clamp(v) == IF v < 0 THEN 0 ELSE v

(* Any request; -1 stands for the negative values. *)
UpsertLimits ==
    /\ limits' \in LET sent == {Clamp(v) : v \in Limits \cup {-1}}
                  IN  [perTx : sent, perDay : sent]
    /\ UNCHANGED <<spent, day, tradeVars, callVars, ledgerVars, rollVars>>

Step(t, from, to) == tpc[t] = from /\ tpc' = [tpc EXCEPT ![t] = to]

(* estimate_swap_usd answers 0 when it finds no price, and check() then
   allows the trade without asking. *)
Quote(t) ==
    /\ tpc[t] = "idle"
    /\ \E a \in 0..MaxUsd :
          /\ usd' = [usd EXCEPT ![t] = a]
          /\ tpc' = [tpc EXCEPT ![t] = IF a = 0 THEN "allowed" ELSE "quoted"]
    /\ UNCHANGED <<spendVars, seen, passed, since, added, status, callVars, ledgerVars, rollVars>>

ReadLimits(t) ==
    /\ Step(t, "quoted", "limits")
    /\ seen' = [seen EXCEPT ![t] = limits]
    /\ UNCHANGED <<spendVars, usd, passed, since, added, status, callVars, ledgerVars, rollVars>>

(* Slip: the day's total is compared before the trade is added to it. *)
WithinBefore(t) ==
    /\ seen[t].perTx = 0 \/ usd[t] <= seen[t].perTx
    /\ seen[t].perDay = 0 \/ spent <= seen[t].perDay

Within(t) ==
    /\ seen[t].perTx = 0 \/ usd[t] <= seen[t].perTx
    /\ seen[t].perDay = 0 \/ spent + usd[t] <= seen[t].perDay

ReadTotal(t) ==
    /\ Step(t, "limits", IF Within(t) THEN "allowed" ELSE "refused")
    /\ passed' = IF Within(t) THEN passed \cup {t} ELSE passed
    /\ UNCHANGED <<spendVars, usd, seen, since, added, status, callVars, ledgerVars, rollVars>>

(* The check is closed: an error or a timeout refuses the trade. *)
CheckFails(t) ==
    /\ Step(t, "quoted", "refused") \/ Step(t, "limits", "refused")
    /\ UNCHANGED <<spendVars, checkVars, status, callVars, ledgerVars, rollVars>>

(* create_transaction, which the user's side calls after it has broadcast a
   trade.  It asks for no quote and no check, and the amount it counts is the
   one the request states. *)
InsertTransaction(t) ==
    /\ \E from \in {"idle", "allowed", "refused"} : Step(t, from, "inserted")
    /\ status' = [status EXCEPT ![t] = "pending"]
    /\ UNCHANGED <<spendVars, checkVars, callVars, ledgerVars, rollVars>>

Commit(t) ==
    /\ Step(t, "inserted", "counted")
    /\ \E a \in 1..MaxUsd :
          /\ spent' = spent + a
          /\ added' = [added EXCEPT ![t] = a]
          /\ since' = [u \in Trades |-> IF u \in passed \ {t} THEN since[u] + a ELSE since[u]]
    /\ UNCHANGED <<limits, day, usd, seen, passed, status, callVars, ledgerVars, rollVars>>

(* The request states no amount, or the commit failed, which is only logged. *)
NotCommitted(t) ==
    /\ Step(t, "inserted", "counted")
    /\ UNCHANGED <<spendVars, checkVars, status, callVars, ledgerVars, rollVars>>

RecordPending(t) ==
    /\ Step(t, "counted", "done")
    /\ row' = [row EXCEPT ![t] = IF @ = "none" THEN "pending" ELSE @]
    /\ UNCHANGED <<spendVars, checkVars, status, book, callVars, rollVars>>

PendingNotRecorded(t) ==
    /\ Step(t, "counted", "done")
    /\ UNCHANGED <<spendVars, checkVars, status, callVars, ledgerVars, rollVars>>

NewDay ==
    /\ day < MaxDays
    /\ day' = day + 1 /\ spent' = 0
    /\ UNCHANGED <<limits, tradeVars, callVars, ledgerVars, rollVars>>

CreateTransaction(t) ==
    \/ InsertTransaction(t) \/ Commit(t) \/ NotCommitted(t)
    \/ RecordPending(t) \/ PendingNotRecorded(t)

CheckSpending(t) == Quote(t) \/ ReadLimits(t) \/ ReadTotal(t) \/ CheckFails(t)

-----------------------------------------------------------------------------
(* patch_transaction_status *)

Go(w, from, to) == pc[w] = from /\ pc' = [pc EXCEPT ![w] = to]

PatchRead(p) ==
    /\ status[about[p]] # "none"
    /\ Go(p, "idle", "update")
    /\ UNCHANGED <<spendVars, tradeVars, about, wants, pct, peers, ledgerVars, rollVars>>

(* The UPDATE asks nothing of the status it overwrites. *)
PatchUpdate(p) ==
    /\ Go(p, "update", CASE wants[p] = "submitted" -> "done"
                         [] wants[p] = "confirmed" -> "flip"
                         [] OTHER -> "other")
    /\ status' = [status EXCEPT ![about[p]] = wants[p]]
    /\ UNCHANGED <<spendVars, tpc, checkVars, about, wants, pct, peers, ledgerVars,
                    rollVars>>

(* Slip: finalize_other writes over any outcome. *)
FinalizeOtherAny(p) ==
    /\ wants[p] \in {"failed", "cancelled"}
    /\ Go(p, "other", "done")
    /\ row' = [row EXCEPT ![about[p]] = IF @ = "none" THEN @ ELSE wants[p]]
    /\ UNCHANGED <<spendVars, tradeVars, about, wants, pct, peers, book, rollVars>>

FinalizeOther(p) ==
    /\ wants[p] \in {"failed", "cancelled"}
    /\ Go(p, "other", "done")
    /\ row' = [row EXCEPT ![about[p]] = IF @ = "pending" THEN wants[p] ELSE @]
    /\ UNCHANGED <<spendVars, tradeVars, about, wants, pct, peers, book, rollVars>>

(* Slip: the UPDATE does not exclude a row that is confirmed already. *)
FlipAny(p) ==
    /\ row[about[p]] # "none"
    /\ Go(p, "flip", "value")
    /\ row' = [row EXCEPT ![about[p]] = "confirmed"]
    /\ UNCHANGED <<spendVars, tradeVars, about, wants, pct, peers, book, rollVars>>

(* finalize_confirmed: the UPDATE that only one call can win *)
Flip(p) ==
    /\ row[about[p]] \notin {"none", "confirmed"}
    /\ Go(p, "flip", "value")
    /\ row' = [row EXCEPT ![about[p]] = "confirmed"]
    /\ UNCHANGED <<spendVars, tradeVars, about, wants, pct, peers, book, rollVars>>

FlipNothing(p) ==
    /\ row[about[p]] \in {"none", "confirmed"}
    /\ Go(p, "flip", "done")
    /\ UNCHANGED <<spendVars, tradeVars, about, wants, pct, peers, ledgerVars, rollVars>>

(* confirmed_trade_value reads the trade off the chain, or cannot, and the
   row is then rolled up as it is. *)
ReadChain(p) ==
    /\ Go(p, "value", "tier") \/ Go(p, "value", "roll")
    /\ UNCHANGED <<spendVars, tradeVars, about, wants, pct, peers, ledgerVars, rollVars>>

Pooled == roll["solana"].feeVolume + roll["evm"].feeVolume

CashbackPct(v) == IF v >= Threshold THEN TopPct ELSE BasePct

(* Slip: the tier is read with the trade's own volume counted in. *)
ReadTierOwn(w) ==
    /\ Go(w, "tier", IF w \in Patches THEN "book" ELSE "insert")
    /\ \E v \in Values : pct' = [pct EXCEPT ![w] = CashbackPct(Pooled + v)]
    /\ UNCHANGED <<spendVars, tradeVars, about, wants, peers, ledgerVars, rollVars>>

(* account_tier_volume_usd answers 0 when it cannot read the rollup. *)
ReadTier(w) ==
    /\ Go(w, "tier", IF w \in Patches THEN "book" ELSE "insert")
    /\ \E v \in {Pooled, 0} : pct' = [pct EXCEPT ![w] = CashbackPct(v)]
    /\ UNCHANGED <<spendVars, tradeVars, about, wants, peers, ledgerVars, rollVars>>

(* The value of row x as the call w books it: any notional, with or without
   a commission that landed. *)
Booked(w, x) ==
    \E v \in Values : \E f \in {0, v} :
        book' = [book EXCEPT ![x] = [notional |-> v, fee |-> f, pct |-> pct[w]]]

(* Slip: the value is booked after the rollup has read the row. *)
BookLate(p) ==
    /\ Go(p, "daily", "done")
    /\ Booked(p, about[p])
    /\ UNCHANGED <<spendVars, tradeVars, about, wants, pct, peers, row, rollVars>>

Book(p) ==
    /\ Go(p, "book", "roll")
    /\ Booked(p, about[p])
    /\ UNCHANGED <<spendVars, tradeVars, about, wants, pct, peers, row, rollVars>>

BookFails(p) ==
    /\ Go(p, "book", "roll")
    /\ UNCHANGED <<spendVars, tradeVars, about, wants, pct, peers, ledgerVars, rollVars>>

(* The two rollups, of either kind of row; a failure of one is only logged
   and the other follows. *)
FeeVolume(b) == IF b.fee > 0 THEN b.notional ELSE 0

(* Slip: cashback is rolled up at the tier that the trade itself leads to. *)
FoldAtTierNow(w) ==
    LET x == On(w)  b == book[x]
    IN  /\ Go(w, "roll", "daily")
        /\ roll' = [roll EXCEPT ![Chain(x)] =
                       [volume |-> @.volume + b.notional, feeVolume |-> @.feeVolume + FeeVolume(b),
                        cash |-> @.cash + b.fee * CashbackPct(Pooled + FeeVolume(b)), count |-> @.count + 1]]
        /\ folds' = [folds EXCEPT ![x] = @ + 1]
        /\ UNCHANGED <<spendVars, tradeVars, about, wants, pct, peers, ledgerVars, daily>>

Fold(w) ==
    LET x == On(w)  b == book[x]
    IN  /\ Go(w, "roll", "daily")
        /\ roll' = [roll EXCEPT ![Chain(x)] =
                       [volume |-> @.volume + b.notional, feeVolume |-> @.feeVolume + FeeVolume(b),
                        cash |-> @.cash + b.fee * b.pct, count |-> @.count + 1]]
        /\ folds' = [folds EXCEPT ![x] = @ + 1]
        /\ UNCHANGED <<spendVars, tradeVars, about, wants, pct, peers, ledgerVars, daily>>

FoldFails(w) ==
    /\ Go(w, "roll", "daily")
    /\ UNCHANGED <<spendVars, tradeVars, about, wants, pct, peers, ledgerVars, rollVars>>

FoldDaily(w) ==
    /\ Go(w, "daily", "done")
    /\ daily' = [volume |-> daily.volume + book[On(w)].notional, count |-> daily.count + 1]
    /\ UNCHANGED <<spendVars, tradeVars, about, wants, pct, peers, ledgerVars, roll, folds>>

PatchStatus(p) ==
    \/ PatchRead(p) \/ PatchUpdate(p) \/ FinalizeOther(p) \/ Flip(p) \/ FlipNothing(p)
    \/ ReadChain(p) \/ ReadTier(p) \/ Book(p) \/ BookFails(p)
    \/ Fold(p) \/ FoldFails(p) \/ FoldDaily(p)

-----------------------------------------------------------------------------
(* record_evm_confirmed, for one (tx_signature, chain) *)

Busy(r) == pc[r] \in {"tier", "insert", "ledger"}
Hashed == {r \in Records : row[r] = "confirmed"}

Seek(r) ==
    /\ Go(r, "idle", IF Hashed = {} THEN "tier" ELSE "done")
    /\ peers' = [peers EXCEPT ![r] = {q \in Records : Busy(q)}]
    /\ UNCHANGED <<spendVars, tradeVars, about, wants, pct, ledgerVars, rollVars>>

(* The SELECT fails, which is taken for "not recorded yet". *)
SeekBlind(r) ==
    /\ Go(r, "idle", "tier")
    /\ peers' = [peers EXCEPT ![r] = Records]
    /\ UNCHANGED <<spendVars, tradeVars, about, wants, pct, ledgerVars, rollVars>>

InsertHistory(r) ==
    /\ Go(r, "insert", "ledger")
    /\ UNCHANGED <<spendVars, tradeVars, about, wants, pct, peers, ledgerVars, rollVars>>

InsertRow(r) ==
    /\ Go(r, "ledger", "roll")
    /\ row' = [row EXCEPT ![r] = "confirmed"]
    /\ Booked(r, r)
    /\ UNCHANGED <<spendVars, tradeVars, about, wants, pct, peers, rollVars>>

(* Either INSERT fails and the call returns. *)
InsertFails(r) ==
    /\ Go(r, "insert", "done") \/ Go(r, "ledger", "done")
    /\ UNCHANGED <<spendVars, tradeVars, about, wants, pct, peers, ledgerVars, rollVars>>

RecordEvm(r) ==
    \/ Seek(r) \/ SeekBlind(r) \/ ReadTier(r) \/ InsertHistory(r) \/ InsertRow(r)
    \/ InsertFails(r) \/ Fold(r) \/ FoldFails(r) \/ FoldDaily(r)

-----------------------------------------------------------------------------

Next ==
    \/ UpsertLimits \/ NewDay
    \/ \E t \in Trades : CheckSpending(t) \/ CreateTransaction(t)
    \/ \E p \in Patches : PatchStatus(p)
    \/ \E r \in Records : RecordEvm(r)

Spec == Init /\ [][Next]_vars

-----------------------------------------------------------------------------
(* Properties *)

(* What the two requests of a trade (spending_handler.go) make of the daily
   limit: once a check under a limit has let a trade through, the day's total
   exceeds that limit by no more than what others have added to it since the
   check read it, and what the trade reported beyond the amount it was checked
   for.  A trade reported as it was checked, with no other reported meanwhile,
   does not exceed it, whatever was reported before, checked or not. *)
Unchecked(t) == Clamp(added[t] - usd[t])

CapHoldsUpToReports ==
    \A t \in passed :
        seen[t].perDay > 0 => spent <= seen[t].perDay + since[t] + Unchecked(t)

(* However often and in whatever order a trade is reported, its row is added
   to the wallet's rollup at most once, and only a confirmed row is
   (finalize_confirmed: "prevents double-counting on retries"). *)
FoldedOnce == \A x \in Rows : folds[x] <= 1 /\ (folds[x] = 1 => row[x] = "confirmed")

Folded(c) == {x \in Rows : folds[x] > 0 /\ Chain(x) = c}

NotionalOf == [x \in Rows |-> book[x].notional]
CashOf == [x \in Rows |-> book[x].fee * book[x].pct]

(* The rollup of each chain, which tiers and cashback are paid from, is the
   sum of the rows folded into it as they stand now: no booked value changes
   after it was rolled up. *)
RollupIsSum ==
    \A c \in Chains :
        /\ roll[c].count = Cardinality(Folded(c))
        /\ roll[c].volume = Total(NotionalOf, Folded(c))
        /\ roll[c].cash = Total(CashOf, Folded(c))

(* No trade raises its own tier: the percentage a row was booked at is no
   higher than the one the account's other folded trades give it ("the tier
   it held while trading"). *)
NeverInflated ==
    \A x \in Rows : book[x].pct <= CashbackPct(IF folds[x] > 0 THEN Pooled - FeeVolume(book[x]) ELSE Pooled)

(* "Idempotent on `tx_signature` (the EVM tx hash): a replayed confirm inserts
   nothing twice": the swap has one row in the ledger, however it is reported. *)
RecordedOnce == \A r, q \in Hashed : r = q

(* What does hold: it is in the ledger twice only if its two record calls
   overlapped or the later one's look-up failed; a replay after the first call
   returned inserts nothing. *)
RecordedTwiceOnlyTogether ==
    \A r, q \in Hashed : r # q => r \in peers[q] \/ q \in peers[r]

(* A confirmed row stays confirmed, whatever later reports say. *)
ConfirmedIsFinal == [][\A x \in Rows : row[x] = "confirmed" => row'[x] = "confirmed"]_vars
=============================================================================
