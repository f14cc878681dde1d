---------------------------- MODULE RewardsProofs ---------------------------
(***************************************************************************)
(* Proofs about Trades, Cashback and their composition Rewards, for any    *)
(* number of trades, reports, record calls and claims, any limits, values  *)
(* and balances, any chains to claim on and any two-step tier ladder.      *)
(***************************************************************************)
EXTENDS Rewards, FiniteSetTheorems, TLAPS

-----------------------------------------------------------------------------
(* Facts about totals *)

LEMMA UnitsAre ==
    ASSUME NEW f, NEW S, NEW z
    PROVE  z \in Units(f, S) <=> \E x \in S : \E i \in 1..f[x] : z = <<x, i>>
BY DEF Units

(* Nothing adds up to nothing. *)
LEMMA TotalOfNone ==
    ASSUME NEW f
    PROVE  IsFiniteSet(Units(f, {})) /\ Total(f, {}) = 0
<1>1. Units(f, {}) = {}
  BY DEF Units
<1>. QED BY <1>1, FS_EmptySet DEF Total

(* A total depends on the amounts of its elements only. *)
LEMMA TotalSame ==
    ASSUME NEW f, NEW g, NEW S, \A x \in S : f[x] = g[x]
    PROVE  Units(f, S) = Units(g, S) /\ Total(f, S) = Total(g, S)
<1>1. \A z : z \in Units(f, S) <=> z \in Units(g, S)
  BY UnitsAre
<1>2. Units(f, S) = Units(g, S)
  BY <1>1 DEF Units
<1>. QED BY <1>2 DEF Total

(* A part adds up to no more than the whole. *)
LEMMA TotalOfPart ==
    ASSUME NEW f, NEW S, NEW T \in SUBSET S, IsFiniteSet(Units(f, S))
    PROVE  /\ IsFiniteSet(Units(f, T)) /\ Total(f, T) \in Nat /\ Total(f, S) \in Nat
           /\ Total(f, T) <= Total(f, S)
<1>1. Units(f, T) \in SUBSET Units(f, S)
  BY DEF Units
<1>. QED BY <1>1, FS_Subset, FS_CardinalityType DEF Total

(* One more element adds its amount. *)
LEMMA TotalAdd ==
    ASSUME NEW f, NEW S, NEW x, x \notin S, f[x] \in Nat, IsFiniteSet(Units(f, S))
    PROVE  /\ IsFiniteSet(Units(f, S \cup {x})) /\ Total(f, S) \in Nat
           /\ Total(f, S \cup {x}) = Total(f, S) + f[x]
<1>. DEFINE New == {x} \X (1..f[x])
<1>1. Units(f, S \cup {x}) = Units(f, S) \cup New
  BY DEF Units
<1>2. Units(f, S) \cap New = {}
  BY UnitsAre
<1>3. IsFiniteSet(New) /\ Cardinality(New) = f[x]
  <2>1. IsFiniteSet({x}) /\ Cardinality({x}) = 1
    BY FS_Singleton
  <2>2. IsFiniteSet(1..f[x]) /\ Cardinality(1..f[x]) = f[x]
    BY FS_Interval
  <2>3. /\ IsFiniteSet({x} \X (1..f[x]))
        /\ Cardinality({x} \X (1..f[x])) = Cardinality({x}) * Cardinality(1..f[x])
    <3>. HIDE DEF New
    <3>. QED BY <2>1, <2>2, FS_Product
  <2>4. 1 * f[x] = f[x]
    OBVIOUS
  <2>. QED BY <2>1, <2>2, <2>3, <2>4
<1>. HIDE DEF New
<1>4. Cardinality(Units(f, S)) \in Nat /\ Cardinality(Units(f, S) \cap New) = 0
  BY <1>2, FS_CardinalityType, FS_EmptySet
<1>5. /\ IsFiniteSet(Units(f, S) \cup New)
      /\ Cardinality(Units(f, S) \cup New) = Cardinality(Units(f, S)) + f[x]
  <2>1. /\ IsFiniteSet(Units(f, S) \cup New)
        /\ Cardinality(Units(f, S) \cup New)
             = Cardinality(Units(f, S)) + Cardinality(New) - Cardinality(Units(f, S) \cap New)
    BY <1>3, FS_Union
  <2>. QED BY <1>3, <1>4, <2>1
<1>. QED BY <1>1, <1>4, <1>5 DEF Total

-----------------------------------------------------------------------------
(* The inductive invariant *)

(* Before its report is counted a trade that passed still has room for itself,
   and it adds to the total once. *)
CapInv ==
    /\ \A t \in Trades : tpc[t] \notin {"counted", "done"} => added[t] = 0
    /\ \A t \in passed :
          /\ tpc[t] \notin {"idle", "quoted", "limits"}
          /\ seen[t].perDay > 0
                => /\ tpc[t] \notin {"counted", "done"} =>
                          spent + usd[t] <= seen[t].perDay + since[t]
                   /\ spent <= seen[t].perDay + since[t] + Unchecked(t)

(* The part of finalize_confirmed between its UPDATE and its rollup. *)
Finalizing == {"value", "tier", "book", "roll"}

(* Only the call that confirmed a row is finalizing it, and has not folded it. *)
FoldInv ==
    /\ FoldedOnce
    /\ \A p \in Patches :
          /\ pc[p] \notin {"insert", "ledger"}
          /\ pc[p] \in Finalizing => row[about[p]] = "confirmed" /\ folds[about[p]] = 0
    /\ \A p, q \in Patches :
          p # q /\ pc[p] \in Finalizing /\ pc[q] \in Finalizing => about[p] # about[q]
    /\ \A r \in Records :
          /\ pc[r] \in {"idle", "tier", "insert", "ledger", "roll", "daily", "done"}
          /\ pc[r] = "roll" => row[r] = "confirmed" /\ folds[r] = 0
          /\ pc[r] \in {"idle", "tier", "insert", "ledger"} => row[r] = "none" /\ folds[r] = 0

TierInv ==
    /\ \A w \in Workers : pct[w] <= CashbackPct(Pooled)
    /\ NeverInflated

(* A record call that can still insert, or has inserted, and another such
   call saw each other. *)
Active(r) == Busy(r) \/ r \in Hashed
PeerInv == \A r, q \in Records : r # q /\ Active(r) /\ Active(q) => r \in peers[q] \/ q \in peers[r]

(* The sums are over finitely many rows and units. *)
RollInv ==
    /\ RollupIsSum
    /\ \A c \in Chains : /\ IsFiniteSet(Folded(c)) /\ IsFiniteSet(Units(NotionalOf, Folded(c)))
                         /\ IsFiniteSet(Units(CashOf, Folded(c)))

IInv == TypeOK /\ CapInv /\ FoldInv /\ TierInv /\ PeerInv /\ RollInv

-----------------------------------------------------------------------------
(* Facts about the operators *)

(* A larger volume never lowers the tier. *)
LEMMA PctMonotone ==
    ASSUME NEW a \in Int, NEW b \in Int, a <= b
    PROVE  /\ CashbackPct(a) \in Nat /\ BasePct <= CashbackPct(a)
           /\ CashbackPct(a) <= CashbackPct(b)
BY TradesAssumption DEF CashbackPct

(* The pooled volume is a number and a fee volume is one too. *)
LEMMA Numbers ==
    ASSUME TypeOK
    PROVE  /\ Pooled \in Nat
           /\ \A x \in Rows : /\ book[x].notional \in Nat /\ book[x].fee \in Nat /\ book[x].pct \in Nat
                              /\ FeeVolume(book[x]) \in Nat
           /\ \A w \in Workers : pct[w] \in Nat
<1>1. \A c \in Chains : roll[c].feeVolume \in Nat
  BY DEF TypeOK
<1>2. Pooled \in Nat
  BY <1>1 DEF Pooled, Chains
<1>3. \A x \in Rows : book[x].notional \in Nat /\ book[x].fee \in Nat /\ book[x].pct \in Nat
  BY DEF TypeOK
<1>4. \A x \in Rows : FeeVolume(book[x]) \in Nat
  BY <1>3 DEF FeeVolume
<1>5. \A w \in Workers : pct[w] \in Nat
  BY DEF TypeOK
<1>. QED BY <1>2, <1>3, <1>4, <1>5

(* The row a call works on is a row, and calls and rows of the two kinds are
   not confused. *)
LEMMA RowsOf ==
    ASSUME TypeOK
    PROVE  /\ \A w \in Workers : On(w) \in Rows
           /\ \A p \in Patches : about[p] \in Trades /\ about[p] \in Rows /\ about[p] \notin Records
                                 /\ On(p) = about[p] /\ p \notin Records
           /\ \A r \in Records : On(r) = r /\ r \notin Trades /\ r \notin Patches /\ r \in Rows
BY TradesAssumption DEF TypeOK, On, Workers, Rows

LEMMA ChainIsOne == \A x : Chain(x) \in Chains
BY DEF Chain, Chains

-----------------------------------------------------------------------------
(* Type correctness *)

(* Every step of the specification keeps the types. *)
LEMMA TypeStep == ASSUME TypeOK, [Next]_vars PROVE TypeOK'
<1>. USE TradesAssumption
<1>. USE DEF Step, Go, Outcomes
<1>1. CASE UpsertLimits
  <2>1. limits' \in [perTx : Limits, perDay : Limits]
    <3>1. {Clamp(v) : v \in Limits \cup {-1}} \subseteq Limits
      BY DEF Clamp
    <3>. QED BY <1>1, <3>1 DEF UpsertLimits
  <2>. QED BY <1>1, <2>1 DEF UpsertLimits, TypeOK, spendVars, tradeVars, checkVars, callVars, ledgerVars, rollVars
<1>2. CASE NewDay
  BY <1>2 DEF NewDay, TypeOK, spendVars, tradeVars, checkVars, callVars, ledgerVars, rollVars
<1>3. ASSUME NEW t \in Trades, CheckSpending(t) \/ CreateTransaction(t) PROVE TypeOK'
  <2>1. CASE Quote(t)
    BY <2>1, <1>3 DEF Quote, TypeOK, spendVars, tradeVars, checkVars, callVars, ledgerVars, rollVars
  <2>2. CASE ReadLimits(t)
    BY <2>2, <1>3 DEF ReadLimits, TypeOK, spendVars, tradeVars, checkVars, callVars, ledgerVars, rollVars
  <2>3. CASE ReadTotal(t)
    BY <2>3, <1>3 DEF ReadTotal, TypeOK, spendVars, tradeVars, checkVars, callVars, ledgerVars, rollVars
  <2>4. CASE CheckFails(t)
    BY <2>4, <1>3 DEF CheckFails, TypeOK, spendVars, tradeVars, checkVars, callVars, ledgerVars, rollVars
  <2>5. CASE InsertTransaction(t)
    BY <2>5, <1>3 DEF InsertTransaction, TypeOK, spendVars, tradeVars, checkVars, callVars, ledgerVars, rollVars
  <2>6. CASE Commit(t)
    BY <2>6, <1>3 DEF Commit, TypeOK, spendVars, tradeVars, checkVars, callVars, ledgerVars, rollVars
  <2>7. CASE NotCommitted(t)
    BY <2>7, <1>3 DEF NotCommitted, TypeOK, spendVars, tradeVars, checkVars, callVars, ledgerVars, rollVars
  <2>8. CASE RecordPending(t)
    BY <2>8, <1>3 DEF RecordPending, TypeOK, spendVars, tradeVars, checkVars, callVars, ledgerVars, rollVars, Rows
  <2>9. CASE PendingNotRecorded(t)
    BY <2>9, <1>3 DEF PendingNotRecorded, TypeOK, spendVars, tradeVars, checkVars, callVars, ledgerVars, rollVars
  <2>. QED BY <1>3, <2>1, <2>2, <2>3, <2>4, <2>5, <2>6, <2>7, <2>8, <2>9 DEF CheckSpending, CreateTransaction
<1>4. ASSUME NEW w \in Workers, ReadTier(w) \/ Fold(w) \/ FoldFails(w) \/ FoldDaily(w) PROVE TypeOK'
  <2>1. CASE ReadTier(w)
    <3>1. CashbackPct(Pooled) \in Nat /\ CashbackPct(0) \in Nat
      BY Numbers, PctMonotone
    <3>2. pct' \in [Workers -> Nat]
      BY <2>1, <3>1 DEF ReadTier, TypeOK
    <3>. QED BY <2>1, <3>2 DEF ReadTier, TypeOK, spendVars, tradeVars, checkVars, ledgerVars, rollVars
  <2>2. CASE Fold(w)
    <3>1. On(w) \in Rows /\ Chain(On(w)) \in Chains
      BY RowsOf, ChainIsOne
    <3>2. roll' \in [Chains -> [volume : Nat, feeVolume : Nat, cash : Nat, count : Nat]]
      <4>. DEFINE b == book[On(w)]  o == roll[Chain(On(w))]
      <4>1. b.notional \in Nat /\ b.fee \in Nat /\ b.pct \in Nat /\ FeeVolume(b) \in Nat
        BY <3>1, Numbers
      <4>2. b.fee * b.pct \in Nat
        BY <4>1
      <4>3. o.volume \in Nat /\ o.feeVolume \in Nat /\ o.cash \in Nat /\ o.count \in Nat
        BY <3>1 DEF TypeOK
      <4>4. [volume |-> o.volume + b.notional, feeVolume |-> o.feeVolume + FeeVolume(b),
             cash |-> o.cash + b.fee * b.pct, count |-> o.count + 1]
               \in [volume : Nat, feeVolume : Nat, cash : Nat, count : Nat]
        BY <4>1, <4>2, <4>3
      <4>. QED BY <2>2, <3>1, <4>4 DEF Fold, TypeOK
    <3>3. folds' \in [Rows -> Nat]
      BY <2>2, <3>1 DEF Fold, TypeOK
    <3>. QED BY <2>2, <3>2, <3>3 DEF Fold, TypeOK, spendVars, tradeVars, checkVars, ledgerVars
  <2>3. CASE FoldFails(w)
    BY <2>3 DEF FoldFails, TypeOK, spendVars, tradeVars, checkVars, ledgerVars, rollVars
  <2>4. CASE FoldDaily(w)
    <3>1. book[On(w)].notional \in Nat
      BY RowsOf, Numbers
    <3>2. daily' \in [volume : Nat, count : Nat]
      BY <2>4, <3>1 DEF FoldDaily, TypeOK
    <3>. QED BY <2>4, <3>2 DEF FoldDaily, TypeOK, spendVars, tradeVars, checkVars, ledgerVars
  <2>. QED BY <1>4, <2>1, <2>2, <2>3, <2>4
<1>5. ASSUME NEW w \in Workers, NEW x \in Rows, Booked(w, x) PROVE book' \in [Rows -> [notional : Nat, fee : Nat, pct : Nat]]
  BY <1>5, Numbers DEF Booked, TypeOK
<1>6. ASSUME NEW p \in Patches, PatchStatus(p) PROVE TypeOK'
  <2>0. p \in Workers /\ about[p] \in Rows /\ about[p] \in Trades
    BY RowsOf DEF Workers
  <2>1. CASE PatchRead(p)
    BY <2>1, <2>0 DEF PatchRead, TypeOK, spendVars, tradeVars, checkVars, callVars, ledgerVars, rollVars
  <2>2. CASE PatchUpdate(p)
    BY <2>2, <2>0 DEF PatchUpdate, TypeOK, spendVars, tradeVars, checkVars, callVars, ledgerVars, rollVars
  <2>3. CASE FinalizeOther(p)
    BY <2>3, <2>0 DEF FinalizeOther, TypeOK, spendVars, tradeVars, checkVars, callVars, ledgerVars, rollVars
  <2>4. CASE Flip(p)
    BY <2>4, <2>0 DEF Flip, TypeOK, spendVars, tradeVars, checkVars, callVars, ledgerVars, rollVars
  <2>5. CASE FlipNothing(p)
    BY <2>5, <2>0 DEF FlipNothing, TypeOK, spendVars, tradeVars, checkVars, callVars, ledgerVars, rollVars
  <2>6. CASE ReadChain(p)
    BY <2>6, <2>0 DEF ReadChain, TypeOK, spendVars, tradeVars, checkVars, callVars, ledgerVars, rollVars
  <2>7. CASE BookFails(p)
    BY <2>7, <2>0 DEF BookFails, TypeOK, spendVars, tradeVars, checkVars, callVars, ledgerVars, rollVars
  <2>8. CASE Book(p)
    BY <2>8, <2>0, <1>5 DEF Book, TypeOK, spendVars, tradeVars, checkVars, rollVars
  <2>. QED BY <1>4, <1>6, <2>0, <2>1, <2>2, <2>3, <2>4, <2>5, <2>6, <2>7, <2>8 DEF PatchStatus
<1>7. ASSUME NEW r \in Records, RecordEvm(r) PROVE TypeOK'
  <2>0. r \in Workers /\ r \in Rows
    BY RowsOf DEF Workers
  <2>1. CASE Seek(r)
    BY <2>1, <2>0 DEF Seek, TypeOK, spendVars, tradeVars, checkVars, callVars, ledgerVars, rollVars
  <2>2. CASE SeekBlind(r)
    BY <2>2, <2>0 DEF SeekBlind, TypeOK, spendVars, tradeVars, checkVars, callVars, ledgerVars, rollVars
  <2>3. CASE InsertHistory(r)
    BY <2>3, <2>0 DEF InsertHistory, TypeOK, spendVars, tradeVars, checkVars, callVars, ledgerVars, rollVars
  <2>4. CASE InsertFails(r)
    BY <2>4, <2>0 DEF InsertFails, TypeOK, spendVars, tradeVars, checkVars, callVars, ledgerVars, rollVars
  <2>5. CASE InsertRow(r)
    BY <2>5, <2>0, <1>5 DEF InsertRow, TypeOK, spendVars, tradeVars, checkVars, rollVars
  <2>. QED BY <1>4, <1>7, <2>0, <2>1, <2>2, <2>3, <2>4, <2>5 DEF RecordEvm
<1>8. CASE UNCHANGED vars
  BY <1>8 DEF vars, TypeOK, spendVars, tradeVars, checkVars, callVars, ledgerVars, rollVars
<1>. QED BY <1>1, <1>2, <1>3, <1>6, <1>7, <1>8 DEF Next

(* The types of the limits, the trades, the calls, the ledger and the rollups
   hold in every behaviour. *)
THEOREM TradeTypes == Spec => []TypeOK
<1>1. Init => TypeOK
  BY TradesAssumption DEF Init, TypeOK, NoBook, Outcomes
<1>2. TypeOK /\ [Next]_vars => TypeOK'
  BY TypeStep
<1>. QED BY <1>1, <1>2, PTL DEF Spec

-----------------------------------------------------------------------------
(* The daily limit *)

(* What the spending side leaves alone keeps CapInv. *)
LEMMA CapUnchanged ==
    ASSUME CapInv, UNCHANGED <<spent, tpc, checkVars>> PROVE CapInv'
BY DEF CapInv, checkVars, Unchecked

LEMMA UncheckedIs ==
    ASSUME TypeOK, NEW t \in Trades
    PROVE  Unchecked(t) \in Nat /\ added[t] - usd[t] <= Unchecked(t) /\ (added[t] = 0 => Unchecked(t) = 0)
<1>1. added[t] \in Nat /\ usd[t] \in Nat
  BY TradesAssumption DEF TypeOK
<1>. QED BY <1>1 DEF Unchecked, Clamp

LEMMA CapStep == ASSUME TypeOK, TypeOK', CapInv, [Next]_vars PROVE CapInv'
<1>. USE DEF Step
<1>0. /\ spent \in Nat /\ passed \subseteq Trades
      /\ \A t \in Trades : usd[t] \in Nat /\ since[t] \in Nat /\ seen[t].perDay \in Nat /\ Unchecked(t) \in Nat
      /\ tpc \in [Trades -> {"idle", "quoted", "limits", "allowed", "refused",
                              "inserted", "counted", "done"}]
  <2>1. \A t \in Trades : usd[t] \in Nat /\ since[t] \in Nat
    BY TradesAssumption DEF TypeOK
  <2>2. \A t \in Trades : seen[t].perDay \in Limits
    BY DEF TypeOK
  <2>. QED BY <2>1, <2>2, UncheckedIs, TradesAssumption DEF TypeOK
<1>1. CASE UpsertLimits
  BY <1>1, CapUnchanged DEF UpsertLimits, tradeVars
<1>2. CASE NewDay
  <2>1. spent' = 0 /\ UNCHANGED <<tpc, checkVars>>
    BY <1>2 DEF NewDay, tradeVars
  <2>. QED BY <1>0, <2>1 DEF CapInv, checkVars, Unchecked
<1>3. ASSUME NEW t \in Trades, CheckSpending(t) \/ CreateTransaction(t) PROVE CapInv'
  <2>. USE <1>0
  <2>1. ASSUME NEW from, NEW to, Step(t, from, to), from \notin {"counted", "done"} \/ to \in {"counted", "done"},
               to \notin {"idle", "quoted", "limits"}, UNCHANGED <<spent, checkVars>>
        PROVE  CapInv'
    BY <2>1 DEF CapInv, checkVars, Unchecked
  <2>2. CASE Quote(t) \/ ReadLimits(t)
    <3>1. /\ t \notin passed /\ tpc[t] \in {"idle", "quoted"} /\ tpc'[t] \notin {"counted", "done"}
          /\ \A u \in Trades : u # t => tpc'[u] = tpc[u] /\ usd'[u] = usd[u] /\ seen'[u] = seen[u]
          /\ UNCHANGED <<spent, passed, since, added>>
      BY <2>2 DEF Quote, ReadLimits, CapInv, spendVars, TypeOK
    <3>2. ASSUME NEW u \in Trades, tpc'[u] \notin {"counted", "done"} PROVE added'[u] = 0
      <4>1. tpc[u] \notin {"counted", "done"}
        BY <3>1, <3>2
      <4>. QED BY <3>1, <4>1 DEF CapInv
    <3>3. \A u \in passed : tpc'[u] = tpc[u] /\ usd'[u] = usd[u] /\ seen'[u] = seen[u] /\ Unchecked(u)' = Unchecked(u)
      BY <3>1 DEF Unchecked
    <3>4. ASSUME NEW u \in passed'
          PROVE  /\ tpc'[u] \notin {"idle", "quoted", "limits"}
                 /\ seen'[u].perDay > 0
                      => /\ tpc'[u] \notin {"counted", "done"} => spent' + usd'[u] <= seen'[u].perDay + since'[u]
                         /\ spent' <= seen'[u].perDay + since'[u] + Unchecked(u)'
      <4>1. u \in passed BY <3>1, <3>4
      <4>. QED BY <3>1, <3>3, <4>1 DEF CapInv
    <3>. QED BY <3>2, <3>4 DEF CapInv
  <2>3. CASE ReadTotal(t)
    <3>1. /\ tpc[t] = "limits" /\ tpc' = [tpc EXCEPT ![t] = IF Within(t) THEN "allowed" ELSE "refused"]
          /\ passed' = (IF Within(t) THEN passed \cup {t} ELSE passed)
          /\ UNCHANGED <<spent, usd, seen, since, added>>
      BY <2>3 DEF ReadTotal, spendVars
    <3>2. \A u \in Trades : Unchecked(u)' = Unchecked(u)
      BY <3>1 DEF Unchecked
    <3>3. Within(t) /\ seen[t].perDay > 0 => spent + usd[t] <= seen[t].perDay
      BY DEF Within
    <3>. QED BY <3>1, <3>2, <3>3 DEF CapInv
  <2>4. CASE CheckFails(t)
    BY <2>1, <2>4 DEF CheckFails, spendVars
  <2>5. CASE InsertTransaction(t)
    BY <2>1, <2>5 DEF InsertTransaction, spendVars
  <2>6. CASE Commit(t)
    <3>1. PICK a \in 1..MaxUsd : /\ spent' = spent + a /\ added' = [added EXCEPT ![t] = a]
                                 /\ since' = [u \in Trades |-> IF u \in passed \ {t} THEN since[u] + a ELSE since[u]]
      BY <2>6 DEF Commit
    <3>2. /\ tpc[t] = "inserted" /\ tpc' = [tpc EXCEPT ![t] = "counted"] /\ a \in Nat
          /\ UNCHANGED <<usd, seen, passed>>
      BY <2>6, TradesAssumption DEF Commit
    <3>3. \A u \in Trades : u # t => added'[u] = added[u] /\ tpc'[u] = tpc[u] /\ Unchecked(u)' = Unchecked(u)
      BY <3>1, <3>2 DEF TypeOK, Unchecked
    <3>4. added'[t] = a /\ tpc'[t] = "counted" /\ Unchecked(t)' \in Nat /\ a - usd[t] <= Unchecked(t)'
      BY <3>1, <3>2 DEF TypeOK, Unchecked, Clamp
    <3>5. \A u \in Trades : tpc'[u] \notin {"counted", "done"} => added'[u] = 0
      BY <3>3, <3>4 DEF CapInv
    <3>6. ASSUME NEW u \in passed, seen[u].perDay > 0
          PROVE  /\ tpc'[u] \notin {"idle", "quoted", "limits"}
                 /\ tpc'[u] \notin {"counted", "done"} => spent' + usd[u] <= seen[u].perDay + since'[u]
                 /\ spent' <= seen[u].perDay + since'[u] + Unchecked(u)'
      <4>1. CASE u = t
        <5>1. spent + usd[t] <= seen[t].perDay + since[t] /\ since'[t] = since[t]
          BY <3>1, <3>2, <3>6, <4>1 DEF CapInv
        <5>. QED BY <3>1, <3>2, <3>4, <4>1, <5>1
      <4>2. CASE u # t
        <5>1. since'[u] = since[u] + a
          BY <3>1, <4>2
        <5>. QED BY <3>1, <3>2, <3>3, <3>6, <4>2, <5>1 DEF CapInv
      <4>. QED BY <4>1, <4>2
    <3>7. \A u \in passed : tpc'[u] \notin {"idle", "quoted", "limits"}
      BY <3>2, <3>3, <3>4 DEF CapInv
    <3>. QED BY <3>2, <3>5, <3>6, <3>7 DEF CapInv
  <2>7. CASE NotCommitted(t)
    BY <2>1, <2>7 DEF NotCommitted, spendVars
  <2>8. CASE RecordPending(t) \/ PendingNotRecorded(t)
    BY <2>1, <2>8 DEF RecordPending, PendingNotRecorded, spendVars
  <2>. QED BY <1>3, <2>2, <2>3, <2>4, <2>5, <2>6, <2>7, <2>8 DEF CheckSpending, CreateTransaction
<1>4. ASSUME NEW p \in Patches, PatchStatus(p) PROVE CapInv'
  <2>1. UNCHANGED <<spent, tpc, checkVars>>
    BY <1>4 DEF PatchStatus, PatchRead, PatchUpdate, FinalizeOther, Flip, FlipNothing, ReadChain,
       ReadTier, Book, BookFails, Fold, FoldFails, FoldDaily, spendVars, tradeVars
  <2>. QED BY <2>1, CapUnchanged
<1>5. ASSUME NEW r \in Records, RecordEvm(r) PROVE CapInv'
  <2>1. UNCHANGED <<spent, tpc, checkVars>>
    BY <1>5 DEF RecordEvm, Seek, SeekBlind, ReadTier, InsertHistory, InsertRow, InsertFails,
       Fold, FoldFails, FoldDaily, spendVars, tradeVars
  <2>. QED BY <2>1, CapUnchanged
<1>6. CASE UNCHANGED vars
  BY <1>6, CapUnchanged DEF vars, spendVars, tradeVars
<1>. QED BY <1>1, <1>2, <1>3, <1>4, <1>5, <1>6 DEF Next

-----------------------------------------------------------------------------
(* Folding once *)

(* A step that touches neither the calls, the rows nor the fold counts. *)
LEMMA FoldUnchanged ==
    ASSUME FoldInv, UNCHANGED <<pc, about, row, folds>> PROVE FoldInv'
BY DEF FoldInv, FoldedOnce

LEMMA FoldStep == ASSUME TypeOK, TypeOK', FoldInv, [Next]_vars PROVE FoldInv'
<1>. USE DEF Go, Finalizing
<1>0. /\ pc \in [Workers -> {"idle", "update", "other", "flip", "value", "tier", "book",
                              "insert", "ledger", "roll", "daily", "done"}]
      /\ row \in [Rows -> {"none", "pending"} \cup Outcomes]
      /\ folds \in [Rows -> Nat]
      /\ Patches \subseteq Workers /\ Records \subseteq Workers
  BY DEF TypeOK, Workers
<1>1. CASE UpsertLimits \/ NewDay \/ UNCHANGED vars
  BY <1>1, FoldUnchanged DEF UpsertLimits, NewDay, vars, callVars, ledgerVars, rollVars
<1>2. ASSUME NEW t \in Trades, CheckSpending(t) \/ CreateTransaction(t) PROVE FoldInv'
  <2>1. CASE RecordPending(t)
    <3>1. t \in Rows /\ \A r \in Records : r # t
      BY RowsOf DEF Rows
    <3>. QED BY <2>1, <3>1, <1>0, RowsOf DEF RecordPending, FoldInv, FoldedOnce, callVars, rollVars
  <2>2. CASE ~RecordPending(t)
    BY <1>2, <2>2, FoldUnchanged DEF CheckSpending, CreateTransaction, Quote, ReadLimits, ReadTotal,
       CheckFails, InsertTransaction, Commit, NotCommitted, PendingNotRecorded,
       callVars, ledgerVars, rollVars
  <2>. QED BY <2>1, <2>2
<1>3. ASSUME NEW p \in Patches, PatchStatus(p) PROVE FoldInv'
  <2>0. p \in Workers /\ p \notin Records /\ about[p] \in Rows /\ about[p] \notin Records /\ On(p) = about[p]
    BY RowsOf, <1>0
  <2>1. CASE PatchRead(p) \/ PatchUpdate(p) \/ FlipNothing(p) \/ ReadChain(p) \/ BookFails(p) \/ Book(p)
             \/ ReadTier(p) \/ FoldFails(p) \/ FoldDaily(p)
    <3>1. UNCHANGED <<about, row, folds>> /\ pc[p] # "done"
      BY <2>1, <2>0 DEF PatchRead, PatchUpdate, FlipNothing, ReadChain, BookFails, Book, ReadTier,
         FoldFails, FoldDaily, ledgerVars, rollVars
    <3>2. \A w \in Workers : w # p => pc'[w] = pc[w]
      BY <2>1, <1>0 DEF PatchRead, PatchUpdate, FlipNothing, ReadChain, BookFails, Book, ReadTier,
         FoldFails, FoldDaily
    <3>3. /\ pc'[p] \notin {"insert", "ledger"}
          /\ pc'[p] \in Finalizing => pc[p] \in Finalizing
      BY <2>1, <2>0, <1>0 DEF PatchRead, PatchUpdate, FlipNothing, ReadChain, BookFails, Book, ReadTier,
         FoldFails, FoldDaily
    <3>. QED BY <3>1, <3>2, <3>3, <2>0, <1>0 DEF FoldInv, FoldedOnce
  <2>2. CASE FinalizeOther(p)
    BY <2>2, <2>0, <1>0 DEF FinalizeOther, FoldInv, FoldedOnce, rollVars
  <2>3. CASE Flip(p)
    BY <2>3, <2>0, <1>0 DEF Flip, FoldInv, FoldedOnce, rollVars
  <2>4. CASE Fold(p)
    BY <2>4, <2>0, <1>0 DEF Fold, FoldInv, FoldedOnce, ledgerVars
  <2>. QED BY <1>3, <2>1, <2>2, <2>3, <2>4 DEF PatchStatus
<1>4. ASSUME NEW r \in Records, RecordEvm(r) PROVE FoldInv'
  <2>0. r \in Workers /\ r \notin Patches /\ r \in Rows /\ On(r) = r
        /\ \A p \in Patches : about[p] # r
    BY RowsOf, <1>0
  <2>1. CASE Seek(r) \/ SeekBlind(r) \/ ReadTier(r) \/ InsertHistory(r) \/ InsertFails(r)
             \/ FoldFails(r) \/ FoldDaily(r)
    <3>1. UNCHANGED <<about, row, folds>>
      BY <2>1 DEF Seek, SeekBlind, ReadTier, InsertHistory, InsertFails, FoldFails, FoldDaily,
         ledgerVars, rollVars
    <3>2. \A w \in Workers : w # r => pc'[w] = pc[w]
      BY <2>1, <1>0 DEF Seek, SeekBlind, ReadTier, InsertHistory, InsertFails, FoldFails, FoldDaily
    <3>3. /\ pc'[r] \in {"tier", "insert", "ledger", "daily", "done"}
          /\ pc'[r] \in {"tier", "insert", "ledger"} => pc[r] \in {"idle", "tier", "insert"}
      BY <2>1, <2>0, <1>0 DEF Seek, SeekBlind, ReadTier, InsertHistory, InsertFails, FoldFails, FoldDaily
    <3>. QED BY <3>1, <3>2, <3>3, <2>0, <1>0 DEF FoldInv, FoldedOnce
  <2>2. CASE InsertRow(r)
    BY <2>2, <2>0, <1>0 DEF InsertRow, FoldInv, FoldedOnce, rollVars
  <2>3. CASE Fold(r)
    BY <2>3, <2>0, <1>0 DEF Fold, FoldInv, FoldedOnce, ledgerVars
  <2>. QED BY <1>4, <2>1, <2>2, <2>3 DEF RecordEvm
<1>. QED BY <1>1, <1>2, <1>3, <1>4 DEF Next

-----------------------------------------------------------------------------
(* Tiers *)

LEMMA TierUnchanged ==
    ASSUME TierInv, UNCHANGED <<pct, book, folds, roll>> PROVE TierInv'
BY DEF TierInv, NeverInflated, Pooled, FeeVolume, CashbackPct

(* Booking a row that is not folded yet, at a tier that was read earlier. *)
LEMMA TierBooked ==
    ASSUME TypeOK, TierInv, NEW w \in Workers, NEW x \in Rows, folds[x] = 0, Booked(w, x),
           UNCHANGED <<pct, folds, roll>>
    PROVE  TierInv'
<1>1. UNCHANGED Pooled
  BY DEF Pooled
<1>2. PICK b : b.pct = pct[w] /\ book' = [book EXCEPT ![x] = b]
  BY DEF Booked
<1>3. \A y \in Rows : y # x => book'[y] = book[y]
  BY <1>2 DEF TypeOK
<1>4. book'[x].pct = pct[w]
  BY <1>2 DEF TypeOK
<1>. QED BY <1>1, <1>3, <1>4 DEF TierInv, NeverInflated, CashbackPct, FeeVolume

(* Folding adds exactly what the property takes off again. *)
LEMMA TierFolded ==
    ASSUME TypeOK, TypeOK', TierInv, NEW w \in Workers, folds[On(w)] = 0, Fold(w)
    PROVE  TierInv'
<1>. DEFINE x == On(w)
<1>0. x \in Rows /\ Chain(x) \in Chains
  BY RowsOf, ChainIsOne
<1>1. Pooled \in Nat /\ FeeVolume(book[x]) \in Nat
  BY <1>0, Numbers
<1>2. Pooled' = Pooled + FeeVolume(book[x])
  <2>1. \A c \in Chains : roll[c].feeVolume \in Nat
    BY DEF TypeOK
  <2>2. \A c \in Chains : roll'[c].feeVolume = IF c = Chain(x) THEN roll[c].feeVolume + FeeVolume(book[x])
                                                                ELSE roll[c].feeVolume
    BY DEF Fold, TypeOK
  <2>3. "solana" \in Chains /\ "evm" \in Chains /\ Chain(x) \in {"solana", "evm"}
    BY DEF Chains, Chain
  <2>. QED BY <2>1, <2>2, <2>3, <1>1 DEF Pooled
<1>3. book' = book /\ pct' = pct
  BY DEF Fold, ledgerVars
<1>4. folds'[x] = 1 /\ \A y \in Rows : y # x => folds'[y] = folds[y]
  BY <1>0 DEF Fold, TypeOK
<1>5. ASSUME NEW v \in Workers PROVE pct'[v] <= CashbackPct(Pooled')
  <2>1. pct[v] <= CashbackPct(Pooled) /\ pct[v] \in Nat
    BY Numbers DEF TierInv
  <2>2. CashbackPct(Pooled) <= CashbackPct(Pooled') /\ CashbackPct(Pooled) \in Nat /\ CashbackPct(Pooled') \in Nat
    BY <1>1, <1>2, PctMonotone
  <2>. QED BY <1>3, <2>1, <2>2
<1>6. ASSUME NEW y \in Rows
      PROVE  book'[y].pct <= CashbackPct(IF folds'[y] > 0 THEN Pooled' - FeeVolume(book'[y]) ELSE Pooled')
  <2>. DEFINE old == IF folds[y] > 0 THEN Pooled - FeeVolume(book[y]) ELSE Pooled
              new == IF folds'[y] > 0 THEN Pooled' - FeeVolume(book'[y]) ELSE Pooled'
  <2>0. FeeVolume(book[y]) \in Nat /\ folds[y] \in Nat /\ book[y].pct \in Nat
    BY Numbers DEF TypeOK
  <2>1. old \in Int /\ new \in Int /\ old <= new
    BY <1>0, <1>1, <1>2, <1>3, <1>4, <2>0
  <2>2. CashbackPct(old) <= CashbackPct(new) /\ CashbackPct(old) \in Nat /\ CashbackPct(new) \in Nat
    BY <2>1, PctMonotone
  <2>3. book[y].pct <= CashbackPct(old)
    BY DEF TierInv, NeverInflated
  <2>4. book'[y].pct <= CashbackPct(new)
    BY <1>3, <2>0, <2>2, <2>3
  <2>. QED BY <2>4
<1>. QED BY <1>5, <1>6 DEF TierInv, NeverInflated, CashbackPct, FeeVolume

LEMMA TierStep == ASSUME TypeOK, TypeOK', FoldInv, TierInv, [Next]_vars PROVE TierInv'
<1>. USE DEF Go
<1>1. CASE UpsertLimits \/ NewDay \/ UNCHANGED vars
  BY <1>1, TierUnchanged DEF UpsertLimits, NewDay, vars, callVars, ledgerVars, rollVars
<1>2. ASSUME NEW t \in Trades, CheckSpending(t) \/ CreateTransaction(t) PROVE TierInv'
  BY <1>2, TierUnchanged DEF CheckSpending, CreateTransaction, Quote, ReadLimits, ReadTotal,
     CheckFails, InsertTransaction, Commit, NotCommitted, RecordPending, PendingNotRecorded,
     callVars, ledgerVars, rollVars
<1>3. ASSUME NEW w \in Workers, ReadTier(w) PROVE TierInv'
  <2>1. PICK v \in {Pooled, 0} : pct' = [pct EXCEPT ![w] = CashbackPct(v)]
    BY <1>3 DEF ReadTier
  <2>2. Pooled \in Nat
    BY Numbers
  <2>3. CashbackPct(v) <= CashbackPct(Pooled)
    BY <2>2, PctMonotone
  <2>4. \A u \in Workers : pct'[u] <= CashbackPct(Pooled)
    BY <2>1, <2>3 DEF TierInv, TypeOK
  <2>5. UNCHANGED <<book, folds, roll>>
    BY <1>3 DEF ReadTier, ledgerVars, rollVars
  <2>. QED BY <2>4, <2>5 DEF TierInv, NeverInflated, Pooled, FeeVolume, CashbackPct
<1>4. ASSUME NEW p \in Patches, PatchStatus(p) PROVE TierInv'
  <2>0. p \in Workers /\ about[p] \in Rows /\ On(p) = about[p]
    BY RowsOf DEF Workers
  <2>1. CASE Book(p)
    BY <2>0, <2>1, TierBooked DEF Book, FoldInv, Finalizing, rollVars
  <2>2. CASE Fold(p)
    BY <2>0, <2>2, TierFolded DEF Fold, FoldInv, Finalizing
  <2>3. CASE ReadTier(p)
    BY <2>0, <2>3, <1>3
  <2>4. CASE PatchRead(p) \/ PatchUpdate(p) \/ FinalizeOther(p) \/ Flip(p) \/ FlipNothing(p)
             \/ ReadChain(p) \/ BookFails(p) \/ FoldFails(p) \/ FoldDaily(p)
    BY <2>4, TierUnchanged DEF PatchRead, PatchUpdate, FinalizeOther, Flip, FlipNothing, ReadChain,
       BookFails, FoldFails, FoldDaily, ledgerVars, rollVars
  <2>. QED BY <1>4, <2>1, <2>2, <2>3, <2>4 DEF PatchStatus
<1>5. ASSUME NEW r \in Records, RecordEvm(r) PROVE TierInv'
  <2>0. r \in Workers /\ r \in Rows /\ On(r) = r
    BY RowsOf DEF Workers
  <2>1. CASE InsertRow(r)
    BY <2>0, <2>1, TierBooked DEF InsertRow, FoldInv, rollVars
  <2>2. CASE Fold(r)
    BY <2>0, <2>2, TierFolded DEF Fold, FoldInv
  <2>3. CASE ReadTier(r)
    BY <2>0, <2>3, <1>3
  <2>4. CASE Seek(r) \/ SeekBlind(r) \/ InsertHistory(r) \/ InsertFails(r) \/ FoldFails(r) \/ FoldDaily(r)
    BY <2>4, TierUnchanged DEF Seek, SeekBlind, InsertHistory, InsertFails, FoldFails, FoldDaily,
       ledgerVars, rollVars
  <2>. QED BY <1>5, <2>1, <2>2, <2>3, <2>4 DEF RecordEvm
<1>. QED BY <1>1, <1>2, <1>4, <1>5 DEF Next

-----------------------------------------------------------------------------
(* The rollup *)

(* A step that folds nothing and books no row that is folded. *)
LEMMA RollUnchanged ==
    ASSUME RollInv, UNCHANGED <<roll, folds>>,
           \A x \in Rows : folds[x] > 0 => book'[x] = book[x]
    PROVE  RollInv'
<1>. SUFFICES ASSUME NEW c \in Chains
              PROVE  /\ roll'[c].count = Cardinality(Folded(c)')
                     /\ roll'[c].volume = Total(NotionalOf', Folded(c)')
                     /\ roll'[c].cash = Total(CashOf', Folded(c)')
                     /\ IsFiniteSet(Folded(c)') /\ IsFiniteSet(Units(NotionalOf', Folded(c)'))
                     /\ IsFiniteSet(Units(CashOf', Folded(c)'))
  BY DEF RollInv, RollupIsSum
<1>1. Folded(c)' = Folded(c)
  BY DEF Folded
<1>2. \A x \in Folded(c) : NotionalOf'[x] = NotionalOf[x] /\ CashOf'[x] = CashOf[x]
  BY DEF Folded, NotionalOf, CashOf
<1>3. /\ Units(NotionalOf', Folded(c)) = Units(NotionalOf, Folded(c))
      /\ Total(NotionalOf', Folded(c)) = Total(NotionalOf, Folded(c))
      /\ Units(CashOf', Folded(c)) = Units(CashOf, Folded(c))
      /\ Total(CashOf', Folded(c)) = Total(CashOf, Folded(c))
  BY <1>2, TotalSame
<1>. QED BY <1>1, <1>3 DEF RollInv, RollupIsSum

(* Folding a row that was not folded before adds it to one chain's sums. *)
LEMMA RollFolded ==
    ASSUME TypeOK, RollInv, NEW w \in Workers, folds[On(w)] = 0, Fold(w)
    PROVE  RollInv'
<1>1. PICK x : x = On(w)
  OBVIOUS
<1>2. x \in Rows /\ Chain(x) \in Chains /\ folds[x] = 0
  BY <1>1, RowsOf, ChainIsOne
<1>3. /\ book' = book /\ NotionalOf' = NotionalOf /\ CashOf' = CashOf
      /\ NotionalOf[x] \in Nat /\ CashOf[x] \in Nat
  <2>1. book' = book
    BY DEF Fold, ledgerVars
  <2>2. book[x].notional \in Nat /\ book[x].fee \in Nat /\ book[x].pct \in Nat
    BY <1>2, Numbers
  <2>3. book[x].fee * book[x].pct \in Nat
    BY <2>2
  <2>. QED BY <1>2, <2>1, <2>2, <2>3 DEF NotionalOf, CashOf
<1>. SUFFICES ASSUME NEW c \in Chains
              PROVE  /\ roll'[c].count = Cardinality(Folded(c)')
                     /\ roll'[c].volume = Total(NotionalOf, Folded(c)')
                     /\ roll'[c].cash = Total(CashOf, Folded(c)')
                     /\ IsFiniteSet(Folded(c)') /\ IsFiniteSet(Units(NotionalOf, Folded(c)'))
                     /\ IsFiniteSet(Units(CashOf, Folded(c)'))
  BY <1>3 DEF RollInv, RollupIsSum
<1>4. \A y \in Rows : folds'[y] = IF y = x THEN 1 ELSE folds[y]
  BY <1>1, <1>2 DEF Fold, TypeOK
<1>5. /\ roll[c].count = Cardinality(Folded(c)) /\ roll[c].volume = Total(NotionalOf, Folded(c))
      /\ roll[c].cash = Total(CashOf, Folded(c))
      /\ IsFiniteSet(Folded(c)) /\ IsFiniteSet(Units(NotionalOf, Folded(c)))
      /\ IsFiniteSet(Units(CashOf, Folded(c)))
  BY DEF RollInv, RollupIsSum
<1>6. CASE c = Chain(x)
  <2>1. Folded(c)' = Folded(c) \cup {x} /\ x \notin Folded(c)
    BY <1>2, <1>4, <1>6 DEF Folded
  <2>2. /\ roll'[c].count = roll[c].count + 1
        /\ roll'[c].volume = roll[c].volume + NotionalOf[x]
        /\ roll'[c].cash = roll[c].cash + CashOf[x]
    BY <1>1, <1>2, <1>6 DEF Fold, TypeOK, NotionalOf, CashOf
  <2>3. IsFiniteSet(Folded(c) \cup {x}) /\ Cardinality(Folded(c) \cup {x}) = Cardinality(Folded(c)) + 1
    BY <1>5, <2>1, FS_AddElement
  <2>4. /\ IsFiniteSet(Units(NotionalOf, Folded(c) \cup {x}))
        /\ Total(NotionalOf, Folded(c) \cup {x}) = Total(NotionalOf, Folded(c)) + NotionalOf[x]
    BY <1>3, <1>5, <2>1, TotalAdd
  <2>5. /\ IsFiniteSet(Units(CashOf, Folded(c) \cup {x}))
        /\ Total(CashOf, Folded(c) \cup {x}) = Total(CashOf, Folded(c)) + CashOf[x]
    BY <1>3, <1>5, <2>1, TotalAdd
  <2>. QED BY <1>5, <2>1, <2>2, <2>3, <2>4, <2>5
<1>7. CASE c # Chain(x)
  <2>1. Folded(c)' = Folded(c)
    BY <1>4, <1>7 DEF Folded
  <2>2. roll'[c] = roll[c]
    BY <1>1, <1>7 DEF Fold, TypeOK
  <2>. QED BY <1>5, <2>1, <2>2
<1>. QED BY <1>6, <1>7

LEMMA RollStep == ASSUME TypeOK, FoldInv, RollInv, [Next]_vars PROVE RollInv'
<1>. USE DEF Go
<1>1. CASE UpsertLimits \/ NewDay \/ UNCHANGED vars
  BY <1>1, RollUnchanged DEF UpsertLimits, NewDay, vars, ledgerVars, rollVars
<1>2. ASSUME NEW t \in Trades, CheckSpending(t) \/ CreateTransaction(t) PROVE RollInv'
  BY <1>2, RollUnchanged DEF CheckSpending, CreateTransaction, Quote, ReadLimits, ReadTotal,
     CheckFails, InsertTransaction, Commit, NotCommitted, RecordPending, PendingNotRecorded,
     ledgerVars, rollVars
<1>3. ASSUME NEW w \in Workers, NEW x \in Rows, folds[x] = 0, Booked(w, x)
      PROVE  \A y \in Rows : folds[y] > 0 => book'[y] = book[y]
  <2>1. \A y \in Rows : y # x => book'[y] = book[y]
    BY <1>3 DEF Booked, TypeOK
  <2>. QED BY <1>3, <2>1
<1>4. ASSUME NEW p \in Patches, PatchStatus(p) PROVE RollInv'
  <2>0. p \in Workers /\ about[p] \in Rows /\ On(p) = about[p]
    BY RowsOf DEF Workers
  <2>1. CASE Book(p)
    BY <1>3, <2>0, <2>1, RollUnchanged DEF Book, FoldInv, Finalizing, rollVars
  <2>2. CASE Fold(p)
    BY <2>0, <2>2, RollFolded DEF Fold, FoldInv, Finalizing
  <2>3. CASE PatchRead(p) \/ PatchUpdate(p) \/ FinalizeOther(p) \/ Flip(p) \/ FlipNothing(p)
             \/ ReadChain(p) \/ ReadTier(p) \/ BookFails(p) \/ FoldFails(p) \/ FoldDaily(p)
    BY <2>3, RollUnchanged DEF PatchRead, PatchUpdate, FinalizeOther, Flip, FlipNothing, ReadChain,
       ReadTier, BookFails, FoldFails, FoldDaily, ledgerVars, rollVars
  <2>. QED BY <1>4, <2>1, <2>2, <2>3 DEF PatchStatus
<1>5. ASSUME NEW r \in Records, RecordEvm(r) PROVE RollInv'
  <2>0. r \in Workers /\ r \in Rows /\ On(r) = r
    BY RowsOf DEF Workers
  <2>1. CASE InsertRow(r)
    BY <1>3, <2>0, <2>1, RollUnchanged DEF InsertRow, FoldInv, rollVars
  <2>2. CASE Fold(r)
    BY <2>0, <2>2, RollFolded DEF Fold, FoldInv
  <2>3. CASE Seek(r) \/ SeekBlind(r) \/ ReadTier(r) \/ InsertHistory(r) \/ InsertFails(r)
             \/ FoldFails(r) \/ FoldDaily(r)
    BY <2>3, RollUnchanged DEF Seek, SeekBlind, ReadTier, InsertHistory, InsertFails, FoldFails,
       FoldDaily, ledgerVars, rollVars
  <2>. QED BY <1>5, <2>1, <2>2, <2>3 DEF RecordEvm
<1>. QED BY <1>1, <1>2, <1>4, <1>5 DEF Next

-----------------------------------------------------------------------------
(* Two record calls *)

LEMMA PeerUnchanged ==
    ASSUME PeerInv, UNCHANGED peers, \A r \in Records : Active(r)' => Active(r) PROVE PeerInv'
BY DEF PeerInv

LEMMA PeerStep == ASSUME TypeOK, TypeOK', FoldInv, PeerInv, [Next]_vars PROVE PeerInv'
<1>. USE DEF Go, Active, Busy, Hashed
<1>0. /\ pc \in [Workers -> {"idle", "update", "other", "flip", "value", "tier", "book",
                              "insert", "ledger", "roll", "daily", "done"}]
      /\ row \in [Rows -> {"none", "pending"} \cup Outcomes]
      /\ peers \in [Records -> SUBSET Records]
      /\ Patches \subseteq Workers /\ Records \subseteq Workers /\ Records \subseteq Rows
  BY DEF TypeOK, Workers, Rows
<1>1. CASE UpsertLimits \/ NewDay \/ UNCHANGED vars
  BY <1>1, PeerUnchanged DEF UpsertLimits, NewDay, vars, callVars, ledgerVars
<1>2. ASSUME NEW t \in Trades, CheckSpending(t) \/ CreateTransaction(t) PROVE PeerInv'
  <2>1. UNCHANGED <<pc, peers>> /\ \A r \in Records : row'[r] = row[r]
    BY <1>0, <1>2, RowsOf DEF CheckSpending, CreateTransaction, Quote, ReadLimits, ReadTotal,
       CheckFails, InsertTransaction, Commit, NotCommitted, RecordPending, PendingNotRecorded,
       callVars, ledgerVars
  <2>. QED BY <2>1, PeerUnchanged
<1>3. ASSUME NEW p \in Patches, PatchStatus(p) PROVE PeerInv'
  <2>0. p \notin Records /\ about[p] \notin Records
    BY RowsOf
  <2>1. UNCHANGED peers /\ \A r \in Records : pc'[r] = pc[r]
    BY <1>0, <1>3, <2>0 DEF PatchStatus, PatchRead, PatchUpdate, FinalizeOther, Flip, FlipNothing, ReadChain,
       ReadTier, Book, BookFails, Fold, FoldFails, FoldDaily
  <2>2. \A r \in Records : row'[r] = row[r]
    BY <1>0, <1>3, <2>0 DEF PatchStatus, PatchRead, PatchUpdate, FinalizeOther, Flip, FlipNothing, ReadChain,
       ReadTier, Book, BookFails, Fold, FoldFails, FoldDaily, ledgerVars
  <2>. QED BY <2>1, <2>2, PeerUnchanged
<1>4. ASSUME NEW r \in Records, RecordEvm(r) PROVE PeerInv'
  <2>0. r \in Workers /\ r \in Rows /\ r \notin Patches
    BY RowsOf, <1>0
  <2>1. CASE Seek(r)
    BY <2>0, <2>1, <1>0 DEF Seek, PeerInv, FoldInv, ledgerVars
  <2>2. CASE SeekBlind(r)
    BY <2>0, <2>2, <1>0 DEF SeekBlind, PeerInv, FoldInv, ledgerVars
  <2>3. CASE InsertRow(r)
    BY <2>0, <2>3, <1>0, PeerUnchanged DEF InsertRow
  <2>4. CASE ReadTier(r) \/ InsertHistory(r) \/ InsertFails(r) \/ Fold(r) \/ FoldFails(r) \/ FoldDaily(r)
    <3>1. UNCHANGED <<peers, row>>
      BY <2>4 DEF ReadTier, InsertHistory, InsertFails, Fold, FoldFails, FoldDaily, ledgerVars
    <3>2. \A q \in Records : Busy(q)' => Busy(q)
      BY <2>0, <2>4, <1>0 DEF ReadTier, InsertHistory, InsertFails, Fold, FoldFails, FoldDaily
    <3>. QED BY <3>1, <3>2, PeerUnchanged
  <2>. QED BY <1>4, <2>1, <2>2, <2>3, <2>4 DEF RecordEvm
<1>. QED BY <1>1, <1>2, <1>3, <1>4 DEF Next

-----------------------------------------------------------------------------
(* Theorems *)

LEMMA TradeStarts == ASSUME Init PROVE IInv
<1>1. TypeOK
  BY TradesAssumption DEF Init, TypeOK, NoBook, Outcomes
<1>2. CapInv
  BY DEF Init, CapInv
<1>3. FoldInv
  BY RowsOf, <1>1 DEF Init, FoldInv, FoldedOnce, Finalizing, Workers, Rows
<1>4. TierInv
  <2>1. Pooled \in Nat /\ 0 <= CashbackPct(Pooled)
    BY <1>1, Numbers, PctMonotone, TradesAssumption
  <2>2. \A w \in Workers : pct[w] = 0
    BY DEF Init
  <2>3. \A x \in Rows : book[x].pct = 0 /\ folds[x] = 0
    BY DEF Init, NoBook
  <2>. QED BY <2>1, <2>2, <2>3 DEF TierInv, NeverInflated
<1>5. PeerInv
  BY RowsOf, <1>1 DEF Init, PeerInv, Active, Busy, Hashed, Workers, Rows
<1>6. RollInv
  <2>1. \A c \in Chains : Folded(c) = {}
    BY DEF Init, Folded
  <2>2. \A c \in Chains : roll[c].count = 0 /\ roll[c].volume = 0 /\ roll[c].cash = 0
    BY DEF Init
  <2>. QED BY <2>1, <2>2, TotalOfNone, FS_EmptySet DEF RollInv, RollupIsSum
<1>. QED BY <1>1, <1>2, <1>3, <1>4, <1>5, <1>6 DEF IInv

LEMMA TradeInductive == ASSUME IInv, [Next]_vars PROVE IInv'
BY TypeStep, CapStep, FoldStep, TierStep, PeerStep, RollStep DEF IInv

(* The inductive invariant holds in every behaviour. *)
THEOREM TradeInvariance == Spec => []IInv
<1>1. Init => IInv
  BY TradeStarts
<1>2. IInv /\ [Next]_vars => IInv'
  BY TradeInductive
<1>. QED BY <1>1, <1>2, PTL DEF Spec

(* For any limits, amounts and number of trades, a trade that passed its check
   and is reported as it was checked brings the day's total over the limit by no
   more than others have added since the check. *)
THEOREM CapHolds == Spec => []CapHoldsUpToReports
<1>1. IInv => CapHoldsUpToReports
  BY DEF IInv, CapInv, CapHoldsUpToReports
<1>. QED BY <1>1, TradeInvariance, PTL

(* No row is rolled up twice, however often it is reported. *)
THEOREM NeverFoldedTwice == Spec => []FoldedOnce
<1>1. IInv => FoldedOnce
  BY DEF IInv, FoldInv
<1>. QED BY <1>1, TradeInvariance, PTL

(* What tiers and cashback are paid from is, on each chain, the sum of the rows
   folded into it as they stand now. *)
THEOREM RollupCorrect == Spec => []RollupIsSum
<1>1. IInv => RollupIsSum
  BY DEF IInv, RollInv
<1>. QED BY <1>1, TradeInvariance, PTL

(* No trade is paid at a tier that its own volume gave the account. *)
THEOREM TiersNeverInflated == Spec => []NeverInflated
<1>1. IInv => NeverInflated
  BY DEF IInv, TierInv
<1>. QED BY <1>1, TradeInvariance, PTL

(* A swap is recorded twice only by calls that overlapped. *)
THEOREM RecordedOnceOrTogether == Spec => []RecordedTwiceOnlyTogether
<1>1. IInv => RecordedTwiceOnlyTogether
  BY DEF IInv, PeerInv, Active, Hashed, RecordedTwiceOnlyTogether
<1>. QED BY <1>1, TradeInvariance, PTL

(* A confirmed row never changes its outcome. *)
THEOREM ConfirmedForEver == Spec => ConfirmedIsFinal
<1>1. ASSUME TypeOK, [Next]_vars
      PROVE  [\A x \in Rows : row[x] = "confirmed" => row'[x] = "confirmed"]_vars
  <2>0. row \in [Rows -> {"none", "pending"} \cup Outcomes]
    BY <1>1 DEF TypeOK
  <2>1. CASE UpsertLimits \/ NewDay \/ UNCHANGED vars
    BY <2>1 DEF UpsertLimits, NewDay, vars, ledgerVars
  <2>2. ASSUME NEW t \in Trades, CheckSpending(t) \/ CreateTransaction(t)
        PROVE  \A x \in Rows : row[x] = "confirmed" => row'[x] = "confirmed"
    BY <2>0, <2>2 DEF CheckSpending, CreateTransaction, Quote, ReadLimits, ReadTotal, CheckFails,
       InsertTransaction, Commit, NotCommitted, RecordPending, PendingNotRecorded, ledgerVars
  <2>3. ASSUME NEW p \in Patches, PatchStatus(p)
        PROVE  \A x \in Rows : row[x] = "confirmed" => row'[x] = "confirmed"
    BY <2>0, <2>3 DEF PatchStatus, PatchRead, PatchUpdate, FinalizeOther, Flip, FlipNothing, ReadChain,
       ReadTier, Book, BookFails, Fold, FoldFails, FoldDaily, ledgerVars
  <2>4. ASSUME NEW r \in Records, RecordEvm(r)
        PROVE  \A x \in Rows : row[x] = "confirmed" => row'[x] = "confirmed"
    BY <2>0, <2>4 DEF RecordEvm, Seek, SeekBlind, ReadTier, InsertHistory, InsertRow, InsertFails,
       Fold, FoldFails, FoldDaily, ledgerVars
  <2>. QED BY <1>1, <2>1, <2>2, <2>3, <2>4 DEF Next
<1>. QED BY <1>1, TradeTypes, PTL DEF Spec, ConfirmedIsFinal

-----------------------------------------------------------------------------
(* Cashback: the inductive invariant *)

(* The claims of an account on a chain, and all claims, that are not released. *)
Held(c) == {k \in Claims : Cash!Live(k) /\ by[k] = "account" /\ chain[k] = c}
AllHeld == {k \in Claims : Cash!Live(k)}

Reading == {"idle", "waiting", "own", "referral", "claimed", "decide"}

(* The row of a call and its transfer, at each point of the call. *)
RowInv ==
    \A k \in Claims :
        /\ cpc[k] \in Reading => cstatus[k] = "none" /\ k \notin out
        /\ cpc[k] \in {"paying", "refused", "lost"} => cstatus[k] = "pending" /\ k \notin out
        /\ cpc[k] = "sent" => cstatus[k] = "pending"
        /\ k \in out => Cash!Live(k)

(* The advisory lock excludes. *)
LockInv ==
    \A k, m \in Claims :
        k # m /\ Cash!Locked(k) /\ Cash!Locked(m) => by[k] # by[m] \/ chain[k] # chain[m]

(* The histories are above the balances. *)
PeakInv ==
    \A c \in ClaimChains :
        Cash!Balance(c, earned, referral) <= peak[c] /\ earned[c] + referral <= top

(* What a call for the account has read is within what was earned, and nobody
   has reserved anything since it added up the claims. *)
CallRead(k) ==
    /\ cpc[k] \in {"referral", "claimed"} => by[k] = "account"
    /\ bonus[k] # 0 => cpc[k] \in {"claimed", "decide"} /\ by[k] = "account"
    /\ cpc[k] = "referral" => chain[k] = "solana" /\ own[k] <= earned[chain[k]]
    /\ cpc[k] \in {"claimed", "decide"} /\ by[k] = "account" => own[k] + bonus[k] <= peak[chain[k]]
    /\ cpc[k] = "decide" /\ by[k] = "account" => Total(amount, Held(chain[k])) <= taken[k]

ReadInv == \A k \in Claims : CallRead(k)

HeldInv ==
    /\ IsFiniteSet(Units(amount, AllHeld))
    /\ \A c \in ClaimChains : Total(amount, Held(c)) <= peak[c]

(* Before the wallet is linked every call claims for the wallet; what one has
   read is out of date by what others reserved since. *)
Overlap ==
    \/ Total(amount, AllHeld) <= top
    \/ \E k \in Claims : Total(amount, AllHeld) <= top + csince[k]

ViewRead(k) ==
    cpc[k] = "decide" => own[k] <= top /\ Total(amount, AllHeld) <= taken[k] + csince[k]

WalletInv ==
    linked \/ (Overlap /\ \A k \in Claims : by[k] = "wallet" /\ ViewRead(k))

CashInv ==
    Cash!TypeOK /\ RowInv /\ LockInv /\ PeakInv /\ ReadInv /\ HeldInv /\ WalletInv

-----------------------------------------------------------------------------
(* Cashback: facts about its operators *)

LEMMA MaxOfTwo ==
    ASSUME NEW a \in Int, NEW b \in Int
    PROVE  /\ Cash!Max({a, b}) \in {a, b}
           /\ a <= Cash!Max({a, b}) /\ b <= Cash!Max({a, b})
<1>1. \E m \in {a, b} : \A y \in {a, b} : m >= y
  OBVIOUS
<1>. QED BY <1>1 DEF Cash!Max

(* The histories only grow, and stay above the balances. *)
LEMMA KeepGrows ==
    ASSUME Cash!TypeOK, NEW e \in [ClaimChains -> Nat], NEW r \in Nat, Cash!Keep(e, r)
    PROVE  /\ peak' \in [ClaimChains -> Nat] /\ top' \in Nat /\ top <= top'
           /\ \A c \in ClaimChains : /\ peak[c] <= peak'[c] /\ Cash!Balance(c, e, r) <= peak'[c]
                                     /\ e[c] + r <= top'
<1>1. \A c \in ClaimChains : peak[c] \in Nat /\ Cash!Balance(c, e, r) \in Nat
  BY DEF Cash!TypeOK, Cash!Balance
<1>2. \A c \in ClaimChains : /\ peak'[c] \in {peak[c], Cash!Balance(c, e, r)}
                             /\ peak[c] <= peak'[c] /\ Cash!Balance(c, e, r) <= peak'[c]
  <2>. TAKE c \in ClaimChains
  <2>1. peak'[c] = Cash!Max({peak[c], Cash!Balance(c, e, r)})
    BY DEF Cash!Keep
  <2>2. peak[c] \in Int /\ Cash!Balance(c, e, r) \in Int
    BY <1>1
  <2>. QED BY <2>1, <2>2, MaxOfTwo
<1>3. peak' \in [ClaimChains -> Nat]
  BY <1>1, <1>2 DEF Cash!Keep
<1>4. top' \in Nat /\ top <= top' /\ \A c \in ClaimChains : e[c] + r <= top'
  <2>1. top \in Nat /\ \A c \in ClaimChains : e[c] + r \in Nat
    BY DEF Cash!TypeOK
  <2>2. top' \in Nat
    BY <2>1 DEF Cash!Keep
  <2>. QED BY <2>1, <2>2 DEF Cash!Keep
<1>. QED BY <1>2, <1>3, <1>4

(* What a call may claim is what it read, less the claims it added up. *)
LEMMA ClaimableIs ==
    ASSUME Cash!TypeOK, NEW k \in Claims
    PROVE  /\ own[k] \in Nat /\ bonus[k] \in Nat /\ taken[k] \in Nat
           /\ Cash!Claimable(k) \in Nat
           /\ Cash!Claimable(k) = 0 \/ Cash!Claimable(k) = own[k] + bonus[k] - taken[k]
<1>1. own[k] \in Nat /\ bonus[k] \in Nat /\ taken[k] \in Nat
  BY DEF Cash!TypeOK
<1>2. PICK d \in Int : d = own[k] + bonus[k] - taken[k]
  BY <1>1
<1>3. Cash!Claimable(k) = Cash!Max({0, d})
  BY <1>2 DEF Cash!Claimable
<1>4. Cash!Max({0, d}) \in {0, d} /\ 0 <= Cash!Max({0, d})
  BY MaxOfTwo
<1>. QED BY <1>1, <1>2, <1>3, <1>4

LEMMA SameCardinality ==
    ASSUME NEW S
    PROVE  Cash!Cardinality(S) = Cardinality(S)
BY DEF Cash!Cardinality, Cardinality

(* The claims held are finitely many units, so every sum of them is a number. *)
LEMMA HeldTotals ==
    ASSUME HeldInv
    PROVE  /\ Total(amount, AllHeld) \in Nat /\ Cash!WalletClaimed = Total(amount, AllHeld)
           /\ \A c : /\ IsFiniteSet(Units(amount, Held(c))) /\ Total(amount, Held(c)) \in Nat
                    /\ Cash!AccountClaimed(c) = Total(amount, Held(c))
<1>1. \A c : Held(c) \in SUBSET AllHeld
  BY DEF Held, AllHeld
<1>2. /\ Total(amount, AllHeld) \in Nat
      /\ \A c : IsFiniteSet(Units(amount, Held(c))) /\ Total(amount, Held(c)) \in Nat
  BY <1>1, TotalOfPart DEF HeldInv
<1>3. Cash!WalletClaimed = Total(amount, AllHeld)
  BY SameCardinality DEF Cash!WalletClaimed, Cash!Counts, AllHeld, Cash!Total, Cash!Units, Total, Units
<1>4. \A c : Cash!AccountClaimed(c) = Total(amount, Held(c))
  BY SameCardinality DEF Cash!AccountClaimed, Cash!Counts, Held, Cash!Total, Cash!Units, Total, Units
<1>. QED BY <1>2, <1>3, <1>4

-----------------------------------------------------------------------------
(* Cashback: each part of the invariant *)

LEMMA CashTypeStep ==
    ASSUME Cash!CashbackAssumption, Cash!TypeOK, RowInv, HeldInv, [Cash!Next]_Cash!vars
    PROVE  Cash!TypeOK'
<1>. USE DEF Cash!balanceVars, Cash!readVars, Cash!rowVars, Cash!Go
<1>0. /\ \A n \in {0} \cup Levels : n \in Nat
      /\ earned \in [ClaimChains -> Nat] /\ referral \in Nat
  <2>1. \A n \in {0} \cup Levels : n \in Nat
    BY DEF Cash!CashbackAssumption
  <2>2. earned \in [ClaimChains -> {0} \cup Levels] /\ referral \in {0} \cup Levels
    BY DEF Cash!TypeOK
  <2>. QED BY <2>1, <2>2
<1>1. ASSUME NEW c \in ClaimChains, Cash!Earn(c) PROVE Cash!TypeOK'
  <2>1. earned' \in [ClaimChains -> {0} \cup Levels]
    BY <1>1 DEF Cash!Earn, Cash!TypeOK
  <2>2. earned' \in [ClaimChains -> Nat]
    BY <1>0, <2>1
  <2>3. peak' \in [ClaimChains -> Nat] /\ top' \in Nat
    BY <1>0, <1>1, <2>2, KeepGrows DEF Cash!Earn
  <2>. QED BY <1>1, <2>1, <2>3 DEF Cash!Earn, Cash!TypeOK
<1>2. CASE Cash!Refer
  <2>1. referral' \in {0} \cup Levels /\ referral' \in Nat
    BY <1>0, <1>2 DEF Cash!Refer
  <2>2. peak' \in [ClaimChains -> Nat] /\ top' \in Nat
    BY <1>0, <1>2, <2>1, KeepGrows DEF Cash!Refer
  <2>. QED BY <1>2, <2>1, <2>2 DEF Cash!Refer, Cash!TypeOK
<1>3. CASE Cash!Link
  BY <1>3 DEF Cash!Link, Cash!TypeOK
<1>4. ASSUME NEW k \in Claims, Cash!ClaimCashback(k) PROVE Cash!TypeOK'
  <2>1. CASE Cash!Resolve(k)
    BY <2>1 DEF Cash!Resolve, Cash!TypeOK
  <2>2. CASE Cash!Lock(k)
    BY <2>2 DEF Cash!Lock, Cash!TypeOK
  <2>3. CASE Cash!ReadOwn(k)
    BY <1>0, <2>3 DEF Cash!ReadOwn, Cash!TypeOK
  <2>4. CASE Cash!ReadReferral(k)
    BY <1>0, <2>4 DEF Cash!ReadReferral, Cash!TypeOK
  <2>5. CASE Cash!ReadClaimed(k)
    <3>1. Cash!AccountClaimed(chain[k]) \in Nat
      BY HeldTotals
    <3>. QED BY <2>5, <3>1 DEF Cash!ReadClaimed, Cash!TypeOK
  <2>6. CASE Cash!ReadView(k)
    <3>1. Cash!WalletClaimed \in Nat
      BY HeldTotals
    <3>2. own' \in [Claims -> Nat]
      BY <1>0, <2>6 DEF Cash!ReadView, Cash!TypeOK
    <3>. QED BY <2>6, <3>1, <3>2 DEF Cash!ReadView, Cash!TypeOK
  <2>7. CASE Cash!Refuse(k)
    BY <2>7 DEF Cash!Refuse, Cash!Forget, Cash!TypeOK
  <2>8. CASE Cash!Reserve(k)
    <3>1. Cash!Claimable(k) \in Nat
      BY ClaimableIs
    <3>2. amount' \in [Claims -> Nat] /\ csince' \in [Claims -> Nat]
      BY <2>8, <3>1 DEF Cash!Reserve, Cash!TypeOK
    <3>3. \A m \in Claims : cstatus'[m] # "none" => amount'[m] >= MinClaim
      BY <2>8 DEF Cash!Reserve, Cash!TypeOK
    <3>. QED BY <2>8, <3>2, <3>3 DEF Cash!Reserve, Cash!Forget, Cash!TypeOK
  <2>9. CASE Cash!PayRefused(k)
    BY <2>9 DEF Cash!PayRefused, Cash!TypeOK
  <2>10. CASE Cash!Release(k)
    <3>1. cstatus[k] # "none"
      BY <2>10 DEF Cash!Release, RowInv
    <3>. QED BY <2>10, <3>1 DEF Cash!Release, Cash!TypeOK
  <2>11. CASE Cash!Broadcast(k)
    BY <2>11 DEF Cash!Broadcast, Cash!TypeOK
  <2>12. CASE Cash!Lose(k)
    BY <2>12 DEF Cash!Lose, Cash!TypeOK
  <2>13. CASE Cash!MarkPaid(k)
    <3>1. cstatus[k] # "none"
      BY <2>13 DEF Cash!MarkPaid, RowInv
    <3>. QED BY <2>13, <3>1 DEF Cash!MarkPaid, Cash!TypeOK
  <2>. QED BY <1>4, <2>1, <2>2, <2>3, <2>4, <2>5, <2>6, <2>7, <2>8, <2>9, <2>10, <2>11, <2>12,
           <2>13 DEF Cash!ClaimCashback
<1>5. CASE UNCHANGED Cash!vars
  BY <1>5 DEF Cash!vars, Cash!TypeOK
<1>. QED BY <1>1, <1>2, <1>3, <1>4, <1>5 DEF Cash!Next

LEMMA RowStep == ASSUME Cash!TypeOK, RowInv, [Cash!Next]_Cash!vars PROVE RowInv'
<1>. USE DEF Cash!balanceVars, Cash!readVars, Cash!rowVars, Cash!Go, RowInv, Reading, Cash!Live
<1>0. cpc \in [Claims -> {"idle", "waiting", "own", "referral", "claimed", "decide",
                          "paying", "refused", "lost", "sent", "done"}]
      /\ cstatus \in [Claims -> {"none", "pending", "paid", "failed"}]
  BY DEF Cash!TypeOK
<1>1. CASE UNCHANGED <<cpc, cstatus, out>>
  BY <1>1
<1>2. ASSUME NEW k \in Claims, Cash!ClaimCashback(k) PROVE RowInv'
  <2>1. CASE Cash!Resolve(k) \/ Cash!Lock(k) \/ Cash!ReadOwn(k) \/ Cash!ReadReferral(k)
             \/ Cash!ReadClaimed(k) \/ Cash!ReadView(k) \/ Cash!Refuse(k)
    <3>1. UNCHANGED <<cstatus, out>> /\ cpc[k] \in Reading
      BY <2>1 DEF Cash!Resolve, Cash!Lock, Cash!ReadOwn, Cash!ReadReferral, Cash!ReadClaimed,
         Cash!ReadView, Cash!Refuse
    <3>2. cpc'[k] \in Reading \cup {"done"} /\ \A m \in Claims : m # k => cpc'[m] = cpc[m]
      BY <1>0, <2>1 DEF Cash!Resolve, Cash!Lock, Cash!ReadOwn, Cash!ReadReferral, Cash!ReadClaimed,
         Cash!ReadView, Cash!Refuse
    <3>. QED BY <1>0, <3>1, <3>2
  <2>2. CASE Cash!Reserve(k)
    BY <1>0, <2>2 DEF Cash!Reserve
  <2>3. CASE Cash!PayRefused(k)
    BY <1>0, <2>3 DEF Cash!PayRefused
  <2>4. CASE Cash!Release(k)
    BY <1>0, <2>4 DEF Cash!Release
  <2>5. CASE Cash!Broadcast(k)
    BY <1>0, <2>5 DEF Cash!Broadcast
  <2>6. CASE Cash!Lose(k)
    BY <1>0, <2>6 DEF Cash!Lose
  <2>7. CASE Cash!MarkPaid(k)
    BY <1>0, <2>7 DEF Cash!MarkPaid
  <2>. QED BY <1>2, <2>1, <2>2, <2>3, <2>4, <2>5, <2>6, <2>7 DEF Cash!ClaimCashback
<1>. QED BY <1>1, <1>2 DEF Cash!Next, Cash!Earn, Cash!Refer, Cash!Link, Cash!vars

LEMMA LockStep == ASSUME Cash!TypeOK, LockInv, [Cash!Next]_Cash!vars PROVE LockInv'
<1>. USE DEF Cash!balanceVars, Cash!readVars, Cash!rowVars, Cash!Go, LockInv, Cash!Locked
<1>0. cpc \in [Claims -> {"idle", "waiting", "own", "referral", "claimed", "decide",
                          "paying", "refused", "lost", "sent", "done"}]
      /\ by \in [Claims -> {"account", "wallet"}]
  BY DEF Cash!TypeOK
<1>1. CASE UNCHANGED <<cpc, by, chain>>
  BY <1>1
<1>2. ASSUME NEW k \in Claims, Cash!ClaimCashback(k) PROVE LockInv'
  <2>1. CASE Cash!Resolve(k)
    BY <1>0, <2>1 DEF Cash!Resolve
  <2>2. CASE Cash!Lock(k)
    BY <1>0, <2>2 DEF Cash!Lock
  <2>3. CASE ~Cash!Resolve(k) /\ ~Cash!Lock(k)
    <3>1. UNCHANGED <<by, chain>>
      BY <1>2, <2>3 DEF Cash!ClaimCashback, Cash!ReadOwn, Cash!ReadReferral,
         Cash!ReadClaimed, Cash!ReadView, Cash!Refuse, Cash!Reserve, Cash!Forget, Cash!PayRefused,
         Cash!Release, Cash!Broadcast, Cash!Lose, Cash!MarkPaid
    <3>2. \A m \in Claims : Cash!Locked(m)' => Cash!Locked(m)
      BY <1>0, <1>2, <2>3 DEF Cash!ClaimCashback, Cash!ReadOwn, Cash!ReadReferral,
         Cash!ReadClaimed, Cash!ReadView, Cash!Refuse, Cash!Reserve, Cash!PayRefused,
         Cash!Release, Cash!Broadcast, Cash!Lose, Cash!MarkPaid
    <3>. QED BY <3>1, <3>2
  <2>. QED BY <2>1, <2>2, <2>3
<1>. QED BY <1>1, <1>2 DEF Cash!Next, Cash!Earn, Cash!Refer, Cash!Link, Cash!vars

(* The balances and their histories. *)
LEMMA PeakStep ==
    ASSUME Cash!CashbackAssumption, Cash!TypeOK, Cash!TypeOK', PeakInv, [Cash!Next]_Cash!vars
    PROVE  /\ PeakInv' /\ top <= top'
           /\ \A c \in ClaimChains : earned[c] <= earned'[c] /\ peak[c] <= peak'[c]
<1>. USE DEF Cash!balanceVars, Cash!readVars, Cash!rowVars
<1>0. /\ earned \in [ClaimChains -> Nat] /\ referral \in Nat /\ top \in Nat
      /\ earned' \in [ClaimChains -> Nat] /\ referral' \in Nat
      /\ \A c \in ClaimChains : peak[c] \in Nat
  <2>1. \A n \in {0} \cup Levels : n \in Nat
    BY DEF Cash!CashbackAssumption
  <2>2. /\ earned \in [ClaimChains -> {0} \cup Levels] /\ referral \in {0} \cup Levels
        /\ earned' \in [ClaimChains -> {0} \cup Levels] /\ referral' \in {0} \cup Levels
        /\ top \in Nat /\ peak \in [ClaimChains -> Nat]
    BY DEF Cash!TypeOK
  <2>. QED BY <2>1, <2>2
<1>1. CASE UNCHANGED <<earned, referral, peak, top>>
  BY <1>0, <1>1 DEF PeakInv, Cash!Balance
<1>2. CASE Cash!Keep(earned', referral') /\ \A c \in ClaimChains : earned[c] <= earned'[c]
  <2>1. /\ top <= top'
        /\ \A c \in ClaimChains : /\ peak[c] <= peak'[c] /\ Cash!Balance(c, earned', referral') <= peak'[c]
                                  /\ earned'[c] + referral' <= top'
    BY <1>0, <1>2, KeepGrows
  <2>. QED BY <1>2, <2>1 DEF PeakInv, Cash!Balance
<1>3. ASSUME NEW c \in ClaimChains, Cash!Earn(c)
      PROVE  Cash!Keep(earned', referral') /\ \A d \in ClaimChains : earned[d] <= earned'[d]
  <2>1. \A d \in ClaimChains : earned[d] <= earned'[d]
    BY <1>0, <1>3 DEF Cash!Earn
  <2>. QED BY <1>3, <2>1 DEF Cash!Earn
<1>4. CASE Cash!Refer
  BY <1>0, <1>2, <1>4 DEF Cash!Refer
<1>5. ASSUME NEW k \in Claims, Cash!ClaimCashback(k) PROVE UNCHANGED <<earned, referral, peak, top>>
  BY <1>5 DEF Cash!ClaimCashback, Cash!Resolve, Cash!Lock, Cash!ReadOwn, Cash!ReadReferral,
     Cash!ReadClaimed, Cash!ReadView, Cash!Refuse, Cash!Reserve, Cash!PayRefused,
     Cash!Release, Cash!Broadcast, Cash!Lose, Cash!MarkPaid
<1>. QED BY <1>1, <1>2, <1>3, <1>4, <1>5 DEF Cash!Next, Cash!Link, Cash!vars

(* A step after which the same claims are held, for the same amounts. *)
HeldStays ==
    /\ AllHeld' = AllHeld /\ Units(amount, AllHeld)' = Units(amount, AllHeld)
    /\ Total(amount, AllHeld)' = Total(amount, AllHeld)
    /\ \A c \in ClaimChains :
          Held(c)' = Held(c) /\ Total(amount, Held(c))' = Total(amount, Held(c))

LEMMA SameHeld ==
    ASSUME \A k \in Claims : /\ Cash!Live(k)' <=> Cash!Live(k)
                             /\ Cash!Live(k) => /\ by'[k] = by[k] /\ chain'[k] = chain[k]
                                                /\ amount'[k] = amount[k]
    PROVE  HeldStays
<1>1. AllHeld' = AllHeld /\ \A c : Held(c)' = Held(c)
  BY DEF AllHeld, Held
<1>2. \A k \in AllHeld : amount'[k] = amount[k]
  BY DEF AllHeld
<1>3. Units(amount', AllHeld) = Units(amount, AllHeld) /\ Total(amount', AllHeld) = Total(amount, AllHeld)
  BY <1>2, TotalSame
<1>4. ASSUME NEW c PROVE Total(amount', Held(c)) = Total(amount, Held(c))
  <2>1. \A k \in Held(c) : amount'[k] = amount[k]
    BY <1>2 DEF AllHeld, Held
  <2>. QED BY <2>1, TotalSame
<1>. QED BY <1>1, <1>3, <1>4 DEF HeldStays

(* Only the reservation and the release change what is held. *)
LEMMA HeldStaysStep ==
    ASSUME Cash!TypeOK, RowInv, [Cash!Next]_Cash!vars,
           \A k \in Claims : ~Cash!Reserve(k) /\ ~Cash!Release(k)
    PROVE  HeldStays
<1>. USE DEF Cash!balanceVars, Cash!readVars, Cash!rowVars, Cash!Go
<1>1. CASE UNCHANGED <<cstatus, amount, by, chain>>
  BY <1>1, SameHeld DEF Cash!Live
<1>2. ASSUME NEW k \in Claims, Cash!Resolve(k) PROVE HeldStays
  <2>1. cstatus[k] = "none" /\ UNCHANGED <<cstatus, amount, chain>>
    BY <1>2 DEF Cash!Resolve, RowInv, Reading
  <2>2. \A m \in Claims : m # k => by'[m] = by[m]
    BY <1>2 DEF Cash!Resolve, Cash!TypeOK
  <2>. QED BY <2>1, <2>2, SameHeld DEF Cash!Live
<1>3. ASSUME NEW k \in Claims, Cash!MarkPaid(k) PROVE HeldStays
  <2>1. cstatus[k] = "pending" /\ UNCHANGED <<amount, by, chain>>
    BY <1>3 DEF Cash!MarkPaid, RowInv
  <2>2. \A m \in Claims : cstatus'[m] = IF m = k THEN "paid" ELSE cstatus[m]
    BY <1>3 DEF Cash!MarkPaid, Cash!TypeOK
  <2>. QED BY <2>1, <2>2, SameHeld DEF Cash!Live
<1>4. ASSUME NEW k \in Claims, Cash!ClaimCashback(k), ~Cash!Resolve(k), ~Cash!MarkPaid(k)
      PROVE  UNCHANGED <<cstatus, amount, by, chain>>
  BY <1>4 DEF Cash!ClaimCashback, Cash!Lock, Cash!ReadOwn, Cash!ReadReferral,
     Cash!ReadClaimed, Cash!ReadView, Cash!Refuse, Cash!PayRefused, Cash!Broadcast, Cash!Lose
<1>. QED BY <1>1, <1>2, <1>3, <1>4 DEF Cash!Next, Cash!Earn, Cash!Refer, Cash!Link, Cash!vars

(* A release lowers the sums. *)
LEMMA ReleaseLowers ==
    ASSUME Cash!TypeOK, HeldInv, NEW k \in Claims, Cash!Release(k)
    PROVE  /\ IsFiniteSet(Units(amount, AllHeld)')
           /\ Total(amount, AllHeld)' <= Total(amount, AllHeld) /\ Total(amount, AllHeld)' \in Nat
           /\ \A c \in ClaimChains : /\ Total(amount, Held(c))' <= Total(amount, Held(c))
                                     /\ Total(amount, Held(c))' \in Nat
<1>1. UNCHANGED <<amount, by, chain>> /\ cstatus' = [cstatus EXCEPT ![k] = "failed"]
  BY DEF Cash!Release, Cash!readVars
<1>2. \A m \in Claims : Cash!Live(m)' => Cash!Live(m)
  BY <1>1 DEF Cash!Live, Cash!TypeOK
<1>3. AllHeld' \in SUBSET AllHeld /\ \A c : Held(c)' \in SUBSET Held(c)
  BY <1>1, <1>2 DEF AllHeld, Held
<1>4. \A c : IsFiniteSet(Units(amount, Held(c)))
  BY HeldTotals
<1>. QED BY <1>1, <1>3, <1>4, TotalOfPart DEF HeldInv

(* A reservation adds what is claimable to the sums it counts to. *)
LEMMA ReserveRaises ==
    ASSUME Cash!TypeOK, RowInv, HeldInv, NEW k \in Claims, Cash!Reserve(k)
    PROVE  /\ IsFiniteSet(Units(amount, AllHeld)')
           /\ Total(amount, AllHeld)' = Total(amount, AllHeld) + Cash!Claimable(k)
           /\ \A c \in ClaimChains :
                 Total(amount, Held(c))' =
                     Total(amount, Held(c)) + (IF by[k] = "account" /\ chain[k] = c
                                               THEN Cash!Claimable(k) ELSE 0)
<1>1. /\ UNCHANGED <<by, chain>> /\ cstatus' = [cstatus EXCEPT ![k] = "pending"]
      /\ amount' = [amount EXCEPT ![k] = Cash!Claimable(k)] /\ cpc[k] = "decide"
  BY DEF Cash!Reserve, Cash!Go
<1>2. Cash!Claimable(k) \in Nat /\ cstatus[k] = "none"
  BY <1>1, ClaimableIs DEF RowInv, Reading
<1>3. /\ amount'[k] = Cash!Claimable(k) /\ amount'[k] \in Nat
      /\ \A m \in Claims : m # k => amount'[m] = amount[m]
      /\ \A m \in Claims : Cash!Live(m)' <=> (Cash!Live(m) \/ m = k)
  BY <1>1, <1>2 DEF Cash!Live, Cash!TypeOK
<1>4. ~Cash!Live(k)
  BY <1>2 DEF Cash!Live
<1>5. AllHeld' = AllHeld \cup {k} /\ k \notin AllHeld
  <2>1. \A m : m \in AllHeld' <=> m \in Claims /\ Cash!Live(m)'
    BY DEF AllHeld
  <2>2. \A m : m \in AllHeld <=> m \in Claims /\ Cash!Live(m)
    BY DEF AllHeld
  <2>3. \A m : m \in AllHeld' <=> m \in AllHeld \cup {k}
    BY <1>3, <2>1, <2>2
  <2>. QED BY <1>4, <2>2, <2>3
<1>6. \A m \in AllHeld : amount'[m] = amount[m]
  BY <1>3, <1>5 DEF AllHeld
<1>7. /\ Units(amount', AllHeld) = Units(amount, AllHeld) /\ IsFiniteSet(Units(amount', AllHeld))
      /\ Total(amount', AllHeld) = Total(amount, AllHeld)
  BY <1>6, TotalSame DEF HeldInv
<1>8. /\ IsFiniteSet(Units(amount', AllHeld \cup {k}))
      /\ Total(amount', AllHeld \cup {k}) = Total(amount', AllHeld) + amount'[k]
  BY <1>3, <1>5, <1>7, TotalAdd
<1>9. ASSUME NEW c \in ClaimChains
      PROVE  Total(amount', Held(c)') =
                 Total(amount, Held(c)) + (IF by[k] = "account" /\ chain[k] = c
                                           THEN Cash!Claimable(k) ELSE 0)
  <2>1. k \notin Held(c) /\ \A m \in Held(c) : amount'[m] = amount[m]
    BY <1>3, <1>4 DEF Held
  <2>2. /\ Total(amount', Held(c)) = Total(amount, Held(c)) /\ Total(amount, Held(c)) \in Nat
        /\ IsFiniteSet(Units(amount', Held(c)))
    BY <2>1, TotalSame, HeldTotals
  <2>3. CASE by[k] = "account" /\ chain[k] = c
    <3>1. Held(c)' = Held(c) \cup {k}
      <4>1. \A m : m \in Held(c)' <=> m \in Claims /\ Cash!Live(m)' /\ by[m] = "account" /\ chain[m] = c
        BY <1>1 DEF Held
      <4>2. \A m : m \in Held(c) <=> m \in Claims /\ Cash!Live(m) /\ by[m] = "account" /\ chain[m] = c
        BY DEF Held
      <4>3. \A m : m \in Held(c)' <=> m \in Held(c) \cup {k}
        BY <1>3, <2>3, <4>1, <4>2
      <4>. QED BY <4>3
    <3>2. Total(amount', Held(c) \cup {k}) = Total(amount', Held(c)) + amount'[k]
      BY <1>3, <2>1, <2>2, TotalAdd
    <3>. QED BY <1>3, <2>2, <2>3, <3>1, <3>2
  <2>4. CASE ~(by[k] = "account" /\ chain[k] = c)
    <3>1. Held(c)' = Held(c)
      BY <1>1, <1>3, <2>4 DEF Held
    <3>. QED BY <2>2, <2>4, <3>1
  <2>. QED BY <2>3, <2>4
<1>. QED BY <1>3, <1>5, <1>7, <1>8, <1>9

LEMMA HeldStep ==
    ASSUME Cash!TypeOK, Cash!TypeOK', RowInv, ReadInv, HeldInv, [Cash!Next]_Cash!vars,
           \A c \in ClaimChains : peak[c] <= peak'[c]
    PROVE  HeldInv'
<1>0. /\ \A c \in ClaimChains : peak[c] \in Nat /\ peak'[c] \in Nat
      /\ \A c \in ClaimChains : Total(amount, Held(c)) \in Nat
  BY HeldTotals DEF Cash!TypeOK
<1>1. CASE \A k \in Claims : ~Cash!Reserve(k) /\ ~Cash!Release(k)
  <2>1. HeldStays
    BY <1>1, HeldStaysStep
  <2>. QED BY <1>0, <2>1 DEF HeldStays, HeldInv
<1>2. ASSUME NEW k \in Claims, Cash!Release(k) PROVE HeldInv'
  <2>1. /\ IsFiniteSet(Units(amount, AllHeld)')
        /\ \A c \in ClaimChains : /\ Total(amount, Held(c))' <= Total(amount, Held(c))
                                  /\ Total(amount, Held(c))' \in Nat
    BY <1>2, ReleaseLowers
  <2>. QED BY <1>0, <2>1 DEF HeldInv
<1>3. ASSUME NEW k \in Claims, Cash!Reserve(k) PROVE HeldInv'
  <2>1. /\ IsFiniteSet(Units(amount, AllHeld)')
        /\ \A c \in ClaimChains :
              Total(amount, Held(c))' =
                  Total(amount, Held(c)) + (IF by[k] = "account" /\ chain[k] = c
                                            THEN Cash!Claimable(k) ELSE 0)
    BY <1>3, ReserveRaises
  <2>2. cpc[k] = "decide"
    BY <1>3 DEF Cash!Reserve, Cash!Go
  <2>3. ASSUME NEW c \in ClaimChains PROVE Total(amount, Held(c))' <= peak'[c]
    <3>1. CASE by[k] = "account" /\ chain[k] = c
      <4>1. own[k] + bonus[k] <= peak[c] /\ Total(amount, Held(c)) <= taken[k]
        BY <2>2, <3>1 DEF ReadInv, CallRead
      <4>2. /\ own[k] \in Nat /\ bonus[k] \in Nat /\ taken[k] \in Nat /\ Cash!Claimable(k) \in Nat
            /\ Cash!Claimable(k) = 0 \/ Cash!Claimable(k) = own[k] + bonus[k] - taken[k]
        BY ClaimableIs
      <4>3. Total(amount, Held(c))' = Total(amount, Held(c)) + Cash!Claimable(k)
        BY <2>1, <3>1
      <4>4. Total(amount, Held(c)) <= peak[c]
        BY DEF HeldInv
      <4>. QED BY <1>0, <4>1, <4>2, <4>3, <4>4
    <3>2. CASE ~(by[k] = "account" /\ chain[k] = c)
      <4>1. Total(amount, Held(c))' = Total(amount, Held(c))
        BY <1>0, <2>1, <3>2
      <4>. QED BY <1>0, <4>1 DEF HeldInv
    <3>. QED BY <3>1, <3>2
  <2>. QED BY <2>1, <2>3 DEF HeldInv
<1>. QED BY <1>1, <1>2, <1>3

(* A step of one call leaves what the others have read. *)
LEMMA OthersStay ==
    ASSUME Cash!TypeOK, NEW k \in Claims, Cash!ClaimCashback(k)
    PROVE  /\ UNCHANGED <<earned, referral, peak, top, linked, chain>>
           /\ \A m \in Claims : m # k => /\ cpc'[m] = cpc[m] /\ by'[m] = by[m] /\ own'[m] = own[m]
                                         /\ bonus'[m] = bonus[m] /\ taken'[m] = taken[m]
<1>. USE DEF Cash!balanceVars, Cash!readVars, Cash!rowVars, Cash!Go, Cash!TypeOK
<1>1. CASE Cash!Resolve(k)
  BY <1>1 DEF Cash!Resolve
<1>2. CASE Cash!ReadOwn(k)
  BY <1>2 DEF Cash!ReadOwn
<1>3. CASE Cash!ReadReferral(k)
  BY <1>3 DEF Cash!ReadReferral
<1>4. CASE Cash!ReadClaimed(k)
  BY <1>4 DEF Cash!ReadClaimed
<1>5. CASE Cash!ReadView(k)
  BY <1>5 DEF Cash!ReadView
<1>6. CASE Cash!Refuse(k)
  BY <1>6 DEF Cash!Refuse, Cash!Forget
<1>7. CASE Cash!Reserve(k)
  BY <1>7 DEF Cash!Reserve, Cash!Forget
<1>8. CASE Cash!Lock(k) \/ Cash!PayRefused(k) \/ Cash!Release(k) \/ Cash!Broadcast(k)
           \/ Cash!Lose(k) \/ Cash!MarkPaid(k)
  BY <1>8 DEF Cash!Lock, Cash!PayRefused, Cash!Release, Cash!Broadcast, Cash!Lose, Cash!MarkPaid
<1>. QED BY <1>1, <1>2, <1>3, <1>4, <1>5, <1>6, <1>7, <1>8 DEF Cash!ClaimCashback

LEMMA ReadStep ==
    ASSUME Cash!CashbackAssumption, Cash!TypeOK, Cash!TypeOK', RowInv, LockInv, PeakInv, ReadInv, HeldInv,
           [Cash!Next]_Cash!vars,
           \A c \in ClaimChains : earned[c] <= earned'[c] /\ peak[c] <= peak'[c]
    PROVE  ReadInv'
<1>. USE DEF Cash!balanceVars, Cash!readVars, Cash!rowVars, Cash!Go
<1>0. /\ \A c \in ClaimChains : earned[c] \in Nat /\ earned'[c] \in Nat /\ peak[c] \in Nat /\ peak'[c] \in Nat
      /\ referral \in Nat
      /\ \A k \in Claims : /\ chain[k] \in ClaimChains /\ own[k] \in Nat /\ bonus[k] \in Nat
                           /\ taken[k] \in Nat
  <2>1. \A n \in {0} \cup Levels : n \in Nat
    BY DEF Cash!CashbackAssumption
  <2>2. /\ earned \in [ClaimChains -> {0} \cup Levels] /\ referral \in {0} \cup Levels
        /\ earned' \in [ClaimChains -> {0} \cup Levels]
        /\ peak \in [ClaimChains -> Nat] /\ peak' \in [ClaimChains -> Nat]
        /\ chain \in [Claims -> ClaimChains] /\ own \in [Claims -> Nat] /\ bonus \in [Claims -> Nat]
        /\ taken \in [Claims -> Nat]
    BY DEF Cash!TypeOK
  <2>. QED BY <2>1, <2>2
<1>1. ASSUME NEW m \in Claims, UNCHANGED <<cpc[m], by[m], chain[m], own[m], bonus[m], taken[m]>>,
             cpc[m] = "decide" /\ by[m] = "account"
                 => Total(amount, Held(chain[m]))' <= Total(amount, Held(chain[m]))
                    /\ Total(amount, Held(chain[m]))' \in Nat
      PROVE  CallRead(m)'
  <2>1. \A c \in ClaimChains : Total(amount, Held(c)) \in Nat
    BY HeldTotals
  <2>2. CallRead(m)
    BY DEF ReadInv
  <2>3. cpc[m] = "decide" /\ by[m] = "account" => Total(amount, Held(chain[m]))' <= taken[m]
    BY <1>0, <1>1, <2>1, <2>2 DEF CallRead
  <2>4. own[m] <= earned[chain[m]] => own[m] <= earned'[chain[m]]
    BY <1>0
  <2>5. own[m] + bonus[m] <= peak[chain[m]] => own[m] + bonus[m] <= peak'[chain[m]]
    BY <1>0
  <2>. QED BY <1>1, <2>2, <2>3, <2>4, <2>5 DEF CallRead
<1>2. CASE UNCHANGED <<cpc, chain, by, own, bonus, taken, cstatus, amount>>
  <2>1. HeldStays
    BY <1>2, SameHeld DEF Cash!Live
  <2>2. \A c \in ClaimChains : Total(amount, Held(c))' = Total(amount, Held(c)) /\ Total(amount, Held(c)) \in Nat
    BY <2>1, HeldTotals DEF HeldStays
  <2>3. ASSUME NEW m \in Claims PROVE CallRead(m)'
    <3>1. PICK c \in ClaimChains : c = chain[m] /\ c = chain'[m]
      BY <1>0, <1>2
    <3>2. Held(chain[m]) = Held(c) /\ Held(chain[m])' = Held(c)'
      BY <3>1 DEF Held
    <3>. QED BY <1>0, <1>1, <1>2, <2>2, <3>2
  <2>. QED BY <2>3 DEF ReadInv
<1>3. ASSUME NEW k \in Claims, Cash!ClaimCashback(k), NEW m \in Claims, m # k PROVE CallRead(m)'
  <2>1. UNCHANGED <<cpc[m], by[m], chain[m], own[m], bonus[m], taken[m]>>
    BY <1>3, OthersStay
  <2>2. PICK c \in ClaimChains : c = chain[m] /\ c = chain'[m]
    BY <1>0, <2>1
  <2>3. Held(chain[m]) = Held(c) /\ Held(chain[m])' = Held(c)'
    BY <2>2 DEF Held
  <2>4. Total(amount, Held(c)) \in Nat
    BY HeldTotals
  <2>5. SUFFICES ASSUME cpc[m] = "decide", by[m] = "account"
                 PROVE  Total(amount, Held(c))' <= Total(amount, Held(c)) /\ Total(amount, Held(c))' \in Nat
    BY <1>1, <2>1, <2>3
  <2>6. CASE \A j \in Claims : ~Cash!Reserve(j) /\ ~Cash!Release(j)
    <3>1. HeldStays
      BY <2>6, HeldStaysStep
    <3>. QED BY <2>4, <3>1 DEF HeldStays
  <2>7. ASSUME NEW j \in Claims, Cash!Release(j)
        PROVE  Total(amount, Held(c))' <= Total(amount, Held(c)) /\ Total(amount, Held(c))' \in Nat
    BY <2>7, ReleaseLowers
  <2>8. ASSUME NEW j \in Claims, Cash!Reserve(j)
        PROVE  Total(amount, Held(c))' <= Total(amount, Held(c)) /\ Total(amount, Held(c))' \in Nat
    <3>1. cpc[j] = "decide" /\ cpc'[j] = "paying"
      BY <2>8 DEF Cash!Reserve, Cash!TypeOK
    <3>2. j # m
      BY <2>1, <2>5, <3>1
    <3>3. ~(by[j] = "account" /\ chain[j] = c)
      BY <2>2, <2>5, <3>1, <3>2 DEF LockInv, Cash!Locked
    <3>4. Total(amount, Held(c))' =
              Total(amount, Held(c)) + (IF by[j] = "account" /\ chain[j] = c
                                        THEN Cash!Claimable(j) ELSE 0)
      BY <2>8, ReserveRaises
    <3>. QED BY <2>4, <3>3, <3>4
  <2>. QED BY <2>6, <2>7, <2>8
<1>4. ASSUME NEW k \in Claims, Cash!ClaimCashback(k) PROVE CallRead(k)'
  <2>0. CallRead(k) /\ chain[k] \in ClaimChains /\ chain' = chain
    BY <1>0, <1>4, OthersStay DEF ReadInv
  <2>1. CASE Cash!Resolve(k) \/ Cash!Lock(k)
    <3>1. cpc'[k] \in {"waiting", "own"} /\ bonus' = bonus /\ cpc[k] \in {"idle", "waiting"}
      BY <2>1 DEF Cash!Resolve, Cash!Lock, Cash!TypeOK
    <3>. QED BY <2>0, <3>1 DEF CallRead
  <2>2. CASE Cash!ReadOwn(k)
    <3>1. /\ by'[k] = "account" /\ own'[k] = earned[chain[k]] /\ bonus'[k] = 0 /\ UNCHANGED <<earned, peak>>
          /\ cpc'[k] = IF chain[k] = "solana" THEN "referral" ELSE "claimed"
      BY <2>0, <2>2 DEF Cash!ReadOwn, Cash!TypeOK, CallRead
    <3>2. earned[chain[k]] <= peak[chain[k]]
      BY <1>0, <2>0 DEF PeakInv, Cash!Balance
    <3>. QED BY <1>0, <2>0, <3>1, <3>2 DEF CallRead
  <2>3. CASE Cash!ReadReferral(k)
    <3>1. /\ by'[k] = "account" /\ chain[k] = "solana" /\ own'[k] = own[k] /\ bonus'[k] = referral
          /\ own[k] <= earned[chain[k]] /\ cpc'[k] = "claimed" /\ UNCHANGED <<earned, peak>>
      BY <2>0, <2>3 DEF Cash!ReadReferral, Cash!TypeOK, CallRead
    <3>2. earned[chain[k]] + referral <= peak[chain[k]]
      BY <2>0, <3>1 DEF PeakInv, Cash!Balance
    <3>. QED BY <1>0, <2>0, <3>1, <3>2 DEF CallRead
  <2>4. CASE Cash!ReadClaimed(k)
    <3>1. /\ by' = by /\ own' = own /\ bonus' = bonus /\ UNCHANGED <<earned, peak, cstatus, amount>>
          /\ cpc[k] = "claimed" /\ cpc'[k] = "decide" /\ taken'[k] = Cash!AccountClaimed(chain[k])
      BY <2>4 DEF Cash!ReadClaimed, Cash!TypeOK
    <3>2. Total(amount, Held(chain[k]))' = Total(amount, Held(chain[k]))
      BY <2>0, <3>1 DEF Held, Cash!Live
    <3>3. Total(amount, Held(chain[k])) <= taken'[k]
      BY <2>0, <3>1, HeldTotals
    <3>. QED BY <2>0, <3>1, <3>2, <3>3 DEF CallRead
  <2>5. CASE Cash!ReadView(k)
    <3>1. by'[k] = "wallet" /\ cpc'[k] = "decide" /\ bonus'[k] = 0
      BY <2>0, <2>5 DEF Cash!ReadView, Cash!TypeOK, CallRead
    <3>. QED BY <3>1 DEF CallRead
  <2>6. CASE Cash!Refuse(k) \/ Cash!Reserve(k)
    <3>1. cpc'[k] \in {"done", "paying"} /\ bonus'[k] = 0
      BY <2>6 DEF Cash!Refuse, Cash!Reserve, Cash!Forget, Cash!TypeOK
    <3>. QED BY <3>1 DEF CallRead
  <2>7. CASE Cash!PayRefused(k) \/ Cash!Release(k) \/ Cash!Broadcast(k) \/ Cash!Lose(k) \/ Cash!MarkPaid(k)
    <3>1. /\ cpc[k] \in {"paying", "refused", "lost", "sent"} /\ bonus' = bonus
          /\ cpc'[k] \in {"refused", "lost", "sent", "done"}
      BY <2>7 DEF Cash!PayRefused, Cash!Release, Cash!Broadcast, Cash!Lose, Cash!MarkPaid, Cash!TypeOK
    <3>. QED BY <2>0, <3>1 DEF CallRead
  <2>. QED BY <1>4, <2>1, <2>2, <2>3, <2>4, <2>5, <2>6, <2>7 DEF Cash!ClaimCashback
<1>5. ASSUME NEW k \in Claims, Cash!ClaimCashback(k) PROVE ReadInv'
  BY <1>3, <1>4, <1>5 DEF ReadInv
<1>. QED BY <1>2, <1>5 DEF Cash!Next, Cash!Earn, Cash!Refer, Cash!Link, Cash!vars

LEMMA WalletStep ==
    ASSUME Cash!CashbackAssumption, Cash!TypeOK, Cash!TypeOK', RowInv, PeakInv, ReadInv, HeldInv, WalletInv,
           [Cash!Next]_Cash!vars, top <= top'
    PROVE  WalletInv'
<1>. USE DEF Cash!balanceVars, Cash!readVars, Cash!rowVars, Cash!Go
<1>0. /\ \A c \in ClaimChains : earned[c] \in Nat
      /\ referral \in Nat /\ top \in Nat /\ top' \in Nat /\ Total(amount, AllHeld) \in Nat
      /\ \A k \in Claims : own[k] \in Nat /\ bonus[k] \in Nat /\ taken[k] \in Nat /\ csince[k] \in Nat
  <2>1. \A n \in {0} \cup Levels : n \in Nat
    BY DEF Cash!CashbackAssumption
  <2>2. /\ earned \in [ClaimChains -> {0} \cup Levels] /\ referral \in {0} \cup Levels
        /\ top \in Nat /\ top' \in Nat
        /\ own \in [Claims -> Nat] /\ bonus \in [Claims -> Nat]
        /\ taken \in [Claims -> Nat] /\ csince \in [Claims -> Nat]
    BY DEF Cash!TypeOK
  <2>. QED BY <2>1, <2>2, HeldTotals
<1>1. CASE linked'
  BY <1>1 DEF WalletInv
<1>2. CASE ~linked'
  <2>1. ~linked
    <3>1. ASSUME NEW k \in Claims, Cash!ClaimCashback(k) PROVE linked' = linked
      BY <3>1, OthersStay
    <3>. QED BY <1>2, <3>1 DEF Cash!Next, Cash!Earn, Cash!Refer, Cash!Link, Cash!vars
  <2>2. Overlap /\ \A k \in Claims : by[k] = "wallet" /\ ViewRead(k)
    BY <2>1 DEF WalletInv
  <2>3. CASE UNCHANGED <<cpc, chain, by, own, bonus, taken, cstatus, amount, csince>>
    <3>1. Total(amount, AllHeld)' = Total(amount, AllHeld)
      BY <2>3, SameHeld DEF Cash!Live, HeldStays
    <3>2. Overlap'
      BY <1>0, <2>2, <2>3, <3>1 DEF Overlap
    <3>3. \A m \in Claims : ViewRead(m)'
      BY <1>0, <2>2, <2>3, <3>1 DEF ViewRead
    <3>. QED BY <2>2, <2>3, <3>2, <3>3 DEF WalletInv
  <2>4. ASSUME NEW k \in Claims, Cash!ClaimCashback(k) PROVE WalletInv'
    <3>1. /\ top' = top
          /\ \A m \in Claims : m # k => /\ cpc'[m] = cpc[m] /\ by'[m] = by[m] /\ own'[m] = own[m]
                                        /\ bonus'[m] = bonus[m] /\ taken'[m] = taken[m]
      BY <2>4, OthersStay
    <3>2. \A m \in Claims : by'[m] = "wallet"
      <4>1. CASE Cash!Resolve(k)
        BY <2>1, <2>2, <4>1 DEF Cash!Resolve, Cash!TypeOK
      <4>2. CASE ~Cash!Resolve(k)
        <5>1. by' = by
          BY <2>4, <4>2 DEF Cash!ClaimCashback, Cash!Lock, Cash!ReadOwn, Cash!ReadReferral,
             Cash!ReadClaimed, Cash!ReadView, Cash!Refuse, Cash!Reserve, Cash!PayRefused,
             Cash!Release, Cash!Broadcast, Cash!Lose, Cash!MarkPaid
        <5>. QED BY <2>2, <5>1
      <4>. QED BY <4>1, <4>2
    <3>3. ASSUME NEW j \in Claims, Cash!Reserve(j) PROVE WalletInv'
      <4>1. Total(amount, AllHeld)' = Total(amount, AllHeld) + Cash!Claimable(j)
        BY <3>3, ReserveRaises
      <4>2. /\ Cash!Claimable(j) \in Nat
            /\ Cash!Claimable(j) = 0 \/ Cash!Claimable(j) = own[j] + bonus[j] - taken[j]
        BY ClaimableIs
      <4>3. /\ cpc[j] = "decide" /\ cpc'[j] = "paying" /\ csince'[j] = csince[j]
            /\ \A m \in Claims : /\ cpc[m] = "decide" /\ m # j => csince'[m] = csince[m] + Cash!Claimable(j)
                                 /\ csince'[m] \in Nat /\ csince[m] <= csince'[m]
        BY <1>0, <3>3, <4>2 DEF Cash!Reserve, Cash!TypeOK
      <4>4. bonus[j] = 0 /\ own[j] <= top /\ Total(amount, AllHeld) <= taken[j] + csince[j]
        <5>1. by[j] = "wallet" /\ ViewRead(j) /\ CallRead(j)
          BY <2>2 DEF ReadInv
        <5>. QED BY <4>3, <5>1 DEF CallRead, ViewRead
      <4>5. Overlap'
        <5>1. CASE Cash!Claimable(j) = 0
          <6>1. Total(amount, AllHeld)' = Total(amount, AllHeld)
            BY <1>0, <4>1, <5>1
          <6>2. CASE Total(amount, AllHeld) <= top
            BY <3>1, <6>1, <6>2 DEF Overlap
          <6>3. ASSUME NEW m \in Claims, Total(amount, AllHeld) <= top + csince[m] PROVE Overlap'
            <7>1. Total(amount, AllHeld) <= top + csince'[m]
              BY <1>0, <4>3, <6>3
            <7>. QED BY <3>1, <6>1, <7>1 DEF Overlap
          <6>. QED BY <2>2, <6>2, <6>3 DEF Overlap
        <5>2. CASE Cash!Claimable(j) = own[j] + bonus[j] - taken[j]
          <6>1. Total(amount, AllHeld)' <= top + csince'[j]
            BY <1>0, <4>1, <4>3, <4>4, <5>2
          <6>. QED BY <3>1, <6>1 DEF Overlap
        <5>. QED BY <4>2, <5>1, <5>2
      <4>6. ASSUME NEW m \in Claims PROVE ViewRead(m)'
        <5>1. CASE cpc'[m] = "decide"
          <6>1. m # j /\ cpc[m] = "decide" /\ own'[m] = own[m] /\ taken'[m] = taken[m]
            BY <3>3, <4>3, <5>1, OthersStay DEF Cash!ClaimCashback
          <6>2. csince'[m] = csince[m] + Cash!Claimable(j)
            BY <4>3, <6>1
          <6>3. own[m] <= top /\ Total(amount, AllHeld) <= taken[m] + csince[m]
            BY <2>2, <6>1 DEF ViewRead
          <6>4. Total(amount, AllHeld)' <= taken[m] + csince'[m]
            BY <1>0, <4>1, <4>2, <6>2, <6>3
          <6>. QED BY <3>1, <6>1, <6>3, <6>4 DEF ViewRead
        <5>. QED BY <5>1 DEF ViewRead
      <4>. QED BY <3>2, <4>5, <4>6 DEF WalletInv
    <3>4. CASE \A j \in Claims : ~Cash!Reserve(j)
      <4>1. Total(amount, AllHeld)' <= Total(amount, AllHeld) /\ Total(amount, AllHeld)' \in Nat
        <5>1. CASE \A j \in Claims : ~Cash!Release(j)
          BY <1>0, <3>4, <5>1, HeldStaysStep DEF HeldStays
        <5>2. ASSUME NEW j \in Claims, Cash!Release(j)
              PROVE  Total(amount, AllHeld)' <= Total(amount, AllHeld) /\ Total(amount, AllHeld)' \in Nat
          BY <5>2, ReleaseLowers
        <5>. QED BY <5>1, <5>2
      <4>2. csince' = csince
        BY <2>4, <3>4 DEF Cash!ClaimCashback, Cash!Resolve, Cash!Lock, Cash!ReadOwn, Cash!ReadReferral,
           Cash!ReadClaimed, Cash!ReadView, Cash!Refuse, Cash!PayRefused,
           Cash!Release, Cash!Broadcast, Cash!Lose, Cash!MarkPaid
      <4>3. Overlap'
        <5>1. CASE Total(amount, AllHeld) <= top
          BY <1>0, <3>1, <4>1, <5>1 DEF Overlap
        <5>2. ASSUME NEW m \in Claims, Total(amount, AllHeld) <= top + csince[m] PROVE Overlap'
          BY <1>0, <3>1, <4>1, <4>2, <5>2 DEF Overlap
        <5>. QED BY <2>2, <5>1, <5>2 DEF Overlap
      <4>4. ASSUME NEW m \in Claims, m # k PROVE ViewRead(m)'
        <5>1. CASE cpc[m] = "decide"
          <6>1. own[m] <= top /\ Total(amount, AllHeld) <= taken[m] + csince[m]
            BY <2>2, <5>1 DEF ViewRead
          <6>2. Total(amount, AllHeld)' <= taken[m] + csince[m]
            BY <1>0, <4>1, <6>1
          <6>. QED BY <3>1, <4>2, <4>4, <6>1, <6>2 DEF ViewRead
        <5>. QED BY <3>1, <4>4, <5>1 DEF ViewRead
      <4>5. ViewRead(k)'
        <5>1. CASE Cash!ReadView(k)
          <6>1. PICK c \in ClaimChains : own'[k] = earned[c] + referral
            BY <5>1 DEF Cash!ReadView, Cash!TypeOK
          <6>2. own'[k] <= top
            BY <6>1 DEF PeakInv
          <6>3. taken'[k] = Total(amount, AllHeld)
            BY <5>1, HeldTotals DEF Cash!ReadView, Cash!TypeOK
          <6>4. Total(amount, AllHeld)' <= taken'[k] + csince[k]
            BY <1>0, <4>1, <6>3
          <6>. QED BY <3>1, <4>2, <6>2, <6>4 DEF ViewRead
        <5>2. CASE ~Cash!ReadView(k)
          <6>1. ~Cash!ReadClaimed(k)
            <7>1. by[k] = "wallet" /\ CallRead(k)
              BY <2>2 DEF ReadInv
            <7>. QED BY <7>1 DEF Cash!ReadClaimed, CallRead
          <6>2. cpc'[k] # "decide"
            BY <2>4, <3>4, <5>2, <6>1 DEF Cash!ClaimCashback, Cash!Resolve, Cash!Lock, Cash!ReadOwn,
               Cash!ReadReferral, Cash!Refuse, Cash!PayRefused,
               Cash!Release, Cash!Broadcast, Cash!Lose, Cash!MarkPaid, Cash!TypeOK
          <6>. QED BY <6>2 DEF ViewRead
        <5>. QED BY <5>1, <5>2
      <4>. QED BY <3>2, <4>3, <4>4, <4>5 DEF WalletInv
    <3>. QED BY <3>3, <3>4
  <2>. QED BY <2>3, <2>4 DEF Cash!Next, Cash!Earn, Cash!Refer, Cash!Link, Cash!vars
<1>. QED BY <1>1, <1>2

-----------------------------------------------------------------------------
(* Cashback: the theorems *)

LEMMA CashStarts == ASSUME Cash!CashbackAssumption, Cash!Init PROVE CashInv
<1>. USE DEF Cash!Init
<1>1. Cash!TypeOK
  BY DEF Cash!TypeOK
<1>2. RowInv /\ LockInv
  BY DEF RowInv, LockInv, Reading, Cash!Locked, Cash!Live
<1>3. PeakInv
  BY DEF PeakInv, Cash!Balance
<1>4. AllHeld = {} /\ \A c : Held(c) = {}
  BY DEF AllHeld, Held, Cash!Live
<1>5. /\ IsFiniteSet(Units(amount, AllHeld)) /\ Total(amount, AllHeld) = 0
      /\ \A c : Total(amount, Held(c)) = 0
  BY <1>4, TotalOfNone
<1>6. HeldInv
  BY <1>5 DEF HeldInv
<1>7. ReadInv
  BY DEF ReadInv, CallRead
<1>8. WalletInv
  BY <1>5 DEF WalletInv, Overlap, ViewRead
<1>. QED BY <1>1, <1>2, <1>3, <1>6, <1>7, <1>8 DEF CashInv

LEMMA CashInductive == ASSUME Cash!CashbackAssumption, CashInv, [Cash!Next]_Cash!vars PROVE CashInv'
<1>. USE DEF CashInv
<1>1. Cash!TypeOK'
  BY CashTypeStep
<1>2. RowInv' /\ LockInv'
  BY RowStep, LockStep
<1>3. /\ PeakInv' /\ top <= top'
      /\ \A c \in ClaimChains : earned[c] <= earned'[c] /\ peak[c] <= peak'[c]
  BY <1>1, PeakStep
<1>4. HeldInv'
  BY <1>1, <1>3, HeldStep
<1>5. ReadInv'
  BY <1>1, <1>3, ReadStep
<1>6. WalletInv'
  BY <1>1, <1>3, WalletStep
<1>. QED BY <1>1, <1>2, <1>3, <1>4, <1>5, <1>6

(* What the invariant says of the properties. *)
LEMMA CashMeans ==
    ASSUME CashInv
    PROVE  ReservedWithinEarned /\ PaidIsNeverReleased /\ WalletUpToOverlap
<1>. USE DEF CashInv
<1>1. ReservedWithinEarned
  BY DEF HeldInv, Held, ReservedWithinEarned
<1>2. PaidIsNeverReleased
  BY DEF RowInv, Cash!TypeOK, PaidIsNeverReleased
<1>3. WalletUpToOverlap
  BY DEF WalletInv, Overlap, AllHeld, WalletUpToOverlap
<1>. QED BY <1>1, <1>2, <1>3

(* CashInv is an inductive invariant of claim_cashback. *)
THEOREM CashInvariance == Cash!Spec => []CashInv
<1>1. Cash!Init => CashInv
  BY CashStarts, RewardsAssumption
<1>2. CashInv /\ [Cash!Next]_Cash!vars => CashInv'
  BY CashInductive, RewardsAssumption
<1>. QED BY <1>1, <1>2, PTL DEF Cash!Spec

(* Every row of cashback_claims is well-formed and none is of less than
   MIN_CLAIM_USD. *)
THEOREM CashbackTypes == Cash!Spec => []Cash!TypeOK
<1>1. CashInv => Cash!TypeOK
  BY DEF CashInv
<1>. QED BY <1>1, CashInvariance, PTL

(* What an account has claimed on a chain, pending or paid, never exceeds the
   most it has earned there, for any number of claims at once. *)
THEOREM ClaimsWithinEarned == Cash!Spec => []ReservedWithinEarned
<1>1. CashInv => ReservedWithinEarned
  BY CashMeans
<1>. QED BY <1>1, CashInvariance, PTL

(* A claim whose transfer was broadcast is never released by claim_cashback. *)
THEOREM PaidStaysReserved == Cash!Spec => []PaidIsNeverReleased
<1>1. CashInv => PaidIsNeverReleased
  BY CashMeans
<1>. QED BY <1>1, CashInvariance, PTL

(* A wallet without an account is overpaid by no more than what overlapping
   claims of it reserved. *)
THEOREM WalletsUpToOverlap == Cash!Spec => []WalletUpToOverlap
<1>1. CashInv => WalletUpToOverlap
  BY CashMeans
<1>. QED BY <1>1, CashInvariance, PTL

-----------------------------------------------------------------------------
(* Trades and claims together *)

(* A balance can be any amount. *)
AnyBalance == Levels = Nat \ {0}

(* The balance a claim reads is the rollup's, and where referrals do not count
   it never falls. *)
JoinInv ==
    \A c \in Chains : earned[c] = roll[c].cash /\ (c # "solana" => peak[c] = earned[c])

(* A step of the trades adds to the cashback of at most one chain. *)
LEMMA CashGrows ==
    ASSUME TypeOK, Next
    PROVE  \E c \in Chains, n \in Nat : /\ roll'[c].cash = roll[c].cash + n
                                        /\ \A d \in Chains : d # c => roll'[d].cash = roll[d].cash
<1>. DEFINE Goal == \E c \in Chains, n \in Nat : /\ roll'[c].cash = roll[c].cash + n
                                                /\ \A d \in Chains : d # c => roll'[d].cash = roll[d].cash
<1>. SUFFICES Goal
  OBVIOUS
<1>1. ASSUME roll' = roll PROVE Goal
  <2>1. "solana" \in Chains /\ roll["solana"].cash \in Nat
    BY DEF Chains, TypeOK
  <2>2. roll'["solana"].cash = roll["solana"].cash + 0
    BY <1>1, <2>1
  <2>. QED BY <1>1, <2>1, <2>2
<1>2. ASSUME NEW w \in Workers, Fold(w) PROVE Goal
  <2>1. PICK x \in Rows : x = On(w)
    BY RowsOf
  <2>2. PICK n \in Nat : n = book[x].fee * book[x].pct
    BY Numbers
  <2>3. PICK c \in Chains : c = Chain(x)
    BY ChainIsOne
  <2>4. roll'[c].cash = roll[c].cash + n
    BY <1>2, <2>1, <2>2, <2>3 DEF Fold, TypeOK
  <2>5. \A d \in Chains : d # c => roll'[d] = roll[d]
    BY <1>2, <2>1, <2>3 DEF Fold, TypeOK
  <2>. QED BY <2>4, <2>5
<1>3. CASE UpsertLimits \/ NewDay
  BY <1>1, <1>3 DEF UpsertLimits, NewDay, rollVars
<1>4. ASSUME NEW t \in Trades, CheckSpending(t) \/ CreateTransaction(t) PROVE Goal
  BY <1>1, <1>4 DEF CheckSpending, CreateTransaction, Quote, ReadLimits, ReadTotal,
     CheckFails, InsertTransaction, Commit, NotCommitted, RecordPending, PendingNotRecorded, rollVars
<1>5. ASSUME NEW p \in Patches, PatchStatus(p), ~Fold(p) PROVE roll' = roll
  BY <1>5 DEF PatchStatus, PatchRead, PatchUpdate, FinalizeOther, Flip, FlipNothing, ReadChain,
     ReadTier, Book, BookFails, FoldFails, FoldDaily, rollVars
<1>6. ASSUME NEW r \in Records, RecordEvm(r), ~Fold(r) PROVE roll' = roll
  BY <1>6 DEF RecordEvm, Seek, SeekBlind, ReadTier, InsertHistory, InsertRow, InsertFails,
     FoldFails, FoldDaily, rollVars
<1>. QED BY <1>1, <1>2, <1>3, <1>4, <1>5, <1>6 DEF Next, Workers

(* So the claims see a step of theirs in it. *)
LEMMA TradeIsEarn ==
    ASSUME AnyBalance, TypeOK, CashInv, JoinInv, TradeStep
    PROVE  /\ [Cash!Next]_Cash!vars
           /\ \A c \in Chains : earned'[c] = roll'[c].cash
<1>1. PICK c \in Chains, n \in Nat : /\ roll'[c].cash = roll[c].cash + n
                                     /\ \A d \in Chains : d # c => roll'[d].cash = roll[d].cash
  BY CashGrows DEF TradeStep
<1>2. earned \in [ClaimChains -> Nat] /\ Chains \subseteq ClaimChains /\ Levels = Nat \ {0}
  <2>1. earned \in [ClaimChains -> {0} \cup Levels] /\ {0} \cup Levels = Nat
    BY DEF CashInv, Cash!TypeOK, AnyBalance
  <2>. QED BY <2>1, RewardsAssumption DEF AnyBalance
<1>3. /\ earned' = [d \in ClaimChains |-> earned'[d]]
      /\ \A d \in ClaimChains : earned'[d] = IF d \in Chains THEN roll'[d].cash ELSE earned[d]
  BY DEF TradeStep, Shown
<1>4. \A d \in ClaimChains : earned'[d] = IF d = c THEN earned[c] + n ELSE earned[d]
  BY <1>1, <1>2, <1>3 DEF JoinInv
<1>5. earned' = [earned EXCEPT ![c] = earned[c] + n]
  BY <1>2, <1>3, <1>4
<1>6. \A d \in Chains : earned'[d] = roll'[d].cash
  BY <1>2, <1>3
<1>7. CASE earned' = earned
  BY <1>6, <1>7 DEF TradeStep, cashVars, Cash!vars, Cash!balanceVars, Cash!readVars, Cash!rowVars
<1>8. CASE earned' # earned
  <2>1. n # 0
    BY <1>2, <1>5, <1>8
  <2>2. PICK e \in Levels : e = earned[c] + n /\ e > earned[c]
    BY <1>2, <2>1
  <2>3. Cash!Earn(c)
    BY <1>5, <1>8, <2>2 DEF TradeStep, Cash!Earn, Cash!readVars, Cash!rowVars
  <2>. QED BY <1>2, <1>6, <2>3 DEF Cash!Next
<1>. QED BY <1>7, <1>8

(* Every step is one of each part, or none of its business. *)
LEMMA JoinStep ==
    ASSUME AnyBalance, TypeOK, CashInv, JoinInv, [RewardsNext]_<<vars, cashVars>>
    PROVE  [Next]_vars /\ [Cash!Next]_Cash!vars /\ JoinInv'
<1>1. /\ [Next]_vars /\ [Cash!Next]_Cash!vars
      /\ \A c \in Chains : earned'[c] = roll'[c].cash
  <2>1. CASE TradeStep
    BY <2>1, TradeIsEarn DEF TradeStep
  <2>2. CASE ClaimStep
    <3>1. UNCHANGED vars /\ UNCHANGED roll
      BY <2>2 DEF ClaimStep, vars, rollVars
    <3>2. Cash!Next
      BY <2>2 DEF ClaimStep, Cash!Next
    <3>3. ASSUME NEW c \in ClaimChains \ Chains, Cash!Earn(c), NEW d \in Chains PROVE earned'[d] = earned[d]
      BY <3>3, RewardsAssumption DEF Cash!Earn, CashInv, Cash!TypeOK
    <3>4. ASSUME NEW k \in Claims, Cash!ClaimCashback(k) PROVE earned' = earned
      BY <3>4, OthersStay DEF CashInv
    <3>5. \A d \in Chains : earned'[d] = earned[d]
      BY <2>2, <3>3, <3>4 DEF ClaimStep, Cash!Refer, Cash!Link
    <3>. QED BY <3>1, <3>2, <3>5 DEF JoinInv
  <2>3. CASE UNCHANGED <<vars, cashVars>>
    <3>1. UNCHANGED vars /\ UNCHANGED roll /\ UNCHANGED earned
      BY <2>3 DEF vars, rollVars, cashVars
    <3>2. UNCHANGED Cash!vars
      BY <2>3 DEF cashVars, Cash!vars, Cash!balanceVars, Cash!readVars, Cash!rowVars
    <3>. QED BY <3>1, <3>2 DEF JoinInv
  <2>. QED BY <2>1, <2>2, <2>3 DEF RewardsNext
<1>2. CashInv'
  BY <1>1, RewardsAssumption, CashInductive
<1>3. \A c \in ClaimChains : /\ earned[c] \in Nat /\ earned'[c] \in Nat /\ peak[c] \in Nat
                            /\ earned[c] <= earned'[c]
  <2>1. {0} \cup Levels = Nat
    BY DEF AnyBalance
  <2>2. /\ earned \in [ClaimChains -> {0} \cup Levels] /\ earned' \in [ClaimChains -> {0} \cup Levels]
        /\ peak \in [ClaimChains -> Nat]
    BY <1>2 DEF CashInv, Cash!TypeOK
  <2>3. \A c \in ClaimChains : earned[c] <= earned'[c]
    BY <1>1, <1>2, RewardsAssumption, PeakStep DEF CashInv
  <2>. QED BY <2>1, <2>2, <2>3
<1>4. Cash!Keep(earned', referral') \/ UNCHANGED <<earned, peak>>
  <2>1. ASSUME NEW k \in Claims, Cash!ClaimCashback(k) PROVE UNCHANGED <<earned, peak>>
    BY <2>1, OthersStay DEF CashInv
  <2>2. ASSUME NEW c \in ClaimChains, Cash!Earn(c) PROVE Cash!Keep(earned', referral')
    BY <2>2 DEF Cash!Earn
  <2>3. CASE Cash!Refer
    BY <2>3 DEF Cash!Refer
  <2>. QED BY <1>1, <2>1, <2>2, <2>3 DEF Cash!Next, Cash!Link, Cash!vars, Cash!balanceVars
<1>5. ASSUME NEW c \in Chains, c # "solana" PROVE peak'[c] = earned'[c]
  <2>1. c \in ClaimChains /\ peak[c] = earned[c]
    BY <1>5, RewardsAssumption DEF JoinInv
  <2>2. CASE Cash!Keep(earned', referral')
    <3>1. peak'[c] = Cash!Max({peak[c], Cash!Balance(c, earned', referral')})
      BY <2>1, <2>2 DEF Cash!Keep
    <3>2. Cash!Balance(c, earned', referral') = earned'[c]
      BY <1>3, <1>5, <2>1 DEF Cash!Balance
    <3>3. PICK a \in Int, b \in Int : a = peak[c] /\ b = earned'[c] /\ a <= b
      BY <1>3, <2>1
    <3>4. Cash!Max({a, b}) \in {a, b} /\ b <= Cash!Max({a, b})
      BY MaxOfTwo
    <3>5. Cash!Max({a, b}) = b
      BY <3>3, <3>4
    <3>. QED BY <3>1, <3>2, <3>3, <3>5
  <2>. QED BY <1>4, <2>1, <2>2
<1>. QED BY <1>1, <1>5 DEF JoinInv

(* The invariants of both parts, and what joins them. *)
RewardsInv == IInv /\ CashInv /\ JoinInv

(* RewardsInv is an inductive invariant of the composition. *)
THEOREM RewardsInvariance == ASSUME AnyBalance PROVE RewardsSpec => []RewardsInv
<1>1. RewardsInit => RewardsInv
  <2>. SUFFICES ASSUME RewardsInit PROVE RewardsInv
    OBVIOUS
  <2>1. IInv
    BY TradeStarts DEF RewardsInit
  <2>2. CashInv
    BY RewardsAssumption, CashStarts DEF RewardsInit
  <2>3. JoinInv
    BY RewardsAssumption DEF RewardsInit, Init, Cash!Init, JoinInv
  <2>. QED BY <2>1, <2>2, <2>3 DEF RewardsInv
<1>2. RewardsInv /\ [RewardsNext]_<<vars, cashVars>> => RewardsInv'
  <2>. SUFFICES ASSUME RewardsInv, [RewardsNext]_<<vars, cashVars>> PROVE RewardsInv'
    OBVIOUS
  <2>1. [Next]_vars /\ [Cash!Next]_Cash!vars /\ JoinInv'
    BY JoinStep DEF RewardsInv, IInv
  <2>2. IInv'
    BY <2>1, TradeInductive DEF RewardsInv
  <2>3. CashInv'
    BY <2>1, RewardsAssumption, CashInductive DEF RewardsInv
  <2>. QED BY <2>1, <2>2, <2>3 DEF RewardsInv
<1>. QED BY <1>1, <1>2, PTL DEF RewardsSpec

(* Seen from the trades, and seen from the claims, the composition is a
   behaviour of that part alone: a rollup that finalize_confirmed or
   record_evm_confirmed adds to is, to claim_cashback, a balance that grew. *)
THEOREM RewardsImplementsBoth == ASSUME AnyBalance PROVE RewardsSpec => Spec /\ Cash!Spec
<1>1. RewardsInit => Init /\ Cash!Init
  BY DEF RewardsInit
<1>2. RewardsInv /\ [RewardsNext]_<<vars, cashVars>> => [Next]_vars /\ [Cash!Next]_Cash!vars
  BY JoinStep DEF RewardsInv, IInv
<1>. QED BY <1>1, <1>2, RewardsInvariance, PTL DEF RewardsSpec, Spec, Cash!Spec

(* What an account has claimed on a chain that referrals do not count to is
   covered by the cashback of its confirmed trades there, each counted once,
   over any number of trades, reports and claims. *)
THEOREM EveryClaimIsCovered == ASSUME AnyBalance PROVE RewardsSpec => []ClaimsAreCovered
<1>1. RewardsInv => ClaimsAreCovered
  <2>. SUFFICES ASSUME RewardsInv, NEW c \in Chains, c # "solana"
                PROVE  /\ Cash!AccountClaimed(c) <= Total(CashOf, Folded(c))
                       /\ \A x \in Folded(c) : row[x] = "confirmed" /\ folds[x] = 1
    BY DEF ClaimsAreCovered
  <2>1. c \in ClaimChains
    BY RewardsAssumption
  <2>2. Cash!AccountClaimed(c) = Total(amount, Held(c)) /\ Total(amount, Held(c)) <= peak[c]
    BY <2>1, HeldTotals DEF RewardsInv, CashInv, HeldInv
  <2>3. peak[c] = Total(CashOf, Folded(c))
    BY DEF RewardsInv, JoinInv, IInv, RollInv, RollupIsSum
  <2>4. \A x \in Folded(c) : row[x] = "confirmed" /\ folds[x] = 1
    BY DEF RewardsInv, IInv, TypeOK, FoldInv, FoldedOnce, Folded
  <2>. QED BY <2>2, <2>3, <2>4
<1>. QED BY <1>1, RewardsInvariance, PTL
=============================================================================
