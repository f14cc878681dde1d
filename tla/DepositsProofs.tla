--------------------------- MODULE DepositsProofs ---------------------------
(***************************************************************************)
(* Proofs about Deposits: no transfer is announced twice, whatever the     *)
(* nodes answer; the cursor skips a transfer only for a reason; and the    *)
(* wei announced to anybody has really arrived, as long as one node is     *)
(* asked or every reading is filed under the block it was taken at.        *)
(***************************************************************************)
EXTENDS Deposits, FiniteSetTheorems, TLAPS

(* The type invariant. *)
LEMMA TypeInductive ==
    /\ Init => TypeOK
    /\ TypeOK /\ [Next]_vars => TypeOK'
<1> USE DepositsAssumption
<1>1. ASSUME Init PROVE TypeOK
  <2>1. wei \in [Wallets -> [Blocks -> Nat]]
    <3>1. PICK balance \in [Wallets -> 0..MaxWei] :
                wei = [w \in Wallets |-> [b \in Blocks |-> balance[w]]]
      BY <1>1 DEF Init
    <3> QED BY <3>1
  <2>2. /\ head \in Blocks /\ view \in [Nodes -> Blocks]
        /\ known \in [Wallets -> Nat \cup {None}] /\ knownAt \in [Wallets -> Nat]
        /\ updates \in [Wallets -> Nat \cup {None}] /\ found \in [Wallets -> Nat]
        /\ arrived \in [Wallets -> Nat] /\ toldWei \in [Wallets -> Nat]
    BY <1>1 DEF Init, Blocks, NoUpdates, NothingFound
  <2>3. block \in [Logs -> 0..MaxHead]
    BY <1>1 DEF Init
  <2>4. told \in [Logs -> Nat]
    BY <1>1 DEF Init
  <2>5. asked \in SUBSET Nodes /\ inexact \in BOOLEAN /\ blind \in SUBSET Nat
    BY <1>1, Zenon DEF Init
  <2> QED BY <1>1, <2>1, <2>2, <2>3, <2>4, <2>5 DEF Init, TypeOK
<1>2. ASSUME TypeOK, [Next]_vars PROVE TypeOK'
  <2>0. TypeOK BY <1>2
  <2> USE <2>0 DEF TypeOK, chainVars, tableVars, nativeVars, scanVars, toldVars, trustVars
  <2>1. ASSUME NEW n \in Nodes, ReadHeight(n) PROVE TypeOK'
    <3>1. view[n] \in Nat
      BY DEF Blocks
    <3> QED BY <2>1, <3>1 DEF ReadHeight
  <2>2. ASSUME NEW n \in Nodes, NEW ok \in SUBSET Wallets, ReadBalances(n, ok) PROVE TypeOK'
    <3>1. \A w \in Wallets : wei[w][view[n]] \in Nat
      BY DEF Blocks
    <3>2. found' \in [Wallets -> Nat]
      BY <2>2, <3>1 DEF ReadBalances
    <3>3. updates' \in [Wallets -> Nat \cup {None}]
      BY <2>2, <3>1 DEF ReadBalances
    <3> QED BY <2>2, <3>2, <3>3 DEF ReadBalances
  <2>3. ASSUME NEW w \in Wallets, WriteBaseline(w) PROVE TypeOK'
    <3>1. /\ known' \in [Wallets -> Nat \cup {None}]
          /\ knownAt' \in [Wallets -> Nat]
          /\ updates' \in [Wallets -> Nat \cup {None}]
      <4>1. updates' = [updates EXCEPT ![w] = None]
        BY <2>3 DEF WriteBaseline
      <4>2. CASE knownAt[w] <= height
        <5>1. known' = [known EXCEPT ![w] = updates[w]] /\ knownAt' = [knownAt EXCEPT ![w] = height]
          BY <2>3, <4>2 DEF WriteBaseline
        <5> QED BY <4>1, <5>1
      <4>3. CASE ~(knownAt[w] <= height)
        <5>1. UNCHANGED <<known, knownAt>>
          BY <2>3, <4>3 DEF WriteBaseline
        <5> QED BY <4>1, <5>1
      <4> QED BY <4>2, <4>3
    <3> QED BY <2>3, <3>1 DEF WriteBaseline
  <2>4. CASE BaselinesWritten \/ Claim \/ Remember \/ SetCursor
    BY <2>4 DEF BaselinesWritten, Claim, Remember, SetCursor
  <2>5. ASSUME NEW n \in Nodes, ReadTip(n) PROVE TypeOK'
    <3>1. view[n] \in Nat /\ view[n] <= MaxHead /\ Last(view[n]) \in 0..MaxHead
      BY DEF Last, Blocks
    <3>2. view[n] > Last(view[n]) =>
            Last(view[n]) + 1 \in 0..MaxHead /\ ScanEnd(view[n], Last(view[n])) \in 0..MaxHead
      BY <3>1 DEF ScanEnd
    <3>3. lo' \in 0..MaxHead /\ hi' \in 0..MaxHead /\ start' \in 0..MaxHead
          /\ cursor' \in 0..MaxHead
      BY <2>5, <3>1, <3>2 DEF ReadTip
    <3> QED BY <2>5, <3>3 DEF ReadTip
  <2>6. ASSUME NEW n \in Nodes, Narrow(n) PROVE TypeOK'
    <3>1. hi' \in 0..MaxHead
      BY <2>6 DEF Narrow
    <3> QED BY <2>6, <3>1 DEF Narrow
  <2>7. ASSUME NEW n \in Nodes, SkipDense(n) PROVE TypeOK'
    BY <2>7 DEF SkipDense
  <2>8. ASSUME NEW n \in Nodes, GetLogs(n) PROVE TypeOK'
    <3>1. Capped(Matching(n)) \subseteq Logs
      BY DEF Capped, Matching
    <3>2. hi' \in 0..MaxHead
      <4>1. \A l \in Capped(Matching(n)) : block[l] \in 0..MaxHead
        BY <3>1
      <4>2. CASE hi' = hi BY <4>2
      <4>3. ASSUME NEW last \in Capped(Matching(n)), hi' = block[last] PROVE hi' \in 0..MaxHead
        BY <4>1, <4>3
      <4> QED BY <2>8, <4>2, <4>3 DEF GetLogs, ClaimUpTo
    <3>3. blind' \in SUBSET Nat
      <4>1. view[n] \in Nat BY DEF Blocks
      <4>2. (view[n] + 1)..hi' \subseteq Nat BY <3>2, <4>1
      <4> QED BY <2>8, <4>2 DEF GetLogs
    <3> QED BY <2>8, <3>1, <3>2, <3>3 DEF GetLogs
  <2>9. ASSUME NEW readable \in SUBSET batch, TokenMeta(readable) PROVE TypeOK'
    BY <2>9 DEF TokenMeta
  <2>10. ASSUME NEW w \in Wallets, NEW delivered \in BOOLEAN, NotifyWei(w, delivered)
         PROVE TypeOK'
    BY <2>10 DEF NotifyWei
  <2>11. ASSUME NEW l \in Logs, NEW delivered \in BOOLEAN, NotifyToken(l, delivered)
         PROVE TypeOK'
    <3>1. told' \in [Logs -> Nat]
      BY <2>11 DEF NotifyToken
    <3> QED BY <2>11, <3>1 DEF NotifyToken
  <2>12. CASE Sleep \/ Abandon \/ NoHeight
    <3>1. NoUpdates \in [Wallets -> Nat \cup {None}] /\ NothingFound \in [Wallets -> Nat]
      BY DEF NoUpdates, NothingFound
    <3>2. ASSUME Forget
          PROVE  /\ at' = "idle" /\ height' \in Nat /\ updates' \in [Wallets -> Nat \cup {None}]
                 /\ found' \in [Wallets -> Nat] /\ lo' \in 0..MaxHead /\ hi' \in 0..MaxHead
                 /\ batch' \in SUBSET Logs
      BY <3>1, <3>2 DEF Forget
    <3>3. CASE Sleep BY <3>2, <3>3 DEF Sleep
    <3>4. CASE Abandon BY <3>2, <3>4 DEF Abandon
    <3>5. CASE NoHeight BY <3>5 DEF NoHeight
    <3> QED BY <2>12, <3>3, <3>4, <3>5
  <2>13. ASSUME NEW last \in Logs \cup {0}, NEW balance \in [Wallets -> 0..MaxWei],
                Mine(last, balance)
         PROVE TypeOK'
    <3>1. head' \in Blocks /\ block' \in [Logs -> 0..MaxHead]
      BY <2>13 DEF Mine, Blocks
    <3>2. wei' \in [Wallets -> [Blocks -> Nat]]
      BY <2>13 DEF Mine, Blocks
    <3>3. \A w \in Wallets : wei[w][head] \in Nat
      BY DEF Blocks
    <3>4. arrived' \in [Wallets -> Nat]
      BY <2>13, <3>3 DEF Mine
    <3> QED BY <2>13, <3>1, <3>2, <3>4 DEF Mine
  <2>14. ASSUME NEW n \in Nodes, Sync(n) PROVE TypeOK'
    <3>1. view[n] + 1 \in Blocks
      BY <2>14 DEF Sync, Blocks
    <3>2. view' \in [Nodes -> Blocks]
      BY <2>14, <3>1 DEF Sync
    <3> QED BY <2>14, <3>2 DEF Sync
  <2>15. ASSUME NEW b \in Blocks, Rewind(b) PROVE TypeOK'
    BY <2>15 DEF Rewind, Blocks
  <2>16. CASE UNCHANGED vars BY <2>16 DEF vars
  <2> QED
    BY <1>2, <2>1, <2>2, <2>3, <2>4, <2>5, <2>6, <2>7, <2>8, <2>9, <2>10, <2>11, <2>12,
       <2>13, <2>14, <2>15, <2>16 DEF Next, Poll
<1> QED BY <1>1, <1>2

(* The tables and the watcher only ever hold what they are declared to. *)
THEOREM TypeInvariance == Spec => []TypeOK
  BY TypeInductive, PTL DEF Spec

-----------------------------------------------------------------------------
(* The batch is what makes AnnouncedOnce inductive: a claimed batch holds only
   logs nobody was told of, because a log somebody was told of is in the table
   and the INSERT does not return it. *)
LEMMA AnnounceInductive ==
    /\ Init => IInv
    /\ IInv /\ [Next]_vars => IInv'
<1>1. Init => IInv
  <2>1. Init => TypeOK BY TypeInductive
  <2> QED BY <2>1 DEF Init, IInv, BatchOK, AnnouncedOnce
<1>2. ASSUME IInv, [Next]_vars PROVE IInv'
  <2>0. TypeOK'
    BY <1>2, TypeInductive DEF IInv
  <2> SUFFICES BatchOK' /\ AnnouncedOnce'
    BY <2>0 DEF IInv
  <2> USE DEF IInv, BatchOK, AnnouncedOnce, TypeOK, chainVars, tableVars, nativeVars,
          scanVars, toldVars, trustVars
  <2>1. ASSUME NEW n \in Nodes,
               ReadHeight(n) \/ ReadTip(n) \/ Narrow(n) \/ SkipDense(n) \/ GetLogs(n) \/ Sync(n)
        PROVE BatchOK' /\ AnnouncedOnce'
    BY <1>2, <2>1 DEF ReadHeight, ReadTip, Narrow, SkipDense, GetLogs, Sync
  <2>2. ASSUME NEW n \in Nodes, NEW ok \in SUBSET Wallets, ReadBalances(n, ok)
        PROVE BatchOK' /\ AnnouncedOnce'
    BY <1>2, <2>2 DEF ReadBalances
  <2>3. ASSUME NEW w \in Wallets, WriteBaseline(w) PROVE BatchOK' /\ AnnouncedOnce'
    BY <1>2, <2>3 DEF WriteBaseline
  <2>4. CASE BaselinesWritten BY <1>2, <2>4 DEF BaselinesWritten
  <2>5. CASE Claim
    <3>1. ASSUME NEW l \in batch' PROVE told[l] = 0 /\ l \in seen'
      <4>1. l \in Logs /\ l \notin seen /\ l \in seen'
        BY <1>2, <2>5, <3>1 DEF Claim
      <4>2. told[l] \in Nat /\ told[l] <= 1 /\ told[l] # 1
        BY <1>2, <4>1
      <4> QED BY <4>1, <4>2
    <3> QED BY <1>2, <2>5, <3>1 DEF Claim
  <2>6. CASE Remember BY <1>2, <2>6 DEF Remember
  <2>7. CASE SetCursor BY <1>2, <2>7 DEF SetCursor
  <2>8. ASSUME NEW readable \in SUBSET batch, TokenMeta(readable)
        PROVE BatchOK' /\ AnnouncedOnce'
    BY <1>2, <2>8 DEF TokenMeta
  <2>9. ASSUME NEW w \in Wallets, NEW delivered \in BOOLEAN, NotifyWei(w, delivered)
        PROVE BatchOK' /\ AnnouncedOnce'
    BY <1>2, <2>9 DEF NotifyWei
  <2>10. ASSUME NEW l \in Logs, NEW delivered \in BOOLEAN, NotifyToken(l, delivered)
         PROVE BatchOK' /\ AnnouncedOnce'
    <3>1. told[l] = 0 /\ l \in seen /\ l \in held
      BY <1>2, <2>10 DEF NotifyToken
    <3>2. \A k \in Logs : told'[k] = told[k] \/ (k = l /\ told'[k] = 1)
      BY <1>2, <2>10, <3>1 DEF NotifyToken
    <3>3. AnnouncedOnce'
      BY <1>2, <2>10, <3>1, <3>2 DEF NotifyToken
    <3>4. \A k \in batch' : k # l /\ told'[k] = told[k]
      BY <1>2, <2>10 DEF NotifyToken
    <3> QED BY <1>2, <2>10, <3>3, <3>4 DEF NotifyToken
  <2>11. CASE Sleep \/ Abandon BY <1>2, <2>11 DEF Sleep, Abandon, Forget
  <2>12. CASE NoHeight BY <1>2, <2>12 DEF NoHeight
  <2>13. ASSUME NEW last \in Logs \cup {0}, NEW balance \in [Wallets -> 0..MaxWei],
                Mine(last, balance)
         PROVE BatchOK' /\ AnnouncedOnce'
    BY <1>2, <2>13 DEF Mine
  <2>14. ASSUME NEW b \in Blocks, Rewind(b) PROVE BatchOK' /\ AnnouncedOnce'
    BY <1>2, <2>14 DEF Rewind
  <2>15. CASE UNCHANGED vars BY <1>2, <2>15 DEF vars
  <2> QED
    BY <1>2, <2>1, <2>2, <2>3, <2>4, <2>5, <2>6, <2>7, <2>8, <2>9, <2>10, <2>11, <2>12,
       <2>13, <2>14, <2>15 DEF Next, Poll
<1> QED BY <1>1, <1>2

(* Nobody is told twice of one transfer, with any number of nodes in any state,
   any failures and any rewinds of the cursor. *)
THEOREM NeverAnnouncedTwice == Spec => []AnnouncedOnce
<1>1. IInv => AnnouncedOnce
  BY DEF IInv
<1> QED BY <1>1, AnnounceInductive, PTL DEF Spec

-----------------------------------------------------------------------------
(* The cap keeps a front: what is kept comes before what is not. *)
LEMMA CappedIsFront ==
    ASSUME NEW S \in SUBSET Logs, NEW k \in Capped(S), NEW l \in S \ Capped(S)
    PROVE  k < l
<1>1. k \in Nat /\ l \in Nat /\ k # l /\ k \in S
  BY DepositsAssumption DEF Capped
<1>2. IsFiniteSet({j \in S : j < k})
  BY FS_Subset, DepositsAssumption
<1>3. ASSUME l < k PROVE FALSE
  <2>1. {j \in S : j < l} \subseteq {j \in S : j < k}
    <3>1. ASSUME NEW j \in S, j < l PROVE j < k
      <4>1. j \in Nat BY DepositsAssumption
      <4> QED BY <1>1, <1>3, <3>1, <4>1
    <3> QED BY <3>1
  <2>2. /\ Cardinality({j \in S : j < l}) \in Nat /\ Cardinality({j \in S : j < k}) \in Nat
        /\ Cardinality({j \in S : j < l}) <= Cardinality({j \in S : j < k})
    BY <1>2, <2>1, FS_Subset, FS_CardinalityType
  <2>3. Cardinality({j \in S : j < k}) < MaxLogs /\ ~(Cardinality({j \in S : j < l}) < MaxLogs)
    BY DEF Capped
  <2> QED BY <2>2, <2>3, DepositsAssumption
<1> QED BY <1>1, <1>3

(* A log that is accounted for stays so while its block, and the logs of that
   block, stay what they are and the claimed set grows. *)
LEMMA StillAccounted ==
    ASSUME NEW l \in Logs, NEW S \in SUBSET Logs, NEW T \in SUBSET Logs, S \subseteq T,
           \A k \in Logs : block'[k] = block'[l] <=> block[k] = block[l],
           block'[l] = block[l], blind' = blind, Accounted(l, S)
    PROVE  l \in T \/ TooDense(l)' \/ (\E k \in T : block'[k] = block'[l] /\ k < l) \/ block'[l] \in blind'
<1>1. {k \in Logs : block'[k] = block'[l]} = {k \in Logs : block[k] = block[l]}
  OBVIOUS
<1>2. CASE TooDense(l) BY <1>1, <1>2 DEF TooDense
<1>3. CASE l \in S BY <1>3
<1>4. CASE InTailOf(l, S) BY <1>4 DEF InTailOf
<1>5. CASE block[l] \in blind BY <1>5
<1> QED BY <1>2, <1>3, <1>4, <1>5 DEF Accounted

(* Blocks and nodes only grow, and logs come in order. *)
LEMMA OrderInductive ==
    /\ Init => ChainOK
    /\ TypeOK /\ TypeOK' /\ ChainOK /\ [Next]_vars => ChainOK'
<1> USE DepositsAssumption DEF ChainOK
<1>1. Init => ChainOK
  BY DEF Init
<1>2. ASSUME TypeOK, TypeOK', ChainOK, [Next]_vars PROVE ChainOK'
  <2> USE DEF chainVars
  <2>1. CASE UNCHANGED <<head, block, view>>
    BY <1>2, <2>1
  <2>2. ASSUME NEW last \in Logs \cup {0}, NEW balance \in [Wallets -> 0..MaxWei],
               Mine(last, balance)
        PROVE ChainOK'
    <3>1. \A l \in Logs : /\ block'[l] = IF block[l] = 0 /\ l <= last THEN head + 1 ELSE block[l]
                          /\ block[l] \in Nat /\ l \in Nat
      BY <1>2, <2>2 DEF Mine, TypeOK
    <3>2. head \in Nat /\ head' = head + 1 /\ view' = view /\ \A n \in Nodes : view[n] \in Nat
      BY <1>2, <2>2 DEF Mine, TypeOK, Blocks
    <3>3. \A l \in Logs : block'[l] <= head'
      BY <1>2, <3>1, <3>2
    <3>4. ASSUME NEW k \in Logs, NEW l \in Logs, k < l, block'[l] > 0
          PROVE  block'[k] > 0 /\ block'[k] <= block'[l]
      <4>1. CASE block[l] > 0
        <5>1. block[k] > 0 /\ block[k] <= block[l] BY <1>2, <3>4, <4>1
        <5> QED BY <3>1, <4>1, <5>1
      <4>2. CASE block[l] = 0
        <5>1. l <= last /\ block'[l] = head + 1 BY <3>1, <3>4, <4>2
        <5>2. last \in Nat /\ k <= last BY <3>1, <3>4, <5>1
        <5>3. block'[k] = IF block[k] = 0 THEN head + 1 ELSE block[k] BY <3>1, <5>2
        <5>4. block[k] \in Nat /\ block[k] <= head BY <1>2, <3>1
        <5> QED BY <3>2, <5>1, <5>3, <5>4
      <4> QED BY <3>1, <4>1, <4>2
    <3>5. \A n \in Nodes : view'[n] <= head'
      BY <1>2, <3>2
    <3> QED BY <3>3, <3>4, <3>5
  <2>3. ASSUME NEW n \in Nodes, Sync(n) PROVE ChainOK'
    <3>1. /\ \A m \in Nodes : view[m] \in Nat /\ (view'[m] = view[m] \/ (m = n /\ view'[m] = view[n] + 1))
          /\ head' = head /\ block' = block /\ view[n] < head /\ head \in Nat
      BY <1>2, <2>3 DEF Sync, TypeOK, Blocks
    <3>2. \A m \in Nodes : view'[m] <= head' BY <1>2, <3>1
    <3> QED BY <1>2, <3>1, <3>2
  <2>4. CASE Poll BY <2>1, <2>4 DEF Poll, ReadHeight, ReadBalances, WriteBaseline,
        BaselinesWritten, ReadTip, Narrow, SkipDense, GetLogs, Claim, Remember, TokenMeta,
        SetCursor, NotifyWei, NotifyToken, Sleep
  <2>5. CASE NoHeight \/ Abandon BY <2>1, <2>5 DEF NoHeight, Abandon
  <2>6. ASSUME NEW b \in Blocks, Rewind(b) PROVE ChainOK'
    BY <2>1, <2>6 DEF Rewind
  <2>7. CASE UNCHANGED vars BY <2>1, <2>7 DEF vars
  <2> QED BY <1>2, <2>2, <2>3, <2>4, <2>5, <2>6, <2>7 DEF Next
<1> QED BY <1>1, <1>2

(* What the type invariant says about numbers. *)
LEMMA Numbers ==
    ASSUME TypeOK
    PROVE  /\ cursor \in Nat /\ start \in Nat /\ lo \in Nat /\ hi \in Nat /\ head \in Nat
           /\ \A n \in Nodes : view[n] \in Nat
           /\ \A l \in Logs : block[l] \in Nat /\ l \in Nat
<1>1. 0..MaxHead \subseteq Nat /\ Blocks \subseteq Nat
  BY DepositsAssumption DEF Blocks
<1>2. cursor \in Nat /\ start \in Nat /\ lo \in Nat /\ hi \in Nat /\ head \in Nat
  BY <1>1 DEF TypeOK
<1>3. \A n \in Nodes : view[n] \in Nat
  BY <1>1 DEF TypeOK
<1>4. \A l \in Logs : block[l] \in Nat /\ l \in Nat
  BY <1>1, DepositsAssumption DEF TypeOK
<1> QED BY <1>2, <1>3, <1>4

(* A step that touches neither the logs nor the cursor nor the table, and is
   not part of the scan. *)
LEMMA OutsideScan ==
    ASSUME ScanInv, UNCHANGED <<head, block, cursor, seen, start, blind>>,
           at' \in {"idle", "balances", "baselines", "tip", "notify"}
    PROVE  ScanOK' /\ SkipsAreExplained'
  BY DEF ScanInv, ScanOK, SkipsAreExplained, Accounted, TooDense, InTailOf

(* eth_getLogs and the cap: every log of the range the cursor will claim is in
   the batch, or behind one of its own block that is, or in a block that the
   node did not have. *)
LEMMA GetLogsAccounts ==
    ASSUME ScanInv, TypeOK', NEW n \in Nodes, GetLogs(n)
    PROVE  ScanOK' /\ SkipsAreExplained'
<1> DEFINE L == Matching(n)
<1>1. /\ at = "logs" /\ at' = "claim" /\ batch' = Capped(L) /\ ClaimUpTo(L)
      /\ blind' = blind \cup ((view[n] + 1)..hi')
      /\ UNCHANGED <<head, block, cursor, seen, start, lo>>
  BY DEF GetLogs, chainVars, tableVars
<1>2. /\ lo \in Nat /\ hi \in Nat /\ cursor \in Nat /\ lo = cursor + 1 /\ hi <= head /\ head \in Nat
      /\ view[n] \in Nat
      /\ \A l \in Logs : block[l] \in Nat /\ l \in Nat
  BY <1>1, Numbers DEF ScanInv, IInv, ScanOK
<1>3. /\ L \subseteq Logs /\ Capped(L) \subseteq L
      /\ \A l \in L : block[l] \in lo..hi
      /\ \A l \in Logs : block[l] \in lo..hi /\ block[l] <= view[n] => l \in L
  BY <1>2 DEF Matching, Capped
<1>4. /\ hi' \in Nat /\ hi' <= hi
      /\ \A l \in Logs : block[l] \in lo..hi' /\ block[l] <= view[n] =>
            l \in Capped(L) \/ InTailOf(l, Capped(L))
  <2>1. CASE Capped(L) = L
    <3>1. hi' = hi BY <1>1, <2>1 DEF ClaimUpTo
    <3> QED BY <1>2, <1>3, <2>1, <3>1
  <2>2. CASE Capped(L) # L
    <3>1. PICK last \in Capped(L) : hi' = block[last]
      BY <1>1, <2>2 DEF ClaimUpTo
    <3>2. last \in L /\ last \in Logs /\ hi' \in Nat /\ lo <= hi' /\ hi' <= hi
      BY <1>2, <1>3, <3>1
    <3>3. ASSUME NEW l \in Logs, block[l] \in lo..hi', block[l] <= view[n], l \notin Capped(L)
          PROVE  InTailOf(l, Capped(L))
      <4>1. l \in L
        BY <1>2, <1>3, <3>2, <3>3
      <4>2. last < l
        BY <1>3, <3>3, <4>1, CappedIsFront
      <4>3. block[l] > 0
        BY <1>2, <3>3
      <4>4. block[last] <= block[l]
        BY <3>2, <4>2, <4>3 DEF ScanInv, ChainOK
      <4>5. block[last] = block[l]
        BY <1>2, <3>1, <3>2, <3>3, <4>4
      <4> QED BY <4>2, <4>5 DEF InTailOf
    <3> QED BY <3>2, <3>3
  <2> QED BY <2>1, <2>2
<1>5. ASSUME NEW l \in Logs, block'[l] \in lo'..hi' PROVE Accounted(l, batch)'
  <2>1. CASE block[l] <= view[n]
    BY <1>1, <1>4, <1>5, <2>1 DEF Accounted, InTailOf
  <2>2. CASE ~(block[l] <= view[n])
    <3>1. block[l] \in (view[n] + 1)..hi'
      BY <1>1, <1>2, <1>4, <1>5, <2>2
    <3> QED BY <1>1, <3>1 DEF Accounted
  <2> QED BY <2>1, <2>2
<1>6. cursor' <= head' /\ lo' = cursor' + 1 /\ hi' <= head'
  <2>1. hi' <= head BY <1>2, <1>4
  <2>2. cursor <= head BY DEF ScanInv, ScanOK
  <2> QED BY <1>1, <1>2, <2>1, <2>2
<1>7. ScanOK'
  BY <1>1, <1>5, <1>6 DEF ScanOK
<1>8. SkipsAreExplained'
  BY <1>1 DEF ScanInv, SkipsAreExplained, Accounted, TooDense, InTailOf
<1> QED BY <1>7, <1>8

(* A block the node refuses: all of its logs are excused. *)
LEMMA DenseAccounts ==
    ASSUME ScanInv, TypeOK', NEW n \in Nodes, SkipDense(n)
    PROVE  ScanOK' /\ SkipsAreExplained'
<1>1. /\ at = "logs" /\ at' = "claim" /\ TooMany(n) /\ hi <= lo /\ hi' = lo
      /\ UNCHANGED <<head, block, cursor, seen, start, lo, blind>>
  BY DEF SkipDense, chainVars, tableVars, trustVars
<1>2. /\ lo \in Nat /\ hi = lo /\ lo = cursor + 1 /\ hi <= head /\ cursor <= head
      /\ \A l \in Logs : block[l] \in Nat
  BY <1>1, Numbers DEF ScanInv, IInv, ScanOK
<1>3. ASSUME NEW l \in Logs, block[l] \in lo..lo PROVE TooDense(l)
  <2>1. block[l] = lo BY <1>2, <1>3
  <2>2. Matching(n) \subseteq {k \in Logs : block[k] = block[l]}
    BY <1>2, <2>1 DEF Matching
  <2>3. IsFiniteSet({k \in Logs : block[k] = block[l]})
    BY FS_Subset, DepositsAssumption
  <2>4. /\ Cardinality(Matching(n)) \in Nat
        /\ Cardinality({k \in Logs : block[k] = block[l]}) \in Nat
        /\ Cardinality(Matching(n)) <= Cardinality({k \in Logs : block[k] = block[l]})
    BY <2>2, <2>3, FS_Subset, FS_CardinalityType
  <2> QED BY <1>1, <2>4, DepositsAssumption DEF TooMany, TooDense
<1>4. \A l \in Logs : block'[l] \in lo'..hi' => Accounted(l, batch)'
  BY <1>1, <1>3 DEF Accounted, TooDense, InTailOf
<1>5. ScanOK'
  BY <1>1, <1>2, <1>4 DEF ScanOK
<1>6. SkipsAreExplained'
  BY <1>1 DEF ScanInv, SkipsAreExplained, Accounted, TooDense, InTailOf
<1> QED BY <1>5, <1>6

(* A new block is past everything the watcher has looked at. *)
LEMMA MineAccounts ==
    ASSUME ScanInv, TypeOK', NEW last \in Logs \cup {0},
           NEW balance \in [Wallets -> 0..MaxWei], Mine(last, balance)
    PROVE  ScanOK' /\ SkipsAreExplained'
<1>1. /\ head \in Nat /\ head' = head + 1
      /\ UNCHANGED <<at, cursor, seen, start, lo, hi, batch, blind>>
      /\ \A l \in Logs : /\ block[l] \in Nat /\ block[l] <= head
                         /\ block'[l] = block[l] \/ (block[l] = 0 /\ block'[l] = head + 1)
  <2>1. TypeOK BY DEF ScanInv, IInv
  <2>2. head \in Nat /\ \A l \in Logs : block[l] \in Nat /\ block[l] <= head
    BY <2>1, Numbers DEF ScanInv, ChainOK
  <2> QED BY <2>2 DEF Mine, tableVars, scanVars, trustVars
<1>2. /\ cursor \in Nat /\ lo \in Nat /\ hi \in Nat /\ start \in Nat /\ cursor <= head
      /\ seen \in SUBSET Logs /\ batch \in SUBSET Logs
  <2>1. TypeOK BY DEF ScanInv, IInv
  <2> QED BY <2>1, Numbers DEF TypeOK, ScanInv, ScanOK
<1>3. ASSUME NEW l \in Logs, block'[l] <= head, block'[l] > 0
      PROVE  /\ block'[l] = block[l]
             /\ \A k \in Logs : block'[k] = block'[l] <=> block[k] = block[l]
  BY <1>1, <1>3
<1>4. ASSUME NEW l \in Logs, NEW S \in SUBSET Logs, block'[l] <= head, block'[l] > 0,
             Accounted(l, S)
      PROVE  l \in S \/ TooDense(l)' \/ (\E k \in S : block'[k] = block'[l] /\ k < l) \/ block'[l] \in blind'
  BY <1>1, <1>3, <1>4, StillAccounted
<1>5. SkipsAreExplained'
  <2> SUFFICES ASSUME NEW l \in Logs, start' < block'[l], block'[l] <= cursor'
               PROVE  Accounted(l, seen)'
    BY DEF SkipsAreExplained
  <2>1. block'[l] <= head /\ block'[l] > 0 /\ block'[l] = block[l]
    BY <1>1, <1>2
  <2>2. Accounted(l, seen)
    BY <1>1, <2>1 DEF ScanInv, SkipsAreExplained
  <2> QED BY <1>1, <1>2, <1>4, <2>1, <2>2 DEF Accounted, InTailOf
<1>6. ASSUME at \in {"logs", "claim", "remember", "meta", "cursor"}
      PROVE  /\ lo' = cursor' + 1 /\ hi' <= head'
             /\ \A l \in Logs : block'[l] \in lo'..hi' =>
                    block'[l] <= head /\ block'[l] > 0 /\ block'[l] = block[l]
  BY <1>1, <1>2, <1>6 DEF ScanInv, ScanOK
<1>7. ASSUME at = "claim", NEW l \in Logs, block'[l] \in lo'..hi' PROVE Accounted(l, batch)'
  <2>1. Accounted(l, batch)
    BY <1>1, <1>6, <1>7 DEF ScanInv, ScanOK
  <2> QED BY <1>1, <1>2, <1>4, <1>6, <1>7, <2>1 DEF Accounted, InTailOf
<1>8. ASSUME at \in {"remember", "meta", "cursor"}, NEW l \in Logs, block'[l] \in lo'..hi'
      PROVE  Accounted(l, seen)'
  <2>1. Accounted(l, seen)
    BY <1>1, <1>6, <1>8 DEF ScanInv, ScanOK
  <2> QED BY <1>1, <1>2, <1>4, <1>6, <1>8, <2>1 DEF Accounted, InTailOf
<1>9. cursor' <= head' /\ (at = "logs" => lo' <= hi')
  BY <1>1, <1>2 DEF ScanInv, ScanOK
<1>10. ScanOK'
  BY <1>1, <1>6, <1>7, <1>8, <1>9 DEF ScanOK
<1> QED BY <1>5, <1>10

(* The whole invariant is inductive: what a node that lags leaves out is in
   blocks it does not have. *)
LEMMA ScanInductive ==
    /\ Init => ScanInv
    /\ ScanInv /\ [Next]_vars => ScanInv'
<1>1. Init => ScanInv
  <2>1. Init => IInv /\ ChainOK
    BY AnnounceInductive, OrderInductive
  <2>2. Init => ScanOK /\ SkipsAreExplained
    BY DEF Init, ScanOK, SkipsAreExplained
  <2> QED BY <2>1, <2>2 DEF ScanInv
<1>2. ASSUME ScanInv, [Next]_vars PROVE ScanInv'
  <2>1. IInv' /\ TypeOK'
    BY <1>2, AnnounceInductive DEF ScanInv, IInv
  <2>2. ChainOK'
    BY <1>2, <2>1, OrderInductive DEF ScanInv, IInv
  <2> SUFFICES ScanOK' /\ SkipsAreExplained'
    BY <2>1, <2>2 DEF ScanInv
  <2>3. TypeOK /\ cursor \in Nat /\ start \in Nat /\ lo \in Nat /\ hi \in Nat
        /\ head \in Nat /\ (\A n \in Nodes : view[n] \in Nat)
        /\ (\A l \in Logs : block[l] \in Nat)
    <3>1. TypeOK BY <1>2 DEF ScanInv, IInv
    <3> QED BY <3>1, Numbers
  <2> USE DEF chainVars, tableVars, nativeVars, scanVars, toldVars, trustVars
  <2>4. CASE UNCHANGED vars
    <3>1. UNCHANGED <<head, block, blind, cursor, seen, start, at, lo, hi, batch>>
      BY <2>4 DEF vars
    <3>2. \A l \in Logs : /\ Accounted(l, seen) <=> Accounted(l, seen)'
                          /\ Accounted(l, batch) <=> Accounted(l, batch)'
      BY <3>1 DEF Accounted, TooDense, InTailOf
    <3>3. ScanOK' BY <1>2, <3>1, <3>2 DEF ScanInv, ScanOK
    <3>4. SkipsAreExplained' BY <1>2, <3>1, <3>2 DEF ScanInv, SkipsAreExplained
    <3> QED BY <3>3, <3>4
  <2>5. ASSUME NEW n \in Nodes, ReadTip(n) PROVE ScanOK' /\ SkipsAreExplained'
    <3>1. /\ cursor' = Last(view[n]) /\ start' = IF cursor = 0 THEN cursor' ELSE start
          /\ UNCHANGED <<head, block, seen, blind>>
      BY <2>5 DEF ReadTip
    <3>2. cursor' \in Nat /\ cursor' <= head' /\ (cursor # 0 => cursor' = cursor)
      BY <1>2, <2>3, <3>1, DepositsAssumption DEF Last, ScanInv, ScanOK, ChainOK
    <3>3. SkipsAreExplained'
      <4>1. CASE cursor = 0
        <5>1. start' = cursor' /\ \A l \in Logs : block'[l] \in Nat
          BY <2>3, <3>1, <4>1
        <5>2. \A l \in Logs : ~(start' < block'[l] /\ block'[l] <= cursor')
          BY <3>2, <5>1
        <5> QED BY <5>2 DEF SkipsAreExplained
      <4>2. CASE cursor # 0
        <5>1. UNCHANGED <<block, seen, cursor, start, blind>>
          BY <3>1, <3>2, <4>2
        <5> QED BY <1>2, <5>1 DEF ScanInv, SkipsAreExplained, Accounted, TooDense, InTailOf
      <4> QED BY <4>1, <4>2
    <3>4. CASE view[n] <= cursor'
      <4>1. at' = "notify" BY <2>5, <3>1, <3>4 DEF ReadTip
      <4> QED BY <3>2, <3>3, <4>1 DEF ScanOK
    <3>5. CASE ~(view[n] <= cursor')
      <4>1. at' = "logs" /\ lo' = cursor' + 1 /\ hi' = ScanEnd(view[n], cursor')
        BY <2>5, <3>1, <3>5 DEF ReadTip
      <4>2. lo' <= hi' /\ hi' <= view[n] /\ hi' \in Nat
        <5>1. view[n] \in Nat /\ MaxBlocks \in Nat /\ MaxBlocks >= 1 /\ view[n] > cursor'
          BY <2>3, <3>2, <3>5, DepositsAssumption
        <5>2. hi' = view[n] \/ (hi' = cursor' + MaxBlocks /\ ~(view[n] < cursor' + MaxBlocks))
          BY <4>1 DEF ScanEnd
        <5> QED BY <3>2, <4>1, <5>1, <5>2
      <4>3. hi' <= head'
        BY <1>2, <2>3, <3>1, <4>2 DEF ScanInv, ChainOK
      <4> QED BY <3>2, <3>3, <4>1, <4>2, <4>3 DEF ScanOK
    <3> QED BY <3>4, <3>5
  <2>6. ASSUME NEW n \in Nodes, Narrow(n) PROVE ScanOK' /\ SkipsAreExplained'
    <3>1. /\ at = "logs" /\ at' = "logs" /\ hi > lo /\ hi' = lo + ((hi - lo) \div 2)
          /\ UNCHANGED <<head, block, cursor, seen, start, lo, blind>>
      BY <2>6 DEF Narrow
    <3>2. lo' <= hi' /\ hi' <= hi /\ hi' \in Nat
      BY <2>3, <3>1
    <3>3. lo = cursor + 1 /\ cursor <= head /\ hi <= head
      BY <1>2, <3>1 DEF ScanInv, ScanOK
    <3>4. hi' <= head'
      BY <2>3, <3>1, <3>2, <3>3
    <3>5. ScanOK' BY <3>1, <3>2, <3>3, <3>4 DEF ScanOK
    <3>6. SkipsAreExplained'
      BY <1>2, <3>1 DEF ScanInv, SkipsAreExplained, Accounted, TooDense, InTailOf
    <3> QED BY <3>5, <3>6
  <2>7. CASE Claim
    <3>1. /\ at = "claim" /\ at' = "remember" /\ seen' = seen \cup batch
          /\ UNCHANGED <<head, block, cursor, start, lo, hi, blind>>
      BY <2>7 DEF Claim
    <3>2. \A l \in Logs : Accounted(l, batch) \/ Accounted(l, seen) => Accounted(l, seen)'
      BY <3>1 DEF Accounted, TooDense, InTailOf
    <3>3. ScanOK' BY <1>2, <3>1, <3>2 DEF ScanInv, ScanOK
    <3>4. SkipsAreExplained' BY <1>2, <3>1, <3>2 DEF ScanInv, SkipsAreExplained
    <3> QED BY <3>3, <3>4
  <2>8. CASE Remember \/ \E readable \in SUBSET batch : TokenMeta(readable)
    <3>1. /\ at \in {"remember", "meta"} /\ at' \in {"meta", "cursor"}
          /\ UNCHANGED <<head, block, cursor, seen, start, lo, hi, blind>>
      BY <2>8 DEF Remember, TokenMeta
    <3>2. \A l \in Logs : Accounted(l, seen) => Accounted(l, seen)'
      BY <3>1 DEF Accounted, TooDense, InTailOf
    <3>3. ScanOK' BY <1>2, <3>1, <3>2 DEF ScanInv, ScanOK
    <3>4. SkipsAreExplained' BY <1>2, <3>1, <3>2 DEF ScanInv, SkipsAreExplained
    <3> QED BY <3>3, <3>4
  <2>9. CASE SetCursor
    <3>1. /\ at = "cursor" /\ at' = "notify" /\ cursor' = hi
          /\ UNCHANGED <<head, block, seen, start, lo, hi, blind>>
      BY <2>9 DEF SetCursor
    <3>2. lo = cursor + 1 /\ hi <= head /\ \A l \in Logs : block[l] \in lo..hi => Accounted(l, seen)
      BY <1>2, <3>1 DEF ScanInv, ScanOK
    <3>3. ASSUME NEW l \in Logs, start < block[l], block[l] <= hi PROVE Accounted(l, seen)
      <4>1. CASE block[l] <= cursor BY <1>2, <3>3, <4>1 DEF ScanInv, SkipsAreExplained
      <4>2. CASE ~(block[l] <= cursor) BY <2>3, <3>2, <3>3, <4>2
      <4> QED BY <4>1, <4>2
    <3>4. SkipsAreExplained'
      BY <3>1, <3>3 DEF SkipsAreExplained, Accounted, TooDense, InTailOf
    <3>5. ScanOK' BY <3>1, <3>2 DEF ScanOK
    <3> QED BY <3>4, <3>5
  <2>10. ASSUME NEW n \in Nodes, Sync(n) PROVE ScanOK' /\ SkipsAreExplained'
    <3>1. UNCHANGED <<head, block, seen, start, cursor, lo, hi, at, batch, blind>>
      BY <2>10 DEF Sync
    <3>2. \A l \in Logs : /\ Accounted(l, seen) => Accounted(l, seen)'
                          /\ Accounted(l, batch) => Accounted(l, batch)'
      BY <3>1 DEF Accounted, TooDense, InTailOf
    <3>3. ScanOK' BY <1>2, <3>1, <3>2 DEF ScanInv, ScanOK
    <3>4. SkipsAreExplained' BY <1>2, <3>1, <3>2 DEF ScanInv, SkipsAreExplained
    <3> QED BY <3>3, <3>4
  <2>11. ASSUME NEW b \in Blocks, Rewind(b) PROVE ScanOK' /\ SkipsAreExplained'
    <3>1. /\ at' = "idle" /\ cursor' = b /\ b < cursor /\ b \in Nat
          /\ UNCHANGED <<head, block, seen, start, blind>>
      BY <2>11 DEF Rewind, Blocks
    <3>2. cursor <= head BY <1>2 DEF ScanInv, ScanOK
    <3>3. ScanOK' BY <2>3, <3>1, <3>2 DEF ScanOK
    <3>4. \A l \in Logs : block'[l] <= cursor' => block[l] <= cursor
      BY <2>3, <3>1
    <3>5. SkipsAreExplained'
      BY <1>2, <3>1, <3>4 DEF ScanInv, SkipsAreExplained, Accounted, TooDense, InTailOf
    <3> QED BY <3>3, <3>5
  <2>12. ASSUME NEW n \in Nodes, ReadHeight(n) PROVE ScanOK' /\ SkipsAreExplained'
    BY <1>2, <2>12, OutsideScan DEF ReadHeight
  <2>13. ASSUME NEW n \in Nodes, NEW ok \in SUBSET Wallets, ReadBalances(n, ok)
         PROVE ScanOK' /\ SkipsAreExplained'
    BY <1>2, <2>13, OutsideScan DEF ReadBalances
  <2>14. ASSUME NEW w \in Wallets, WriteBaseline(w) PROVE ScanOK' /\ SkipsAreExplained'
    BY <1>2, <2>14, OutsideScan DEF WriteBaseline
  <2>15. ASSUME NEW w \in Wallets, NEW delivered \in BOOLEAN, NotifyWei(w, delivered)
         PROVE ScanOK' /\ SkipsAreExplained'
    BY <1>2, <2>15, OutsideScan DEF NotifyWei
  <2>16. ASSUME NEW l \in Logs, NEW delivered \in BOOLEAN, NotifyToken(l, delivered)
         PROVE ScanOK' /\ SkipsAreExplained'
    BY <1>2, <2>16, OutsideScan DEF NotifyToken
  <2>17. CASE BaselinesWritten \/ NoHeight
    BY <1>2, <2>17, OutsideScan DEF BaselinesWritten, NoHeight
  <2>18. CASE Sleep \/ Abandon
    BY <1>2, <2>18, OutsideScan DEF Sleep, Abandon, Forget
  <2> QED
    BY <1>2, <2>1, <2>4, <2>5, <2>6, <2>7, <2>8, <2>9, <2>10, <2>11, <2>12, <2>13, <2>14,
       <2>15, <2>16, <2>17, <2>18, GetLogsAccounts, DenseAccounts, MineAccounts DEF Next, Poll
<1> QED BY <1>1, <1>2

(* The cursor passes no transfer that is not claimed, except in a block that was
   too dense for a node, in the tail of a block the cap cut, or in a block that
   the node which answered did not have, for every cap, range and number of
   transfers and nodes. *)
THEOREM SkipsExplained == Spec => []SkipsAreExplained
<1>1. ScanInv => SkipsAreExplained
  BY DEF ScanInv
<1> QED BY <1>1, ScanInductive, PTL DEF Spec

-----------------------------------------------------------------------------
(* Native deposits.  g[b] stands for what had reached the wallet by block b: it
   accounts for every rise of the balance, up to all that has arrived. *)
Gains(w, g) ==
    /\ g \in [Blocks -> 0..arrived[w]]
    /\ g[head] = arrived[w]
    /\ \A b, c \in Blocks : b <= c /\ c <= head =>
            g[b] <= g[c] /\ wei[w][c] - wei[w][b] <= g[c] - g[b]

(* A block the chain has and, if only one node was asked, that node knows. *)
Public(b) ==
    /\ b \in Blocks /\ b <= head
    /\ OneAsked => (IF asked = {} THEN b = 1 ELSE \A n \in asked : b <= view[n])

(* The baseline is the balance after block r, and sum had arrived by then;
   without a baseline nothing has been announced. *)
Baseline(w, g, r, sum) ==
    IF known[w] = None THEN sum = 0 ELSE known[w] = wei[w][r] /\ sum <= g[r]

(* What was read and is not written yet is the balance after a block u, it will
   be written, and what was found in it had arrived by then. *)
Reading(w, g, r, u) ==
    IF updates[w] = None THEN Baseline(w, g, r, toldWei[w] + found[w])
    ELSE /\ at = "baselines" /\ knownAt[w] <= height
         /\ updates[w] = wei[w][u]
         /\ toldWei[w] + found[w] <= g[u]

(* Both are filed under the block they were taken at. *)
Filed(w, r, u) ==
    /\ known[w] # None => r = knownAt[w]
    /\ updates[w] # None => u = height

Watched(w, g, r, u) ==
    /\ Gains(w, g) /\ Public(r) /\ Public(u)
    /\ Baseline(w, g, r, toldWei[w]) /\ Reading(w, g, r, u)
    /\ ~inexact => Filed(w, r, u)

Trust == OneAsked \/ ~inexact

NativeOK ==
    Trust => \A w \in Wallets :
        \E g \in [Blocks -> 0..arrived[w]], r, u \in Blocks : Watched(w, g, r, u)

NativeInv == TypeOK /\ ChainOK /\ NativeOK

(* What the type invariant says of one wallet's numbers. *)
LEMMA WalletNumbers ==
    ASSUME TypeOK, NEW w \in Wallets
    PROVE  /\ arrived[w] \in Nat /\ toldWei[w] \in Nat /\ found[w] \in Nat
           /\ knownAt[w] \in Nat /\ height \in Nat /\ head \in Blocks
           /\ known[w] \in Nat \cup {None} /\ updates[w] \in Nat \cup {None}
           /\ \A b \in Blocks : b \in Nat /\ wei[w][b] \in Nat /\ wei[w][b] # None
  BY DepositsAssumption DEF TypeOK, Blocks

(* A gain is a number between nothing and everything that arrived. *)
LEMMA GainBounds ==
    ASSUME TypeOK, NEW w \in Wallets, NEW g, Gains(w, g), NEW b \in Blocks
    PROVE  g[b] \in Nat /\ g[b] <= arrived[w]
<1>1. arrived[w] \in Nat BY WalletNumbers
<1> QED BY <1>1 DEF Gains

(* No node forgets a block, and the first node to be asked has the first block. *)
LEMMA PublicKept ==
    ASSUME NEW b, Public(b), b <= head', asked \subseteq asked', asked' \subseteq Nodes,
           \A n \in Nodes : view[n] \in Nat /\ view'[n] \in Nat \ {0} /\ view[n] <= view'[n]
    PROVE  Public(b)'
<1>1. b \in Blocks /\ b \in Nat
  BY DepositsAssumption DEF Public, Blocks
<1>2. ASSUME OneAsked', asked' # {}, NEW n \in asked' PROVE b <= view'[n]
  <2>1. CASE asked = {}
    <3>1. b = 1 BY <2>1 DEF Public, OneAsked
    <3> QED BY <1>2, <3>1
  <2>2. CASE asked # {}
    <3>1. n \in asked /\ OneAsked
      BY <1>2, <2>2 DEF OneAsked
    <3>2. b <= view[n] BY <2>2, <3>1 DEF Public
    <3> QED BY <1>1, <1>2, <3>2
  <2> QED BY <2>1, <2>2
<1>3. ASSUME OneAsked', asked' = {} PROVE b = 1
  BY <1>3 DEF Public, OneAsked
<1> QED BY <1>1, <1>2, <1>3 DEF Public

(* The chain is as it was and no node forgets a block. *)
LEMMA ChainKept ==
    ASSUME TypeOK, NEW w \in Wallets, NEW g, NEW b, UNCHANGED <<head, wei, arrived>>,
           asked \subseteq asked', asked' \subseteq Nodes,
           \A n \in Nodes : view[n] \in Nat /\ view'[n] \in Nat \ {0} /\ view[n] <= view'[n]
    PROVE  /\ Gains(w, g) => Gains(w, g)'
           /\ Public(b) => Public(b)'
<1>1. Gains(w, g) => Gains(w, g)'
  BY DEF Gains
<1>2. Public(b) => Public(b)'
  BY PublicKept DEF Public
<1> QED BY <1>1, <1>2

(* A block is mined: the gain of every later block is all that has arrived. *)
LEMMA NativeMine ==
    ASSUME NativeInv, Trust, NEW last \in Logs \cup {0}, NEW balance \in [Wallets -> 0..MaxWei],
           Mine(last, balance), NEW w \in Wallets
    PROVE  \E g \in [Blocks -> 0..arrived'[w]], r, u \in Blocks : Watched(w, g, r, u)'
<1>0. TypeOK BY DEF NativeInv
<1>1. PICK g \in [Blocks -> 0..arrived[w]], r \in Blocks, u \in Blocks : Watched(w, g, r, u)
  BY DEF NativeInv, NativeOK
<1>2. /\ head \in Nat /\ head' = head + 1 /\ head' \in Blocks
      /\ UNCHANGED <<view, known, knownAt, at, height, updates, found, toldWei, asked, inexact>>
      /\ \A b \in Blocks : wei'[w][b] = IF b >= head + 1 THEN balance[w] ELSE wei[w][b]
      /\ arrived'[w] = IF balance[w] > wei[w][head] THEN arrived[w] + balance[w] - wei[w][head]
                       ELSE arrived[w]
  BY <1>0, DepositsAssumption DEF Mine, tableVars, nativeVars, toldVars, trustVars, Blocks, TypeOK
<1>3. /\ arrived[w] \in Nat /\ arrived'[w] \in Nat /\ arrived[w] <= arrived'[w]
      /\ balance[w] \in Nat /\ wei[w][head] \in Nat /\ head \in Blocks
      /\ balance[w] - wei[w][head] <= arrived'[w] - arrived[w]
      /\ \A b \in Blocks : b \in Nat /\ wei[w][b] \in Nat
  <2>1. balance[w] \in Nat /\ wei[w][head] \in Nat /\ arrived[w] \in Nat /\ head \in Blocks
    BY <1>0, WalletNumbers, DepositsAssumption
  <2> QED BY <1>0, <1>2, <2>1, WalletNumbers
<1>h. PICK h : h = [b \in Blocks |-> IF b >= head + 1 THEN arrived'[w] ELSE g[b]]
  OBVIOUS
<1>4. Gains(w, g) /\ \A b \in Blocks : g[b] \in Nat /\ g[b] <= arrived[w]
  BY <1>0, <1>1, GainBounds DEF Watched
<1>5. h \in [Blocks -> 0..arrived'[w]]
  BY <1>h, <1>3, <1>4
<1>6. ASSUME NEW b \in Blocks, NEW c \in Blocks, b <= c, c <= head'
      PROVE  h[b] <= h[c] /\ wei'[w][c] - wei'[w][b] <= h[c] - h[b]
  <2>1. CASE c <= head
    <3>1. h[b] = g[b] /\ h[c] = g[c] /\ wei'[w][c] = wei[w][c] /\ wei'[w][b] = wei[w][b]
      <4>1. ~(b >= head + 1) /\ ~(c >= head + 1)
        BY <1>2, <1>3, <1>6, <2>1
      <4> QED BY <1>h, <1>2, <4>1
    <3>2. g[b] <= g[c] /\ wei[w][c] - wei[w][b] <= g[c] - g[b]
      BY <1>4, <1>6, <2>1 DEF Gains
    <3> QED BY <3>1, <3>2
  <2>2. CASE c = head' /\ b <= head
    <3>1. h[b] = g[b] /\ h[c] = arrived'[w] /\ wei'[w][c] = balance[w] /\ wei'[w][b] = wei[w][b]
      BY <1>h, <1>2, <1>3, <1>6, <2>2
    <3>2. g[head] = arrived[w] /\ g[b] <= g[head] /\ wei[w][head] - wei[w][b] <= g[head] - g[b]
      BY <1>3, <1>4, <2>2 DEF Gains
    <3> QED BY <1>3, <1>4, <3>1, <3>2
  <2>3. CASE c = head' /\ b = head'
    <3>1. c = b BY <2>3
    <3>2. h[c] \in Nat /\ wei'[w][c] = balance[w]
      BY <1>h, <1>2, <1>3, <2>3
    <3> QED BY <1>3, <3>1, <3>2
  <2> QED BY <1>2, <1>3, <1>6, <2>1, <2>2, <2>3
<1>7. Gains(w, h)'
  <2>1. h[head'] = arrived'[w] BY <1>h, <1>2
  <2> QED BY <1>5, <1>6, <2>1 DEF Gains
<1>8. ASSUME NEW b \in Blocks, Public(b)
      PROVE  Public(b)' /\ wei'[w][b] = wei[w][b] /\ h[b] = g[b]
  BY <1>h, <1>2, <1>3, <1>8 DEF Public, OneAsked
<1>9. Public(r) /\ Public(u) BY <1>1 DEF Watched
<1>10. Watched(w, h, r, u)'
  <2>1. Baseline(w, h, r, toldWei[w])'
    BY <1>1, <1>2, <1>8, <1>9 DEF Watched, Baseline
  <2>2. Reading(w, h, r, u)'
    BY <1>1, <1>2, <1>8, <1>9 DEF Watched, Reading, Baseline
  <2>3. (~inexact => Filed(w, r, u))'
    BY <1>1, <1>2 DEF Watched, Filed
  <2> QED BY <1>7, <1>8, <1>9, <2>1, <2>2, <2>3 DEF Watched
<1> QED BY <1>5, <1>10

(* The chain is as it was: the two readings may move to other blocks. *)
LEMMA NativeKept ==
    ASSUME NativeInv, Trust, TypeOK', NEW w \in Wallets, UNCHANGED <<head, wei, arrived>>,
           \A n \in Nodes : view[n] <= view'[n],
           asked \subseteq asked', UNCHANGED inexact,
           UNCHANGED <<known, toldWei>>, UNCHANGED <<knownAt>>, UNCHANGED <<found, updates>>,
           updates[w] # None => UNCHANGED <<at, height>>
    PROVE  \E g \in [Blocks -> 0..arrived'[w]], r, u \in Blocks : Watched(w, g, r, u)'
<1>0. TypeOK BY DEF NativeInv
<1>1. PICK g \in [Blocks -> 0..arrived[w]], r \in Blocks, u \in Blocks : Watched(w, g, r, u)
  BY DEF NativeInv, NativeOK
<1>2. asked' \subseteq Nodes /\ \A n \in Nodes : view[n] \in Nat /\ view'[n] \in Nat \ {0}
  <2>1. Blocks \subseteq Nat \ {0} BY DepositsAssumption DEF Blocks
  <2>2. view \in [Nodes -> Blocks] BY <1>0 DEF TypeOK
  <2>3. view' \in [Nodes -> Blocks] /\ asked' \subseteq Nodes BY DEF TypeOK
  <2> QED BY <2>1, <2>2, <2>3
<1>3. Gains(w, g)' /\ Public(r)' /\ Public(u)'
  BY <1>0, <1>1, <1>2, ChainKept DEF Watched
<1>4. Baseline(w, g, r, toldWei[w])' /\ Reading(w, g, r, u)' /\ (~inexact => Filed(w, r, u))'
  BY <1>1 DEF Watched, Baseline, Reading, Filed
<1>5. Watched(w, g, r, u)'
  BY <1>3, <1>4 DEF Watched
<1> QED BY <1>5

(* A batch of balances that is not dropped is read at a block no earlier than
   the baseline: the one node that is asked does not go back, and a reading that
   is filed where it was taken passes the comparison of heights. *)
LEMMA NativeRead ==
    ASSUME NativeInv, Trust, Trust', NEW n \in Nodes, NEW ok \in SUBSET Wallets, ReadBalances(n, ok),
           NEW w \in Wallets
    PROVE  \E g \in [Blocks -> 0..arrived'[w]], r, u \in Blocks : Watched(w, g, r, u)'
<1>0. TypeOK BY DEF NativeInv
<1>1. PICK g \in [Blocks -> 0..arrived[w]], r \in Blocks, u \in Blocks : Watched(w, g, r, u)
  BY DEF NativeInv, NativeOK
<1>v. PICK v : v = view[n]
  OBVIOUS
<1>2. /\ at' = "baselines" /\ asked' = asked \cup {n} /\ inexact' = (inexact \/ v # height)
      /\ UNCHANGED <<head, wei, view, arrived, known, knownAt, height, toldWei>>
  BY <1>v DEF ReadBalances, chainVars, tableVars, toldVars
<1>3. v \in Blocks /\ v \in Nat \ {0} /\ v <= head /\ r \in Nat
  BY <1>v, <1>0, DepositsAssumption DEF NativeInv, ChainOK, TypeOK, Blocks
<1>4. Public(v)'
  <2>1. OneAsked' => \A m \in asked' : view'[m] = v
    BY <1>v, <1>2 DEF OneAsked
  <2> QED BY <1>2, <1>3, <2>1 DEF Public
<1>5. Gains(w, g) /\ Public(r) /\ Baseline(w, g, r, toldWei[w])
  BY <1>1 DEF Watched
<1>6. Gains(w, g)' /\ Public(r)'
  <2>1. asked' \subseteq Nodes /\ \A m \in Nodes : view[m] \in Nat /\ view'[m] \in Nat \ {0}
    BY <1>0, <1>2, DepositsAssumption DEF TypeOK, Blocks
  <2> QED BY <1>0, <1>2, <1>5, <2>1, ChainKept
<1>7. Baseline(w, g, r, toldWei[w])'
  BY <1>2, <1>5 DEF Baseline
<1>r. ASSUME height >= knownAt[w], known[w] # None PROVE r <= v
  <2>1. CASE OneAsked'
    <3>1. CASE asked = {}
      <4>1. OneAsked BY <3>1 DEF OneAsked
      <4>2. r = 1 BY <1>5, <3>1, <4>1 DEF Public
      <4> QED BY <1>3, <4>2
    <3>2. CASE asked # {}
      <4>1. OneAsked /\ n \in asked BY <1>2, <2>1, <3>2 DEF OneAsked
      <4> QED BY <1>v, <1>5, <3>2, <4>1 DEF Public
    <3> QED BY <3>1, <3>2
  <2>2. CASE ~inexact'
    <3>1. ~inexact /\ v = height BY <1>2, <2>2
    <3>2. r = knownAt[w] BY <1>1, <1>r, <3>1 DEF Watched, Filed
    <3> QED BY <1>r, <3>1, <3>2
  <2> QED BY <2>1, <2>2 DEF Trust
<1>8. /\ wei[w][v] \in Nat /\ wei[w][r] \in Nat /\ toldWei[w] \in Nat /\ known[w] \in Nat \cup {None}
      /\ g[r] \in Nat /\ g[v] \in Nat
      /\ r <= v => g[r] <= g[v] /\ wei[w][v] - wei[w][r] <= g[v] - g[r]
      /\ height \in Nat /\ knownAt[w] \in Nat /\ None \notin Nat
  <2>1. r <= v => g[r] <= g[v] /\ wei[w][v] - wei[w][r] <= g[v] - g[r]
    BY <1>3, <1>5 DEF Gains
  <2>2. g[r] \in Nat /\ g[v] \in Nat
    BY <1>0, <1>3, <1>5, GainBounds
  <2> QED BY <1>0, <1>3, <2>1, <2>2, WalletNumbers, DepositsAssumption
<1> DEFINE fresh == w \in ok /\ height >= knownAt[w]
<1>9. /\ found'[w] = IF fresh /\ known[w] # None /\ wei[w][v] > known[w] THEN wei[w][v] - known[w] ELSE 0
      /\ updates'[w] = IF fresh /\ wei[w][v] # known[w] THEN wei[w][v] ELSE None
  BY <1>v DEF ReadBalances
<1>10. CASE updates'[w] = None
  <2>1. found'[w] = 0
    BY <1>8, <1>9, <1>10
  <2>2. toldWei'[w] + found'[w] = toldWei'[w]
    BY <1>2, <1>8, <2>1
  <2>3. Reading(w, g, r, v)'
    BY <1>7, <1>10, <2>2 DEF Reading
  <2>4. (~inexact => Filed(w, r, v))'
    BY <1>1, <1>2, <1>10 DEF Watched, Filed
  <2>5. Watched(w, g, r, v)' BY <1>4, <1>6, <1>7, <2>3, <2>4 DEF Watched
  <2> QED BY <1>2, <1>3, <2>5
<1>11. CASE updates'[w] # None
  <2>1. fresh /\ updates'[w] = wei[w][v]
    BY <1>9, <1>11
  <2>2. knownAt'[w] <= height' /\ updates'[w] = wei'[w][v]
    BY <1>2, <1>8, <2>1
  <2>3. toldWei'[w] + found'[w] <= g[v]
    <3>1. CASE known[w] = None
      <4>1. toldWei[w] = 0 /\ found'[w] = 0 BY <1>5, <1>9, <3>1 DEF Baseline
      <4> QED BY <1>2, <1>8, <4>1
    <3>2. CASE known[w] # None
      <4>1. known[w] = wei[w][r] /\ toldWei[w] <= g[r] BY <1>5, <3>2 DEF Baseline
      <4>2. found'[w] = IF wei[w][v] > wei[w][r] THEN wei[w][v] - wei[w][r] ELSE 0
        BY <1>9, <2>1, <3>2, <4>1
      <4>3. r <= v BY <1>r, <2>1, <3>2
      <4> QED BY <1>2, <1>8, <4>1, <4>2, <4>3
    <3> QED BY <3>1, <3>2
  <2>4. Reading(w, g, r, v)'
    BY <1>2, <1>11, <2>2, <2>3 DEF Reading
  <2>5. (~inexact => Filed(w, r, v))'
    BY <1>1, <1>2 DEF Watched, Filed
  <2>6. Watched(w, g, r, v)' BY <1>4, <1>6, <1>7, <2>4, <2>5 DEF Watched
  <2> QED BY <1>2, <1>3, <2>6
<1> QED BY <1>10, <1>11

(* A reading is written down: it is the baseline from now on.  The upsert's
   condition holds, because only this wallet's own writes move its height. *)
LEMMA NativeWrite ==
    ASSUME NativeInv, Trust, NEW x \in Wallets, WriteBaseline(x), NEW w \in Wallets
    PROVE  \E g \in [Blocks -> 0..arrived'[w]], r, u \in Blocks : Watched(w, g, r, u)'
<1>0. TypeOK BY DEF NativeInv
<1>1. PICK g \in [Blocks -> 0..arrived[w]], r \in Blocks, u \in Blocks : Watched(w, g, r, u)
  BY DEF NativeInv, NativeOK
<1>2. UNCHANGED <<head, wei, view, arrived, at, height, toldWei, found, asked, inexact>>
  BY DEF WriteBaseline, chainVars, toldVars, trustVars
<1>3. Gains(w, g)' /\ Public(r)' /\ Public(u)'
  BY <1>1, <1>2 DEF Watched, Gains, Public, OneAsked
<1>4. CASE w = x
  <2>1. /\ updates[w] # None /\ knownAt[w] <= height /\ updates[w] = wei[w][u]
        /\ toldWei[w] + found[w] <= g[u]
    BY <1>1, <1>4 DEF WriteBaseline, Watched, Reading
  <2>2. known'[w] = wei[w][u] /\ updates'[w] = None /\ known'[w] # None
    BY <1>0, <1>4, <2>1, WalletNumbers DEF WriteBaseline, TypeOK
  <2>3. toldWei[w] \in Nat /\ found[w] \in Nat /\ g[u] \in Nat
    BY <1>0, <1>1, WalletNumbers, GainBounds DEF Watched
  <2>4. Baseline(w, g, u, toldWei[w])' /\ Reading(w, g, u, u)'
    BY <1>2, <2>1, <2>2, <2>3 DEF Baseline, Reading
  <2>5. knownAt'[w] = height
    BY <1>0, <1>4, <2>1 DEF WriteBaseline, TypeOK
  <2>6. (~inexact => Filed(w, u, u))'
    BY <1>1, <1>2, <2>1, <2>2, <2>5 DEF Watched, Filed
  <2>7. Watched(w, g, u, u)' BY <1>3, <2>4, <2>6 DEF Watched
  <2> QED BY <1>2, <2>7
<1>5. CASE w # x
  <2>1. known'[w] = known[w] /\ knownAt'[w] = knownAt[w] /\ updates'[w] = updates[w]
    BY <1>0, <1>5 DEF WriteBaseline, TypeOK
  <2>2. Baseline(w, g, r, toldWei[w])' /\ Reading(w, g, r, u)'
    BY <1>1, <1>2, <2>1 DEF Watched, Baseline, Reading
  <2>3. (~inexact => Filed(w, r, u))'
    BY <1>1, <1>2, <2>1 DEF Watched, Filed
  <2>4. Watched(w, g, r, u)' BY <1>3, <2>2, <2>3 DEF Watched
  <2> QED BY <1>2, <2>4
<1> QED BY <1>4, <1>5

(* Announcing, or not, what was found and forgetting it. *)
LEMMA NativeTold ==
    ASSUME NativeInv, Trust, NEW w \in Wallets,
           UNCHANGED <<head, wei, view, arrived, known, knownAt, asked, inexact>>,
           updates'[w] = None, found'[w] = 0,
           \/ toldWei'[w] = toldWei[w]
           \/ updates[w] = None /\ toldWei'[w] = toldWei[w] + found[w]
    PROVE  \E g \in [Blocks -> 0..arrived'[w]], r, u \in Blocks : Watched(w, g, r, u)'
<1>0. TypeOK BY DEF NativeInv
<1>1. PICK g \in [Blocks -> 0..arrived[w]], r \in Blocks, u \in Blocks : Watched(w, g, r, u)
  BY DEF NativeInv, NativeOK
<1>2. Gains(w, g)' /\ Public(r)' /\ Public(u)'
  BY <1>1 DEF Watched, Gains, Public, OneAsked
<1>3. Baseline(w, g, r, toldWei'[w])
  BY <1>1 DEF Watched, Reading
<1>4. toldWei'[w] \in Nat /\ toldWei'[w] + found'[w] = toldWei'[w]
  BY <1>0, WalletNumbers
<1>5. Baseline(w, g, r, toldWei[w])' /\ Reading(w, g, r, u)'
  BY <1>3, <1>4 DEF Baseline, Reading
<1>6. (~inexact => Filed(w, r, u))'
  BY <1>1 DEF Watched, Filed
<1>7. Watched(w, g, r, u)' BY <1>2, <1>5, <1>6 DEF Watched
<1> QED BY <1>7

(* The nodes that answered and the readings that were off are never forgotten. *)
LEMMA TrustKept ==
    ASSUME [Next]_vars
    PROVE  asked \subseteq asked' /\ (inexact => inexact')
<1> USE DEF trustVars
<1>1. ASSUME NEW n \in Nodes, ReadHeight(n) PROVE asked \subseteq asked' /\ (inexact => inexact')
  BY <1>1 DEF ReadHeight
<1>2. ASSUME NEW n \in Nodes, NEW ok \in SUBSET Wallets, ReadBalances(n, ok)
      PROVE  asked \subseteq asked' /\ (inexact => inexact')
  BY <1>2 DEF ReadBalances
<1>3. ASSUME NEW n \in Nodes, GetLogs(n) PROVE asked \subseteq asked' /\ (inexact => inexact')
  BY <1>3 DEF GetLogs
<1>4. ASSUME UNCHANGED trustVars PROVE asked \subseteq asked' /\ (inexact => inexact')
  BY <1>4
<1> QED
  BY <1>1, <1>2, <1>3, <1>4
     DEF Next, Poll, vars, NoHeight, WriteBaseline, BaselinesWritten, ReadTip, Narrow, SkipDense,
         Claim, Remember, TokenMeta, SetCursor, NotifyWei, NotifyToken, Sleep, Abandon, Mine,
         Sync, Rewind

LEMMA NativeInductive ==
    /\ Init => NativeInv
    /\ NativeInv /\ [Next]_vars => NativeInv'
<1>1. ASSUME Init PROVE NativeInv
  <2>1. TypeOK /\ ChainOK
    BY <1>1, TypeInductive, OrderInductive
  <2>2. ASSUME NEW w \in Wallets
        PROVE  \E g \in [Blocks -> 0..arrived[w]], r, u \in Blocks : Watched(w, g, r, u)
    <3>1. PICK g : g = [b \in Blocks |-> 0]
      OBVIOUS
    <3>2. /\ 1 \in Blocks /\ head = 1 /\ arrived[w] = 0 /\ toldWei[w] = 0 /\ found[w] = 0
          /\ known[w] = None /\ updates[w] = None /\ asked = {}
          /\ \A b \in Blocks : wei[w][b] = wei[w][1] /\ wei[w][b] \in Nat
      BY <1>1, <2>1, DepositsAssumption DEF Init, Blocks, NoUpdates, NothingFound, TypeOK
    <3>3. g \in [Blocks -> 0..arrived[w]] /\ \A b \in Blocks : g[b] = 0
      BY <3>1, <3>2
    <3>4. Gains(w, g)
      BY <3>2, <3>3 DEF Gains
    <3>5. Watched(w, g, 1, 1)
      BY <3>2, <3>4 DEF Watched, Public, Baseline, Reading, Filed
    <3> QED BY <3>2, <3>3, <3>5
  <2> QED BY <2>1, <2>2 DEF NativeInv, NativeOK
<1>2. ASSUME NativeInv, [Next]_vars PROVE NativeInv'
  <2>1. TypeOK /\ TypeOK' /\ ChainOK'
    BY <1>2, TypeInductive, OrderInductive DEF NativeInv
  <2> SUFFICES ASSUME Trust', NEW w \in Wallets
               PROVE  \E g \in [Blocks -> 0..arrived'[w]], r, u \in Blocks : Watched(w, g, r, u)'
    BY <2>1 DEF NativeInv, NativeOK
  <2> DEFINE Goal == \E g \in [Blocks -> 0..arrived'[w]], r, u \in Blocks : Watched(w, g, r, u)'
  <2> SUFFICES Goal
    OBVIOUS
  <2>2. \A n \in Nodes : view[n] \in Nat /\ view[n] <= view[n] /\ view[n] + 1 \in Nat
    <3>1. Blocks \subseteq Nat BY DepositsAssumption DEF Blocks
    <3>2. view \in [Nodes -> Blocks] BY <2>1 DEF TypeOK
    <3>3. \A n \in Nodes : view[n] \in Nat BY <3>1, <3>2
    <3> QED BY <3>3
  <2>t. Trust
    BY <1>2, TrustKept DEF Trust, OneAsked
  <2>3. updates[w] # None => at = "baselines"
    BY <1>2, <2>t DEF NativeInv, NativeOK, Watched, Reading
  <2> USE DEF chainVars, tableVars, nativeVars, scanVars, toldVars, trustVars
  <2>4. ASSUME NEW n \in Nodes, ReadHeight(n) \/ ReadTip(n) \/ Narrow(n) \/ SkipDense(n) \/ GetLogs(n)
        PROVE Goal
    BY <1>2, <2>t, <2>1, <2>2, <2>3, <2>4, NativeKept DEF ReadHeight, ReadTip, Narrow, SkipDense, GetLogs
  <2>5. CASE BaselinesWritten
    <3>1. updates[w] = None BY <2>5 DEF BaselinesWritten, NoUpdates
    <3> QED BY <1>2, <2>t, <2>1, <2>2, <2>5, <3>1, NativeKept DEF BaselinesWritten
  <2>6. CASE Claim \/ Remember \/ SetCursor \/ NoHeight \/ \E readable \in SUBSET batch : TokenMeta(readable)
    BY <1>2, <2>t, <2>1, <2>2, <2>3, <2>6, NativeKept DEF Claim, Remember, SetCursor, NoHeight, TokenMeta
  <2>7. ASSUME NEW l \in Logs, NEW delivered \in BOOLEAN, NotifyToken(l, delivered) PROVE Goal
    BY <1>2, <2>t, <2>1, <2>2, <2>3, <2>7, NativeKept DEF NotifyToken
  <2>8. ASSUME NEW b \in Blocks, Rewind(b) PROVE Goal
    BY <1>2, <2>t, <2>1, <2>2, <2>3, <2>8, NativeKept DEF Rewind
  <2>9. ASSUME NEW n \in Nodes, Sync(n) PROVE Goal
    <3>1. \A m \in Nodes : view[m] <= view'[m]
      BY <2>1, <2>2, <2>9 DEF Sync, TypeOK
    <3> QED BY <1>2, <2>t, <2>1, <2>2, <2>9, <3>1, NativeKept DEF Sync
  <2>10. CASE Sleep \/ Abandon
    <3>1. updates'[w] = None /\ found'[w] = 0
      BY <2>10 DEF Sleep, Abandon, Forget, NoUpdates, NothingFound
    <3> QED BY <1>2, <2>t, <2>10, <3>1, NativeTold DEF Sleep, Abandon
  <2>11. ASSUME NEW x \in Wallets, NEW delivered \in BOOLEAN, NotifyWei(x, delivered) PROVE Goal
    <3>0. updates[w] = None /\ updates'[w] = None
      BY <2>3, <2>11 DEF NotifyWei
    <3>1. CASE x = w
      <4>1. found'[w] = 0 /\ (toldWei'[w] = toldWei[w] \/ toldWei'[w] = toldWei[w] + found[w])
        BY <2>1, <2>11, <3>1 DEF NotifyWei, TypeOK
      <4> QED BY <1>2, <2>t, <2>11, <3>0, <4>1, NativeTold DEF NotifyWei
    <3>2. CASE x # w
      <4>1. found'[w] = found[w] /\ toldWei'[w] = toldWei[w]
        BY <2>1, <2>11, <3>2 DEF NotifyWei, TypeOK
      <4>2. PICK g \in [Blocks -> 0..arrived[w]], r \in Blocks, u \in Blocks : Watched(w, g, r, u)
        BY <1>2, <2>t DEF NativeInv, NativeOK
      <4>3. Watched(w, g, r, u)'
        BY <2>11, <3>0, <4>1, <4>2 DEF NotifyWei, Watched, Gains, Public, Baseline, Reading,
                              Filed, OneAsked
      <4> QED BY <2>11, <4>3 DEF NotifyWei
    <3> QED BY <3>1, <3>2
  <2>12. CASE UNCHANGED vars
    BY <1>2, <2>t, <2>1, <2>2, <2>12, NativeKept DEF vars
  <2>13. ASSUME NEW n \in Nodes, NEW ok \in SUBSET Wallets, ReadBalances(n, ok) PROVE Goal
    BY <1>2, <2>t, <2>13, NativeRead
  <2>14. ASSUME NEW x \in Wallets, WriteBaseline(x) PROVE Goal
    BY <1>2, <2>t, <2>14, NativeWrite
  <2>15. ASSUME NEW last \in Logs \cup {0}, NEW balance \in [Wallets -> 0..MaxWei],
                Mine(last, balance)
         PROVE Goal
    BY <1>2, <2>t, <2>15, NativeMine
  <2> HIDE DEF Goal
  <2> QED
    BY <1>2, <2>4, <2>5, <2>6, <2>7, <2>8, <2>9, <2>10, <2>11, <2>12, <2>13, <2>14, <2>15
       DEF Next, Poll
<1> QED BY <1>1, <1>2

(* The wei announced to a wallet's owner, or about to be, really reached the
   wallet, for every chain of balances and any number of lagging nodes, whatever
   fails, as long as check_native was answered by one node or its readings were
   taken at the height they are filed under: a cycle that is given up between a
   reading and its write announces nothing, and the next one counts from the
   baseline that was kept. *)
THEOREM DepositsAreReal == Spec => []NoPhantomDeposit
<1>1. Init => NativeInv
  BY NativeInductive
<1>2. NativeInv /\ [Next]_vars => NativeInv'
  BY NativeInductive
<1>3. ASSUME NativeInv PROVE NoPhantomDeposit
  <2> SUFFICES ASSUME Trust, NEW w \in Wallets PROVE toldWei[w] + found[w] <= arrived[w]
    BY DEF NoPhantomDeposit, Trust
  <2>1. TypeOK BY <1>3 DEF NativeInv
  <2>2. PICK g \in [Blocks -> 0..arrived[w]], r \in Blocks, u \in Blocks : Watched(w, g, r, u)
    BY <1>3 DEF NativeInv, NativeOK
  <2>3. /\ g[r] \in Nat /\ g[r] <= arrived[w] /\ g[u] \in Nat /\ g[u] <= arrived[w]
        /\ arrived[w] \in Nat /\ toldWei[w] \in Nat /\ found[w] \in Nat
    BY <2>1, <2>2, GainBounds, WalletNumbers DEF Watched
  <2>4. toldWei[w] + found[w] = 0 \/ toldWei[w] + found[w] <= g[r] \/ toldWei[w] + found[w] <= g[u]
    BY <2>2 DEF Watched, Reading, Baseline
  <2> QED BY <2>3, <2>4
<1> QED BY <1>1, <1>2, <1>3, PTL DEF Spec
=============================================================================
