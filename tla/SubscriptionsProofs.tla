------------------------ MODULE SubscriptionsProofs ------------------------
(***************************************************************************)
(* Subscriptions is correct for every set of taps, scopes, wallets and     *)
(* amounts, every threshold, every combination of RPC faults and any       *)
(* number of crashes.                                                      *)
(***************************************************************************)
EXTENDS SubscriptionsProps, FiniteSetTheorems, TLAPS

(* Counting a set of taps gives a natural number. *)
LEMMA TapCount ==
    ASSUME NEW S \in SUBSET Taps
    PROVE  Cardinality(S) \in Nat
  BY ConstantsAssumption, FS_Subset, FS_CardinalityType

-----------------------------------------------------------------------------
(* Type correctness *)

(* Every call of pay() keeps the types. *)
LEMMA PayType ==
    ASSUME TypeOK, CursorOK, NEW t \in Taps, Pay(t)
    PROVE  TypeOK' /\ CursorOK'
<1> USE ConstantsAssumption DEF TypeOK, CursorOK, Goto, rowVars, chainVars, recVars, subVars,
        Hash, Args, Mined
<1>1. CASE PayCheck(t)
  BY <1>1 DEF PayCheck
<1>2. CASE PayBuild(t)
  <2>1. PendingNonce(arg[t].payer) \in Nat
    BY TapCount DEF PendingNonce
  <2> QED BY <1>2, <2>1 DEF PayBuild
<1>3. CASE PayRefuse(t)
  BY <1>3 DEF PayRefuse
<1>4. CASE OpenIntent(t)
  <2>1. Cardinality({r \in Taps : Exists(r)}) \in Nat
    BY TapCount
  <2>2. PICK b \in {head} \cup (IF "block" \in Faults THEN {0} ELSE {}) :
            fromBlock' = [fromBlock EXCEPT ![t] = b]
    BY <1>4 DEF OpenIntent
  <2>3. b \in Nat
    OBVIOUS
  <2> QED BY <1>4, <2>1, <2>2, <2>3 DEF OpenIntent
<1>5. CASE PaySend(t)
  BY <1>5 DEF PaySend
<1>6. CASE PaySendRefused(t)
  BY <1>6 DEF PaySendRefused
<1>7. CASE PayFail(t)
  BY <1>7 DEF PayFail, CloseUnhashed
<1>8. CASE PayAttach(t)
  BY <1>8 DEF PayAttach, AttachHash
<1>9. CASE PayAttachClash(t)
  BY <1>9 DEF PayAttachClash
<1>10. CASE PaySettle(t)
  BY <1>10 DEF PaySettle, CloseHashed, Credit
<1>11. CASE PayAbandon(t)
  BY <1>11 DEF PayAbandon
<1>12. CASE PayExtend(t)
  BY <1>12 DEF PayExtend, Extend
<1> QED
  BY <1>1, <1>2, <1>3, <1>4, <1>5, <1>6, <1>7, <1>8, <1>9, <1>10, <1>11, <1>12 DEF Pay

(* So does every step of settle_pending(). *)
LEMMA SettleType ==
    ASSUME TypeOK, CursorOK, SettlePending
    PROVE  TypeOK' /\ CursorOK'
<1> USE ConstantsAssumption DEF TypeOK, CursorOK, callVars, rowVars, chainVars, recVars, subVars,
        Hash, Args, Mined, Continue, Abort
<1>1. CASE RecFetch
  <2>1. FirstDue \subseteq Taps
    BY DEF FirstDue
  <2>2. todo' \subseteq Fetched
    BY <1>1, <2>1 DEF RecFetch, Fetched
  <2> QED BY <1>1, <2>2 DEF RecFetch
<1>2. ASSUME NEW f \in todo, RecFind(f) \/ RecNotFound(f) \/ RecSearchFails(f) \/ RecHashed(f)
      PROVE  TypeOK' /\ CursorOK'
  <2>1. f.row \in Taps /\ f.hash \in Hash
    BY DEF Fetched
  <2>2. CASE RecFind(f)
    BY <2>1, <2>2 DEF RecFind, Visit
  <2>3. CASE RecNotFound(f)
    BY <2>1, <2>3 DEF RecNotFound, Visit
  <2>4. CASE RecSearchFails(f)
    BY <2>1, <2>4 DEF RecSearchFails, Visit
  <2>5. CASE RecHashed(f)
    BY <2>1, <2>5 DEF RecHashed, Visit
  <2> QED BY <1>2, <2>2, <2>3, <2>4, <2>5
<1>3. CASE RecGiveUp
  BY <1>3 DEF RecGiveUp, CloseUnhashed
<1>4. CASE RecAttach
  BY <1>4 DEF RecAttach, AttachHash
<1>5. CASE RecAttachClash
  BY <1>5 DEF RecAttachClash
<1>6. CASE RecNoReceipt
  BY <1>6 DEF RecNoReceipt
<1>7. CASE RecReceiptError
  BY <1>7 DEF RecReceiptError
<1>8. CASE RecSettle
  BY <1>8 DEF RecSettle, CloseHashed, Credit
<1>9. CASE RecExtend
  BY <1>9 DEF RecExtend, Extend
<1> QED
  BY <1>1, <1>2, <1>3, <1>4, <1>5, <1>6, <1>7, <1>8, <1>9 DEF SettlePending

(* The types hold initially and every step keeps them. *)
LEMMA TypeInductive ==
    /\ Init => TypeOK /\ CursorOK
    /\ TypeOK /\ CursorOK /\ [Next]_vars => TypeOK' /\ CursorOK'
<1>1. Init => TypeOK /\ CursorOK
  BY ConstantsAssumption DEF Init, TypeOK, CursorOK, Hash, Args, Fetched, Mined
<1>2. ASSUME TypeOK, CursorOK, [Next]_vars
      PROVE  TypeOK' /\ CursorOK'
  <2> USE ConstantsAssumption DEF TypeOK, CursorOK, callVars, rowVars, chainVars, recVars,
          subVars, Hash, Mined
  <2>1. ASSUME NEW t \in Taps, Pay(t) PROVE TypeOK' /\ CursorOK'
    BY <1>2, <2>1, PayType
  <2>2. CASE SettlePending
    BY <1>2, <2>2, SettleType
  <2>3. ASSUME NEW t \in Taps, NEW outcome \in Mined, Mine(t, outcome)
        PROVE  TypeOK' /\ CursorOK'
    BY <1>2, <2>3 DEF Mine
  <2>4. CASE EmptyBlock
    BY <1>2, <2>4 DEF EmptyBlock
  <2>5. CASE Tick
    BY <1>2, <2>5 DEF Tick
  <2>6. CASE Crash
    BY <1>2, <2>6 DEF Crash
  <2>7. CASE UNCHANGED vars
    BY <1>2, <2>7 DEF vars
  <2> QED
    BY <1>2, <2>1, <2>2, <2>3, <2>4, <2>5, <2>6, <2>7 DEF Next
<1> QED BY <1>1, <1>2

(* Every variable keeps its type: the table's statuses, the calls' labels and
   the reconciler's cursor stay inside what the code declares. *)
THEOREM TypeCorrect == Spec => []TypeOK
<1>1. Spec => [](TypeOK /\ CursorOK)
  BY TypeInductive, PTL DEF Spec
<1> QED BY <1>1, PTL

-----------------------------------------------------------------------------
(* The table.  Only five actions write status or key. *)

RowActions(t) == OpenIntent(t) \/ PayFail(t) \/ PayAttach(t) \/ PaySettle(t)

(* Every other action of a call leaves the rows alone. *)
LEMMA PayRows ==
    ASSUME NEW t \in Taps, Pay(t), ~RowActions(t)
    PROVE  UNCHANGED <<status, key>>
  BY DEF Pay, RowActions, PayCheck, PayBuild, PayRefuse, PaySend, PaySendRefused,
         PayAttachClash, PayAbandon, PayExtend, rowVars

(* So does every step of settle_pending() but three. *)
LEMMA SettleRows ==
    ASSUME SettlePending, ~RecGiveUp, ~RecAttach, ~RecSettle
    PROVE  UNCHANGED <<status, key>>
  BY DEF SettlePending, RecFetch, RecFind, RecNotFound, RecSearchFails, RecHashed, RecAttachClash,
         RecNoReceipt, RecReceiptError, RecExtend, rowVars

(* Hashes stay unique, and a hash stays the mark of an attached row. *)
LEMMA KeysStep ==
    ASSUME IInv, [Next]_vars
    PROVE  KeysOK'
<1> USE DEF IInv, TypeOK, KeysOK
<1>1. ASSUME UNCHANGED <<status, key>> PROVE KeysOK'
  BY <1>1
<1>2. ASSUME NEW t \in Taps, Pay(t) PROVE KeysOK'
  <2>1. CASE OpenIntent(t)
    BY <2>1 DEF OpenIntent, HashesOK
  <2>2. CASE PayFail(t)
    BY <2>2 DEF PayFail, CloseUnhashed, Unhashed, Exists, Open
  <2>3. CASE PayAttach(t)
    BY <2>3, ConstantsAssumption DEF PayAttach, AttachHash, Clash, Unhashed, Exists
  <2>4. CASE PaySettle(t)
    BY <2>4, ConstantsAssumption DEF PaySettle, CloseHashed, OpenUnder, Open, Credit
  <2> QED BY <1>1, <1>2, <2>1, <2>2, <2>3, <2>4, PayRows DEF RowActions
<1>3. CASE SettlePending
  <2>1. CASE RecGiveUp
    BY <2>1 DEF RecGiveUp, CursorOK, CloseUnhashed, Unhashed, Exists, Open
  <2>2. CASE RecAttach
    BY <2>2, ConstantsAssumption DEF RecAttach, CursorOK, AttachHash, Clash, Unhashed, Exists
  <2>3. CASE RecSettle
    BY <2>3, ConstantsAssumption DEF RecSettle, CursorOK, CloseHashed, OpenUnder, Open, Credit
  <2> QED BY <1>1, <1>3, <2>1, <2>2, <2>3, SettleRows
<1>4. ASSUME NEW t \in Taps, NEW outcome \in Mined, Mine(t, outcome) PROVE KeysOK'
  BY <1>1, <1>4 DEF Mine, rowVars
<1>5. CASE EmptyBlock \/ Tick \/ Crash \/ UNCHANGED vars
  BY <1>1, <1>5 DEF EmptyBlock, Tick, Crash, vars, rowVars
<1> QED BY <1>2, <1>3, <1>4, <1>5 DEF Next

-----------------------------------------------------------------------------
(* The broadcast comes after the row and before any use of the hash. *)
LEMMA HashesStep ==
    ASSUME IInv, [Next]_vars
    PROVE  HashesOK'
<1> USE ConstantsAssumption DEF IInv, TypeOK, CursorOK, HashesOK, Hash, callVars, rowVars,
        chainVars, recVars, Mined
<1>1. ASSUME NEW t \in Taps, Pay(t) PROVE HashesOK'
  <2> USE DEF Goto
  <2>1. CASE PayCheck(t) BY <2>1 DEF PayCheck
  <2>2. CASE PayBuild(t) BY <2>2 DEF PayBuild
  <2>3. CASE PayRefuse(t) BY <2>3 DEF PayRefuse
  <2>4. CASE OpenIntent(t) BY <2>4 DEF OpenIntent
  <2>5. CASE PaySend(t) BY <2>5 DEF PaySend, Fetched
  <2>6. CASE PaySendRefused(t) BY <2>6 DEF PaySendRefused
  <2>7. CASE PayFail(t) BY <2>7 DEF PayFail, CloseUnhashed, Fetched
  <2>8. CASE PayAttach(t) BY <2>8 DEF PayAttach, AttachHash, Fetched
  <2>9. CASE PayAttachClash(t) BY <2>9 DEF PayAttachClash
  <2>10. CASE PaySettle(t)
    BY <2>10 DEF PaySettle, CloseHashed, Credit, OpenUnder, Open, Fetched
  <2>11. CASE PayAbandon(t) BY <2>11 DEF PayAbandon
  <2>12. CASE PayExtend(t) BY <2>12 DEF PayExtend
  <2> QED
    BY <1>1, <2>1, <2>2, <2>3, <2>4, <2>5, <2>6, <2>7, <2>8, <2>9, <2>10, <2>11, <2>12 DEF Pay
<1>2. CASE SettlePending
  <2> USE DEF Continue, Abort
  <2>1. CASE RecFetch
    <3>1. \A r \in FirstDue : r \in Taps /\ status[r] # "none"
      BY DEF FirstDue, Due, Open
    <3>2. ASSUME NEW f \in todo'
          PROVE  /\ f.hash # None => transfer[f.hash] # "none"
                 /\ status[f.row] # "none"
      <4>1. PICK r \in FirstDue :
                f = [row |-> r, hash |-> IF status[r] = "sending" THEN None ELSE key[r]]
        BY <2>1, <3>2 DEF RecFetch
      <4> QED BY <3>1, <4>1
    <3> QED BY <2>1, <3>2 DEF RecFetch
  <2>2. ASSUME NEW f \in todo, RecFind(f) \/ RecNotFound(f) \/ RecSearchFails(f) \/ RecHashed(f)
        PROVE  HashesOK'
    <3>1. f.row \in Taps /\ f.hash \in Hash
      BY DEF Fetched
    <3>2. CASE RecFind(f)
      BY <3>1, <3>2 DEF RecFind, Visit, FindsLostPayment, Candidates
    <3>3. CASE RecNotFound(f)
      BY <3>1, <3>3 DEF RecNotFound, Visit
    <3>4. CASE RecSearchFails(f)
      BY <3>1, <3>4 DEF RecSearchFails, Visit
    <3>5. CASE RecHashed(f)
      BY <3>1, <3>5 DEF RecHashed, Visit
    <3> QED BY <2>2, <3>2, <3>3, <3>4, <3>5
  <2>3. CASE RecGiveUp BY <2>3 DEF RecGiveUp, CloseUnhashed, Fetched
  <2>4. CASE RecAttach BY <2>4 DEF RecAttach, AttachHash, Fetched
  <2>5. CASE RecAttachClash BY <2>5 DEF RecAttachClash
  <2>6. CASE RecNoReceipt BY <2>6 DEF RecNoReceipt
  <2>7. CASE RecReceiptError BY <2>7 DEF RecReceiptError
  <2>8. CASE RecSettle
    BY <2>8 DEF RecSettle, CloseHashed, Credit, OpenUnder, Open, Fetched
  <2>9. CASE RecExtend BY <2>9 DEF RecExtend
  <2> QED
    BY <1>2, <2>1, <2>2, <2>3, <2>4, <2>5, <2>6, <2>7, <2>8, <2>9 DEF SettlePending
<1>3. ASSUME NEW t \in Taps, NEW outcome \in Mined, Mine(t, outcome) PROVE HashesOK'
  BY <1>3 DEF Mine, Fetched
<1>4. CASE EmptyBlock BY <1>4 DEF EmptyBlock
<1>5. CASE Tick BY <1>5 DEF Tick
<1>6. CASE Crash BY <1>6 DEF Crash
<1>7. CASE UNCHANGED vars BY <1>7 DEF vars
<1> QED BY <1>1, <1>2, <1>3, <1>4, <1>5, <1>6, <1>7 DEF Next

-----------------------------------------------------------------------------
(* Crediting and granting. *)

(* Whoever is about to extend a subscription holds a succeeded transfer that
   nobody has granted a month for, and nobody else holds it. *)
LEMMA AboutToGrant ==
    ASSUME IInv, NEW h \in Taps, PayExtending(h) \/ RecExtending(h)
    PROVE  grants[h] = 0 /\ transfer[h] = "ok" /\ ~(PayExtending(h) /\ RecExtending(h))
<1>1. grants[h] \in Nat /\ grants[h] <= 1 /\ grants[h] # 1
  BY DEF IInv, TypeOK, OneMonthPerTransfer
<1>2. transfer[h] = "ok" /\ ~(PayExtending(h) /\ RecExtending(h))
  BY DEF IInv, OneMonthPerTransfer
<1> QED BY <1>1, <1>2

(* A step that grants such a transfer its month, after which nobody is about to
   grant it again, keeps one month per transfer. *)
LEMMA OneGrant ==
    ASSUME IInv, NEW h \in Taps, grants[h] = 0, transfer[h] = "ok",
           grants' = [grants EXCEPT ![h] = @ + 1], UNCHANGED transfer,
           ~PayExtending(h)', ~RecExtending(h)',
           \A g \in Taps : PayExtending(g)' => PayExtending(g),
           \A g \in Taps : RecExtending(g)' => RecExtending(g)
    PROVE  OneMonthPerTransfer'
<1>1. grants \in [Taps -> Nat]
  BY DEF IInv, TypeOK
<1>2. grants'[h] = 1 /\ \A g \in Taps \ {h} : grants'[g] = grants[g]
  BY <1>1
<1>3. ASSUME NEW g \in Taps
      PROVE  /\ grants'[g] <= 1
             /\ grants'[g] = 1 => transfer'[g] = "ok" /\ ~PayExtending(g)' /\ ~RecExtending(g)'
             /\ PayExtending(g)' \/ RecExtending(g)' => transfer'[g] = "ok"
             /\ ~(PayExtending(g)' /\ RecExtending(g)')
  <2>1. CASE g = h BY <1>2, <2>1
  <2>2. CASE g # h BY <1>2, <2>2 DEF IInv, OneMonthPerTransfer
  <2> QED BY <2>1, <2>2
<1> QED BY <1>3 DEF OneMonthPerTransfer

(* A step that keeps the credited rows, un-succeeds no transfer, grants nothing
   and sends nobody to extend, keeps the books. *)
LEMMA BooksKept ==
    ASSUME IInv, TypeOK', UNCHANGED grants,
           \A r \in Taps : status'[r] = "credited" <=> status[r] = "credited",
           \A r \in Taps : status[r] = "credited" => key'[r] = key[r],
           \A h \in Taps : transfer[h] = "ok" => transfer'[h] = "ok",
           \A h \in Taps : PayExtending(h)' => PayExtending(h),
           \A h \in Taps : RecExtending(h)' => RecExtending(h)
    PROVE  CreditsOK' /\ OneMonthPerTransfer'
<1>1. CreditsOK'
  BY ConstantsAssumption DEF IInv, TypeOK, KeysOK, CreditsOK, Hash, PayExtending, RecExtending
<1>2. OneMonthPerTransfer'
  BY DEF IInv, TypeOK, OneMonthPerTransfer, PayExtending, RecExtending
<1> QED BY <1>1, <1>2

(* Whoever closes the row of a successful transfer is the first to: there is
   no month for it yet and nobody else is about to grant one. *)
LEMMA CloserIsFirst ==
    ASSUME IInv, NEW h \in Taps, OpenUnder(h) # {}
    PROVE  grants[h] = 0 /\ ~PayExtending(h) /\ ~RecExtending(h)
<1>1. PICK r \in Taps : key[r] = h /\ Open(r)
  BY DEF OpenUnder
<1>2. ~\E q \in Taps : key[q] = h /\ status[q] = "credited"
  BY <1>1, ConstantsAssumption DEF IInv, KeysOK, Open
<1> QED BY <1>2 DEF IInv, CreditsOK

(* The books balance after every step of a call. *)
LEMMA PayCredits ==
    ASSUME IInv, TypeOK', NEW t \in Taps, Pay(t)
    PROVE  CreditsOK' /\ OneMonthPerTransfer'
<1> USE ConstantsAssumption DEF IInv, TypeOK, Hash, Goto, Mined, rowVars, chainVars, recVars,
        subVars, PayExtending, RecExtending
<1>1. CASE PayCheck(t) BY <1>1, BooksKept DEF PayCheck
<1>2. CASE PayBuild(t) BY <1>2, BooksKept DEF PayBuild
<1>3. CASE PayRefuse(t) BY <1>3, BooksKept DEF PayRefuse
<1>4. CASE OpenIntent(t) BY <1>4, BooksKept DEF OpenIntent, HashesOK
<1>5. CASE PaySend(t) BY <1>5, BooksKept DEF PaySend, HashesOK
<1>6. CASE PaySendRefused(t) BY <1>6, BooksKept DEF PaySendRefused
<1>7. CASE PayFail(t) BY <1>7, BooksKept DEF PayFail, CloseUnhashed, Open
<1>8. CASE PayAttach(t)
  BY <1>8, BooksKept DEF PayAttach, AttachHash, Unhashed, KeysOK
<1>9. CASE PayAttachClash(t) BY <1>9, BooksKept DEF PayAttachClash
<1>10. CASE PaySettle(t)
  <2>1. CASE transfer[t] = "ok" /\ OpenUnder(t) # {}
    <3>1. grants[t] = 0 /\ ~RecExtending(t)
      BY <2>1, CloserIsFirst
    <3>2. \A r \in Taps : status'[r] = IF r \in OpenUnder(t) THEN "credited" ELSE status[r]
      BY <1>10, <2>1 DEF PaySettle, CloseHashed, Credit
    <3>3. CreditsOK'
      BY <1>10, <2>1, <3>2 DEF PaySettle, CreditsOK, OpenUnder, Open, KeysOK
    <3>4. OneMonthPerTransfer'
      BY <1>10, <2>1, <3>1 DEF PaySettle, OneMonthPerTransfer
    <3> QED BY <3>3, <3>4
  <2>2. CASE transfer[t] # "ok" \/ OpenUnder(t) = {}
    BY <1>10, <2>2, BooksKept DEF PaySettle, CloseHashed, Credit, OpenUnder, Open
  <2> QED BY <2>1, <2>2
<1>11. CASE PayAbandon(t) BY <1>11, BooksKept DEF PayAbandon
<1>12. CASE PayExtend(t)
  <2>1. CreditsOK'
    BY <1>12 DEF PayExtend, Extend, CreditsOK
  <2>2. PayExtending(t)
    BY <1>12 DEF PayExtend
  <2>3. grants[t] = 0 /\ transfer[t] = "ok" /\ ~RecExtending(t)
    BY <2>2, AboutToGrant
  <2>4. /\ grants' = [grants EXCEPT ![t] = @ + 1] /\ UNCHANGED transfer
        /\ \A g \in Taps : PayExtending(g)' => g # t /\ PayExtending(g)
        /\ \A g \in Taps : RecExtending(g)' => RecExtending(g)
    BY <1>12 DEF PayExtend, Extend
  <2>5. OneMonthPerTransfer'
    BY <2>3, <2>4, OneGrant
  <2> QED BY <2>1, <2>5
<1> QED
  BY <1>1, <1>2, <1>3, <1>4, <1>5, <1>6, <1>7, <1>8, <1>9, <1>10, <1>11, <1>12 DEF Pay

(* And after every step of settle_pending(). *)
LEMMA SettleCredits ==
    ASSUME IInv, TypeOK', SettlePending
    PROVE  CreditsOK' /\ OneMonthPerTransfer'
<1> USE ConstantsAssumption DEF IInv, TypeOK, CursorOK, Hash, Mined, callVars, rowVars,
        chainVars, subVars, Continue, Abort, PayExtending, RecExtending
<1>1. CASE RecFetch BY <1>1, BooksKept DEF RecFetch
<1>2. ASSUME NEW f \in todo, RecFind(f) \/ RecNotFound(f) \/ RecSearchFails(f) \/ RecHashed(f)
      PROVE  CreditsOK' /\ OneMonthPerTransfer'
  BY <1>2, BooksKept DEF RecFind, RecNotFound, RecSearchFails, RecHashed
<1>3. CASE RecGiveUp BY <1>3, BooksKept DEF RecGiveUp, CloseUnhashed, Open
<1>4. CASE RecAttach
  BY <1>4, BooksKept DEF RecAttach, AttachHash, Unhashed, KeysOK
<1>5. CASE RecAttachClash BY <1>5, BooksKept DEF RecAttachClash
<1>6. CASE RecNoReceipt BY <1>6, BooksKept DEF RecNoReceipt
<1>7. CASE RecReceiptError BY <1>7, BooksKept DEF RecReceiptError
<1>8. CASE RecSettle
  <2>1. CASE transfer[hash] = "ok" /\ OpenUnder(hash) # {}
    <3>0. hash \in Taps
      BY <1>8 DEF RecSettle
    <3>1. grants[hash] = 0 /\ ~PayExtending(hash)
      BY <2>1, <3>0, CloserIsFirst
    <3>2. \A r \in Taps : status'[r] = IF r \in OpenUnder(hash) THEN "credited" ELSE status[r]
      BY <1>8, <2>1 DEF RecSettle, CloseHashed, Credit
    <3>3. CreditsOK'
      BY <1>8, <2>1, <3>0, <3>2 DEF RecSettle, CreditsOK, OpenUnder, Open, KeysOK
    <3>4. OneMonthPerTransfer'
      BY <1>8, <2>1, <3>0, <3>1 DEF RecSettle, OneMonthPerTransfer
    <3> QED BY <3>3, <3>4
  <2>2. CASE transfer[hash] # "ok" \/ OpenUnder(hash) = {}
    BY <1>8, <2>2, BooksKept DEF RecSettle, CloseHashed, Credit, OpenUnder, Open
  <2> QED BY <2>1, <2>2
<1>9. CASE RecExtend
  <2>1. CreditsOK'
    BY <1>9 DEF RecExtend, Extend, CreditsOK
  <2>2. hash \in Taps /\ RecExtending(hash)
    BY <1>9 DEF RecExtend
  <2>3. grants[hash] = 0 /\ transfer[hash] = "ok" /\ ~PayExtending(hash)
    BY <2>2, AboutToGrant
  <2>4. /\ grants' = [grants EXCEPT ![hash] = @ + 1] /\ UNCHANGED transfer
        /\ \A g \in Taps : PayExtending(g)' => PayExtending(g)
        /\ \A g \in Taps : ~RecExtending(g)'
    BY <1>9 DEF RecExtend, Extend
  <2>5. OneMonthPerTransfer'
    BY <2>2, <2>3, <2>4, OneGrant
  <2> QED BY <2>1, <2>5
<1> QED
  BY <1>1, <1>2, <1>3, <1>4, <1>5, <1>6, <1>7, <1>8, <1>9 DEF SettlePending

(* The invariant holds initially and every step keeps it. *)
LEMMA Inductive ==
    /\ Init => IInv
    /\ IInv /\ [Next]_vars => IInv'
<1>1. Init => IInv
  <2> SUFFICES ASSUME Init PROVE IInv
    OBVIOUS
  <2>1. TypeOK /\ CursorOK
    BY TypeInductive
  <2>2. KeysOK /\ HashesOK /\ CreditsOK /\ OneMonthPerTransfer
    BY DEF Init, KeysOK, HashesOK, CreditsOK, OneMonthPerTransfer, PayExtending, RecExtending
  <2> QED BY <2>1, <2>2 DEF IInv
<1>2. ASSUME IInv, [Next]_vars PROVE IInv'
  <2>1. TypeOK' /\ CursorOK'
    BY <1>2, TypeInductive DEF IInv
  <2>2. KeysOK' /\ HashesOK'
    BY <1>2, KeysStep, HashesStep
  <2>3. CreditsOK' /\ OneMonthPerTransfer'
    <3> USE DEF IInv, TypeOK, Mined, callVars, rowVars, chainVars, recVars, subVars,
            PayExtending, RecExtending
    <3>1. ASSUME NEW t \in Taps, NEW outcome \in Mined, Mine(t, outcome)
          PROVE  CreditsOK' /\ OneMonthPerTransfer'
      BY <1>2, <2>1, <3>1, BooksKept DEF Mine
    <3>2. CASE EmptyBlock BY <1>2, <2>1, <3>2, BooksKept DEF EmptyBlock
    <3>3. CASE Tick BY <1>2, <2>1, <3>3, BooksKept DEF Tick
    <3>4. CASE Crash BY <1>2, <2>1, <3>4, BooksKept DEF Crash
    <3>5. CASE UNCHANGED vars BY <1>2, <2>1, <3>5, BooksKept DEF vars
    <3> QED
      BY <1>2, <2>1, <3>1, <3>2, <3>3, <3>4, <3>5, PayCredits, SettleCredits DEF Next
  <2> QED BY <2>1, <2>2, <2>3 DEF IInv
<1> QED BY <1>1, <1>2

-----------------------------------------------------------------------------
(* The invariant is one of the specification. *)
THEOREM Invariance == Spec => []IInv
  BY Inductive, PTL DEF Spec

(* pay() and settle_pending() never grant two months for one transfer, nor one
   for a transfer that did not succeed. *)
THEOREM NeverTwoMonths == Spec => []OneMonthPerTransfer
<1>1. IInv => OneMonthPerTransfer
  BY DEF IInv
<1> QED BY <1>1, Invariance, PTL

(* _open_intent runs before sign_and_send: no transfer is out without a row,
   and no row carries a hash nobody broadcast. *)
THEOREM AlwaysRecorded == Spec => []EveryTransferIsRecorded
<1>1. IInv => EveryTransferIsRecorded
  BY DEF IInv, HashesOK, EveryTransferIsRecorded, Exists
<1> QED BY <1>1, Invariance, PTL

(* No statement of subscriptions.py moves a row out of 'credited'. *)
THEOREM CreditedForEver == Spec => CreditedIsFinal
<1>1. IInv /\ [Next]_vars =>
        [\A r \in Taps : status[r] = "credited" =>
            status'[r] = "credited" /\ key'[r] = key[r]]_vars
  <2> SUFFICES ASSUME IInv, Next, NEW r \in Taps, status[r] = "credited"
               PROVE  status'[r] = "credited" /\ key'[r] = key[r]
    BY DEF vars
  <2> USE DEF IInv, TypeOK, KeysOK
  <2>1. ASSUME NEW t \in Taps, Pay(t) PROVE status'[r] = "credited" /\ key'[r] = key[r]
    <3>1. CASE OpenIntent(t) BY <3>1 DEF OpenIntent, HashesOK
    <3>2. CASE PayFail(t) BY <3>2 DEF PayFail, CloseUnhashed, Open
    <3>3. CASE PayAttach(t) BY <3>3 DEF PayAttach, AttachHash, Unhashed
    <3>4. CASE PaySettle(t) BY <3>4 DEF PaySettle, CloseHashed, OpenUnder, Open
    <3> QED BY <2>1, <3>1, <3>2, <3>3, <3>4, PayRows DEF RowActions
  <2>2. CASE SettlePending
    <3>1. CASE RecGiveUp BY <3>1 DEF RecGiveUp, CloseUnhashed, Open
    <3>2. CASE RecAttach BY <3>2 DEF RecAttach, AttachHash, Unhashed
    <3>3. CASE RecSettle BY <3>3 DEF RecSettle, CloseHashed, OpenUnder, Open
    <3> QED BY <2>2, <3>1, <3>2, <3>3, SettleRows
  <2>3. ASSUME NEW t \in Taps, NEW outcome \in Mined, Mine(t, outcome)
        PROVE  status'[r] = "credited" /\ key'[r] = key[r]
    BY <2>3 DEF Mine, rowVars
  <2>4. CASE EmptyBlock \/ Tick \/ Crash
    BY <2>4 DEF EmptyBlock, Tick, Crash, rowVars
  <2> QED BY <2>1, <2>2, <2>3, <2>4 DEF Next
<1> QED BY <1>1, Invariance, PTL DEF Spec, CreditedIsFinal

(* _attach_hash, the one statement that can reopen a row closed as failed, only
   does so for a broadcast transfer of that wallet and amount. *)
THEOREM RevivedRightly == Spec => RevivedOnlyForATransfer
<1> DEFINE Right(r) == /\ key'[r] # None
                       /\ transfer[key'[r]] # "none"
                       /\ arg[key'[r]].payer = arg[r].payer
                       /\ arg[key'[r]].amount = arg[r].amount
<1>1. IInv /\ [Next]_vars =>
        [\A r \in Taps : (status[r] = "failed" /\ status'[r] # "failed") => Right(r)]_vars
  <2> SUFFICES ASSUME IInv, Next, NEW r \in Taps, status[r] = "failed", status'[r] # "failed"
               PROVE  Right(r)
    BY DEF vars
  <2> USE ConstantsAssumption DEF IInv, TypeOK
  <2>1. ASSUME NEW t \in Taps, Pay(t) PROVE Right(r)
    <3>1. CASE OpenIntent(t) BY <3>1 DEF OpenIntent, HashesOK
    <3>2. CASE PayFail(t) BY <3>2 DEF PayFail, CloseUnhashed, Open
    <3>3. CASE PayAttach(t) BY <3>3 DEF PayAttach, AttachHash, Unhashed, HashesOK
    <3>4. CASE PaySettle(t) BY <3>4 DEF PaySettle, CloseHashed, OpenUnder, Open
    <3> QED BY <2>1, <3>1, <3>2, <3>3, <3>4, PayRows DEF RowActions
  <2>2. CASE SettlePending
    <3>1. CASE RecGiveUp BY <3>1 DEF RecGiveUp, CloseUnhashed, Open
    <3>2. CASE RecAttach
      BY <3>2 DEF RecAttach, AttachHash, Unhashed, HashesOK, CursorOK
    <3>3. CASE RecSettle BY <3>3 DEF RecSettle, CloseHashed, OpenUnder, Open
    <3> QED BY <2>2, <3>1, <3>2, <3>3, SettleRows
  <2>3. ASSUME NEW t \in Taps, NEW outcome \in Mined, Mine(t, outcome) PROVE Right(r)
    BY <2>3 DEF Mine, rowVars
  <2>4. CASE EmptyBlock \/ Tick \/ Crash
    BY <2>4 DEF EmptyBlock, Tick, Crash, rowVars
  <2> QED BY <2>1, <2>2, <2>3, <2>4 DEF Next
<1> QED BY <1>1, Invariance, PTL DEF Spec, RevivedOnlyForATransfer

-----------------------------------------------------------------------------
(* Refinement.  A successful Mine step is a Confirm, the two extend steps are
   Grants, and every other step leaves the promise's state alone. *)

Paid == {h \in Taps : transfer[h] = "ok"}
Granted == {h \in Taps : grants[h] # 0}

(* A call's step is a Grant or a stutter of the promise. *)
LEMMA PayRefines ==
    ASSUME IInv, NEW t \in Taps, Pay(t)
    PROVE  [Promise!Next]_(Promise!vars)
<1> USE DEF IInv, TypeOK, subVars, chainVars, Promise!vars
<1>1. CASE PayExtend(t)
  <2>1. grants[t] = 0 /\ transfer[t] = "ok"
    BY <1>1 DEF PayExtend, OneMonthPerTransfer, PayExtending
  <2>2. Granted' = Granted \cup {t} /\ t \in Paid \ Granted /\ Paid' = Paid
    BY <1>1, <2>1 DEF PayExtend, Extend, Granted, Paid
  <2>3. PICK s \in Scopes : s = arg[t].scope
    BY DEF Args
  <2>4. Promise!Grant(t, s)
    BY <1>1, <2>2, <2>3 DEF PayExtend, Extend, Promise!Grant, Granted, Paid
  <2> QED BY <2>4 DEF Promise!Next
<1>2. CASE PaySend(t)
  <2>1. Paid' = Paid
    BY <1>2 DEF PaySend, Paid, HashesOK
  <2> QED BY <1>2, <2>1 DEF PaySend, Paid
<1>3. CASE ~PayExtend(t) /\ ~PaySend(t)
  BY <1>3 DEF Pay, PayCheck, PayBuild, PayRefuse, OpenIntent, PaySendRefused, PayFail,
              PayAttach, PayAttachClash, PaySettle, PayAbandon
<1> QED BY <1>1, <1>2, <1>3

(* So is a step of settle_pending(). *)
LEMMA SettleRefines ==
    ASSUME IInv, SettlePending
    PROVE  [Promise!Next]_(Promise!vars)
<1> USE DEF IInv, TypeOK, subVars, chainVars, Promise!vars
<1>1. CASE RecExtend
  <2>0. PICK h \in Taps : h = hash
    BY <1>1 DEF RecExtend, CursorOK
  <2>1. grants[h] = 0 /\ transfer[h] = "ok"
    BY <1>1, <2>0 DEF RecExtend, OneMonthPerTransfer, RecExtending
  <2>2. Granted' = Granted \cup {h} /\ h \in Paid \ Granted /\ Paid' = Paid
    BY <1>1, <2>0, <2>1 DEF RecExtend, Extend, Granted, Paid
  <2>3. PICK s \in Scopes : s = arg[cur].scope
    BY <1>1 DEF RecExtend, CursorOK, Args
  <2>4. Promise!Grant(h, s)
    BY <1>1, <2>0, <2>2, <2>3 DEF RecExtend, Extend, Promise!Grant, Granted, Paid
  <2> QED BY <2>4 DEF Promise!Next
<1>2. CASE ~RecExtend
  BY <1>2 DEF SettlePending, RecFetch, RecFind, RecNotFound, RecSearchFails, RecHashed, RecGiveUp, RecAttach,
              RecAttachClash, RecNoReceipt, RecReceiptError, RecSettle
<1> QED BY <1>1, <1>2

(* subscriptions.py implements the promise of sql/schema.sql: whatever calls,
   reconciler runs and crashes interleave, every month granted is accounted for
   by one successful transfer of its own. *)
THEOREM Implements == Spec => ImplementsPromise
<1>1. Init => Promise!Init
  BY DEF Init, Promise!Init
<1>2. IInv /\ [Next]_vars => [Promise!Next]_(Promise!vars)
  <2> SUFFICES ASSUME IInv, [Next]_vars PROVE [Promise!Next]_(Promise!vars)
    OBVIOUS
  <2> USE DEF IInv, TypeOK, subVars, chainVars, Promise!vars
  <2>1. ASSUME NEW t \in Taps, NEW outcome \in Mined, Mine(t, outcome)
        PROVE  [Promise!Next]_(Promise!vars)
    <3>1. CASE outcome = "ok"
      <4>1. Paid' = Paid \cup {t} /\ t \notin Paid
        BY <2>1, <3>1 DEF Mine, Paid
      <4>2. Promise!Confirm(t)
        BY <2>1, <4>1 DEF Mine, Promise!Confirm, Paid
      <4> QED BY <4>2 DEF Promise!Next
    <3>2. CASE outcome # "ok"
      <4>1. Paid' = Paid
        BY <2>1, <3>2 DEF Mine, Paid
      <4> QED BY <2>1, <4>1 DEF Mine, Paid
    <3> QED BY <3>1, <3>2
  <2>2. CASE EmptyBlock \/ Tick \/ Crash \/ UNCHANGED vars
    BY <2>2 DEF EmptyBlock, Tick, Crash, vars
  <2> QED BY <2>1, <2>2, PayRefines, SettleRefines DEF Next
<1> QED BY <1>1, <1>2, Invariance, PTL DEF Spec, ImplementsPromise, Promise!Spec
=============================================================================
