--------------------------- MODULE Subscriptions ---------------------------
(***************************************************************************)
(* Paying for a month of OPRAI Pro in ETH from the Telegram bot            *)
(* (oprai-tg-bot/app/services/subscriptions.py).                           *)
(*                                                                         *)
(* Three actors share the table tg_topups: every tap on "Subscribe" runs   *)
(* its own call of pay(), the watcher loop of main.py runs                 *)
(* settle_pending() every few seconds, and the chain mines what was        *)
(* broadcast.  An action is what a coroutine does between two awaits that  *)
(* others can slip into.  A tap opens at most one row and broadcasts at    *)
(* most one transfer, so a tap names its call, its row and its transfer.   *)
(*                                                                         *)
(* Left out: the wording of refusals, the ETH/USD quote (an amount is an   *)
(* opaque value), gas and balances (a refusal for lack of funds is a       *)
(* choice of the environment), expires_at (only the count of months is     *)
(* kept) and chain reorganisations.                                        *)
(***************************************************************************)
EXTENDS Integers, FiniteSets

CONSTANTS
    Taps,           \* the calls of pay()
    Scopes,         \* private chats and groups a month is bought for
    Wallets,        \* the payers' bot wallets
    Amounts,        \* prices in wei, as quoted at the moment of paying
    None,           \* no transfer: the row still has its "sending:<uuid>" key
    SettleAge,      \* a row this old is looked at by settle_pending (20 s)
    FlightAge,      \* a row this old no longer blocks its scope (10 minutes)
    GiveUpAge,      \* a row this old is abandoned when not found (30 minutes)
    Batch,          \* LIMIT of settle_pending's query (25)
    MaxScanBlocks,  \* how far back _find_lost_payment looks (5000 blocks)
    Faults,         \* which RPC failures may happen, see FaultKinds
    MaxCrashes,     \* bound: process crashes in a behaviour
    MaxHead         \* bound: height of the chain

(* "block": eth_blockNumber fails in _open_intent; "answer": the node takes
   the raw transaction but its answer is lost; "scan": an RPC call fails
   during the search; "receipt": it fails while reading a receipt. *)
FaultKinds == {"block", "answer", "scan", "receipt"}

ASSUME ConstantsAssumption ==
    /\ IsFiniteSet(Taps) /\ None \notin Taps
    /\ SettleAge \in Nat /\ FlightAge \in Nat /\ GiveUpAge \in Nat \ {0}
    /\ Batch \in Nat \ {0} /\ MaxScanBlocks \in Nat
    /\ Faults \subseteq FaultKinds
    /\ MaxCrashes \in Nat /\ MaxHead \in Nat \ {0}
    /\ Scopes # {} /\ Wallets # {} /\ Amounts # {}

VARIABLES
    pc,         \* where each call of pay() is
    arg,        \* its arguments; also the row's scope_id, wallet, oprai_wei
    nonce,      \* the nonce its transaction was built with
    status,     \* tg_topups.status, "none" before the INSERT
    key,        \* tg_topups.tx_hash: a transfer, or None for "sending:<uuid>"
    age,        \* now - tg_topups.created_at
    serial,     \* ORDER BY created_at
    fromBlock,  \* tg_topups.from_block
    transfer,   \* the chain: state of each transfer
    block,      \* the block a transfer was mined in
    head,       \* the current block
    at,         \* where settle_pending() is
    todo,       \* the rows it has fetched and not yet visited
    cur,        \* the row it is visiting
    hash,       \* the transfer it takes for that row's payment
    months,     \* tg_subscriptions.months
    grants,     \* months granted on the strength of each transfer (history)
    crashes     \* number of crashes so far

callVars == <<pc, arg, nonce>>
rowVars == <<status, key, age, serial, fromBlock>>
chainVars == <<transfer, block, head>>
recVars == <<at, todo, cur, hash>>
subVars == <<months, grants>>
vars == <<callVars, rowVars, chainVars, recVars, subVars, crashes>>

Hash == Taps \cup {None}
Args == [scope : Scopes, payer : Wallets, amount : Amounts]
Fetched == [row : Taps, hash : Hash]
Mined == {"ok", "reverted"}

TypeOK ==
    /\ pc \in [Taps -> {"idle", "checked", "built", "opened", "rejected", "sent",
                        "waiting", "extending", "done"}]
    /\ arg \in [Taps -> Args]
    /\ nonce \in [Taps -> Nat]
    /\ status \in [Taps -> {"none", "sending", "pending", "credited", "failed"}]
    /\ key \in [Taps -> Hash]
    /\ age \in [Taps -> 0..GiveUpAge]
    /\ serial \in [Taps -> Nat]
    /\ fromBlock \in [Taps -> Nat]
    /\ transfer \in [Taps -> {"none", "mempool"} \cup Mined]
    /\ block \in [Taps -> Nat]
    /\ head \in 1..MaxHead
    /\ at \in {"loop", "giveup", "unsearched", "attach", "settle", "extend"}
    /\ todo \subseteq Fetched
    /\ cur \in Hash
    /\ hash \in Hash
    /\ months \in [Scopes -> Nat]
    /\ grants \in [Taps -> Nat]
    /\ crashes \in 0..MaxCrashes

Init ==
    /\ pc = [t \in Taps |-> "idle"]
    /\ arg \in [Taps -> Args]
    /\ nonce = [t \in Taps |-> 0]
    /\ status = [t \in Taps |-> "none"]
    /\ key = [t \in Taps |-> None]
    /\ age = [t \in Taps |-> 0]
    /\ serial = [t \in Taps |-> 0]
    /\ fromBlock = [t \in Taps |-> 0]
    /\ transfer = [t \in Taps |-> "none"]
    /\ block = [t \in Taps |-> 0]
    /\ head = 1
    /\ at = "loop" /\ todo = {} /\ cur = None /\ hash = None
    /\ months = [s \in Scopes |-> 0]
    /\ grants = [t \in Taps |-> 0]
    /\ crashes = 0

-----------------------------------------------------------------------------
(* The table tg_topups *)

Exists(r) == status[r] # "none"
Open(r) == status[r] \in {"sending", "pending"}

(* The row still has the placeholder key it was inserted under. *)
Unhashed(r) == Exists(r) /\ key[r] = None

(* in_flight: a young open row of the scope. *)
InFlight(s) == \E r \in Taps : Open(r) /\ arg[r].scope = s /\ age[r] < FlightAge

(* _close_intent, addressed by placeholder and by hash: only an open row. *)
CloseUnhashed(r, outcome) ==
    status' = [status EXCEPT ![r] = IF Unhashed(r) /\ Open(r) THEN outcome ELSE @]

OpenUnder(h) == {r \in Taps : key[r] = h /\ Open(r)}

CloseHashed(h, outcome) ==
    status' = [r \in Taps |-> IF r \in OpenUnder(h) THEN outcome ELSE status[r]]

(* _attach_hash: the UPDATE finds the row by its placeholder key, whatever
   its status, and fails when another row already has that hash. *)
Clash(r, h) == Unhashed(r) /\ \E q \in Taps : key[q] = h

(* Slip: addressed by the intent instead of by the placeholder. *)
AttachHashToIntent(r, h) ==
    /\ ~Clash(r, h)
    /\ key' = [key EXCEPT ![r] = h]
    /\ status' = [status EXCEPT ![r] = "pending"]

AttachHash(r, h) ==
    /\ ~Clash(r, h)
    /\ key' = [key EXCEPT ![r] = IF Unhashed(r) THEN h ELSE @]
    /\ status' = [status EXCEPT ![r] = IF Unhashed(r) THEN "pending" ELSE @]

Credit(h) == IF transfer[h] = "ok" THEN "credited" ELSE "failed"

(* extend: one more month for the scope. *)
Extend(s, h) ==
    /\ months' = [months EXCEPT ![s] = @ + 1]
    /\ grants' = [grants EXCEPT ![h] = @ + 1]

-----------------------------------------------------------------------------
(* pay() *)

Goto(t, label) == pc' = [pc EXCEPT ![t] = label]

(* A tap: the payment is refused while another is in flight. *)
PayCheck(t) ==
    /\ pc[t] = "idle"
    /\ Goto(t, IF InFlight(arg[t].scope) THEN "done" ELSE "checked")
    /\ UNCHANGED <<arg, nonce, rowVars, chainVars, recVars, subVars, crashes>>

(* eth_getTransactionCount(..., "pending") *)
PendingNonce(w) ==
    Cardinality({u \in Taps : transfer[u] # "none" /\ arg[u].payer = w})

PayBuild(t) ==
    /\ pc[t] = "checked"
    /\ nonce' = [nonce EXCEPT ![t] = PendingNonce(arg[t].payer)]
    /\ Goto(t, "built")
    /\ UNCHANGED <<arg, rowVars, chainVars, recVars, subVars, crashes>>

(* The node cannot build it, or the wallet is short. *)
PayRefuse(t) ==
    /\ pc[t] \in {"checked", "built"}
    /\ Goto(t, "done")
    /\ UNCHANGED <<arg, nonce, rowVars, chainVars, recVars, subVars, crashes>>

(* _open_intent: the row is written before anything is signed. *)
OpenIntent(t) ==
    /\ pc[t] = "built"
    /\ \E b \in {head} \cup (IF "block" \in Faults THEN {0} ELSE {}) :
           fromBlock' = [fromBlock EXCEPT ![t] = b]
    /\ status' = [status EXCEPT ![t] = "sending"]
    /\ serial' = [serial EXCEPT ![t] = Cardinality({r \in Taps : Exists(r)}) + 1]
    /\ Goto(t, "opened")
    /\ UNCHANGED <<arg, nonce, key, age, chainVars, recVars, subVars, crashes>>

(* Slip: broadcast first, then write the row. *)
PaySendFirst(t) ==
    /\ pc[t] \in {"built", "opened"}
    /\ nonce[t] = PendingNonce(arg[t].payer)
    /\ transfer' = [transfer EXCEPT ![t] = "mempool"]
    /\ Goto(t, "sent")
    /\ UNCHANGED <<arg, nonce, rowVars, block, head, recVars, subVars, crashes>>

(* sign_and_send: the node takes a transaction that has the next nonce. *)
PaySend(t) ==
    /\ pc[t] = "opened"
    /\ nonce[t] = PendingNonce(arg[t].payer)
    /\ transfer' = [transfer EXCEPT ![t] = "mempool"]
    /\ \/ Goto(t, "sent")
       \/ "answer" \in Faults /\ Goto(t, "rejected")
    /\ UNCHANGED <<arg, nonce, rowVars, block, head, recVars, subVars, crashes>>

(* The signer or the node refuses. *)
PaySendRefused(t) ==
    /\ pc[t] = "opened"
    /\ Goto(t, "rejected")
    /\ UNCHANGED <<arg, nonce, rowVars, chainVars, recVars, subVars, crashes>>

PayFail(t) ==
    /\ pc[t] = "rejected"
    /\ CloseUnhashed(t, "failed")
    /\ Goto(t, "done")
    /\ UNCHANGED <<arg, nonce, key, age, serial, fromBlock, chainVars, recVars,
                   subVars, crashes>>

PayAttach(t) ==
    /\ pc[t] = "sent"
    /\ AttachHash(t, t)
    /\ Goto(t, "waiting")
    /\ UNCHANGED <<arg, nonce, age, serial, fromBlock, chainVars, recVars,
                   subVars, crashes>>

(* The unique key is taken: the call dies on the database error. *)
PayAttachClash(t) ==
    /\ pc[t] = "sent"
    /\ Clash(t, t)
    /\ Goto(t, "done")
    /\ UNCHANGED <<arg, nonce, rowVars, chainVars, recVars, subVars, crashes>>

(* Slip: extend without asking whether this call closed the row. *)
PaySettleAlways(t) ==
    /\ pc[t] = "waiting"
    /\ transfer[t] \in Mined
    /\ CloseHashed(t, Credit(t))
    /\ Goto(t, IF transfer[t] = "ok" THEN "extending" ELSE "done")
    /\ UNCHANGED <<arg, nonce, key, age, serial, fromBlock, chainVars, recVars,
                   subVars, crashes>>

(* wait_receipt answered: close the row, and extend only if this call did. *)
PaySettle(t) ==
    /\ pc[t] = "waiting"
    /\ transfer[t] \in Mined
    /\ CloseHashed(t, Credit(t))
    /\ Goto(t, IF transfer[t] = "ok" /\ OpenUnder(t) # {} THEN "extending" ELSE "done")
    /\ UNCHANGED <<arg, nonce, key, age, serial, fromBlock, chainVars, recVars,
                   subVars, crashes>>

(* No receipt in 60 s, or an RPC or Telegram error: the row stays open. *)
PayAbandon(t) ==
    /\ pc[t] = "waiting"
    /\ Goto(t, "done")
    /\ UNCHANGED <<arg, nonce, rowVars, chainVars, recVars, subVars, crashes>>

PayExtend(t) ==
    /\ pc[t] = "extending"
    /\ Extend(arg[t].scope, t)
    /\ Goto(t, "done")
    /\ UNCHANGED <<arg, nonce, rowVars, chainVars, recVars, crashes>>

Pay(t) ==
    \/ PayCheck(t) \/ PayBuild(t) \/ PayRefuse(t) \/ OpenIntent(t)
    \/ PaySend(t) \/ PaySendRefused(t) \/ PayFail(t)
    \/ PayAttach(t) \/ PayAttachClash(t)
    \/ PaySettle(t) \/ PayAbandon(t) \/ PayExtend(t)

-----------------------------------------------------------------------------
(* settle_pending() *)

(* Slip: rows that never got their hash are not looked at. *)
DuePending(r) == status[r] = "pending" /\ age[r] >= SettleAge

Due(r) == Open(r) /\ age[r] >= SettleAge

FirstDue == {r \in Taps : Due(r) /\ Cardinality({q \in Taps : Due(q) /\ serial[q] < serial[r]}) < Batch}

(* The SELECT; the rows are visited later, as they were read here. *)
RecFetch ==
    /\ at = "loop" /\ todo = {}
    /\ FirstDue # {}
    /\ todo' = {[row |-> r, hash |-> IF status[r] = "sending" THEN None ELSE key[r]] :
                    r \in FirstDue}
    /\ UNCHANGED <<callVars, rowVars, chainVars, at, cur, hash, subVars, crashes>>

Next1(f) == f \in todo /\ \A g \in todo : serial[f.row] <= serial[g.row]

(* Slip: any sender's transfer of that amount will do. *)
CandidatesOfAnyone(r) ==
    {h \in Taps :
        /\ fromBlock[r] # 0
        /\ transfer[h] \in Mined
        /\ block[h] >= fromBlock[r] \/ block[h] >= head
        /\ block[h] >= head - MaxScanBlocks
        /\ arg[h].amount = arg[r].amount}

(* _find_lost_payment: the first transfer of that wallet and amount from the
   recorded block on; nothing at all when no block was recorded. *)
Candidates(r) ==
    {h \in Taps :
        /\ fromBlock[r] # 0
        /\ transfer[h] \in Mined
        /\ block[h] >= fromBlock[r] \/ block[h] >= head
        /\ block[h] >= head - MaxScanBlocks
        /\ arg[h].payer = arg[r].payer /\ arg[h].amount = arg[r].amount}

FindsLostPayment(r, h) ==
    h \in Candidates(r) /\ \A g \in Candidates(r) : block[h] <= block[g]

Visit(f) ==
    /\ at = "loop" /\ Next1(f)
    /\ todo' = todo \ {f} /\ cur' = f.row

RecFind(f) ==
    /\ f.hash = None
    /\ \E h \in Taps : FindsLostPayment(f.row, h) /\ hash' = h
    /\ Visit(f) /\ at' = "attach"
    /\ UNCHANGED <<callVars, rowVars, chainVars, subVars, crashes>>

RecNotFound(f) ==
    /\ f.hash = None
    /\ Candidates(f.row) = {}
    /\ Visit(f) /\ at' = "giveup" /\ hash' = None
    /\ UNCHANGED <<callVars, rowVars, chainVars, subVars, crashes>>

(* An RPC error ends the search with nothing found. *)
RecSearchFails(f) ==
    /\ f.hash = None /\ fromBlock[f.row] # 0
    /\ "scan" \in Faults
    /\ Visit(f) /\ at' = "unsearched" /\ hash' = None
    /\ UNCHANGED <<callVars, rowVars, chainVars, subVars, crashes>>

RecHashed(f) ==
    /\ f.hash # None
    /\ Visit(f) /\ at' = "settle" /\ hash' = f.hash
    /\ UNCHANGED <<callVars, rowVars, chainVars, subVars, crashes>>

(* continue with the next row; or give up the cycle, on an exception *)
Continue == at' = "loop" /\ cur' = None /\ hash' = None /\ UNCHANGED todo
Abort == at' = "loop" /\ cur' = None /\ hash' = None /\ todo' = {}

(* Slip: the cutoff is never reached. *)
RecGiveUpNever ==
    /\ at \in {"giveup", "unsearched"}
    /\ IF age[cur] > GiveUpAge THEN CloseUnhashed(cur, "failed") ELSE UNCHANGED status
    /\ Continue
    /\ UNCHANGED <<callVars, key, age, serial, fromBlock, chainVars, subVars, crashes>>

(* _give_up_if_stale: the row is as old as when it was read, search or no search *)
RecGiveUp ==
    /\ at \in {"giveup", "unsearched"}
    /\ IF age[cur] >= GiveUpAge THEN CloseUnhashed(cur, "failed") ELSE UNCHANGED status
    /\ Continue
    /\ UNCHANGED <<callVars, key, age, serial, fromBlock, chainVars, subVars, crashes>>

RecAttach ==
    /\ at = "attach"
    /\ AttachHash(cur, hash)
    /\ at' = "settle"
    /\ UNCHANGED <<callVars, age, serial, fromBlock, chainVars, todo, cur, hash,
                   subVars, crashes>>

RecAttachClash ==
    /\ at = "attach"
    /\ Clash(cur, hash)
    /\ Abort
    /\ UNCHANGED <<callVars, rowVars, chainVars, subVars, crashes>>

RecNoReceipt ==
    /\ at = "settle"
    /\ transfer[hash] \notin Mined
    /\ Continue
    /\ UNCHANGED <<callVars, rowVars, chainVars, subVars, crashes>>

RecReceiptError ==
    /\ at = "settle"
    /\ "receipt" \in Faults
    /\ Abort
    /\ UNCHANGED <<callVars, rowVars, chainVars, subVars, crashes>>

(* Slip: a receipt is taken for a success. *)
RecSettleAnyReceipt ==
    /\ at = "settle"
    /\ transfer[hash] \in Mined
    /\ CloseHashed(hash, "credited")
    /\ IF OpenUnder(hash) # {}
          THEN at' = "extend" /\ UNCHANGED <<todo, cur, hash>>
          ELSE Continue
    /\ UNCHANGED <<callVars, key, age, serial, fromBlock, chainVars, subVars, crashes>>

RecSettle ==
    /\ at = "settle"
    /\ transfer[hash] \in Mined
    /\ CloseHashed(hash, Credit(hash))
    /\ IF transfer[hash] = "ok" /\ OpenUnder(hash) # {}
          THEN at' = "extend" /\ UNCHANGED <<todo, cur, hash>>
          ELSE Continue
    /\ UNCHANGED <<callVars, key, age, serial, fromBlock, chainVars, subVars, crashes>>

RecExtend ==
    /\ at = "extend"
    /\ Extend(arg[cur].scope, hash)
    /\ Continue
    /\ UNCHANGED <<callVars, rowVars, chainVars, crashes>>

SettlePending ==
    \/ RecFetch
    \/ \E f \in todo : RecFind(f) \/ RecNotFound(f) \/ RecSearchFails(f) \/ RecHashed(f)
    \/ RecGiveUp \/ RecAttach \/ RecAttachClash
    \/ RecNoReceipt \/ RecReceiptError \/ RecSettle \/ RecExtend

-----------------------------------------------------------------------------
(* The environment *)

(* The chain mines a wallet's transfers in the order of their nonces. *)
Mine(t, outcome) ==
    /\ transfer[t] = "mempool" /\ head < MaxHead
    /\ \A u \in Taps : (arg[u].payer = arg[t].payer /\ transfer[u] = "mempool")
                           => nonce[t] <= nonce[u]
    /\ transfer' = [transfer EXCEPT ![t] = outcome]
    /\ block' = [block EXCEPT ![t] = head + 1]
    /\ head' = head + 1
    /\ UNCHANGED <<callVars, rowVars, recVars, subVars, crashes>>

EmptyBlock ==
    /\ head < MaxHead
    /\ head' = head + 1
    /\ UNCHANGED <<callVars, rowVars, transfer, block, recVars, subVars, crashes>>

Tick ==
    /\ \E r \in Taps : Exists(r) /\ age[r] < GiveUpAge
    /\ age' = [r \in Taps |-> IF Exists(r) /\ age[r] < GiveUpAge THEN age[r] + 1 ELSE age[r]]
    /\ UNCHANGED <<callVars, status, key, serial, fromBlock, chainVars, recVars,
                   subVars, crashes>>

(* A crash or a deploy takes every coroutine; the table and the chain stay. *)
Crash ==
    /\ crashes < MaxCrashes
    /\ crashes' = crashes + 1
    /\ pc' = [t \in Taps |-> IF pc[t] = "idle" THEN "idle" ELSE "done"]
    /\ at' = "loop" /\ todo' = {} /\ cur' = None /\ hash' = None
    /\ UNCHANGED <<arg, nonce, rowVars, chainVars, subVars>>

Next ==
    \/ \E t \in Taps : Pay(t)
    \/ SettlePending
    \/ \E t \in Taps, outcome \in Mined : Mine(t, outcome)
    \/ EmptyBlock \/ Tick \/ Crash

Spec == Init /\ [][Next]_vars

(* The watcher loop keeps running, time passes, and a node that is asked for a
   receipt again and again answers in the end.  Nothing is assumed of the
   calls of pay(), which may hang or die, of the search, or of the chain. *)
FairSpec ==
    /\ Spec
    /\ WF_vars(SettlePending) /\ WF_vars(Tick)
    /\ SF_vars(RecSettle) /\ SF_vars(RecNoReceipt)
=============================================================================
