------------------------------- MODULE Claims -------------------------------
(***************************************************************************)
(* Sending to a handle that has no wallet yet                              *)
(* (oprai-tg-bot/app/services/claims.py, app/handlers/claim.py).           *)
(*                                                                         *)
(* The sender's intent is a row of tg_claims; every tap on its link runs   *)
(* its own call of handle_claim(), which takes the claim and only then     *)
(* sends the money out of the sender's wallet.  Taps race each other, the  *)
(* sender's cancel button and the watcher's expiry sweep.  An opening      *)
(* broadcasts at most one transfer, so it also names its transfer.         *)
(*                                                                         *)
(* Left out: amounts, tokens and balances (a transfer fails or not as the  *)
(* environment likes), the wording of answers and the listings             *)
(* pending_for, pending_from and offer_pending, which only read.           *)
(***************************************************************************)

CONSTANTS
    Tokens,      \* the claims, by the token in their link
    Openings,    \* the calls of handle_claim
    Handles,     \* Telegram usernames
    None         \* no tx_hash

ASSUME ClaimsAssumption == None \notin Openings

VARIABLES
    status,     \* tg_claims.status, "none" before the INSERT
    addressee,  \* tg_claims.to_username
    past,       \* expires_at <= now
    txHash,     \* tg_claims.tx_hash
    pc,         \* where each opening is
    link,       \* the token it opened
    who,        \* the username of the person who tapped
    answer,     \* the ClaimError that person was shown
    transfer,   \* the chain: state of each opening's transfer
    released    \* claims whose sender was told the money stays (history)

rowVars == <<status, addressee, past, txHash>>
callVars == <<pc, link, who, answer>>
vars == <<rowVars, callVars, transfer, released>>

Answers == {"none", "invalid", "claimed", "cancelled", "expired", "handle"}

TypeOK ==
    /\ status \in [Tokens -> {"none", "pending", "claimed", "cancelled", "expired", "failed"}]
    /\ addressee \in [Tokens -> Handles]
    /\ past \in [Tokens -> BOOLEAN]
    /\ txHash \in [Tokens -> Openings \cup {None}]
    /\ pc \in [Openings -> {"idle", "expiring", "taking", "sending", "waiting",
                            "failing", "confirmed", "done"}]
    /\ link \in [Openings -> Tokens]
    /\ who \in [Openings -> Handles]
    /\ answer \in [Openings -> Answers]
    /\ transfer \in [Openings -> {"none", "mempool", "ok", "reverted"}]
    /\ released \in SUBSET Tokens

Init ==
    /\ status = [c \in Tokens |-> "none"]
    /\ addressee \in [Tokens -> Handles]
    /\ past = [c \in Tokens |-> FALSE]
    /\ txHash = [c \in Tokens |-> None]
    /\ pc = [o \in Openings |-> "idle"]
    /\ link \in [Openings -> Tokens]
    /\ who \in [Openings -> Handles]
    /\ answer = [o \in Openings |-> "none"]
    /\ transfer = [o \in Openings |-> "none"]
    /\ released = {}

-----------------------------------------------------------------------------
(* The sender and the watcher loop *)

Create(c) ==
    /\ status[c] = "none"
    /\ status' = [status EXCEPT ![c] = "pending"]
    /\ UNCHANGED <<addressee, past, txHash, callVars, transfer, released>>

Pending(c) == status[c] = "pending"

(* Slip: the UPDATE does not ask for a pending row. *)
CancelAny(c) ==
    /\ status[c] # "none"
    /\ status' = [status EXCEPT ![c] = "cancelled"]
    /\ released' = released \cup {c}
    /\ UNCHANGED <<addressee, past, txHash, callVars, transfer>>

(* cancel: only the sender's own row, and only while it is pending. *)
Cancel(c) ==
    /\ Pending(c)
    /\ status' = [status EXCEPT ![c] = "cancelled"]
    /\ released' = released \cup {c}
    /\ UNCHANGED <<addressee, past, txHash, callVars, transfer>>

(* Slip: the comparison with now() the wrong way round. *)
StaleReversed == {c \in Tokens : Pending(c) /\ ~past[c]}

(* expire_stale, then "The funds never left your wallet" to each sender. *)
Stale == {c \in Tokens : Pending(c) /\ past[c]}

ExpireStale ==
    /\ Stale # {}
    /\ status' = [c \in Tokens |-> IF c \in Stale THEN "expired" ELSE status[c]]
    /\ released' = released \cup Stale
    /\ UNCHANGED <<addressee, past, txHash, callVars, transfer>>

-----------------------------------------------------------------------------
(* handle_claim() *)

Goto(o, label) == pc' = [pc EXCEPT ![o] = label]
Refuse(o, a) == Goto(o, "done") /\ answer' = [answer EXCEPT ![o] = a]

(* What take() says to a row that is not pending. *)
Closed(s) ==
    CASE s = "none"      -> "invalid"
      [] s = "claimed"   -> "claimed"
      [] s = "cancelled" -> "cancelled"
      [] OTHER           -> "expired"

(* take, up to its last statement: judged on the row as it is read here. *)
TakeRead(o) ==
    LET c == link[o] IN
    /\ pc[o] = "idle"
    /\ \/ ~Pending(c) /\ Refuse(o, Closed(status[c]))
       \/ Pending(c) /\ past[c] /\ Goto(o, "expiring") /\ UNCHANGED answer
       \/ Pending(c) /\ ~past[c] /\ who[o] # addressee[c] /\ Refuse(o, "handle")
       \/ Pending(c) /\ ~past[c] /\ who[o] = addressee[c] /\ Goto(o, "taking")
                     /\ UNCHANGED answer
    /\ UNCHANGED <<rowVars, link, who, transfer, released>>

(* _finish(token, 'expired') writes whatever the row has become meanwhile. *)
TakeExpired(o) ==
    /\ pc[o] = "expiring"
    /\ status' = [status EXCEPT ![link[o]] = "expired"]
    /\ Refuse(o, "expired")
    /\ UNCHANGED <<addressee, past, txHash, link, who, transfer, released>>

(* Slip: the UPDATE trusts the row that was read. *)
TakeUnguarded(o) ==
    /\ pc[o] = "taking"
    /\ status' = [status EXCEPT ![link[o]] = "claimed"]
    /\ Goto(o, "sending")
    /\ UNCHANGED <<addressee, past, txHash, link, who, answer, transfer, released>>

(* The UPDATE ... WHERE status = 'pending' that decides who pays. *)
Take(o) ==
    /\ pc[o] = "taking"
    /\ IF Pending(link[o])
          THEN /\ status' = [status EXCEPT ![link[o]] = "claimed"]
               /\ Goto(o, "sending") /\ UNCHANGED answer
          ELSE Refuse(o, "claimed") /\ UNCHANGED status
    /\ UNCHANGED <<addressee, past, txHash, link, who, transfer, released>>

(* sign_and_send; the node's answer may be lost, which is an EvmError too. *)
Send(o) ==
    /\ pc[o] = "sending"
    /\ transfer' = [transfer EXCEPT ![o] = "mempool"]
    /\ Goto(o, "waiting") \/ Goto(o, "failing")
    /\ UNCHANGED <<rowVars, link, who, answer, released>>

(* No wallet, no gas estimate, a refusal by the signer or by the node. *)
SendFails(o) ==
    /\ pc[o] = "sending"
    /\ Goto(o, "failing")
    /\ UNCHANGED <<rowVars, link, who, answer, transfer, released>>

(* wait_receipt: the transfer succeeded; or it reverted, 60 s went by without
   a receipt, or the node could not be asked. *)
Confirmed(o) ==
    /\ pc[o] = "waiting" /\ transfer[o] = "ok"
    /\ Goto(o, "confirmed")
    /\ UNCHANGED <<rowVars, link, who, answer, transfer, released>>

NotConfirmed(o) ==
    /\ pc[o] = "waiting"
    /\ Goto(o, "failing")
    /\ UNCHANGED <<rowVars, link, who, answer, transfer, released>>

MarkFailed(o) ==
    /\ pc[o] = "failing"
    /\ status' = [status EXCEPT ![link[o]] = "failed"]
    /\ Goto(o, "done")
    /\ UNCHANGED <<addressee, past, txHash, link, who, answer, transfer, released>>

(* Slip: the hash is filed before the receipt is in. *)
RecordSentEarly(o) ==
    /\ pc[o] \in {"waiting", "confirmed"}
    /\ txHash' = [txHash EXCEPT ![link[o]] = o]
    /\ Goto(o, "done")
    /\ UNCHANGED <<status, addressee, past, link, who, answer, transfer, released>>

RecordSent(o) ==
    /\ pc[o] = "confirmed"
    /\ txHash' = [txHash EXCEPT ![link[o]] = o]
    /\ Goto(o, "done")
    /\ UNCHANGED <<status, addressee, past, link, who, answer, transfer, released>>

(* The process stops, or handle_claim meets an exception it does not catch, a
   Telegram error for one: the row stays as it is. *)
Die(o) ==
    /\ pc[o] \notin {"idle", "done"}
    /\ Goto(o, "done")
    /\ UNCHANGED <<rowVars, link, who, answer, transfer, released>>

HandleClaim(o) ==
    \/ TakeRead(o) \/ TakeExpired(o) \/ Take(o)
    \/ Send(o) \/ SendFails(o) \/ Confirmed(o) \/ NotConfirmed(o)
    \/ MarkFailed(o) \/ RecordSent(o) \/ Die(o)

-----------------------------------------------------------------------------
(* The environment *)

(* CLAIM_TTL_DAYS go by. *)
Lapse(c) ==
    /\ status[c] # "none" /\ ~past[c]
    /\ past' = [past EXCEPT ![c] = TRUE]
    /\ UNCHANGED <<status, addressee, txHash, callVars, transfer, released>>

Mine(o, outcome) ==
    /\ transfer[o] = "mempool"
    /\ transfer' = [transfer EXCEPT ![o] = outcome]
    /\ UNCHANGED <<rowVars, callVars, released>>

Next ==
    \/ \E c \in Tokens : Create(c) \/ Cancel(c) \/ Lapse(c)
    \/ ExpireStale
    \/ \E o \in Openings : HandleClaim(o)
    \/ \E o \in Openings, outcome \in {"ok", "reverted"} : Mine(o, outcome)

Spec == Init /\ [][Next]_vars

(* Time passes and the watcher loop keeps sweeping; taps and the chain may
   stop at any point. *)
FairSpec == Spec /\ WF_vars(ExpireStale) /\ \A c \in Tokens : WF_vars(Lapse(c))

-----------------------------------------------------------------------------
(* An opening that has won its claim: it is about to pay, or it has paid. *)
Paying(o) == pc[o] \in {"sending", "waiting", "failing", "confirmed"} \/ transfer[o] # "none"

(* However many taps arrive, one of them pays, and it pays the handle the
   sender named: the UPDATE in take is the lock, and no later write, not even
   the unconditional ones of _finish and mark_failed, opens it again. *)
PaysOnce ==
    \A o, p \in Openings :
        Paying(o) => /\ who[o] = addressee[link[o]]
                     /\ Paying(p) /\ link[p] = link[o] => p = o

(* "wins or loses cleanly, never both": a claim whose sender was told that it
   is cancelled, or that it expired and the funds never left, is never paid by
   an opening that had read the row before. *)
ReleasedIsNeverPaid ==
    \A o \in Openings : link[o] \in released => ~Paying(o)

(* The tx_hash kept for a claim is that of a transfer which succeeded and paid
   this very claim, whatever order the calls end in. *)
HashIsOfThePayment ==
    \A c \in Tokens : txHash[c] # None =>
        transfer[txHash[c]] = "ok" /\ link[txHash[c]] = c

(* "so a sender's committed intent doesn't hang over their wallet for ever":
   a pending claim is taken, cancelled or expired in the end. *)
NeverHangsForEver == \A c \in Tokens : Pending(c) ~> ~Pending(c)

(* What the lock rests on: whoever pays has moved the row out of 'pending', and
   nothing moves it back. *)
LockOK ==
    /\ \A o \in Openings : Paying(o) => status[link[o]] \notin {"none", "pending"}
    /\ \A c \in released : status[c] \notin {"none", "pending"}
    /\ \A o \in Openings : pc[o] \in {"taking", "expiring"} => status[link[o]] # "none"
    /\ \A o \in Openings : pc[o] = "taking" => who[o] = addressee[link[o]]
    /\ \A o \in Openings : pc[o] \in {"idle", "taking", "expiring", "sending"}
                               => transfer[o] = "none"
    /\ \A o \in Openings : pc[o] = "confirmed" => transfer[o] = "ok"

IInv == TypeOK /\ LockOK /\ PaysOnce /\ ReleasedIsNeverPaid /\ HashIsOfThePayment
=============================================================================
