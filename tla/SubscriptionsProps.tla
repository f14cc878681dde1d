------------------------- MODULE SubscriptionsProps -------------------------
(***************************************************************************)
(* What makes Subscriptions correct.                                       *)
(***************************************************************************)
EXTENDS Subscriptions

(* Who is between closing a row as credited and calling extend for it. *)
PayExtending(h) == pc[h] = "extending"
RecExtending(h) == at = "extend" /\ hash = h

(* A transfer buys at most one month, and only once it has succeeded, however
   pay(), a retry, the reconciler and a restart race for it: granted months
   and months about to be granted add up to at most one per transfer. *)
OneMonthPerTransfer ==
    \A h \in Taps :
        /\ grants[h] <= 1
        /\ grants[h] = 1 => transfer[h] = "ok" /\ ~PayExtending(h) /\ ~RecExtending(h)
        /\ PayExtending(h) \/ RecExtending(h) => transfer[h] = "ok"
        /\ ~(PayExtending(h) /\ RecExtending(h))

(* The detailed specification implements the promise. *)
Promise == INSTANCE PaidMonths WITH
    Transfers <- Taps,
    paid <- {h \in Taps : transfer[h] = "ok"},
    granted <- {h \in Taps : grants[h] # 0}

(* pay() and settle_pending() together implement PaidMonths: no interleaving
   grants a month that a fresh, successful transfer does not account for. *)
ImplementsPromise == Promise!Spec

(* A credited row is final: _attach_hash writes 'pending' into whatever row
   has the key, whatever its status, but never into a credited one. *)
CreditedIsFinal ==
    [][\A r \in Taps : status[r] = "credited" =>
            status'[r] = "credited" /\ key'[r] = key[r]]_vars

(* The money is never out without a row to find it by: the row exists before
   the broadcast, and it is never left waiting on a hash nobody broadcast. *)
EveryTransferIsRecorded ==
    \A t \in Taps :
        /\ transfer[t] # "none" => Exists(t)
        /\ Exists(t) /\ key[t] # None => transfer[key[t]] # "none"

(* A row that was closed as failed comes back to life only for a transfer
   that really was broadcast from the same wallet for the same amount. *)
RevivedOnlyForATransfer ==
    [][\A r \in Taps : (status[r] = "failed" /\ status'[r] # "failed") =>
          /\ key'[r] # None
          /\ transfer[key'[r]] # "none"
          /\ arg[key'[r]].payer = arg[r].payer
          /\ arg[key'[r]].amount = arg[r].amount]_vars

-----------------------------------------------------------------------------
(* The inductive invariant behind the safety properties, part by part. *)

(* Where settle_pending() is, it has the row and the transfer it needs. *)
CursorOK ==
    /\ at # "loop" => cur \in Taps
    /\ at \in {"attach", "settle", "extend"} => hash \in Taps

(* tx_hash is the primary key, and a row is keyed by a hash exactly when it
   has left 'sending' by being attached. *)
KeysOK ==
    /\ \A r, q \in Taps : key[r] # None /\ key[r] = key[q] => r = q
    /\ \A r \in Taps : status[r] \in {"none", "sending"} => key[r] = None
    /\ \A r \in Taps : status[r] \in {"pending", "credited"} => key[r] # None

(* Whatever is used as a hash was broadcast, and before that its row was
   written. *)
HashesOK ==
    /\ \A t \in Taps : pc[t] \in {"idle", "checked", "built"} => status[t] = "none"
    /\ \A t \in Taps : pc[t] \in {"opened", "rejected", "sent", "waiting", "extending"}
                           => status[t] # "none"
    /\ \A t \in Taps : pc[t] \in {"sent", "waiting", "extending"} => transfer[t] # "none"
    /\ \A t \in Taps : pc[t] = "opened" => transfer[t] = "none"
    /\ \A t \in Taps : transfer[t] # "none" => status[t] # "none"
    /\ \A r \in Taps : key[r] # None => transfer[key[r]] # "none"
    /\ \A f \in todo : f.hash # None => transfer[f.hash] # "none"
    /\ at # "loop" => status[cur] # "none"
    /\ \A f \in todo : status[f.row] # "none"
    /\ hash # None => transfer[hash] # "none"
    /\ at = "attach" => arg[hash].payer = arg[cur].payer /\ arg[hash].amount = arg[cur].amount

(* A row is credited only under a transfer that succeeded, and whoever grants
   or has granted a month for a transfer has a credited row to show for it. *)
CreditsOK ==
    /\ \A r \in Taps : status[r] = "credited" => transfer[key[r]] = "ok"
    /\ \A h \in Taps : grants[h] # 0 \/ PayExtending(h) \/ RecExtending(h) =>
           \E r \in Taps : key[r] = h /\ status[r] = "credited"

IInv == TypeOK /\ CursorOK /\ KeysOK /\ HashesOK /\ CreditsOK /\ OneMonthPerTransfer

-----------------------------------------------------------------------------
(* No two taps pay the same amount from the same wallet, so the search cannot
   take one payment for another. *)
NoTwins ==
    \A t, u \in Taps : (arg[t].payer = arg[u].payer /\ arg[t].amount = arg[u].amount) => t = u

(* The LIMIT of the query never reaches the row: as many older rows are due. *)
Crowded(r) == Cardinality({q \in Taps : Due(q) /\ serial[q] < serial[r]}) >= Batch

(* settle_pending() is about to give up t's row without having seen the blocks
   its transfer may be in: the search failed, or the window of
   _MAX_SCAN_BLOCKS has moved past it. *)
GivenUpBlind(t) ==
    /\ cur = t /\ age[t] >= GiveUpAge
    /\ at = "unsearched" \/ (at = "giveup" /\ block[t] < head - MaxScanBlocks)

(* A payment that was mined while its row is open is found and credited, even
   if the process died before the hash was recorded.  The exceptions are the
   code's: the row is about to be closed, by pay() whose node's answer was
   lost or by _give_up_if_stale after a search made too early; the row lost
   its hash and its block could not be read, for which "a missing block only
   widens the later search" is not what the search does; the row is given up
   blind; and older rows, open for ever, keep it out of the batch. *)
LostPaymentIsCredited ==
    \A t \in Taps :
        [](/\ NoTwins /\ transfer[t] = "ok" /\ Open(t)
           /\ pc[t] # "rejected"
           /\ ~(at \in {"giveup", "unsearched"} /\ cur = t)
           /\ fromBlock[t] # 0 \/ key[t] = t
           => <>(status[t] = "credited") \/ <>GivenUpBlind(t) \/ <>[]Crowded(t))

(* A row whose call ended before the broadcast is given up in the end, so the
   reconciler does not look for it for ever, unless it never gets to it. *)
UnsentIsGivenUp ==
    \A t \in Taps :
        [](NoTwins /\ Open(t) /\ transfer[t] = "none" /\ pc[t] = "done"
           => <>(status[t] = "failed") \/ <>[]Crowded(t))

-----------------------------------------------------------------------------
(* What the source says of the code, and the code does not do. *)

(* pay(): a sign-up "never takes the money and leaves the person without" a
   month.  A row credited for a successful transfer has its month, or somebody
   is about to grant it. *)
CreditedMeansGranted ==
    \A r \in Taps : status[r] = "credited" =>
        \/ grants[key[r]] = 1
        \/ PayExtending(key[r]) \/ RecExtending(key[r])
=============================================================================
