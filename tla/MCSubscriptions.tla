--------------------------- MODULE MCSubscriptions ---------------------------
(***************************************************************************)
(* The instance of Subscriptions that TLC checks.                          *)
(***************************************************************************)
EXTENDS SubscriptionsProps

(* The taps' names serve as the wallets' names.  Of the taps, which are
   otherwise alike, one pays from the wallet of its name and opens the first
   row; the others pay from that wallet or from one of their own.  Only the
   first row may lack its block, and only its transfer be reverted.  The
   process crashes only when the wallets differ and the chain has room: a call
   that hangs, as any may, leaves the same rows behind. *)
FirstTap == CHOOSE t \in Taps : TRUE
FirstPayer ==
    /\ \A t \in Taps : arg[t].payer \in {t, FirstTap}
    /\ Exists(FirstTap) \/ \A t \in Taps : ~Exists(t)
    /\ \A t \in Taps \ {FirstTap} :
           transfer[t] # "reverted" /\ (Exists(t) => fromBlock[t] # 0)
    /\ crashes > 0 => head < MaxHead /\ \A t \in Taps : arg[t].payer = t
=============================================================================
