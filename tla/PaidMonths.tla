----------------------------- MODULE PaidMonths -----------------------------
(***************************************************************************)
(* What paying for a month promises, whoever settles it: a month is        *)
(* granted for a transfer that succeeded, and a transfer buys one month.   *)
(* This is the guarantee sql/schema.sql states over tg_topups ("the same   *)
(* transaction must never be credited twice - not by a retry, not by a     *)
(* restart") without any of the machinery that provides it.                *)
(***************************************************************************)
EXTENDS Naturals

CONSTANTS Transfers, Scopes

VARIABLES
    paid,     \* transfers that reached the treasury
    granted,  \* transfers that have bought their month
    months    \* months granted to each scope

vars == <<paid, granted, months>>

Init ==
    /\ paid = {}
    /\ granted = {}
    /\ months = [s \in Scopes |-> 0]

Confirm(h) ==
    /\ h \notin paid
    /\ paid' = paid \cup {h}
    /\ UNCHANGED <<granted, months>>

Grant(h, s) ==
    /\ h \in paid \ granted
    /\ granted' = granted \cup {h}
    /\ months' = [months EXCEPT ![s] = @ + 1]
    /\ UNCHANGED paid

Next == \E h \in Transfers : Confirm(h) \/ \E s \in Scopes : Grant(h, s)

Spec == Init /\ [][Next]_vars
=============================================================================
