---------------------------- MODULE ClaimsProofs ----------------------------
(***************************************************************************)
(* Proofs about Claims: for any number of claims and taps, one tap pays,   *)
(* and none pays once the sender has been told that the money stays.       *)
(***************************************************************************)
EXTENDS Claims, TLAPS

(* Each step of handle_claim keeps the types. *)
LEMMA HandleType ==
    ASSUME TypeOK, NEW o \in Openings, HandleClaim(o)
    PROVE  TypeOK'
<1>1. CASE TakeRead(o)
    BY <1>1 DEF TypeOK, TakeRead, Goto, Refuse, Closed, Answers, rowVars
<1>2. CASE TakeExpired(o)
    BY <1>2 DEF TypeOK, TakeExpired, Goto, Refuse, Answers
<1>3. CASE Take(o)
    BY <1>3 DEF TypeOK, Take, Goto, Refuse, Answers
<1>4. CASE Send(o) \/ SendFails(o)
    BY <1>4 DEF TypeOK, Send, SendFails, Goto, rowVars
<1>5. CASE Confirmed(o) \/ NotConfirmed(o) \/ Die(o)
    BY <1>5 DEF TypeOK, Confirmed, NotConfirmed, Die, Goto, rowVars
<1>6. CASE MarkFailed(o) \/ RecordSent(o)
    BY <1>6 DEF TypeOK, MarkFailed, RecordSent, Goto
<1>. QED BY <1>1, <1>2, <1>3, <1>4, <1>5, <1>6 DEF HandleClaim

LEMMA TypeInductive ==
    ASSUME TypeOK, [Next]_vars
    PROVE  TypeOK'
<1>1. CASE \E c \in Tokens : Create(c) \/ Cancel(c) \/ Lapse(c)
    BY <1>1 DEF TypeOK, Create, Cancel, Lapse, callVars
<1>2. CASE ExpireStale
    BY <1>2 DEF TypeOK, ExpireStale, Stale, callVars
<1>3. CASE \E o \in Openings : HandleClaim(o)
    BY <1>3, HandleType
<1>4. CASE \E o \in Openings, outcome \in {"ok", "reverted"} : Mine(o, outcome)
    BY <1>4 DEF TypeOK, Mine, rowVars, callVars
<1>5. CASE UNCHANGED vars
    BY <1>5 DEF TypeOK, vars, rowVars, callVars
<1>. QED BY <1>1, <1>2, <1>3, <1>4, <1>5 DEF Next

(* The steps of the sender and of the watcher touch only rows that are not yet
   anybody's to pay. *)
LEMMA RowsStep ==
    ASSUME IInv, TypeOK',
           (\E c \in Tokens : Create(c) \/ Cancel(c) \/ Lapse(c)) \/ ExpireStale
    PROVE  IInv'
<1>1. CASE \E c \in Tokens : Create(c)
    BY <1>1 DEF IInv, TypeOK, LockOK, PaysOnce, ReleasedIsNeverPaid, HashIsOfThePayment,
                Paying, Create, callVars
<1>2. CASE \E c \in Tokens : Cancel(c)
    BY <1>2 DEF IInv, TypeOK, LockOK, PaysOnce, ReleasedIsNeverPaid, HashIsOfThePayment,
                Paying, Cancel, Pending, callVars
<1>3. CASE \E c \in Tokens : Lapse(c)
    BY <1>3 DEF IInv, TypeOK, LockOK, PaysOnce, ReleasedIsNeverPaid, HashIsOfThePayment,
                Paying, Lapse, callVars
<1>4. CASE ExpireStale
    BY <1>4 DEF IInv, TypeOK, LockOK, PaysOnce, ReleasedIsNeverPaid, HashIsOfThePayment,
                Paying, ExpireStale, Stale, Pending, callVars
<1>. QED BY <1>1, <1>2, <1>3, <1>4

(* The steps of a tap: only Take can make a new payer, and it does so on a
   pending row, which by LockOK has neither a payer nor a released sender. *)
LEMMA HandleStep ==
    ASSUME IInv, TypeOK', ClaimsAssumption, NEW o \in Openings, HandleClaim(o)
    PROVE  IInv'
<1>1. CASE TakeRead(o)
    BY <1>1 DEF IInv, TypeOK, LockOK, PaysOnce, ReleasedIsNeverPaid, HashIsOfThePayment,
                Paying, TakeRead, Goto, Refuse, Pending, rowVars
<1>2. CASE TakeExpired(o)
    BY <1>2 DEF IInv, TypeOK, LockOK, PaysOnce, ReleasedIsNeverPaid, HashIsOfThePayment,
                Paying, TakeExpired, Goto, Refuse
<1>3. CASE Take(o)
    <2>1. CASE ~Pending(link[o])
        BY <1>3, <2>1 DEF IInv, TypeOK, LockOK, PaysOnce, ReleasedIsNeverPaid,
                HashIsOfThePayment, Paying, Take, Goto, Refuse
    <2>2. CASE Pending(link[o])
        BY <1>3, <2>2 DEF IInv, TypeOK, LockOK, PaysOnce, ReleasedIsNeverPaid,
                HashIsOfThePayment, Paying, Take, Goto, Pending
    <2>. QED BY <2>1, <2>2
<1>4. CASE Send(o)
    BY <1>4 DEF IInv, TypeOK, LockOK, PaysOnce, ReleasedIsNeverPaid, HashIsOfThePayment,
                Paying, Send, Goto, rowVars, ClaimsAssumption
<1>5. CASE SendFails(o)
    BY <1>5 DEF IInv, TypeOK, LockOK, PaysOnce, ReleasedIsNeverPaid, HashIsOfThePayment,
                Paying, SendFails, Goto, rowVars
<1>6. CASE Confirmed(o) \/ NotConfirmed(o)
    BY <1>6 DEF IInv, TypeOK, LockOK, PaysOnce, ReleasedIsNeverPaid, HashIsOfThePayment,
                Paying, Confirmed, NotConfirmed, Goto, rowVars
<1>7. CASE MarkFailed(o)
    BY <1>7 DEF IInv, TypeOK, LockOK, PaysOnce, ReleasedIsNeverPaid, HashIsOfThePayment,
                Paying, MarkFailed, Goto
<1>8. CASE RecordSent(o)
    BY <1>8 DEF IInv, TypeOK, LockOK, PaysOnce, ReleasedIsNeverPaid, HashIsOfThePayment,
                Paying, RecordSent, Goto
<1>9. CASE Die(o)
    BY <1>9 DEF IInv, TypeOK, LockOK, PaysOnce, ReleasedIsNeverPaid, HashIsOfThePayment,
                Paying, Die, Goto, rowVars
<1>. QED BY <1>1, <1>2, <1>3, <1>4, <1>5, <1>6, <1>7, <1>8, <1>9 DEF HandleClaim

LEMMA Inductive ==
    ASSUME IInv, [Next]_vars
    PROVE  IInv'
<1>1. TypeOK'
    BY TypeInductive DEF IInv
<1>2. CASE (\E c \in Tokens : Create(c) \/ Cancel(c) \/ Lapse(c)) \/ ExpireStale
    BY <1>1, <1>2, RowsStep
<1>3. CASE \E o \in Openings : HandleClaim(o)
    BY <1>1, <1>3, HandleStep, ClaimsAssumption
<1>4. CASE \E o \in Openings, outcome \in {"ok", "reverted"} : Mine(o, outcome)
    BY <1>1, <1>4, ClaimsAssumption
        DEF IInv, TypeOK, LockOK, PaysOnce, ReleasedIsNeverPaid, HashIsOfThePayment,
            Paying, Mine, rowVars, callVars, ClaimsAssumption
<1>5. CASE UNCHANGED vars
    BY <1>1, <1>5 DEF IInv, TypeOK, LockOK, PaysOnce, ReleasedIsNeverPaid,
        HashIsOfThePayment, Paying, vars, rowVars, callVars
<1>. QED BY <1>2, <1>3, <1>4, <1>5 DEF Next

(* Every state of tg_claims and of the openings satisfies the inductive
   invariant: the lock holds under every interleaving of taps, cancellation,
   expiry and crashes. *)
THEOREM ClaimInvariance == Spec => []IInv
<1>1. Init => IInv
    BY DEF Init, IInv, TypeOK, LockOK, PaysOnce, ReleasedIsNeverPaid, HashIsOfThePayment,
           Paying, Answers
<1>2. IInv /\ [Next]_vars => IInv'
    BY Inductive
<1>. QED BY <1>1, <1>2, PTL DEF Spec

(* A claim is paid at most once and only to its handle: take's UPDATE admits
   one opening, whatever _finish and mark_failed write afterwards. *)
THEOREM NeverPaidTwice == Spec => []PaysOnce
<1>1. IInv => PaysOnce
    BY DEF IInv
<1>. QED BY <1>1, ClaimInvariance, PTL

(* cancel and expire_stale exclude a payment, before and after. *)
THEOREM ReleasedForGood == Spec => []ReleasedIsNeverPaid
<1>1. IInv => ReleasedIsNeverPaid
    BY DEF IInv
<1>. QED BY <1>1, ClaimInvariance, PTL

(* record_sent files the hash of the transfer that paid this claim. *)
THEOREM HashIsRight == Spec => []HashIsOfThePayment
<1>1. IInv => HashIsOfThePayment
    BY DEF IInv
<1>. QED BY <1>1, ClaimInvariance, PTL

(* Rows, locks and openings keep their types. *)
THEOREM ClaimTypes == Spec => []TypeOK
<1>1. IInv => TypeOK
    BY DEF IInv
<1>. QED BY <1>1, ClaimInvariance, PTL
=============================================================================
