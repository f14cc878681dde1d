--------------------------- MODULE MeteringProofs ---------------------------
(***************************************************************************)
(* Proofs about Metering: the books of every scope balance and its         *)
(* ceilings hold, for any allowances and any number of questions.          *)
(***************************************************************************)
EXTENDS Metering, TLAPS

(* The arithmetic helpers and the ceilings are natural numbers. *)
LEMMA HelperTypes ==
    /\ \A n \in Int : Positive(n) \in Nat
    /\ \A m, n \in Nat : Least(m, n) \in Nat
    /\ \A s \in Scopes : Ration(s) \in Nat /\ MonthCeiling(s) \in Nat
                         /\ FreeAllowance(s) \in Nat
                         /\ FreeAllowance(s) * FreeDays \in Nat
<1>1. \A s \in Scopes : FreeAllowance(s) \in Nat
    BY MeteringAssumption DEF MeteringAssumption, FreeAllowance
<1>2. \A s \in Scopes : FreeAllowance(s) * FreeDays \in Nat
    BY <1>1, MeteringAssumption DEF MeteringAssumption
<1>3. \A s \in Scopes : Ration(s) \in Nat /\ MonthCeiling(s) \in Nat
    BY <1>1, <1>2, MeteringAssumption DEF MeteringAssumption, Ration, MonthCeiling, Largest
<1>4. \A n \in Int : Positive(n) \in Nat
    BY DEF Positive
<1>5. \A m, n \in Nat : Least(m, n) \in Nat
    BY DEF Least
<1>. QED BY <1>1, <1>2, <1>3, <1>4, <1>5

(* Whatever allowance_for and month_allowance answer is within the ceilings. *)
LEMMA AllowancesWithinCeilings ==
    ASSUME TypeOK, NEW s \in Scopes
    PROVE  /\ Allowances(s) \in [daily : Nat, monthly : Nat]
           /\ Allowances(s).daily <= Ration(s)
           /\ Allowances(s).monthly <= MonthCeiling(s)
<1>1. FreeAllowance(s) \in Nat /\ FreeAllowance(s) * FreeDays \in Nat
    BY HelperTypes
<1>2. CASE live[s]
    BY <1>1, <1>2, MeteringAssumption
        DEF Allowances, Ration, MonthCeiling, Largest, MeteringAssumption
<1>3. CASE ~live[s]
    BY <1>1, <1>3, MeteringAssumption
        DEF Allowances, Ration, MonthCeiling, Largest, MeteringAssumption
<1>. QED BY <1>2, <1>3

(* The arithmetic of one more window; the only fact about products needed. *)
LEMMA OneMoreWindow ==
    ASSUME NEW a \in Nat, NEW w \in Nat
    PROVE  a * w \in Nat /\ a * (w + 1) = a * w + a
OBVIOUS

(* What the numbers of one scope satisfy.  A statement on tg_credits touches
   one scope, so the steps below are proved for a single scope at a time. *)
ScopeOK(s) ==
    /\ net[s] + paid[s] = freeUsed[s] + rolled[s] + granted[s]
    /\ freeUsed[s] <= Ration(s)
    /\ monthUsed[s] <= MonthCeiling(s)

RolledOK(s) == rolled[s] <= Ration(s) * windows[s]

SeenOK ==
    \A q \in Questions : seen[q].daily <= Ration(scope[q])
                         /\ seen[q].monthly <= MonthCeiling(scope[q])

(* The bound on questions follows from the books and the two ceilings. *)
LEMMA NetBound ==
    ASSUME TypeOK, NEW s \in Scopes, ScopeOK(s), RolledOK(s)
    PROVE  net[s] <= Ration(s) * (windows[s] + 1) + granted[s]
<1>. DEFINE product == Ration(s) * windows[s]
<1>1. Ration(s) \in Nat /\ windows[s] \in Nat
    BY HelperTypes DEF TypeOK
<1>2. product \in Nat /\ Ration(s) * (windows[s] + 1) = product + Ration(s)
    BY <1>1, OneMoreWindow
<1>3. rolled[s] <= product
    BY DEF RolledOK
<1>. HIDE DEF product
<1>4. net[s] <= product + Ration(s) + granted[s]
    BY <1>1, <1>2, <1>3 DEF ScopeOK, TypeOK
<1>. QED BY <1>2, <1>4

(* The inductive invariant, scope by scope. *)
LEMMA ByScope ==
    ASSUME TypeOK
    PROVE  IInv <=> SeenOK /\ \A s \in Scopes : ScopeOK(s) /\ RolledOK(s)
<1>1. IInv => SeenOK /\ \A s \in Scopes : ScopeOK(s) /\ RolledOK(s)
    BY DEF IInv, BooksBalance, CeilingsOK, RationHolds, ScopeOK, RolledOK, SeenOK
<1>2. ASSUME SeenOK, \A s \in Scopes : ScopeOK(s) /\ RolledOK(s)
      PROVE  IInv
    <2>1. \A s \in Scopes : net[s] <= Ration(s) * (windows[s] + 1) + granted[s]
        BY <1>2, NetBound
    <2>2. RationHolds
        BY <1>2, <2>1 DEF RationHolds, ScopeOK
    <2>3. BooksBalance /\ CeilingsOK
        BY <1>2 DEF BooksBalance, CeilingsOK, ScopeOK, RolledOK, SeenOK
    <2>. QED BY <2>2, <2>3 DEF IInv
<1>. QED BY <1>1, <1>2

(* The same of the next state. *)
LEMMA ByScopeNext ==
    ASSUME TypeOK', SeenOK', \A s \in Scopes : ScopeOK(s)' /\ RolledOK(s)'
    PROVE  IInv'
<1>1. (TypeOK => (IInv <=> SeenOK /\ \A s \in Scopes : ScopeOK(s) /\ RolledOK(s)))'
    BY ByScope, PTL
<1>. QED BY <1>1

(* balance(): rolling the window moves the ration used into the past. *)
LEMMA RefreshKeeps ==
    ASSUME TypeOK, TypeOK', NEW s \in Scopes, NEW r \in Scopes, ScopeOK(r), RolledOK(r),
           Refresh(s), net'[r] = net[r],
           paid'[r] - granted'[r] = paid[r] - granted[r]
    PROVE  ScopeOK(r)' /\ RolledOK(r)'
<1>1. /\ Ration(r) \in Nat /\ MonthCeiling(r) \in Nat
      /\ freeUsed[r] \in Nat /\ rolled[r] \in Nat /\ windows[r] \in Nat
      /\ net[r] \in Int /\ paid[r] \in Nat /\ granted[r] \in Nat /\ monthUsed[r] \in Nat
      /\ paid'[r] \in Nat /\ granted'[r] \in Nat
    BY HelperTypes DEF TypeOK
<1>2. monthUsed'[r] \in {0, monthUsed[r]}
    BY DEF Refresh, TypeOK
<1>3. CASE r = s /\ windowOld[s]
    <2>1. /\ freeUsed'[r] = 0 /\ rolled'[r] = rolled[r] + freeUsed[r]
          /\ windows'[r] = windows[r] + 1
        BY <1>3 DEF Refresh, TypeOK
    <2>2. ScopeOK(r)'
        BY <1>1, <1>2, <2>1 DEF ScopeOK
    <2>. DEFINE product == Ration(r) * windows[r]
    <2>3. product \in Nat /\ Ration(r) * windows'[r] = product + Ration(r)
        BY <1>1, <2>1, OneMoreWindow
    <2>4. rolled[r] <= product
        BY DEF RolledOK
    <2>. HIDE DEF product
    <2>5. rolled'[r] <= product + Ration(r)
        BY <1>1, <2>1, <2>3, <2>4 DEF ScopeOK
    <2>. QED BY <2>2, <2>3, <2>5 DEF RolledOK
<1>4. CASE ~(r = s /\ windowOld[s])
    <2>1. /\ freeUsed'[r] = freeUsed[r] /\ rolled'[r] = rolled[r]
          /\ windows'[r] = windows[r]
        BY <1>4 DEF Refresh, TypeOK
    <2>2. ScopeOK(r)'
        BY <1>1, <1>2, <2>1 DEF ScopeOK
    <2>. QED BY <2>1, <2>2 DEF RolledOK
<1>. QED BY <1>3, <1>4

(* spend(): what the guard admits stays within the allowances it was read
   with, and the ration and the granted credits together pay exactly one. *)
LEMMA ChargeKeeps ==
    ASSUME TypeOK, NEW s \in Scopes, NEW r \in Scopes, ScopeOK(r),
           NEW a \in [daily : Nat, monthly : Nat],
           a.daily <= Ration(s), a.monthly <= MonthCeiling(s),
           CanSpend(s, a), Charge(s, a), UNCHANGED <<rolled, granted>>
    PROVE  ScopeOK(r)' /\ paid'[r] \in Nat /\ freeUsed'[r] \in Nat
<1>1. /\ Ration(r) \in Nat /\ MonthCeiling(r) \in Nat
      /\ freeUsed[r] \in Nat /\ paid[r] \in Nat /\ net[r] \in Int
      /\ monthUsed[r] \in Nat /\ rolled[r] \in Nat /\ granted[r] \in Nat
      /\ a.daily \in Nat /\ a.monthly \in Nat
    BY HelperTypes DEF TypeOK
<1>2. CASE r # s
    <2>1. /\ freeUsed'[r] = freeUsed[r] /\ paid'[r] = paid[r] /\ net'[r] = net[r]
          /\ monthUsed'[r] = monthUsed[r]
        BY <1>2 DEF Charge, TypeOK
    <2>. QED BY <1>1, <2>1 DEF ScopeOK
<1>3. CASE r = s
    <2>1. /\ freeUsed'[r] = freeUsed[r] + Least(1, Positive(a.daily - freeUsed[r]))
          /\ paid'[r] = paid[r] - Positive(1 - Positive(a.daily - freeUsed[r]))
          /\ net'[r] = net[r] + 1 /\ monthUsed'[r] = monthUsed[r] + 1
          /\ Positive(a.daily - freeUsed[r]) + paid[r] >= 1
          /\ monthUsed[r] + 1 <= a.monthly
        BY <1>3 DEF Charge, CanSpend, FreeLeft, TypeOK
    <2>2. \/ /\ a.daily - freeUsed[r] > 0
             /\ freeUsed'[r] = freeUsed[r] + 1 /\ paid'[r] = paid[r]
          \/ /\ a.daily - freeUsed[r] <= 0
             /\ freeUsed'[r] = freeUsed[r] /\ paid'[r] = paid[r] - 1 /\ paid[r] >= 1
        BY <1>1, <2>1 DEF Least, Positive
    <2>3. paid'[r] \in Nat /\ freeUsed'[r] \in Nat
        BY <1>1, <2>2
    <2>4. freeUsed'[r] <= Ration(r) /\ monthUsed'[r] <= MonthCeiling(r)
        BY <1>1, <1>3, <2>1, <2>2 DEF ScopeOK
    <2>5. net'[r] + paid'[r] = freeUsed'[r] + rolled[r] + granted[r]
        BY <1>1, <2>1, <2>2 DEF ScopeOK
    <2>. QED BY <2>3, <2>4, <2>5 DEF ScopeOK
<1>. QED BY <1>2, <1>3

(* refund(): one credit comes back, to the ration or else to the granted
   ones, so the books balance even when the window has rolled since. *)
LEMMA GiveBackKeeps ==
    ASSUME TypeOK, NEW s \in Scopes, NEW r \in Scopes, ScopeOK(r),
           GiveBack(s), UNCHANGED <<rolled, granted>>
    PROVE  ScopeOK(r)'
<1>1. /\ Ration(r) \in Nat /\ MonthCeiling(r) \in Nat
      /\ freeUsed[r] \in Nat /\ paid[r] \in Nat /\ net[r] \in Int
      /\ monthUsed[r] \in Nat /\ rolled[r] \in Nat /\ granted[r] \in Nat
    BY HelperTypes DEF TypeOK
<1>2. CASE r # s
    <2>1. /\ freeUsed'[r] = freeUsed[r] /\ paid'[r] = paid[r] /\ net'[r] = net[r]
          /\ monthUsed'[r] = monthUsed[r]
        BY <1>2 DEF GiveBack, TypeOK
    <2>. QED BY <1>1, <2>1 DEF ScopeOK
<1>3. CASE r = s
    <2>1. /\ freeUsed'[r] = Positive(freeUsed[r] - 1)
          /\ paid'[r] = paid[r] + Positive(1 - freeUsed[r])
          /\ monthUsed'[r] = Positive(monthUsed[r] - 1)
          /\ net'[r] = net[r] - 1
        BY <1>3 DEF GiveBack, TypeOK
    <2>2. freeUsed'[r] <= Ration(r) /\ monthUsed'[r] <= MonthCeiling(r)
        BY <1>1, <2>1 DEF ScopeOK, Positive
    <2>3. net'[r] + paid'[r] = freeUsed'[r] + rolled[r] + granted[r]
        BY <1>1, <2>1 DEF ScopeOK, Positive
    <2>. QED BY <2>2, <2>3 DEF ScopeOK
<1>. QED BY <1>2, <1>3

(* The row after balance() is well-typed. *)
LEMMA RefreshType ==
    ASSUME TypeOK, NEW s \in Scopes, Refresh(s)
    PROVE  /\ exists' \in [Scopes -> BOOLEAN]
           /\ freeUsed' \in [Scopes -> Nat] /\ monthUsed' \in [Scopes -> Nat]
           /\ windowOld' \in [Scopes -> BOOLEAN] /\ monthOld' \in [Scopes -> BOOLEAN]
           /\ rolled' \in [Scopes -> Nat] /\ windows' \in [Scopes -> Nat]
BY DEF TypeOK, Refresh

(* The row after refund() is well-typed. *)
LEMMA GiveBackType ==
    ASSUME TypeOK, NEW s \in Scopes, GiveBack(s)
    PROVE  /\ freeUsed' \in [Scopes -> Nat] /\ paid' \in [Scopes -> Nat]
           /\ monthUsed' \in [Scopes -> Nat] /\ net' \in [Scopes -> Int]
BY DEF TypeOK, GiveBack, Positive

(* So is the row after a charge that the guard of spend() has admitted: this
   is where the guard is needed, paid would go negative without it. *)
LEMMA ChargeType ==
    ASSUME TypeOK, NEW s \in Scopes, NEW a \in [daily : Nat, monthly : Nat],
           CanSpend(s, a), Charge(s, a)
    PROVE  /\ freeUsed' \in [Scopes -> Nat] /\ paid' \in [Scopes -> Nat]
           /\ monthUsed' \in [Scopes -> Nat] /\ net' \in [Scopes -> Int]
<1>1. a.daily \in Nat /\ freeUsed[s] \in Nat /\ paid[s] \in Nat
    BY DEF TypeOK
<1>2. freeUsed[s] + Least(1, FreeLeft(s, a)) \in Nat
    BY <1>1 DEF Least, FreeLeft, Positive
<1>3. paid[s] - Positive(1 - FreeLeft(s, a)) \in Nat
    BY <1>1 DEF FreeLeft, Positive, CanSpend
<1>. QED BY <1>2, <1>3 DEF TypeOK, Charge

(* Each step of a turn keeps the types. *)
LEMMA AnswerType ==
    ASSUME TypeOK, NEW q \in Questions, Answer(q)
    PROVE  TypeOK'
<1>0. scope[q] \in Scopes /\ seen[q] \in [daily : Nat, monthly : Nat]
    BY DEF TypeOK
<1>1. CASE AskRefresh(q)
    <2>1. pc' \in [Questions -> Labels]
        BY <1>1 DEF TypeOK, AskRefresh, Goto, Labels
    <2>. QED BY <1>0, <1>1, <2>1, RefreshType DEF TypeOK, AskRefresh, procVars
<1>2. CASE AskAllowance(q)
    <2>1. Allowances(scope[q]) \in [daily : Nat, monthly : Nat]
        BY <1>0, AllowancesWithinCeilings
    <2>. QED BY <1>2, <2>1 DEF TypeOK, AskAllowance, Goto, Labels, rowVars, procVars, books
<1>3. CASE AskCharge(q)
    <2>1. NotRead \in [daily : Nat, monthly : Nat]
        BY DEF NotRead
    <2>2. pc' \in [Questions -> Labels] /\ seen' \in [Questions -> [daily : Nat, monthly : Nat]]
        BY <1>3, <2>1 DEF TypeOK, AskCharge, Goto, Labels
    <2>3. CASE CanSpend(scope[q], seen[q])
        <3>1. Charge(scope[q], seen[q])
            BY <1>3, <2>3 DEF AskCharge
        <3>2. /\ freeUsed' \in [Scopes -> Nat] /\ paid' \in [Scopes -> Nat]
              /\ monthUsed' \in [Scopes -> Nat] /\ net' \in [Scopes -> Int]
            BY <1>0, <2>3, <3>1, ChargeType
        <3>. QED BY <1>3, <2>2, <3>2 DEF TypeOK, AskCharge, procVars
    <2>4. CASE ~CanSpend(scope[q], seen[q])
        BY <1>3, <2>2, <2>4 DEF TypeOK, AskCharge, procVars
    <2>. QED BY <2>3, <2>4
<1>4. CASE Placeholder(q) \/ TellError(q) \/ Reply(q)
    BY <1>4 DEF TypeOK, Placeholder, TellError, Reply, Goto, Labels, rowVars, procVars, books
<1>5. CASE MarkWaiting(q) \/ DoneWaiting(q)
    BY <1>5 DEF TypeOK, MarkWaiting, DoneWaiting, Goto, Labels, rowVars, books
<1>6. CASE Stream(q) \/ Die(q)
    BY <1>6 DEF TypeOK, Stream, Die, Goto, Labels, rowVars, procVars, books
<1>7. CASE Refund(q)
    <2>1. pc' \in [Questions -> Labels]
        BY <1>7 DEF TypeOK, Refund, Goto, Labels
    <2>. QED BY <1>0, <1>7, <2>1, GiveBackType DEF TypeOK, Refund, procVars
<1>. QED BY <1>1, <1>2, <1>3, <1>4, <1>5, <1>6, <1>7 DEF Answer

LEMMA TypeInductive ==
    ASSUME TypeOK, [Next]_vars
    PROVE  TypeOK'
<1>1. CASE \E q \in Questions : Answer(q)
    BY <1>1, AnswerType
<1>2. ASSUME NEW s \in Scopes, Grant(s)
      PROVE  TypeOK'
    <2>1. paid' \in [Scopes -> Nat] /\ granted' \in [Scopes -> Nat]
        BY <1>2 DEF TypeOK, Grant
    <2>. QED BY <1>2, <2>1, RefreshType DEF TypeOK, Grant, turnVars, procVars
<1>3. ASSUME NEW s \in Scopes, WindowPasses(s) \/ MonthPasses(s) \/ Subscription(s)
      PROVE  TypeOK'
    BY <1>3 DEF TypeOK, WindowPasses, MonthPasses, Subscription,
                rowVars, turnVars, procVars, books
<1>4. CASE Crash
    <2>1. crashes' \in 0..MaxCrashes
        BY <1>4, MeteringAssumption DEF TypeOK, Crash, MeteringAssumption
    <2>. QED BY <1>4, <2>1 DEF TypeOK, Crash, Labels, rowVars, books
<1>5. CASE Boot
    BY <1>5 DEF TypeOK, Boot, Sweep, TellRestarted, StartPolling, SweepFails, rowVars, turnVars, books
<1>6. CASE UNCHANGED vars
    BY <1>6 DEF TypeOK, vars, rowVars, turnVars, procVars, books
<1>. QED BY <1>1, <1>2, <1>3, <1>4, <1>5, <1>6 DEF Next

(* A step that touches neither the row nor the books, nor what was read,
   keeps the invariant. *)
LEMMA Untouched ==
    ASSUME IInv, TypeOK', UNCHANGED <<freeUsed, paid, monthUsed, seen, scope, books>>
    PROVE  IInv'
BY DEF IInv, BooksBalance, CeilingsOK, RationHolds, books

(* Each step of a turn keeps the invariant. *)
LEMMA AnswerStep ==
    ASSUME IInv, TypeOK', NEW q \in Questions, Answer(q)
    PROVE  IInv'
<1>0. /\ TypeOK /\ scope[q] \in Scopes /\ seen[q] \in [daily : Nat, monthly : Nat]
      /\ seen[q].daily <= Ration(scope[q]) /\ seen[q].monthly <= MonthCeiling(scope[q])
    BY DEF IInv, TypeOK, CeilingsOK
<1>a. SeenOK /\ \A s \in Scopes : ScopeOK(s) /\ RolledOK(s)
    BY <1>0, ByScope
<1>b. SUFFICES SeenOK' /\ \A s \in Scopes : ScopeOK(s)' /\ RolledOK(s)'
    BY ByScopeNext
<1>1. CASE AskRefresh(q)
    <2>1. SeenOK'
        BY <1>1, <1>a DEF AskRefresh, SeenOK
    <2>2. ASSUME NEW r \in Scopes PROVE ScopeOK(r)' /\ RolledOK(r)'
        <3>1. net'[r] = net[r] /\ paid'[r] - granted'[r] = paid[r] - granted[r]
            BY <1>1 DEF AskRefresh
        <3>2. Refresh(scope[q])
            BY <1>1 DEF AskRefresh
        <3>. QED BY <1>0, <1>a, <3>1, <3>2, RefreshKeeps
    <2>. QED BY <2>1, <2>2
<1>2. CASE AskAllowance(q)
    <2>1. /\ Allowances(scope[q]).daily <= Ration(scope[q])
          /\ Allowances(scope[q]).monthly <= MonthCeiling(scope[q])
        BY <1>0, AllowancesWithinCeilings
    <2>2. SeenOK'
        BY <1>0, <1>2, <1>a, <2>1 DEF AskAllowance, SeenOK, TypeOK
    <2>3. ASSUME NEW r \in Scopes PROVE ScopeOK(r)' /\ RolledOK(r)'
        BY <1>2, <1>a DEF AskAllowance, ScopeOK, RolledOK, rowVars, books
    <2>. QED BY <2>2, <2>3
<1>3. CASE AskCharge(q)
    <2>1. \A s \in Scopes : Ration(s) \in Nat /\ MonthCeiling(s) \in Nat
        BY HelperTypes
    <2>2. SeenOK'
        BY <1>0, <1>3, <1>a, <2>1 DEF AskCharge, SeenOK, TypeOK, NotRead
    <2>3. ASSUME NEW r \in Scopes PROVE ScopeOK(r)' /\ RolledOK(r)'
        <3>1. RolledOK(r)'
            BY <1>3, <1>a DEF AskCharge, RolledOK
        <3>2. CASE CanSpend(scope[q], seen[q])
            <4>1. Charge(scope[q], seen[q]) /\ UNCHANGED <<rolled, granted>>
                BY <1>3, <3>2 DEF AskCharge
            <4>2. ScopeOK(r)'
                BY <1>0, <1>a, <3>2, <4>1, ChargeKeeps
            <4>. QED BY <3>1, <4>2
        <3>3. CASE ~CanSpend(scope[q], seen[q])
            BY <1>3, <1>a, <3>1, <3>3 DEF AskCharge, ScopeOK
        <3>. QED BY <3>2, <3>3
    <2>. QED BY <2>2, <2>3
<1>4. CASE Refund(q)
    <2>1. SeenOK'
        BY <1>4, <1>a DEF Refund, SeenOK
    <2>2. ASSUME NEW r \in Scopes PROVE ScopeOK(r)' /\ RolledOK(r)'
        <3>1. GiveBack(scope[q]) /\ UNCHANGED <<rolled, windows, granted>>
            BY <1>4 DEF Refund
        <3>2. ScopeOK(r)'
            BY <1>0, <1>a, <3>1, GiveBackKeeps
        <3>. QED BY <1>a, <3>1, <3>2 DEF RolledOK
    <2>. QED BY <2>1, <2>2
<1>5. CASE \/ Placeholder(q) \/ MarkWaiting(q) \/ Stream(q) \/ TellError(q)
           \/ DoneWaiting(q) \/ Reply(q) \/ Die(q)
    <2>1. UNCHANGED <<freeUsed, paid, monthUsed, seen, scope, books>>
        BY <1>5 DEF Placeholder, MarkWaiting, Stream, TellError, DoneWaiting, Reply, Die,
                    rowVars, books
    <2>. QED BY <1>a, <2>1 DEF SeenOK, ScopeOK, RolledOK, books
<1>. QED BY <1>1, <1>2, <1>3, <1>4, <1>5 DEF Answer

LEMMA Inductive ==
    ASSUME IInv, [Next]_vars
    PROVE  IInv'
<1>1. TypeOK'
    BY TypeInductive DEF IInv
<1>2. CASE \E q \in Questions : Answer(q)
    BY <1>1, <1>2, AnswerStep
<1>3. ASSUME NEW s \in Scopes, Grant(s)
      PROVE  IInv'
    <2>1. TypeOK /\ SeenOK /\ \A r \in Scopes : ScopeOK(r) /\ RolledOK(r)
        BY ByScope DEF IInv
    <2>2. SeenOK'
        BY <1>3, <2>1 DEF Grant, SeenOK, turnVars
    <2>3. ASSUME NEW r \in Scopes PROVE ScopeOK(r)' /\ RolledOK(r)'
        <3>1. Refresh(s) /\ net'[r] = net[r]
            BY <1>3 DEF Grant
        <3>2. paid'[r] - granted'[r] = paid[r] - granted[r]
            BY <1>3, <2>1 DEF Grant, TypeOK
        <3>. QED BY <1>1, <2>1, <3>1, <3>2, RefreshKeeps
    <2>. QED BY <1>1, <2>2, <2>3, ByScopeNext
<1>4. ASSUME NEW s \in Scopes, WindowPasses(s) \/ MonthPasses(s) \/ Subscription(s)
      PROVE  IInv'
    <2>1. UNCHANGED <<freeUsed, paid, monthUsed, seen, scope, books>>
        BY <1>4 DEF WindowPasses, MonthPasses, Subscription, rowVars, turnVars
    <2>. QED BY <1>1, <2>1, Untouched
<1>5. CASE Crash \/ Boot \/ UNCHANGED vars
    <2>1. UNCHANGED <<freeUsed, paid, monthUsed, seen, scope, books>>
        BY <1>5 DEF Crash, Boot, Sweep, TellRestarted, StartPolling, SweepFails, vars, rowVars, turnVars
    <2>. QED BY <1>1, <2>1, Untouched
<1>. QED BY <1>2, <1>3, <1>4, <1>5 DEF Next

(* The inductive invariant holds in every reachable state. *)
THEOREM MeterInvariance == Spec => []IInv
<1>1. ASSUME Init PROVE IInv
    <2>1. TypeOK
        BY <1>1, MeteringAssumption
            DEF Init, TypeOK, Zero, False, NotRead, Labels, MeteringAssumption
    <2>2. \A s \in Scopes : Ration(s) \in Nat /\ MonthCeiling(s) \in Nat
        BY HelperTypes
    <2>3. SeenOK
        BY <1>1, <2>1, <2>2 DEF Init, SeenOK, NotRead, TypeOK
    <2>4. \A s \in Scopes : ScopeOK(s)
        BY <1>1, <2>2 DEF Init, ScopeOK, Zero
    <2>5. ASSUME NEW s \in Scopes PROVE RolledOK(s)
        BY <1>1, <2>2, OneMoreWindow DEF Init, RolledOK, Zero
    <2>. QED BY <2>1, <2>3, <2>4, <2>5, ByScope
<1>2. IInv /\ [Next]_vars => IInv'
    BY Inductive
<1>. QED BY <1>1, <1>2, PTL DEF Spec

(* The variables keep their types; in particular no sequence of concurrent
   charges and refunds makes tg_credits.paid or free_used negative. *)
THEOREM MeterTypes == Spec => []TypeOK
<1>1. IInv => TypeOK
    BY DEF IInv
<1>. QED BY <1>1, MeterInvariance, PTL

(* Charges, refunds, grants and resets always account for each other. *)
THEOREM BooksAlwaysBalance == Spec => []BooksBalance
<1>1. IInv => BooksBalance
    BY DEF IInv
<1>. QED BY <1>1, MeterInvariance, PTL

(* The rations and the monthly ceiling hold, whatever allowance each question
   had read when it was charged. *)
THEOREM CeilingsHold == Spec => []RationHolds
<1>1. IInv => RationHolds
    BY DEF IInv
<1>. QED BY <1>1, MeterInvariance, PTL
=============================================================================
