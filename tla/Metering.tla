------------------------------ MODULE Metering ------------------------------
(***************************************************************************)
(* Asking the assistant a question: the credits it costs                   *)
(* (oprai-tg-bot/app/services/credits.py) and the turn that spends them    *)
(* (app/handlers/chat.py: _answer, _mark_waiting, _done_waiting,           *)
(* close_orphaned_turns).                                                  *)
(*                                                                         *)
(* A question charges its scope before the model is asked, and a failed    *)
(* one is refunded: balance(), the reading of the allowance, the charge    *)
(* and the refund are separate statements, and questions of one scope      *)
(* interleave between them.  tg_inflight remembers who is waiting across a *)
(* restart.  tg_credits starts without rows.                               *)
(*                                                                         *)
(* Left out: tg_credit_ledger (written, never read), the ticker and the    *)
(* partial answers it shows, actions the model proposes, and clocks: a     *)
(* window or a month is old or it is not, and may become old at any time.  *)
(***************************************************************************)
EXTENDS Integers, FiniteSets

CONSTANTS
    Scopes,       \* private chats and groups
    Groups,       \* the groups among them (is_group)
    Questions,    \* the calls of _answer
    FreeUser,     \* OPRAI_TG_FREE_USER_CREDITS (10)
    FreeGroup,    \* OPRAI_TG_FREE_GROUP_CREDITS (25)
    SubDaily,     \* OPRAI_TG_SUB_DAILY_CREDITS (200)
    SubMonthly,   \* OPRAI_TG_SUB_MONTHLY_CREDITS (1000)
    FreeDays,     \* free windows a free month is worth (31)
    Gone,         \* questions whose chat cannot be reached after a restart
    Flaky,        \* whether a statement on tg_inflight may fail
    MaxGrants,    \* bound: credits granted in a behaviour
    MaxCrashes    \* bound: process crashes in a behaviour

ASSUME MeteringAssumption ==
    /\ Groups \subseteq Scopes /\ Gone \subseteq Questions
    /\ FreeUser \in Nat /\ FreeGroup \in Nat /\ SubDaily \in Nat
    /\ SubMonthly \in Nat /\ FreeDays \in Nat
    /\ Flaky \in BOOLEAN /\ MaxGrants \in Nat /\ MaxCrashes \in Nat

VARIABLES
    exists,     \* the scope has a row in tg_credits
    freeUsed,   \* tg_credits.free_used
    paid,       \* tg_credits.paid
    monthUsed,  \* tg_credits.month_used
    windowOld,  \* window_start < now() - window
    monthOld,   \* month_start < now() - 30 days
    live,       \* subscriptions.is_live
    scope,      \* where a question is asked
    pc,         \* where its turn is
    seen,       \* the allowances spend() has read
    screen,     \* what the placeholder message shows
    inflight,   \* tg_inflight
    up,         \* the bot is polling for messages
    orphans,    \* rows close_orphaned_turns has deleted and not yet told
    net,        \* per scope, questions charged less refunds (history)
    rolled,     \* per scope, ration used in earlier windows (history)
    windows,    \* per scope, how often the window was reset (history)
    granted,    \* per scope, credits given by grant() (history)
    crashes     \* number of crashes so far

rowVars == <<exists, freeUsed, paid, monthUsed, windowOld, monthOld>>
turnVars == <<scope, pc, seen, screen>>
procVars == <<inflight, up, orphans, crashes>>
books == <<net, rolled, windows, granted>>
vars == <<rowVars, live, turnVars, procVars, books>>

Labels == {"idle", "fresh", "priced", "charged", "shown", "asking", "failing",
           "refunded", "answered", "replying", "done"}

TypeOK ==
    /\ exists \in [Scopes -> BOOLEAN]
    /\ freeUsed \in [Scopes -> Nat]
    /\ paid \in [Scopes -> Nat]
    /\ monthUsed \in [Scopes -> Nat]
    /\ windowOld \in [Scopes -> BOOLEAN]
    /\ monthOld \in [Scopes -> BOOLEAN]
    /\ live \in [Scopes -> BOOLEAN]
    /\ scope \in [Questions -> Scopes]
    /\ pc \in [Questions -> Labels]
    /\ seen \in [Questions -> [daily : Nat, monthly : Nat]]
    /\ screen \in [Questions -> {"none", "thinking", "answer", "error", "restarted"}]
    /\ inflight \in SUBSET Questions
    /\ up \in BOOLEAN
    /\ orphans \in SUBSET Questions
    /\ crashes \in 0..MaxCrashes
    /\ net \in [Scopes -> Int]
    /\ rolled \in [Scopes -> Nat]
    /\ windows \in [Scopes -> Nat]
    /\ granted \in [Scopes -> Nat]

Zero == [s \in Scopes |-> 0]
False == [s \in Scopes |-> FALSE]
NotRead == [daily |-> 0, monthly |-> 0]

Init ==
    /\ exists = False /\ freeUsed = Zero /\ paid = Zero /\ monthUsed = Zero
    /\ windowOld = False /\ monthOld = False
    /\ live \in [Scopes -> BOOLEAN]
    /\ scope \in [Questions -> Scopes]
    /\ pc = [q \in Questions |-> "idle"]
    /\ seen = [q \in Questions |-> NotRead]
    /\ screen = [q \in Questions |-> "none"]
    /\ inflight = {} /\ orphans = {} /\ up = TRUE /\ crashes = 0
    /\ net = Zero /\ rolled = Zero /\ windows = Zero /\ granted = Zero

-----------------------------------------------------------------------------
(* credits.py *)

Positive(n) == IF n > 0 THEN n ELSE 0
Least(m, n) == IF m < n THEN m ELSE n

FreeAllowance(s) == IF s \in Groups THEN FreeGroup ELSE FreeUser

(* allowance_for and month_allowance, by whether the subscription is live *)
Allowances(s) ==
    IF live[s] THEN [daily |-> SubDaily, monthly |-> SubMonthly]
               ELSE [daily |-> FreeAllowance(s), monthly |-> FreeAllowance(s) * FreeDays]

(* The upsert of balance(): a row that is there rolls its window and month. *)
Refresh(s) ==
    /\ exists' = [exists EXCEPT ![s] = TRUE]
    /\ freeUsed' = [freeUsed EXCEPT ![s] = IF windowOld[s] THEN 0 ELSE @]
    /\ monthUsed' = [monthUsed EXCEPT ![s] = IF monthOld[s] THEN 0 ELSE @]
    /\ windowOld' = [windowOld EXCEPT ![s] = FALSE]
    /\ monthOld' = [monthOld EXCEPT ![s] = FALSE]
    /\ rolled' = [rolled EXCEPT ![s] = IF windowOld[s] THEN @ + freeUsed[s] ELSE @]
    /\ windows' = [windows EXCEPT ![s] = IF windowOld[s] THEN @ + 1 ELSE @]

(* Slip: one question too many. *)
FreeLeftInclusive(s, a) == Positive(a.daily + 1 - freeUsed[s])

(* The UPDATE of spend() for one credit: what the row must hold, and what is
   taken, the ration first. *)
FreeLeft(s, a) == Positive(a.daily - freeUsed[s])

(* Slip: only the month is looked at. *)
CanSpendMonthOnly(s, a) == monthUsed[s] + 1 <= a.monthly

CanSpend(s, a) == FreeLeft(s, a) + paid[s] >= 1 /\ monthUsed[s] + 1 <= a.monthly

Charge(s, a) ==
    /\ freeUsed' = [freeUsed EXCEPT ![s] = @ + Least(1, FreeLeft(s, a))]
    /\ paid' = [paid EXCEPT ![s] = @ - Positive(1 - FreeLeft(s, a))]
    /\ monthUsed' = [monthUsed EXCEPT ![s] = @ + 1]
    /\ net' = [net EXCEPT ![s] = @ + 1]

(* Slip: the credit goes back to the ration and to the purse. *)
GiveBackTwice(s) ==
    /\ freeUsed' = [freeUsed EXCEPT ![s] = Positive(@ - 1)]
    /\ paid' = [paid EXCEPT ![s] = @ + 1]
    /\ monthUsed' = [monthUsed EXCEPT ![s] = Positive(@ - 1)]
    /\ net' = [net EXCEPT ![s] = @ - 1]

(* refund() of one credit *)
GiveBack(s) ==
    /\ freeUsed' = [freeUsed EXCEPT ![s] = Positive(@ - 1)]
    /\ paid' = [paid EXCEPT ![s] = @ + Positive(1 - freeUsed[s])]
    /\ monthUsed' = [monthUsed EXCEPT ![s] = Positive(@ - 1)]
    /\ net' = [net EXCEPT ![s] = @ - 1]

(* grant(): its two statements, of which the second adds whatever is there. *)
Grant(s) ==
    /\ up /\ granted[s] < MaxGrants
    /\ Refresh(s)
    /\ paid' = [paid EXCEPT ![s] = @ + 1]
    /\ granted' = [granted EXCEPT ![s] = @ + 1]
    /\ UNCHANGED <<live, turnVars, procVars, net>>

-----------------------------------------------------------------------------
(* A turn: _answer() *)

Goto(q, label) == pc' = [pc EXCEPT ![q] = label]

(* spend(): the row is made or rolled ... *)
AskRefresh(q) ==
    /\ pc[q] = "idle" /\ up
    /\ Refresh(scope[q])
    /\ Goto(q, "fresh")
    /\ UNCHANGED <<paid, live, scope, seen, screen, procVars, net, granted>>

(* ... the allowance is read ... *)
AskAllowance(q) ==
    /\ pc[q] = "fresh"
    /\ seen' = [seen EXCEPT ![q] = Allowances(scope[q])]
    /\ Goto(q, "priced")
    /\ UNCHANGED <<rowVars, live, scope, screen, procVars, books>>

(* ... and the row is charged, or the person is out of credits. *)
AskCharge(q) ==
    /\ pc[q] = "priced"
    /\ seen' = [seen EXCEPT ![q] = NotRead]
    /\ IF CanSpend(scope[q], seen[q])
          THEN Charge(scope[q], seen[q]) /\ Goto(q, "charged")
          ELSE UNCHANGED <<freeUsed, paid, monthUsed, net>> /\ Goto(q, "done")
    /\ UNCHANGED <<exists, windowOld, monthOld, live, scope, screen, procVars,
                   rolled, windows, granted>>

Placeholder(q) ==
    /\ pc[q] = "charged"
    /\ screen' = [screen EXCEPT ![q] = "thinking"]
    /\ Goto(q, "shown")
    /\ UNCHANGED <<rowVars, live, scope, seen, procVars, books>>

(* _mark_waiting; its failure is swallowed. *)
MarkWaiting(q) ==
    /\ pc[q] = "shown"
    /\ inflight' = inflight \cup {q} \/ (Flaky /\ inflight' = inflight)
    /\ Goto(q, "asking")
    /\ UNCHANGED <<rowVars, live, scope, seen, screen, up, orphans, crashes, books>>

(* chat_svc.stream: an answer, or a ChatError or AuthError. *)
Stream(q) ==
    /\ pc[q] = "asking"
    /\ Goto(q, "answered") \/ Goto(q, "failing")
    /\ UNCHANGED <<rowVars, live, scope, seen, screen, procVars, books>>

Refund(q) ==
    /\ pc[q] = "failing"
    /\ GiveBack(scope[q])
    /\ Goto(q, "refunded")
    /\ UNCHANGED <<exists, windowOld, monthOld, live, scope, seen, screen, procVars,
                   rolled, windows, granted>>

(* The placeholder turns into the error; tg_inflight keeps the row. *)
TellError(q) ==
    /\ pc[q] = "refunded"
    /\ screen' = [screen EXCEPT ![q] = "error"]
    /\ Goto(q, "done")
    /\ UNCHANGED <<rowVars, live, scope, seen, procVars, books>>

(* _done_waiting; its failure is swallowed. *)
DoneWaiting(q) ==
    /\ pc[q] = "answered"
    /\ inflight' = inflight \ {q} \/ (Flaky /\ inflight' = inflight)
    /\ Goto(q, "replying")
    /\ UNCHANGED <<rowVars, live, scope, seen, screen, up, orphans, crashes, books>>

Reply(q) ==
    /\ pc[q] = "replying"
    /\ screen' = [screen EXCEPT ![q] = "answer"]
    /\ Goto(q, "done")
    /\ UNCHANGED <<rowVars, live, scope, seen, procVars, books>>

(* An exception _answer does not catch: the database or Telegram. *)
Die(q) ==
    /\ pc[q] \notin {"idle", "done"}
    /\ Goto(q, "done")
    /\ UNCHANGED <<rowVars, live, scope, seen, screen, procVars, books>>

Answer(q) ==
    \/ AskRefresh(q) \/ AskAllowance(q) \/ AskCharge(q) \/ Placeholder(q)
    \/ MarkWaiting(q) \/ Stream(q) \/ Refund(q) \/ TellError(q)
    \/ DoneWaiting(q) \/ Reply(q) \/ Die(q)

-----------------------------------------------------------------------------
(* The process and its environment *)

Crash ==
    /\ crashes < MaxCrashes
    /\ crashes' = crashes + 1
    /\ pc' = [q \in Questions |-> IF pc[q] = "idle" THEN "idle" ELSE "done"]
    /\ up' = FALSE /\ orphans' = {}
    /\ UNCHANGED <<rowVars, live, scope, seen, screen, inflight, books>>

(* Slip: the DELETE does not return what it deleted. *)
SweepSilently ==
    /\ ~up /\ inflight # {}
    /\ orphans' = {}
    /\ inflight' = {}
    /\ UNCHANGED <<rowVars, live, turnVars, up, crashes, books>>

(* main() before it polls: close_orphaned_turns deletes every row at once ... *)
Sweep ==
    /\ ~up /\ inflight # {}
    /\ orphans' = inflight
    /\ inflight' = {}
    /\ UNCHANGED <<rowVars, live, turnVars, up, crashes, books>>

(* ... then rewrites the messages one by one, those it can ... *)
TellRestarted(q) ==
    /\ ~up /\ inflight = {} /\ q \in orphans
    /\ screen' = [screen EXCEPT ![q] = IF q \in Gone THEN @ ELSE "restarted"]
    /\ orphans' = orphans \ {q}
    /\ UNCHANGED <<rowVars, live, scope, pc, seen, inflight, up, crashes, books>>

(* ... and only then are new messages taken. *)
StartPolling ==
    /\ ~up /\ inflight = {} /\ orphans = {}
    /\ up' = TRUE
    /\ UNCHANGED <<rowVars, live, turnVars, inflight, orphans, crashes, books>>

(* The DELETE failed, which is logged: polling starts with the rows left and
   nobody told. *)
SweepFails ==
    /\ ~up /\ inflight # {} /\ orphans = {} /\ Flaky
    /\ up' = TRUE
    /\ UNCHANGED <<rowVars, live, turnVars, inflight, orphans, crashes, books>>

Boot == Sweep \/ SweepFails \/ (\E q \in Questions : TellRestarted(q)) \/ StartPolling

(* OPRAI_TG_FREE_WINDOW_HOURS or 30 days go by; a subscription starts or ends. *)
WindowPasses(s) ==
    /\ exists[s] /\ ~windowOld[s]
    /\ windowOld' = [windowOld EXCEPT ![s] = TRUE]
    /\ UNCHANGED <<exists, freeUsed, paid, monthUsed, monthOld, live, turnVars, procVars, books>>

MonthPasses(s) ==
    /\ exists[s] /\ ~monthOld[s]
    /\ monthOld' = [monthOld EXCEPT ![s] = TRUE]
    /\ UNCHANGED <<exists, freeUsed, paid, monthUsed, windowOld, live, turnVars, procVars, books>>

Subscription(s) ==
    /\ live' = [live EXCEPT ![s] = ~@]
    /\ UNCHANGED <<rowVars, turnVars, procVars, books>>

Next ==
    \/ \E q \in Questions : Answer(q)
    \/ \E s \in Scopes : Grant(s) \/ WindowPasses(s) \/ MonthPasses(s) \/ Subscription(s)
    \/ Crash \/ Boot

Spec == Init /\ [][Next]_vars

(* A process that was stopped is started again and gets through its start. *)
FairSpec == Spec /\ WF_vars(Boot)

-----------------------------------------------------------------------------
(* Properties *)

Largest(m, n) == IF m > n THEN m ELSE n
Ration(s) == Largest(FreeAllowance(s), SubDaily)
MonthCeiling(s) == Largest(FreeAllowance(s) * FreeDays, SubMonthly)

(* The books of a scope balance under every interleaving of charges, refunds,
   grants, window resets and crashes: what was charged and not refunded is what
   was taken from this window's and earlier windows' ration or from granted
   credits, none lost and none counted twice. *)
BooksBalance ==
    \A s \in Scopes : net[s] + paid[s] = freeUsed[s] + rolled[s] + granted[s]

(* "two messages sent at the same moment must not both pass a check against the
   same last credit": with allowances read before, a window costs a scope no
   more than the larger of the two rations, questions never outnumber the
   rations of the windows so far and the grants, and the month's count stays
   under the larger monthly ceiling. *)
RationHolds ==
    \A s \in Scopes :
        /\ freeUsed[s] <= Ration(s)
        /\ net[s] <= Ration(s) * (windows[s] + 1) + granted[s]
        /\ monthUsed[s] <= MonthCeiling(s)

(* What RationHolds rests on: allowances read earlier are within the ceilings,
   and so is what every earlier window has used. *)
CeilingsOK ==
    /\ \A q \in Questions : seen[q].daily <= Ration(scope[q])
                             /\ seen[q].monthly <= MonthCeiling(scope[q])
    /\ \A s \in Scopes : rolled[s] <= Ration(s) * windows[s]

IInv == TypeOK /\ BooksBalance /\ CeilingsOK /\ RationHolds

(* "Nobody should have to guess whether a bot is working or dead": whoever is
   in tg_inflight when the process stops is told once it is back, unless it
   stops again while it tells them; an unreachable chat is skipped and holds
   nobody up.  When the sweep of a start fails nobody is told, but the row is
   still there for the next start. *)
WaitersAreTold ==
    \A q \in Questions \ Gone :
        (q \in inflight /\ ~up /\ crashes = MaxCrashes)
            ~> (screen[q] = "restarted" \/ (Flaky /\ up /\ q \in inflight))
=============================================================================
