---------------------------- MODULE CopyTrading ----------------------------
(***************************************************************************)
(* Copy trading in the Telegram bot: the block watcher                     *)
(* (copy_watcher.py), the engine that decides on and records each copy     *)
(* (copy_engine.py, copy_store.py), and the purchase (copy_executor.py).   *)
(*                                                                         *)
(* One task does it all, a step at a time; what runs beside it is the      *)
(* chain, the users' /copy commands, the refresh of the watched leaders    *)
(* and the clock.  A block holds at most one leader's buy.  What is bought *)
(* is a whole number of millionths of an ETH, to which decide() rounds,    *)
(* and a price is the dollars of one of them; what a leader spends and     *)
(* what users set is finer, in parts of a millionth.  A purchase that the  *)
(* bot gives up waiting for may succeed on the chain all the same; the     *)
(* model settles that when the bot gives up.                               *)
(***************************************************************************)
EXTENDS Integers, Sequences

CONSTANTS
    Users, Leaders,
    Parts,        \* the parts a millionth of an ETH, and a ratio of 1, is made of
    Buys,         \* what a leader may buy: [leader, base, eth], eth in parts
    Configs,      \* rows of tg_copy_subs: [enabled, fixed, amount, max, min, cap];
                  \* amount, the ratio unless fixed, max and min in parts
    Prices,       \* the ETH prices that may be read
    Nothing,      \* a block without a leader's buy
    Span,         \* max_block_span
    MaxBlocks,    \* bound: the chain's length
    MaxCopies     \* bound: purchases of one user for one block

Sizing == [enabled : BOOLEAN, fixed : BOOLEAN, amount : Nat, max : Nat, min : Nat, cap : Nat]

(* A purchase for a user *)
Jobs == [user : Users, cfg : Configs, seen : Nat, amt : Nat, price : Nat]

ASSUME CopyAssumption ==
    /\ Span \in Nat /\ MaxBlocks \in Nat /\ MaxCopies \in Nat
    /\ Prices \subseteq Nat \ {0} /\ Parts \in Nat \ {0}
    /\ Buys \subseteq [leader : Leaders, base : BOOLEAN, eth : Nat] /\ Nothing \notin Buys \cup Jobs
    /\ Configs \subseteq {c \in Sizing : c.min >= Parts} /\ \E c \in Configs : ~c.enabled

VARIABLES
    chain,     \* the blocks
    subs,      \* the configuration of each user for each leader
    leaders,   \* the leaders that the watcher knows of
    last,      \* the last block it is done with, -1 for None
    pc, head, bn,   \* where the pass is: its head and its block
    todo,      \* the copiers still to serve: <<user, configuration>>
    job,       \* the one being served, with the spending read for it, what to
               \* buy, and the price that was decided at
    spent,     \* dollars in tg_copy_fills of the last 24 hours, per user
    fills,     \* rows of tg_copy_fills, per user and block
    copies,    \* purchases on the chain, per user and block
    gone,      \* blocks that went through on_buy, or were passed over for a
               \* reason (history)
    again,     \* blocks the watcher may come back to (history)
    lost       \* purchases that no fill was recorded for (history)

copyVars == <<todo, job>>
scanVars == <<last, pc, head, bn>>
bookVars == <<spent, fills, copies>>
histVars == <<gone, again, lost>>
vars == <<chain, subs, leaders, scanVars, copyVars, bookVars, histVars>>

Blocks == 1..MaxBlocks

Buying == {"buy", "relay", "record"}

TypeOK ==
    /\ chain \in Seq(Buys \cup {Nothing}) /\ Len(chain) <= MaxBlocks
    /\ subs \in [Users -> [Leaders -> Configs]] /\ leaders \subseteq Leaders
    /\ pc \in {"poll", "scan", "copy", "price"} \cup Buying
    /\ head \in 0..Len(chain) /\ last \in -1..Len(chain) /\ bn \in 0..(head + 1)
    /\ todo \subseteq Users \X Configs
    /\ job \in Jobs \cup {Nothing} /\ (pc \in {"price"} \cup Buying => job # Nothing)
    /\ pc \in Buying => job.amt > 0
    /\ spent \in [Users -> Nat]
    /\ fills \in [Users -> [Blocks -> Nat]] /\ copies \in [Users -> [Blocks -> Nat]]
    /\ gone \subseteq Blocks /\ again \subseteq Blocks
    /\ lost \subseteq Users \X Blocks

Init ==
    /\ chain = <<>> /\ leaders = {}
    /\ \E c \in {d \in Configs : ~d.enabled} : subs = [u \in Users |-> [l \in Leaders |-> c]]
    /\ last = -1 /\ pc = "poll" /\ head = 0 /\ bn = 0
    /\ todo = {} /\ job = Nothing
    /\ spent = [u \in Users |-> 0]
    /\ fills = [u \in Users |-> [b \in Blocks |-> 0]] /\ copies = fills
    /\ gone = {} /\ again = {} /\ lost = {}

-----------------------------------------------------------------------------
(* What runs beside the watcher *)

NewBlock(x) ==
    /\ Len(chain) < MaxBlocks /\ chain' = Append(chain, x)
    /\ UNCHANGED <<subs, leaders, scanVars, copyVars, bookVars, histVars>>

(* /copy on, off and limits: set_copy *)
SetCopy(u, l, c) ==
    /\ subs' = [subs EXCEPT ![u][l] = c]
    /\ UNCHANGED <<chain, leaders, scanVars, copyVars, bookVars, histVars>>

(* refresh, every LEADER_REFRESH_SECONDS *)
Refresh ==
    /\ leaders' = {l \in Leaders : \E u \in Users : subs[u][l].enabled}
    /\ UNCHANGED <<chain, subs, scanVars, copyVars, bookVars, histVars>>

(* The oldest fills leave the 24 hours; how much they were is left open. *)
Age(u) ==
    /\ \E n \in 0..(spent[u] - 1) : spent' = [spent EXCEPT ![u] = n]
    /\ UNCHANGED <<chain, subs, leaders, scanVars, copyVars, fills, copies, histVars>>

-----------------------------------------------------------------------------
(* The watcher *)

(* Where a pass from l to h begins: a long backlog is not scanned. *)
Lo(l, h) == IF l + 1 > h - Span THEN l + 1 ELSE h - Span

(* Either node may answer, with the head that it has. *)
Poll ==
    /\ pc = "poll"
    /\ \E h \in 1..Len(chain) :
           LET l == IF last = -1 THEN h - 1 ELSE last IN
           /\ last' = l /\ head' = h
           /\ bn' = IF Lo(l, h) > h THEN h + 1 ELSE Lo(l, h)
           /\ gone' = gone \cup (IF last = -1 THEN 1..l ELSE {}) \cup ((l + 1)..(Lo(l, h) - 1))
    /\ pc' = "scan"
    /\ UNCHANGED <<chain, subs, leaders, copyVars, bookVars, again, lost>>

Buy == chain[bn]

(* The purchase under way *)
Now == <<job.user, bn>>

(* The block or the receipt is not there yet, or no watched leader bought. *)
PassOver ==
    /\ pc = "scan" /\ bn <= head
    /\ bn' = bn + 1 /\ gone' = gone \cup {bn}
    /\ UNCHANGED <<chain, subs, leaders, last, pc, head, copyVars, bookVars, again, lost>>

(* on_buy begins: copiers_of *)
Hit ==
    /\ pc = "scan" /\ bn <= head /\ Buy # Nothing /\ Buy.leader \in leaders
    /\ todo' = {t \in Users \X Configs : subs[t[1]][Buy.leader] = t[2] /\ t[2].enabled}
    /\ pc' = "copy"
    /\ UNCHANGED <<chain, subs, leaders, last, head, bn, job, bookVars, histVars>>

(* on_buy ends. *)
Served ==
    /\ pc = "copy" /\ todo = {}
    /\ pc' = "scan" /\ bn' = bn + 1 /\ gone' = gone \cup {bn}
    /\ UNCHANGED <<chain, subs, leaders, last, head, copyVars, bookVars, again, lost>>

(* Slip: the head itself is left for the next pass. *)
EndPassShort ==
    /\ pc = "scan" /\ bn > head
    /\ last' = head - 1 /\ pc' = "poll" /\ head' = 0 /\ bn' = 0
    /\ again' = again \cup ((head + 1)..last)
    /\ UNCHANGED <<chain, subs, leaders, copyVars, bookVars, gone, lost>>

(* The pass is over.  The head may be lower than the last one was. *)
EndPass ==
    /\ pc = "scan" /\ bn > head
    /\ last' = head /\ pc' = "poll" /\ head' = 0 /\ bn' = 0
    /\ again' = again \cup ((head + 1)..last)
    /\ UNCHANGED <<chain, subs, leaders, copyVars, bookVars, gone, lost>>

(* Slip: a pass that fails is not repeated. *)
FailMovesOn ==
    /\ pc \in {"scan", "copy", "record"} /\ bn <= head
    /\ pc' = "poll" /\ last' = head /\ head' = 0 /\ bn' = 0
    /\ again' = again \cup (Lo(last, head)..bn)
    /\ lost' = IF pc = "record" THEN lost \cup {Now} ELSE lost
    /\ todo' = {} /\ job' = Nothing
    /\ UNCHANGED <<chain, subs, leaders, bookVars, gone>>

(* A request or a query fails, the record of a purchase too: the blocks of the
   pass will be scanned again. *)
Fail ==
    /\ pc \in {"scan", "copy", "record"} /\ bn <= head
    /\ pc' = "poll" /\ head' = 0 /\ bn' = 0
    /\ again' = again \cup (Lo(last, head)..bn)
    /\ lost' = IF pc = "record" THEN lost \cup {Now} ELSE lost
    /\ todo' = {} /\ job' = Nothing
    /\ UNCHANGED <<chain, subs, leaders, last, bookVars, gone>>

-----------------------------------------------------------------------------
(* One copier *)

ReadSpent ==
    /\ pc = "copy"
    /\ \E t \in todo :
           /\ job' = [user |-> t[1], cfg |-> t[2], seen |-> spent[t[1]], amt |-> 0, price |-> 0]
           /\ todo' = todo \ {t}
    /\ pc' = "price"
    /\ UNCHANGED <<chain, subs, leaders, last, head, bn, bookVars, histVars>>

(* round(x / d, 6): a nearest whole number of millionths *)
Round(x, d) == {n \in 0..x : 2 * (n * d) - 2 * x <= d /\ 2 * x - 2 * (n * d) <= d}

(* A size is a product of parts: it is counted in grains. *)
Grain == Parts * Parts

Wanted(c, eth) ==
    LET size == IF c.fixed THEN c.amount * Parts ELSE eth * c.amount IN
    IF size > c.max * Parts THEN c.max * Parts ELSE size

(* Slip: what the day has taken is left out. *)
DecideFresh(buy, c, s, p) ==
    LET size == Wanted(c, buy.eth) IN
    IF buy.base \/ size < c.min * Parts THEN {}
    ELSE IF size * p <= c.cap * Grain THEN Round(size, Grain)
    ELSE IF c.cap * Parts < c.min * p THEN {} ELSE Round(c.cap, p)

(* decide: what may be bought for a copier who has spent s, if anything; both
   the size that fits and the one cut to the day's room are rounded. *)
Decide(buy, c, s, p) ==
    LET size == Wanted(c, buy.eth)
        room == c.cap - s
    IN  IF buy.base \/ size < c.min * Parts THEN {}
        ELSE IF size * p <= room * Grain THEN Round(size, Grain)
        ELSE IF room * Parts < c.min * p THEN {} ELSE Round(room, p)

(* The price is read, and the copy decided on: skipped without a price. *)
Price ==
    /\ pc = "price"
    /\ \/ \E p \in Prices : \E n \in Decide(Buy, job.cfg, job.seen, p) :
              job' = [job EXCEPT !.amt = n, !.price = p] /\ pc' = "buy"
       \/ job' = Nothing /\ pc' = "copy"
    /\ UNCHANGED <<chain, subs, leaders, last, head, bn, todo, bookVars, histVars>>

Bought == copies' = [copies EXCEPT ![job.user][bn] = @ + 1]

Filled ==
    /\ copies[job.user][bn] < MaxCopies /\ Bought /\ pc' = "record"
    /\ UNCHANGED <<chain, subs, leaders, last, head, bn, copyVars, spent, fills, histVars>>

(* The purchase goes on with the other venue, or is over. *)
Onward(next) == pc' = next /\ job' = IF next = "copy" THEN Nothing ELSE job

(* An error before anything was signed, or a transaction that reverts. *)
NotFilled(next) ==
    /\ Onward(next)
    /\ UNCHANGED <<chain, subs, leaders, last, head, bn, todo, bookVars, histVars>>

(* Slip: a transaction that takes long is taken for filled. *)
GivenUpFilled(next) ==
    /\ pc' = "record"
    /\ UNCHANGED <<chain, subs, leaders, last, head, bn, copyVars, bookVars, histVars>>

(* No receipt in time, and the transaction succeeds later. *)
GivenUp(next) ==
    /\ copies[job.user][bn] < MaxCopies /\ Bought /\ Onward(next)
    /\ lost' = lost \cup {Now}
    /\ UNCHANGED <<chain, subs, leaders, last, head, bn, todo, spent, fills, gone, again>>

(* buy: Sushi and, if that has no route or fails, Relay. *)
Sushi ==
    /\ pc = "buy"
    /\ Filled \/ NotFilled("copy") \/ NotFilled("relay") \/ GivenUp("relay")
Relay ==
    /\ pc = "relay"
    /\ Filled \/ NotFilled("copy") \/ GivenUp("copy")

RecordFill ==
    /\ pc = "record"
    /\ spent' = [spent EXCEPT ![job.user] = @ + job.amt * job.price]
    /\ fills' = [fills EXCEPT ![job.user][bn] = @ + 1]
    /\ Onward("copy")
    /\ UNCHANGED <<chain, subs, leaders, last, head, bn, todo, copies, histVars>>

(* The bot is restarted, and a transaction it has sent may still succeed. *)
Restart ==
    /\ last' = -1 /\ pc' = "poll" /\ head' = 0 /\ bn' = 0
    /\ leaders' = {} /\ todo' = {} /\ job' = Nothing
    /\ again' = again \cup (1..Len(chain))
    /\ \/ lost' = (IF pc = "record" THEN lost \cup {Now} ELSE lost) /\ copies' = copies
       \/ /\ pc \in {"buy", "relay"} /\ copies[job.user][bn] < MaxCopies /\ Bought
          /\ lost' = lost \cup {Now}
    /\ UNCHANGED <<chain, subs, spent, fills, gone>>

Next ==
    \/ \E x \in Buys \cup {Nothing} : NewBlock(x)
    \/ \E u \in Users, l \in Leaders, c \in Configs : SetCopy(u, l, c)
    \/ Refresh
    \/ \E u \in Users : Age(u)
    \/ Poll \/ PassOver \/ Hit \/ Served \/ EndPass \/ Fail
    \/ ReadSpent \/ Price \/ Sushi \/ Relay \/ RecordFill \/ Restart

Spec == Init /\ [][Next]_vars

-----------------------------------------------------------------------------
(* Properties *)

(* "The engine's own limits are what make auto-execution safe": a fill never
   takes the day's recorded spending past the copier's cap by more than the
   half of a millionth of an ETH that rounding may add, to a copy that fits as
   to one that was cut to fit. *)
RecordedWithinCap ==
    [][\A u \in Users : spent'[u] > spent[u] =>
           u = job.user /\ 2 * spent'[u] <= 2 * job.cfg.cap + job.price]_vars

(* A leader's buy is copied once for a user, unless a failed pass, a restart
   or a node that lags behind has the watcher scan the block again, or a
   transaction was given up on too soon. *)
CopiedOnce ==
    \A u \in Users, b \in Blocks :
        copies[u][b] > 1 => b \in again \/ <<u, b>> \in lost

(* Every buy in the blocks that the watcher is done with went through on_buy,
   unless the backlog was cut or the node had nothing to show. *)
NothingSkipped ==
    \A b \in 1..last : chain[b] # Nothing => b \in gone

(* The ledger behind the daily cap holds the purchases on the chain, one for
   one, but for the one being recorded and those whose record or receipt
   failed to come; and no purchase that was not made. *)
LedgerTrue ==
    \A u \in Users, b \in Blocks :
        /\ fills[u][b] <= copies[u][b]
        /\ fills[u][b] < copies[u][b] =>
               <<u, b>> \in lost \/ (pc = "record" /\ Now = <<u, b>>)
=============================================================================
