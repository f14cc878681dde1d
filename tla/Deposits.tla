------------------------------ MODULE Deposits ------------------------------
(***************************************************************************)
(* The deposit watcher (oprai-tg-bot/app/services/deposits.py and the loop *)
(* in app/main.py that announces what it finds).                           *)
(*                                                                         *)
(* One coroutine repeats: compare every wallet's balance with the recorded *)
(* one, read the token transfers past a block cursor, then tell people.    *)
(* Everything it learns is written down before anybody is told, and an     *)
(* exception or the end of the process loses what was not yet told.        *)
(* Each RPC is answered by whichever node evm.rpc picks for that call, and *)
(* nodes lag behind the chain.                                             *)
(*                                                                         *)
(* Logs are the transfers that pass the filter of check_tokens, numbered   *)
(* in the order the chain emits them.  Left out: people switching wallets, *)
(* symbols, decimals and the token registry (a token's metadata is         *)
(* readable or not, as the environment likes), reorganisations.            *)
(***************************************************************************)
EXTENDS Integers, FiniteSets

CONSTANTS
    Logs,        \* token transfers into our wallets
    Wallets,     \* the active wallets
    Nodes,       \* the RPC endpoints
    None,        \* no row, no update
    MaxLogs,     \* MAX_LOGS_PER_CYCLE
    MaxBlocks,   \* MAX_BLOCKS_PER_CYCLE
    Lookback,    \* FIRST_RUN_LOOKBACK_BLOCKS
    NodeCap,     \* logs a node returns for one query
    MaxHead,     \* bound: blocks
    MaxWei,      \* bound: a wallet's balance
    MaxFaults    \* bound: exceptions, crashes and rewinds

ASSUME DepositsAssumption ==
    /\ Logs \subseteq Nat \ {0} /\ IsFiniteSet(Logs)
    /\ None \notin Nat
    /\ MaxLogs \in Nat \ {0} /\ MaxBlocks \in Nat \ {0}
    /\ Lookback \in Nat /\ NodeCap \in Nat
    /\ MaxHead \in Nat \ {0} /\ MaxWei \in Nat /\ MaxFaults \in Nat

VARIABLES
    \* the chain and the nodes
    head,       \* its last block
    block,      \* the block of each log, 0 before it is mined
    wei,        \* balance of each wallet after each block
    view,       \* the last block each node knows
    \* the tables
    known,      \* tg_balance_watch.wei
    knownAt,    \* tg_balance_watch.block
    cursor,     \* tg_deposit_cursor.last_block
    seen,       \* tg_deposit_seen
    held,       \* tg_wallet_tokens, by the log that brought the token
    \* the watcher
    at,         \* where it is
    height,     \* check_native: head
    updates,    \* check_native: balances to write
    found,      \* poll: native deposits
    lo, hi,     \* check_tokens: the range scanned
    batch,      \* check_tokens: candidates, then fresh, then deposits
    \* history
    start,      \* the block the first run began after
    arrived,    \* wei that reached each wallet since
    told,       \* announcements of each log
    toldWei,    \* wei announced to each wallet's owner
    asked,      \* the nodes that check_native was answered by
    inexact,    \* balances were filed under another block than they were read at
    blind,      \* blocks claimed on the word of a node that did not have them
    faults

chainVars == <<head, block, wei, view, arrived>>
tableVars == <<known, knownAt, cursor, seen, held>>
nativeVars == <<height, updates, found>>
scanVars == <<lo, hi, batch>>
toldVars == <<told, toldWei>>
trustVars == <<asked, inexact, blind>>
vars == <<chainVars, tableVars, at, nativeVars, scanVars, start, toldVars, trustVars, faults>>

Blocks == 1..MaxHead

TypeOK ==
    /\ head \in Blocks
    /\ block \in [Logs -> 0..MaxHead]
    /\ wei \in [Wallets -> [Blocks -> Nat]]
    /\ view \in [Nodes -> Blocks]
    /\ known \in [Wallets -> Nat \cup {None}]
    /\ knownAt \in [Wallets -> Nat]
    /\ cursor \in 0..MaxHead
    /\ seen \in SUBSET Logs /\ held \in SUBSET Logs
    /\ at \in {"idle", "balances", "baselines", "tip", "logs", "claim", "remember",
               "meta", "cursor", "notify"}
    /\ height \in Nat
    /\ updates \in [Wallets -> Nat \cup {None}]
    /\ found \in [Wallets -> Nat]
    /\ lo \in 0..MaxHead /\ hi \in 0..MaxHead
    /\ batch \in SUBSET Logs
    /\ start \in 0..MaxHead
    /\ arrived \in [Wallets -> Nat]
    /\ told \in [Logs -> Nat]
    /\ toldWei \in [Wallets -> Nat]
    /\ asked \in SUBSET Nodes /\ inexact \in BOOLEAN /\ blind \in SUBSET Nat
    /\ faults \in 0..MaxFaults

NoUpdates == [w \in Wallets |-> None]
NothingFound == [w \in Wallets |-> 0]

(* A new installation, on a chain that is already running. *)
Init ==
    /\ head = 1
    /\ block = [l \in Logs |-> 0]
    /\ wei \in {[w \in Wallets |-> [b \in Blocks |-> balance[w]]] :
                    balance \in [Wallets -> 0..MaxWei]}
    /\ view = [n \in Nodes |-> 1]
    /\ known = NoUpdates /\ knownAt = NothingFound
    /\ cursor = 0 /\ seen = {} /\ held = {}
    /\ at = "idle" /\ height = 0 /\ updates = NoUpdates /\ found = NothingFound
    /\ lo = 0 /\ hi = 0 /\ batch = {}
    /\ start = 0 /\ arrived = NothingFound
    /\ told = [l \in Logs |-> 0] /\ toldWei = NothingFound
    /\ asked = {} /\ inexact = FALSE /\ blind = {}
    /\ faults = 0

-----------------------------------------------------------------------------
(* check_native() *)

(* The height the readings will be filed under. *)
ReadHeight(n) ==
    /\ at = "idle"
    /\ height' = view[n]
    /\ asked' = asked \cup {n}
    /\ at' = "balances"
    /\ UNCHANGED <<chainVars, tableVars, updates, found, scanVars, start, toldVars, inexact,
                   blind, faults>>

(* Without a height check_native returns nothing, and poll goes on. *)
NoHeight ==
    /\ at = "idle" /\ faults < MaxFaults
    /\ at' = "tip"
    /\ faults' = faults + 1
    /\ UNCHANGED <<chainVars, tableVars, nativeVars, scanVars, start, toldVars, trustVars>>

(* Slip: a reading from below the recorded height is not dropped. *)
ReadBalancesOfAnyAge(n, ok) ==
    LET now(w) == wei[w][view[n]] IN
    /\ at = "balances"
    /\ found' = [w \in Wallets |->
                    IF w \in ok /\ known[w] # None /\ now(w) > known[w]
                        THEN now(w) - known[w] ELSE 0]
    /\ updates' = [w \in Wallets |->
                    IF w \in ok /\ now(w) # known[w] THEN now(w) ELSE None]
    /\ asked' = asked \cup {n} /\ inexact' = (inexact \/ view[n] # height)
    /\ at' = "baselines"
    /\ UNCHANGED <<chainVars, tableVars, height, scanVars, start, toldVars, blind, faults>>

(* One batch of eth_getBalance, in which the calls for ok succeed.  A reading
   from below the recorded height is dropped; the first one is a baseline; an
   increase is a deposit; any difference is written down. *)
ReadBalances(n, ok) ==
    LET now(w) == wei[w][view[n]]
        fresh == {w \in ok : height >= knownAt[w]}
    IN
    /\ at = "balances"
    /\ found' = [w \in Wallets |->
                    IF w \in fresh /\ known[w] # None /\ now(w) > known[w]
                        THEN now(w) - known[w] ELSE 0]
    /\ updates' = [w \in Wallets |->
                    IF w \in fresh /\ now(w) # known[w] THEN now(w) ELSE None]
    /\ asked' = asked \cup {n} /\ inexact' = (inexact \/ view[n] # height)
    /\ at' = "baselines"
    /\ UNCHANGED <<chainVars, tableVars, height, scanVars, start, toldVars, blind, faults>>

(* The upsert ... WHERE block <= EXCLUDED.block, wallet by wallet. *)
WriteBaseline(w) ==
    /\ at = "baselines" /\ updates[w] # None
    /\ IF knownAt[w] <= height
          THEN /\ known' = [known EXCEPT ![w] = updates[w]]
               /\ knownAt' = [knownAt EXCEPT ![w] = height]
          ELSE UNCHANGED <<known, knownAt>>
    /\ updates' = [updates EXCEPT ![w] = None]
    /\ UNCHANGED <<chainVars, cursor, seen, held, at, height, found, scanVars, start,
                   toldVars, trustVars, faults>>

BaselinesWritten ==
    /\ at = "baselines" /\ updates = NoUpdates
    /\ at' = "tip"
    /\ UNCHANGED <<chainVars, tableVars, nativeVars, scanVars, start, toldVars, trustVars, faults>>

-----------------------------------------------------------------------------
(* check_tokens() *)

(* Where the scan resumes: near the tip on the first run. *)
Last(tip) ==
    IF cursor # 0 THEN cursor ELSE IF tip > Lookback THEN tip - Lookback ELSE 0

(* How far one cycle goes. *)
ScanEnd(tip, last) == IF tip < last + MaxBlocks THEN tip ELSE last + MaxBlocks

ReadTip(n) ==
    LET last == Last(view[n]) IN
    /\ at = "tip"
    /\ cursor' = last
    /\ start' = IF cursor = 0 THEN last ELSE start
    /\ IF view[n] <= last
          THEN at' = "notify" /\ UNCHANGED scanVars
          ELSE /\ lo' = last + 1 /\ hi' = ScanEnd(view[n], last)
               /\ at' = "logs" /\ UNCHANGED batch
    /\ UNCHANGED <<chainVars, known, knownAt, seen, held, nativeVars, toldVars, trustVars, faults>>

(* What eth_getLogs matches on a node: nothing past what the node knows. *)
Matching(n) == {l \in Logs : block[l] \in lo..hi /\ block[l] <= view[n]}
TooMany(n) == Cardinality(Matching(n)) > NodeCap

Narrow(n) ==
    /\ at = "logs" /\ TooMany(n) /\ hi > lo
    /\ hi' = lo + ((hi - lo) \div 2)
    /\ UNCHANGED <<chainVars, tableVars, at, nativeVars, lo, batch, start, toldVars, trustVars,
                   faults>>

(* Slip: the block the node refuses is tried again. *)
SkipDenseRetry(n) ==
    /\ at = "logs" /\ TooMany(n) /\ hi <= lo
    /\ batch' = {} /\ hi' = lo - 1
    /\ at' = "claim"
    /\ UNCHANGED <<chainVars, tableVars, nativeVars, lo, start, toldVars, trustVars, faults>>

(* Even one block is too much for this filter. *)
SkipDense(n) ==
    /\ at = "logs" /\ TooMany(n) /\ hi <= lo
    /\ batch' = {} /\ hi' = lo
    /\ at' = "claim"
    /\ UNCHANGED <<chainVars, tableVars, nativeVars, lo, start, toldVars, trustVars, faults>>

(* The first MaxLogs of the logs that matched. *)
Capped(logs) == {l \in logs : Cardinality({k \in logs : k < l}) < MaxLogs}

(* The cursor will claim the range, or, if the batch was cut, what lies up to
   the block of the last log kept. *)
ClaimUpTo(logs) ==
    IF Capped(logs) = logs THEN hi' = hi
    ELSE \E last \in Capped(logs) :
            /\ \A k \in Capped(logs) : k <= last
            /\ hi' = block[last]

GetLogs(n) ==
    /\ at = "logs" /\ ~TooMany(n)
    /\ batch' = Capped(Matching(n))
    /\ ClaimUpTo(Matching(n))
    /\ blind' = blind \cup ((view[n] + 1)..hi')
    /\ at' = "claim"
    /\ UNCHANGED <<chainVars, tableVars, nativeVars, lo, start, toldVars, asked, inexact, faults>>

(* Slip: what was already claimed is announced again. *)
ClaimAll ==
    /\ at = "claim"
    /\ seen' = seen \cup batch
    /\ at' = "remember"
    /\ UNCHANGED <<chainVars, known, knownAt, cursor, held, nativeVars, scanVars, start,
                   toldVars, trustVars, faults>>

(* INSERT INTO tg_deposit_seen ... ON CONFLICT DO NOTHING RETURNING. *)
Claim ==
    /\ at = "claim"
    /\ seen' = seen \cup batch
    /\ batch' = batch \ seen
    /\ at' = "remember"
    /\ UNCHANGED <<chainVars, known, knownAt, cursor, held, nativeVars, lo, hi, start,
                   toldVars, trustVars, faults>>

Remember ==
    /\ at = "remember"
    /\ held' = held \cup batch
    /\ at' = "meta"
    /\ UNCHANGED <<chainVars, known, knownAt, cursor, seen, nativeVars, scanVars, start,
                   toldVars, trustVars, faults>>

(* A token whose decimals cannot be read is not announced. *)
TokenMeta(readable) ==
    /\ at = "meta"
    /\ batch' = batch \cap readable
    /\ at' = "cursor"
    /\ UNCHANGED <<chainVars, tableVars, nativeVars, lo, hi, start, toldVars, trustVars, faults>>

SetCursor ==
    /\ at = "cursor"
    /\ cursor' = hi
    /\ at' = "notify"
    /\ UNCHANGED <<chainVars, known, knownAt, seen, held, nativeVars, scanVars, start,
                   toldVars, trustVars, faults>>

-----------------------------------------------------------------------------
(* _watch_deposits(): notify.send delivers, or gives up, and never raises. *)

NotifyWei(w, delivered) ==
    /\ at = "notify" /\ found[w] > 0
    /\ found' = [found EXCEPT ![w] = 0]
    /\ toldWei' = IF delivered THEN [toldWei EXCEPT ![w] = @ + found[w]] ELSE toldWei
    /\ UNCHANGED <<chainVars, tableVars, at, height, updates, scanVars, start, told, trustVars,
                   faults>>

NotifyToken(l, delivered) ==
    /\ at = "notify" /\ found = NothingFound /\ l \in batch
    /\ batch' = batch \ {l}
    /\ told' = IF delivered THEN [told EXCEPT ![l] = @ + 1] ELSE told
    /\ UNCHANGED <<chainVars, tableVars, at, nativeVars, lo, hi, start, toldWei, trustVars,
                   faults>>

(* What the locals of a cycle are worth to the next one. *)
Forget ==
    /\ at' = "idle" /\ height' = 0 /\ updates' = NoUpdates /\ found' = NothingFound
    /\ lo' = 0 /\ hi' = 0 /\ batch' = {}

Sleep ==
    /\ at = "notify" /\ found = NothingFound /\ batch = {}
    /\ Forget
    /\ UNCHANGED <<chainVars, tableVars, start, toldVars, trustVars, faults>>

(* An exception that reaches the loop, from the node or the database, or the
   end of the process: the cycle is over and what it had found is gone. *)
Abandon ==
    /\ at # "idle" /\ faults < MaxFaults
    /\ Forget
    /\ faults' = faults + 1
    /\ UNCHANGED <<chainVars, tableVars, start, toldVars, trustVars>>

(* One cycle of the loop; nothing in it waits for anybody. *)
Poll ==
    \/ \E n \in Nodes : ReadHeight(n)
    \/ \E n \in Nodes, ok \in SUBSET Wallets : ReadBalances(n, ok)
    \/ \E w \in Wallets : WriteBaseline(w)
    \/ BaselinesWritten
    \/ \E n \in Nodes : ReadTip(n) \/ Narrow(n) \/ SkipDense(n) \/ GetLogs(n)
    \/ Claim \/ Remember \/ (\E readable \in SUBSET batch : TokenMeta(readable)) \/ SetCursor
    \/ \E w \in Wallets, delivered \in BOOLEAN : NotifyWei(w, delivered)
    \/ \E l \in Logs, delivered \in BOOLEAN : NotifyToken(l, delivered)
    \/ Sleep

-----------------------------------------------------------------------------
(* The environment *)

(* A block with the next logs, up to and including last, after which the
   wallets hold balance. *)
Mine(last, balance) ==
    LET b == head + 1 IN
    /\ head < MaxHead
    /\ head' = b
    /\ block' = [l \in Logs |-> IF block[l] = 0 /\ l <= last THEN b ELSE block[l]]
    /\ wei' = [w \in Wallets |-> [c \in Blocks |-> IF c >= b THEN balance[w] ELSE wei[w][c]]]
    /\ arrived' = [w \in Wallets |->
                     IF balance[w] > wei[w][head] THEN arrived[w] + balance[w] - wei[w][head]
                     ELSE arrived[w]]
    /\ UNCHANGED <<view, tableVars, at, nativeVars, scanVars, start, toldVars, trustVars, faults>>

Sync(n) ==
    /\ view[n] < head
    /\ view' = [view EXCEPT ![n] = @ + 1]
    /\ UNCHANGED <<head, block, wei, arrived, tableVars, at, nativeVars, scanVars, start,
                   toldVars, trustVars, faults>>

(* An operator has the watcher scan again from an earlier block. *)
Rewind(b) ==
    /\ at = "idle" /\ b < cursor /\ faults < MaxFaults
    /\ cursor' = b
    /\ faults' = faults + 1
    /\ UNCHANGED <<chainVars, known, knownAt, seen, held, at, nativeVars, scanVars, start,
                   toldVars, trustVars>>

Next ==
    \/ Poll \/ NoHeight \/ Abandon
    \/ \E last \in Logs \cup {0}, balance \in [Wallets -> 0..MaxWei] : Mine(last, balance)
    \/ \E n \in Nodes : Sync(n)
    \/ \E b \in Blocks : Rewind(b)

Spec == Init /\ [][Next]_vars

(* The loop goes round whatever a cycle raised, and nodes catch up. *)
FairSpec == Spec /\ WF_vars(Poll) /\ \A n \in Nodes : WF_vars(Sync(n))

-----------------------------------------------------------------------------
(* "so a rescan can't double-announce": whatever fails after a batch was
   claimed, and wherever the cursor is put back to, nobody is told twice of one
   transfer, and the token of a transfer somebody was told of is one the
   portfolio will look at. *)
AnnouncedOnce ==
    \A l \in Logs :
        /\ told[l] <= 1
        /\ told[l] = 1 => l \in seen /\ l \in held

(* A log the cursor may pass: it is claimed, or its block is one the node
   refused as a whole, or it is in the tail of a block whose front is claimed,
   or a node that did not have its block answered for it. *)
TooDense(l) == Cardinality({k \in Logs : block[k] = block[l]}) > NodeCap
InTailOf(l, claimed) == \E k \in claimed : block[k] = block[l] /\ k < l
Accounted(l, claimed) ==
    l \in claimed \/ TooDense(l) \/ InTailOf(l, claimed) \/ block[l] \in blind

(* No narrowing, cut, failed cycle or rewind makes the cursor pass any other
   transfer. *)
SkipsAreExplained ==
    \A l \in Logs : start < block[l] /\ block[l] <= cursor => Accounted(l, seen)

(* "the difference was announced twice as a deposit that never happened": the
   wei announced to somebody, or about to be, has really reached the wallet
   since it is watched, whichever nodes answer and however far they lag, as
   long as "every reading carries the height it was taken at", or always when
   one node answers. *)
OneAsked == \A m, n \in asked : m = n

NoPhantomDeposit ==
    OneAsked \/ ~inexact => \A w \in Wallets : toldWei[w] + found[w] <= arrived[w]

(* "Hitting that cap must not fail the cycle: the cursor would never advance":
   every transfer is behind the cursor in the end, however dense its block. *)
CursorCatchesUp ==
    \A l \in Logs : block[l] > 0 ~> cursor >= block[l]

-----------------------------------------------------------------------------
(* What deposits.py says of the cap: "the remainder is picked up next cycle
   instead of being dropped".  A transfer behind the cursor is claimed, unless
   its block was too dense for the node. *)
NothingIsDropped ==
    \A l \in Logs : start < block[l] /\ block[l] <= cursor => l \in seen \/ TooDense(l)

-----------------------------------------------------------------------------
(* The batch at each point of a cycle: nothing in it has been announced, and
   what is about to be is claimed and remembered. *)
BatchOK ==
    /\ at \in {"idle", "balances", "baselines", "tip", "logs"} => batch = {}
    /\ at \in {"remember", "meta", "cursor", "notify"} =>
            batch \subseteq seen /\ \A l \in batch : told[l] = 0
    /\ at \in {"meta", "cursor", "notify"} => batch \subseteq held

(* Logs come in the order of their blocks, and nodes know only real blocks. *)
ChainOK ==
    /\ \A l \in Logs : block[l] <= head
    /\ \A k, l \in Logs : k < l /\ block[l] > 0 => block[k] > 0 /\ block[k] <= block[l]
    /\ \A n \in Nodes : view[n] <= head

(* The range being scanned starts behind the cursor, and every log in it is
   accounted for by the batch, then by the table. *)
ScanOK ==
    /\ cursor <= head
    /\ at = "logs" => lo <= hi
    /\ at \in {"logs", "claim", "remember", "meta", "cursor"} =>
            lo = cursor + 1 /\ hi <= head
    /\ at = "claim" => \A l \in Logs : block[l] \in lo..hi => Accounted(l, batch)
    /\ at \in {"remember", "meta", "cursor"} =>
            \A l \in Logs : block[l] \in lo..hi => Accounted(l, seen)

IInv == TypeOK /\ BatchOK /\ AnnouncedOnce
ScanInv == IInv /\ ChainOK /\ ScanOK /\ SkipsAreExplained
=============================================================================
