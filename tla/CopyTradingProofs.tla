------------------------- MODULE CopyTradingProofs -------------------------
(***************************************************************************)
(* Proofs about CopyTrading, for any users, configurations, prices and     *)
(* bounds.                                                                 *)
(*                                                                         *)
(* OpenInv carries CopiedOnce: a user has no copy yet of a block that the  *)
(* watcher may still reach without a setback.  CapInv carries              *)
(* RecordedWithinCap: the purchase under way fits the cap on top of what   *)
(* has been recorded, because nobody else records and time only takes      *)
(* fills away.                                                             *)
(***************************************************************************)
EXTENDS CopyTrading, TLAPS

Copying == {"copy", "price"} \cup Buying

(* Where the pass can be. *)
PassInv ==
    /\ pc = "poll" => head = 0 /\ bn = 0
    /\ pc # "poll" => last >= 0 /\ head >= 1 /\ (bn >= Lo(last, head) \/ bn = head + 1)
    /\ pc \in Copying => bn <= head /\ Buy \in Buys

(* The copiers to serve are one each, and not the one being served. *)
TodoInv ==
    /\ \A s, t \in todo : s[1] = t[1] => s = t
    /\ pc \in {"price"} \cup Buying => \A t \in todo : t[1] # job.user

GoneInv ==
    /\ \A b \in 1..last : b \in gone
    /\ pc # "poll" /\ head > last => \A b \in 1..(bn - 1) : b \in gone

(* The user may still be served for block b, in this pass or the next. *)
Open(u, b) ==
    /\ b > last
    /\ \/ pc = "poll" \/ b > bn \/ b < Lo(last, head)
       \/ b = bn /\ \/ pc = "scan"
                    \/ \E t \in todo : t[1] = u
                    \/ pc \in {"price", "buy", "relay"} /\ job.user = u

OpenInv ==
    \A u \in Users, b \in Blocks :
        b \notin again /\ <<u, b>> \notin lost =>
            copies[u][b] <= 1 /\ (Open(u, b) => copies[u][b] = 0)

LedgerInv ==
    /\ LedgerTrue
    /\ pc = "record" => /\ fills[job.user][bn] < copies[job.user][bn]
                        /\ Now \notin lost => copies[job.user][bn] = fills[job.user][bn] + 1

CapInv ==
    /\ pc = "price" => spent[job.user] <= job.seen
    /\ pc \in Buying =>
           2 * (spent[job.user] + job.amt * job.price) <= 2 * job.cfg.cap + job.price

IInv == TypeOK /\ PassInv /\ TodoInv /\ GoneInv /\ OpenInv /\ LedgerInv /\ CapInv

-----------------------------------------------------------------------------
(* Sizes *)

LEMMA AtLeast ==
    ASSUME NEW m \in Nat \ {0}, NEW p \in Nat
    PROVE  m * p \in Nat /\ m * p >= p
<1>1. m - 1 \in Nat /\ (m - 1) * p >= 0
  BY SMT
<1>2. m * p = (m - 1) * p + p
  BY SMT
<1> QED BY <1>1, <1>2, SMT

(* What is within a product of both factors is within the other factor. *)
LEMMA Cancel ==
    ASSUME NEW a \in Int, NEW g \in Nat \ {0}, a * g <= 0
    PROVE  a <= 0
<1> SUFFICES ASSUME a > 0 PROVE FALSE
  OBVIOUS
<1>1. a \in Nat \ {0} /\ g \in Nat
  OBVIOUS
<1>2. a * g >= g
  BY <1>1, AtLeast
<1> QED BY <1>2, SMT

(* What decide() allows is something, and fits the cap but for rounding: half
   of the price, whether the size fits (it is rounded from grains) or is cut
   to the room. *)
LEMMA DecideFits ==
    ASSUME NEW buy \in Buys, NEW c \in Configs, NEW s \in Nat, NEW p \in Prices,
           NEW n \in Decide(buy, c, s, p)
    PROVE  n \in Nat /\ n > 0 /\ n * p \in Nat /\ 2 * (s + n * p) <= 2 * c.cap + p
<1> DEFINE w == Wanted(c, buy.eth)
           room == c.cap - s
           g == Grain
<1>1. /\ buy.eth \in Nat /\ c.amount \in Nat /\ c.max \in Nat /\ c.min \in Nat /\ c.cap \in Nat
      /\ p \in Nat \ {0} /\ Parts \in Nat \ {0} /\ c.min >= Parts
  BY CopyAssumption DEF Sizing
<1>2. w \in Nat
  <2>1. buy.eth * c.amount \in Nat /\ c.amount * Parts \in Nat /\ c.max * Parts \in Nat
    BY <1>1, SMT
  <2> QED BY <1>1, <2>1 DEF Wanted
<1>3. n \in Nat
  BY <1>1, <1>2 DEF Decide, Round
<1>4. n * p \in Nat /\ room \in Int
  BY <1>1, <1>3, SMT
<1>5. g \in Nat \ {0} /\ n * g \in Nat /\ w * p \in Nat /\ room * g \in Int
  <2>1. Parts * Parts \in Nat /\ Parts * Parts >= Parts
    BY <1>1, AtLeast
  <2>2. g \in Nat \ {0}
    BY <2>1, <1>1 DEF Grain
  <2> HIDE DEF g
  <2> QED BY <2>2, <1>1, <1>2, <1>3, <1>4, SMT
<1>6. c.min * Parts >= g
  <2>1. (c.min - Parts) \in Nat /\ (c.min - Parts) * Parts >= 0
    BY <1>1, SMT
  <2>2. c.min * Parts = (c.min - Parts) * Parts + Parts * Parts
    BY <1>1, SMT
  <2> QED BY <1>1, <2>1, <2>2, SMT DEF Grain
<1>7. ASSUME w >= c.min * Parts, w * p <= room * g, n \in Round(w, g)
      PROVE  n > 0 /\ 2 * (s + n * p) <= 2 * c.cap + p
  <2>1. 2 * (n * g) - 2 * w <= g /\ 2 * w - 2 * (n * g) <= g
    BY <1>7 DEF Round
  <2> HIDE DEF w, g, room
  <2>2. n * g # 0
    <3>1. c.min * Parts \in Int
      BY <1>1, SMT
    <3> QED BY <1>2, <1>5, <1>6, <1>7, <2>1, <3>1
  <2>3. n # 0
    BY <2>2, <1>5, SMT
  <2>4. (2 * (n * p) - 2 * room - p) * g <= 0
    <3>1. (2 * w + g - 2 * (n * g)) * p >= 0
      BY <2>1, <1>1, <1>2, <1>5, SMT
    <3>2. (2 * w + g - 2 * (n * g)) * p = 2 * (w * p) + g * p - 2 * ((n * p) * g)
      BY <1>1, <1>2, <1>3, <1>5, SMT
    <3>3. (2 * (n * p) - 2 * room - p) * g = 2 * ((n * p) * g) - 2 * (room * g) - g * p
      BY <1>1, <1>3, <1>4, <1>5, SMT
    <3>4. (n * p) * g \in Int /\ g * p \in Int
      BY <1>1, <1>4, <1>5, SMT
    <3> QED BY <3>1, <3>2, <3>3, <3>4, <1>5, <1>7, SMT
  <2>5. 2 * (n * p) - 2 * room - p <= 0
    <3>1. 2 * (n * p) - 2 * room - p \in Int
      BY <1>1, <1>4, SMT
    <3> QED BY <3>1, <2>4, <1>5, Cancel
  <2> QED BY <1>1, <1>3, <1>4, <2>3, <2>5 DEF room
<1>8. ASSUME ~(room * Parts < c.min * p), n \in Round(room, p)
      PROVE  n > 0 /\ 2 * (s + n * p) <= 2 * c.cap + p
  <2>1. 2 * (n * p) - 2 * room <= p /\ 2 * room - 2 * (n * p) <= p
    BY <1>8 DEF Round
  <2> HIDE DEF room
  <2>2. (p - room) * Parts <= 0
    <3>1. (c.min - Parts) * p >= 0
      BY <1>1, SMT
    <3>2. (c.min - Parts) * p = c.min * p - Parts * p
      BY <1>1, SMT
    <3>3. (p - room) * Parts = Parts * p - room * Parts
      BY <1>1, <1>4, SMT
    <3>4. c.min * p \in Int /\ Parts * p \in Int /\ room * Parts \in Int
      BY <1>1, <1>4, SMT
    <3> QED BY <3>1, <3>2, <3>3, <3>4, <1>8, SMT
  <2>3. p <= room
    <3>1. p - room \in Int
      BY <1>1, <1>4
    <3>2. p - room <= 0
      BY <3>1, <2>2, <1>1, Cancel
    <3> QED BY <3>2, <1>1, <1>4
  <2>4. n * p # 0
    BY <2>1, <2>3, <1>1, <1>4
  <2>5. n # 0
    BY <2>4, <1>1, SMT
  <2> QED BY <2>1, <2>5, <1>1, <1>3, <1>4 DEF room
<1> QED BY <1>1, <1>2, <1>3, <1>4, <1>7, <1>8 DEF Decide

LEMMA LoIs ==
    \A l, h \in Int : /\ Lo(l, h) \in Int /\ Lo(l, h) > l /\ (h > l => Lo(l, h) <= h)
                      /\ Lo(l, h) <= l + 1 \/ Lo(l, h) <= h
BY CopyAssumption DEF Lo

LEMMA ChainTypes ==
    ASSUME TypeOK
    PROVE  /\ Len(chain) \in Nat /\ last \in Int /\ head \in Nat /\ bn \in Nat /\ MaxBlocks \in Nat
           /\ Lo(last, head) \in Int /\ Lo(last, head) > last /\ (head > last => Lo(last, head) <= head)
<1>1. Len(chain) \in Nat /\ last \in Int /\ head \in Nat /\ bn \in Nat /\ MaxBlocks \in Nat
  BY CopyAssumption DEF TypeOK
<1>2. last \in Int /\ head \in Int
  BY <1>1
<1> QED BY <1>1, <1>2, LoIs

(* The chain is in its bounds, and the watcher within the chain. *)
LEMMA ChainBounds ==
    ASSUME TypeOK
    PROVE  Len(chain) <= MaxBlocks /\ head <= Len(chain) /\ last <= Len(chain)
BY ChainTypes DEF TypeOK

LEMMA InBlocks ==
    ASSUME NEW a \in Int, NEW b \in Int, a >= 1, b <= MaxBlocks
    PROVE  (a..b) \subseteq Blocks
BY CopyAssumption DEF Blocks

(* A step of a purchase, at either venue. *)
LEMMA Purchases ==
    ASSUME Sushi \/ Relay
    PROVE  /\ pc \in {"buy", "relay"}
           /\ Filled \/ (\E next \in {"copy", "relay"} : NotFilled(next) \/ GivenUp(next))
BY DEF Sushi, Relay

(* One more purchase leaves the counts numbers. *)
LEMMA BoughtTypes ==
    ASSUME copies \in [Users -> [Blocks -> Nat]], job.user \in Users, bn \in Blocks, Bought
    PROVE  copies' \in [Users -> [Blocks -> Nat]]
BY DEF Bought

(* The purchase under way. *)
LEMMA JobTypes ==
    ASSUME TypeOK, PassInv, pc \in {"price"} \cup Buying
    PROVE  /\ job \in Jobs /\ job.user \in Users /\ job.cfg \in Configs /\ job.cfg.cap \in Nat
           /\ job.seen \in Nat /\ job.amt \in Nat /\ job.price \in Nat
           /\ bn \in Blocks /\ bn \in 1..Len(chain) /\ spent[job.user] \in Nat
           /\ copies[job.user][bn] \in Nat /\ fills[job.user][bn] \in Nat
<1>1. job \in Jobs
  BY DEF TypeOK
<1>2. bn >= 1 /\ bn <= head
  <2>1. pc # "poll" /\ pc \in Copying
    BY DEF Copying, Buying
  <2>2. bn <= head /\ last >= 0 /\ (bn >= Lo(last, head) \/ bn = head + 1)
    BY <2>1 DEF PassInv
  <2> QED BY <2>2, ChainTypes
<1>3. bn \in Blocks /\ bn \in 1..Len(chain)
  BY <1>2, ChainTypes, ChainBounds DEF Blocks
<1>4. job.cfg.cap \in Nat
  BY <1>1, CopyAssumption DEF Jobs, Sizing
<1> QED BY <1>1, <1>3, <1>4 DEF TypeOK, Jobs

-----------------------------------------------------------------------------
(* Types *)

LEMMA NextPass == TypeOK /\ PassInv /\ [Next]_vars => PassInv'
<1> SUFFICES ASSUME TypeOK, PassInv, [Next]_vars PROVE PassInv'
    OBVIOUS
<1> USE ChainTypes DEF scanVars, copyVars, bookVars, histVars, Copying, Buying
<1>1. CASE Poll
  <2>1. PICK h \in 1..Len(chain) :
            LET l == IF last = -1 THEN h - 1 ELSE last IN
            last' = l /\ head' = h /\ bn' = IF Lo(l, h) > h THEN h + 1 ELSE Lo(l, h)
    BY <1>1 DEF Poll
  <2>2. last' \in Int /\ last' >= 0
    BY <2>1 DEF TypeOK
  <2> QED BY <1>1, <2>1, <2>2 DEF Poll, PassInv
<1>2. CASE PassOver \/ Served
  BY <1>2 DEF PassOver, Served, PassInv
<1>3. CASE ReadSpent \/ Price \/ RecordFill
  BY <1>3 DEF ReadSpent, Price, RecordFill, Onward, PassInv, Buy
<1>7. CASE Hit
  <2>1. bn \in 1..Len(chain)
    BY <1>7 DEF Hit, PassInv, TypeOK
  <2>2. Buy \in Buys
    BY <1>7, <2>1 DEF Hit, Buy, TypeOK
  <2> QED BY <1>7, <2>2 DEF Hit, PassInv, Buy
<1>4. CASE EndPass \/ Fail \/ Restart
  BY <1>4 DEF EndPass, Fail, Restart, PassInv
<1>5. CASE Sushi \/ Relay
  BY <1>5, Purchases DEF Filled, NotFilled, GivenUp, Onward, PassInv, Buy
<1>8. ASSUME NEW x \in Buys \cup {Nothing}, NewBlock(x) PROVE PassInv'
  <2>1. pc \in Copying => bn \in 1..Len(chain)
    BY DEF PassInv, TypeOK
  <2>2. pc \in Copying => Buy' = Buy
    BY <1>8, <2>1 DEF NewBlock, Buy, TypeOK
  <2> QED BY <1>8, <2>2 DEF NewBlock, PassInv
<1>6. CASE \/ \E u \in Users, l \in Leaders, c \in Configs : SetCopy(u, l, c)
           \/ Refresh \/ (\E u \in Users : Age(u)) \/ UNCHANGED vars
  BY <1>6 DEF SetCopy, Refresh, Age, vars, PassInv, Buy
<1> QED BY <1>1, <1>2, <1>3, <1>4, <1>5, <1>6, <1>7, <1>8 DEF Next

LEMMA NextTypes == TypeOK /\ PassInv /\ [Next]_vars => TypeOK'
<1> SUFFICES ASSUME TypeOK, PassInv, [Next]_vars PROVE TypeOK'
    OBVIOUS
<1> USE DEF scanVars, copyVars, bookVars, histVars
<1>1. ASSUME NEW x \in Buys \cup {Nothing}, NewBlock(x) PROVE TypeOK'
  <2>1. chain' \in Seq(Buys \cup {Nothing}) /\ Len(chain') = Len(chain) + 1
    BY <1>1 DEF NewBlock, TypeOK
  <2>2. Len(chain') <= MaxBlocks /\ head \in 0..Len(chain') /\ last \in -1..Len(chain')
    BY <1>1, <2>1, ChainTypes DEF NewBlock, TypeOK
  <2> QED BY <1>1, <2>1, <2>2 DEF NewBlock, TypeOK
<1>2. ASSUME NEW u \in Users, NEW l \in Leaders, NEW c \in Configs, SetCopy(u, l, c) PROVE TypeOK'
  BY <1>2 DEF SetCopy, TypeOK
<1>3. CASE Refresh
  BY <1>3 DEF Refresh, TypeOK
<1>4. ASSUME NEW u \in Users, Age(u) PROVE TypeOK'
  BY <1>4 DEF Age, TypeOK
<1>5. CASE Poll
  <2>1. PICK h \in 1..Len(chain) :
            LET l == IF last = -1 THEN h - 1 ELSE last IN
            /\ last' = l /\ head' = h
            /\ bn' = IF Lo(l, h) > h THEN h + 1 ELSE Lo(l, h)
            /\ gone' = gone \cup (IF last = -1 THEN 1..l ELSE {}) \cup ((l + 1)..(Lo(l, h) - 1))
    BY <1>5 DEF Poll
  <2>2. last' \in 0..Len(chain) /\ head' \in 0..Len(chain)
    BY <2>1, ChainTypes DEF TypeOK
  <2>3. Lo(last', head') > last' /\ Lo(last', head') \in Int
    BY <2>2, LoIs, ChainTypes
  <2>4. bn' \in 0..(head' + 1)
    BY <2>1, <2>2, <2>3
  <2>5. Lo(last', head') <= last' + 1 \/ Lo(last', head') <= head'
    <3>1. last' \in Int /\ head' \in Int /\ Span \in Nat
      BY <2>2, CopyAssumption, ChainTypes
    <3> QED BY <3>1, LoIs
  <2>6. gone' \subseteq Blocks
    <3>1. gone' \subseteq gone \cup (1..last') \cup ((last' + 1)..(Lo(last', head') - 1))
      BY <2>1
    <3>2. last' <= MaxBlocks /\ head' <= MaxBlocks /\ last' \in Nat /\ head' \in Nat
      BY <2>2, ChainTypes DEF TypeOK
    <3>3. (1..last') \subseteq Blocks
      BY <3>2, InBlocks
    <3>4. Lo(last', head') - 1 \in Int /\ Lo(last', head') - 1 <= MaxBlocks /\ last' + 1 \in Int
      BY <3>2, <2>3, <2>5, ChainTypes
    <3>5. (last' + 1)..(Lo(last', head') - 1) \subseteq Blocks
      BY <3>2, <3>4, InBlocks
    <3> QED BY <3>1, <3>3, <3>5 DEF TypeOK
  <2> QED BY <1>5, <2>2, <2>4, <2>6 DEF Poll, TypeOK, Buying
<1>6. CASE PassOver \/ Served
  <2>1. bn <= head /\ bn >= 1
    BY <1>6, ChainTypes DEF PassOver, Served, PassInv, Copying
  <2>2. bn \in Blocks /\ bn + 1 \in 0..(head + 1)
    BY <2>1, ChainTypes, ChainBounds DEF Blocks
  <2> QED BY <1>6, <2>2 DEF PassOver, Served, TypeOK, Buying
<1>7. CASE Hit
  BY <1>7 DEF Hit, TypeOK, Buying
<1>8. CASE EndPass
  <2>1. (head + 1)..last \subseteq Blocks
    BY ChainTypes, ChainBounds, InBlocks
  <2>2. head' = 0 /\ bn' = 0 /\ last' = head /\ chain' = chain
    BY <1>8 DEF EndPass
  <2>3. head' \in 0..Len(chain') /\ last' \in -1..Len(chain') /\ bn' \in 0..(head' + 1)
    BY <2>2, ChainTypes, ChainBounds
  <2>4. again' \subseteq Blocks
    BY <1>8, <2>1 DEF EndPass, TypeOK
  <2> QED BY <1>8, <2>3, <2>4 DEF EndPass, TypeOK, Buying
<1>9. CASE Fail
  <2>1. bn <= head /\ last >= 0
    BY <1>9, ChainTypes DEF Fail, PassInv
  <2>2. Lo(last, head)..bn \subseteq Blocks
    BY <2>1, ChainTypes, ChainBounds, InBlocks
  <2>3. pc = "record" => Now \in Users \X Blocks
    BY JobTypes DEF Now, Buying
  <2>4. head' = 0 /\ bn' = 0 /\ last' = last /\ chain' = chain
    BY <1>9 DEF Fail
  <2>5. head' \in 0..Len(chain') /\ last' \in -1..Len(chain') /\ bn' \in 0..(head' + 1)
    BY <2>1, <2>4, ChainTypes, ChainBounds
  <2>6. again' \subseteq Blocks
    BY <1>9, <2>2 DEF Fail, TypeOK
  <2>7. lost' \subseteq Users \X Blocks
    BY <1>9, <2>3 DEF Fail, TypeOK
  <2> QED BY <1>9, <2>5, <2>6, <2>7 DEF Fail, TypeOK, Buying
<1>10. CASE ReadSpent
  <2>1. PICK t \in todo : job' = [user |-> t[1], cfg |-> t[2], seen |-> spent[t[1]], amt |-> 0, price |-> 0]
    BY <1>10 DEF ReadSpent
  <2>2. t[1] \in Users /\ t[2] \in Configs /\ spent[t[1]] \in Nat
    BY DEF TypeOK
  <2>3. job' \in Jobs
    BY <2>1, <2>2 DEF Jobs
  <2>4. job' # Nothing
    BY <2>3, CopyAssumption
  <2> QED BY <1>10, <2>3, <2>4 DEF ReadSpent, TypeOK, Buying
<1>11. CASE Price
  <2>1. ASSUME NEW p \in Prices, NEW n \in Decide(Buy, job.cfg, job.seen, p),
               job' = [job EXCEPT !.amt = n, !.price = p], pc' = "buy"
        PROVE  TypeOK'
    <3>1. Buy \in Buys /\ job \in Jobs /\ job # Nothing /\ job.cfg \in Configs /\ job.seen \in Nat /\ p \in Nat
      BY <1>11, JobTypes, CopyAssumption DEF Price, PassInv, Copying
    <3>2. n \in Nat /\ n > 0
      BY <3>1, DecideFits
    <3>3. job' \in Jobs /\ job'.amt = n
      BY <2>1, <3>1, <3>2 DEF Jobs
    <3>4. job' # Nothing
      BY <3>3, CopyAssumption
    <3> QED BY <1>11, <2>1, <3>2, <3>3, <3>4 DEF Price, TypeOK, Buying
  <2> QED BY <1>11, <2>1 DEF Price, TypeOK, Buying
<1>12. CASE Sushi \/ Relay
  <2>1. job.user \in Users /\ bn \in Blocks /\ pc \in Buying
    BY <1>12, Purchases, JobTypes DEF Buying
  <2>2. Bought => copies' \in [Users -> [Blocks -> Nat]]
    BY <2>1 DEF Bought, TypeOK
  <2>3. Now \in Users \X Blocks
    BY <2>1 DEF Now
  <2>4. CASE Filled
    BY <2>1, <2>2, <2>4 DEF Filled, TypeOK, Buying
  <2>5. ASSUME NEW next \in {"copy", "relay"}, NotFilled(next) PROVE TypeOK'
    BY <2>1, <2>5 DEF NotFilled, Onward, TypeOK, Buying
  <2>6. ASSUME NEW next \in {"copy", "relay"}, GivenUp(next) PROVE TypeOK'
    BY <2>1, <2>2, <2>3, <2>6 DEF GivenUp, Onward, TypeOK, Buying
  <2> QED BY <1>12, <2>4, <2>5, <2>6, Purchases
<1>13. CASE RecordFill
  <2>1. /\ job.user \in Users /\ bn \in Blocks /\ spent[job.user] \in Nat
        /\ job.amt \in Nat /\ job.price \in Nat
    BY <1>13, JobTypes DEF RecordFill, Buying
  <2>2. spent[job.user] + job.amt * job.price \in Nat
    BY <2>1, SMT
  <2>3. spent' \in [Users -> Nat]
    <3>1. spent \in [Users -> Nat]
      BY DEF TypeOK
    <3>2. spent' = [spent EXCEPT ![job.user] = spent[job.user] + job.amt * job.price]
      BY <1>13 DEF RecordFill
    <3> DEFINE total == spent[job.user] + job.amt * job.price
    <3>3. total \in Nat
      BY <2>2
    <3>4. spent' = [spent EXCEPT ![job.user] = total]
      BY <3>2
    <3> HIDE DEF total
    <3> QED BY <3>1, <3>3, <3>4
  <2>4. fills' \in [Users -> [Blocks -> Nat]]
    BY <1>13, <2>1 DEF RecordFill, TypeOK
  <2> QED BY <1>13, <2>3, <2>4 DEF RecordFill, Onward, TypeOK, Buying
<1>14. CASE Restart
  <2>1. 1..Len(chain) \subseteq Blocks
    BY ChainTypes, ChainBounds, InBlocks
  <2>2. pc \in Buying => job.user \in Users /\ bn \in Blocks /\ Now \in Users \X Blocks
    BY JobTypes DEF Now, Buying
  <2>3. copies' \in [Users -> [Blocks -> Nat]]
    <3>1. CASE copies' = copies
      BY <3>1 DEF TypeOK
    <3>2. CASE pc \in {"buy", "relay"} /\ Bought
      <4>1. pc \in Buying /\ copies \in [Users -> [Blocks -> Nat]]
        BY <3>2 DEF TypeOK, Buying
      <4> QED BY <2>2, <3>2, <4>1, BoughtTypes
    <3> QED BY <1>14, <3>1, <3>2 DEF Restart
  <2>4. lost' \subseteq lost \cup {Now} /\ (lost' # lost => pc \in Buying)
    BY <1>14 DEF Restart, Buying
  <2>5. lost' \subseteq Users \X Blocks
    BY <2>2, <2>4 DEF TypeOK
  <2>6. head' = 0 /\ bn' = 0 /\ last' = -1 /\ chain' = chain
    BY <1>14 DEF Restart
  <2>7. head' \in 0..Len(chain') /\ last' \in -1..Len(chain') /\ bn' \in 0..(head' + 1)
    BY <2>6, ChainTypes
  <2>8. again' \subseteq Blocks
    BY <1>14, <2>1 DEF Restart, TypeOK
  <2> QED BY <1>14, <2>3, <2>5, <2>7, <2>8 DEF Restart, TypeOK, Buying
<1>15. CASE UNCHANGED vars
  BY <1>15 DEF vars, TypeOK
<1> QED BY <1>1, <1>2, <1>3, <1>4, <1>5, <1>6, <1>7, <1>8, <1>9, <1>10, <1>11, <1>12, <1>13, <1>14,
           <1>15 DEF Next

-----------------------------------------------------------------------------
(* The rest of the invariant *)

LEMMA NextTodo == TypeOK /\ TodoInv /\ [Next]_vars => TodoInv'
<1> SUFFICES ASSUME TypeOK, TodoInv, [Next]_vars PROVE TodoInv'
    OBVIOUS
<1> USE DEF scanVars, copyVars, bookVars, histVars, Buying
<1>1. CASE Hit
  <2>1. \A t \in todo' : t \in Users \X Configs /\ t[2] = subs[t[1]][Buy.leader]
    BY <1>1 DEF Hit
  <2>2. \A t \in todo' : t = <<t[1], t[2]>>
    BY <2>1
  <2>3. \A s, t \in todo' : s[1] = t[1] => s[2] = t[2]
    BY <2>1
  <2>4. \A s, t \in todo' : s[1] = t[1] => s = t
    BY <2>2, <2>3
  <2> QED BY <1>1, <2>4 DEF Hit, TodoInv
<1>2. CASE ReadSpent
  <2>1. PICK t \in todo : job'.user = t[1] /\ todo' = todo \ {t}
    BY <1>2 DEF ReadSpent
  <2> QED BY <2>1 DEF TodoInv
<1>3. CASE Price
  <2>1. pc' # "copy" => job'.user = job.user
    BY <1>3 DEF Price, TypeOK, Jobs
  <2> QED BY <1>3, <2>1 DEF Price, TodoInv
<1>4. CASE Sushi \/ Relay
  BY <1>4, Purchases DEF Filled, NotFilled, GivenUp, Onward, TodoInv
<1>5. CASE RecordFill \/ Poll \/ PassOver \/ Served \/ EndPass \/ Fail \/ Restart
  BY <1>5 DEF RecordFill, Onward, Poll, PassOver, Served, EndPass, Fail, Restart, TodoInv
<1>6. CASE \/ \E x \in Buys \cup {Nothing} : NewBlock(x)
           \/ \E u \in Users, l \in Leaders, c \in Configs : SetCopy(u, l, c)
           \/ Refresh \/ (\E u \in Users : Age(u)) \/ UNCHANGED vars
  BY <1>6 DEF NewBlock, SetCopy, Refresh, Age, vars, TodoInv
<1> QED BY <1>1, <1>2, <1>3, <1>4, <1>5, <1>6 DEF Next

LEMMA NextGone == TypeOK /\ PassInv /\ GoneInv /\ [Next]_vars => GoneInv'
<1> SUFFICES ASSUME TypeOK, PassInv, GoneInv, [Next]_vars PROVE GoneInv'
    OBVIOUS
<1> USE ChainTypes DEF scanVars, copyVars, bookVars, histVars, Buying, Copying
<1>1. CASE Poll
  <2>1. PICK h \in 1..Len(chain) :
            LET l == IF last = -1 THEN h - 1 ELSE last IN
            /\ last' = l /\ head' = h
            /\ bn' = IF Lo(l, h) > h THEN h + 1 ELSE Lo(l, h)
            /\ gone' = gone \cup (IF last = -1 THEN 1..l ELSE {}) \cup ((l + 1)..(Lo(l, h) - 1))
    BY <1>1 DEF Poll
  <2>2. last' \in Int /\ head' \in Int /\ last' >= 0
    BY <2>1 DEF TypeOK
  <2>3. \A b \in 1..last' : b \in gone'
    BY <2>1 DEF GoneInv
  <2>4. head' > last' => Lo(last', head') \in Int /\ bn' = Lo(last', head')
    <3>1. Lo(last', head') \in Int /\ (head' > last' => Lo(last', head') <= head')
      BY <2>2, LoIs
    <3> QED BY <2>1, <3>1
  <2>5. (last' + 1)..(Lo(last', head') - 1) \subseteq gone'
    BY <2>1
  <2>6. head' > last' => \A b \in 1..(bn' - 1) : b \in gone'
    BY <2>2, <2>3, <2>4, <2>5
  <2> QED BY <2>3, <2>6 DEF GoneInv
<1>2. CASE PassOver \/ Served
  BY <1>2 DEF PassOver, Served, GoneInv, PassInv
<1>3. CASE Hit \/ ReadSpent \/ Price \/ RecordFill
  BY <1>3 DEF Hit, ReadSpent, Price, RecordFill, Onward, GoneInv
<1>4. CASE EndPass
  <2>1. head <= last \/ bn = head + 1
    BY <1>4 DEF EndPass, TypeOK
  <2> QED BY <1>4, <2>1 DEF EndPass, GoneInv
<1>5. CASE Fail \/ Restart
  BY <1>5 DEF Fail, Restart, GoneInv
<1>6. CASE Sushi \/ Relay
  BY <1>6, Purchases DEF Filled, NotFilled, GivenUp, Onward, GoneInv
<1>7. CASE \/ \E x \in Buys \cup {Nothing} : NewBlock(x)
           \/ \E u \in Users, l \in Leaders, c \in Configs : SetCopy(u, l, c)
           \/ Refresh \/ (\E u \in Users : Age(u)) \/ UNCHANGED vars
  BY <1>7 DEF NewBlock, SetCopy, Refresh, Age, vars, GoneInv
<1> QED BY <1>1, <1>2, <1>3, <1>4, <1>5, <1>6, <1>7 DEF Next

(* A step that buys nothing and opens nothing that has been bought. *)
LEMMA OpenFrame ==
    ASSUME OpenInv, copies' = copies, again \subseteq again', lost \subseteq lost',
           \A u \in Users, b \in Blocks :
               b \notin again' /\ Open(u, b)' => Open(u, b) \/ copies[u][b] = 0
    PROVE  OpenInv'
BY DEF OpenInv

(* A purchase: it closes the block for its user, or is marked lost. *)
LEMMA OpenBuy ==
    ASSUME TypeOK, PassInv, OpenInv, pc \in {"buy", "relay"}, Bought,
           again \subseteq again', lost \subseteq lost',
           \A u \in Users, b \in Blocks :
               b \notin again' /\ Open(u, b)' => Open(u, b) \/ copies[u][b] = 0,
           \/ Now \in lost'
           \/ \A u \in Users, b \in Blocks : Now = <<u, b>> => ~Open(u, b)'
    PROVE  OpenInv'
<1>1. job.user \in Users /\ bn \in Blocks /\ copies[job.user][bn] \in Nat
  BY JobTypes DEF Buying
<1>2. /\ copies'[job.user][bn] = copies[job.user][bn] + 1
      /\ \A u \in Users, b \in Blocks : u # job.user \/ b # bn => copies'[u][b] = copies[u][b]
  BY <1>1 DEF Bought, TypeOK
<1>3. Open(job.user, bn)
  <2>1. bn > last
    BY ChainTypes DEF PassInv, Copying, Buying
  <2> QED BY <2>1 DEF Open
<1> SUFFICES ASSUME NEW u \in Users, NEW b \in Blocks, b \notin again', <<u, b>> \notin lost'
             PROVE  copies'[u][b] <= 1 /\ (Open(u, b)' => copies'[u][b] = 0)
    BY DEF OpenInv
<1>4. CASE u = job.user /\ b = bn
  <2>1. copies[u][b] = 0
    BY <1>3, <1>4 DEF OpenInv
  <2> QED BY <1>1, <1>2, <1>4, <2>1 DEF Now
<1>5. CASE u # job.user \/ b # bn
  BY <1>2, <1>5 DEF OpenInv
<1> QED BY <1>4, <1>5

LEMMA NextOpen == TypeOK /\ PassInv /\ TodoInv /\ OpenInv /\ [Next]_vars => OpenInv'
<1> SUFFICES ASSUME TypeOK, PassInv, TodoInv, OpenInv, [Next]_vars PROVE OpenInv'
    OBVIOUS
<1> USE ChainTypes DEF scanVars, copyVars, bookVars, histVars, Buying, Copying
<1>0. \A b \in Blocks : b \in Int /\ b >= 1
  BY DEF Blocks
<1>1. CASE Poll
  <2>1. last' >= last /\ last' \in Int
    BY <1>1 DEF Poll, TypeOK
  <2>2. \A u \in Users, b \in Blocks : Open(u, b)' => Open(u, b)
    BY <1>0, <1>1, <2>1 DEF Poll, Open
  <2> QED BY <1>1, <2>2, OpenFrame DEF Poll
<1>2. CASE PassOver \/ Served
  <2>1. \A u \in Users, b \in Blocks : Open(u, b)' => Open(u, b)
    BY <1>0, <1>2 DEF PassOver, Served, Open, PassInv
  <2> QED BY <1>2, <2>1, OpenFrame DEF PassOver, Served
<1>3. CASE Hit
  <2>1. \A u \in Users, b \in Blocks : Open(u, b)' => Open(u, b)
    BY <1>0, <1>3 DEF Hit, Open
  <2> QED BY <1>3, <2>1, OpenFrame DEF Hit
<1>4. CASE EndPass
  <2>1. \A u \in Users, b \in Blocks : b \notin again' /\ Open(u, b)' => Open(u, b)
    <3> SUFFICES ASSUME NEW u \in Users, NEW b \in Blocks, b \notin again', b > head
                 PROVE  Open(u, b)
        BY <1>4 DEF EndPass, Open
    <3>1. b > last
      BY <1>0, <1>4 DEF EndPass
    <3>2. bn = head + 1
      BY <1>4 DEF EndPass, TypeOK
    <3> QED BY <1>0, <1>4, <3>1, <3>2 DEF EndPass, Open
  <2> QED BY <1>4, <2>1, OpenFrame DEF EndPass
<1>5. CASE Fail
  <2>1. \A u \in Users, b \in Blocks : b \notin again' /\ Open(u, b)' => Open(u, b)
    <3> SUFFICES ASSUME NEW u \in Users, NEW b \in Blocks, b \notin again', b > last
                 PROVE  Open(u, b)
        BY <1>5 DEF Fail, Open
    <3>1. b < Lo(last, head) \/ b > bn
      BY <1>0, <1>5 DEF Fail
    <3> QED BY <1>0, <3>1 DEF Open
  <2> QED BY <1>5, <2>1, OpenFrame DEF Fail
<1>6. CASE ReadSpent
  <2>1. PICK t \in todo : job'.user = t[1] /\ todo' = todo \ {t}
    BY <1>6 DEF ReadSpent
  <2>2. \A u \in Users, b \in Blocks : Open(u, b)' => Open(u, b)
    BY <1>0, <1>6, <2>1 DEF ReadSpent, Open
  <2> QED BY <1>6, <2>2, OpenFrame DEF ReadSpent
<1>7. CASE Price
  <2>1. pc' # "copy" => job'.user = job.user
    BY <1>7 DEF Price, TypeOK, Jobs
  <2>2. \A u \in Users, b \in Blocks : Open(u, b)' => Open(u, b)
    BY <1>0, <1>7, <2>1 DEF Price, Open
  <2> QED BY <1>7, <2>2, OpenFrame DEF Price
<1>8. CASE Sushi \/ Relay
  <2>1. CASE Filled
    <3>1. \A u \in Users, b \in Blocks : Open(u, b)' => Open(u, b)
      BY <1>0, <2>1 DEF Filled, Open
    <3>2. \A u \in Users, b \in Blocks : Now = <<u, b>> => ~Open(u, b)'
      <4>1. Lo(last, head) <= bn /\ \A t \in todo : t[1] # job.user
        BY <1>8, Purchases DEF PassInv, TodoInv
      <4> QED BY <1>0, <2>1, <4>1 DEF Filled, Open, Now
    <3> QED BY <1>8, <2>1, <3>1, <3>2, OpenBuy, Purchases DEF Filled
  <2>2. ASSUME NEW next \in {"copy", "relay"}, NotFilled(next) PROVE OpenInv'
    <3>1. \A u \in Users, b \in Blocks : Open(u, b)' => Open(u, b)
      BY <1>0, <1>8, <2>2, Purchases DEF NotFilled, Onward, Open
    <3> QED BY <2>2, <3>1, OpenFrame DEF NotFilled
  <2>3. ASSUME NEW next \in {"copy", "relay"}, GivenUp(next) PROVE OpenInv'
    <3>1. \A u \in Users, b \in Blocks : Open(u, b)' => Open(u, b)
      BY <1>0, <1>8, <2>3, Purchases DEF GivenUp, Onward, Open
    <3> QED BY <1>8, <2>3, <3>1, OpenBuy, Purchases DEF GivenUp
  <2> QED BY <1>8, <2>1, <2>2, <2>3, Purchases
<1>9. CASE RecordFill
  <2>1. \A u \in Users, b \in Blocks : Open(u, b)' => Open(u, b)
    BY <1>0, <1>9 DEF RecordFill, Onward, Open
  <2> QED BY <1>9, <2>1, OpenFrame DEF RecordFill
<1>10. CASE Restart
  <2>1. \A u \in Users, b \in Blocks : b \notin again' => Open(u, b)
    <3> SUFFICES ASSUME NEW u \in Users, NEW b \in Blocks, b > Len(chain) PROVE Open(u, b)
        BY <1>0, <1>10 DEF Restart
    <3>0. last <= Len(chain) /\ head <= Len(chain)
      BY DEF TypeOK
    <3>1. b > last /\ b > head
      BY <1>0, <3>0
    <3>2. bn <= head + 1
      BY DEF TypeOK
    <3>3. b > bn \/ (b = bn /\ bn = head + 1)
      BY <1>0, <3>1, <3>2
    <3>4. bn = head + 1 => pc \in {"poll", "scan"}
      BY DEF PassInv, TypeOK
    <3> QED BY <3>1, <3>3, <3>4 DEF Open
  <2>2. again \subseteq again' /\ lost \subseteq lost'
    BY <1>10 DEF Restart
  <2>3. CASE copies' = copies
    BY <2>1, <2>2, <2>3, OpenFrame
  <2>4. CASE pc \in {"buy", "relay"} /\ Bought /\ Now \in lost'
    BY <2>1, <2>2, <2>4, OpenBuy
  <2> QED BY <1>10, <2>3, <2>4 DEF Restart
<1>11. CASE \/ \E x \in Buys \cup {Nothing} : NewBlock(x)
            \/ \E u \in Users, l \in Leaders, c \in Configs : SetCopy(u, l, c)
            \/ Refresh \/ (\E u \in Users : Age(u)) \/ UNCHANGED vars
  <2>1. UNCHANGED <<last, pc, head, bn, todo, job, copies, again, lost>>
    BY <1>11 DEF NewBlock, SetCopy, Refresh, Age, vars
  <2> QED BY <2>1 DEF OpenInv, Open
<1> QED BY <1>1, <1>2, <1>3, <1>4, <1>5, <1>6, <1>7, <1>8, <1>9, <1>10, <1>11 DEF Next

LEMMA LedgerFrame ==
    ASSUME LedgerInv, UNCHANGED <<fills, copies>>, lost \subseteq lost', pc' # "record",
           pc = "record" => Now \in lost'
    PROVE  LedgerInv'
BY DEF LedgerInv, LedgerTrue

(* A purchase that is about to be recorded, or is lost. *)
LEMMA LedgerBuy ==
    ASSUME TypeOK, PassInv, LedgerInv, pc \in {"buy", "relay"}, Bought, fills' = fills,
           lost \subseteq lost',
           \/ pc' = "record" /\ UNCHANGED <<job, bn, lost>>
           \/ pc' # "record" /\ Now \in lost'
    PROVE  LedgerInv'
<1> DEFINE v == job.user
<1>1. v \in Users /\ bn \in Blocks /\ copies[v][bn] \in Nat /\ fills[v][bn] \in Nat
  BY JobTypes DEF Buying
<1>2. /\ copies'[v][bn] = copies[v][bn] + 1
      /\ \A u \in Users, b \in Blocks : u # v \/ b # bn => copies'[u][b] = copies[u][b]
  BY <1>1 DEF Bought, TypeOK
<1>3. fills[v][bn] <= copies[v][bn] /\ (Now \notin lost => fills[v][bn] = copies[v][bn])
  BY <1>1 DEF LedgerInv, LedgerTrue, Now
<1>4. LedgerTrue'
  <2> SUFFICES ASSUME NEW u \in Users, NEW b \in Blocks
               PROVE  /\ fills[u][b] <= copies'[u][b]
                      /\ fills[u][b] < copies'[u][b] =>
                             <<u, b>> \in lost' \/ (pc' = "record" /\ Now' = <<u, b>>)
      BY DEF LedgerTrue
  <2>1. CASE u = v /\ b = bn
    BY <2>1, <1>1, <1>2, <1>3 DEF Now
  <2>2. CASE u # v \/ b # bn
    BY <2>2, <1>2 DEF LedgerInv, LedgerTrue
  <2> QED BY <2>1, <2>2
<1>5. pc' = "record" => /\ fills'[job'.user][bn'] < copies'[job'.user][bn']
                        /\ Now' \notin lost' => copies'[job'.user][bn'] = fills'[job'.user][bn'] + 1
  BY <1>1, <1>2, <1>3 DEF Now
<1> QED BY <1>4, <1>5 DEF LedgerInv

LEMMA NextLedger == TypeOK /\ PassInv /\ LedgerInv /\ [Next]_vars => LedgerInv'
<1> SUFFICES ASSUME TypeOK, PassInv, LedgerInv, [Next]_vars PROVE LedgerInv'
    OBVIOUS
<1> USE DEF scanVars, copyVars, bookVars, histVars, Buying, Copying
<1>1. CASE Poll \/ PassOver \/ Hit \/ Served \/ EndPass \/ ReadSpent \/ Price
  BY <1>1, LedgerFrame DEF Poll, PassOver, Hit, Served, EndPass, ReadSpent, Price
<1>2. CASE Fail
  BY <1>2, LedgerFrame DEF Fail
<1>3. CASE Sushi \/ Relay
  <2>1. CASE Filled
    BY <1>3, <2>1, LedgerBuy, Purchases DEF Filled
  <2>2. ASSUME NEW next \in {"copy", "relay"}, NotFilled(next) PROVE LedgerInv'
    BY <1>3, <2>2, LedgerFrame, Purchases DEF NotFilled, Onward
  <2>3. ASSUME NEW next \in {"copy", "relay"}, GivenUp(next) PROVE LedgerInv'
    BY <1>3, <2>3, LedgerBuy, Purchases DEF GivenUp, Onward
  <2> QED BY <1>3, <2>1, <2>2, <2>3, Purchases
<1>4. CASE RecordFill
  <2> DEFINE v == job.user
  <2>1. v \in Users /\ bn \in Blocks /\ copies[v][bn] \in Nat /\ fills[v][bn] \in Nat /\ pc = "record"
    BY <1>4, JobTypes DEF RecordFill
  <2>2. /\ fills'[v][bn] = fills[v][bn] + 1
        /\ \A u \in Users, b \in Blocks : u # v \/ b # bn => fills'[u][b] = fills[u][b]
    BY <1>4, <2>1 DEF RecordFill, TypeOK
  <2>3. UNCHANGED <<copies, lost>> /\ pc' = "copy"
    BY <1>4 DEF RecordFill, Onward
  <2> SUFFICES ASSUME NEW u \in Users, NEW b \in Blocks
               PROVE  /\ fills'[u][b] <= copies[u][b]
                      /\ fills'[u][b] < copies[u][b] => <<u, b>> \in lost
      BY <2>3 DEF LedgerInv, LedgerTrue
  <2>4. CASE u = v /\ b = bn
    BY <2>1, <2>2, <2>4 DEF LedgerInv, Now
  <2>5. CASE u # v \/ b # bn
    BY <2>1, <2>2, <2>5 DEF LedgerInv, LedgerTrue, Now
  <2> QED BY <2>4, <2>5
<1>5. CASE Restart
  <2>1. CASE copies' = copies /\ lost' = IF pc = "record" THEN lost \cup {Now} ELSE lost
    BY <1>5, <2>1, LedgerFrame DEF Restart
  <2>2. CASE pc \in {"buy", "relay"} /\ Bought /\ lost' = lost \cup {Now}
    BY <1>5, <2>2, LedgerBuy DEF Restart
  <2> QED BY <1>5, <2>1, <2>2 DEF Restart
<1>6. CASE \/ \E x \in Buys \cup {Nothing} : NewBlock(x)
           \/ \E u \in Users, l \in Leaders, c \in Configs : SetCopy(u, l, c)
           \/ Refresh \/ (\E u \in Users : Age(u)) \/ UNCHANGED vars
  <2>1. UNCHANGED <<pc, bn, job, copies, fills, lost>>
    BY <1>6 DEF NewBlock, SetCopy, Refresh, Age, vars
  <2> QED BY <2>1 DEF LedgerInv, LedgerTrue, Now
<1> QED BY <1>1, <1>2, <1>3, <1>4, <1>5, <1>6 DEF Next

LEMMA NextCap == TypeOK /\ PassInv /\ CapInv /\ [Next]_vars => CapInv'
<1> SUFFICES ASSUME TypeOK, PassInv, CapInv, [Next]_vars PROVE CapInv'
    OBVIOUS
<1> USE DEF scanVars, copyVars, bookVars, histVars, Buying
<1>1. ASSUME NEW u \in Users, Age(u) PROVE CapInv'
  <2>1. \A v \in Users : spent'[v] \in Nat /\ spent[v] \in Nat /\ spent'[v] <= spent[v]
    BY <1>1 DEF Age, TypeOK
  <2>2. UNCHANGED <<pc, job>>
    BY <1>1 DEF Age
  <2>3. CASE pc = "price"
    BY <2>1, <2>2, <2>3, JobTypes DEF CapInv
  <2>4. CASE pc \in Buying
    <3>1. /\ job.user \in Users /\ job.amt * job.price \in Nat /\ job.price \in Nat /\ job.cfg.cap \in Nat
      BY <2>4, JobTypes, SMT
    <3> QED BY <2>1, <2>2, <2>4, <3>1 DEF CapInv
  <2> QED BY <2>2, <2>3, <2>4 DEF CapInv
<1>2. CASE ReadSpent
  <2>1. PICK t \in todo : job'.user = t[1] /\ job'.seen = spent[t[1]]
    BY <1>2 DEF ReadSpent
  <2>2. spent[t[1]] \in Nat /\ spent' = spent /\ pc' = "price"
    BY <1>2 DEF ReadSpent, TypeOK
  <2> QED BY <2>1, <2>2 DEF CapInv
<1>3. CASE Price
  <2>1. ASSUME NEW p \in Prices, NEW n \in Decide(Buy, job.cfg, job.seen, p),
               job' = [job EXCEPT !.amt = n, !.price = p], pc' = "buy"
        PROVE  CapInv'
    <3>1. /\ Buy \in Buys /\ job \in Jobs /\ job.cfg \in Configs /\ job.seen \in Nat
          /\ p \in Nat /\ job.cfg.cap \in Nat /\ spent[job.user] \in Nat
      BY <1>3, JobTypes, CopyAssumption DEF Price, PassInv, Copying
    <3>2. n \in Nat /\ n * p \in Nat /\ 2 * (job.seen + n * p) <= 2 * job.cfg.cap + p
      BY <3>1, DecideFits
    <3>3. job'.user = job.user /\ job'.cfg = job.cfg /\ job'.amt = n /\ job'.price = p /\ spent' = spent
      BY <1>3, <2>1, <3>1 DEF Jobs, Price
    <3>4. spent[job.user] <= job.seen
      BY <1>3 DEF Price, CapInv
    <3>5. 2 * (spent[job.user] + n * p) <= 2 * job.cfg.cap + p
      BY <3>1, <3>2, <3>4
    <3> QED BY <2>1, <3>3, <3>5 DEF CapInv
  <2> QED BY <1>3, <2>1 DEF Price, CapInv
<1>4. CASE Sushi \/ Relay
  BY <1>4, Purchases DEF Filled, NotFilled, GivenUp, Onward, CapInv
<1>5. CASE RecordFill \/ Poll \/ PassOver \/ Hit \/ Served \/ EndPass \/ Fail \/ Restart
  BY <1>5 DEF RecordFill, Onward, Poll, PassOver, Hit, Served, EndPass, Fail, Restart, CapInv
<1>6. CASE \/ \E x \in Buys \cup {Nothing} : NewBlock(x)
           \/ \E u \in Users, l \in Leaders, c \in Configs : SetCopy(u, l, c)
           \/ Refresh \/ UNCHANGED vars
  BY <1>6 DEF NewBlock, SetCopy, Refresh, vars, CapInv
<1> QED BY <1>1, <1>2, <1>3, <1>4, <1>5, <1>6 DEF Next

LEMMA InitInv == Init => IInv
<1> SUFFICES ASSUME Init PROVE IInv
    OBVIOUS
<1> USE DEF Init, Buying, Copying
<1>1. subs \in [Users -> [Leaders -> Configs]]
  OBVIOUS
<1>2. TypeOK
  BY <1>1, CopyAssumption DEF TypeOK, Blocks
<1>3. PassInv /\ TodoInv /\ GoneInv /\ CapInv
  BY DEF PassInv, TodoInv, GoneInv, CapInv
<1>4. \A u \in Users, b \in Blocks : copies[u][b] = 0 /\ fills[u][b] = 0
  OBVIOUS
<1>5. OpenInv /\ LedgerInv
  BY <1>4 DEF OpenInv, LedgerInv, LedgerTrue
<1> QED BY <1>2, <1>3, <1>5 DEF IInv

-----------------------------------------------------------------------------
(* The theorems *)

(* The inductive invariant holds. *)
THEOREM CopyInvariance == Spec => []IInv
<1>1. IInv /\ [Next]_vars => IInv'
  BY NextPass, NextTypes, NextTodo, NextGone, NextOpen, NextLedger, NextCap DEF IInv
<1> QED BY <1>1, InitInv, PTL DEF Spec

(* The watcher's and the engine's state keep their types; a purchase is never
   of nothing. *)
THEOREM CopyTypes == Spec => []TypeOK
<1>1. IInv => TypeOK
  BY DEF IInv
<1> QED BY <1>1, CopyInvariance, PTL

(* A buy is copied once for a user, but for the setbacks CopiedOnce names. *)
THEOREM CopiedAtMostOnce == Spec => []CopiedOnce
<1>1. IInv => CopiedOnce
  <2> SUFFICES ASSUME IInv, NEW u \in Users, NEW b \in Blocks, copies[u][b] > 1
               PROVE  b \in again \/ <<u, b>> \in lost
      BY DEF CopiedOnce
  <2>1. copies[u][b] \in Nat
    BY DEF IInv, TypeOK
  <2> QED BY <2>1 DEF IInv, OpenInv
<1> QED BY <1>1, CopyInvariance, PTL

(* No block is left behind unseen and without a reason. *)
THEOREM NoBlockSkipped == Spec => []NothingSkipped
<1>1. IInv => NothingSkipped
  BY DEF IInv, GoneInv, NothingSkipped
<1> QED BY <1>1, CopyInvariance, PTL

(* The daily-cap ledger is the purchases on the chain. *)
THEOREM LedgerIsTrue == Spec => []LedgerTrue
<1>1. IInv => LedgerTrue
  BY DEF IInv, LedgerInv
<1> QED BY <1>1, CopyInvariance, PTL

(* No fill takes the recorded day past the cap, but for rounding. *)
THEOREM FillsWithinCap == Spec => RecordedWithinCap
<1>1. ASSUME IInv, [Next]_vars
      PROVE  [\A u \in Users : spent'[u] > spent[u] =>
                  u = job.user /\ 2 * spent'[u] <= 2 * job.cfg.cap + job.price]_vars
  <2> SUFFICES ASSUME Next, NEW u \in Users, spent'[u] > spent[u]
               PROVE  u = job.user /\ 2 * spent'[u] <= 2 * job.cfg.cap + job.price
      BY <1>1
  <2>1. spent[u] \in Nat /\ spent'[u] \in Nat
    BY <1>1, NextTypes DEF IInv, TypeOK
  <2>2. spent' # spent
    BY <2>1
  <2>3. ASSUME NEW v \in Users, Age(v) PROVE FALSE
    BY <1>1, <2>1, <2>3 DEF Age, IInv, TypeOK
  <2>4. CASE RecordFill
    <3>1. job.user \in Users /\ spent \in [Users -> Nat]
      BY <1>1, <2>4, JobTypes DEF RecordFill, IInv, TypeOK, Buying
    <3>2. spent' = [spent EXCEPT ![job.user] = @ + job.amt * job.price]
      BY <2>4 DEF RecordFill
    <3>3. u = job.user
      BY <3>1, <3>2, <2>1
    <3>4. spent'[u] = spent[job.user] + job.amt * job.price
      BY <3>1, <3>2, <3>3
    <3> QED BY <1>1, <2>4, <3>3, <3>4 DEF RecordFill, IInv, CapInv, Buying
  <2>5. CASE Sushi \/ Relay
    BY <2>2, <2>5, Purchases DEF Filled, NotFilled, GivenUp, bookVars
  <2> QED BY <2>2, <2>3, <2>4, <2>5 DEF Next, NewBlock, SetCopy, Refresh, Poll, PassOver, Hit, Served,
          EndPass, Fail, ReadSpent, Price, Restart, bookVars
<1> QED BY <1>1, CopyInvariance, PTL DEF Spec, RecordedWithinCap
=============================================================================
