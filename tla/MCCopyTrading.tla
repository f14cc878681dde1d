--------------------------- MODULE MCCopyTrading ---------------------------
(* CopyTrading for TLC, in halves of a millionth.  At 2 dollars a millionth the
   fixed copy, of 1.5, just fits the day's 3 dollars, and is rounded, up or
   down; the proportional one, 1.5 times the leader's 1.5, is clamped to 2,
   does not fit, and is sized down to 1.5 and rounded. *)
EXTENDS CopyTrading

CONSTANTS leader

MCBuys == {[leader |-> leader, base |-> FALSE, eth |-> 3]}
MCConfigs ==
    {[enabled |-> TRUE, fixed |-> TRUE, amount |-> 3, max |-> 4, min |-> 2, cap |-> 3],
     [enabled |-> TRUE, fixed |-> FALSE, amount |-> 3, max |-> 4, min |-> 2, cap |-> 3],
     [enabled |-> FALSE, fixed |-> FALSE, amount |-> 3, max |-> 4, min |-> 2, cap |-> 3]}
=============================================================================
