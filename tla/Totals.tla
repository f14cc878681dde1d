------------------------------- MODULE Totals -------------------------------
(***************************************************************************)
(* Sums of whole amounts over a set, as the number of units: a unit is an  *)
(* element and one of the numbers up to its amount.  A sum in this form    *)
(* can be reasoned about with the facts about finite sets.                 *)
(***************************************************************************)
EXTENDS Integers, FiniteSets

Units(f, S) == UNION {{x} \X (1..f[x]) : x \in S}

(* The sum of f[x] for x in S. *)
Total(f, S) == Cardinality(Units(f, S))
=============================================================================
