----------------------------- MODULE MCSessions -----------------------------
(* Sessions for TLC: instances and calls that are alike can be exchanged. *)
EXTENDS Sessions, TLC

Symmetry == Permutations(Logins) \cup Permutations(Requests)
            \cup Permutations(Gateways) \cup Permutations(Auths)
=============================================================================
