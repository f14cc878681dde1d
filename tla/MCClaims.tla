------------------------------ MODULE MCClaims ------------------------------
(***************************************************************************)
(* Instances of Claims for TLC.                                            *)
(***************************************************************************)
EXTENDS Claims

CONSTANTS c1, o1, o2, alice

(* Both claims are addressed to alice and two people, whoever they are, open
   the first one's link; the third opening is of either link.  Handles, tokens
   and openings are interchangeable, so this loses only the case of three
   openings spread the other way round. *)
Cast ==
    /\ \A c \in Tokens : addressee[c] = alice
    /\ link[o1] = c1 /\ link[o2] = c1
=============================================================================
