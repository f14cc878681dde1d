----------------------------- MODULE MCMetering -----------------------------
(***************************************************************************)
(* The instance of Metering that TLC checks: two questions of one group,   *)
(* of which the chat of one cannot be reached after a restart.             *)
(***************************************************************************)
EXTENDS Metering
=============================================================================
