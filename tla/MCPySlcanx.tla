----------------------------- MODULE MCPySlcanx -----------------------------
(***************************************************************************)
(* An instance of PySlcanx for TLC: two buses share channel 0, a third is  *)
(* on channel 1, and the port can be opened twice.                         *)
(***************************************************************************)
EXTENDS PySlcanx, TLC

CONSTANTS b1, b2, b3

TwoShare == (b1 :> 0) @@ (b2 :> 0) @@ (b3 :> 1)

=============================================================================
