----------------------------- MODULE MCSlcanRx -----------------------------
(***************************************************************************)
(* Instances of SlcanRx for TLC: two channels, and an rbuff that two       *)
(* merged lines overflow.                                                  *)
(***************************************************************************)
EXTENDS SlcanRx

MCChannels == {0, 1}

=============================================================================
