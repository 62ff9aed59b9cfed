----------------------------- MODULE MCSlcanTx -----------------------------
(***************************************************************************)
(* Instances of SlcanTx for TLC.  Two channels: channel 0 sends its lines  *)
(* without a prefix and is the first to be unregistered, channel 1 stands  *)
(* for the others.                                                         *)
(***************************************************************************)
EXTENDS SlcanTx

(* Channel 0 is configured by the daemon; `ip link set` configured channel  *)
(* 1, which listens only.                                                   *)
Mixed == [c \in Channels |->
    [bitrate |-> c = 1, sample |-> FALSE, fd |-> FALSE, dsample |-> FALSE,
     errRst |-> FALSE, listen |-> c = 1]]

(* A tty that takes what fits, a cdc-acm port, and one with batching. *)
Ttys == {[batch |-> FALSE, partial |-> TRUE], [batch |-> FALSE, partial |-> FALSE],
         [batch |-> TRUE, partial |-> FALSE]}
Batched == {[batch |-> TRUE, partial |-> FALSE]}
Plain == {[batch |-> FALSE, partial |-> TRUE]}

(* Bounds on what happens together. *)
Bounds ==
    /\ sent[0] + closes <= IF mode.batch THEN 2 ELSE IF mode.partial THEN 3 ELSE 4
    /\ ldisc # "open" => sent[0] <= 1 /\ (mode.batch => opens <= 1)

=============================================================================
