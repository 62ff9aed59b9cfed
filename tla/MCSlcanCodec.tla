---------------------------- MODULE MCSlcanCodec ----------------------------
(***************************************************************************)
(* The values of SlcanCodec for TLC: every sequence of up to three codes,  *)
(* one of nine and some with an unknown code; counters at their limits;    *)
(* every rate and sample point of a table or a range and those next to it. *)
(***************************************************************************)
EXTENDS SlcanCodec

SomeCodeSeqs ==
    UNION {[1..n -> Codes] : n \in 0..3}
    \cup {<<"a", "?", "b">>, <<"o", "O", "?">>, [i \in 1..8 |-> "s"], [i \in 1..9 |-> "s"]}
SomeNominal == {3, 10, 20, 33, 50, 100, 125, 250, 500, 800, 1000, 2000}
SomeData == {0, 500} \cup {1000 * m : m \in 1..17}

=============================================================================
