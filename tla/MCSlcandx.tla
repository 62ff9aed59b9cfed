----------------------------- MODULE MCSlcandx -----------------------------
(***************************************************************************)
(* Command lines for slcandx.                                              *)
(***************************************************************************)
EXTENDS Slcandx

Tty == Word(0)
Netdev == Word(1)
O(ch, cmd) == Opt(ch, cmd, NoArg)
F == O(NoChannel, "F")

MCArgvs == {
    \* slcandx -F -0c -0s6 -0o tty can: opened behind the command that closes on exit
    <<F, O(0, "c"), Opt(0, "s", 6), O(0, "o"), Tty, Netdev>>,
    \* slcandx -1o -1c tty -F: the order of the usage text's example, for a channel that
    \* is not the device's, without a name
    <<O(1, "o"), O(1, "c"), Tty, F>>,
    \* slcandx -S 115200 -0q -1q tty: a daemon that asks two channels the same
    <<O(NoChannel, "S"), Word(115200), O(0, "q"), O(1, "q"), Tty>>,
    \* slcandx -0Q -1l -1s 9 tty: an argument is found invalid half way
    <<O(0, "Q"), O(1, "l"), O(1, "s"), Word(9), Tty>>,
    \* slcandx -F -0o -0c -0f -0q -1o -1c tty: more commands than the bound
    <<F, O(0, "o"), O(0, "c"), O(0, "f"), O(0, "q"), O(1, "o"), O(1, "c"), Tty>>,
    \* slcandx -0S tty, slcandx -s, slcandx -t 7 tty, slcandx -h: not usable
    <<O(0, "S"), Tty>>, <<Tty, O(1, "s")>>, <<O(NoChannel, "t"), Word(7), Tty>>,
    <<O(NoChannel, "h"), Tty>>
}

=============================================================================
