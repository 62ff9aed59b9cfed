------------------------------ MODULE Slcandx ------------------------------
(***************************************************************************)
(* slcandx.c: the program that configures the adapter with a script of     *)
(* commands, attaches the line discipline to the tty, waits for a signal   *)
(* and cleans up; with the device it attaches (SlcanState) and an adapter  *)
(* that answers its queries.                                               *)
(***************************************************************************)
EXTENDS SlcanState, Integers, FiniteSets

CONSTANTS
    Argvs,          \* command lines
    MaxCommands,    \* MAX_COMMANDS, 128
    Slices,         \* idle slices of select in a query's timeout, 10
    MaxInput,       \* bound: lines in the tty's input queue with one of CAN traffic
    MaxSignals

VARIABLES
    argv,       \* the command line
    opts,       \* what it was parsed to: the queue of commands, and the rest
    pc,         \* where main() is
    i,          \* the command it is at
    elapsed,    \* idle slices of the query under way
    unanswered, \* queries the adapter has not answered yet
    inq,        \* lines in the tty's input queue
    signals,
    late,       \* history: letters of queries given up without their answer
    printed,    \* the last answer printed: its letter, its channel, the query's channel
    missed,     \* history: channels whose close command on exit was not written
    rate,       \* the tty's speed: "old" or "new"
    handlers, running

dxVars == <<argv, opts, pc, i, elapsed, unanswered, inq, signals, late, printed, missed,
            rate, handlers, running>>
vars == <<stateVars, dxVars>>

---------------------------------------------------------------------------
(* The command line: words and options; an option has its channel prefix    *)
(* (NoChannel if none), its letter, and its argument if that is joined to   *)
(* it (NoArg if not).  A word has its value as an argument.                 *)

NoChannel == 9
NoArg == -1
Word(v) == [word |-> TRUE, arg |-> v]
Opt(pfx, cmd, arg) == [word |-> FALSE, pfx |-> pfx, cmd |-> cmd, arg |-> arg]

WithArg == {"s", "y", "Y", "p", "P", "a", "A", "b"}
Global == {"S", "t", "F"}
Queries == {"q", "Q", "N"}
Letters == WithArg \cup Global \cup Queries \cup {"o", "c", "l", "f", "h", "none", "other"}
Flows == {0, 1}                                 \* "hw", "sw"
UartSpeeds == {9600, 19200, 38400, 57600, 115200, 230400, 460800, 500000, 576000, 921600,
               1000000, 1152000, 1500000, 2000000, 2500000, 3000000, 3500000, 4000000}

Token == [word: {TRUE}, arg: Int] \cup [word: {FALSE}, pfx: Nat, cmd: Letters, arg: Int]

ASSUME DxAssumption ==
    /\ Argvs \subseteq Seq(Token)
    /\ MaxCommands \in Nat /\ Slices \in Nat \ {0}
    /\ MaxInput \in Nat /\ MaxSignals \in Nat

(* What has been parsed.  wants is the letter that waits for its argument;  *)
(* the name is the word right behind the tty, if there is one.              *)
Nothing == [cmds |-> <<>>, words |-> 0, atTty |-> FALSE, named |-> FALSE, fg |-> FALSE,
            uart |-> 0, wants |-> "none", bad |-> FALSE]

(* -S and -t check their argument at once; of the others nothing is checked *)
(* yet.  The next word is the argument even if it looks like an option.     *)
Argument(p, a) ==
    CASE p.wants = "S" -> [p EXCEPT !.wants = "none", !.uart = a, !.bad = a \notin UartSpeeds]
      [] p.wants = "t" -> [p EXCEPT !.wants = "none", !.bad = a \notin Flows]
      [] OTHER -> [p EXCEPT !.wants = "none", !.cmds[Len(p.cmds)].arg = a]

Option(p, o) ==
    LET ch == IF o.pfx = NoChannel THEN 0 ELSE o.pfx
        queued == [p EXCEPT !.cmds = Append(@, [ch |-> ch, cmd |-> o.cmd, arg |-> o.arg])]
    IN  CASE o.cmd \in Global /\ o.pfx # NoChannel -> [p EXCEPT !.bad = TRUE]
          [] o.cmd = "F" /\ o.pfx = NoChannel -> [p EXCEPT !.fg = TRUE]
          [] o.cmd \in {"S", "t"} /\ o.pfx = NoChannel -> [p EXCEPT !.wants = o.cmd]
          [] o.cmd = "h" \/ (o.cmd = "none" /\ o.pfx # NoChannel) -> [p EXCEPT !.bad = TRUE]
          [] OTHER ->
                IF Len(p.cmds) >= MaxCommands THEN [p EXCEPT !.bad = TRUE]
                ELSE IF o.cmd \in WithArg /\ o.arg = NoArg THEN [queued EXCEPT !.wants = o.cmd]
                ELSE queued

AWord(p) ==
    [p EXCEPT !.words = @ + 1, !.atTty = (p.words = 0), !.named = @ \/ p.atTty]

ParseStep(p, tok) ==
    IF p.wants # "none" THEN Argument(p, tok.arg)
    ELSE IF tok.word THEN AWord(p)
    ELSE Option([p EXCEPT !.atTty = FALSE], tok)

Usable == ~opts.bad /\ opts.wants = "none" /\ opts.words > 0

cmds == opts.cmds

---------------------------------------------------------------------------
(* What the script checks of an argument before it writes the command: the  *)
(* number, or how many underscores (a, A) or characters (b) it has.         *)
Valid(c) ==
    CASE c.cmd = "s" -> c.arg \in 0..8
      [] c.cmd = "y" -> c.arg >= 5000 /\ c.arg <= 1000000
      [] c.cmd = "Y" -> c.arg \in 0..15
      [] c.cmd \in {"p", "P"} -> c.arg \in 750..875
      [] c.cmd \in {"a", "A"} -> c.arg = 5
      [] c.cmd = "b" -> c.arg \in 0..8
      [] c.cmd = "l" -> c.arg \in {NoArg, 0, 1}
      [] OTHER -> TRUE

(* Of what is written only O and C are kept, and listen-only, which opens.  *)
Writes(c, by) ==
    sent' = CASE c.cmd = "c" -> Append(sent, Command(by, c.ch, "C"))
              [] c.cmd = "o" \/ (c.cmd = "l" /\ c.arg # 0) -> Append(sent, Command(by, c.ch, "O"))
              [] OTHER -> sent

Goto(label) == pc' = label
NextCommand == Goto("script") /\ i' = i + 1

(* exit(), or the default action of a signal: the tty is closed, and with   *)
(* it the line discipline.                                                  *)
Quit == Goto("dying")

---------------------------------------------------------------------------
Init ==
    /\ StateInit
    /\ argv \in Argvs /\ opts = Nothing
    /\ pc = "parse" /\ i = 1 /\ elapsed = 0
    /\ unanswered = <<>> /\ inq = <<>> /\ signals = 0
    /\ late = {} /\ printed = <<>> /\ missed = {}
    /\ rate = "old" /\ handlers = FALSE /\ running = FALSE

Parse ==
    /\ pc = "parse" /\ i <= Len(argv) /\ ~opts.bad
    /\ opts' = ParseStep(opts, argv[i]) /\ i' = i + 1
    /\ UNCHANGED <<stateVars, argv, pc, elapsed, unanswered, inq, signals, late, printed,
                   missed, rate, handlers, running>>

ParseEnd ==
    /\ pc = "parse" /\ (i > Len(argv) \/ opts.bad)
    /\ i' = 1
    /\ IF Usable THEN Goto("open") ELSE Quit
    /\ UNCHANGED <<stateVars, argv, opts, elapsed, unanswered, inq, signals, late, printed,
                   missed, rate, handlers, running>>

(* open and tcgetattr may fail; a speed is set if one was given and the tty *)
(* takes it, and a tcsetattr that fails is only logged.                     *)
OpenTty ==
    /\ pc = "open"
    /\ \/ Quit /\ UNCHANGED rate
       \/ /\ Goto("script")
          /\ rate' \in {"old", IF opts.uart # 0 THEN "new" ELSE "old"}
    /\ UNCHANGED <<stateVars, argv, opts, i, elapsed, unanswered, inq, signals, late, printed,
                   missed, handlers, running>>

(* A command of the script; an invalid argument ends the program with the   *)
(* commands before it carried out, a write that fails is passed over.       *)
RunCommand ==
    /\ pc = "script" /\ i <= Len(cmds) /\ cmds[i].cmd \notin Queries
    /\ IF ~Valid(cmds[i]) THEN Quit /\ UNCHANGED <<i, sent>>
       ELSE NextCommand /\ (Writes(cmds[i], "script") \/ UNCHANGED sent)
    /\ UNCHANGED <<configured, net, canState, carrier, bus, wire, reports, ups, behind>>
    /\ UNCHANGED <<argv, opts, elapsed, unanswered, inq, signals, late, printed, missed,
                   rate, handlers, running>>

Ask ==
    /\ pc = "script" /\ i <= Len(cmds) /\ cmds[i].cmd \in Queries
    /\ \/ /\ Goto("reply") /\ UNCHANGED i
          /\ unanswered' = Append(unanswered, [letter |-> cmds[i].cmd, ch |-> cmds[i].ch])
       \/ NextCommand /\ UNCHANGED unanswered
    /\ elapsed' = 0
    /\ UNCHANGED <<stateVars, argv, opts, inq, signals, late, printed, missed,
                   rate, handlers, running>>

(* read_slcan_reply: a line that begins with the letter is the answer,      *)
(* others are passed over.                                                  *)
AnyLine(l) == TRUE                            \* mutant: the first line is the answer
IsAnswer(l) == l.letter = cmds[i].cmd

ReadLine ==
    /\ pc = "reply" /\ inq # <<>> /\ inq' = Tail(inq)
    /\ IF IsAnswer(Head(inq))
       THEN /\ printed' = <<Head(inq).letter, Head(inq).ch, cmds[i].ch>>
            /\ NextCommand
       ELSE UNCHANGED <<printed, pc, i>>
    /\ UNCHANGED <<stateVars, argv, opts, elapsed, unanswered, signals, late, missed,
                   rate, handlers, running>>

GiveUp == NextCommand /\ late' = late \cup {cmds[i].cmd}

(* Only a slice without input counts; a line that comes starts no new one.  *)
NoSlice == elapsed                            \* mutant: slices are not counted
AnotherSlice == elapsed + 1

TimedOut(e) == e >= Slices

IdleSlice ==
    /\ pc = "reply" /\ inq = <<>>
    /\ elapsed' = AnotherSlice
    /\ IF TimedOut(elapsed') THEN GiveUp ELSE UNCHANGED <<pc, i, late>>
    /\ UNCHANGED <<stateVars, argv, opts, unanswered, inq, signals, printed, missed,
                   rate, handlers, running>>

(* select or read fails. *)
ReadFails ==
    /\ pc = "reply" /\ GiveUp
    /\ UNCHANGED <<stateVars, argv, opts, elapsed, unanswered, inq, signals, printed, missed,
                   rate, handlers, running>>

(* TIOCSETD: slcan_open may fail, and undoes what it did; SIOCGIFNAME and   *)
(* the renaming may fail, which matters if a name was given.  From here on  *)
(* the driver reads the tty, and passes answers over: slcandx's queries and *)
(* their histories end.                                                     *)
Attach ==
    /\ pc = "script" /\ i > Len(cmds)
    /\ \/ Goto("name") /\ Attached
       \/ Quit /\ UNCHANGED stateVars
    /\ inq' = <<>> /\ unanswered' = <<>> /\ elapsed' = 0
    /\ late' = {} /\ printed' = <<>>
    /\ UNCHANGED <<argv, opts, i, signals, missed, rate, handlers, running>>

Name ==
    /\ pc = "name"
    /\ Goto("mode") \/ (opts.named /\ Quit)
    /\ UNCHANGED <<stateVars, argv, opts, i, elapsed, unanswered, inq, signals, late, printed,
                   missed, rate, handlers, running>>

(* A daemon keeps the default action of signals; daemon() may fail. *)
Mode ==
    /\ pc = "mode"
    /\ \/ opts.fg /\ Goto("start") /\ handlers' = TRUE
       \/ ~opts.fg /\ (Goto("start") \/ Quit) /\ UNCHANGED handlers
    /\ UNCHANGED <<stateVars, argv, opts, i, elapsed, unanswered, inq, signals, late, printed,
                   missed, rate, running>>

(* slcanfd_running = 1, whatever a handler has stored before. *)
Start ==
    /\ pc = "start" /\ Goto("loop") /\ running' = TRUE
    /\ UNCHANGED <<stateVars, argv, opts, i, elapsed, unanswered, inq, signals, late, printed,
                   missed, rate, handlers>>

ClosesFirst == "closes"                       \* mutant: the commands on exit come first
AfterLoop == "reset"

LoopEnds ==
    /\ pc = "loop" /\ ~running /\ Goto(AfterLoop) /\ i' = 1
    /\ UNCHANGED <<stateVars, argv, opts, elapsed, unanswered, inq, signals, late, printed,
                   missed, rate, handlers, running>>

(* Back to N_TTY; if that fails the program exits. *)
Straight == "restore"                         \* mutant: the commands on exit are left out
AfterReset == "closes"

Reset ==
    /\ pc = "reset"
    /\ \/ Detached /\ Goto(AfterReset)
       \/ Quit /\ UNCHANGED stateVars
    /\ UNCHANGED <<argv, opts, i, elapsed, unanswered, inq, signals, late, printed, missed,
                   rate, handlers, running>>

CloseOne ==
    /\ pc = "closes" /\ i <= Len(cmds) /\ i' = i + 1
    /\ IF cmds[i].cmd # "c" THEN UNCHANGED <<sent, missed>>
       ELSE \/ Writes(cmds[i], "exit") /\ UNCHANGED missed
            \/ missed' = missed \cup {cmds[i].ch} /\ UNCHANGED sent
    /\ UNCHANGED <<configured, net, canState, carrier, bus, wire, reports, ups, behind>>
    /\ UNCHANGED <<argv, opts, pc, elapsed, unanswered, inq, signals, late, printed,
                   rate, handlers, running>>

ClosesEnd ==
    /\ pc = "closes" /\ i > Len(cmds) /\ Goto("restore")
    /\ UNCHANGED <<stateVars, argv, opts, i, elapsed, unanswered, inq, signals, late, printed,
                   missed, rate, handlers, running>>

Restore ==
    /\ pc = "restore" /\ Goto("ended")
    /\ rate' \in {"old", rate}
    /\ UNCHANGED <<stateVars, argv, opts, i, elapsed, unanswered, inq, signals, late, printed,
                   missed, handlers, running>>

(* The kernel closes the tty of a process that is gone. *)
Die ==
    /\ pc = "dying" /\ Goto("killed")
    /\ IF net = "none" THEN UNCHANGED stateVars ELSE Detached
    /\ UNCHANGED <<argv, opts, i, elapsed, unanswered, inq, signals, late, printed, missed,
                   rate, handlers, running>>

Gone == pc \in {"ended", "killed", "dying"}

(* child_handler, or the default action; slcandx clean sends such a signal. *)
Signal ==
    /\ ~Gone /\ signals < MaxSignals /\ signals' = signals + 1
    /\ IF handlers THEN running' = FALSE /\ UNCHANGED pc ELSE Quit /\ UNCHANGED running
    /\ UNCHANGED <<stateVars, argv, opts, i, elapsed, unanswered, inq, late, printed, missed,
                   rate, handlers>>

---------------------------------------------------------------------------
(* The adapter answers in order, when it likes; frames come in between. *)
Arrives(l) == inq' = Append(inq, l)

Answer ==
    /\ unanswered # <<>> /\ unanswered' = Tail(unanswered)
    /\ Arrives(Head(unanswered))
    /\ UNCHANGED <<stateVars, argv, opts, pc, i, elapsed, signals, late, printed, missed,
                   rate, handlers, running>>

Traffic ==
    /\ pc = "reply" /\ Len(inq) < MaxInput
    /\ Arrives([letter |-> "t", ch |-> 0])
    /\ UNCHANGED <<stateVars, argv, opts, pc, i, elapsed, unanswered, signals, late, printed, missed,
                   rate, handlers, running>>

Main ==
    \/ Parse \/ ParseEnd \/ OpenTty \/ RunCommand \/ Ask \/ ReadLine \/ IdleSlice
    \/ Attach \/ Name \/ Mode \/ Start \/ LoopEnds \/ Reset \/ CloseOne \/ ClosesEnd
    \/ Restore \/ Die

Next ==
    \/ Main \/ ReadFails \/ Signal \/ Answer \/ Traffic
    \/ (Device \/ Reporting) /\ UNCHANGED dxVars

Spec == Init /\ [][Next]_vars /\ WF_vars(Main) /\ DeviceFairness

---------------------------------------------------------------------------
(* Properties. *)

(* A channel is left open by the last command on it that reached the line. *)
LeftOpen(c) == \E n \in DOMAIN sent :
    sent[n].ch = c /\ sent[n].cmd = "O" /\ \A m \in DOMAIN sent : m > n => sent[m].ch # c

(* A foreground slcandx that comes to its end leaves no channel open that   *)
(* was given -c, unless that write failed: whatever the script and the      *)
(* device had opened, and in whichever order.                               *)
CloseOnExit ==
    pc = "ended" => \A k \in DOMAIN cmds :
        cmds[k].cmd = "c" /\ cmds[k].ch \notin missed => ~LeftOpen(cmds[k].ch)

(* An answer is printed for the channel that was asked, as long as no query *)
(* of the same letter was given up before its answer came.                  *)
AnswerBelongs ==
    printed # <<>> /\ printed[1] \notin late => printed[2] = printed[3]

(* slcandx and the driver never write to the tty at the same time: what     *)
(* slcandx writes, it writes while no line discipline is attached.          *)
OneWriter ==
    [][Len(sent') > Len(sent) /\ sent'[Len(sent')].by # "driver" => net = "none"]_vars

(* slcandx never hangs: from wherever it is, it comes to its loop, where it *)
(* waits for a signal, or to its end; a signal that comes after Start ends  *)
(* it.  Only one thing can keep it: frames that come in for ever where it   *)
(* waits for an answer, for only the slices without input count.            *)
Waiting == pc = "loop" /\ running
NeverHangs ==
    []<><<Traffic>>_vars \/ (~Waiting ~> (Waiting \/ pc \in {"ended", "killed"}))

=============================================================================
