--------------------------- MODULE SlcandxProofs ---------------------------
(***************************************************************************)
(* slcandx and the device it attaches, for every command line and any      *)
(* number of signals, slices, reports and lines of traffic: slcandx never  *)
(* writes while a line discipline is attached, what it closes on exit      *)
(* stays closed, an answer is printed for the channel that was asked, and  *)
(* the device agrees with the adapter once it heard its last report.       *)
(***************************************************************************)
EXTENDS Slcandx, SequenceTheorems, TLAPS

---------------------------------------------------------------------------
(* The types. *)

Report == [cmd: {"s", "E"}, state: States]
Sent == [by: {"driver", "script", "exit"}, ch: Nat, cmd: {"O", "C"}]

StateTypes ==
    /\ configured \in BOOLEAN
    /\ net \in {"none", "down", "opening", "up", "closing"}
    /\ bus \in States
    /\ wire \in Seq(Report)
    /\ sent \in Seq(Sent)

CommandOf == [ch: Nat, cmd: Letters, arg: Int]
Parsed == [cmds: Seq(CommandOf), words: Nat, atTty: BOOLEAN, named: BOOLEAN, fg: BOOLEAN,
           uart: Int, wants: Letters, bad: BOOLEAN]

TtyLine == [letter: Letters, ch: Nat]

DxTypes ==
    /\ argv \in Seq(Token)
    /\ opts \in Parsed
    /\ i \in Nat \ {0}
    /\ unanswered \in Seq(TtyLine)
    /\ inq \in Seq(TtyLine)

---------------------------------------------------------------------------
(* The inductive invariant. *)

(* The line discipline is there from Attach to Reset, and perhaps while the *)
(* program dies.                                                            *)
OnlyAttached ==
    pc \notin {"name", "mode", "start", "loop", "reset", "dying"} => net = "none"

(* The last report on its way is of the state the controller has. *)
NewestLast == wire # <<>> => wire[Len(wire)].state = bus

(* What has been passed on the way out is closed. *)
ClosedUpTo(n) == \A k \in DOMAIN cmds :
    k < n /\ cmds[k].cmd = "c" /\ cmds[k].ch \notin missed => ~LeftOpen(cmds[k].ch)

Closing ==
    /\ pc = "reset" => i = 1
    /\ pc = "closes" => ClosedUpTo(i)
    /\ pc \in {"restore", "ended"} => ClosedUpTo(Len(cmds) + 1)

(* Of the queries with the letter q none is under way, or one of channel c. *)
NoneOf(q) ==
    /\ \A k \in DOMAIN inq : inq[k].letter # q
    /\ \A k \in DOMAIN unanswered : unanswered[k].letter # q

OneOf(q, c) ==
    /\ \A k \in DOMAIN inq : inq[k].letter = q => inq[k].ch = c
    /\ \A k \in DOMAIN unanswered : unanswered[k].letter = q => unanswered[k].ch = c
    /\ \A k, n \in DOMAIN inq : inq[k].letter = q /\ inq[n].letter = q => k = n
    /\ \A k, n \in DOMAIN unanswered : unanswered[k].letter = q /\ unanswered[n].letter = q => k = n
    /\ \A k \in DOMAIN inq, n \in DOMAIN unanswered :
          ~(inq[k].letter = q /\ unanswered[n].letter = q)

Asked ==
    /\ pc \in {"parse", "open"} => inq = <<>> /\ unanswered = <<>>
    /\ pc = "script" => \A q \in Queries \ late : NoneOf(q)
    /\ pc = "reply" =>
          /\ i \in DOMAIN cmds /\ cmds[i].cmd \in Queries
          /\ \A q \in Queries \ late :
                IF q = cmds[i].cmd THEN OneOf(q, cmds[i].ch) ELSE NoneOf(q)

IInv ==
    /\ StateTypes /\ DxTypes
    /\ OnlyAttached
    /\ NewestLast /\ StateFollows
    /\ Closing
    /\ Asked /\ AnswerBelongs

---------------------------------------------------------------------------
(* What is written to the adapter. *)

LEMMA ACommand ==
    ASSUME opts \in Parsed, NEW k \in Nat \ {0}, k <= Len(cmds)
    PROVE  /\ k \in DOMAIN cmds /\ cmds[k] \in CommandOf
           /\ cmds[k].ch \in Nat /\ cmds[k].cmd \in Letters
<1>1. cmds \in Seq(CommandOf)
  BY DEF Parsed, cmds
<1>2. k \in 1..Len(cmds)
  BY <1>1
<1>3. cmds[k] \in CommandOf
  BY <1>1, <1>2
<1> QED
  BY <1>1, <1>2, <1>3 DEF CommandOf

(* The driver sends a command for its device, or nothing. *)
LEMMA DriverAppends ==
    ASSUME StateTypes, NEW x \in {"O", "C"}, DriverSends(<<x>>)
    PROVE  sent' = sent \/ sent' = Append(sent, Command("driver", Dev, x))
<1> DEFINE y == Command("driver", Dev, x)
           z == [k \in DOMAIN <<x>> |-> Command("driver", Dev, <<x>>[k])]
<1>1. sent' = IF configured THEN sent \o z ELSE sent
  BY DEF DriverSends
<1>2. z = <<y>>
  OBVIOUS
<1>3. y \in Sent
  BY DEF Sent, Command, Dev
<1> HIDE DEF y, z
<1>4. sent \o <<y>> = Append(sent, y)
  BY <1>3, AppendIsConcat DEF StateTypes
<1> QED
  BY <1>1, <1>2, <1>4 DEF y

(* slcandx writes a command, or one that is not kept here. *)
LEMMA WritesAppend ==
    ASSUME NEW c \in CommandOf, NEW by \in {"script", "exit"}, Writes(c, by)
    PROVE  \/ sent' = sent /\ c.cmd # "c"
           \/ sent' = Append(sent, Command(by, c.ch, "C"))
           \/ sent' = Append(sent, Command(by, c.ch, "O")) /\ c.cmd # "c"
BY DEF Writes

LEMMA SentTypes ==
    ASSUME StateTypes, NEW by \in {"driver", "script", "exit"}, NEW c \in Nat, NEW x \in {"O", "C"},
           sent' = Append(sent, Command(by, c, x))
    PROVE  /\ sent' \in Seq(Sent)
           /\ Len(sent') = Len(sent) + 1 /\ Len(sent) \in Nat
           /\ sent'[Len(sent')] = Command(by, c, x)
           /\ \A n \in DOMAIN sent : sent'[n] = sent[n]
           /\ DOMAIN sent' = 1..(Len(sent) + 1) /\ DOMAIN sent = 1..Len(sent)
<1>1. Command(by, c, x) \in Sent
  BY DEF Sent, Command
<1>2. sent \in Seq(Sent)
  BY DEF StateTypes
<1> QED
  BY <1>1, <1>2, AppendProperties

---------------------------------------------------------------------------
(* The types are kept. *)

LEMMA InitTypes == Init => StateTypes /\ DxTypes
<1> SUFFICES ASSUME Init PROVE StateTypes /\ DxTypes
  OBVIOUS
<1>1. "active" \in States
  BY DEF States, Levels
<1>2. StateTypes
  BY <1>1 DEF Init, StateInit, StateTypes
<1>3. Nothing \in Parsed
  <2>1. <<>> \in Seq(CommandOf) /\ "none" \in Letters
    BY DEF Letters
  <2> QED
    BY <2>1 DEF Nothing, Parsed
<1>4. argv \in Seq(Token)
  BY DxAssumption DEF Init
<1> QED
  BY <1>2, <1>3, <1>4 DEF Init, DxTypes

LEMMA DeviceTypes ==
    ASSUME StateTypes, Device \/ Reporting \/ Attached \/ Detached
    PROVE  StateTypes'
<1> USE DEF StateTypes
<1>1. ASSUME NEW x \in {"O", "C"}, DriverSends(<<x>>) PROVE sent' \in Seq(Sent)
  BY <1>1, DriverAppends, SentTypes DEF Dev
<1>2. CASE OpenDev
  BY <1>1, <1>2 DEF OpenDev
<1>3. CASE OpenDone
  BY <1>1, <1>3 DEF OpenDone
<1>4. CASE OpenFails
  BY <1>1, <1>4 DEF OpenFails
<1>5. CASE CloseDev
  BY <1>1, <1>5 DEF CloseDev
<1>6. CASE CloseDone
  BY <1>6 DEF CloseDone
<1>7. CASE BusChange
  <2>1. PICK cmd \in {"s", "E"} : wire' = Append(wire, [cmd |-> cmd, state |-> bus'])
    BY <1>7 DEF BusChange
  <2>2. bus' \in States /\ [cmd |-> cmd, state |-> bus'] \in Report
    BY <1>7 DEF BusChange, Report
  <2> QED
    BY <1>7, <2>1, <2>2 DEF BusChange
<1>8. CASE HandleReport
  BY <1>8 DEF HandleReport
<1>9. CASE LoseReport
  BY <1>9 DEF LoseReport
<1>10. CASE Attached
  BY <1>10 DEF Attached
<1>11. CASE Detached
  BY <1>1, <1>11 DEF Detached
<1> QED
  BY <1>2, <1>3, <1>4, <1>5, <1>6, <1>7, <1>8, <1>9, <1>10, <1>11 DEF Device, Reporting

(* Each word of the command line leaves what has been parsed well typed.    *)

LEMMA ArgumentTypes ==
    ASSUME NEW p \in Parsed, NEW a \in Int
    PROVE  Argument(p, a) \in Parsed
<1> DEFINE n == Len(p.cmds)
           c == [p.cmds[n] EXCEPT !.arg = a]
           filled == [p.cmds EXCEPT ![n].arg = a]
<1>1. "none" \in Letters
  BY DEF Letters
<1>2. [p EXCEPT !.wants = "none"] \in Parsed
  BY <1>1 DEF Parsed
<1>3. CASE p.wants = "S"
  <2> DEFINE b == a \notin UartSpeeds
             q == [p EXCEPT !.wants = "none"]
             r == [q EXCEPT !.uart = a]
  <2>1. r \in Parsed
    BY <1>2 DEF Parsed
  <2>2. b \in BOOLEAN
    OBVIOUS
  <2> HIDE DEF b, r
  <2>3. [r EXCEPT !.bad = b] \in Parsed
    BY <2>1, <2>2 DEF Parsed
  <2> QED
    BY <1>3, <2>3 DEF Argument, r, b
<1>4. CASE p.wants = "t"
  <2> DEFINE b == a \notin Flows
             q == [p EXCEPT !.wants = "none"]
  <2>1. b \in BOOLEAN
    OBVIOUS
  <2> HIDE DEF b, q
  <2>2. [q EXCEPT !.bad = b] \in Parsed
    BY <1>2, <2>1 DEF Parsed, q
  <2> QED
    BY <1>4, <2>2 DEF Argument, q, b
<1>5. CASE p.wants # "S" /\ p.wants # "t"
  <2>1. p.cmds \in Seq(CommandOf)
    BY DEF Parsed
  <2>2. filled \in Seq(CommandOf)
    <3>1. CASE n \notin 1..Len(p.cmds)
      <4>1. filled = p.cmds
        BY <2>1, <3>1
      <4> QED
        BY <2>1, <4>1
    <3>2. CASE n \in 1..Len(p.cmds)
      <4>1. p.cmds[n] \in CommandOf
        BY <2>1, <3>2
      <4>2. c \in CommandOf
        BY <4>1 DEF CommandOf
      <4> HIDE DEF c
      <4>3. [p.cmds EXCEPT ![n] = c] \in Seq(CommandOf)
        BY <2>1, <3>2, <4>2, ExceptSeq
      <4> QED
        BY <4>3 DEF c
    <3> QED
      BY <3>1, <3>2
  <2> DEFINE q == [p EXCEPT !.wants = "none"]
  <2>3. q.cmds = p.cmds
    BY DEF Parsed
  <2>4. Argument(p, a) = [q EXCEPT !.cmds = filled]
    BY <1>5, <2>3 DEF Argument
  <2> HIDE DEF filled, q
  <2> QED
    BY <1>2, <2>2, <2>4 DEF Parsed, q
<1> QED
  BY <1>3, <1>4, <1>5

LEMMA AWordTypes ==
    ASSUME NEW p \in Parsed
    PROVE  AWord(p) \in Parsed
<1> DEFINE first == p.words = 0
           named == p.named \/ p.atTty
           q == [p EXCEPT !.words = @ + 1]
           r == [q EXCEPT !.atTty = first]
           s == [r EXCEPT !.named = named]
<1>1. first \in BOOLEAN /\ named \in BOOLEAN
  OBVIOUS
<1>2. q \in Parsed
  BY DEF Parsed
<1> HIDE DEF first, named
<1>3. r \in Parsed
  <2> HIDE DEF q
  <2> QED
    BY <1>1, <1>2 DEF Parsed
<1>4. s \in Parsed
  <2> HIDE DEF r
  <2> QED
    BY <1>1, <1>3 DEF Parsed
<1>5. q.named = p.named /\ r.named = p.named
  BY DEF Parsed
<1> QED
  BY <1>4, <1>5 DEF AWord, first, named

LEMMA ParseTypes ==
    ASSUME NEW p \in Parsed, NEW tok \in Token
    PROVE  ParseStep(p, tok) \in Parsed
<1>1. tok.arg \in Int
  BY DEF Token
<1>2. CASE p.wants # "none"
  BY <1>1, <1>2, ArgumentTypes DEF ParseStep
<1>3. CASE p.wants = "none" /\ tok.word
  BY <1>3, AWordTypes DEF ParseStep
<1>4. CASE p.wants = "none" /\ ~tok.word
  <2> DEFINE r == [p EXCEPT !.atTty = FALSE]
             ch == IF tok.pfx = NoChannel THEN 0 ELSE tok.pfx
             command == [ch |-> ch, cmd |-> tok.cmd, arg |-> tok.arg]
             longer == Append(r.cmds, command)
             queued == [r EXCEPT !.cmds = longer]
  <2>1. r \in Parsed
    BY DEF Parsed
  <2>2. tok.pfx \in Nat /\ tok.cmd \in Letters
    BY <1>4 DEF Token
  <2>3. ch \in Nat
    BY <2>2
  <2>4. command \in CommandOf
    BY <1>1, <2>2, <2>3 DEF CommandOf
  <2>5. queued \in Parsed
    <3> HIDE DEF command, r
    <3>1. r.cmds \in Seq(CommandOf)
      BY <2>1 DEF Parsed
    <3>2. longer \in Seq(CommandOf)
      BY <2>4, <3>1
    <3> HIDE DEF longer
    <3> QED
      BY <2>1, <3>2 DEF Parsed
  <2> HIDE DEF ch, r
  <2>6. Option(r, tok) \in {[r EXCEPT !.bad = TRUE], [r EXCEPT !.fg = TRUE],
                            [r EXCEPT !.wants = tok.cmd], queued, [queued EXCEPT !.wants = tok.cmd]}
    BY DEF Option, ch
  <2> HIDE DEF queued
  <2>7. /\ [r EXCEPT !.bad = TRUE] \in Parsed /\ [r EXCEPT !.fg = TRUE] \in Parsed
        /\ [r EXCEPT !.wants = tok.cmd] \in Parsed /\ [queued EXCEPT !.wants = tok.cmd] \in Parsed
    BY <2>1, <2>2, <2>5 DEF Parsed
  <2>8. ParseStep(p, tok) = Option(r, tok)
    BY <1>4 DEF ParseStep, r
  <2> QED
    BY <2>5, <2>6, <2>7, <2>8
<1> QED
  BY <1>2, <1>3, <1>4

LEMMA StepTypes ==
    ASSUME StateTypes, DxTypes, Next
    PROVE  StateTypes' /\ DxTypes'
<1> USE DEF DxTypes
<1>1. ASSUME UNCHANGED stateVars PROVE StateTypes'
  BY <1>1 DEF StateTypes, stateVars
<1>2. ASSUME NEW c \in CommandOf, NEW by \in {"script", "exit"}, Writes(c, by) PROVE sent' \in Seq(Sent)
  <2>1. c.ch \in Nat
    BY DEF CommandOf
  <2>2. sent \in Seq(Sent)
    BY DEF StateTypes
  <2> QED
    BY <1>2, <2>1, <2>2, WritesAppend, SentTypes
<1>3. ASSUME NEW k \in Nat \ {0}, k <= Len(cmds) PROVE cmds[k] \in CommandOf
  BY <1>3, ACommand
<1>4. i + 1 \in Nat \ {0} /\ 1 \in Nat \ {0}
  OBVIOUS
<1>5. inq # <<>> => Head(inq) \in TtyLine /\ Tail(inq) \in Seq(TtyLine)
  OBVIOUS
<1>6. unanswered # <<>> => Head(unanswered) \in TtyLine /\ Tail(unanswered) \in Seq(TtyLine)
  OBVIOUS
<1>7. CASE Parse
  <2>1. argv[i] \in Token
    BY <1>7 DEF Parse
  <2>2. ParseStep(opts, argv[i]) \in Parsed
    BY <2>1, ParseTypes
  <2> QED
    BY <1>1, <1>4, <1>7, <2>2 DEF Parse
<1>8. CASE ParseEnd \/ OpenTty \/ Name \/ Mode \/ Start \/ LoopEnds \/ ClosesEnd \/ Restore \/ Signal
  BY <1>1, <1>4, <1>8 DEF ParseEnd, OpenTty, Name, Mode, Start, LoopEnds, ClosesEnd, Restore, Signal
<1>9. CASE RunCommand
  <2>1. cmds[i] \in CommandOf
    BY <1>3, <1>9 DEF RunCommand
  <2>2. sent' \in Seq(Sent)
    BY <1>2, <1>9, <2>1 DEF RunCommand, StateTypes
  <2> QED
    BY <1>4, <1>9, <2>2 DEF RunCommand, NextCommand, StateTypes
<1>10. CASE Ask
  <2>1. cmds[i] \in CommandOf
    BY <1>3, <1>10 DEF Ask
  <2>2. [letter |-> cmds[i].cmd, ch |-> cmds[i].ch] \in TtyLine
    BY <2>1 DEF CommandOf, TtyLine
  <2>3. Append(unanswered, [letter |-> cmds[i].cmd, ch |-> cmds[i].ch]) \in Seq(TtyLine)
    BY <2>2
  <2> QED
    BY <1>1, <1>4, <1>10, <2>3 DEF Ask, NextCommand
<1>11. CASE ReadLine \/ IdleSlice \/ ReadFails
  BY <1>1, <1>4, <1>5, <1>11 DEF ReadLine, IdleSlice, ReadFails, GiveUp, NextCommand
<1>12. CASE Attach
  <2>1. StateTypes'
    BY <1>1, <1>12, DeviceTypes DEF Attach
  <2> QED
    BY <1>12, <2>1 DEF Attach
<1>13. CASE Reset \/ Die
  <2>1. StateTypes'
    BY <1>1, <1>13, DeviceTypes DEF Reset, Die
  <2> QED
    BY <1>13, <2>1 DEF Reset, Die
<1>14. CASE CloseOne
  <2>1. cmds[i] \in CommandOf
    BY <1>3, <1>14 DEF CloseOne
  <2>2. sent' \in Seq(Sent)
    BY <1>2, <1>14, <2>1 DEF CloseOne, StateTypes
  <2> QED
    BY <1>4, <1>14, <2>2 DEF CloseOne, StateTypes
<1>15. CASE Answer
  BY <1>1, <1>6, <1>15 DEF Answer, Arrives
<1>16. CASE Traffic
  <2>1. [letter |-> "t", ch |-> 0] \in TtyLine
    BY DEF TtyLine, Letters, Global
  <2>2. Append(inq, [letter |-> "t", ch |-> 0]) \in Seq(TtyLine)
    BY <2>1
  <2> QED
    BY <1>1, <1>16, <2>2 DEF Traffic, Arrives
<1>17. CASE (Device \/ Reporting) /\ UNCHANGED dxVars
  BY <1>17, DeviceTypes DEF dxVars
<1> QED
  BY <1>7, <1>8, <1>9, <1>10, <1>11, <1>12, <1>13, <1>14, <1>15, <1>16, <1>17 DEF Next, Main

---------------------------------------------------------------------------
(* Who writes. *)

LEMMA DeviceThere == Device \/ Reporting \/ Detached => net # "none"
BY DEF Device, Reporting, OpenDev, OpenDone, OpenFails, CloseDev, CloseDone,
       BusChange, HandleReport, LoseReport, Detached

(* The device sends nothing, or a command of the driver.                    *)
LEMMA DeviceWrites ==
    ASSUME StateTypes, Device \/ Reporting \/ Attached \/ Detached
    PROVE  sent' = sent \/ \E x \in {"O", "C"} : sent' = Append(sent, Command("driver", Dev, x))
<1>1. ASSUME NEW x \in {"O", "C"}, DriverSends(<<x>>)
      PROVE  sent' = sent \/ sent' = Append(sent, Command("driver", Dev, x))
  BY <1>1, DriverAppends
<1>2. CASE OpenDev \/ OpenDone \/ OpenFails \/ CloseDev
  BY <1>1, <1>2 DEF OpenDev, OpenDone, OpenFails, CloseDev
<1>3. CASE CloseDone \/ Reporting \/ Attached
  BY <1>3 DEF CloseDone, Reporting, BusChange, HandleReport, LoseReport, Attached
<1>4. CASE Detached
  BY <1>1, <1>4 DEF Detached
<1> QED
  BY <1>2, <1>3, <1>4 DEF Device

LEMMA StepOnlyAttached ==
    ASSUME OnlyAttached, Next
    PROVE  OnlyAttached'
<1> USE DEF OnlyAttached, Goto, NextCommand, Quit, GiveUp, stateVars
<1>1. CASE Parse \/ ParseEnd \/ OpenTty \/ RunCommand \/ Ask
  BY <1>1 DEF Parse, ParseEnd, OpenTty, RunCommand, Ask
<1>2. CASE ReadLine \/ IdleSlice \/ ReadFails
  BY <1>2 DEF ReadLine, IdleSlice, ReadFails
<1>3. CASE Attach
  BY <1>3 DEF Attach
<1>4. CASE Name \/ Mode \/ Start \/ LoopEnds
  BY <1>4 DEF Name, Mode, Start, LoopEnds, AfterLoop
<1>5. CASE Reset
  BY <1>5 DEF Reset, Detached
<1>6. CASE CloseOne \/ ClosesEnd \/ Restore
  BY <1>6 DEF CloseOne, ClosesEnd, Restore
<1>7. CASE Die
  BY <1>7 DEF Die, Detached
<1>8. CASE Signal
  BY <1>8 DEF Signal, Gone
<1>9. CASE Answer \/ Traffic
  BY <1>9 DEF Answer, Traffic
<1>10. CASE (Device \/ Reporting) /\ UNCHANGED dxVars
  BY <1>10, DeviceThere DEF dxVars
<1> QED
  BY <1>1, <1>2, <1>3, <1>4, <1>5, <1>6, <1>7, <1>8, <1>9, <1>10 DEF Next, Main

(* A step that writes is a command of the driver, or one of slcandx that no *)
(* line discipline sees.                                                    *)
LEMMA StepWrites ==
    ASSUME StateTypes, OnlyAttached, Next
    PROVE  \/ sent' = sent
           \/ \E x \in {"O", "C"} : sent' = Append(sent, Command("driver", Dev, x))
           \/ net = "none"
<1>1. CASE RunCommand \/ CloseOne
  BY <1>1 DEF RunCommand, CloseOne, OnlyAttached
<1>2. CASE Attach \/ Reset \/ Die
  BY <1>2, DeviceWrites DEF Attach, Reset, Die, stateVars
<1>3. CASE (Device \/ Reporting) /\ UNCHANGED dxVars
  BY <1>3, DeviceWrites
<1>4. CASE Parse \/ ParseEnd \/ OpenTty \/ Ask \/ ReadLine \/ IdleSlice \/ ReadFails \/ Name
  BY <1>4 DEF Parse, ParseEnd, OpenTty, Ask, ReadLine, IdleSlice, ReadFails, Name, stateVars
<1>5. CASE Mode \/ Start \/ LoopEnds \/ ClosesEnd \/ Restore \/ Signal \/ Answer \/ Traffic
  BY <1>5 DEF Mode, Start, LoopEnds, ClosesEnd, Restore, Signal, Answer, Traffic, stateVars
<1> QED
  BY <1>1, <1>2, <1>3, <1>4, <1>5 DEF Next, Main

LEMMA StepOneWriter ==
    ASSUME StateTypes, OnlyAttached, Next,
           Len(sent') > Len(sent), sent'[Len(sent')].by # "driver"
    PROVE  net = "none"
<1>1. sent' # sent
  <2>1. Len(sent) \in Nat
    BY DEF StateTypes
  <2> QED
    BY <2>1
<1>2. ASSUME NEW x \in {"O", "C"}, sent' = Append(sent, Command("driver", Dev, x)) PROVE FALSE
  <2>1. sent'[Len(sent')] = Command("driver", Dev, x)
    BY <1>2, SentTypes DEF Dev
  <2> QED
    BY <2>1 DEF Command
<1> QED
  BY <1>1, <1>2, StepWrites

---------------------------------------------------------------------------
(* What the device was told. *)

LEMMA StepNewest ==
    ASSUME StateTypes, NewestLast, StateFollows, Next
    PROVE  NewestLast' /\ StateFollows'
<1> USE DEF NewestLast, StateFollows
<1>1. ASSUME UNCHANGED <<net, canState, carrier, bus, wire, behind>> PROVE NewestLast' /\ StateFollows'
  BY <1>1
<1>2. CASE BusChange
  <2>1. PICK cmd \in {"s", "E"} : wire' = Append(wire, [cmd |-> cmd, state |-> bus'])
    BY <1>2 DEF BusChange
  <2>2. wire \in Seq(Report) /\ [cmd |-> cmd, state |-> bus'] \in Report
    BY <1>2 DEF BusChange, Report, StateTypes
  <2>3. wire' # <<>> /\ wire'[Len(wire')] = [cmd |-> cmd, state |-> bus']
    BY <2>1, <2>2, AppendProperties
  <2> QED
    BY <2>3
<1>3. CASE HandleReport \/ LoseReport
  <2>1. /\ wire \in Seq(Report) /\ wire # <<>> /\ wire' = Tail(wire)
        /\ bus' = bus /\ net' = net
    BY <1>3 DEF HandleReport, LoseReport, StateTypes
  <2>2. Len(wire) \in Nat \ {0} /\ Len(wire') = Len(wire) - 1
        /\ \A k \in 1..Len(wire') : wire'[k] = wire[k + 1]
    BY <2>1
  <2>3. wire' # <<>> => wire'[Len(wire')] = wire[Len(wire)] /\ wire[Len(wire)].state = bus
    <3>1. ASSUME wire' # <<>> PROVE Len(wire') \in 1..Len(wire') /\ Len(wire') + 1 = Len(wire)
      BY <2>1, <2>2, <3>1
    <3> QED
      BY <2>1, <2>2, <3>1
  <2>4. wire' = <<>> => Head(wire).state = bus
    <3>1. ASSUME wire' = <<>> PROVE Len(wire) = 1
      <4>1. Len(wire') = 0
        BY <3>1
      <4> QED
        BY <2>2, <4>1
    <3> QED
      BY <2>1, <3>1
  <2>5. NewestLast'
    BY <2>1, <2>3
  <2>6. CASE LoseReport
    BY <2>5, <2>6 DEF LoseReport
  <2>7. CASE HandleReport
    BY <2>1, <2>4, <2>5, <2>7 DEF HandleReport, Recorded, CarrierAfter
  <2> QED
    BY <1>3, <2>6, <2>7
<1>4. CASE OpenDev \/ OpenDone \/ OpenFails \/ CloseDev \/ CloseDone
  BY <1>4 DEF OpenDev, OpenDone, OpenFails, CloseDev, CloseDone
<1>5. CASE Attach \/ Reset \/ Die
  <2>1. CASE Attached
    BY <2>1 DEF Attached
  <2>2. CASE Detached
    BY <2>2 DEF Detached
  <2> QED
    BY <1>1, <1>5, <2>1, <2>2 DEF Attach, Reset, Die, stateVars
<1>6. CASE Parse \/ ParseEnd \/ OpenTty \/ RunCommand \/ Ask \/ ReadLine \/ IdleSlice \/ ReadFails
  BY <1>1, <1>6 DEF Parse, ParseEnd, OpenTty, RunCommand, Ask, ReadLine, IdleSlice, ReadFails, stateVars
<1>7. CASE Name \/ Mode \/ Start \/ LoopEnds \/ CloseOne \/ ClosesEnd \/ Restore
  BY <1>1, <1>7 DEF Name, Mode, Start, LoopEnds, CloseOne, ClosesEnd, Restore, stateVars
<1>8. CASE Signal \/ Answer \/ Traffic
  BY <1>1, <1>8 DEF Signal, Answer, Traffic, stateVars
<1> QED
  BY <1>2, <1>3, <1>4, <1>5, <1>6, <1>7, <1>8 DEF Next, Main, Device, Reporting

---------------------------------------------------------------------------
(* What is closed on the way out. *)

(* A close command closes its channel and opens none. *)
LEMMA CloseCloses ==
    ASSUME StateTypes, NEW by \in {"driver", "script", "exit"}, NEW c \in Nat,
           sent' = Append(sent, Command(by, c, "C"))
    PROVE  /\ ~LeftOpen(c)'
           /\ \A d \in Nat : ~LeftOpen(d) => ~LeftOpen(d)'
<1> DEFINE last == Len(sent) + 1
<1>1. /\ sent'[last] = Command(by, c, "C")
      /\ \A n \in 1..Len(sent) : sent'[n] = sent[n]
      /\ DOMAIN sent' = 1..last /\ DOMAIN sent = 1..Len(sent) /\ Len(sent) \in Nat
  BY SentTypes
<1>2. sent'[last].ch = c /\ sent'[last].cmd = "C"
  BY <1>1 DEF Command
<1>3. ASSUME NEW d \in Nat, LeftOpen(d)' PROVE LeftOpen(d) /\ d # c
  <2>1. PICK n \in DOMAIN sent' :
           /\ sent'[n].ch = d /\ sent'[n].cmd = "O"
           /\ \A m \in DOMAIN sent' : m > n => sent'[m].ch # d
    BY <1>3 DEF LeftOpen
  <2>2. n # last
    BY <1>2, <2>1
  <2>3. n \in 1..Len(sent)
    BY <1>1, <2>1, <2>2
  <2>4. last \in DOMAIN sent' /\ last > n
    BY <1>1, <2>3
  <2>5. d # c
    BY <1>2, <2>1, <2>4
  <2>6. sent[n].ch = d /\ sent[n].cmd = "O"
    BY <1>1, <2>1, <2>3
  <2>7. \A m \in 1..Len(sent) : m > n => sent[m].ch # d
    <3> SUFFICES ASSUME NEW m \in 1..Len(sent), m > n PROVE sent[m].ch # d
      OBVIOUS
    <3>1. m \in DOMAIN sent' /\ sent'[m] = sent[m]
      BY <1>1
    <3> QED
      BY <2>1, <3>1
  <2> QED
    BY <1>1, <2>3, <2>5, <2>6, <2>7 DEF LeftOpen
<1> QED
  BY <1>3

LEMMA StepClosing ==
    ASSUME StateTypes, DxTypes, OnlyAttached, Closing, Next
    PROVE  Closing'
<1> USE DEF Closing, Goto, Quit
<1>1. ASSUME UNCHANGED <<pc, i, opts, missed, sent>> PROVE Closing'
  BY <1>1 DEF ClosedUpTo, cmds, LeftOpen
<1>2. ASSUME pc' \notin {"reset", "closes", "restore", "ended"} PROVE Closing'
  BY <1>2
<1>3. CASE Parse \/ ParseEnd \/ OpenTty \/ RunCommand \/ Ask \/ ReadLine \/ IdleSlice \/ ReadFails
  BY <1>2, <1>3 DEF Parse, ParseEnd, OpenTty, RunCommand, Ask, ReadLine, IdleSlice, ReadFails,
                    NextCommand, GiveUp
<1>4. CASE Attach \/ Name \/ Mode \/ Start \/ Die
  BY <1>2, <1>4 DEF Attach, Name, Mode, Start, Die
<1>5. CASE LoopEnds
  BY <1>5 DEF LoopEnds, AfterLoop
<1>6. CASE Reset
  <2>1. pc' \in {"closes", "dying"} /\ i' = 1 /\ opts' = opts
    BY <1>6 DEF Reset, AfterReset
  <2>2. ClosedUpTo(i)'
    <3>1. \A k \in DOMAIN cmds : ~(k < 1)
      BY DEF DxTypes, Parsed, cmds
    <3>2. cmds' = cmds
      BY <2>1 DEF cmds
    <3> QED
      BY <2>1, <3>1, <3>2 DEF ClosedUpTo
  <2> QED
    BY <2>1, <2>2
<1>7. CASE CloseOne
  <2>1. pc = "closes" /\ pc' = "closes" /\ i' = i + 1 /\ opts' = opts /\ i <= Len(cmds)
    BY <1>7 DEF CloseOne
  <2>2. cmds[i] \in CommandOf /\ cmds[i].ch \in Nat
    BY <2>1, ACommand DEF DxTypes
  <2>3. missed \subseteq missed'
    BY <1>7 DEF CloseOne
  <2>4. sent' = sent \/ sent' = Append(sent, Command("exit", cmds[i].ch, "C"))
    BY <1>7, <2>2, WritesAppend DEF CloseOne
  <2>5. cmds[i].cmd = "c" /\ cmds[i].ch \notin missed' =>
           sent' = Append(sent, Command("exit", cmds[i].ch, "C"))
    BY <1>7, <2>2, WritesAppend DEF CloseOne
  <2>6. PICK c \in Nat : c = cmds[i].ch
    BY <2>2
  <2>7. \A d \in Nat : ~LeftOpen(d) => ~LeftOpen(d)'
    <3>1. CASE sent' = sent
      BY <3>1 DEF LeftOpen
    <3>2. CASE sent' = Append(sent, Command("exit", c, "C"))
      BY <3>2, CloseCloses
    <3> QED
      BY <2>4, <2>6, <3>1, <3>2
  <2>8. cmds[i].cmd = "c" /\ c \notin missed' => ~LeftOpen(c)'
    BY <2>5, <2>6, CloseCloses
  <2>9. cmds' = cmds /\ cmds \in Seq(CommandOf)
    BY <2>1 DEF cmds, DxTypes, Parsed
  <2>10. ASSUME NEW k \in DOMAIN cmds, k < i + 1, cmds[k].cmd = "c", NEW d \in Nat, d = cmds[k].ch,
                d \notin missed'
         PROVE  ~LeftOpen(d)'
    <3>1. CASE k < i
      BY <2>1, <2>3, <2>7, <2>10, <3>1 DEF ClosedUpTo
    <3>2. CASE k = i
      BY <2>6, <2>8, <2>10, <3>2
    <3>3. k < i \/ k = i
      BY <2>9, <2>10 DEF DxTypes
    <3> QED
      BY <3>1, <3>2, <3>3
  <2>11. \A k \in DOMAIN cmds : cmds[k].ch \in Nat
    <3>1. \A k \in DOMAIN cmds : cmds[k] \in CommandOf
      BY <2>9
    <3> QED
      BY <3>1 DEF CommandOf
  <2>12. ClosedUpTo(i)'
    BY <2>1, <2>9, <2>10, <2>11 DEF ClosedUpTo, LeftOpen
  <2> QED
    BY <2>1, <2>12
<1>8. CASE ClosesEnd
  <2>1. pc = "closes" /\ pc' = "restore" /\ i > Len(cmds) /\ UNCHANGED <<opts, missed, sent>>
    BY <1>8 DEF ClosesEnd, stateVars
  <2>2. \A k \in DOMAIN cmds : k < i
    BY <2>1 DEF DxTypes, Parsed, cmds
  <2>3. ClosedUpTo(Len(cmds) + 1)
    BY <2>1, <2>2 DEF ClosedUpTo
  <2> QED
    BY <2>1, <2>3 DEF ClosedUpTo, cmds, LeftOpen
<1>9. CASE Restore
  <2>1. pc = "restore" /\ pc' = "ended" /\ UNCHANGED <<opts, missed, sent>>
    BY <1>9 DEF Restore, stateVars
  <2> QED
    BY <2>1 DEF ClosedUpTo, cmds, LeftOpen
<1>10. CASE Signal
  BY <1>1, <1>2, <1>10 DEF Signal, stateVars
<1>11. CASE Answer \/ Traffic
  BY <1>1, <1>11 DEF Answer, Traffic, stateVars
<1>12. CASE (Device \/ Reporting) /\ UNCHANGED dxVars
  BY <1>12, DeviceThere DEF dxVars, OnlyAttached
<1> QED
  BY <1>3, <1>4, <1>5, <1>6, <1>7, <1>8, <1>9, <1>10, <1>11, <1>12 DEF Next, Main

---------------------------------------------------------------------------
(* Questions and answers. *)

LEMMA ReadKeeps ==
    ASSUME DxTypes, inq # <<>>, inq' = Tail(inq), unanswered' = unanswered, NEW q, NEW c
    PROVE  /\ NoneOf(q) => NoneOf(q)'
           /\ OneOf(q, c) => OneOf(q, c)'
           /\ OneOf(q, c) /\ Head(inq).letter = q => Head(inq).ch = c /\ NoneOf(q)'
<1>1. /\ Head(inq) = inq[1] /\ 1 \in DOMAIN inq
      /\ DOMAIN inq = 1..Len(inq) /\ DOMAIN inq' = 1..(Len(inq) - 1) /\ Len(inq) \in Nat
      /\ \A k \in DOMAIN inq' : k + 1 \in DOMAIN inq /\ k + 1 # 1 /\ inq'[k] = inq[k + 1]
  BY DEF DxTypes
<1>2. NoneOf(q) => NoneOf(q)'
  BY <1>1 DEF NoneOf
<1>3. ASSUME OneOf(q, c) PROVE OneOf(q, c)'
  <2>1. ASSUME NEW k \in DOMAIN inq', NEW n \in DOMAIN inq', inq'[k].letter = q, inq'[n].letter = q
        PROVE  k = n
    <3>1. k + 1 = n + 1
      BY <1>1, <1>3, <2>1 DEF OneOf
    <3> QED
      BY <1>1, <2>1, <3>1
  <2>2. \A k \in DOMAIN inq' : inq'[k].letter = q => inq'[k].ch = c
    BY <1>1, <1>3 DEF OneOf
  <2>3. \A k \in DOMAIN inq', n \in DOMAIN unanswered' :
           ~(inq'[k].letter = q /\ unanswered'[n].letter = q)
    BY <1>1, <1>3 DEF OneOf
  <2> QED
    BY <1>3, <2>1, <2>2, <2>3 DEF OneOf
<1>4. ASSUME OneOf(q, c), Head(inq).letter = q PROVE Head(inq).ch = c /\ NoneOf(q)'
  <2>1. \A k \in DOMAIN inq' : inq'[k].letter # q
    BY <1>1, <1>4 DEF OneOf
  <2> QED
    BY <1>1, <1>4, <2>1 DEF OneOf, NoneOf
<1> QED
  BY <1>2, <1>3, <1>4

LEMMA AnswerKeeps ==
    ASSUME DxTypes, unanswered # <<>>, unanswered' = Tail(unanswered),
           inq' = Append(inq, Head(unanswered)), NEW q, NEW c
    PROVE  /\ NoneOf(q) => NoneOf(q)'
           /\ OneOf(q, c) => OneOf(q, c)'
<1> DEFINE last == Len(inq) + 1
<1>1. /\ Head(unanswered) = unanswered[1] /\ 1 \in DOMAIN unanswered
      /\ DOMAIN unanswered = 1..Len(unanswered) /\ Len(unanswered) \in Nat
      /\ DOMAIN unanswered' = 1..(Len(unanswered) - 1)
      /\ \A k \in DOMAIN unanswered' :
            k + 1 \in DOMAIN unanswered /\ k + 1 # 1 /\ unanswered'[k] = unanswered[k + 1]
  BY DEF DxTypes
<1>2. /\ inq'[last] = unanswered[1]
      /\ \A k \in DOMAIN inq : inq'[k] = inq[k]
      /\ DOMAIN inq' = 1..last /\ DOMAIN inq = 1..Len(inq) /\ Len(inq) \in Nat
  <2>1. inq \in Seq(TtyLine) /\ Head(unanswered) \in TtyLine
    BY DEF DxTypes
  <2> QED
    BY <1>1, <2>1, AppendProperties
<1>3. \A k \in DOMAIN inq' : k \in DOMAIN inq \/ k = last
  BY <1>2
<1>4. ASSUME NoneOf(q) PROVE NoneOf(q)'
  BY <1>1, <1>2, <1>3, <1>4 DEF NoneOf
<1>5. ASSUME OneOf(q, c) PROVE OneOf(q, c)'
  <2>1. \A k \in DOMAIN inq' : inq'[k].letter = q => inq'[k].ch = c
    BY <1>1, <1>2, <1>3, <1>5 DEF OneOf
  <2>2. \A k \in DOMAIN unanswered' : unanswered'[k].letter = q => unanswered'[k].ch = c
    BY <1>1, <1>5 DEF OneOf
  <2>3. \A k, n \in DOMAIN inq' : inq'[k].letter = q /\ inq'[n].letter = q => k = n
    BY <1>1, <1>2, <1>3, <1>5 DEF OneOf
  <2>4. ASSUME NEW k \in DOMAIN unanswered', NEW n \in DOMAIN unanswered',
               unanswered'[k].letter = q, unanswered'[n].letter = q
        PROVE  k = n
    <3>1. k + 1 = n + 1
      BY <1>1, <1>5, <2>4 DEF OneOf
    <3> QED
      BY <1>1, <2>4, <3>1
  <2>5. ASSUME NEW k \in DOMAIN inq', NEW n \in DOMAIN unanswered',
               inq'[k].letter = q, unanswered'[n].letter = q
        PROVE  FALSE
    <3>1. CASE k = last
      <4>1. n + 1 = 1
        BY <1>1, <1>2, <1>5, <2>5, <3>1 DEF OneOf
      <4> QED
        BY <1>1, <2>5, <4>1
    <3>2. CASE k \in DOMAIN inq
      BY <1>1, <1>2, <1>5, <2>5, <3>2 DEF OneOf
    <3> QED
      BY <1>3, <2>5, <3>1, <3>2
  <2> QED
    BY <2>1, <2>2, <2>3, <2>4, <2>5 DEF OneOf
<1> QED
  BY <1>4, <1>5

LEMMA AskKeeps ==
    ASSUME DxTypes, NEW l \in TtyLine, unanswered' = Append(unanswered, l), inq' = inq, NEW q, NoneOf(q)
    PROVE  IF l.letter = q THEN OneOf(q, l.ch)' ELSE NoneOf(q)'
<1> DEFINE last == Len(unanswered) + 1
<1>1. /\ unanswered'[last] = l
      /\ \A k \in DOMAIN unanswered : unanswered'[k] = unanswered[k]
      /\ DOMAIN unanswered' = 1..last /\ DOMAIN unanswered = 1..Len(unanswered)
      /\ Len(unanswered) \in Nat
  BY AppendProperties DEF DxTypes
<1>2. \A k \in DOMAIN unanswered' : k \in DOMAIN unanswered \/ k = last
  BY <1>1
<1>3. CASE l.letter # q
  BY <1>1, <1>2, <1>3 DEF NoneOf
<1>4. CASE l.letter = q
  BY <1>1, <1>2, <1>4 DEF NoneOf, OneOf
<1> QED
  BY <1>3, <1>4

LEMMA TrafficKeeps ==
    ASSUME DxTypes, NEW l \in TtyLine, inq' = Append(inq, l), unanswered' = unanswered,
           NEW q, NEW c, l.letter # q
    PROVE  /\ NoneOf(q) => NoneOf(q)'
           /\ OneOf(q, c) => OneOf(q, c)'
<1> DEFINE last == Len(inq) + 1
<1>1. /\ inq'[last] = l
      /\ \A k \in DOMAIN inq : inq'[k] = inq[k]
      /\ DOMAIN inq' = 1..last /\ DOMAIN inq = 1..Len(inq) /\ Len(inq) \in Nat
  BY AppendProperties DEF DxTypes
<1>2. \A k \in DOMAIN inq' : k \in DOMAIN inq \/ k = last
  BY <1>1
<1> QED
  BY <1>1, <1>2 DEF NoneOf, OneOf

LEMMA StepAsked ==
    ASSUME DxTypes, OnlyAttached, Asked, AnswerBelongs, Next
    PROVE  Asked' /\ AnswerBelongs'
<1> USE DEF Goto, NextCommand, Quit
<1>1. ASSUME UNCHANGED <<pc, i, opts, inq, unanswered, late>> PROVE Asked'
  BY <1>1 DEF Asked, NoneOf, OneOf, cmds
<1>2. ASSUME pc' \notin {"parse", "open", "script", "reply"} PROVE Asked'
  BY <1>2 DEF Asked
<1>3. ASSUME UNCHANGED <<printed, late>> PROVE AnswerBelongs'
  BY <1>3 DEF AnswerBelongs
<1>4. \A q : UNCHANGED <<inq, unanswered>> /\ NoneOf(q) => NoneOf(q)'
  BY DEF NoneOf
<1>5. \A q, c : UNCHANGED <<inq, unanswered>> /\ OneOf(q, c) => OneOf(q, c)'
  BY DEF OneOf
<1>6. CASE Parse \/ ParseEnd \/ OpenTty
  <2>1. /\ UNCHANGED <<inq, unanswered, printed, late>> /\ inq = <<>> /\ unanswered = <<>>
        /\ pc' \in {"parse", "open", "script", "dying"}
    BY <1>6 DEF Parse, ParseEnd, OpenTty, Asked
  <2>2. \A q : NoneOf(q)'
    BY <2>1 DEF NoneOf
  <2> QED
    BY <1>3, <2>1, <2>2 DEF Asked
<1>7. CASE RunCommand
  <2>1. /\ UNCHANGED <<inq, unanswered, printed, late>> /\ pc = "script"
        /\ pc' \in {"script", "dying"}
    BY <1>7 DEF RunCommand
  <2> QED
    BY <1>3, <1>4, <2>1 DEF Asked
<1>8. CASE Ask
  <2>1. /\ UNCHANGED <<inq, printed, late, opts>> /\ pc = "script" /\ i <= Len(cmds)
        /\ cmds[i].cmd \in Queries
    BY <1>8 DEF Ask
  <2>2. CASE pc' = "script" /\ UNCHANGED unanswered
    BY <1>3, <1>4, <2>1, <2>2 DEF Asked
  <2>3. CASE /\ pc' = "reply" /\ UNCHANGED i
             /\ unanswered' = Append(unanswered, [letter |-> cmds[i].cmd, ch |-> cmds[i].ch])
    <3>1. i \in DOMAIN cmds /\ cmds[i] \in CommandOf /\ i' = i /\ cmds' = cmds
      BY <2>1, <2>3, ACommand DEF DxTypes, cmds
    <3>2. PICK l \in TtyLine : l = [letter |-> cmds[i].cmd, ch |-> cmds[i].ch]
      BY <3>1 DEF TtyLine, CommandOf
    <3>3. \A q \in Queries \ late : IF l.letter = q THEN OneOf(q, l.ch)' ELSE NoneOf(q)'
      BY <2>1, <2>3, <3>2, AskKeeps DEF Asked
    <3>4. l.letter = cmds'[i'].cmd /\ l.ch = cmds'[i'].ch
      BY <3>1, <3>2
    <3>5. PICK a, c : a = cmds'[i'].cmd /\ c = cmds'[i'].ch
      OBVIOUS
    <3>6. \A q \in Queries \ late' : IF q = a THEN OneOf(q, c)' ELSE NoneOf(q)'
      BY <2>1, <3>3, <3>4, <3>5
    <3>7. Asked'
      BY <2>1, <2>3, <3>1, <3>5, <3>6 DEF Asked, OneOf
    <3> QED
      BY <1>3, <2>1, <3>7
  <2> QED
    BY <1>8, <2>2, <2>3 DEF Ask
<1>9. CASE ReadLine
  <2>1. /\ pc = "reply" /\ inq # <<>> /\ inq' = Tail(inq)
        /\ UNCHANGED <<unanswered, late, opts>> /\ cmds' = cmds
        /\ i \in DOMAIN cmds /\ cmds[i].cmd \in Queries
    BY <1>9 DEF ReadLine, Asked, cmds
  <2>2. PICK a, c : a = cmds[i].cmd /\ c = cmds[i].ch
    OBVIOUS
  <2>3. /\ a \in Queries
        /\ \A q \in Queries \ late : IF q = a THEN OneOf(q, c) ELSE NoneOf(q)
    BY <2>1, <2>2 DEF Asked
  <2>4. /\ \A q \in Queries \ late : q # a => NoneOf(q)'
        /\ a \notin late => OneOf(a, c)'
        /\ a \notin late /\ Head(inq).letter = a => Head(inq).ch = c /\ NoneOf(a)'
    BY <2>1, <2>3, ReadKeeps
  <2>5. CASE ~IsAnswer(Head(inq))
    <3>1. UNCHANGED <<printed, pc, i>>
      BY <1>9, <2>5 DEF ReadLine
    <3>2. Asked'
      BY <2>1, <2>2, <2>4, <3>1 DEF Asked, OneOf
    <3> QED
      BY <1>3, <2>1, <3>1, <3>2
  <2>6. CASE IsAnswer(Head(inq))
    <3>1. /\ printed' = <<Head(inq).letter, Head(inq).ch, cmds[i].ch>> /\ pc' = "script"
          /\ Head(inq).letter = a
      BY <1>9, <2>2, <2>6 DEF ReadLine, IsAnswer
    <3>2. Asked'
      BY <2>1, <2>4, <3>1 DEF Asked
    <3>3. AnswerBelongs'
      BY <2>1, <2>2, <2>4, <3>1 DEF AnswerBelongs
    <3> QED
      BY <3>2, <3>3
  <2> QED
    BY <2>5, <2>6
<1>10. CASE IdleSlice \/ ReadFails
  <2>1. /\ UNCHANGED <<unanswered, inq, opts, printed>> /\ pc = "reply"
        /\ UNCHANGED <<pc, i, late>> \/ (pc' = "script" /\ late' = late \cup {cmds[i].cmd})
    BY <1>10 DEF IdleSlice, ReadFails, GiveUp
  <2>2. CASE UNCHANGED <<pc, i, late>>
    BY <1>1, <1>3, <2>1, <2>2
  <2>3. CASE pc' = "script" /\ late' = late \cup {cmds[i].cmd}
    <3>1. \A q \in Queries \ late' : NoneOf(q)
      BY <2>1, <2>3 DEF Asked
    <3>2. Asked'
      BY <1>4, <2>1, <2>3, <3>1 DEF Asked
    <3> QED
      BY <2>1, <2>3, <3>2 DEF AnswerBelongs
  <2> QED
    BY <2>1, <2>2, <2>3
<1>11. CASE Attach
  BY <1>2, <1>11 DEF Attach, AnswerBelongs
<1>12. CASE Name \/ Mode \/ Start \/ LoopEnds \/ Reset
  BY <1>2, <1>3, <1>12 DEF Name, Mode, Start, LoopEnds, AfterLoop, Reset, AfterReset
<1>13. CASE CloseOne \/ ClosesEnd \/ Restore \/ Die
  BY <1>2, <1>3, <1>13 DEF CloseOne, ClosesEnd, Restore, Die
<1>14. CASE Signal
  BY <1>1, <1>2, <1>3, <1>14 DEF Signal
<1>15. CASE Answer
  <2>1. /\ unanswered # <<>> /\ unanswered' = Tail(unanswered)
        /\ inq' = Append(inq, Head(unanswered)) /\ UNCHANGED <<pc, i, opts, printed, late>>
    BY <1>15 DEF Answer, Arrives
  <2>2. PICK a, c : a = cmds[i].cmd /\ c = cmds[i].ch
    OBVIOUS
  <2>3. a = cmds'[i'].cmd /\ c = cmds'[i'].ch /\ cmds' = cmds
    BY <2>1, <2>2 DEF cmds
  <2>4. \A q : NoneOf(q) => NoneOf(q)'
    BY <2>1, AnswerKeeps
  <2>5. OneOf(a, c) => OneOf(a, c)'
    BY <2>1, AnswerKeeps
  <2>6. Asked'
    <3>1. CASE pc = "reply"
      <4>1. /\ i' \in DOMAIN cmds' /\ a \in Queries
            /\ \A q \in Queries \ late' : IF q = a THEN OneOf(a, c) ELSE NoneOf(q)
        BY <2>1, <2>2, <2>3, <3>1 DEF Asked
      <4>2. \A q \in Queries \ late' : IF q = a THEN OneOf(q, c)' ELSE NoneOf(q)'
        BY <2>4, <2>5, <4>1
      <4> QED
        BY <2>1, <2>3, <3>1, <4>1, <4>2 DEF Asked, OneOf
    <3>2. CASE pc = "script"
      BY <2>1, <2>4, <3>2 DEF Asked
    <3>3. CASE pc \notin {"script", "reply"}
      BY <2>1, <3>3 DEF Asked
    <3> QED
      BY <3>1, <3>2, <3>3
  <2> QED
    BY <1>3, <2>1, <2>6
<1>16. CASE Traffic
  <2>1. /\ inq' = Append(inq, [letter |-> "t", ch |-> 0])
        /\ UNCHANGED <<unanswered, pc, i, opts, printed, late>>
    BY <1>16 DEF Traffic, Arrives
  <2>2. PICK a, c : a = cmds[i].cmd /\ c = cmds[i].ch
    OBVIOUS
  <2>3. a = cmds'[i'].cmd /\ c = cmds'[i'].ch /\ cmds' = cmds
    BY <2>1, <2>2 DEF cmds
  <2>4. [letter |-> "t", ch |-> 0] \in TtyLine /\ "t" \notin Queries
    BY DEF TtyLine, Letters, Global, Queries
  <2>5. \A q \in Queries : NoneOf(q) => NoneOf(q)'
    BY <2>1, <2>4, TrafficKeeps
  <2>6. a \in Queries /\ OneOf(a, c) => OneOf(a, c)'
    BY <2>1, <2>4, TrafficKeeps
  <2>7. pc = "reply"
    BY <1>16 DEF Traffic
  <2>8. Asked'
    BY <2>1, <2>2, <2>3, <2>5, <2>6, <2>7 DEF Asked, OneOf
  <2> QED
    BY <1>3, <2>1, <2>8
<1>17. CASE (Device \/ Reporting) /\ UNCHANGED dxVars
  BY <1>1, <1>3, <1>17 DEF dxVars
<1> QED
  BY <1>6, <1>7, <1>8, <1>9, <1>10, <1>11, <1>12, <1>13, <1>14, <1>15, <1>16, <1>17 DEF Next, Main

---------------------------------------------------------------------------
(* The invariant holds. *)

LEMMA InitHolds == Init => IInv
<1> SUFFICES ASSUME Init PROVE IInv
  OBVIOUS
<1>1. StateTypes /\ DxTypes
  BY InitTypes
<1>2. OnlyAttached /\ NewestLast /\ StateFollows
  BY DEF Init, StateInit, OnlyAttached, NewestLast, StateFollows
<1>3. Closing /\ Asked /\ AnswerBelongs
  BY DEF Init, Closing, Asked, AnswerBelongs
<1> QED
  BY <1>1, <1>2, <1>3 DEF IInv

LEMMA Inductive == IInv /\ [Next]_vars => IInv'
<1> SUFFICES ASSUME IInv, [Next]_vars PROVE IInv'
  OBVIOUS
<1>1. CASE Next
  BY <1>1, StepTypes, StepOnlyAttached, StepNewest, StepClosing, StepAsked DEF IInv
<1>2. CASE UNCHANGED vars
  <2>1. StateTypes' /\ DxTypes'
    BY <1>2 DEF IInv, vars, stateVars, dxVars, StateTypes, DxTypes
  <2>2. OnlyAttached' /\ NewestLast' /\ StateFollows'
    BY <1>2 DEF IInv, vars, stateVars, dxVars, OnlyAttached, NewestLast, StateFollows
  <2>3. Closing'
    BY <1>2 DEF IInv, vars, stateVars, dxVars, Closing, ClosedUpTo, LeftOpen, cmds
  <2>4. Asked' /\ AnswerBelongs'
    BY <1>2 DEF IInv, vars, dxVars, Asked, NoneOf, OneOf, cmds, AnswerBelongs
  <2> QED
    BY <2>1, <2>2, <2>3, <2>4 DEF IInv
<1> QED
  BY <1>1, <1>2

LEMMA Invariant == Spec => []IInv
BY InitHolds, Inductive, PTL DEF Spec

(* Whatever slcandx does to the device, and however reports are timed or    *)
(* lost, a device that heard the last report after ndo_open agrees with the *)
(* adapter.                                                                 *)
THEOREM DxStateFollows == Spec => []StateFollows
<1>1. IInv => StateFollows
  BY DEF IInv
<1> QED
  BY <1>1, Invariant, PTL

(* A foreground slcandx that comes to its end leaves closed every channel   *)
(* that was given -c and whose close command it could write, whatever the   *)
(* script and the driver sent before.                                       *)
THEOREM DxCloseOnExit == Spec => []CloseOnExit
<1>1. IInv => CloseOnExit
  <2> SUFFICES ASSUME IInv, pc = "ended" PROVE CloseOnExit
    BY DEF CloseOnExit
  <2>1. ClosedUpTo(Len(cmds) + 1)
    BY DEF IInv, Closing
  <2>2. \A k \in DOMAIN cmds : k < Len(cmds) + 1
    BY DEF IInv, DxTypes, Parsed, cmds
  <2> QED
    BY <2>1, <2>2 DEF CloseOnExit, ClosedUpTo
<1> QED
  BY <1>1, Invariant, PTL

(* An answer is printed for the channel that was asked, however late the    *)
(* adapter answers and whatever traffic is between, as long as no query of  *)
(* its letter was given up before.                                          *)
THEOREM DxAnswerBelongs == Spec => []AnswerBelongs
<1>1. IInv => AnswerBelongs
  BY DEF IInv
<1> QED
  BY <1>1, Invariant, PTL

(* slcandx writes to the tty only while no line discipline is attached:     *)
(* never between the characters of the driver.                              *)
THEOREM DxOneWriter == Spec => OneWriter
<1>1. IInv /\ [Next]_vars =>
        [Len(sent') > Len(sent) /\ sent'[Len(sent')].by # "driver" => net = "none"]_vars
  BY StepOneWriter DEF IInv
<1> QED
  BY <1>1, Invariant, PTL DEF Spec, OneWriter

=============================================================================
