------------------------------ MODULE SlcanTx ------------------------------
(***************************************************************************)
(* The transmit side of the slcanx line discipline (slcan-core.c).         *)
(*                                                                         *)
(* All CAN channels of an adapter share one serial port and so one         *)
(* transmit buffer, xbuff, with its window xhead/xleft.  Four kinds of     *)
(* code work on it: the net devices' ndo_start_xmit handlers (any CPU,     *)
(* port->lock held), the work item tx_work, the batch timer that schedules *)
(* it, and the commands of ndo_open/ndo_stop, which overwrite the buffer   *)
(* and wait at most one second for it to drain.  The tty below takes bytes,*)
(* drains them, and calls write_wakeup if TTY_DO_WRITE_WAKEUP is set.      *)
(*                                                                         *)
(* One action is a critical section of port->lock, or a store made without *)
(* it; a section that calls ops->write is three: up to the call, the call, *)
(* and the update of xleft with the unlock, for the tty and                *)
(* slcan_netdev_close do not wait for the lock.  A line of the protocol is *)
(* a sequence of Chars; what it says is abstracted to who sent it.         *)
(***************************************************************************)
EXTENDS Integers, Sequences, FiniteSets

CONSTANTS
    NumChannels,\* SLCAN_MAX_CHANNELS
    Conf,       \* what `ip link set` configured for each channel
    Room,       \* SLCAN_MTU - 100
    FrameLen,   \* characters of an encapsulated frame, its CR included
    CmdLen,     \* characters of a command
    Modes,      \* whether tx_batch_us > 0 (batch), and whether the tty may take
                \* part of what it is offered (partial)
    TtyCap,     \* how much the tty holds: characters if partial, else writes
    MaxFrames,  \* bound: frames a channel sends
    MaxOpens,   \* bound: ndo_open calls
    MaxCloses   \* bound: ndo_stop and slcan_close calls made by the user

Channels == 0..(NumChannels - 1)

ConfType == [bitrate: BOOLEAN, sample: BOOLEAN, fd: BOOLEAN, dsample: BOOLEAN,
             errRst: BOOLEAN, listen: BOOLEAN]

ASSUME ChannelsAssumption == NumChannels \in Nat \ {0}
ASSUME ConfAssumption == Conf \in [Channels -> ConfType]
ASSUME SizesAssumption ==
    Room \in Nat /\ FrameLen \in Nat \ {0} /\ CmdLen \in Nat \ {0}
ASSUME TtyAssumption == TtyCap \in Nat \ {0}
ASSUME ModesAssumption == Modes \subseteq [batch: BOOLEAN, partial: BOOLEAN]
ASSUME BoundsAssumption ==
    /\ MaxFrames \in Nat /\ MaxOpens \in Nat /\ MaxCloses \in Nat

VARIABLES
    pend,     \* the bytes from xhead on that xleft counts, or will at the unlock
    debt,     \* -xleft, where slcan_netdev_close made it negative
    xcmd,     \* SLF_XCMD: a command is being sent and its sender waits
    holder,   \* who holds port->lock across ops->write
    offered,  \* and has yet to call it
    taken,    \* or has what it took still to subtract from xleft
    mode,     \* the module's parameter and the kind of tty
    dropped,  \* history: lines a command or a close may have cut
    wakeReq,  \* TTY_DO_WRITE_WAKEUP
    workQ,    \* tx_work is scheduled
    waking,   \* i of tx_work's loop that wakes the queues; NumChannels outside it
    timer,    \* the batch timer is armed
    wire,     \* history: every byte the tty accepted
    busy,     \* what the tty holds and has not sent
    done,     \* the tty sent something and has yet to call tty_wakeup
    net,      \* state of each net device
    stopped,  \* the device's queue is stopped
    sent,     \* history: how many frames of each channel were encapsulated
    ndo,      \* the ndo_open or ndo_stop that holds RTNL, by where it stands
    ndoCh,    \* the channel it works on
    todo,     \* the commands it has yet to send
    opens,    \* ndo_open and ndo_stop calls so far
    closes,
    ldisc,    \* where slcan_close stands
    reg       \* i of slcan_close: the channels before it are unregistered

buffer == <<pend, debt, xcmd, dropped>>
lock == <<holder, offered, taken>>
work == <<workQ, waking, timer>>
tty == <<wire, busy, done>>
queues == <<stopped, sent>>
control == <<net, ndo, ndoCh, todo, opens, closes, ldisc, reg>>
vars == <<buffer, lock, mode, wakeReq, work, tty, queues, control>>

---------------------------------------------------------------------------
(* Lines and the characters they are made of. *)

CmdNames == {"CS", "p", "Y", "P", "Y0", "F", "L", "O", "C"}
Line == [ch: Channels, cmd: CmdNames \cup {"frame", "junk"}, n: Nat]
LenOf(line) == IF line.cmd = "frame" THEN FrameLen ELSE CmdLen
Char == [line: Line, part: Nat]
Chars(line) == [i \in 1..LenOf(line) |-> [line |-> line, part |-> i]]

Frame(c, n) == [ch |-> c, cmd |-> "frame", n |-> n]
Command(c, cmd, n) == [ch |-> c, cmd |-> cmd, n |-> n]
Junk == [ch |-> 0, cmd |-> "junk", n |-> 0]

LinesOf(s) == {s[i].line : i \in 1..Len(s)}

(* The commands slcan_netdev_open sends, in order.  "CS" is the one write   *)
(* "C\rS<n>\r"; without a bitrate of its own the channel was set up by the  *)
(* daemon, and no command is sent.                                          *)
OpenCmds(c) ==
    LET f == Conf[c]
        Opt(b, cmd) == IF b THEN <<cmd>> ELSE <<>>
    IN IF ~f.bitrate THEN <<>>
       ELSE <<"CS">> \o Opt(f.sample, "p")
            \o (IF f.fd THEN <<"Y">> \o Opt(f.dsample, "P") ELSE <<"Y0">>)
            \o Opt(f.errRst, "F")
            \o <<IF f.listen THEN "L" ELSE "O">>

CloseCmds(c) == IF Conf[c].bitrate THEN <<"C">> ELSE <<>>

---------------------------------------------------------------------------
(* port->lock, held across ops->write by the xmit of a channel, by tx_work *)
(* or by a command.                                                        *)

NoOne == NumChannels
Work == NumChannels + 1
Cmd == NumChannels + 2

Enter(h) == holder = NoOne /\ holder' = h /\ UNCHANGED taken

(* tty->ops->write.  A cdc-acm port takes a whole write or, with no free    *)
(* write buffer, nothing; a pty or a UART takes what fits.                  *)
Smaller(a, b) == IF a <= b THEN a ELSE b

Taken(n) ==
    IF mode.partial THEN Smaller(n, TtyCap - busy)
    ELSE IF busy < TtyCap THEN n ELSE 0

FirstPart(s, a) == SubSeq(s, 1, Len(s) - a) \* mutant: xhead stays
Rest(s, a) == SubSeq(s, a + 1, Len(s))

Write(s, a) ==
    /\ wire' = wire \o SubSeq(s, 1, a)
    /\ busy' = busy + (IF mode.partial THEN a ELSE IF a > 0 THEN 1 ELSE 0)
    /\ taken' = a
    /\ UNCHANGED done

(* The call: the tty takes some of what xleft counts at xhead.  A negative *)
(* xleft is a huge size_t, and what lies behind xhead is sent.             *)
OpsWrite ==
    /\ offered /\ offered' = FALSE
    /\ \/ /\ debt = 0
          /\ Write(pend, Taken(Len(pend)))
          /\ pend' = Rest(pend, taken')
          /\ UNCHANGED <<debt, dropped>>
       \/ /\ debt > 0
          /\ LET s == [i \in 1..TtyCap |-> [line |-> Junk, part |-> 1]]
             IN  Write(s, Taken(TtyCap))
          /\ debt' = debt + taken'
          /\ dropped' = dropped \cup {Junk}
          /\ UNCHANGED pend
    /\ UNCHANGED <<xcmd, holder, mode, wakeReq, work, queues, control>>

(* TTY_DO_WRITE_WAKEUP is set "before" ops->write or "after" it. *)
Late(step) == step = "after"                \* mutant: the order is reversed
Never(step) == FALSE                        \* mutant: nothing is requested
Requests(step) == step = "before"
RequestWakeup(step) == wakeReq' = (wakeReq \/ Requests(step))

Unlock ==
    /\ holder # NoOne /\ ~offered
    /\ holder' = NoOne /\ taken' = 0
    /\ IF holder = Work THEN UNCHANGED wakeReq ELSE RequestWakeup("after")
    /\ UNCHANGED <<buffer, offered, mode, work, tty, queues, control>>

LoopsTooFar == waking > NumChannels         \* mutant: i <= SLCAN_MAX_CHANNELS
NotWaking == waking = NumChannels
WorkIdle == ~workQ /\ NotWaking /\ holder # Work

---------------------------------------------------------------------------
(* ndo_start_xmit. *)

HasRoom == Len(pend) <= Room

CanXmit(c) ==
    /\ holder = NoOne
    /\ net[c] = "up" /\ ~stopped[c] /\ ~Conf[c].listen /\ sent[c] < MaxFrames

ArmTimer == timer' = TRUE

Requeued(c) == UNCHANGED sent               \* mutant: refused, yet encapsulated
Consumed(c) == sent' = [sent EXCEPT ![c] = @ + 1]

(* slcan_encaps: append the frame, then leave it to the batch timer or      *)
(* write the buffer.  With a negative xleft the frame is stored before      *)
(* xhead by as much, and its first bytes are not sent.                      *)
Encaps(c) ==
    LET line == Frame(c, sent[c] + 1)
        batched == mode.batch /\ Len(pend') < Room
    IN
    /\ Consumed(c)
    /\ pend' = Rest(pend \o Chars(line), debt)
    /\ debt' = debt - Smaller(debt, FrameLen)
    /\ dropped' = IF debt > 0 THEN dropped \cup {line} ELSE dropped
    /\ \/ /\ batched
          /\ ArmTimer
          /\ UNCHANGED <<wakeReq, offered>>
       \/ /\ ~batched
          /\ timer' = FALSE
          /\ RequestWakeup("before")
          /\ offered' = TRUE

Xmit(c) ==
    /\ CanXmit(c)
    /\ HasRoom
    /\ Enter(c)
    /\ Encaps(c)
    /\ UNCHANGED <<xcmd, mode, workQ, waking, tty, stopped, control>>

StopQueue(c) ==
    stopped' = [stopped EXCEPT ![c] = TRUE] /\ UNCHANGED sent

(* NETDEV_TX_BUSY: the frame goes back to the queue, which is stopped. *)
XmitBusy(c) ==
    /\ CanXmit(c)
    /\ ~HasRoom
    /\ StopQueue(c)
    /\ UNCHANGED <<buffer, lock, mode, wakeReq, work, tty, control>>

---------------------------------------------------------------------------
(* tx_work, its timer, and the wakeups of the tty. *)

TimerFires ==
    /\ timer
    /\ timer' = FALSE
    /\ workQ' = TRUE
    /\ UNCHANGED <<buffer, lock, mode, wakeReq, waking, tty, queues, control>>

(* slcan_transmit with bytes left: write them, and request nothing. *)
TxWrite ==
    /\ workQ /\ NotWaking /\ pend # <<>>
    /\ Enter(Work)
    /\ workQ' = FALSE
    /\ offered' = TRUE
    /\ UNCHANGED <<buffer, mode, wakeReq, waking, timer, tty, queues, control>>

SomeCmd == xcmd                             \* mutant: xleft is not looked at
CmdDrained == xcmd /\ pend = <<>>

(* slcan_transmit when a command has drained: wake its sender alone. *)
TxCmdDone ==
    /\ workQ /\ NotWaking /\ holder = NoOne /\ CmdDrained
    /\ workQ' = FALSE
    /\ xcmd' = FALSE
    /\ wakeReq' = FALSE
    /\ UNCHANGED <<pend, debt, dropped, lock, mode, waking, timer, tty, queues, control>>

FirstWoken1 == 1                            \* mutant: the loop starts late
FirstWoken == 0

(* slcan_transmit when frames have drained: after the unlock, wake the      *)
(* queue of every channel, one after the other (WakeQueue).                 *)
TxDrained ==
    /\ workQ /\ NotWaking /\ holder = NoOne /\ pend = <<>> /\ ~xcmd
    /\ workQ' = FALSE
    /\ wakeReq' = FALSE
    /\ waking' = FirstWoken
    /\ UNCHANGED <<buffer, lock, mode, timer, tty, queues, control>>

WakeQueue ==
    /\ ~NotWaking
    /\ stopped' = [stopped EXCEPT ![waking] = FALSE]
    /\ waking' = waking + 1
    /\ UNCHANGED <<buffer, lock, mode, wakeReq, workQ, timer, tty, sent, control>>

(* The tty sends some of what it holds ... *)
TtyDrain ==
    /\ busy > 0
    /\ busy' = busy - 1
    /\ done' = TRUE
    /\ UNCHANGED <<buffer, lock, mode, wakeReq, work, wire, queues, control>>

(* ... and tty_wakeup calls slcan_write_wakeup if that was requested. *)
WriteWakeup ==
    /\ done
    /\ done' = FALSE
    /\ workQ' = (workQ \/ (wakeReq /\ ldisc # "closed"))
    /\ UNCHANGED <<buffer, lock, mode, wakeReq, waking, timer, wire, busy, queues, control>>

---------------------------------------------------------------------------
(* ndo_open and ndo_stop, under RTNL. *)

CmdChars(cmd) == Chars(Command(ndoCh, cmd, opens + closes))

(* slcan_transmit_cmd up to ops->write: the command replaces the buffer, *)
(* whatever that holds.                                                  *)
SendCmd ==
    /\ ndo \in {"open", "close"} /\ todo # <<>>
    /\ Enter(Cmd)
    /\ pend' = CmdChars(Head(todo)) /\ debt' = 0
    /\ dropped' = dropped \cup LinesOf(pend)
    /\ RequestWakeup("before")
    /\ offered' = TRUE
    /\ xcmd' = TRUE
    /\ ndo' = IF ndo = "open" THEN "openwait" ELSE "closewait"
    /\ UNCHANGED <<mode, work, tty, queues, net, ndoCh, todo, opens, closes, ldisc, reg>>

(* The wait ends because SLF_XCMD was cleared. *)
CmdSent ==
    /\ ndo \in {"openwait", "closewait"} /\ ~xcmd
    /\ todo' = Tail(todo)
    /\ ndo' = IF ndo = "openwait" THEN "open" ELSE "close"
    /\ UNCHANGED <<buffer, lock, mode, wakeReq, work, tty, queues, net, ndoCh, opens, closes, ldisc, reg>>

NeverExpires == FALSE                       \* mutant: the wait has no timeout
Expires == xcmd
KeepsXcmd == UNCHANGED <<xcmd, pend>>       \* mutant: the flag stays set
DropsRest == xcmd' = FALSE /\ pend' = <<>>    \* mutant: the rest is thrown away
CmdAbandoned == xcmd' = FALSE /\ UNCHANGED pend

(* The wait ends with SLF_XCMD set, after a second or by a signal: ndo_open *)
(* gives up, ndo_stop goes on.                                              *)
CmdFailed ==
    /\ ndo \in {"openwait", "closewait"} /\ holder # Cmd /\ Expires
    /\ CmdAbandoned
    /\ todo' = <<>>
    /\ \/ /\ ndo = "openwait"
          /\ ndo' = "free"
          /\ net' = [net EXCEPT ![ndoCh] = "down"]
       \/ /\ ndo = "closewait"
          /\ ndo' = "close"
          /\ UNCHANGED net
    /\ UNCHANGED <<debt, dropped, lock, mode, wakeReq, work, tty, queues, ndoCh, opens, closes, ldisc, reg>>

OpenStart(c) ==
    /\ ndo = "free" /\ opens < MaxOpens
    /\ c >= reg /\ net[c] = "down"
    /\ ~(ldisc = "unregister" /\ c = reg)
    /\ ndo' = "open" /\ ndoCh' = c /\ todo' = OpenCmds(c)
    /\ opens' = opens + 1
    /\ net' = [net EXCEPT ![c] = "opening"]
    /\ UNCHANGED <<buffer, lock, mode, wakeReq, work, tty, queues, closes, ldisc, reg>>

OpenFinish ==
    /\ ndo = "open" /\ todo = <<>>
    /\ ndo' = "free"
    /\ net' = [net EXCEPT ![ndoCh] = "up"]
    /\ stopped' = [stopped EXCEPT ![ndoCh] = FALSE]
    /\ UNCHANGED <<buffer, lock, mode, wakeReq, work, tty, sent, ndoCh, todo, opens, closes, ldisc, reg>>

(* The stack stops calling xmit on the device, and waits for the last call *)
(* of it, before it calls ndo_stop.                                        *)
CloseBegin(c) ==
    /\ ndo = "free" /\ net[c] = "up" /\ holder # c
    /\ ndo' = "close" /\ ndoCh' = c /\ todo' = CloseCmds(c)
    /\ net' = [net EXCEPT ![c] = "closing"]

CloseStart(c) ==
    /\ closes < MaxCloses
    /\ ldisc = "open"
    /\ CloseBegin(c)
    /\ closes' = closes + 1
    /\ UNCHANGED <<buffer, lock, mode, wakeReq, work, tty, queues, opens, ldisc, reg>>

(* Then, without the lock: clear TTY_DO_WRITE_WAKEUP, ... *)
CloseClearWakeup ==
    /\ ndo = "close" /\ todo = <<>>
    /\ wakeReq' = FALSE
    /\ ndo' = "flush"
    /\ UNCHANGED <<buffer, lock, mode, work, tty, queues, net, ndoCh, todo, opens, closes, ldisc, reg>>

(* ... flush_work(tx_work), ... *)
CloseFlush ==
    /\ ndo = "flush" /\ WorkIdle
    /\ ndo' = "zero"
    /\ UNCHANGED <<buffer, lock, mode, wakeReq, work, tty, queues, net, ndoCh, todo, opens, closes, ldisc, reg>>

(* ... stop the queue and set xleft to 0, whatever the buffer holds.  The   *)
(* store falls between two sections, or into one: then the `xleft -= actual` *)
(* of its end makes xleft negative, or has read xleft before and undoes it. *)
CloseFinish ==
    /\ ndo = "zero"
    /\ stopped' = [stopped EXCEPT ![ndoCh] = TRUE]
    /\ \/ pend' = <<>> /\ debt' = taken
       \/ holder # NoOne /\ UNCHANGED <<pend, debt>>
    /\ dropped' = dropped \cup LinesOf(pend)
    /\ ndo' = "free"
    /\ net' = [net EXCEPT ![ndoCh] = "down"]
    /\ UNCHANGED <<xcmd, lock, mode, wakeReq, work, tty, sent, ndoCh, todo, opens, closes, ldisc, reg>>

---------------------------------------------------------------------------
(* slcan_close: cancel the timer, flush tx_work, unregister the channels    *)
(* (an interface that is up is closed first), flush again, detach.          *)

LdiscStep(from, to) == ldisc = from /\ ldisc' = to

DetachStart ==
    /\ closes < MaxCloses
    /\ LdiscStep("open", "cancelled")
    /\ timer' = FALSE
    /\ UNCHANGED <<buffer, lock, mode, wakeReq, workQ, waking, tty, queues, net, ndo, ndoCh, todo, opens, closes, reg>>

DetachFlush ==
    /\ \/ LdiscStep("cancelled", "unregister")
       \/ reg = NumChannels /\ LdiscStep("unregister", "flushed")
    /\ WorkIdle
    /\ UNCHANGED <<buffer, lock, mode, wakeReq, work, tty, queues, net, ndo, ndoCh, todo, opens, closes, reg>>

DetachClose ==
    /\ ldisc = "unregister" /\ reg < NumChannels
    /\ CloseBegin(reg)
    /\ UNCHANGED <<buffer, lock, mode, wakeReq, work, tty, queues, opens, closes, ldisc, reg>>

DetachUnregister ==
    /\ ldisc = "unregister" /\ reg < NumChannels
    /\ ndo = "free" /\ net[reg] = "down"
    /\ reg' = reg + 1
    /\ UNCHANGED <<buffer, lock, mode, wakeReq, work, tty, queues, net, ndo, ndoCh, todo, opens, closes, ldisc>>

DetachFinish ==
    /\ holder = NoOne
    /\ LdiscStep("flushed", "closed")
    /\ UNCHANGED <<buffer, lock, mode, wakeReq, work, tty, queues, net, ndo, ndoCh, todo, opens, closes, reg>>

---------------------------------------------------------------------------
Init ==
    /\ pend = <<>> /\ debt = 0 /\ xcmd = FALSE /\ dropped = {}
    /\ holder = NoOne /\ offered = FALSE /\ taken = 0
    /\ mode \in Modes
    /\ wakeReq = FALSE
    /\ workQ = FALSE /\ waking = NumChannels /\ timer = FALSE
    /\ wire = <<>> /\ busy = 0 /\ done = FALSE
    /\ net = [c \in Channels |-> "down"]
    /\ stopped = [c \in Channels |-> FALSE]
    /\ sent = [c \in Channels |-> 0]
    /\ ndo = "free" /\ ndoCh = 0 /\ todo = <<>>
    /\ opens = 0 /\ closes = 0
    /\ ldisc = "open" /\ reg = 0

Section == OpsWrite \/ Unlock

TxWork == TxWrite \/ TxCmdDone \/ TxDrained \/ WakeQueue

Ndo == SendCmd \/ CmdSent \/ CmdFailed \/ OpenFinish
       \/ CloseClearWakeup \/ CloseFlush \/ CloseFinish

Detach == DetachFlush \/ DetachClose \/ DetachUnregister \/ DetachFinish

Next ==
    \/ \E c \in Channels : Xmit(c) \/ XmitBusy(c) \/ OpenStart(c) \/ CloseStart(c)
    \/ TimerFires \/ Section \/ TxWork \/ TtyDrain \/ WriteWakeup
    \/ Ndo \/ DetachStart \/ Detach

(* The kernel runs work items, timers and the tty's wakeup, and a thread    *)
(* inside a critical section, ndo_open, ndo_stop or slcan_close keeps       *)
(* running; nobody has to send a frame or to bring an interface up or down, *)
(* and the adapter may stop reading at any time.                            *)
Fairness ==
    /\ WF_vars(TimerFires) /\ WF_vars(TxWork) /\ WF_vars(Section) /\ WF_vars(WriteWakeup)
    /\ WF_vars(Ndo) /\ WF_vars(Detach)

Spec == Init /\ [][Next]_vars
FairSpec == Spec /\ Fairness

---------------------------------------------------------------------------
(* Properties. *)

NetStates == {"down", "opening", "up", "closing"}
NdoStates == {"free", "open", "openwait", "close", "closewait", "flush", "zero"}
LdiscStates == {"open", "cancelled", "unregister", "flushed", "closed"}

(* The types of the variables; a thread that waits for a command still has *)
(* the command at the head of its script, only a holder of the lock has a   *)
(* write under way, and with a negative xleft nothing is to be sent.        *)
TypeOK ==
    /\ pend \in Seq(Char) /\ debt \in Nat /\ xcmd \in BOOLEAN /\ dropped \subseteq Line
    /\ holder \in 0..NumChannels + 2 /\ offered \in BOOLEAN /\ taken \in Nat
    /\ holder = NoOne => ~offered /\ taken = 0
    /\ offered => taken = 0
    /\ debt > 0 => pend = <<>>
    /\ mode \in Modes
    /\ wakeReq \in BOOLEAN
    /\ workQ \in BOOLEAN /\ waking \in 0..NumChannels /\ timer \in BOOLEAN
    /\ wire \in Seq(Char) /\ busy \in 0..TtyCap /\ done \in BOOLEAN
    /\ net \in [Channels -> NetStates]
    /\ stopped \in [Channels -> BOOLEAN]
    /\ sent \in [Channels -> 0..MaxFrames]
    /\ ndo \in NdoStates /\ ndoCh \in Channels /\ todo \in Seq(CmdNames)
    /\ ndo \in {"openwait", "closewait"} => todo # <<>>
    /\ opens \in 0..MaxOpens /\ closes \in 0..MaxCloses
    /\ ldisc \in LdiscStates /\ reg \in 0..NumChannels

(* Whatever parts the tty takes, the adapter reads a torn line only where a *)
(* command replaced a partly written buffer or a close emptied it: every    *)
(* other character on the wire continues the one before it, and every other *)
(* line is finished before the next begins, and begins with its first       *)
(* character.                                                               *)
Finished(x) == x.part = LenOf(x.line) \/ x.line \in dropped
StartsLine(s, i) ==
    /\ s[i].part = 1 \/ s[i].line \in dropped
    /\ i > 1 => Finished(s[i-1])
ContinuesLine(s, i) ==
    i > 1 /\ s[i].line = s[i-1].line /\ s[i].part = s[i-1].part + 1
WholeLines == \A i \in 1..Len(wire) : StartsLine(wire, i) \/ ContinuesLine(wire, i)

(* A channel's frames reach the wire in the order the stack sent them, and  *)
(* no character twice, whatever partial writes, batching and commands do.   *)
Before(a, b) == a.line.n < b.line.n \/ (a.line.n = b.line.n /\ a.part < b.part)
FramesInOrder ==
    LET s == wire \o pend IN
    \A i, j \in 1..Len(s) :
        (/\ i < j /\ s[i].line.ch = s[j].line.ch
         /\ s[i].line.cmd = "frame" /\ s[j].line.cmd = "frame")
        => Before(s[i], s[j])

(* Nothing that was given to the tty or is in the buffer is lost, changed   *)
(* or overtaken, except by a command, which replaces the buffer, and by the *)
(* unlocked store of ndo_stop, which empties it wherever it falls: whatever *)
(* is thrown away, and it may be other channels' frames, is thrown away     *)
(* there, and never on the wire.                                            *)
StartsWith(t, s) == Len(s) <= Len(t) /\ SubSeq(t, 1, Len(s)) = s
CommandBegins == holder # Cmd /\ holder' = Cmd
CloseEnds == ndo = "zero" /\ ndo' = "free"
FramesKept ==
    [][ StartsWith(wire' \o pend',
                   IF CommandBegins \/ CloseEnds THEN wire ELSE wire \o pend) ]_vars

(* Without batching, and between two sections, bytes in the buffer are owed *)
(* a run of tx_work: it is scheduled, or the tty has been asked for a wakeup *)
(* and has something to send.  That is what "set_bit before write" in       *)
(* slcan_encaps is for: the tty may have sent all it took before the call   *)
(* returns.  Exempt are the lines that the end of slcan_netdev_close found  *)
(* in the buffer, and the window in which it is about to throw them away.   *)
Waiting == \E i \in 1..Len(pend) : pend[i].line \notin dropped
WakeupPromised ==
    \/ workQ
    \/ timer
    \/ wakeReq /\ (busy > 0 \/ done)
NoLostWakeup ==
    ~mode.batch /\ holder = NoOne /\ Waiting /\ ldisc # "closed"
        => WakeupPromised \/ ndo \in {"flush", "zero"}

(* SLF_XCMD is set only while the thread that set it waits: a command's     *)
(* completion is never taken for another's, and no frame drain is silenced  *)
(* by a flag nobody waits on.                                               *)
XcmdHasWaiter == xcmd => ndo \in {"openwait", "closewait"}

(* When slcan_netdev_open succeeds, the tty has taken every command of its  *)
(* script, whole, once and in order, and no other of that call, although    *)
(* other channels' frames and commands share the buffer and xleft reaching  *)
(* 0 is the only completion signal.  In q are, of call k on channel c, the  *)
(* first d commands; those of InTurn come in the order of the script.       *)
OfCall(x, c, k) == x.line.ch = c /\ x.line.n = k /\ x.line.cmd \in CmdNames
AllThere(q, c, k, d) == \A j \in 1..d, p \in 1..CmdLen : \E i \in 1..Len(q) :
    q[i] = [line |-> Command(c, OpenCmds(c)[j], k), part |-> p]
NoOther(q, c, k, d) == \A i \in 1..Len(q) :
    OfCall(q[i], c, k) => \E j \in 1..d : q[i].line.cmd = OpenCmds(c)[j]
Sooner(x, y, s) == \E i, j \in 1..Len(s) :
    /\ x.line.cmd = s[i] /\ y.line.cmd = s[j]
    /\ i < j \/ (i = j /\ x.part < y.part)
InTurn(q, c, k) == \A i, j \in 1..Len(q) :
    i < j /\ OfCall(q[i], c, k) /\ OfCall(q[j], c, k) => Sooner(q[i], q[j], OpenCmds(c))
CmdsOnWire(c, k) ==
    LET d == Len(OpenCmds(c))
    IN  AllThere(wire, c, k, d) /\ NoOther(wire, c, k, d) /\ InTurn(wire, c, k)
OpenMeansConfigured ==
    [][ ndo = "open" /\ ndo' = "free" => CmdsOnWire(ndoCh, opens + closes) ]_vars

(* The adapter goes on reading. *)
AdapterReads == WF_vars(TtyDrain)

(* Without batching, the frames accepted from the stack are all on the wire *)
(* in the end, whole, but for those that a command or a close cut.          *)
Senders == {c \in Channels : ~Conf[c].listen}
HasAll(s, line) == \A i \in 1..LenOf(line) : \E j \in 1..Len(s) : s[j] = Chars(line)[i]
Owed(c) == \E n \in 1..sent[c] : ~HasAll(wire, Frame(c, n)) /\ Frame(c, n) \notin dropped
FramesReachTheWire == AdapterReads =>
    \A c \in Senders : ~mode.batch /\ Owed(c) ~> ~Owed(c)

(* Without batching, a queue that NETDEV_TX_BUSY stopped is woken again, by *)
(* the drain of whatever the shared buffer holds by then: frames of other   *)
(* channels, or what is left of a command that timed out.  A drain that a   *)
(* command of another interface takes for its own wakes nobody.             *)
StoppedQueueWakes == AdapterReads =>
    \A c \in Senders :
        ~mode.batch /\ net[c] = "up" /\ stopped[c] /\ Waiting ~> ~stopped[c] \/ ndo # "free"

(* The port comes to rest (nothing runs, is scheduled or will call back)    *)
(* only when the buffer is empty and no interface that is up has a stopped  *)
(* queue.                                                                   *)
AtRest ==
    /\ holder = NoOne /\ WorkIdle /\ ~timer /\ busy = 0 /\ ~done
    /\ ndo = "free" /\ ldisc = "open"
NothingStranded ==
    AtRest => pend = <<>> /\ \A c \in Channels : net[c] = "up" => ~stopped[c]

(* Whatever the tty does, slcan_close ends once it has begun, and so does   *)
(* the thread in ndo_open or ndo_stop whose command it waits for: the wait  *)
(* has a timeout, and flush_work ends.                                      *)
DetachCompletes == (ldisc = "cancelled") ~> (ldisc = "closed")

=============================================================================
