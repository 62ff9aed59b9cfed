------------------------------ MODULE SlcanRx ------------------------------
(***************************************************************************)
(* The receive side of the slcanx line discipline (slcan-core.c): bytes of *)
(* all channels arrive on one stream, slcan_unesc collects them in rbuff   *)
(* up to a CR, slcan_select_channel and slcan_bump hand the line to a      *)
(* channel.  What can disturb it: a byte the tty flags as bad (SLF_ERROR   *)
(* skips to the next CR), a byte dropped without a flag, a full rbuff, and *)
(* slcan_netdev_close of any channel, which sets rcount to 0 from another  *)
(* thread in the middle of whatever line is arriving.                      *)
(*                                                                         *)
(* A line is the number of its transmission; a byte is its position in its *)
(* line, the last one being the CR.  What a damaged line decodes to is not *)
(* modelled: it may be nothing or a false frame, on any channel.           *)
(***************************************************************************)
EXTENDS Integers, Sequences, FiniteSets

CONSTANTS
    Channels,     \* channel indices
    BodyLen,      \* bytes of a line before its CR
    MinLen,       \* a line must be longer than this (the 4 of rcount > 4)
    RSize,        \* SLCAN_MTU, the size of rbuff
    MaxLines,     \* bound: lines the adapter sends
    MaxEvents     \* bound: disturbances

ASSUME RxAssumption ==
    /\ Channels # {} /\ IsFiniteSet(Channels)
    /\ BodyLen \in Nat \ {0} /\ MinLen \in Nat /\ MinLen < BodyLen
    /\ RSize \in Nat /\ BodyLen <= RSize
    /\ MaxLines \in Nat \ {0} /\ MaxEvents \in Nat

VARIABLES
    owner,      \* owner[l]: the channel line l is about; lines 1..Len(owner) exist
    next,       \* the byte that arrives next: [line, pos]
    rbuff,      \* the rcount bytes collected
    err,        \* SLF_ERROR
    rx,         \* what each channel gave to the network layer
    events,     \* how many disturbances there were
    clean       \* history: no disturbance since the last CR that was read

vars == <<owner, next, rbuff, err, rx, events, clean>>

CR == BodyLen + 1
Byte == [line: 1..MaxLines, pos: 1..CR]
FalseFrame == 0

Body(l) == [i \in 1..BodyLen |-> [line |-> l, pos |-> i]]

---------------------------------------------------------------------------
(* The line in rbuff, for slcan_bump: complete, with or without bytes after *)
(* it (slcan_bump_frame requires a minimum length), or damaged.             *)
IsLine(l) == Len(rbuff) >= BodyLen /\ SubSeq(rbuff, 1, BodyLen) = Body(l)
Complete == \E l \in 1..MaxLines : IsLine(l)

Deliver(c, item) == rx' = [rx EXCEPT ![c] = Append(@, item)]

Bump ==
    IF Complete
    THEN LET l == rbuff[1].line IN Deliver(owner[l], l)
    ELSE UNCHANGED rx \/ \E c \in Channels : Deliver(c, FalseFrame)

(* The byte after this one; the adapter may be about any channel. *)
Advance ==
    IF next.pos < CR
    THEN next' = [next EXCEPT !.pos = @ + 1] /\ UNCHANGED owner
    ELSE /\ Len(owner) < MaxLines
         /\ \E c \in Channels : owner' = Append(owner, c)
         /\ next' = [line |-> next.line + 1, pos |-> 1]

---------------------------------------------------------------------------
KeepErr == UNCHANGED err                 \* mutant: a CR does not end the skipping
ClearErr == err' = FALSE
KeepCount == UNCHANGED rbuff             \* mutant: rcount is not reset
ResetCount == rbuff' = <<>>
GoodLine == ~err
FullLate == Len(rbuff) > RSize           \* mutant: one byte too many
Full == Len(rbuff) >= RSize

(* slcan_unesc on a CR: hand over the line if there was no error and it is  *)
(* long enough; in any case start a new one.                                *)
ReadCR ==
    /\ next.pos = CR
    /\ IF GoodLine /\ Len(rbuff) > MinLen THEN Bump ELSE UNCHANGED rx
    /\ ClearErr
    /\ ResetCount
    /\ clean' = TRUE
    /\ Advance
    /\ UNCHANGED events

(* slcan_unesc on any other byte: collect it, skip it, or, when rbuff is    *)
(* full, start skipping.                                                    *)
ReadByte ==
    /\ next.pos < CR
    /\ rbuff' = IF err \/ Full THEN rbuff ELSE Append(rbuff, next)
    /\ err' = (err \/ Full)
    /\ Advance
    /\ UNCHANGED <<rx, events, clean>>

Disturb == events < MaxEvents /\ events' = events + 1 /\ clean' = FALSE

(* slcan_receive_buf on a byte the tty flagged: skip it, and the line. *)
BadByte ==
    /\ Disturb
    /\ err' = TRUE
    /\ Advance
    /\ UNCHANGED <<rbuff, rx>>

(* The tty had no room and dropped the byte, unflagged. *)
LostByte ==
    /\ Disturb
    /\ Advance
    /\ UNCHANGED <<rbuff, err, rx>>

(* slcan_netdev_close, in a thread of its own, without the lock. *)
CloseResets ==
    /\ Disturb
    /\ rbuff # <<>>
    /\ rbuff' = <<>>
    /\ UNCHANGED <<owner, next, err, rx>>

(* The same store between slcan_unesc's test of rcount and its use in       *)
(* slcan_select_channel: the line is not handed over.                       *)
CloseResetsInCR ==
    /\ Disturb
    /\ next.pos = CR
    /\ GoodLine /\ Len(rbuff) > MinLen
    /\ ClearErr
    /\ ResetCount
    /\ Advance
    /\ UNCHANGED rx

Init ==
    /\ \E c \in Channels : owner = <<c>>
    /\ next = [line |-> 1, pos |-> 1]
    /\ rbuff = <<>> /\ err = FALSE
    /\ rx = [c \in Channels |-> <<>>]
    /\ events = 0 /\ clean = TRUE

Next == ReadCR \/ ReadByte \/ BadByte \/ LostByte \/ CloseResets \/ CloseResetsInCR

Spec == Init /\ [][Next]_vars

---------------------------------------------------------------------------
(* Properties. *)

(* The types of the variables; rbuff never outgrows SLCAN_MTU bytes.        *)
TypeOK ==
    /\ owner \in Seq(Channels) /\ Len(owner) \in 1..MaxLines
    /\ next \in Byte /\ next.line = Len(owner)
    /\ rbuff \in Seq(Byte) /\ Len(rbuff) <= RSize /\ err \in BOOLEAN
    /\ rx \in [Channels -> Seq(0..MaxLines)]
    /\ events \in 0..MaxEvents /\ clean \in BOOLEAN

(* Once a CR has been read the parser is in step with the adapter again,    *)
(* whatever happened before it: no error flag is left over, and rbuff holds *)
(* exactly what has come of the current line.                               *)
InSync ==
    clean => ~err /\ rbuff = SubSeq(Body(next.line), 1, next.pos - 1)

(* A channel delivers only frames that are its own, each once and in the    *)
(* order they were sent, next to false ones.                                *)
DeliveredInOrder == \A c \in Channels : \A i \in 1..Len(rx[c]) :
    rx[c][i] # FalseFrame =>
        /\ owner[rx[c][i]] = c
        /\ \A j \in 1..i - 1 : rx[c][j] < rx[c][i]

Count(P(_)) == Cardinality({x \in Channels \X (1..MaxLines) :
                    x[2] <= Len(rx[x[1]]) /\ P(rx[x[1]][x[2]])})
False(item) == item = FalseFrame
True(item) == item # FalseFrame

(* One disturbance makes up at most one false frame, and costs at most two  *)
(* lines: a bad CR loses its own line and the next.                         *)
DamageBounded ==
    /\ Count(False) <= events
    /\ (next.line - 1) - Count(True) <= 2 * events

=============================================================================
