--------------------------- MODULE SlcanTxProofs ---------------------------
(***************************************************************************)
(* Theorems about SlcanTx, for every set of channels, every configuration  *)
(* and all sizes.  Each safety property comes with the invariant that      *)
(* makes it inductive.                                                     *)
(***************************************************************************)
EXTENDS SlcanTx, SequenceTheorems, TLAPS

USE DEF RequestWakeup, Requests, ArmTimer, Consumed, StopQueue, HasRoom, Enter,
        CmdDrained, FirstWoken, NotWaking, CmdChars, Expires, CmdAbandoned

---------------------------------------------------------------------------
(* The operators the actions are made of. *)

(* The characters of a line are a sequence of Char of the line's length. *)
LEMMA CharsType ==
    ASSUME NEW line \in Line
    PROVE  /\ Chars(line) \in Seq(Char)
           /\ Len(Chars(line)) = LenOf(line)
           /\ LenOf(line) \in Nat \ {0}
           /\ \A i \in 1..LenOf(line) : Chars(line)[i] = [line |-> line, part |-> i]
  <1>1. LenOf(line) \in Nat \ {0}
    BY SizesAssumption DEF LenOf
  <1>2. \A i \in 1..LenOf(line) : [line |-> line, part |-> i] \in Char
    BY <1>1 DEF Char
  <1>3. Chars(line) \in [1..LenOf(line) -> Char]
    BY <1>2 DEF Chars
  <1>4. Chars(line) \in Seq(Char)
    BY <1>1, <1>3, SeqDef
  <1> QED BY <1>1, <1>3, <1>4, LenProperties DEF Chars

LEMMA LineType ==
    ASSUME NEW c \in Channels, NEW n \in Nat
    PROVE  /\ Frame(c, n) \in Line
           /\ \A cmd \in CmdNames : Command(c, cmd, n) \in Line
  BY DEF Frame, Command, Line

LEMMA JunkType == Junk \in Line /\ Junk.cmd = "junk" /\ Junk.n = 0
  BY ChannelsAssumption DEF Junk, Line, Channels

(* The tty takes no more than it is offered, nor more than it can hold. *)
LEMMA TakenRange ==
    ASSUME NEW n \in Nat, busy \in 0..TtyCap
    PROVE  /\ Taken(n) \in 0..n
           /\ mode.partial => busy + Taken(n) <= TtyCap
           /\ ~mode.partial /\ Taken(n) > 0 => busy < TtyCap
           /\ mode.partial /\ Taken(n) < n => busy + Taken(n) = TtyCap
           /\ ~mode.partial /\ Taken(n) < n => Taken(n) = 0 /\ busy = TtyCap
  BY TtyAssumption DEF Taken, Smaller

LEMMA RestType ==
    ASSUME NEW s \in Seq(Char), NEW a \in Nat
    PROVE  Rest(s, a) \in Seq(Char)
  <1>1. Len(s) \in Nat /\ \A i \in 1..Len(s) : s[i] \in Char
    BY LenProperties, ElementOfSeq
  <1>2. \A i \in a + 1..Len(s) : s[i] \in Char
    BY <1>1
  <1> QED BY <1>1, <1>2, SubSeqProperties DEF Rest

LEMMA Regroup ==
    ASSUME NEW s \in Seq(Char), NEW t \in Seq(Char), NEW u \in Seq(Char)
    PROVE  (s \o t) \o u = s \o (t \o u)
  BY ConcatAssociative

(* What a write leaves of s is next to what it took. *)
LEMMA CutInTwo ==
    ASSUME NEW s \in Seq(Char), NEW a \in 0..Len(s)
    PROVE  /\ SubSeq(s, 1, a) \in Seq(Char)
           /\ SubSeq(s, 1, a) \o Rest(s, a) = s
           /\ a = Len(s) => Rest(s, a) = <<>>
           /\ a = 0 => Rest(s, a) = s
  <1>1. Len(s) \in Nat /\ \A i \in 1..Len(s) : s[i] \in Char
    BY LenProperties, ElementOfSeq
  <1>2. SubSeq(s, 1, a) \in Seq(Char)
    BY <1>1, SubSeqProperties
  <1>3. 1 \in 1..Len(s)+1 /\ a \in 1-1..Len(s) /\ Len(s) \in a..Len(s)
    BY <1>1
  <1>4. SubSeq(s, 1, a) \o SubSeq(s, a + 1, Len(s)) = SubSeq(s, 1, Len(s))
    BY <1>3, ConcatAdjacentSubSeq, Zenon
  <1>5. SubSeq(s, 1, Len(s)) = s
    BY SubSeqFull
  <1>6. a = Len(s) => SubSeq(s, a + 1, Len(s)) = <<>>
    BY <1>1, SubSeqEmpty
  <1>7. a = 0 => SubSeq(s, a + 1, Len(s)) = s
    <2>1. 0 + 1 = 1
      OBVIOUS
    <2> QED BY <1>5, <2>1
  <1>8. Rest(s, a) = SubSeq(s, a + 1, Len(s))
    BY DEF Rest
  <1> QED BY <1>2, <1>4, <1>5, <1>6, <1>7, <1>8

(* A write of s to a tty that takes part of it. *)
LEMMA WriteType ==
    ASSUME NEW s \in Seq(Char), TypeOK, Write(s, Taken(Len(s)))
    PROVE  /\ taken' \in 0..Len(s) /\ Len(s) \in Nat
           /\ wire' \in Seq(Char) /\ busy' \in 0..TtyCap /\ done' = done
           /\ wire' = wire \o SubSeq(s, 1, taken')
           /\ taken' < Len(s) => busy' > 0
  <1> DEFINE a == Taken(Len(s))
  <1>1. Len(s) \in Nat /\ busy \in 0..TtyCap /\ wire \in Seq(Char)
    BY LenProperties DEF TypeOK
  <1>2. /\ a \in 0..Len(s)
        /\ mode.partial => busy + a <= TtyCap
        /\ ~mode.partial /\ a > 0 => busy < TtyCap
        /\ mode.partial /\ a < Len(s) => busy + a = TtyCap
        /\ ~mode.partial /\ a < Len(s) => a = 0 /\ busy = TtyCap
    BY <1>1, TakenRange
  <1>3. /\ taken' = a /\ done' = done /\ wire' = wire \o SubSeq(s, 1, a)
        /\ busy' = busy + (IF mode.partial THEN a ELSE IF a > 0 THEN 1 ELSE 0)
    BY DEF Write
  <1> HIDE DEF a
  <1>4. wire' \in Seq(Char)
    BY <1>1, <1>2, <1>3, CutInTwo, ConcatProperties
  <1>5. busy' \in 0..TtyCap /\ (a < Len(s) => busy' > 0)
    BY <1>1, <1>2, <1>3, TtyAssumption
  <1> QED BY <1>1, <1>2, <1>3, <1>4, <1>5

LEMMA OpenCmdsType ==
    ASSUME NEW c \in Channels
    PROVE  OpenCmds(c) \in Seq(CmdNames) /\ CloseCmds(c) \in Seq(CmdNames)
  <1> DEFINE Opt(b, cmd) == IF b THEN <<cmd>> ELSE <<>>
  <1>1. \A b \in BOOLEAN, cmd \in CmdNames : Opt(b, cmd) \in Seq(CmdNames)
    OBVIOUS
  <1>2. Conf[c] \in ConfType
    BY ConfAssumption
  <1>3. CloseCmds(c) \in Seq(CmdNames)
    <2>1. <<"C">> \in Seq(CmdNames) /\ <<>> \in Seq(CmdNames)
      BY DEF CmdNames
    <2> QED BY <2>1 DEF CloseCmds
  <1>4. CASE ~Conf[c].bitrate
    BY <1>3, <1>4, EmptySeq DEF OpenCmds
  <1>5. CASE Conf[c].bitrate
    <2> DEFINE sp == Opt(Conf[c].sample, "p")
               fd == IF Conf[c].fd THEN <<"Y">> \o Opt(Conf[c].dsample, "P") ELSE <<"Y0">>
               er == Opt(Conf[c].errRst, "F")
               op == <<IF Conf[c].listen THEN "L" ELSE "O">>
    <2>1. sp \in Seq(CmdNames) /\ er \in Seq(CmdNames) /\ op \in Seq(CmdNames)
      BY <1>1, <1>2 DEF ConfType, CmdNames
    <2>2. Opt(Conf[c].dsample, "P") \in Seq(CmdNames)
      BY <1>1, <1>2 DEF ConfType, CmdNames
    <2>3. <<"Y">> \in Seq(CmdNames) /\ <<"Y0">> \in Seq(CmdNames) /\ <<"CS">> \in Seq(CmdNames)
      BY DEF CmdNames
    <2>4. fd \in Seq(CmdNames)
      BY <2>2, <2>3, ConcatProperties
    <2> HIDE DEF sp, fd, er, op
    <2>5. <<"CS">> \o sp \o fd \o er \o op \in Seq(CmdNames)
      BY <2>1, <2>3, <2>4, ConcatProperties
    <2>6. OpenCmds(c) = <<"CS">> \o sp \o fd \o er \o op
      BY <1>5 DEF OpenCmds, sp, fd, er, op
    <2> QED BY <1>3, <2>5, <2>6
  <1> QED BY <1>4, <1>5

---------------------------------------------------------------------------
(* Type correctness. *)

LEMMA InitType == Init => TypeOK
  <1> SUFFICES ASSUME Init PROVE TypeOK
    OBVIOUS
  <1>1. 0 \in Channels
    BY ChannelsAssumption DEF Channels
  <1>2. <<>> \in Seq(Char) /\ <<>> \in Seq(CmdNames)
    BY EmptySeq
  <1>3. NumChannels \in 0..NumChannels + 2
    BY ChannelsAssumption
  <1> QED BY <1>1, <1>2, <1>3, ChannelsAssumption, TtyAssumption, BoundsAssumption
       DEF Init, TypeOK, NoOne, NetStates, NdoStates, LdiscStates

LEMMA LinesOfType ==
    ASSUME NEW s \in Seq(Char)
    PROVE  LinesOf(s) \subseteq Line
  <1>1. \A i \in 1..Len(s) : s[i] \in Char
    BY ElementOfSeq
  <1> QED BY <1>1 DEF LinesOf, Char

(* What a frame adds to the buffer: all of its line, or what a negative     *)
(* xleft leaves of it.                                                      *)
LEMMA EncapsStep ==
    ASSUME NEW c \in Channels, TypeOK, Encaps(c), sent[c] < MaxFrames
    PROVE  LET line == Frame(c, sent[c] + 1)
               t == Rest(Chars(line), debt)
           IN  /\ line \in Line /\ line.cmd = "frame" /\ line.ch = c /\ line.n = sent[c] + 1
               /\ t \in Seq(Char) /\ pend' = pend \o t
               /\ debt = 0 => t = Chars(line) /\ debt' = 0 /\ dropped' = dropped
               /\ debt > 0 => line \in dropped' /\ dropped \subseteq dropped'
               /\ debt' \in Nat /\ (debt' > 0 => pend' = <<>>)
               /\ dropped' \subseteq Line
               /\ sent' \in [Channels -> 0..MaxFrames]
  <1> DEFINE line == Frame(c, sent[c] + 1)
             t == Rest(Chars(line), debt)
  <1>1. sent \in [Channels -> 0..MaxFrames] /\ sent[c] \in Nat /\ debt \in Nat
    BY BoundsAssumption DEF TypeOK
  <1>2. line \in Line /\ line.cmd = "frame" /\ line.ch = c /\ line.n = sent[c] + 1
    <2>1. sent[c] + 1 \in Nat
      BY <1>1
    <2> QED BY <2>1, LineType DEF Frame
  <1>3. /\ pend' = Rest(pend \o Chars(line), debt)
        /\ debt' = debt - Smaller(debt, FrameLen)
        /\ dropped' = IF debt > 0 THEN dropped \cup {line} ELSE dropped
        /\ sent' = [sent EXCEPT ![c] = @ + 1]
    BY DEF Encaps
  <1>4. Chars(line) \in Seq(Char) /\ Len(Chars(line)) = FrameLen
    BY <1>2, CharsType DEF LenOf
  <1> HIDE DEF line
  <1>5. t \in Seq(Char)
    BY <1>1, <1>4, RestType
  <1>6. pend \in Seq(Char) /\ dropped \subseteq Line /\ (debt > 0 => pend = <<>>)
    BY DEF TypeOK
  <1>7. CASE debt = 0
    <2>1. pend \o Chars(line) \in Seq(Char) /\ Len(pend \o Chars(line)) \in Nat
      BY <1>4, <1>6, ConcatProperties
    <2>2. \A s \in Seq(Char) : Rest(s, 0) = s
      <3>1. \A s \in Seq(Char) : 0 \in 0..Len(s)
        BY LenProperties
      <3> QED BY <3>1, CutInTwo
    <2>3. t = Chars(line) /\ pend' = pend \o t
      BY <1>3, <1>4, <1>7, <2>1, <2>2
    <2>4. debt' = 0 /\ dropped' = dropped
      <3>1. Smaller(0, FrameLen) = 0
        BY SizesAssumption DEF Smaller
      <3> QED BY <1>3, <1>7, <3>1
    <2>5. sent' \in [Channels -> 0..MaxFrames]
      BY <1>1, <1>3, BoundsAssumption
    <2>6. dropped' \subseteq Line /\ debt' \in Nat /\ ~(debt' > 0)
      BY <1>6, <2>4
    <2> QED BY <1>2, <1>5, <1>7, <2>3, <2>4, <2>5, <2>6 DEF line
  <1>8. CASE debt > 0
    <2>1. pend \o Chars(line) = Chars(line) /\ pend \o t = t
      BY <1>4, <1>5, <1>6, <1>8, ConcatEmptySeq
    <2>2. debt' \in Nat /\ (debt' > 0 => FrameLen < debt)
      BY <1>1, <1>3, SizesAssumption DEF Smaller
    <2>3. debt' > 0 => t = <<>>
      <3>1. FrameLen < debt => SubSeq(Chars(line), debt + 1, FrameLen) = <<>>
        BY <1>1, <1>4, SizesAssumption, SubSeqEmpty
      <3> QED BY <1>4, <2>2, <3>1 DEF Rest
    <2>4. pend' = t
      BY <1>3, <2>1
    <2>5. sent' \in [Channels -> 0..MaxFrames]
      BY <1>1, <1>3, BoundsAssumption
    <2>6. dropped' \subseteq Line /\ dropped \subseteq dropped' /\ line \in dropped'
      BY <1>2, <1>3, <1>6, <1>8
    <2>7. debt # 0
      BY <1>8
    <2> QED BY <1>2, <1>5, <2>1, <2>2, <2>3, <2>4, <2>5, <2>6, <2>7 DEF line
  <1> QED BY <1>1, <1>7, <1>8

(* What OpsWrite does: the tty takes the beginning of the buffer, or, with *)
(* a negative xleft, bytes that nobody sent.                               *)
JunkBytes(u) == u \in Seq(Char) /\ \A i \in 1..Len(u) : u[i].line = Junk

LEMMA OpsWriteStep ==
    ASSUME TypeOK, OpsWrite
    PROVE  /\ taken' \in Nat /\ wire' \in Seq(Char) /\ busy' \in 0..TtyCap /\ done' = done
           /\ pend' \in Seq(Char) /\ debt' \in Nat /\ (debt' > 0 => pend' = <<>>)
           /\ \/ /\ \E u \in Seq(Char) : wire' = wire \o u
                 /\ wire' \o pend' = wire \o pend
                 /\ dropped' = dropped
                 /\ pend' # <<>> => busy' > 0
              \/ /\ \E u : JunkBytes(u) /\ wire' = wire \o u
                 /\ pend = <<>> /\ pend' = <<>>
                 /\ dropped' = dropped \cup {Junk}
  <1>1. wire \in Seq(Char) /\ pend \in Seq(Char) /\ debt \in Nat /\ (debt > 0 => pend = <<>>)
    BY DEF TypeOK
  <1>2. CASE debt = 0 /\ Write(pend, Taken(Len(pend)))
             /\ pend' = Rest(pend, taken') /\ UNCHANGED <<debt, dropped>>
    <2>1. /\ taken' \in 0..Len(pend) /\ Len(pend) \in Nat
          /\ wire' \in Seq(Char) /\ busy' \in 0..TtyCap /\ done' = done
          /\ wire' = wire \o SubSeq(pend, 1, taken')
          /\ taken' < Len(pend) => busy' > 0
      BY <1>1, <1>2, WriteType
    <2>2. /\ SubSeq(pend, 1, taken') \in Seq(Char)
          /\ SubSeq(pend, 1, taken') \o pend' = pend
          /\ taken' = Len(pend) => pend' = <<>>
      BY <1>1, <1>2, <2>1, CutInTwo
    <2>3. taken' \in Nat /\ pend' \in Seq(Char)
      BY <1>1, <1>2, <2>1, RestType
    <2>4. wire' \o pend' = wire \o pend
      <3>1. (wire \o SubSeq(pend, 1, taken')) \o pend' = wire \o (SubSeq(pend, 1, taken') \o pend')
        BY <1>1, <2>2, <2>3, Regroup
      <3> QED BY <2>1, <2>2, <3>1
    <2>5. pend' # <<>> => busy' > 0
      BY <2>1, <2>2
    <2>6. debt' = 0 /\ dropped' = dropped
      BY <1>2
    <2>7. \E u \in Seq(Char) : wire' = wire \o u
      BY <2>1, <2>2
    <2>8. debt' \in Nat /\ ~(debt' > 0)
      BY <2>6
    <2> QED BY <2>1, <2>3, <2>4, <2>5, <2>6, <2>7, <2>8, Zenon
  <1>3. CASE debt > 0 /\ OpsWrite
    <2> DEFINE x == [line |-> Junk, part |-> 1]
               s == [i \in 1..TtyCap |-> x]
    <2>1. /\ Write(s, Taken(TtyCap)) /\ debt' = debt + taken'
          /\ dropped' = dropped \cup {Junk} /\ pend' = pend
      BY <1>3 DEF OpsWrite
    <2>2. x \in Char
      BY JunkType DEF Char
    <2>3. s \in Seq(Char) /\ Len(s) = TtyCap
      <3>1. s \in [1..TtyCap -> Char]
        BY <2>2
      <3> QED BY <3>1, SeqDef, LenProperties, TtyAssumption
    <2>4. \A i \in 1..TtyCap : s[i].line = Junk
      BY <2>2
    <2> HIDE DEF s
    <2>5. /\ taken' \in 0..TtyCap
          /\ wire' \in Seq(Char) /\ busy' \in 0..TtyCap /\ done' = done
          /\ wire' = wire \o SubSeq(s, 1, taken')
      BY <2>1, <2>3, WriteType
    <2>6. JunkBytes(SubSeq(s, 1, taken'))
      <3>1. SubSeq(s, 1, taken') \in Seq(Char)
        BY <2>3, <2>5, CutInTwo
      <3>2. \A i \in 1..taken' : s[i] \in Char /\ s[i].line = Junk
        BY <2>3, <2>4, <2>5, ElementOfSeq, TtyAssumption
      <3>3. /\ Len(SubSeq(s, 1, taken')) = taken'
            /\ \A i \in 1..taken' : SubSeq(s, 1, taken')[i] = s[i]
        BY <2>5, <3>2, SubSeqProperties, TtyAssumption
      <3> QED BY <3>1, <3>2, <3>3 DEF JunkBytes
    <2>7. taken' \in Nat /\ debt' \in Nat
      <3>1. \A n \in 0..TtyCap : n \in Nat
        BY TtyAssumption
      <3>2. taken' \in Nat
        BY <2>5, <3>1
      <3>3. debt \in Nat /\ debt' = debt + taken'
        BY <1>1, <2>1
      <3>4. \A m, n \in Nat : m + n \in Nat
        OBVIOUS
      <3> QED BY <3>2, <3>3, <3>4, Zenon
    <2> QED BY <1>1, <1>3, <2>1, <2>5, <2>6, <2>7
  <1> QED BY <1>1, <1>2, <1>3 DEF OpsWrite

(* TypeOK by groups of variables, and that a group nobody touches keeps its *)
(* type.                                                                    *)
BufferType ==
    /\ pend \in Seq(Char) /\ debt \in Nat /\ xcmd \in BOOLEAN /\ dropped \subseteq Line
    /\ debt > 0 => pend = <<>>
LockType ==
    /\ holder \in 0..NumChannels + 2 /\ offered \in BOOLEAN /\ taken \in Nat
    /\ holder = NoOne => ~offered /\ taken = 0
    /\ offered => taken = 0
WorkType == workQ \in BOOLEAN /\ waking \in 0..NumChannels /\ timer \in BOOLEAN
TtyType == wire \in Seq(Char) /\ busy \in 0..TtyCap /\ done \in BOOLEAN
QueuesType == stopped \in [Channels -> BOOLEAN] /\ sent \in [Channels -> 0..MaxFrames]
ControlType ==
    /\ net \in [Channels -> NetStates]
    /\ ndo \in NdoStates /\ ndoCh \in Channels /\ todo \in Seq(CmdNames)
    /\ ndo \in {"openwait", "closewait"} => todo # <<>>
    /\ opens \in 0..MaxOpens /\ closes \in 0..MaxCloses
    /\ ldisc \in LdiscStates /\ reg \in 0..NumChannels
FlagsType == mode \in Modes /\ wakeReq \in BOOLEAN

LEMMA GroupsKept ==
    ASSUME TypeOK
    PROVE  /\ UNCHANGED buffer => BufferType'
           /\ UNCHANGED lock => LockType'
           /\ UNCHANGED <<mode, wakeReq>> => FlagsType'
           /\ UNCHANGED tty => TtyType'
           /\ UNCHANGED queues => QueuesType'
           /\ UNCHANGED control => ControlType'
  <1>1. UNCHANGED buffer => BufferType'
    BY DEF TypeOK, BufferType, buffer
  <1>2. UNCHANGED lock => LockType'
    BY DEF TypeOK, LockType, lock
  <1>3. UNCHANGED <<mode, wakeReq>> => FlagsType'
    BY DEF TypeOK, FlagsType
  <1>4. UNCHANGED tty => TtyType'
    BY DEF TypeOK, TtyType, tty
  <1>5. UNCHANGED queues => QueuesType'
    BY DEF TypeOK, QueuesType, queues
  <1>6. UNCHANGED control => ControlType'
    BY DEF TypeOK, ControlType, control
  <1> QED BY <1>1, <1>2, <1>3, <1>4, <1>5, <1>6

LEMMA TypeGroupsNext ==
    ASSUME BufferType', LockType', FlagsType', WorkType', TtyType', QueuesType', ControlType'
    PROVE  TypeOK'
  BY DEF TypeOK, BufferType, LockType, FlagsType, WorkType, TtyType, QueuesType, ControlType

(* One step per action; Xmit and OpsWrite rest on the lemmas above. *)
LEMMA NextType == TypeOK /\ [Next]_vars => TypeOK'
  <1> SUFFICES ASSUME TypeOK, [Next]_vars PROVE TypeOK'
    OBVIOUS
  <1> USE ChannelsAssumption, TtyAssumption, BoundsAssumption
      DEF TypeOK, NoOne, Work, Cmd, NetStates, NdoStates, LdiscStates, Channels
  <1>1. ASSUME NEW c \in Channels, Xmit(c) PROVE TypeOK'
    <2>1. Encaps(c) /\ sent[c] < MaxFrames
      BY <1>1 DEF Xmit, CanXmit
    <2>2. pend' \in Seq(Char)
      <3> HIDE DEF Channels
      <3>1. PICK t : t \in Seq(Char) /\ pend' = pend \o t
        BY <2>1, EncapsStep
      <3> QED BY <3>1, ConcatProperties
    <2>3. /\ debt' \in Nat /\ (debt' > 0 => pend' = <<>>)
          /\ dropped' \subseteq Line
          /\ sent' \in [Channels -> 0..MaxFrames]
      <3> HIDE DEF TypeOK, Channels
      <3> QED BY <2>1, EncapsStep
    <2>4. timer' \in BOOLEAN /\ wakeReq' \in BOOLEAN /\ offered' \in BOOLEAN /\ taken' = 0 /\ holder' = c
      BY <1>1, <2>1 DEF Xmit, Encaps
    <2>5. /\ UNCHANGED <<xcmd, mode, workQ, waking, stopped, net, ndo, ndoCh, todo>>
          /\ UNCHANGED <<opens, closes, ldisc, reg, wire, busy, done>>
      BY <1>1 DEF Xmit, control, tty
    <2>6. BufferType' /\ TtyType'
      BY <2>2, <2>3, <2>5 DEF BufferType, TtyType
    <2>7. LockType'
      BY <2>4 DEF LockType
    <2>8. FlagsType' /\ WorkType'
      BY <2>4, <2>5 DEF FlagsType, WorkType
    <2>9. QueuesType' /\ ControlType'
      BY <2>3, <2>5 DEF QueuesType, ControlType
    <2> QED BY <2>6, <2>7, <2>8, <2>9, TypeGroupsNext
  <1>2. ASSUME NEW c \in Channels, XmitBusy(c) PROVE TypeOK'
    BY <1>2 DEF XmitBusy, buffer, lock, work, tty, control
  <1>3. ASSUME NEW c \in Channels, OpenStart(c) PROVE TypeOK'
    <2>1. todo' \in Seq(CmdNames)
      BY <1>3, OpenCmdsType DEF OpenStart
    <2> QED BY <1>3, <2>1 DEF OpenStart, buffer, lock, work, tty, queues
  <1>4. ASSUME NEW c \in Channels, CloseStart(c) PROVE TypeOK'
    <2>1. todo' \in Seq(CmdNames)
      BY <1>4, OpenCmdsType DEF CloseStart, CloseBegin
    <2> QED BY <1>4, <2>1 DEF CloseStart, CloseBegin, buffer, lock, work, tty, queues
  <1>5. CASE TimerFires
    <2>1. WorkType'
      BY <1>5 DEF TimerFires, WorkType
    <2> HIDE DEF TypeOK
    <2> QED BY <1>5, <2>1, GroupsKept, TypeGroupsNext DEF TimerFires
  <1>6. CASE TxWrite
    <2>1. WorkType'
      BY <1>6 DEF TxWrite, WorkType
    <2>2. LockType'
      BY <1>6 DEF TxWrite, LockType
    <2> HIDE DEF TypeOK
    <2> QED BY <1>6, <2>1, <2>2, GroupsKept, TypeGroupsNext DEF TxWrite
  <1>7. CASE TxCmdDone
    <2>1. WorkType' /\ FlagsType'
      BY <1>7 DEF TxCmdDone, WorkType, FlagsType
    <2>2. BufferType'
      BY <1>7 DEF TxCmdDone, BufferType
    <2> HIDE DEF TypeOK
    <2> QED BY <1>7, <2>1, <2>2, GroupsKept, TypeGroupsNext DEF TxCmdDone
  <1>8. CASE TxDrained
    <2>1. waking' = 0 /\ workQ' = FALSE /\ wakeReq' = FALSE
          /\ UNCHANGED <<buffer, lock, mode, timer, tty, queues, control>>
      BY <1>8 DEF TxDrained
    <2>2. FlagsType'
      BY <2>1 DEF FlagsType
    <2>3. WorkType'
      <3>1. 0 \in 0..NumChannels
        OBVIOUS
      <3>2. timer \in BOOLEAN /\ timer' = timer /\ workQ' = FALSE /\ waking' = 0
        BY <2>1
      <3> HIDE DEF TypeOK
      <3> QED BY <3>1, <3>2 DEF WorkType
    <2> HIDE DEF TypeOK
    <2> QED BY <2>1, <2>2, <2>3, GroupsKept, TypeGroupsNext
  <1>9. CASE WakeQueue
    BY <1>9 DEF WakeQueue, buffer, lock, tty, control
  <1>10. CASE TtyDrain
    BY <1>10 DEF TtyDrain, buffer, lock, work, queues, control
  <1>11. CASE WriteWakeup
    <2>1. WorkType' /\ TtyType'
      BY <1>11 DEF WriteWakeup, WorkType, TtyType
    <2> HIDE DEF TypeOK
    <2> QED BY <1>11, <2>1, GroupsKept, TypeGroupsNext DEF WriteWakeup
  <1>12. CASE SendCmd
    <2>1. Head(todo) \in CmdNames
      BY <1>12, HeadTailProperties DEF SendCmd
    <2>2. pend' \in Seq(Char)
      <3>1. opens + closes \in Nat
        OBVIOUS
      <3>2. Command(ndoCh, Head(todo), opens + closes) \in Line
        BY <2>1, <3>1, LineType
      <3> QED BY <1>12, <3>2, CharsType DEF SendCmd
    <2>3. dropped' \subseteq Line
      BY <1>12, LinesOfType DEF SendCmd
    <2>4. BufferType'
      BY <1>12, <2>2, <2>3 DEF SendCmd, BufferType
    <2>5. LockType' /\ FlagsType'
      <3>1. holder' = Cmd /\ taken' = 0 /\ offered' = TRUE /\ wakeReq' = (wakeReq \/ TRUE) /\ mode' = mode
        BY <1>12 DEF SendCmd
      <3>2. LockType'
        BY <3>1 DEF LockType
      <3> QED BY <3>1, <3>2 DEF FlagsType
    <2>6. ControlType'
      BY <1>12 DEF SendCmd, ControlType
    <2>7. WorkType'
      BY <1>12 DEF SendCmd, work, WorkType
    <2> HIDE DEF TypeOK
    <2> QED BY <1>12, <2>4, <2>5, <2>6, <2>7, GroupsKept, TypeGroupsNext DEF SendCmd
  <1>13. CASE CmdSent
    <2>1. Tail(todo) \in Seq(CmdNames)
      BY <1>13, HeadTailProperties DEF CmdSent
    <2> QED BY <1>13, <2>1 DEF CmdSent, buffer, lock, work, tty, queues
  <1>14. CASE CmdFailed
    <2>1. BufferType'
      BY <1>14 DEF CmdFailed, BufferType
    <2>2. ControlType'
      BY <1>14, EmptySeq DEF CmdFailed, ControlType
    <2>3. WorkType'
      BY <1>14 DEF CmdFailed, work, WorkType
    <2> HIDE DEF TypeOK
    <2> QED BY <1>14, <2>1, <2>2, <2>3, GroupsKept, TypeGroupsNext DEF CmdFailed
  <1>15. CASE OpenFinish
    BY <1>15 DEF OpenFinish, buffer, lock, work, tty
  <1>16. CASE CloseClearWakeup
    BY <1>16 DEF CloseClearWakeup, buffer, lock, work, tty, queues
  <1>17. CASE CloseFlush
    BY <1>17 DEF CloseFlush, buffer, lock, work, tty, queues
  <1>18. CASE CloseFinish
    <2>1. dropped' \subseteq Line
      BY <1>18, LinesOfType DEF CloseFinish
    <2>2. BufferType'
      <3>1. /\ pend \in Seq(Char) /\ debt \in Nat /\ taken \in Nat /\ xcmd \in BOOLEAN
            /\ debt > 0 => pend = <<>>
        OBVIOUS
      <3>2. xcmd' = xcmd /\ \/ pend' = <<>> /\ debt' = taken
                            \/ pend' = pend /\ debt' = debt
        BY <1>18 DEF CloseFinish
      <3>3. <<>> \in Seq(Char)
        BY EmptySeq
      <3> HIDE DEF TypeOK
      <3>4. CASE pend' = <<>> /\ debt' = taken
        BY <2>1, <3>1, <3>2, <3>3, <3>4 DEF BufferType
      <3>5. CASE pend' = pend /\ debt' = debt
        BY <2>1, <3>1, <3>2, <3>5 DEF BufferType
      <3> QED BY <3>2, <3>4, <3>5
    <2>3. QueuesType'
      BY <1>18 DEF CloseFinish, QueuesType
    <2>4. ControlType'
      BY <1>18 DEF CloseFinish, ControlType
    <2>5. WorkType'
      BY <1>18 DEF CloseFinish, work, WorkType
    <2> HIDE DEF TypeOK
    <2> QED BY <1>18, <2>2, <2>3, <2>4, <2>5, GroupsKept, TypeGroupsNext DEF CloseFinish
  <1>19. CASE DetachStart
    BY <1>19 DEF DetachStart, LdiscStep, buffer, lock, tty, queues
  <1>20. CASE DetachFlush
    BY <1>20 DEF DetachFlush, LdiscStep, buffer, lock, work, tty, queues
  <1>21. CASE DetachClose
    <2>1. reg \in Channels
      BY <1>21 DEF DetachClose
    <2>2. todo' \in Seq(CmdNames)
      BY <1>21, <2>1, OpenCmdsType DEF DetachClose, CloseBegin
    <2> QED BY <1>21, <2>1, <2>2 DEF DetachClose, CloseBegin, buffer, lock, work, tty, queues
  <1>22. CASE DetachUnregister
    BY <1>22 DEF DetachUnregister, buffer, lock, work, tty, queues
  <1>23. CASE DetachFinish
    BY <1>23 DEF DetachFinish, LdiscStep, buffer, lock, work, tty, queues
  <1>24. CASE UNCHANGED vars
    BY <1>24 DEF vars, buffer, lock, work, tty, queues, control
  <1>25. CASE OpsWrite
    <2>1. /\ taken' \in Nat /\ wire' \in Seq(Char) /\ busy' \in 0..TtyCap /\ done' = done
          /\ pend' \in Seq(Char) /\ debt' \in Nat /\ (debt' > 0 => pend' = <<>>)
          /\ dropped' = dropped \/ dropped' = dropped \cup {Junk}
      <3> HIDE DEF TypeOK
      <3> QED BY <1>25, OpsWriteStep
    <2>2. dropped' \subseteq Line
      BY <2>1, JunkType
    <2>3. /\ offered /\ offered' = FALSE
          /\ UNCHANGED <<xcmd, holder, mode, wakeReq, work, queues, control>>
      BY <1>25 DEF OpsWrite
    <2>4. BufferType' /\ TtyType'
      BY <2>1, <2>2, <2>3 DEF BufferType, TtyType
    <2>5. LockType'
      BY <2>1, <2>3 DEF LockType
    <2>6. WorkType'
      BY <2>3 DEF work, WorkType
    <2> HIDE DEF TypeOK
    <2> QED BY <2>3, <2>4, <2>5, <2>6, GroupsKept, TypeGroupsNext
  <1>26. CASE Unlock
    BY <1>26 DEF Unlock, buffer, work, tty, queues, control
  <1> QED BY <1>1, <1>2, <1>3, <1>4, <1>5, <1>6, <1>7, <1>8, <1>9, <1>10, <1>11, <1>12,
             <1>13, <1>14, <1>15, <1>16, <1>17, <1>18, <1>19, <1>20, <1>21, <1>22, <1>23,
             <1>24, <1>25, <1>26 DEF Next, Section, TxWork, Ndo, Detach

(* Every variable keeps its type, the history of the wire included; in      *)
(* particular a write is under way only with port->lock held, and after the *)
(* unlocked store of slcan_netdev_close the buffer counts as empty.         *)
THEOREM TypeCorrect == Spec => []TypeOK
  BY InitType, NextType, PTL DEF Spec

---------------------------------------------------------------------------
(* What a step does to the bytes on the wire and in the buffer.  They are   *)
(* one sequence, to which a step adds bytes of one line at the end, or from *)
(* which it cuts off the part behind the wire.                              *)

InTransit == wire \o pend

(* t is a part of a line, in the order of the line, or, of junk, any bytes. *)
PartOf(t, line) ==
    /\ t \in Seq(Char)
    /\ \A i \in 1..Len(t) : t[i].line = line
    /\ line.cmd = "frame" => \A i, j \in 1..Len(t) : i < j => t[i].part < t[j].part

WireGrows == \E u \in Seq(Char) : wire' = wire \o u

Grown(t, line) ==
    /\ line \in Line /\ PartOf(t, line)
    /\ t = Chars(line) \/ line \in dropped'
    /\ InTransit' = InTransit \o t /\ WireGrows
    /\ dropped \subseteq dropped'

CutTo(t) == wire' = wire /\ pend' = t /\ dropped' = dropped \cup LinesOf(pend)

ScriptLine == Command(ndoCh, Head(todo), opens + closes)

FrameStep(c) ==
    /\ sent' = [sent EXCEPT ![c] = @ + 1]
    /\ Frame(c, sent[c] + 1) \in Line
    /\ \E t : Grown(t, Frame(c, sent[c] + 1))
JunkStep == sent' = sent /\ \E t : Grown(t, Junk)
WriteStep == sent' = sent /\ dropped' = dropped /\ InTransit' = InTransit /\ WireGrows
CommandStep ==
    /\ sent' = sent /\ ScriptLine \in Line /\ Head(todo) \in CmdNames
    /\ CutTo(Chars(ScriptLine))
CloseStep == sent' = sent /\ (CutTo(<<>>) \/ CutTo(pend))

LEMMA CharsPart ==
    ASSUME NEW line \in Line, NEW a \in Nat
    PROVE  PartOf(Chars(line), line) /\ PartOf(Rest(Chars(line), a), line)
  <1> DEFINE s == Chars(line)
             t == Rest(s, a)
  <1>1. /\ s \in Seq(Char) /\ Len(s) \in Nat
        /\ \A i \in 1..Len(s) : s[i] = [line |-> line, part |-> i]
    BY CharsType
  <1>2. t \in Seq(Char)
    BY <1>1, RestType
  <1> HIDE DEF s
  <1>3. PartOf(s, line)
    <2>1. ASSUME NEW i \in 1..Len(s) PROVE s[i].line = line /\ s[i].part = i
      <3>1. s[i] = [line |-> line, part |-> i]
        BY <1>1
      <3> QED BY <3>1
    <2> QED BY <1>1, <2>1 DEF PartOf
  <1>4. CASE a < Len(s)
    <2>1. \A i \in a + 1..Len(s) : s[i] \in Char
      BY <1>1, ElementOfSeq
    <2>2. Len(t) = Len(s) - a /\ \A i \in 1..Len(s) - a : t[i] = s[a + i]
      <3>1. a + 1 <= Len(s) + 1
        BY <1>1, <1>4
      <3> QED BY <1>1, <1>4, <2>1, <3>1, SubSeqProperties DEF Rest
    <2> HIDE DEF t
    <2>3. \A i \in 1..Len(t) : t[i].line = line /\ t[i].part = a + i
      <3> SUFFICES ASSUME NEW i \in 1..Len(t) PROVE t[i].line = line /\ t[i].part = a + i
        OBVIOUS
      <3>1. a + i \in 1..Len(s) /\ t[i] = s[a + i]
        BY <1>1, <2>2
      <3>2. t[i] = [line |-> line, part |-> a + i]
        BY <1>1, <3>1
      <3> QED BY <3>2
    <2>4. Len(t) \in Nat
      BY <1>1, <1>4, <2>2
    <2> QED BY <1>2, <1>3, <2>3, <2>4 DEF PartOf, s, t
  <1>5. CASE ~(a < Len(s))
    <2>1. t = <<>>
      BY <1>1, <1>5, SubSeqEmpty DEF Rest
    <2> QED BY <1>2, <1>3, <2>1, EmptySeq DEF PartOf, s, t
  <1> QED BY <1>4, <1>5

LEMMA Sequences ==
    ASSUME TypeOK
    PROVE  /\ wire \in Seq(Char) /\ pend \in Seq(Char) /\ InTransit \in Seq(Char)
           /\ sent \in [Channels -> Nat] /\ opens \in Nat /\ closes \in Nat /\ ndoCh \in Channels
           /\ debt \in Nat
  <1>1. \A n \in 0..MaxFrames : n \in Nat
    BY BoundsAssumption
  <1>2. wire \in Seq(Char) /\ pend \in Seq(Char)
    BY DEF TypeOK
  <1> QED BY <1>1, <1>2, ConcatProperties, BoundsAssumption DEF TypeOK, InTransit

LEMMA XmitStep ==
    ASSUME NEW c \in Channels, TypeOK, Xmit(c)
    PROVE  FrameStep(c)
  <1> DEFINE line == Frame(c, sent[c] + 1)
             t == Rest(Chars(line), debt)
  <1>1. Encaps(c) /\ sent[c] < MaxFrames /\ wire' = wire
    BY DEF Xmit, CanXmit, tty
  <1>2. /\ line \in Line /\ t \in Seq(Char) /\ pend' = pend \o t
        /\ debt = 0 => t = Chars(line) /\ dropped' = dropped
        /\ debt > 0 => line \in dropped' /\ dropped \subseteq dropped'
    BY <1>1, EncapsStep
  <1>3. debt \in Nat /\ wire \in Seq(Char) /\ pend \in Seq(Char)
    BY Sequences
  <1>4. PartOf(t, line)
    BY <1>2, <1>3, CharsPart
  <1>5. sent' = [sent EXCEPT ![c] = @ + 1]
    BY <1>1 DEF Encaps
  <1> HIDE DEF line, t
  <1>6. InTransit' = InTransit \o t
    BY <1>1, <1>2, <1>3, Regroup DEF InTransit
  <1>7. WireGrows
    <2>1. wire' = wire \o <<>> /\ <<>> \in Seq(Char)
      BY <1>1, <1>3, ConcatEmptySeq, EmptySeq
    <2> QED BY <2>1 DEF WireGrows
  <1>8. Grown(t, line)
    BY <1>2, <1>3, <1>4, <1>6, <1>7 DEF Grown
  <1> QED BY <1>2, <1>5, <1>8 DEF FrameStep, line

LEMMA OpsStep ==
    ASSUME TypeOK, OpsWrite
    PROVE  JunkStep \/ WriteStep
  <1>1. sent' = sent
    BY DEF OpsWrite, queues
  <1>2. CASE /\ \E u \in Seq(Char) : wire' = wire \o u
             /\ wire' \o pend' = wire \o pend
             /\ dropped' = dropped
    BY <1>1, <1>2 DEF WriteStep, WireGrows, InTransit
  <1>3. ASSUME NEW u, JunkBytes(u), wire' = wire \o u, pend = <<>>, pend' = <<>>,
               dropped' = dropped \cup {Junk}
        PROVE  JunkStep
    <2>1. wire \in Seq(Char) /\ u \in Seq(Char) /\ wire \o u \in Seq(Char)
      BY <1>3, Sequences, ConcatProperties DEF JunkBytes
    <2>2. InTransit = wire /\ InTransit' = wire \o u
      BY <1>3, <2>1, ConcatEmptySeq DEF InTransit
    <2>3. PartOf(u, Junk)
      BY <1>3, JunkType DEF PartOf, JunkBytes
    <2>4. Grown(u, Junk)
      BY <1>3, <2>1, <2>2, <2>3, JunkType DEF Grown, WireGrows
    <2> QED BY <1>1, <2>4 DEF JunkStep
  <1> QED BY <1>2, <1>3, OpsWriteStep

LEMMA SendCmdStep ==
    ASSUME TypeOK, SendCmd
    PROVE  CommandStep /\ ScriptLine.cmd \in CmdNames /\ ScriptLine.n = opens + closes
  <1>1. Head(todo) \in CmdNames
    BY HeadTailProperties DEF TypeOK, SendCmd
  <1>2. opens + closes \in Nat /\ ndoCh \in Channels
    BY Sequences
  <1>3. ScriptLine \in Line /\ ScriptLine.cmd = Head(todo) /\ ScriptLine.n = opens + closes
    BY <1>1, <1>2, LineType DEF ScriptLine, Command
  <1>4. CutTo(Chars(ScriptLine)) /\ sent' = sent
    BY DEF SendCmd, CutTo, ScriptLine, tty, queues
  <1> QED BY <1>1, <1>3, <1>4 DEF CommandStep

LEMMA BufferStep ==
    ASSUME TypeOK, [Next]_vars
    PROVE  \/ \E c \in Channels : Xmit(c) /\ FrameStep(c)
           \/ OpsWrite /\ (JunkStep \/ WriteStep)
           \/ SendCmd /\ CommandStep
           \/ CloseFinish /\ CloseStep
           \/ UNCHANGED <<wire, pend, dropped, sent>>
  <1>1. ASSUME NEW c \in Channels, Xmit(c) PROVE FrameStep(c)
    BY <1>1, XmitStep
  <1>2. CloseFinish => CloseStep
    BY DEF CloseFinish, CloseStep, CutTo, tty
  <1>3. ASSUME NEW c \in Channels, XmitBusy(c) \/ OpenStart(c) \/ CloseStart(c)
        PROVE  UNCHANGED <<wire, pend, dropped, sent>>
    BY <1>3 DEF XmitBusy, OpenStart, CloseStart, buffer, tty, queues
  <1>4. ASSUME \/ TimerFires \/ TxWrite \/ TxCmdDone \/ TxDrained \/ WakeQueue \/ TtyDrain
               \/ WriteWakeup \/ Unlock
        PROVE  UNCHANGED <<wire, pend, dropped, sent>>
    BY <1>4 DEF TimerFires, TxWrite, TxCmdDone, TxDrained, WakeQueue, TtyDrain, WriteWakeup,
                Unlock, buffer, tty, queues
  <1>5. ASSUME \/ CmdSent \/ CmdFailed \/ OpenFinish \/ CloseClearWakeup \/ CloseFlush
        PROVE  UNCHANGED <<wire, pend, dropped, sent>>
    BY <1>5 DEF CmdSent, CmdFailed, OpenFinish, CloseClearWakeup, CloseFlush, buffer, tty, queues
  <1>6. ASSUME DetachStart \/ Detach \/ UNCHANGED vars
        PROVE  UNCHANGED <<wire, pend, dropped, sent>>
    BY <1>6 DEF DetachStart, Detach, DetachFlush, DetachClose, DetachUnregister,
                DetachFinish, vars, buffer, tty, queues
  <1>7. OpsWrite => JunkStep \/ WriteStep
    BY OpsStep
  <1>8. SendCmd => CommandStep
    BY SendCmdStep
  <1> QED BY <1>1, <1>2, <1>3, <1>4, <1>5, <1>6, <1>7, <1>8 DEF Next, Section, TxWork, Ndo

---------------------------------------------------------------------------
(* Lines reach the tty whole but for those in dropped.  Whole(s, d) says it *)
(* of a sequence s and exempted lines d, and that s ends with the end of a  *)
(* line; it holds of the bytes on the wire and in the buffer together.      *)

Ends(x, d) == x.part = LenOf(x.line) \/ x.line \in d
Begins(s, i, d) ==
    /\ s[i].part = 1 \/ s[i].line \in d
    /\ i > 1 => Ends(s[i-1], d)
Whole(s, d) ==
    /\ \A i \in 1..Len(s) : Begins(s, i, d) \/ ContinuesLine(s, i)
    /\ s # <<>> => Ends(s[Len(s)], d)

LEMMA EmptyWhole == \A d : Whole(<<>>, d)
  BY EmptySeq DEF Whole

LEMMA MoreExempt ==
    ASSUME NEW s \in Seq(Char), NEW d, NEW e, d \subseteq e, Whole(s, d)
    PROVE  Whole(s, e)
  BY DEF Whole, Begins, Ends

LEMMA CharsWhole ==
    ASSUME NEW line \in Line, NEW d
    PROVE  Whole(Chars(line), d)
  <1> DEFINE s == Chars(line)
  <1>1. /\ s \in Seq(Char) /\ Len(s) = LenOf(line) /\ LenOf(line) \in Nat \ {0}
        /\ \A i \in 1..Len(s) : s[i] = [line |-> line, part |-> i]
    BY CharsType
  <1> HIDE DEF s
  <1>2. ASSUME NEW i \in 1..Len(s) PROVE Begins(s, i, d) \/ ContinuesLine(s, i)
    <2>1. CASE i = 1
      BY <1>1, <2>1 DEF Begins
    <2>2. CASE i # 1
      <3>1. i - 1 \in 1..Len(s) /\ i > 1
        BY <1>1, <2>2
      <3>2. s[i] = [line |-> line, part |-> i] /\ s[i-1] = [line |-> line, part |-> i - 1]
        BY <1>1, <3>1
      <3> QED BY <1>1, <3>1, <3>2 DEF ContinuesLine
    <2> QED BY <2>1, <2>2
  <1>3. Ends(s[Len(s)], d)
    <2>1. Len(s) \in 1..Len(s)
      BY <1>1
    <2>2. s[Len(s)] = [line |-> line, part |-> Len(s)]
      BY <1>1, <2>1
    <2> QED BY <1>1, <2>2 DEF Ends
  <1> QED BY <1>2, <1>3 DEF Whole, s

(* Bytes of exempted lines may come in any order.                           *)
LEMMA ExemptWhole ==
    ASSUME NEW t \in Seq(Char), NEW d, \A i \in 1..Len(t) : t[i].line \in d
    PROVE  Whole(t, d)
  <1>1. Len(t) \in Nat /\ (t # <<>> => Len(t) # 0)
    BY LenProperties, EmptySeq
  <1>2. ASSUME NEW i \in 1..Len(t) PROVE Begins(t, i, d)
    <2>1. i > 1 => i - 1 \in 1..Len(t)
      BY <1>1
    <2> QED BY <2>1 DEF Begins, Ends
  <1>3. t # <<>> => Len(t) \in 1..Len(t)
    BY <1>1
  <1> QED BY <1>2, <1>3 DEF Whole, Ends

LEMMA ConcatWhole ==
    ASSUME NEW s \in Seq(Char), NEW t \in Seq(Char), NEW d, Whole(s, d), Whole(t, d)
    PROVE  Whole(s \o t, d)
  <1> DEFINE u == s \o t
  <1>1. /\ Len(s) \in Nat /\ Len(t) \in Nat
        /\ u \in Seq(Char) /\ Len(u) = Len(s) + Len(t)
        /\ \A i \in 1..Len(s) + Len(t) : u[i] = IF i <= Len(s) THEN s[i] ELSE t[i - Len(s)]
    BY ConcatProperties, LenProperties
  <1>2. (s = <<>> <=> Len(s) = 0) /\ (t = <<>> <=> Len(t) = 0)
    BY EmptySeq, <1>1
  <1> HIDE DEF u
  <1>3. ASSUME NEW i \in 1..Len(u) PROVE Begins(u, i, d) \/ ContinuesLine(u, i)
    <2>1. CASE i <= Len(s)
      <3>1. i \in 1..Len(s) /\ u[i] = s[i] /\ (i > 1 => u[i-1] = s[i-1])
        BY <1>1, <2>1
      <3>2. Begins(s, i, d) \/ ContinuesLine(s, i)
        BY <3>1 DEF Whole
      <3> QED BY <3>1, <3>2 DEF Begins, ContinuesLine
    <2>2. CASE i = Len(s) + 1
      <3>1. 1 \in 1..Len(t) /\ u[i] = t[1]
        BY <1>1, <2>2
      <3>2. Begins(t, 1, d)
        BY <3>1 DEF Whole, ContinuesLine
      <3>3. ASSUME i > 1 PROVE Ends(u[i-1], d)
        <4>1. s # <<>> /\ u[i-1] = s[Len(s)]
          BY <1>1, <1>2, <2>2, <3>3
        <4> QED BY <4>1 DEF Whole
      <3> QED BY <3>1, <3>2, <3>3 DEF Begins
    <2>3. CASE i > Len(s) + 1
      <3> DEFINE j == i - Len(s)
      <3>0. /\ i \in 1..Len(s) + Len(t) /\ i - 1 \in 1..Len(s) + Len(t)
            /\ ~(i <= Len(s)) /\ ~(i - 1 <= Len(s)) /\ (i - 1) - Len(s) = j - 1
            /\ j \in 1..Len(t) /\ j > 1 /\ i > 1
        BY <1>1, <2>3
      <3>1. j \in 1..Len(t) /\ j > 1 /\ i > 1 /\ u[i] = t[j] /\ u[i-1] = t[j-1]
        BY <1>1, <3>0
      <3> HIDE DEF j
      <3>2. Begins(t, j, d) \/ ContinuesLine(t, j)
        BY <3>1 DEF Whole
      <3> QED BY <3>1, <3>2 DEF Begins, ContinuesLine
    <2> QED BY <1>1, <2>1, <2>2, <2>3
  <1>4. ASSUME u # <<>> PROVE Ends(u[Len(u)], d)
    <2>1. CASE t = <<>>
      <3>1. s # <<>> /\ u[Len(u)] = s[Len(s)]
        <4>1. Len(t) = 0
          BY <1>2, <2>1
        <4>2. Len(u) # 0
          BY <1>1, <1>4, EmptySeq
        <4> QED BY <1>1, <1>2, <4>1, <4>2
      <3> QED BY <3>1 DEF Whole
    <2>2. CASE t # <<>>
      <3>1. u[Len(u)] = t[Len(t)]
        BY <1>1, <1>2, <2>2
      <3> QED BY <2>2, <3>1 DEF Whole
    <2> QED BY <2>1, <2>2
  <1> QED BY <1>3, <1>4 DEF Whole, u

(* Cutting t off tears only a line that is in t.                            *)
LEMMA CutWhole ==
    ASSUME NEW s \in Seq(Char), NEW t \in Seq(Char), NEW d, NEW e,
           Whole(s \o t, d), d \subseteq e, LinesOf(t) \subseteq e
    PROVE  Whole(s, e)
  <1> DEFINE u == s \o t
  <1>1. /\ Len(s) \in Nat /\ Len(t) \in Nat /\ Len(u) = Len(s) + Len(t)
        /\ \A i \in 1..Len(s) + Len(t) : u[i] = IF i <= Len(s) THEN s[i] ELSE t[i - Len(s)]
        /\ (s = <<>> <=> Len(s) = 0) /\ (t = <<>> <=> Len(t) = 0)
    BY ConcatProperties, LenProperties, EmptySeq
  <1>2. Whole(u, d)
    OBVIOUS
  <1> HIDE DEF u
  <1>3. ASSUME NEW i \in 1..Len(s) PROVE Begins(s, i, e) \/ ContinuesLine(s, i)
    <2>1. i \in 1..Len(u) /\ u[i] = s[i] /\ (i > 1 => u[i-1] = s[i-1])
      BY <1>1
    <2>2. Begins(u, i, d) \/ ContinuesLine(u, i)
      BY <1>2, <2>1 DEF Whole
    <2> QED BY <2>1, <2>2 DEF Begins, Ends, ContinuesLine
  <1>4. ASSUME s # <<>> PROVE Ends(s[Len(s)], e)
    <2>1. CASE t = <<>>
      <3>1. u[Len(u)] = s[Len(s)] /\ u # <<>>
        BY <1>1, <1>4, <2>1, EmptySeq
      <3> QED BY <1>2, <3>1 DEF Whole, Ends
    <2>2. CASE t # <<>>
      <3> DEFINE i == Len(s) + 1
      <3>1. i \in 1..Len(u) /\ i > 1 /\ u[i] = t[1] /\ u[i-1] = s[Len(s)] /\ 1 \in 1..Len(t)
        BY <1>1, <1>4, <2>2
      <3>2. t[1].line \in e
        BY <3>1 DEF LinesOf
      <3> HIDE DEF i
      <3>3. Begins(u, i, d) \/ ContinuesLine(u, i)
        BY <1>2, <3>1 DEF Whole
      <3> QED BY <3>1, <3>2, <3>3 DEF Begins, Ends, ContinuesLine
    <2> QED BY <2>1, <2>2
  <1> QED BY <1>3, <1>4 DEF Whole

LEMMA WholeStep ==
    ASSUME TypeOK, Whole(InTransit, dropped), [Next]_vars
    PROVE  Whole(InTransit', dropped')
  <1>1. wire \in Seq(Char) /\ pend \in Seq(Char) /\ InTransit \in Seq(Char)
    BY Sequences
  <1>2. ASSUME NEW line, NEW t, Grown(t, line) PROVE Whole(InTransit', dropped')
    <2>1. line \in Line /\ t \in Seq(Char) /\ \A i \in 1..Len(t) : t[i].line = line
      BY <1>2 DEF Grown, PartOf
    <2>2. Whole(t, dropped')
      BY <1>2, <2>1, CharsWhole, ExemptWhole DEF Grown
    <2>3. Whole(InTransit, dropped')
      BY <1>1, <1>2, MoreExempt DEF Grown
    <2> QED BY <1>1, <1>2, <2>1, <2>2, <2>3, ConcatWhole DEF Grown
  <1>3. ASSUME NEW t \in Seq(Char), Whole(t, dropped'), CutTo(t) PROVE Whole(InTransit', dropped')
    <2>1. dropped \subseteq dropped' /\ LinesOf(pend) \subseteq dropped'
      BY <1>3 DEF CutTo
    <2>2. Whole(wire, dropped')
      BY <1>1, <2>1, CutWhole DEF InTransit
    <2>3. InTransit' = wire \o t
      BY <1>3 DEF CutTo, InTransit
    <2> QED BY <1>1, <1>3, <2>2, <2>3, ConcatWhole
  <1>4. CommandStep => Whole(InTransit', dropped')
    BY <1>3, CharsWhole, CharsType DEF CommandStep
  <1>5. CASE CloseStep
    <2>1. CASE CutTo(<<>>)
      BY <1>3, <2>1, EmptyWhole, EmptySeq
    <2>2. CASE CutTo(pend)
      <3>1. dropped \subseteq dropped' /\ InTransit' = InTransit
        BY <2>2 DEF CutTo, InTransit
      <3> QED BY <1>1, <3>1, MoreExempt
    <2> QED BY <1>5, <2>1, <2>2 DEF CloseStep
  <1>6. ASSUME NEW c \in Channels, FrameStep(c) PROVE Whole(InTransit', dropped')
    BY <1>2, <1>6 DEF FrameStep
  <1>7. JunkStep => Whole(InTransit', dropped')
    BY <1>2 DEF JunkStep
  <1>8. WriteStep => Whole(InTransit', dropped')
    BY DEF WriteStep
  <1>9. UNCHANGED <<wire, pend, dropped, sent>> => Whole(InTransit', dropped')
    BY DEF InTransit
  <1> QED BY <1>4, <1>5, <1>6, <1>7, <1>8, <1>9, BufferStep

(* Over any tty, and with the unlocked store of slcan_netdev_close falling  *)
(* anywhere, the adapter reads a torn line only where a command replaced a  *)
(* buffer that holds the rest of it, or a close emptied it, and foreign     *)
(* bytes only after such a close.                                           *)
THEOREM LinesWhole == Spec => []WholeLines
  <1>1. Init => Whole(InTransit, dropped)
    <2> SUFFICES ASSUME Init PROVE Whole(InTransit, dropped)
      OBVIOUS
    <2>1. InTransit = <<>>
      BY EmptySeq, ConcatEmptySeq DEF Init, InTransit
    <2> QED BY <2>1, EmptyWhole
  <1>2. TypeOK /\ Whole(InTransit, dropped) /\ [Next]_vars => Whole(InTransit, dropped)'
    BY WholeStep DEF Whole, Begins, Ends, ContinuesLine, LenOf
  <1>3. TypeOK /\ Whole(InTransit, dropped) => WholeLines
    <2> SUFFICES ASSUME TypeOK, Whole(InTransit, dropped) PROVE WholeLines
      OBVIOUS
    <2>1. /\ Len(wire) \in Nat /\ \A i \in 1..Len(wire) : InTransit[i] = wire[i]
          /\ \A i \in 1..Len(wire) : i \in 1..Len(InTransit)
      BY Sequences, ConcatProperties, LenProperties DEF InTransit
    <2> SUFFICES ASSUME NEW i \in 1..Len(wire)
                 PROVE  StartsLine(wire, i) \/ ContinuesLine(wire, i)
      BY DEF WholeLines
    <2>2. InTransit[i] = wire[i] /\ (i > 1 => InTransit[i-1] = wire[i-1])
      BY <2>1
    <2>3. Begins(InTransit, i, dropped) \/ ContinuesLine(InTransit, i)
      BY <2>1 DEF Whole
    <2> QED BY <2>2, <2>3 DEF Begins, Ends, StartsLine, Finished, ContinuesLine
  <1> QED BY <1>1, <1>2, <1>3, TypeCorrect, PTL DEF Spec

---------------------------------------------------------------------------
(* SLF_XCMD and the thread that waits for it.                              *)

(* No state has SLF_XCMD set and nobody waiting for it. *)
THEOREM XcmdWaited == Spec => []XcmdHasWaiter
  <1>1. Init => XcmdHasWaiter
    BY DEF Init, XcmdHasWaiter
  <1>2. TypeOK /\ XcmdHasWaiter /\ [Next]_vars => XcmdHasWaiter'
    <2> SUFFICES ASSUME TypeOK, XcmdHasWaiter, [Next]_vars PROVE XcmdHasWaiter'
      OBVIOUS
    <2>1. ASSUME NEW c \in Channels, Xmit(c) \/ XmitBusy(c) PROVE XcmdHasWaiter'
      BY <2>1 DEF Xmit, XmitBusy, XcmdHasWaiter, buffer, lock, control
    <2>2. ASSUME NEW c \in Channels, OpenStart(c) \/ CloseStart(c) PROVE XcmdHasWaiter'
      BY <2>2 DEF OpenStart, CloseStart, CloseBegin, XcmdHasWaiter, buffer
    <2>3. ASSUME TimerFires \/ OpsWrite \/ Unlock \/ TxWrite \/ TxCmdDone \/ TxDrained \/ WakeQueue
                 \/ TtyDrain \/ WriteWakeup
          PROVE  XcmdHasWaiter'
      BY <2>3 DEF TimerFires, OpsWrite, Unlock, TxWrite, TxCmdDone, TxDrained, WakeQueue, TtyDrain,
                  WriteWakeup, XcmdHasWaiter, buffer, lock, control
    <2>4. CASE SendCmd
      BY <2>4 DEF SendCmd, XcmdHasWaiter
    <2>5. ASSUME CmdSent \/ CmdFailed \/ OpenFinish \/ CloseClearWakeup \/ CloseFlush
                 \/ CloseFinish
          PROVE  XcmdHasWaiter'
      BY <2>5 DEF CmdSent, CmdFailed, OpenFinish, CloseClearWakeup, CloseFlush,
                  CloseFinish, XcmdHasWaiter, buffer
    <2>6. ASSUME DetachStart \/ Detach \/ UNCHANGED vars PROVE XcmdHasWaiter'
      BY <2>6 DEF DetachStart, Detach, DetachFlush, DetachClose, DetachUnregister,
                  DetachFinish, CloseBegin, XcmdHasWaiter, vars, buffer, lock, control
    <2> QED BY <2>1, <2>2, <2>3, <2>4, <2>5, <2>6 DEF Next, Section, TxWork, Ndo
  <1> QED BY <1>1, <1>2, TypeCorrect, PTL DEF Spec

---------------------------------------------------------------------------
(* Without batching, bytes in the buffer are owed a wakeup.  The invariant *)
(* adds that the wakeup is requested whenever the buffer holds something:  *)
(* tx_work writes without requesting it again.                             *)

Closing == ndo \in {"flush", "zero"}
Unowed == Waiting /\ ldisc # "closed" /\ ~Closing
WakeInv ==
    ~mode.batch => /\ timer = FALSE
                   /\ Unowed => wakeReq
                   /\ ~offered /\ Unowed => WakeupPromised

(* Bytes that are dropped, or gone, are not waiting. *)
LEMMA NotWaiting ==
    ASSUME pend' = <<>> \/ (pend' = pend /\ LinesOf(pend) \subseteq dropped')
    PROVE  ~Waiting'
  <1>1. CASE pend' = <<>>
    BY <1>1, EmptySeq DEF Waiting
  <1>2. CASE pend' = pend /\ LinesOf(pend) \subseteq dropped'
    BY <1>2 DEF Waiting, LinesOf
  <1> QED BY <1>1, <1>2

LEMMA WakeStep ==
    ASSUME TypeOK, WakeInv, [Next]_vars
    PROVE  WakeInv'
  <1> SUFFICES ASSUME ~mode'.batch PROVE WakeInv'
    BY DEF WakeInv
  <1>0. mode' = mode
    <2>1. ASSUME NEW c \in Channels, Xmit(c) \/ XmitBusy(c) \/ OpenStart(c) \/ CloseStart(c)
          PROVE  mode' = mode
      BY <2>1 DEF Xmit, XmitBusy, OpenStart, CloseStart
    <2>2. ASSUME TimerFires \/ Section \/ TxWork \/ TtyDrain \/ WriteWakeup PROVE mode' = mode
      BY <2>2 DEF TimerFires, Section, OpsWrite, Unlock, TxWork, TxWrite, TxCmdDone, TxDrained,
                  WakeQueue, TtyDrain, WriteWakeup
    <2>3. ASSUME Ndo \/ DetachStart \/ Detach \/ UNCHANGED vars PROVE mode' = mode
      BY <2>3 DEF Ndo, SendCmd, CmdSent, CmdFailed, OpenFinish, CloseClearWakeup, CloseFlush,
                  CloseFinish, DetachStart, Detach, DetachFlush, DetachClose, DetachUnregister,
                  DetachFinish, vars
    <2> QED BY <2>1, <2>2, <2>3 DEF Next
  <1>a. /\ timer = FALSE
        /\ Unowed => wakeReq
        /\ ~offered /\ Unowed => WakeupPromised
    BY <1>0 DEF WakeInv
  <1> SUFFICES /\ timer' = FALSE
               /\ Unowed' => wakeReq'
               /\ ~offered' /\ Unowed' => WakeupPromised'
    BY DEF WakeInv
  <1> USE DEF Unowed, Closing
  <1> DEFINE Goal == /\ timer' = FALSE
                     /\ Unowed' => wakeReq'
                     /\ ~offered' /\ Unowed' => WakeupPromised'
  <1>1. ASSUME NEW c \in Channels, Xmit(c) PROVE Goal
    BY <1>0, <1>1 DEF Xmit, Encaps
  <1>2. CASE SendCmd
    BY <1>a, <1>2 DEF SendCmd, work
  <1>3. CASE TxWrite
    <2>1. timer' = timer /\ wakeReq' = wakeReq /\ offered' = TRUE /\ Waiting' = Waiting
          /\ UNCHANGED <<ndo, ldisc>>
      BY <1>3 DEF TxWrite, buffer, control, Waiting
    <2> QED BY <1>a, <2>1
  <1>4. CASE OpsWrite
    <2>1. UNCHANGED <<wakeReq, workQ, timer, ndo, ldisc>> /\ offered
      BY <1>4 DEF OpsWrite, work, control
    <2>2. CASE /\ wire' \o pend' = wire \o pend /\ dropped' = dropped
               /\ (pend' # <<>> => busy' > 0) /\ \E u \in Seq(Char) : wire' = wire \o u
      <3>1. Waiting' => pend' # <<>>
        BY NotWaiting
      <3>2. Waiting' => Waiting
        <4>1. PICK u \in Seq(Char) : wire' = wire \o u
          BY <2>2
        <4>2. wire \in Seq(Char) /\ pend \in Seq(Char) /\ pend' \in Seq(Char)
          BY <1>4, Sequences, OpsWriteStep
        <4>3. wire \o (u \o pend') = wire \o pend
          BY <2>2, <4>1, <4>2, Regroup
        <4>4. u \o pend' = pend
          <5>1. u \o pend' \in Seq(Char)
            BY <4>2, ConcatProperties
          <5> QED BY <4>2, <4>3, <5>1, ConcatSimplifications
        <4>5. /\ Len(u) \in Nat /\ Len(pend') \in Nat /\ Len(pend) = Len(u) + Len(pend')
              /\ \A i \in 1..Len(u) + Len(pend') :
                    pend[i] = IF i <= Len(u) THEN u[i] ELSE pend'[i - Len(u)]
          BY <4>2, <4>4, ConcatProperties, LenProperties
        <4>6. ASSUME NEW i \in 1..Len(pend') PROVE Len(u) + i \in 1..Len(pend) /\ pend[Len(u) + i] = pend'[i]
          <5>1. /\ Len(u) + i \in 1..Len(u) + Len(pend') /\ ~(Len(u) + i <= Len(u))
                /\ (Len(u) + i) - Len(u) = i
            BY <4>5
          <5> QED BY <4>5, <5>1
        <4> QED BY <2>2, <4>6 DEF Waiting
      <3> QED BY <1>a, <2>1, <2>2, <3>1, <3>2 DEF WakeupPromised
    <2>3. CASE pend' = <<>>
      BY <1>a, <2>1, <2>3, NotWaiting
    <2> QED BY <1>4, <2>2, <2>3, OpsWriteStep
  <1>5. CASE Unlock
    <2>1. UNCHANGED <<buffer, offered, work, tty, control>>
      BY <1>5 DEF Unlock
    <2>2. wakeReq => wakeReq'
      BY <1>5 DEF Unlock
    <2>3. (Waiting' <=> Waiting) /\ UNCHANGED <<offered, workQ, timer, busy, done, ndo, ldisc>>
      BY <2>1 DEF buffer, work, tty, control, Waiting
    <2> QED BY <1>a, <2>2, <2>3 DEF WakeupPromised
  <1>6. ASSUME TxCmdDone \/ TxDrained PROVE Goal
    <2>1. pend' = <<>> /\ timer' = timer
      BY <1>6 DEF TxCmdDone, TxDrained, buffer
    <2> QED BY <1>a, <2>1, NotWaiting
  <1>7. CASE CloseClearWakeup
    BY <1>a, <1>7 DEF CloseClearWakeup, work
  <1>8. CASE CloseFinish
    <2>1. timer' = timer /\ ~Waiting'
      <3>1. pend' = <<>> \/ pend' = pend
        BY <1>8 DEF CloseFinish
      <3>2. LinesOf(pend) \subseteq dropped'
        BY <1>8 DEF CloseFinish
      <3> QED BY <1>8, <3>1, <3>2, NotWaiting DEF CloseFinish, work
    <2> QED BY <1>a, <2>1
  <1>9. CASE TimerFires
    BY <1>a, <1>9 DEF TimerFires
  <1>10. CASE TtyDrain
    <2>1. /\ UNCHANGED <<wakeReq, offered, workQ, timer, ndo, ldisc>> /\ (Waiting' <=> Waiting)
          /\ done' = TRUE
      BY <1>10 DEF TtyDrain, buffer, lock, work, control, Waiting
    <2> QED BY <1>a, <2>1 DEF WakeupPromised
  <1>11. CASE WriteWakeup
    <2>1. /\ UNCHANGED <<wakeReq, offered, timer, ndo, ldisc>> /\ (Waiting' <=> Waiting)
          /\ workQ' = (workQ \/ (wakeReq /\ ldisc # "closed"))
      BY <1>11 DEF WriteWakeup, buffer, lock, control, Waiting
    <2> QED BY <1>a, <2>1 DEF WakeupPromised
  <1>12. ASSUME UNCHANGED <<pend, dropped, wakeReq, offered, workQ, timer, busy, done>>,
                ldisc' # "closed" => ldisc # "closed", Closing => Closing'
         PROVE  Goal
    BY <1>a, <1>12 DEF WakeupPromised, Waiting
  <1>13. ASSUME NEW c \in Channels, XmitBusy(c) \/ OpenStart(c) \/ CloseStart(c)
         PROVE  Goal
    <2>1. /\ UNCHANGED <<pend, dropped, wakeReq, offered, workQ, timer, busy, done, ldisc>>
          /\ Closing => Closing'
      BY <1>13 DEF XmitBusy, OpenStart, CloseStart, CloseBegin, buffer, lock, work, tty, control
    <2> QED BY <1>12, <2>1
  <1>14. ASSUME WakeQueue \/ CmdSent \/ CmdFailed \/ OpenFinish \/ CloseFlush PROVE Goal
    <2>1. /\ UNCHANGED <<pend, dropped, wakeReq, offered, workQ, timer, busy, done, ldisc>>
          /\ Closing => Closing'
      BY <1>14 DEF WakeQueue, CmdSent, CmdFailed, OpenFinish, CloseFlush,
                   buffer, lock, work, tty, control
    <2> QED BY <1>12, <2>1
  <1>15. CASE DetachStart
    <2>1. UNCHANGED <<pend, dropped, wakeReq, offered, workQ, busy, done, ndo>>
          /\ timer' = FALSE /\ ldisc = "open"
      BY <1>15 DEF DetachStart, LdiscStep, buffer, lock, tty
    <2> QED BY <1>a, <1>12, <2>1
  <1>16. CASE Detach
    <2>1. /\ UNCHANGED <<pend, dropped, wakeReq, offered, workQ, timer, busy, done>>
          /\ ldisc' # "closed" => ldisc # "closed"
          /\ Closing => Closing'
      BY <1>16 DEF Detach, DetachFlush, DetachClose, DetachUnregister, DetachFinish,
                   LdiscStep, CloseBegin, buffer, lock, work, tty
    <2> QED BY <1>12, <2>1
  <1>17. CASE UNCHANGED vars
    <2>1. UNCHANGED <<pend, dropped, wakeReq, offered, workQ, timer, busy, done, ldisc, ndo>>
      BY <1>17 DEF vars, buffer, lock, work, tty, control
    <2> QED BY <1>12, <2>1
  <1> QED BY <1>1, <1>2, <1>3, <1>4, <1>5, <1>6, <1>7, <1>8, <1>9, <1>10, <1>11,
             <1>13, <1>14, <1>15, <1>16, <1>17 DEF Next, Section, TxWork, Ndo

(* With tx_batch_us = 0 no byte is left in the buffer between two sections  *)
(* without a run of tx_work to come, outside the window in which ndo_stop   *)
(* discards it: for every tty, however it cuts the writes and however soon  *)
(* it is done with them.                                                    *)
THEOREM WakeupKept == Spec => []NoLostWakeup
  <1>1. Init => WakeInv
    <2> SUFFICES ASSUME Init PROVE WakeInv
      OBVIOUS
    <2>1. ~Waiting
      BY EmptySeq DEF Init, Waiting
    <2> QED BY <2>1 DEF Init, WakeInv, Unowed
  <1>2. TypeOK /\ WakeInv /\ [Next]_vars => WakeInv'
    BY WakeStep
  <1>3. TypeOK /\ WakeInv => NoLostWakeup
    BY DEF TypeOK, WakeInv, NoLostWakeup, Unowed, Closing
  <1> QED BY <1>1, <1>2, <1>3, TypeCorrect, PTL DEF Spec

---------------------------------------------------------------------------
(* Frames keep their order, over any tty: what a step adds behind the bytes *)
(* in transit is a command, junk, or the next frame of its channel.  The    *)
(* invariant adds that no frame in transit is newer than the last one of    *)
(* its channel.                                                             *)

IsFrame(x) == x.line.cmd = "frame"
Ordered(s) ==
    \A i, j \in 1..Len(s) :
        i < j /\ s[i].line.ch = s[j].line.ch /\ IsFrame(s[i]) /\ IsFrame(s[j]) => Before(s[i], s[j])
Numbered(s) == \A i \in 1..Len(s) : IsFrame(s[i]) => s[i].line.n <= sent[s[i].line.ch]
OrderInv == Ordered(InTransit) /\ Numbered(InTransit)

(* A part of the sequence that was there before is still in order. *)
LEMMA PrefixOrdered ==
    ASSUME NEW s \in Seq(Char), NEW t \in Seq(Char), Ordered(s \o t), Numbered(s \o t)
    PROVE  Ordered(s) /\ Numbered(s)
  <1>1. /\ Len(s) \in Nat /\ Len(t) \in Nat /\ Len(s \o t) = Len(s) + Len(t)
        /\ \A i \in 1..Len(s) : (s \o t)[i] = s[i]
    BY ConcatProperties, LenProperties
  <1>2. \A i \in 1..Len(s) : i \in 1..Len(s \o t)
    BY <1>1
  <1> QED BY <1>1, <1>2 DEF Ordered, Numbered

(* A part of a line behind it keeps the order if it is not of a frame, or is *)
(* of the next frame of its channel.                                         *)
LEMMA LineBehind ==
    ASSUME NEW s \in Seq(Char), NEW line \in Line, NEW t, PartOf(t, line), Ordered(s), Numbered(s),
           sent \in [Channels -> Nat], sent' \in [Channels -> Nat],
           \A c \in Channels : sent'[c] >= sent[c],
           line.cmd = "frame" => line.n > sent[line.ch] /\ line.n <= sent'[line.ch]
    PROVE  /\ Ordered(s \o t)
           /\ \A i \in 1..Len(s \o t) : IsFrame((s \o t)[i]) =>
                 (s \o t)[i].line.n <= sent'[(s \o t)[i].line.ch]
  <1> DEFINE u == s \o t
  <1>1. /\ t \in Seq(Char) /\ Len(t) \in Nat
        /\ \A i \in 1..Len(t) : t[i].line = line
        /\ line.cmd = "frame" => \A i, j \in 1..Len(t) : i < j => t[i].part < t[j].part
    BY LenProperties DEF PartOf
  <1>2. /\ Len(s) \in Nat /\ Len(u) = Len(s) + Len(t)
        /\ \A i \in 1..Len(s) + Len(t) : u[i] = IF i <= Len(s) THEN s[i] ELSE t[i - Len(s)]
    <2>1. t \in Seq(Char)
      BY <1>1
    <2> QED BY <2>1, ConcatProperties, LenProperties
  <1> HIDE DEF u
  <1>3. \A i \in 1..Len(s) : s[i].line \in Line /\ s[i].part \in Nat
    <2>1. \A i \in 1..Len(s) : s[i] \in Char
      BY ElementOfSeq
    <2> QED BY <2>1 DEF Char
  <1>4. \A x \in Line : x.ch \in Channels /\ x.n \in Nat
    BY DEF Line
  <1>5. \A i \in 1..Len(u) :
           \/ i \in 1..Len(s) /\ u[i] = s[i]
           \/ i - Len(s) \in 1..Len(t) /\ u[i].line = line /\ u[i] = t[i - Len(s)]
    <2> SUFFICES ASSUME NEW i \in 1..Len(u), i > Len(s)
                 PROVE  i - Len(s) \in 1..Len(t) /\ u[i].line = line /\ u[i] = t[i - Len(s)]
      <3>1. \A i \in 1..Len(u) : i > Len(s) \/ (i \in 1..Len(s) /\ u[i] = s[i])
        BY <1>1, <1>2
      <3> QED BY <3>1
    <2>1. i - Len(s) \in 1..Len(t)
      BY <1>1, <1>2
    <2>2. u[i] = t[i - Len(s)]
      BY <1>1, <1>2
    <2> QED BY <1>1, <2>1, <2>2
  <1>6. Ordered(u)
    <2> SUFFICES ASSUME NEW i \in 1..Len(u), NEW j \in 1..Len(u), i < j,
                        u[i].line.ch = u[j].line.ch, IsFrame(u[i]), IsFrame(u[j])
                 PROVE  Before(u[i], u[j])
      BY DEF Ordered
    <2>1. CASE j \in 1..Len(s)
      <3>1. i \in 1..Len(s) /\ u[i] = s[i] /\ u[j] = s[j]
        BY <1>2, <2>1
      <3> QED BY <2>1, <3>1 DEF Ordered
    <2>2. CASE j \notin 1..Len(s) /\ i \in 1..Len(s)
      <3>1. u[i] = s[i] /\ u[j].line = line /\ line.cmd = "frame" /\ s[i].line.ch = line.ch
        BY <1>2, <1>5, <2>2 DEF IsFrame
      <3>2. s[i].line.n <= sent[line.ch] /\ line.n > sent[line.ch]
        BY <2>2, <3>1 DEF Numbered
      <3>3. s[i].line.n < line.n
        BY <1>3, <1>4, <2>2, <3>2
      <3> QED BY <3>1, <3>3 DEF Before
    <2>3. CASE j \notin 1..Len(s) /\ i \notin 1..Len(s)
      <3>1. /\ u[i].line = line /\ u[j].line = line /\ line.cmd = "frame"
            /\ u[i] = t[i - Len(s)] /\ u[j] = t[j - Len(s)]
            /\ i - Len(s) \in 1..Len(t) /\ j - Len(s) \in 1..Len(t)
        BY <1>5, <2>3 DEF IsFrame
      <3>2. i - Len(s) < j - Len(s)
        BY <1>1, <1>2
      <3>3. u[i].part < u[j].part
        BY <1>1, <3>1, <3>2
      <3> QED BY <3>1, <3>3 DEF Before
    <2> QED BY <2>1, <2>2, <2>3
  <1>7. ASSUME NEW i \in 1..Len(u), IsFrame(u[i]) PROVE u[i].line.n <= sent'[u[i].line.ch]
    <2>1. CASE i \in 1..Len(s) /\ u[i] = s[i]
      <3>1. s[i].line.n <= sent[s[i].line.ch]
        BY <1>7, <2>1 DEF Numbered
      <3> QED BY <1>3, <1>4, <2>1, <3>1
    <2>2. CASE u[i].line = line
      BY <1>7, <2>2 DEF IsFrame
    <2> QED BY <1>5, <2>1, <2>2
  <1> QED BY <1>6, <1>7 DEF u

LEMMA OrderStep ==
    ASSUME TypeOK, OrderInv, [Next]_vars
    PROVE  OrderInv'
  <1>1. /\ wire \in Seq(Char) /\ pend \in Seq(Char) /\ InTransit \in Seq(Char)
        /\ sent \in [Channels -> Nat] /\ sent' \in [Channels -> Nat]
    <2>1. TypeOK'
      BY NextType
    <2>2. sent' \in [Channels -> 0..MaxFrames] /\ \A n \in 0..MaxFrames : n \in Nat
      BY <2>1, BoundsAssumption DEF TypeOK
    <2>3. sent' \in [Channels -> Nat]
      BY <2>2
    <2> QED BY <2>3, Sequences
  <1>2. Ordered(wire) /\ Numbered(wire)
    BY <1>1, PrefixOrdered DEF OrderInv, InTransit
  <1>3. ASSUME NEW s \in Seq(Char), NEW line \in Line, NEW t, PartOf(t, line),
               Ordered(s), Numbered(s), InTransit' = s \o t,
               \A x \in Channels : sent'[x] >= sent[x],
               line.cmd = "frame" => line.n > sent[line.ch] /\ line.n <= sent'[line.ch]
        PROVE  OrderInv'
    BY <1>1, <1>3, LineBehind DEF OrderInv, Ordered, Numbered
  <1>4. sent' = sent => \A x \in Channels : sent'[x] >= sent[x]
    BY <1>1
  <1>5. ASSUME NEW c \in Channels, FrameStep(c) PROVE OrderInv'
    <2>1. PICK line, t : /\ line = Frame(c, sent[c] + 1) /\ line \in Line /\ Grown(t, line)
                         /\ sent' = [sent EXCEPT ![c] = @ + 1]
      BY <1>5 DEF FrameStep
    <2>2. line.ch = c /\ line.n = sent[c] + 1
      BY <2>1 DEF Frame
    <2>3. /\ \A x \in Channels : sent'[x] >= sent[x]
          /\ line.n > sent[line.ch] /\ line.n <= sent'[line.ch]
      BY <1>1, <2>1, <2>2
    <2> QED BY <1>1, <1>3, <2>1, <2>3 DEF OrderInv, Grown
  <1>6. CASE JunkStep
    BY <1>1, <1>3, <1>4, <1>6, JunkType DEF JunkStep, OrderInv, Grown
  <1>7. CASE CommandStep
    <2>1. /\ InTransit' = wire \o Chars(ScriptLine) /\ sent' = sent
          /\ ScriptLine \in Line /\ ScriptLine.cmd # "frame"
      BY <1>7 DEF CommandStep, CutTo, InTransit, ScriptLine, Command, CmdNames
    <2>2. PartOf(Chars(ScriptLine), ScriptLine)
      BY <2>1, CharsPart
    <2> QED BY <1>1, <1>2, <1>3, <1>4, <2>1, <2>2
  <1>8. CASE CloseStep
    <2>1. sent' = sent /\ InTransit' \in {wire, InTransit}
      BY <1>1, <1>8, ConcatEmptySeq DEF CloseStep, CutTo, InTransit
    <2> QED BY <1>2, <2>1 DEF OrderInv, Ordered, Numbered
  <1>9. CASE WriteStep \/ UNCHANGED <<wire, pend, dropped, sent>>
    <2>1. sent' = sent /\ InTransit' = InTransit
      BY <1>9 DEF WriteStep, InTransit
    <2> QED BY <2>1 DEF OrderInv, Ordered, Numbered
  <1> QED BY <1>5, <1>6, <1>7, <1>8, <1>9, BufferStep

(* However the tty cuts the writes, and whatever commands and closes throw  *)
(* away, the frames of a channel reach the tty in the order the stack gave  *)
(* them, and no character twice.                                            *)
THEOREM FramesOrdered == Spec => []FramesInOrder
  <1>1. Init => OrderInv
    <2> SUFFICES ASSUME Init PROVE OrderInv
      OBVIOUS
    <2>1. InTransit = <<>> /\ Len(<<>>) = 0
      BY EmptySeq, ConcatEmptySeq DEF Init, InTransit
    <2> QED BY <2>1 DEF OrderInv, Ordered, Numbered
  <1>2. TypeOK /\ OrderInv /\ [Next]_vars => OrderInv'
    BY OrderStep
  <1>3. OrderInv => FramesInOrder
    BY DEF OrderInv, Ordered, IsFrame, InTransit, FramesInOrder
  <1> QED BY <1>1, <1>2, <1>3, TypeCorrect, PTL DEF Spec

---------------------------------------------------------------------------
(* What the buffer and the wire hold together only grows, but for the two   *)
(* places that throw something away.                                        *)
LEMMA StartKept ==
    ASSUME NEW s \in Seq(Char), NEW t \in Seq(Char)
    PROVE  StartsWith(s \o t, s)
  <1>1. /\ Len(s) \in Nat /\ Len(t) \in Nat /\ Len(s \o t) = Len(s) + Len(t)
    BY ConcatProperties, LenProperties
  <1>2. Len(s) <= Len(s \o t)
    BY <1>1
  <1>3. CASE s = <<>>
    <2>1. Len(s) = 0 /\ SubSeq(s \o t, 1, 0) = <<>>
      BY <1>1, <1>3, EmptySeq, SubSeqEmpty
    <2> QED BY <1>2, <1>3, <2>1 DEF StartsWith
  <1>4. CASE s # <<>>
    <2>1. 1 \in 1..Len(s) /\ Len(s) \in 1..Len(s)
      BY <1>1, <1>4, EmptySeq
    <2>2. SubSeq(s \o t, 1, Len(s)) = SubSeq(s, 1, Len(s))
      BY <2>1, SubSeqOfConcat1, Zenon
    <2>3. SubSeq(s, 1, Len(s)) = s
      BY SubSeqFull
    <2> QED BY <1>2, <2>2, <2>3 DEF StartsWith
  <1> QED BY <1>3, <1>4

LEMMA NothingLost ==
    ASSUME TypeOK, [Next]_vars
    PROVE  StartsWith(InTransit', IF CommandBegins \/ CloseEnds THEN wire ELSE InTransit)
  <1>1. wire \in Seq(Char) /\ pend \in Seq(Char) /\ InTransit \in Seq(Char)
    BY Sequences
  <1>2. StartsWith(InTransit, wire)
    BY <1>1, StartKept DEF InTransit
  <1>3. StartsWith(InTransit, InTransit) /\ StartsWith(wire, wire)
    BY <1>1, StartKept, EmptySeq, ConcatEmptySeq
  <1>4. ASSUME NEW t, NEW line, Grown(t, line)
        PROVE  StartsWith(InTransit', InTransit) /\ StartsWith(InTransit', wire)
    <2>1. InTransit' = InTransit \o t /\ t \in Seq(Char) /\ pend \o t \in Seq(Char)
      BY <1>1, <1>4, ConcatProperties DEF Grown, PartOf
    <2>2. InTransit' = wire \o (pend \o t)
      BY <1>1, <2>1, Regroup DEF InTransit
    <2> QED BY <1>1, <2>1, <2>2, StartKept
  <1>5. ASSUME SendCmd, CommandStep
        PROVE  CommandBegins /\ StartsWith(InTransit', wire)
    <2>1. CommandBegins
      BY <1>5, ChannelsAssumption DEF SendCmd, CommandBegins, NoOne, Cmd
    <2>2. InTransit' = wire \o Chars(ScriptLine) /\ Chars(ScriptLine) \in Seq(Char)
      BY <1>5, CharsType DEF CommandStep, CutTo, InTransit
    <2> QED BY <1>1, <2>1, <2>2, StartKept
  <1>6. ASSUME CloseFinish, CloseStep
        PROVE  CloseEnds /\ StartsWith(InTransit', wire)
    <2>1. CloseEnds
      BY <1>6 DEF CloseFinish, CloseEnds
    <2>2. InTransit' \in {wire, InTransit}
      BY <1>1, <1>6, ConcatEmptySeq DEF CloseStep, CutTo, InTransit
    <2> QED BY <1>2, <1>3, <2>1, <2>2
  <1>7. ASSUME WriteStep \/ UNCHANGED <<wire, pend, dropped, sent>>
        PROVE  StartsWith(InTransit', InTransit) /\ StartsWith(InTransit', wire)
    <2>1. InTransit' = InTransit
      BY <1>7 DEF WriteStep, InTransit
    <2> QED BY <1>2, <1>3, <2>1
  <1>8. ASSUME NEW c \in Channels, FrameStep(c)
        PROVE  StartsWith(InTransit', InTransit) /\ StartsWith(InTransit', wire)
    BY <1>4, <1>8 DEF FrameStep
  <1>9. ASSUME JunkStep
        PROVE  StartsWith(InTransit', InTransit) /\ StartsWith(InTransit', wire)
    BY <1>4, <1>9 DEF JunkStep
  <1> QED BY <1>5, <1>6, <1>7, <1>8, <1>9, BufferStep

(* Over any tty and for all sizes: partial writes, batching, timeouts and   *)
(* the close of the line discipline lose nothing that the tty has or xleft  *)
(* counts; only the two stores that overwrite the shared buffer do, and     *)
(* they cannot take back what the tty has.                                  *)
THEOREM BytesKept == Spec => FramesKept
  <1>1. TypeOK /\ [Next]_vars
          => StartsWith(wire' \o pend', IF CommandBegins \/ CloseEnds THEN wire ELSE wire \o pend)
    BY NothingLost DEF InTransit
  <1> QED BY <1>1, TypeCorrect, PTL DEF Spec, FramesKept

---------------------------------------------------------------------------
(* The script of slcan_netdev_open.  Of its commands the tty has those that *)
(* are no longer in todo, and the buffer holds the rest of the one whose    *)
(* sender waits: SLF_XCMD is cleared by tx_work only when that is nothing.  *)
(* Numbers of calls are new, so no other command is taken for one of them.  *)

Recent(q, m) == \A i \in 1..Len(q) : ~IsFrame(q[i]) => q[i].line.n <= m

(* u is q with the n characters of a line behind it.                        *)
Continues(u, q, line, n) ==
    /\ Len(q) \in Nat /\ n \in Nat /\ u \in Seq(Char)
    /\ \A i \in 1..Len(q) : u[i] = q[i] /\ i \in 1..Len(u)
    /\ \A p \in 1..n : Len(q) + p \in 1..Len(u) /\ u[Len(q) + p] = [line |-> line, part |-> p]
    /\ \A i \in 1..Len(u) :
          \/ i \in 1..Len(q) /\ u[i] = q[i]
          \/ i - Len(q) \in 1..n /\ u[i] = [line |-> line, part |-> i - Len(q)]

LEMMA Behind ==
    ASSUME NEW q \in Seq(Char), NEW line \in Line
    PROVE  Continues(q \o Chars(line), q, line, LenOf(line))
  <1>0. PICK u, n : u = q \o Chars(line) /\ n = LenOf(line)
    OBVIOUS
  <1> DEFINE t == Chars(line)
  <1>1. /\ t \in Seq(Char) /\ Len(t) = n /\ n \in Nat
        /\ \A i \in 1..Len(t) : t[i] = [line |-> line, part |-> i]
    BY <1>0, CharsType
  <1>2. u = q \o t
    BY <1>0
  <1> HIDE DEF t
  <1>3. /\ Len(q) \in Nat /\ Len(u) = Len(q) + Len(t) /\ u \in Seq(Char)
        /\ \A i \in 1..Len(q) + Len(t) : u[i] = IF i <= Len(q) THEN q[i] ELSE t[i - Len(q)]
    <2>1. t \in Seq(Char) /\ Len(q) \in Nat
      BY <1>1, LenProperties
    <2> QED BY <1>2, <2>1, ConcatProperties
  <1>4. \A i \in 1..Len(q) : u[i] = q[i] /\ i \in 1..Len(u)
    BY <1>1, <1>3
  <1>5. ASSUME NEW p \in 1..Len(t) PROVE Len(q) + p \in 1..Len(u) /\ u[Len(q) + p] = t[p]
    <2>1. PICK i : i = Len(q) + p
      OBVIOUS
    <2>2. i \in 1..Len(q) + Len(t) /\ ~(i <= Len(q)) /\ i - Len(q) = p
      BY <1>1, <1>3, <2>1
    <2> QED BY <1>3, <2>1, <2>2
  <1>6. \A i \in 1..Len(u) : i \in 1..Len(q) \/ (i - Len(q) \in 1..Len(t) /\ u[i] = t[i - Len(q)])
    BY <1>1, <1>3
  <1>7. Continues(u, q, line, n)
    BY <1>1, <1>3, <1>4, <1>5, <1>6 DEF Continues
  <1> QED BY <1>0, <1>7

(* What is true of a sequence and of a part at its start.                   *)
LEMMA Start ==
    ASSUME NEW q \in Seq(Char), NEW t \in Seq(Char), NEW u, u = q \o t
    PROVE  /\ u \in Seq(Char) /\ Len(q) \in Nat
           /\ \A i \in 1..Len(q) : u[i] = q[i] /\ i \in 1..Len(u)
  <1>1. /\ Len(q) \in Nat /\ Len(t) \in Nat /\ Len(u) = Len(q) + Len(t) /\ u \in Seq(Char)
        /\ \A i \in 1..Len(q) : u[i] = q[i]
    BY ConcatProperties, LenProperties
  <1> QED BY <1>1

LEMMA BytesBehind ==
    ASSUME NEW q \in Seq(Char), NEW t \in Seq(Char), NEW line, \A i \in 1..Len(t) : t[i].line = line
    PROVE  \A i \in 1..Len(q \o t) :
              (i \in 1..Len(q) /\ (q \o t)[i] = q[i]) \/ (q \o t)[i].line = line
  <1> DEFINE u == q \o t
  <1>1. /\ Len(q) \in Nat /\ Len(t) \in Nat /\ Len(u) = Len(q) + Len(t)
        /\ \A i \in 1..Len(q) + Len(t) : u[i] = IF i <= Len(q) THEN q[i] ELSE t[i - Len(q)]
    BY ConcatProperties, LenProperties
  <1> HIDE DEF u
  <1>2. ASSUME NEW i \in 1..Len(u), ~(i <= Len(q)) PROVE u[i].line = line
    <2>1. i - Len(q) \in 1..Len(t) /\ u[i] = t[i - Len(q)]
      BY <1>1, <1>2
    <2> QED BY <2>1
  <1>3. ASSUME NEW i \in 1..Len(u), i <= Len(q) PROVE i \in 1..Len(q) /\ u[i] = q[i]
    BY <1>1, <1>3
  <1>4. \A i \in 1..Len(u) : (i \in 1..Len(q) /\ u[i] = q[i]) \/ u[i].line = line
    BY <1>2, <1>3
  <1> QED BY <1>4 DEF u

LEMMA StartOf ==
    ASSUME NEW q \in Seq(Char), NEW t \in Seq(Char), NEW u, u = q \o t, NEW c, NEW k, NEW d, NEW m
    PROVE  /\ AllThere(q, c, k, d) => AllThere(u, c, k, d)
           /\ NoOther(u, c, k, d) => NoOther(q, c, k, d)
           /\ InTurn(u, c, k) => InTurn(q, c, k)
           /\ Recent(u, m) => Recent(q, m)
  <1>1. \A i \in 1..Len(q) : u[i] = q[i] /\ i \in 1..Len(u)
    BY Start
  <1>2. AllThere(q, c, k, d) => AllThere(u, c, k, d)
    BY <1>1 DEF AllThere
  <1>3. NoOther(u, c, k, d) => NoOther(q, c, k, d)
    BY <1>1 DEF NoOther
  <1>4. InTurn(u, c, k) => InTurn(q, c, k)
    BY <1>1 DEF InTurn
  <1>5. Recent(u, m) => Recent(q, m)
    BY <1>1 DEF Recent
  <1> QED BY <1>2, <1>3, <1>4, <1>5

(* A part of a frame, or bytes of no command at all, disturb no script.     *)
LEMMA OtherBehind ==
    ASSUME NEW q \in Seq(Char), NEW line, NEW t, PartOf(t, line), line.cmd \notin CmdNames,
           NEW c, NEW k, NEW d,
           AllThere(q, c, k, d), NoOther(q, c, k, d), InTurn(q, c, k)
    PROVE  LET u == q \o t
           IN  AllThere(u, c, k, d) /\ NoOther(u, c, k, d) /\ InTurn(u, c, k)
  <1> PICK u : u = q \o t
    OBVIOUS
  <1>0. \A i \in 1..Len(u) : (i \in 1..Len(q) /\ u[i] = q[i]) \/ u[i].line = line
    BY BytesBehind DEF PartOf
  <1>1. ASSUME NEW i \in 1..Len(u), OfCall(u[i], c, k) PROVE i \in 1..Len(q) /\ u[i] = q[i]
    BY <1>0, <1>1 DEF OfCall
  <1>2. AllThere(u, c, k, d)
    <2>1. \A i \in 1..Len(q) : u[i] = q[i] /\ i \in 1..Len(u)
      BY Start DEF PartOf
    <2> QED BY <2>1 DEF AllThere
  <1>3. NoOther(u, c, k, d)
    BY <1>1 DEF NoOther
  <1>4. InTurn(u, c, k)
    BY <1>1 DEF InTurn
  <1> QED BY <1>2, <1>3, <1>4

(* The next command of the script continues it.                             *)
LEMMA CommandBehind ==
    ASSUME NEW q \in Seq(Char), NEW c \in Channels, NEW k \in Nat, NEW d \in Nat, NEW line,
           d < Len(OpenCmds(c)), line = Command(c, OpenCmds(c)[d + 1], k),
           AllThere(q, c, k, d), NoOther(q, c, k, d), InTurn(q, c, k)
    PROVE  LET u == q \o Chars(line)
           IN  AllThere(u, c, k, d + 1) /\ NoOther(u, c, k, d + 1) /\ InTurn(u, c, k)
  <1>u. PICK u : u = q \o Chars(line)
    OBVIOUS
  <1>s. PICK s : s = OpenCmds(c)
    OBVIOUS
  <1>1. s \in Seq(CmdNames) /\ Len(s) \in Nat /\ d + 1 \in 1..Len(s) /\ s[d + 1] \in CmdNames
    BY <1>s, OpenCmdsType, LenProperties, ElementOfSeq
  <1>2. line \in Line /\ line.cmd = s[d + 1] /\ LenOf(line) = CmdLen /\ line.ch = c /\ line.n = k
    BY <1>1, <1>s, LineType DEF Command, LenOf, CmdNames
  <1>3. Continues(u, q, line, CmdLen)
    BY <1>2, <1>u, Behind
  <1>4. \A i \in 1..Len(u) :
           \/ i \in 1..Len(q) /\ u[i] = q[i]
           \/ i > Len(q) /\ u[i].line.cmd = s[d + 1] /\ u[i].part = i - Len(q)
    <2> SUFFICES ASSUME NEW i \in 1..Len(u), i - Len(q) \in 1..CmdLen,
                        u[i] = [line |-> line, part |-> i - Len(q)]
                 PROVE  i > Len(q) /\ u[i].line.cmd = s[d + 1] /\ u[i].part = i - Len(q)
      BY <1>3 DEF Continues
    <2>1. u[i].line = line /\ u[i].part = i - Len(q)
      OBVIOUS
    <2> QED BY <1>2, <1>3, <2>1 DEF Continues
  <1>5. AllThere(u, c, k, d + 1)
    <2> SUFFICES ASSUME NEW j \in 1..d + 1, NEW p \in 1..CmdLen
                 PROVE  \E i \in 1..Len(u) : u[i] = [line |-> Command(c, s[j], k), part |-> p]
      BY <1>s, Zenon DEF AllThere
    <2>1. CASE j = d + 1
      <3>1. line = Command(c, s[j], k)
        BY <1>s, <2>1
      <3> QED BY <1>3, <3>1 DEF Continues
    <2>2. CASE j # d + 1
      <3>1. j \in 1..d
        BY <2>2
      <3>2. PICK i \in 1..Len(q) : q[i] = [line |-> Command(c, s[j], k), part |-> p]
        BY <1>s, <3>1 DEF AllThere
      <3> QED BY <1>3, <3>2 DEF Continues
    <2> QED BY <2>1, <2>2
  <1>6. NoOther(u, c, k, d + 1)
    <2> SUFFICES ASSUME NEW i \in 1..Len(u), OfCall(u[i], c, k)
                 PROVE  \E j \in 1..d + 1 : u[i].line.cmd = s[j]
      BY <1>s DEF NoOther
    <2>1. CASE i \in 1..Len(q) /\ u[i] = q[i]
      <3>1. PICK j \in 1..d : q[i].line.cmd = s[j]
        BY <1>s, <2>1 DEF NoOther
      <3> QED BY <2>1, <3>1
    <2>2. CASE u[i].line.cmd = s[d + 1]
      BY <2>2
    <2> QED BY <1>4, <2>1, <2>2
  <1>7. InTurn(u, c, k)
    <2> SUFFICES ASSUME NEW i \in 1..Len(u), NEW j \in 1..Len(u), i < j,
                        OfCall(u[i], c, k), OfCall(u[j], c, k)
                 PROVE  Sooner(u[i], u[j], s)
      BY <1>s DEF InTurn
    <2>0. Len(q) \in Nat /\ i \in Nat /\ j \in Nat
      BY <1>3 DEF Continues
    <2>1. CASE j <= Len(q)
      <3>1. i \in 1..Len(q) /\ j \in 1..Len(q) /\ u[i] = q[i] /\ u[j] = q[j]
        BY <1>3, <2>0, <2>1 DEF Continues
      <3> QED BY <1>s, <3>1 DEF InTurn
    <2>2. CASE j > Len(q) /\ i <= Len(q)
      <3>1. u[j].line.cmd = s[d + 1]
        BY <1>4, <2>0, <2>2
      <3>2. i \in 1..Len(q) /\ u[i] = q[i]
        BY <1>3, <2>0, <2>2 DEF Continues
      <3>3. PICK l \in 1..d : q[i].line.cmd = s[l]
        BY <1>s, <3>2 DEF NoOther
      <3>4. l \in 1..Len(s) /\ l < d + 1
        BY <1>1
      <3> QED BY <1>1, <3>1, <3>2, <3>3, <3>4 DEF Sooner
    <2>3. CASE j > Len(q) /\ i > Len(q)
      <3>1. /\ u[i].line.cmd = s[d + 1] /\ u[i].part = i - Len(q)
            /\ u[j].line.cmd = s[d + 1] /\ u[j].part = j - Len(q)
        BY <1>4, <2>0, <2>3
      <3>2. u[i].part < u[j].part
        BY <2>0, <3>1
      <3> QED BY <1>1, <3>1, <3>2 DEF Sooner
    <2> QED BY <2>0, <2>1, <2>2, <2>3
  <1> QED BY <1>u, <1>5, <1>6, <1>7

(* Of the open that runs, d commands have drained; e counts the one whose   *)
(* sender waits as well.                                                    *)
UnderWay(d) == IF ndo = "openwait" THEN d + 1 ELSE d
OnWire(d) == IF xcmd THEN d ELSE UnderWay(d)
InScript(d) ==
    LET s == OpenCmds(ndoCh)
        k == opens + closes
    IN  /\ d <= Len(s) /\ Len(todo) = Len(s) - d
        /\ \A i \in 1..Len(todo) : todo[i] = s[d + i]
        /\ AllThere(wire, ndoCh, k, OnWire(d))
        /\ AllThere(InTransit, ndoCh, k, UnderWay(d))
        /\ NoOther(InTransit, ndoCh, k, UnderWay(d))
        /\ InTurn(InTransit, ndoCh, k)
ScriptInv ==
    /\ Recent(InTransit, opens + closes)
    /\ ndo \in {"open", "openwait"} => \E d \in Nat : InScript(d)

Calls == <<ndoCh, opens, closes>>

(* A frame, junk, a write or the completion by tx_work: the script stands   *)
(* still.                                                                   *)
Traffic(t, line) ==
    /\ line.cmd \notin CmdNames
    /\ line.cmd = "frame" \/ line.n = 0
    /\ PartOf(t, line) /\ InTransit' = InTransit \o t

LEMMA TrafficStep ==
    ASSUME TypeOK, ScriptInv, UNCHANGED <<Calls, ndo, todo>>,
           \/ InTransit' = InTransit
           \/ \E t, line : Traffic(t, line),
           WireGrows,
           xcmd' = xcmd \/ (pend = <<>> /\ InTransit' = InTransit)
    PROVE  ScriptInv'
  <1>0. /\ wire \in Seq(Char) /\ pend \in Seq(Char) /\ InTransit \in Seq(Char)
        /\ \E u \in Seq(Char) : wire' = wire \o u
        /\ opens + closes \in Nat
    <2>1. \E u \in Seq(Char) : wire' = wire \o u
      BY DEF WireGrows
    <2>2. opens \in Nat /\ closes \in Nat
      BY Sequences
    <2>3. opens + closes \in Nat
      BY <2>2
    <2> QED BY <2>1, <2>3, Sequences
  <1>1. PICK c, k, q, v : c = ndoCh /\ k = opens + closes /\ q = InTransit /\ v = InTransit'
    OBVIOUS
  <1>2. q \in Seq(Char) /\ k \in Nat
    BY <1>0, <1>1
  <1>b. \/ v = q
        \/ \E t, line : /\ PartOf(t, line) /\ v = q \o t /\ line.cmd \notin CmdNames
                        /\ line.cmd = "frame" \/ line.n = 0
    BY <1>1 DEF Traffic
  <1>3. Recent(v, k)
    <2>1. Recent(q, k)
      BY <1>1 DEF ScriptInv
    <2>2. ASSUME NEW t, NEW line, PartOf(t, line), v = q \o t, line.cmd = "frame" \/ line.n = 0
          PROVE  Recent(v, k)
      <3>1. t \in Seq(Char) /\ \A i \in 1..Len(t) : t[i].line = line
        BY <2>2 DEF PartOf
      <3>2. \A i \in 1..Len(v) : (i \in 1..Len(q) /\ v[i] = q[i]) \/ v[i].line = line
        BY <1>2, <2>2, <3>1, BytesBehind
      <3>3. ASSUME NEW i \in 1..Len(v), ~IsFrame(v[i]) PROVE v[i].line.n <= k
        <4>1. CASE i \in 1..Len(q) /\ v[i] = q[i]
          BY <2>1, <3>3, <4>1 DEF Recent
        <4>2. CASE v[i].line = line
          BY <1>2, <2>2, <3>3, <4>2 DEF IsFrame
        <4> QED BY <3>2, <4>1, <4>2
      <3> QED BY <3>3 DEF Recent
    <2> QED BY <1>b, <2>1, <2>2
  <1>4. ASSUME NEW d \in Nat, InScript(d) PROVE InScript(d)'
    <2>1. PICK e, w : e = UnderWay(d) /\ w = OnWire(d)
      OBVIOUS
    <2>2. AllThere(q, c, k, e) /\ NoOther(q, c, k, e) /\ InTurn(q, c, k) /\ AllThere(wire, c, k, w)
      BY <1>1, <1>4, <2>1 DEF InScript
    <2>3. AllThere(v, c, k, e) /\ NoOther(v, c, k, e) /\ InTurn(v, c, k)
      <3>1. ASSUME NEW t, NEW line, PartOf(t, line), line.cmd \notin CmdNames, v = q \o t
            PROVE  AllThere(v, c, k, e) /\ NoOther(v, c, k, e) /\ InTurn(v, c, k)
        BY <1>2, <2>2, <3>1, OtherBehind
      <3> QED BY <1>b, <2>2, <3>1
    <2>4. UnderWay(d)' = e
      BY <2>1 DEF UnderWay
    <2>5. AllThere(wire', c, k, OnWire(d)')
      <3>1. CASE xcmd' = xcmd
        <4>1. OnWire(d)' = w
          BY <2>1, <2>4, <3>1 DEF OnWire
        <4> QED BY <1>0, <2>2, <4>1, StartOf
      <3>2. CASE pend = <<>> /\ InTransit' = InTransit
        <4>1. wire = q
          BY <1>0, <1>1, <3>2, ConcatEmptySeq DEF InTransit
        <4>2. AllThere(wire', c, k, e)
          BY <1>0, <2>2, <4>1, StartOf
        <4>3. AllThere(wire', c, k, w)
          BY <1>0, <2>2, StartOf
        <4>4. OnWire(d)' = e \/ OnWire(d)' = d
          BY <2>4 DEF OnWire
        <4>5. CASE OnWire(d)' = d
          <5>1. d <= e
            BY <2>1 DEF UnderWay
          <5>2. e \in Nat
            BY <2>1 DEF UnderWay
          <5>3. \A j \in 1..d : j \in 1..e
            BY <5>1, <5>2
          <5> QED BY <4>2, <4>5, <5>3 DEF AllThere
        <4> QED BY <4>2, <4>4, <4>5
      <3> QED BY <3>1, <3>2
    <2>6. /\ d <= Len(OpenCmds(ndoCh)) /\ Len(todo) = Len(OpenCmds(ndoCh)) - d
          /\ \A i \in 1..Len(todo) : todo[i] = OpenCmds(ndoCh)[d + i]
      BY <1>4 DEF InScript
    <2>7. todo' = todo /\ ndoCh' = ndoCh /\ ndoCh' = c /\ opens' + closes' = k
      BY <1>1 DEF Calls
    <2> QED BY <1>1, <2>3, <2>4, <2>5, <2>6, <2>7 DEF InScript
  <1>5. opens' + closes' = k /\ ndo' = ndo
    BY <1>1 DEF Calls
  <1> QED BY <1>1, <1>3, <1>4, <1>5 DEF ScriptInv

LEMMA RecentLater ==
    ASSUME NEW q \in Seq(Char), NEW m \in Nat, NEW k \in Nat, k >= m, Recent(q, m)
    PROVE  Recent(q, k)
  <1>1. \A i \in 1..Len(q) : q[i] \in Char
    BY ElementOfSeq
  <1>2. \A x \in Char : x.line.n \in Nat
    BY DEF Char, Line
  <1>3. ASSUME NEW i \in 1..Len(q), ~IsFrame(q[i]) PROVE q[i].line.n <= k
    <2>1. q[i].line.n \in Nat /\ q[i].line.n <= m
      BY <1>1, <1>2, <1>3 DEF Recent
    <2> QED BY <2>1
  <1> QED BY <1>3 DEF Recent

(* The next command of the script is sent.                                  *)
LEMMA SendCmdScript == TypeOK /\ ScriptInv /\ SendCmd => ScriptInv'
  <1> SUFFICES ASSUME TypeOK, ScriptInv, SendCmd PROVE ScriptInv'
    OBVIOUS
  <1>1. PICK c, k, line, v :
           /\ c = ndoCh /\ k = opens + closes /\ v = InTransit'
           /\ line = Command(ndoCh, Head(todo), opens + closes)
    OBVIOUS
  <1>2. c \in Channels /\ k \in Nat /\ wire \in Seq(Char) /\ pend \in Seq(Char)
    <2>1. opens \in Nat /\ closes \in Nat /\ opens + closes \in Nat
      BY Sequences
    <2> QED BY <1>1, <2>1, Sequences
  <1>3. todo \in Seq(CmdNames) /\ todo # <<>> /\ Head(todo) = todo[1] /\ Head(todo) \in CmdNames
    BY HeadTailProperties DEF TypeOK, SendCmd
  <1>4. line \in Line /\ line.cmd # "frame" /\ line.n = k
    BY <1>1, <1>2, <1>3, LineType DEF Command, CmdNames
  <1>5. v = wire \o Chars(line) /\ Chars(line) \in Seq(Char) /\ wire' = wire
    <2>1. pend' = Chars(line) /\ wire' = wire
      BY <1>1 DEF SendCmd, tty
    <2>2. Chars(line) \in Seq(Char)
      BY <1>4, CharsType
    <2> QED BY <1>1, <2>1, <2>2 DEF InTransit
  <1>6. xcmd' = TRUE /\ UNCHANGED <<ndoCh, opens, closes, todo>>
    BY DEF SendCmd
  <1>7. Recent(v, k)
    <2>1. Recent(wire, k)
      BY <1>1, <1>2, StartOf DEF ScriptInv, InTransit
    <2>2. Continues(v, wire, line, LenOf(line))
      BY <1>2, <1>4, <1>5, Behind
    <2>3. ASSUME NEW i \in 1..Len(v), ~IsFrame(v[i]) PROVE v[i].line.n <= k
      <3>1. CASE v[i] = [line |-> line, part |-> i - Len(wire)]
        <4>1. v[i].line = line
          BY <3>1
        <4> QED BY <1>2, <1>4, <4>1
      <3>2. CASE i \in 1..Len(wire) /\ v[i] = wire[i]
        BY <2>1, <2>3, <3>2 DEF Recent
      <3> QED BY <2>2, <3>1, <3>2 DEF Continues
    <2> QED BY <2>3 DEF Recent
  <1>8. CASE ndo = "open"
    <2>1. PICK d \in Nat : InScript(d)
      BY <1>8 DEF ScriptInv
    <2>2. UnderWay(d) = d /\ OnWire(d) = d /\ ndo' = "openwait"
      BY <1>8 DEF UnderWay, OnWire, SendCmd
    <2>3. PICK s : s = OpenCmds(c)
      OBVIOUS
    <2>4. /\ d <= Len(s) /\ Len(todo) = Len(s) - d /\ \A i \in 1..Len(todo) : todo[i] = s[d + i]
          /\ AllThere(wire, c, k, d) /\ NoOther(InTransit, c, k, d) /\ InTurn(InTransit, c, k)
      BY <1>1, <2>1, <2>2, <2>3 DEF InScript
    <2>5. Len(s) \in Nat /\ d < Len(s) /\ Head(todo) = s[d + 1]
      <3>1. Len(todo) \in Nat /\ 1 \in 1..Len(todo) /\ s \in Seq(CmdNames)
        BY <1>2, <1>3, <2>3, OpenCmdsType
      <3>2. todo[1] = s[d + 1]
        BY <2>4, <3>1
      <3>3. Len(s) \in Nat
        BY <3>1
      <3> QED BY <1>3, <2>4, <3>1, <3>2, <3>3
    <2>6. NoOther(wire, c, k, d) /\ InTurn(wire, c, k)
      BY <1>2, <2>4, StartOf DEF InTransit
    <2>7. line = Command(c, OpenCmds(c)[d + 1], k)
      BY <1>1, <2>3, <2>5
    <2>8. AllThere(v, c, k, d + 1) /\ NoOther(v, c, k, d + 1) /\ InTurn(v, c, k)
      BY <1>2, <1>5, <2>3, <2>4, <2>5, <2>6, <2>7, CommandBehind
    <2>9. AllThere(wire', c, k, d)
      BY <1>5, <2>4
    <2>10. UnderWay(d)' = d + 1 /\ OnWire(d)' = d
      BY <1>6, <2>2 DEF UnderWay, OnWire
    <2>11. ndoCh' = c /\ opens' + closes' = k /\ todo' = todo
      BY <1>1, <1>6
    <2>12. InScript(d)'
      BY <1>1, <2>3, <2>4, <2>8, <2>9, <2>10, <2>11 DEF InScript
    <2> QED BY <1>1, <1>7, <2>11, <2>12 DEF ScriptInv
  <1>9. CASE ndo # "open"
    <2>1. ndo' = "closewait"
      BY <1>9 DEF SendCmd
    <2> QED BY <1>1, <1>6, <1>7, <2>1 DEF ScriptInv
  <1> QED BY <1>8, <1>9

(* Its sender wakes: SLF_XCMD was cleared, so the tty has taken it.         *)
LEMMA CmdSentScript == TypeOK /\ ScriptInv /\ CmdSent => ScriptInv'
  <1> SUFFICES ASSUME TypeOK, ScriptInv, CmdSent PROVE ScriptInv'
    OBVIOUS
  <1>1. /\ InTransit' = InTransit /\ wire' = wire /\ ~xcmd /\ xcmd' = xcmd
        /\ UNCHANGED Calls /\ todo' = Tail(todo)
    BY DEF CmdSent, buffer, tty, InTransit, Calls
  <1>2. Recent(InTransit, opens + closes)'
    BY <1>1 DEF ScriptInv, Calls, Recent
  <1>3. CASE ndo = "openwait"
    <2>1. PICK d \in Nat : InScript(d)
      BY <1>3 DEF ScriptInv
    <2>2. PICK e : e = d + 1
      OBVIOUS
    <2>3. /\ UnderWay(d) = e /\ OnWire(d) = e
          /\ UnderWay(e)' = e /\ OnWire(e)' = e /\ ndo' = "open" /\ e \in Nat
      BY <1>1, <1>3, <2>2 DEF UnderWay, OnWire, CmdSent
    <2>4. PICK s : s = OpenCmds(ndoCh)
      OBVIOUS
    <2>5. /\ d <= Len(s) /\ Len(todo) = Len(s) - d /\ \A i \in 1..Len(todo) : todo[i] = s[d + i]
      BY <2>1, <2>4 DEF InScript
    <2>6. /\ todo \in Seq(CmdNames) /\ Len(todo) \in Nat \ {0} /\ Len(todo') = Len(todo) - 1
          /\ \A i \in 1..Len(todo') : todo'[i] = todo[i + 1]
      <3>1. todo \in Seq(CmdNames) /\ todo # <<>>
        BY <1>3 DEF TypeOK
      <3> QED BY <1>1, <3>1, HeadTailProperties, EmptySeq, LenProperties
    <2>7. Len(s) \in Nat
      <3>1. s \in Seq(CmdNames)
        BY <2>4, OpenCmdsType DEF TypeOK
      <3> QED BY <3>1
    <2>8. e <= Len(s) /\ Len(todo') = Len(s) - e
      BY <2>2, <2>5, <2>6, <2>7
    <2>9. ASSUME NEW i \in 1..Len(todo') PROVE todo'[i] = s[e + i]
      <3>1. i + 1 \in 1..Len(todo) /\ todo'[i] = todo[i + 1]
        BY <2>6
      <3>2. d + (i + 1) = e + i
        BY <2>2, <2>6
      <3> QED BY <2>5, <3>1, <3>2
    <2>10. InScript(e)'
      BY <1>1, <2>1, <2>3, <2>4, <2>8, <2>9 DEF InScript, Calls
    <2> QED BY <1>2, <2>3, <2>10 DEF ScriptInv
  <1>4. CASE ndo # "openwait"
    <2>1. ndo' = "close"
      BY <1>4 DEF CmdSent
    <2> QED BY <1>2, <2>1 DEF ScriptInv
  <1> QED BY <1>3, <1>4

(* A call begins with nothing of its own on its way: its number is new.     *)
LEMMA OpenStartScript == \A c \in Channels : TypeOK /\ ScriptInv /\ OpenStart(c) => ScriptInv'
  <1> SUFFICES ASSUME NEW c \in Channels, TypeOK, ScriptInv, OpenStart(c) PROVE ScriptInv'
    OBVIOUS
  <1>1. /\ InTransit' = InTransit /\ wire' = wire /\ ndo' = "open" /\ todo' = OpenCmds(c)
        /\ ndoCh' = c /\ opens' = opens + 1 /\ closes' = closes
    BY DEF OpenStart, buffer, tty, InTransit
  <1>2. PICK q, k, m : q = InTransit /\ k = opens' + closes' /\ m = opens + closes
    OBVIOUS
  <1>3. /\ q \in Seq(Char) /\ wire \in Seq(Char) /\ pend \in Seq(Char)
        /\ m \in Nat /\ k = m + 1
    <2>1. wire \in Seq(Char) /\ pend \in Seq(Char) /\ opens \in Nat /\ closes \in Nat
      BY BoundsAssumption DEF TypeOK
    <2>2. q \in Seq(Char)
      BY <1>2, <2>1, ConcatProperties DEF InTransit
    <2>3. m \in Nat /\ k = m + 1
      BY <1>1, <1>2, <2>1
    <2> QED BY <2>1, <2>2, <2>3
  <1>4. ASSUME NEW i \in 1..Len(q), ~IsFrame(q[i]) PROVE q[i].line.n <= m
    BY <1>2, <1>4 DEF ScriptInv, Recent
  <1>5. Recent(q, k)
    BY <1>2, <1>3, RecentLater DEF ScriptInv
  <1>6. ASSUME NEW i \in 1..Len(q), OfCall(q[i], c, k) PROVE FALSE
    <2>1. ~IsFrame(q[i]) /\ q[i].line.n = k
      BY <1>6 DEF OfCall, IsFrame, CmdNames
    <2>2. k <= m
      BY <1>4, <2>1
    <2> QED BY <1>3, <2>2
  <1>7. /\ AllThere(wire, c, k, 0) /\ AllThere(q, c, k, 0)
        /\ NoOther(q, c, k, 0) /\ InTurn(q, c, k)
    BY <1>6 DEF AllThere, NoOther, InTurn
  <1>8. UnderWay(0)' = 0 /\ OnWire(0)' = 0
    BY <1>1 DEF UnderWay, OnWire
  <1>9. PICK s : s = OpenCmds(c)
    OBVIOUS
  <1>10. Len(s) \in Nat /\ \A i \in 1..Len(s) : s[0 + i] = s[i]
    BY <1>9, OpenCmdsType
  <1>11. 0 <= Len(s) /\ Len(s) = Len(s) - 0
    BY <1>10
  <1>12. InScript(0)'
    BY <1>1, <1>2, <1>7, <1>8, <1>9, <1>10, <1>11 DEF InScript
  <1> QED BY <1>1, <1>2, <1>5, <1>12 DEF ScriptInv

LEMMA ScriptStep == TypeOK /\ ScriptInv /\ [Next]_vars => ScriptInv'
  <1> SUFFICES ASSUME TypeOK, ScriptInv, [Next]_vars PROVE ScriptInv'
    OBVIOUS
  <1>0. wire \in Seq(Char) /\ pend \in Seq(Char) /\ InTransit \in Seq(Char)
    BY Sequences
  <1>1. wire' = wire => WireGrows
    <2>1. wire = wire \o <<>> /\ <<>> \in Seq(Char)
      BY <1>0, ConcatEmptySeq, EmptySeq
    <2> QED BY <2>1 DEF WireGrows
  <1>2. ASSUME NEW c \in Channels, Xmit(c) PROVE ScriptInv'
    <2>1. PICK t, line : line = Frame(c, sent[c] + 1) /\ Grown(t, line)
      BY <1>2, XmitStep DEF FrameStep
    <2>2. Traffic(t, line) /\ WireGrows
      BY <2>1 DEF Grown, Traffic, Frame, CmdNames
    <2>3. UNCHANGED <<Calls, ndo, todo, xcmd>>
      BY <1>2 DEF Xmit, control, Calls
    <2> QED BY <2>2, <2>3, TrafficStep
  <1>3. CASE SendCmd
    BY <1>3, SendCmdScript
  <1>4. CASE CmdSent
    BY <1>4, CmdSentScript
  <1>5. CASE OpsWrite
    <2>1. UNCHANGED <<Calls, ndo, todo, xcmd>>
      BY <1>5 DEF OpsWrite, control, Calls
    <2>2. CASE JunkStep
      <3>1. PICK t : Grown(t, Junk)
        BY <2>2 DEF JunkStep
      <3>2. Traffic(t, Junk) /\ WireGrows
        BY <3>1, JunkType DEF Grown, Traffic, CmdNames
      <3> QED BY <2>1, <3>2, TrafficStep
    <2>3. CASE WriteStep
      BY <2>1, <2>3, TrafficStep DEF WriteStep
    <2> QED BY <1>5, <2>2, <2>3, OpsStep
  <1>6. CASE TxCmdDone
    <2>1. /\ pend = <<>> /\ InTransit' = InTransit /\ wire' = wire
          /\ UNCHANGED <<Calls, ndo, todo>>
      BY <1>6 DEF TxCmdDone, control, tty, Calls, InTransit
    <2> QED BY <1>1, <2>1, TrafficStep
  <1>7. ASSUME UNCHANGED <<wire, pend, xcmd, ndo, ndoCh, todo, opens, closes>> PROVE ScriptInv'
    <2>1. InTransit' = InTransit /\ UNCHANGED <<Calls, ndo, todo, xcmd>>
      BY <1>7 DEF InTransit, Calls
    <2> QED BY <1>1, <1>7, <2>1, TrafficStep
  <1>8. ASSUME NEW c \in Channels, XmitBusy(c)
        PROVE  UNCHANGED <<wire, pend, xcmd, ndo, ndoCh, todo, opens, closes>>
    BY <1>8 DEF XmitBusy, buffer, tty, control
  <1>9. ASSUME TimerFires \/ TxWrite \/ Unlock \/ TxDrained \/ WakeQueue \/ TtyDrain \/ WriteWakeup
        PROVE  UNCHANGED <<wire, pend, xcmd, ndo, ndoCh, todo, opens, closes>>
    BY <1>9 DEF TimerFires, TxWrite, Unlock, TxDrained, WakeQueue, TtyDrain, WriteWakeup,
                buffer, tty, control
  <1>10. ASSUME \/ DetachStart \/ DetachFlush \/ DetachUnregister \/ DetachFinish
                \/ UNCHANGED vars
         PROVE  UNCHANGED <<wire, pend, xcmd, ndo, ndoCh, todo, opens, closes>>
    BY <1>10 DEF DetachStart, DetachFlush, DetachUnregister, DetachFinish, vars, buffer, tty,
                 control
  <1>11. ASSUME NEW c \in Channels, OpenStart(c) PROVE ScriptInv'
    BY <1>11, OpenStartScript
  <1>12. ASSUME UNCHANGED <<wire, pend, opens>>, closes' \in {closes, closes + 1},
                ndo' \notin {"open", "openwait"}
         PROVE  ScriptInv'
    <2>1. InTransit' = InTransit
      BY <1>12 DEF InTransit
    <2>2. Recent(InTransit, opens' + closes')
      <3>1. InTransit \in Seq(Char) /\ opens \in Nat /\ closes \in Nat
        BY <1>0, BoundsAssumption, ConcatProperties DEF TypeOK, InTransit
      <3> QED BY <1>12, <3>1, RecentLater DEF ScriptInv
    <2> QED BY <1>12, <2>1, <2>2 DEF ScriptInv
  <1>13. ASSUME NEW c \in Channels, CloseStart(c) PROVE ScriptInv'
    <2>1. /\ UNCHANGED <<wire, pend, opens>> /\ closes' = closes + 1
          /\ ndo' \notin {"open", "openwait"}
      BY <1>13 DEF CloseStart, CloseBegin, buffer, tty
    <2> QED BY <1>12, <2>1
  <1>14. ASSUME CmdFailed \/ OpenFinish \/ CloseClearWakeup \/ CloseFlush \/ DetachClose
         PROVE  ScriptInv'
    <2>1. UNCHANGED <<wire, pend, opens, closes>> /\ ndo' \notin {"open", "openwait"}
      BY <1>14 DEF CmdFailed, OpenFinish, CloseClearWakeup, CloseFlush, DetachClose, CloseBegin,
                   buffer, tty
    <2> QED BY <1>12, <2>1
  <1>15. CASE CloseFinish
    <2>1. /\ UNCHANGED <<opens, closes>>
          /\ ndo' \notin {"open", "openwait"}
      BY <1>15 DEF CloseFinish
    <2>2. InTransit' \in {wire, InTransit}
      <3>1. wire' = wire /\ (pend' = <<>> \/ pend' = pend)
        BY <1>15 DEF CloseFinish, tty
      <3> QED BY <1>0, <3>1, ConcatEmptySeq DEF InTransit
    <2>3. Recent(wire, opens + closes) /\ Recent(InTransit, opens + closes)
      BY <1>0, StartOf DEF ScriptInv, InTransit
    <2> QED BY <2>1, <2>2, <2>3 DEF ScriptInv
  <1> QED BY <1>2, <1>3, <1>4, <1>5, <1>6, <1>7, <1>8, <1>9, <1>10, <1>11, <1>13, <1>14,
             <1>15 DEF Next, Section, TxWork, Ndo, Detach

(* ndo_open succeeds at the end of its script only, and then the tty has    *)
(* taken every command of it, whole, once and in order, whatever frames and *)
(* commands of other channels, timeouts and partial writes went between.    *)
THEOREM OpenConfigures == Spec => OpenMeansConfigured
  <1>1. Init => ScriptInv
    <2> SUFFICES ASSUME Init PROVE ScriptInv
      OBVIOUS
    <2>1. InTransit = <<>> /\ Len(<<>>) = 0
      BY EmptySeq, ConcatEmptySeq DEF Init, InTransit
    <2> QED BY <2>1 DEF Init, ScriptInv, Recent
  <1>2. TypeOK /\ ScriptInv /\ [Next]_vars
           => (ndo = "open" /\ ndo' = "free" => CmdsOnWire(ndoCh, opens + closes))
    <2> SUFFICES ASSUME TypeOK, ScriptInv, [Next]_vars, ndo = "open", ndo' = "free"
                 PROVE  CmdsOnWire(ndoCh, opens + closes)
      OBVIOUS
    <2>1. todo = <<>>
      <3>1. CASE OpenFinish
        BY <3>1 DEF OpenFinish
      <3>2. ASSUME NEW c \in Channels, Xmit(c) \/ XmitBusy(c) \/ OpenStart(c) \/ CloseStart(c)
            PROVE  FALSE
        BY <3>2 DEF Xmit, XmitBusy, OpenStart, CloseStart, CloseBegin, control
      <3>3. ASSUME TimerFires \/ Section \/ TxWork \/ TtyDrain \/ WriteWakeup PROVE FALSE
        BY <3>3 DEF TimerFires, Section, OpsWrite, Unlock, TxWork, TxWrite, TxCmdDone,
                    TxDrained, WakeQueue, TtyDrain, WriteWakeup, control
      <3>4. ASSUME SendCmd \/ CmdSent \/ CmdFailed \/ CloseClearWakeup \/ CloseFlush \/ CloseFinish
            PROVE  FALSE
        BY <3>4 DEF SendCmd, CmdSent, CmdFailed, CloseClearWakeup, CloseFlush, CloseFinish
      <3>5. ASSUME DetachStart \/ Detach \/ UNCHANGED vars PROVE FALSE
        BY <3>5 DEF DetachStart, Detach, DetachFlush, DetachClose, DetachUnregister, DetachFinish,
                    CloseBegin, vars, control
      <3> QED BY <3>1, <3>2, <3>3, <3>4, <3>5 DEF Next, Ndo
    <2>2. PICK d \in Nat : InScript(d)
      BY DEF ScriptInv
    <2>3. PICK c, k, s : c = ndoCh /\ k = opens + closes /\ s = OpenCmds(c)
      OBVIOUS
    <2>4. UnderWay(d) = d /\ OnWire(d) = d
      BY DEF UnderWay, OnWire
    <2>5. /\ d <= Len(s) /\ Len(todo) = Len(s) - d /\ AllThere(wire, c, k, d)
          /\ NoOther(InTransit, c, k, d) /\ InTurn(InTransit, c, k)
      BY <2>2, <2>3, <2>4 DEF InScript
    <2>6. Len(s) \in Nat
      <3>1. s \in Seq(CmdNames)
        BY <2>3, OpenCmdsType DEF TypeOK
      <3> QED BY <3>1
    <2>7. Len(todo) = 0
      BY <2>1, EmptySeq
    <2>8. d = Len(s)
      BY <2>5, <2>6, <2>7
    <2>9. wire \in Seq(Char) /\ pend \in Seq(Char)
      BY DEF TypeOK
    <2>10. NoOther(wire, c, k, d) /\ InTurn(wire, c, k)
      BY <2>5, <2>9, StartOf DEF InTransit
    <2> QED BY <2>3, <2>5, <2>8, <2>10 DEF CmdsOnWire
  <1>3. TypeOK /\ ScriptInv /\ [Next]_vars => ScriptInv'
    BY ScriptStep
  <1> QED BY <1>1, <1>2, <1>3, TypeCorrect, PTL DEF Spec, OpenMeansConfigured

=============================================================================
