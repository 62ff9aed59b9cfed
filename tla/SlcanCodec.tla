----------------------------- MODULE SlcanCodec -----------------------------
(***************************************************************************)
(* The text of a frame: six implementations write it (slcan-core.c for     *)
(* Linux 6.14, its older copy for 5.15 and 6.8, here kernel68, and the     *)
(* C++, C#, Rust and Python libraries) and the same six read it.  A frame  *)
(* goes from one to another; on the way the line may lose its end.         *)
(*                                                                         *)
(* A line is its channel prefix, its letter, its dlc digit and the number  *)
(* of data bytes written after it.  The identifier is left out: it fits    *)
(* its 3 or 8 digits and is copied.  So are the values of data bytes.      *)
(*                                                                         *)
(* The adapter's reports take the same way: it writes one, the driver      *)
(* makes an error frame of it, and canerr prints that (module ErrorFrames). *)
(* So do the commands that set bit rates (module SlcanCommands).            *)
(***************************************************************************)
EXTENDS Naturals, Sequences, ErrorFrames, SlcanCommands

Impls == {"kernel", "kernel68", "cpp", "cs", "rust", "py"}
Channels == 0..3
Kinds == {"data", "remote", "fd", "brs"}

(* The lengths a dlc can name. *)
ClassicLengths == 0..8
FdLengths == ClassicLengths \cup {12, 16, 20, 24, 32, 48, 64}

CONSTANTS
    OddLengths,     \* lengths that CAN FD has no dlc for
    CodeSeqs,       \* the codes of an e line, of which "?" is an unknown one
    ByteCounts,     \* error counters, of two hex digits
    DecimalCounts   \* error counters, of three decimal digits

ASSUME CodecAssumption ==
    /\ OddLengths \subseteq (0..64) \ FdLengths
    /\ CodeSeqs \subseteq Seq(Codes \cup {"?"}) /\ \A codes \in CodeSeqs : Len(codes) <= 9
    /\ ByteCounts \subseteq 0..255 /\ DecimalCounts \subseteq 0..999

Frames ==
    [ext: BOOLEAN, kind: {"data", "remote"}, len: ClassicLengths]
    \cup [ext: BOOLEAN, kind: {"fd", "brs"}, len: FdLengths \cup OddLengths]

VARIABLES
    frame, ch,          \* what is sent, on which channel
    sender, receiver,   \* by whom and to whom
    stage,              \* "new", "sent", "codes", "read"
    line,               \* the line, with what became of it on the way
    got                 \* what the receiver delivers, or canerr prints, if anything;
                        \* between the codes of an e line, the frame made so far

vars == <<frame, ch, sender, receiver, stage, line, got>>

Nothing == [kind |-> "nothing"]

---------------------------------------------------------------------------
(* Letters, and dlc digits as the numbers 0..15. *)

LowerCase == [k \in Kinds |-> CASE k = "data" -> "t" [] k = "remote" -> "r"
                                [] k = "fd" -> "d" [] k = "brs" -> "b"]
UpperCase == [k \in Kinds |-> CASE k = "data" -> "T" [] k = "remote" -> "R"
                                [] k = "fd" -> "D" [] k = "brs" -> "B"]
Letter(f) == IF f.ext THEN UpperCase[f.kind] ELSE LowerCase[f.kind]

Extended(letter) == letter \in {"T", "R", "D", "B"}
IsFd(letter) == letter \in {"d", "D", "b", "B"}
Remote(letter) == letter \in {"r", "R"}
KindOf(letter) == CHOOSE k \in Kinds : letter \in {LowerCase[k], UpperCase[k]}

(* The lengths of dlc 0..15; a length is given the first dlc that holds it. *)
DlcLen == [d \in 0..15 |->
    IF d <= 8 THEN d ELSE <<12, 16, 20, 24, 32, 48, 64>>[d - 8]]
DlcOf(n) == CHOOSE d \in 0..15 :
    DlcLen[d] >= n /\ \A e \in 0..15 : DlcLen[e] >= n => d <= e

---------------------------------------------------------------------------
(* Writing a frame.  Only a remote frame has no data; the kernel leaves out *)
(* the prefix of channel 0, and the C# library writes a remote frame's      *)
(* bytes, which every reader skips.                                         *)

NoPrefix == 4
Line(prefix, f, n) ==
    [prefix |-> prefix, letter |-> Letter(f), dlc |-> DlcOf(f.len), bytes |-> n,
     header |-> TRUE]
Payload(f) == IF f.kind = "remote" THEN 0 ELSE f.len

KernelLine(c, f) == Line(IF c = 0 THEN NoPrefix ELSE c, f, Payload(f))
Kernel68Line(c, f) == KernelLine(c, f)
CppLine(c, f) == Line(c, f, Payload(f))
CsLine(c, f) == Line(c, f, f.len)
RustLine(c, f) == Line(c, f, Payload(f))
PyLine(c, f) == Line(c, f, Payload(f))

Encode(impl, c, f) ==
    CASE impl = "kernel" -> KernelLine(c, f)
      [] impl = "kernel68" -> Kernel68Line(c, f)
      [] impl = "cpp" -> CppLine(c, f)
      [] impl = "cs" -> CsLine(c, f)
      [] impl = "rust" -> RustLine(c, f)
      [] impl = "py" -> PyLine(c, f)

---------------------------------------------------------------------------
(* Reading a line: the set of what may be delivered. *)

Channel0(l) == 0                              \* mutant: the prefix is skipped
ChannelOf(l) == IF l.prefix = NoPrefix THEN 0 ELSE l.prefix

(* A frame as it is delivered: its length, and the data bytes behind it. *)
FrameOn(c, l, len, data) ==
    [ch |-> c, ext |-> Extended(l.letter), kind |-> KindOf(l.letter),
     len |-> len, data |-> data]
Frame(l, len, data) == FrameOn(ChannelOf(l), l, len, data)

AnyLength(l) == TRUE                          \* mutant: the line's length is not looked at
LongEnough(l) == l.bytes >= DlcLen[l.dlc]

(* slcan_bump_frame refuses a data line that is shorter than its dlc says,  *)
(* which includes one cut in its header; for a remote frame it does not     *)
(* look at the length and takes what is missing from the line before.       *)
BumpFrame(c, l) ==
    CASE Remote(l.letter) /\ ~l.header ->
            {Nothing} \cup {FrameOn(c, l, n, 0) : n \in ClassicLengths}
      [] Remote(l.letter) /\ l.header ->
            IF l.dlc > 8 THEN {Nothing} ELSE {FrameOn(c, l, l.dlc, 0)}
      [] OTHER ->
            IF (l.dlc > 8 /\ ~IsFd(l.letter)) \/ ~l.header \/ ~LongEnough(l)
            THEN {Nothing}
            ELSE {FrameOn(c, l, DlcLen[l.dlc], DlcLen[l.dlc])}

(* The driver for 6.14 passes a pointer behind the prefix; the older one    *)
(* chooses the channel and then moves the line over its prefix.             *)
KernelRead(l) == BumpFrame(ChannelOf(l), l)
Moved(l) == [l EXCEPT !.prefix = NoPrefix]
Kernel68Read(l) == BumpFrame(ChannelOf(l), Moved(l))

HeaderThere(l) == l.header

(* The C++ and Rust libraries take the bytes that are there, whatever the   *)
(* dlc says; a remote frame's dlc is not kept.                              *)
BytesThere(l) == IF Remote(l.letter) THEN 0 ELSE l.bytes
CppRead(l) ==
    IF HeaderThere(l) THEN {Frame(l, BytesThere(l), BytesThere(l))} ELSE {Nothing}
RustRead(l) ==
    IF HeaderThere(l) THEN {Frame(l, BytesThere(l), BytesThere(l))} ELSE {Nothing}

(* The C# library reads as many bytes as the dlc says, and gives a remote   *)
(* frame that many zeros.                                                   *)
CsRead(l) ==
    IF ~HeaderThere(l) \/ (~Remote(l.letter) /\ ~LongEnough(l)) THEN {Nothing}
    ELSE {Frame(l, DlcLen[l.dlc], IF Remote(l.letter) THEN 0 ELSE DlcLen[l.dlc])}

(* The Python library takes the length from the dlc, the bytes as they are. *)
PyRead(l) ==
    IF HeaderThere(l) THEN {Frame(l, DlcLen[l.dlc], BytesThere(l))} ELSE {Nothing}

Decode(impl, l) ==
    CASE impl = "kernel" -> KernelRead(l)
      [] impl = "kernel68" -> Kernel68Read(l)
      [] impl = "cpp" -> CppRead(l)
      [] impl = "cs" -> CsRead(l)
      [] impl = "rust" -> RustRead(l)
      [] impl = "py" -> PyRead(l)

---------------------------------------------------------------------------
(* The reports of the adapter. *)
Reports ==
    [cmd: {"e"}, codes: CodeSeqs]
    \cup [cmd: {"E"}, state: States, last: 0..7, fw: SUBSET {1, 4, 8}, tx: ByteCounts, rx: ByteCounts]
    \cup [cmd: {"s"}, state: States, tx: DecimalCounts, rx: DecimalCounts]

FromAdapter == sender = "adapter"
IsSetting == receiver = "slcandx"

Init ==
    /\ \/ frame \in Frames /\ sender \in Impls /\ receiver \in Impls
       \/ frame \in Reports /\ sender = "adapter" /\ receiver = "canerr"
       \/ frame \in Settings /\ sender \in Impls /\ receiver = "slcandx"
    /\ ch \in Channels
    /\ stage = "new" /\ line = Nothing /\ got = Nothing

Send ==
    /\ stage = "new" /\ ~FromAdapter /\ ~IsSetting /\ stage' = "sent"
    /\ line' = Encode(sender, ch, frame)
    /\ UNCHANGED <<frame, ch, sender, receiver, got>>

(* A report is sent with or without the prefix of channel 0, to a driver in *)
(* some state.                                                              *)
SendReport ==
    /\ stage = "new" /\ FromAdapter /\ stage' = "sent"
    /\ \E prefix \in {0, 1}, state \in States :
          /\ prefix = 0 => ch = 0
          /\ line' = [prefix |-> prefix, n |-> CmdLen(frame), state |-> state]
    /\ UNCHANGED <<frame, ch, sender, receiver, got>>

(* A command has the prefix that its sender's frames have. *)
SendSetting ==
    /\ stage = "new" /\ IsSetting /\ stage' = "sent"
    /\ line' = [prefix |-> IF sender \in {"kernel", "kernel68"} /\ ch = 0 THEN NoPrefix ELSE ch,
                 cmd |-> CommandOf(sender, frame)]
    /\ UNCHANGED <<frame, ch, sender, receiver, got>>

(* Bytes before the CR are lost, at most once: data, or the header too. *)
Uncut ==
    stage = "sent" /\ ~IsSetting /\ IF FromAdapter THEN line.n = CmdLen(frame) ELSE line = Encode(sender, ch, frame)
Cut ==
    /\ Uncut
    /\ IF FromAdapter THEN \E n \in 1..line.n - 1 : line' = [line EXCEPT !.n = n]
       ELSE \/ \E n \in 0..line.bytes - 1 : line' = [line EXCEPT !.bytes = n]
            \/ line' = [line EXCEPT !.bytes = 0, !.header = FALSE]
    /\ UNCHANGED <<frame, ch, sender, receiver, stage, got>>

Receive ==
    /\ stage = "sent" /\ ~FromAdapter /\ ~IsSetting /\ stage' = "read"
    /\ got' \in Decode(receiver, line)
    /\ UNCHANGED <<frame, ch, sender, receiver, line>>

ReceiveReport ==
    /\ stage = "sent" /\ FromAdapter
    /\ LET f == Bump(line.prefix, frame, line.n, line.state) IN
       \/ f = NoFrame /\ stage' = "read" /\ got' = Nothing
       \/ f # NoFrame /\ frame.cmd = "e" /\ stage' = "codes" /\ got' = [frame |-> f, next |-> 1]
       \/ f # NoFrame /\ frame.cmd # "e" /\ stage' = "read" /\ got' = CanErr(f)
    /\ UNCHANGED <<frame, ch, sender, receiver, line>>

(* A turn of slcan_bump_err's loop, which gives up at an unknown code; after *)
(* the last one the frame goes to netif_rx, and to canerr.                  *)
ReadCode ==
    /\ stage = "codes"
    /\ LET k == got.next IN
       \/ /\ k <= Len(frame.codes) /\ frame.codes[k] \in Codes /\ stage' = "codes"
          /\ got' = [frame |-> AddCode(got.frame, frame.codes[k]), next |-> k + 1]
       \/ k <= Len(frame.codes) /\ frame.codes[k] \notin Codes /\ stage' = "read" /\ got' = Nothing
       \/ k > Len(frame.codes) /\ stage' = "read" /\ got' = CanErr(got.frame)
    /\ UNCHANGED <<frame, ch, sender, receiver, line>>

ReadSetting ==
    /\ stage = "sent" /\ IsSetting /\ stage' = "read"
    /\ got' = IF line.cmd = NoCommand THEN Nothing
              ELSE [ch |-> ChannelOf(line), means |-> Meaning(line.cmd)]
    /\ UNCHANGED <<frame, ch, sender, receiver, line>>

Next ==
    \/ Send \/ SendReport \/ SendSetting
    \/ Cut \/ Receive \/ ReceiveReport \/ ReadCode \/ ReadSetting

Spec == Init /\ [][Next]_vars

---------------------------------------------------------------------------
(* Properties. *)

Delivered == stage \in {"codes", "read"} /\ got # Nothing
Whole ==
    IF FromAdapter THEN line.n = CmdLen(frame) ELSE line = Encode(sender, ch, frame)

(* A frame with a length its kind can have arrives as it was sent, on its   *)
(* channel, from any implementation at any other: all its data, or the dlc  *)
(* of a remote frame, which the C++ and Rust libraries do not keep.         *)
RoundTrip ==
    stage = "read" /\ receiver \in Impls /\ Whole /\ frame.len \notin OddLengths =>
        /\ got # Nothing
        /\ got.ch = ch /\ got.ext = frame.ext /\ got.kind = frame.kind
        /\ IF frame.kind = "remote"
           THEN got.data = 0 /\ got.len = (IF receiver \in {"cpp", "rust"} THEN 0 ELSE frame.len)
           ELSE got.data = frame.len /\ got.len = frame.len

(* No receiver delivers what the line did not carry, whether the line was   *)
(* cut or its dlc was rounded up by the sender: not more data, no frame     *)
(* whose header is lost, except a remote one that the kernel completes from *)
(* the line before, and no error frame for a part of a report.              *)
NothingInvented ==
    Delivered /\ ~IsSetting =>
        IF FromAdapter THEN Whole
        ELSE /\ got.data <= line.bytes
             /\ line.header \/ (receiver \in {"kernel", "kernel68"} /\ frame.kind = "remote")

(* What canerr should say of the codes of an e line: each is told, except   *)
(* that the later of "a" and "c" keeps the place and the later of "o" and   *)
(* "O" the overflow; a CRC error is also called a bit error.                *)
CodeName == [a |-> "AckError", b |-> "Bit0Error", B |-> "Bit1Error", c |-> "BitError",
             f |-> "FormatError", s |-> "StuffError"]
LaterOf(codes, x, y, X, Y) ==
    LET at == {i \in DOMAIN codes : codes[i] \in {x, y}}
    IN  IF at = {} THEN {}
        ELSE IF codes[CHOOSE i \in at : \A j \in at : j <= i] = x THEN {X} ELSE {Y}
ToldOfCodes(codes) ==
    {CodeName[codes[i]] : i \in {j \in DOMAIN codes : codes[j] \in DOMAIN CodeName}}
    \cup LaterOf(codes, "a", "c", "InAckSlot", "InCRC")
    \cup LaterOf(codes, "o", "O", "RxOverflow", "TxOverflow")

LastName == <<{"StuffError"}, {"FormatError"}, {"AckError", "InAckSlot"},
              {"Bit1Error"}, {"Bit0Error"}, {"InCRC"}, {}>>
ToldOfE(r) ==
    (IF r.last = 0 THEN {} ELSE LastName[r.last])
    \cup (IF r.fw \cap {1, 8} = {} THEN {} ELSE {"RxOverflow"})
    \cup (IF 4 \in r.fw THEN {"TxOverflow"} ELSE {})

ToldOfS(r) ==
    CASE r.state = "busoff" -> {"BusOff"}
      [] r.state = "passive" ->
            (IF r.tx >= r.rx THEN {"TxPassive"} ELSE {}) \cup (IF r.tx <= r.rx THEN {"RxPassive"} ELSE {})
      [] OTHER -> {}

(* Every report that arrives whole is told by canerr with its causes and no *)
(* others, and with its counters, modulo 256 in an s line and not at all in *)
(* one of bus-off.  Not told are: an e line of nine codes or with an        *)
(* unknown one, an s line that repeats the state, and the bus-off of an E   *)
(* line.  Nothing is promised of an e line so short that slcan_unesc does   *)
(* not look at it: DocumentedReports is about those.                        *)
ReportTold ==
    stage = "read" /\ FromAdapter /\ Whole =>
        CASE frame.cmd = "e" ->
                IF Len(frame.codes) = 9 \/ \E i \in DOMAIN frame.codes : frame.codes[i] = "?"
                THEN got = Nothing
                ELSE \/ got = Nothing /\ line.prefix + 2 + Len(frame.codes) <= 4
                     \/ got # Nothing /\ got.told = ToldOfCodes(frame.codes) /\ got.counters = <<>>
          [] frame.cmd = "E" -> got.told = ToldOfE(frame) /\ got.counters = <<frame.tx, frame.rx>>
          [] frame.cmd = "s" ->
                IF frame.state = line.state THEN got = Nothing
                ELSE /\ got.told = ToldOfS(frame)
                     /\ got.counters = IF frame.state = "busoff" THEN <<>>
                                       ELSE <<frame.tx % 256, frame.rx % 256>>

(* A command that slcandx's checks accept says what was set, on the channel *)
(* it was set for, whoever wrote it; one they do not accept, or none, is    *)
(* the answer only to a value outside their ranges and tables.  The data    *)
(* rates of a library are those of one digit here: from 10 Mbit/s on it     *)
(* writes two, which DocumentedRates is about.                              *)
CommandMeansSetting ==
    stage = "read" /\ IsSetting =>
        LET inKernel == sender \in {"kernel", "kernel68"}
        IN  IF got # Nothing /\ got.means # Invalid
            THEN got.ch = ch /\ got.means = frame
            ELSE CASE frame.what = "nominal" ->
                        IF inKernel THEN IndexIn(NominalTable, frame.value) = {} ELSE frame.value \notin 5..1000
                   [] frame.what = "data" ->
                        frame.value \notin {1000 * m : m \in (IF inKernel THEN (1..14) \cup {16} ELSE 1..9)}
                   [] OTHER -> frame.value \notin 750..875 \/ sender = "cs"

(* What the comments of the repository say is understood.  An e line of one *)
(* to eight known codes, as the example e1a (slcan-core.c:479), is told by  *)
(* canerr; a data rate of 1 to 15 Mbit/s, which the Python library says it  *)
(* supports (bus.py:259, 267), is the one that slcandx reads in its         *)
(* command.  Neither holds: slcan_unesc passes over short lines, and two    *)
(* decimal digits are not one hex digit.                                    *)
DocumentedReports ==
    /\ stage = "read" /\ FromAdapter /\ Whole
    /\ frame.cmd = "e" /\ frame.codes \in Seq(Codes) /\ Len(frame.codes) \in 1..8
    => got # Nothing
DocumentedRates ==
    /\ stage = "read" /\ IsSetting /\ sender = "py"
    /\ frame.what = "data" /\ frame.value \in {1000 * m : m \in 1..15}
    => got # Nothing /\ got.means = frame
UnderstoodAsDocumented == DocumentedReports /\ DocumentedRates

=============================================================================
