---------------------------- MODULE CodecProofs ----------------------------
(***************************************************************************)
(* The text of frames, reports and commands for every length, every        *)
(* sequence of codes, every counter, rate and sample point: whole lines    *)
(* mean the same to all implementations, damaged ones yield nothing that   *)
(* they did not carry, reports are told, and commands mean what was set.   *)
(***************************************************************************)
EXTENDS SlcanCodec, TLAPS

---------------------------------------------------------------------------
(* Letters and dlcs. *)

LEMMA FrameType ==
    ASSUME NEW f \in Frames
    PROVE  /\ f.ext \in BOOLEAN /\ f.kind \in Kinds /\ f.len \in 0..64
           /\ f.kind \in {"data", "remote"} => f.len \in ClassicLengths
           /\ f.len \notin OddLengths => f.len \in FdLengths
<1>1. OddLengths \subseteq (0..64) \ FdLengths
  BY CodecAssumption
<1>2. CASE f \in [ext: BOOLEAN, kind: {"data", "remote"}, len: ClassicLengths]
  <2>1. f.ext \in BOOLEAN /\ f.kind \in {"data", "remote"} /\ f.len \in ClassicLengths
    BY <1>2
  <2> QED
    BY <2>1 DEF Kinds, ClassicLengths, FdLengths
<1>3. CASE f \in [ext: BOOLEAN, kind: {"fd", "brs"}, len: FdLengths \cup OddLengths]
  <2>1. f.ext \in BOOLEAN /\ f.kind \in {"fd", "brs"} /\ f.len \in FdLengths \cup OddLengths
    BY <1>3
  <2>2. f.len \in 0..64
    <3>1. OddLengths \subseteq 0..64
      BY <1>1
    <3>2. FdLengths \subseteq 0..64
      BY DEF FdLengths, ClassicLengths
    <3> QED
      BY <2>1, <3>1, <3>2
  <2> QED
    BY <2>1, <2>2 DEF Kinds
<1> QED
  BY <1>2, <1>3 DEF Frames

(* The letter tells the kind of a frame and whether its identifier is an    *)
(* extended one.                                                            *)
LEMMA LetterTells ==
    ASSUME NEW f \in Frames
    PROVE  /\ Extended(Letter(f)) = f.ext
           /\ KindOf(Letter(f)) = f.kind
           /\ IsFd(Letter(f)) <=> f.kind \in {"fd", "brs"}
           /\ Remote(Letter(f)) <=> f.kind = "remote"
<1>1. /\ LowerCase["data"] = "t" /\ LowerCase["remote"] = "r"
      /\ LowerCase["fd"] = "d" /\ LowerCase["brs"] = "b"
      /\ UpperCase["data"] = "T" /\ UpperCase["remote"] = "R"
      /\ UpperCase["fd"] = "D" /\ UpperCase["brs"] = "B"
  BY DEF LowerCase, UpperCase, Kinds
<1>2. f.ext \in BOOLEAN /\ f.kind \in Kinds
  BY FrameType
<1>3. Letter(f) \in {LowerCase[f.kind], UpperCase[f.kind]}
  BY DEF Letter
<1>4. \A k \in Kinds : Letter(f) \in {LowerCase[k], UpperCase[k]} => k = f.kind
  BY <1>1, <1>2, <1>3 DEF Kinds
<1>5. KindOf(Letter(f)) = f.kind
  BY <1>2, <1>3, <1>4 DEF KindOf
<1> QED
  BY <1>1, <1>2, <1>5 DEF Letter, Extended, IsFd, Remote, Kinds

LEMMA DlcLens ==
    /\ \A d \in 0..8 : DlcLen[d] = d
    /\ DlcLen[9] = 12 /\ DlcLen[10] = 16 /\ DlcLen[11] = 20 /\ DlcLen[12] = 24
    /\ DlcLen[13] = 32 /\ DlcLen[14] = 48 /\ DlcLen[15] = 64
BY DEF DlcLen

(* Every length up to 64 has a dlc that holds it; one that a dlc can name   *)
(* has the dlc that does.                                                   *)
LEMMA DlcHolds ==
    ASSUME NEW n \in 0..64
    PROVE  /\ DlcOf(n) \in 0..15 /\ DlcLen[DlcOf(n)] \in 0..64
           /\ DlcLen[DlcOf(n)] >= n
           /\ n \in ClassicLengths => DlcOf(n) = n
           /\ n \in FdLengths => DlcLen[DlcOf(n)] = n
<1> DEFINE first(d) == DlcLen[d] >= n /\ \A e \in 0..15 : DlcLen[e] >= n => d <= e
<1>1. \A d \in 0..15 : d \in 0..8 \/ d \in {9, 10, 11, 12, 13, 14, 15}
  OBVIOUS
<1>2. DlcLen \in [0..15 -> 0..64]
  <2>1. \A d \in 0..15 : DlcLen[d] \in 0..64
    BY <1>1, DlcLens
  <2>2. DlcLen = [d \in 0..15 |-> DlcLen[d]]
    BY DEF DlcLen
  <2> QED
    BY <2>1, <2>2
<1>3. \A d, e \in 0..15 : d < e => DlcLen[d] < DlcLen[e]
  BY <1>1, DlcLens
<1>4. ASSUME NEW d \in 0..15, DlcLen[d] >= n, d > 0 => DlcLen[d - 1] < n
      PROVE  first(d)
  <2>1. ASSUME NEW e \in 0..15, DlcLen[e] >= n, e < d PROVE FALSE
    <3>1. d - 1 \in 0..15 /\ (e = d - 1 \/ e < d - 1) /\ d > 0
      BY <2>1
    <3>2. DlcLen[e] \in 0..64 /\ DlcLen[d - 1] \in 0..64
      BY <1>2, <3>1, <2>1
    <3>3. e < d - 1 => DlcLen[e] < DlcLen[d - 1]
      BY <1>3, <3>1
    <3>4. DlcLen[d - 1] < n
      BY <1>4, <3>1
    <3>5. e = d - 1 => DlcLen[e] = DlcLen[d - 1]
      OBVIOUS
    <3> QED
      BY <2>1, <3>1, <3>2, <3>3, <3>4, <3>5
  <2> QED
    BY <1>4, <2>1
<1>5. \E d \in 0..15 : DlcLen[d] >= n /\ (d > 0 => DlcLen[d - 1] < n)
  <2>1. CASE n \in 0..8
    <3>1. n > 0 => n - 1 \in 0..8
      BY <2>1
    <3> QED
      BY <2>1, <3>1, DlcLens
  <2>2. CASE n \in 9..12
    BY <2>2, DlcLens
  <2>3. CASE n \in 13..16
    BY <2>3, DlcLens
  <2>4. CASE n \in 17..20
    BY <2>4, DlcLens
  <2>5. CASE n \in 21..24
    BY <2>5, DlcLens
  <2>6. CASE n \in 25..32
    BY <2>6, DlcLens
  <2>7. CASE n \in 33..48
    BY <2>7, DlcLens
  <2>8. CASE n \in 49..64
    BY <2>8, DlcLens
  <2> QED
    BY <2>1, <2>2, <2>3, <2>4, <2>5, <2>6, <2>7, <2>8
<1>6. DlcOf(n) \in 0..15 /\ first(DlcOf(n))
  BY <1>4, <1>5 DEF DlcOf
<1>7. ASSUME NEW d \in 0..15, DlcLen[d] = n PROVE DlcOf(n) = d
  <2> DEFINE c == DlcOf(n)
  <2>1. c \in 0..15 /\ c <= d /\ DlcLen[c] >= DlcLen[d]
    BY <1>6, <1>7
  <2> HIDE DEF c
  <2>2. DlcLen[c] \in 0..64 /\ DlcLen[d] \in 0..64
    BY <1>2, <2>1
  <2>3. c < d => DlcLen[c] < DlcLen[d]
    BY <1>3, <2>1
  <2>4. ~(c < d)
    BY <2>1, <2>2, <2>3
  <2> QED
    BY <2>1, <2>4 DEF c
<1>8. n \in FdLengths => \E d \in 0..15 : DlcLen[d] = n
  BY DlcLens DEF FdLengths, ClassicLengths
<1>9. n \in ClassicLengths => DlcOf(n) = n
  BY <1>7, DlcLens DEF ClassicLengths
<1> QED
  BY <1>2, <1>6, <1>7, <1>8, <1>9

---------------------------------------------------------------------------
(* A frame's line. *)

(* What every line of the frame is, whole or cut: its channel, letter and   *)
(* dlc are the frame's.                                                     *)
FrameLine(l) ==
    /\ l \in [prefix: 0..NoPrefix, letter: {Letter(frame)}, dlc: {DlcOf(frame.len)},
              bytes: Nat, header: BOOLEAN]
    /\ ChannelOf(l) = ch

(* Whoever writes it, the line has all that follows its dlc.                *)
LEMMA EncodeIs ==
    ASSUME NEW impl \in Impls, NEW c \in Channels, NEW f \in Frames
    PROVE  \E p \in 0..NoPrefix, n \in 0..64 :
              /\ Encode(impl, c, f) = Line(p, f, n)
              /\ p = c \/ (p = NoPrefix /\ c = 0)
              /\ f.kind # "remote" => n = f.len
<1> USE FrameType DEF Payload
<1>1. c \in 0..NoPrefix /\ NoPrefix \in 0..NoPrefix /\ f.len \in 0..64 /\ 0 \in 0..64
  BY DEF Channels, NoPrefix
<1>2. Payload(f) \in 0..64 /\ (f.kind # "remote" => Payload(f) = f.len)
  BY <1>1
<1>3. CASE impl \in {"kernel", "kernel68"}
  <2>1. Encode(impl, c, f) = Line(IF c = 0 THEN NoPrefix ELSE c, f, Payload(f))
    BY <1>3 DEF Encode, KernelLine, Kernel68Line
  <2> QED
    BY <1>1, <1>2, <2>1
<1>4. CASE impl \in {"cpp", "rust", "py"}
  <2>1. Encode(impl, c, f) = Line(c, f, Payload(f))
    BY <1>4 DEF Encode, CppLine, RustLine, PyLine
  <2> QED
    BY <1>1, <1>2, <2>1
<1>5. CASE impl = "cs"
  <2>1. Encode(impl, c, f) = Line(c, f, f.len)
    BY <1>5 DEF Encode, CsLine
  <2> QED
    BY <1>1, <1>2, <2>1
<1> QED
  BY <1>3, <1>4, <1>5 DEF Impls

LEMMA EncodeHolds ==
    ASSUME frame \in Frames, ch \in Channels, sender \in Impls
    PROVE  /\ FrameLine(Encode(sender, ch, frame))
           /\ Encode(sender, ch, frame).header
           /\ frame.kind # "remote" => Encode(sender, ch, frame).bytes = frame.len
<1> DEFINE l == Encode(sender, ch, frame)
<1>1. PICK p \in 0..NoPrefix, n \in 0..64 :
         /\ l = Line(p, frame, n)
         /\ p = ch \/ (p = NoPrefix /\ ch = 0)
         /\ frame.kind # "remote" => n = frame.len
  BY EncodeIs
<1>2. l = [prefix |-> p, letter |-> Letter(frame), dlc |-> DlcOf(frame.len), bytes |-> n,
           header |-> TRUE]
  BY <1>1 DEF Line
<1>3. ChannelOf(l) = ch
  BY <1>1, <1>2 DEF ChannelOf, Channels, NoPrefix
<1> QED
  BY <1>1, <1>2, <1>3 DEF FrameLine

LEMMA CutHolds ==
    ASSUME NEW l, FrameLine(l)
    PROVE  /\ \A n \in 0..l.bytes - 1 : FrameLine([l EXCEPT !.bytes = n])
           /\ FrameLine([l EXCEPT !.bytes = 0, !.header = FALSE])
<1> USE DEF FrameLine, ChannelOf
<1>1. l.bytes \in Nat
  OBVIOUS
<1>2. ASSUME NEW n \in 0..l.bytes - 1 PROVE FrameLine([l EXCEPT !.bytes = n])
  <2>1. n \in Nat
    BY <1>1
  <2> QED
    BY <2>1
<1> QED
  BY <1>2

(* What a reader delivers of any line of the frame: nothing, or a frame of  *)
(* its channel and its kind with no more data than the line has, and        *)
(* nothing of a line without its header but what the kernel takes for a     *)
(* remote frame.                                                            *)
LEMMA DecodeBounds ==
    ASSUME frame \in Frames, NEW impl \in Impls, NEW l, FrameLine(l),
           NEW g \in Decode(impl, l), g # Nothing
    PROVE  /\ g.data <= l.bytes
           /\ l.header \/ (impl \in {"kernel", "kernel68"} /\ frame.kind = "remote")
<1>1. l.letter = Letter(frame) /\ l.dlc \in 0..15 /\ l.bytes \in Nat /\ l.header \in BOOLEAN
  BY FrameType, DlcHolds DEF FrameLine
<1>2. Remote(l.letter) <=> frame.kind = "remote"
  BY <1>1, LetterTells
<1>3. \A c, m, d : FrameOn(c, l, m, d).data = d
  BY DEF FrameOn
<1>4. DlcLen[l.dlc] \in 0..64
  BY <1>1, FrameType, DlcHolds DEF FrameLine
<1>5. BytesThere(l) <= l.bytes
  BY <1>1 DEF BytesThere
<1>6. ASSUME NEW c, g \in BumpFrame(c, l)
      PROVE  g.data <= l.bytes /\ (l.header \/ frame.kind = "remote")
  <2>1. CASE Remote(l.letter) /\ ~l.header
    BY <1>1, <1>2, <1>3, <1>6, <2>1 DEF BumpFrame
  <2>2. CASE Remote(l.letter) /\ l.header
    BY <1>1, <1>2, <1>3, <1>6, <2>2 DEF BumpFrame
  <2>3. CASE ~Remote(l.letter)
    BY <1>1, <1>3, <1>4, <1>6, <2>3 DEF BumpFrame, LongEnough
  <2> QED
    BY <1>1, <2>1, <2>2, <2>3
<1>7. \A c : BumpFrame(c, Moved(l)) = BumpFrame(c, l)
  <2>1. /\ Moved(l).letter = l.letter /\ Moved(l).dlc = l.dlc
        /\ Moved(l).bytes = l.bytes /\ Moved(l).header = l.header
    BY DEF Moved, FrameLine
  <2> QED
    BY <2>1 DEF BumpFrame, FrameOn, LongEnough
<1>8. CASE impl \in {"kernel", "kernel68"}
  BY <1>6, <1>7, <1>8 DEF Decode, KernelRead, Kernel68Read
<1>9. CASE impl \in {"cpp", "rust"}
  BY <1>3, <1>5, <1>9 DEF Decode, CppRead, RustRead, Frame, HeaderThere
<1>10. CASE impl = "cs"
  BY <1>1, <1>3, <1>4, <1>10 DEF Decode, CsRead, Frame, HeaderThere, LongEnough
<1>11. CASE impl = "py"
  BY <1>3, <1>5, <1>11 DEF Decode, PyRead, Frame, HeaderThere
<1> QED
  BY <1>8, <1>9, <1>10, <1>11 DEF Impls

(* What a reader delivers of a whole line: the frame.                       *)
LEMMA DecodeWhole ==
    ASSUME frame \in Frames, frame.len \notin OddLengths, ch \in Channels, sender \in Impls,
           NEW impl \in Impls, NEW g \in Decode(impl, Encode(sender, ch, frame))
    PROVE  /\ g # Nothing
           /\ g.ch = ch /\ g.ext = frame.ext /\ g.kind = frame.kind
           /\ IF frame.kind = "remote"
              THEN g.data = 0 /\ g.len = (IF impl \in {"cpp", "rust"} THEN 0 ELSE frame.len)
              ELSE g.data = frame.len /\ g.len = frame.len
<1> DEFINE l == Encode(sender, ch, frame)
<1>1. /\ FrameLine(l) /\ l.header
      /\ frame.kind # "remote" => l.bytes = frame.len
  BY EncodeHolds
<1> HIDE DEF l
<1>2. /\ l.letter = Letter(frame) /\ l.dlc = DlcOf(frame.len) /\ l.bytes \in Nat
      /\ ChannelOf(l) = ch
  BY <1>1 DEF FrameLine
<1>3. /\ frame.len \in 0..64 /\ frame.len \in FdLengths
      /\ frame.kind \in {"data", "remote"} => frame.len \in ClassicLengths
      /\ frame.kind \in Kinds
  BY FrameType
<1>4. /\ l.dlc \in 0..15 /\ DlcLen[l.dlc] = frame.len
      /\ frame.kind \in {"data", "remote"} => l.dlc = frame.len /\ ~(l.dlc > 8)
  <2>1. /\ l.dlc \in 0..15 /\ DlcLen[l.dlc] = frame.len
        /\ frame.kind \in {"data", "remote"} => l.dlc = frame.len
    BY <1>2, <1>3, DlcHolds
  <2>2. frame.kind \in {"data", "remote"} => ~(frame.len > 8)
    BY <1>3 DEF ClassicLengths
  <2> QED
    BY <2>1, <2>2
<1>5. /\ Extended(l.letter) = frame.ext /\ KindOf(l.letter) = frame.kind
      /\ IsFd(l.letter) <=> frame.kind \in {"fd", "brs"}
      /\ Remote(l.letter) <=> frame.kind = "remote"
  BY <1>2, LetterTells
<1> DEFINE is(x, len, data) == x = [ch |-> ch, ext |-> frame.ext, kind |-> frame.kind,
                                    len |-> len, data |-> data]
<1>6. \A n, d : is(FrameOn(ch, l, n, d), n, d) /\ is(Frame(l, n, d), n, d)
  BY <1>2, <1>5 DEF FrameOn, Frame
<1>7. frame.kind # "remote" => LongEnough(l)
  BY <1>1, <1>3, <1>4 DEF LongEnough
<1>8. \E n, d : /\ is(g, n, d)
                /\ frame.kind # "remote" => n = frame.len /\ d = frame.len
                /\ frame.kind = "remote" =>
                     d = 0 /\ n = (IF impl \in {"cpp", "rust"} THEN 0 ELSE frame.len)
  <2>1. CASE impl \in {"kernel", "kernel68"}
    <3>1. BumpFrame(ch, l) = {FrameOn(ch, l, frame.len, IF frame.kind = "remote" THEN 0 ELSE frame.len)}
      <4>1. CASE frame.kind = "remote"
        BY <1>1, <1>4, <1>5, <4>1 DEF BumpFrame
      <4>2. CASE frame.kind # "remote"
        <5>1. ~(l.dlc > 8 /\ ~IsFd(l.letter))
          BY <1>3, <1>4, <1>5, <4>2 DEF Kinds
        <5> QED
          BY <1>1, <1>4, <1>5, <1>7, <4>2, <5>1 DEF BumpFrame
      <4> QED
        BY <4>1, <4>2
    <3>2. BumpFrame(ch, Moved(l)) = BumpFrame(ch, l)
      <4>1. /\ Moved(l).letter = l.letter /\ Moved(l).dlc = l.dlc
            /\ Moved(l).bytes = l.bytes /\ Moved(l).header = l.header
        BY <1>1 DEF Moved, FrameLine
      <4> QED
        BY <4>1 DEF BumpFrame, FrameOn, LongEnough
    <3>3. g = FrameOn(ch, l, frame.len, IF frame.kind = "remote" THEN 0 ELSE frame.len)
      BY <1>2, <2>1, <3>1, <3>2 DEF Decode, KernelRead, Kernel68Read, l
    <3> QED
      BY <1>6, <2>1, <3>3
  <2>2. CASE impl \in {"cpp", "rust"}
    <3>1. g = Frame(l, BytesThere(l), BytesThere(l))
      BY <1>1, <2>2 DEF Decode, CppRead, RustRead, HeaderThere, l
    <3>2. BytesThere(l) = IF frame.kind = "remote" THEN 0 ELSE frame.len
      BY <1>1, <1>5 DEF BytesThere
    <3> QED
      BY <1>6, <2>2, <3>1, <3>2
  <2>3. CASE impl = "cs"
    <3>1. g = Frame(l, frame.len, IF frame.kind = "remote" THEN 0 ELSE frame.len)
      BY <1>1, <1>4, <1>5, <1>7, <2>3 DEF Decode, CsRead, HeaderThere, l
    <3> QED
      BY <1>6, <2>3, <3>1
  <2>4. CASE impl = "py"
    <3>1. g = Frame(l, frame.len, BytesThere(l))
      BY <1>1, <1>4, <2>4 DEF Decode, PyRead, HeaderThere, l
    <3>2. BytesThere(l) = IF frame.kind = "remote" THEN 0 ELSE frame.len
      BY <1>1, <1>5 DEF BytesThere
    <3> QED
      BY <1>6, <2>4, <3>1, <3>2
  <2> QED
    BY <2>1, <2>2, <2>3, <2>4 DEF Impls
<1>9. frame.kind # "nothing"
  BY <1>3 DEF Kinds
<1> QED
  BY <1>8, <1>9 DEF Nothing

---------------------------------------------------------------------------
(* The commands. *)

LEMMA NominalRate ==
    \A i \in 0..8 : NominalTable[i] = <<10, 20, 50, 100, 125, 250, 500, 800, 1000>>[i + 1]
BY DEF NominalTable

LEMMA DataRate == \A i \in 0..15 : DataTable[i] = IF i = 15 THEN 16000 ELSE 1000 * i
BY DEF DataTable

LEMMA SettingType ==
    ASSUME NEW s \in Settings
    PROVE  /\ s.what \in {"nominal", "data", "sample", "dataSample"} /\ s.value \in Nat
           /\ s = [what |-> s.what, value |-> s.value]
BY RatesAssumption DEF Settings

(* What slcandx makes of a command with each letter.                        *)
LEMMA MeaningS ==
    ASSUME NEW c, c.letter = "S", c.chars = 1, c.value \in 0..8
    PROVE  Meaning(c) = [what |-> "nominal", value |-> NominalTable[c.value]]
BY DEF Meaning

LEMMA Meaningy ==
    ASSUME NEW c, c.letter = "y"
    PROVE  Meaning(c) = IF c.value \in 5..1000 THEN [what |-> "nominal", value |-> c.value]
                        ELSE Invalid
BY DEF Meaning

LEMMA MeaningY ==
    ASSUME NEW c, c.letter = "Y", c.value \in 0..15
    PROVE  Meaning(c) =
             IF c.chars = 1
             THEN [what |-> "data", value |-> IF c.value = 15 THEN 16000 ELSE 1000 * c.value]
             ELSE Invalid
BY DEF Meaning, FdSpeedValid, FdSpeed

LEMMA MeaningP ==
    ASSUME NEW c, c.letter \in {"p", "P"}
    PROVE  Meaning(c) =
             IF c.value \in 750..875
             THEN [what |-> IF c.letter = "p" THEN "sample" ELSE "dataSample", value |-> c.value]
             ELSE Invalid
<1>1. CASE c.letter = "p"
  BY <1>1 DEF Meaning
<1>2. CASE c.letter = "P"
  BY <1>2 DEF Meaning
<1> QED
  BY <1>1, <1>2

LEMMA CommandIs ==
    ASSUME NEW letter, NEW n
    PROVE  /\ Decimal(letter, n).letter = letter /\ Decimal(letter, n).value = n
           /\ Decimal(letter, n).chars = IF n < 10 THEN 1 ELSE 2
           /\ Hex(letter, n).letter = letter /\ Hex(letter, n).value = n
           /\ Hex(letter, n).chars = IF n < 16 THEN 1 ELSE 2
           /\ letter # "none" => Decimal(letter, n) # NoCommand /\ Hex(letter, n) # NoCommand
BY DEF Decimal, Hex, NoCommand

(* A command says what was set, or says nothing.                            *)
Tells(c, s) == c # NoCommand /\ Meaning(c) = s /\ Meaning(c) # Invalid
TellsNothing(c) == c = NoCommand \/ Meaning(c) = Invalid

LEMMA NotInvalid == ASSUME NEW s \in Settings PROVE s # Invalid
<1>1. s.what # "invalid"
  BY SettingType
<1> QED
  BY <1>1 DEF Invalid

LEMMA NominalTells ==
    ASSUME NEW s \in Settings, s.what = "nominal", NEW i \in IndexIn(NominalTable, s.value)
    PROVE  Tells(Decimal("S", i), s)
<1> DEFINE c == Decimal("S", i)
<1>1. i \in 0..8 /\ NominalTable[i] = s.value
  BY DEF IndexIn, NominalTable
<1>2. c.letter = "S" /\ c.value = i /\ c.chars = 1 /\ c # NoCommand
  BY <1>1, CommandIs
<1> HIDE DEF c
<1>3. Meaning(c) = [what |-> "nominal", value |-> s.value]
  BY <1>1, <1>2, MeaningS
<1> QED
  BY <1>2, <1>3, SettingType, NotInvalid DEF Tells, c

LEMMA PlainNominal ==
    ASSUME NEW s \in Settings, s.what = "nominal"
    PROVE  IF s.value \in 5..1000 THEN Tells(Decimal("y", s.value), s)
           ELSE TellsNothing(Decimal("y", s.value))
<1> DEFINE c == Decimal("y", s.value)
<1>1. s.value \in Nat
  BY SettingType
<1>2. c.letter = "y" /\ c.value = s.value /\ c # NoCommand
  BY CommandIs
<1> HIDE DEF c
<1>3. Meaning(c) =
        IF s.value \in 5..1000 THEN [what |-> "nominal", value |-> s.value] ELSE Invalid
  BY <1>2, Meaningy
<1> QED
  BY <1>2, <1>3, SettingType, NotInvalid DEF Tells, TellsNothing, c

LEMMA DataTells ==
    ASSUME NEW s \in Settings, s.what = "data", NEW i \in IndexIn(DataTable, s.value)
    PROVE  /\ i \in 0..15 /\ s.value = (IF i = 15 THEN 16000 ELSE 1000 * i)
           /\ Tells(Hex("Y", i), s)
           /\ i < 10 => Tells(Decimal("Y", i), s)
<1>1. i \in 0..15 /\ s.value = (IF i = 15 THEN 16000 ELSE 1000 * i)
  BY DataRate DEF IndexIn, DataTable
<1>2. ASSUME NEW c, c.letter = "Y", c.value = i, c.chars = 1, c # NoCommand
      PROVE  Tells(c, s)
  <2>1. Meaning(c) = [what |-> "data", value |-> s.value]
    BY <1>1, <1>2, MeaningY
  <2> QED
    BY <1>2, <2>1, SettingType, NotInvalid DEF Tells
<1>3. Tells(Hex("Y", i), s)
  BY <1>1, <1>2, CommandIs
<1>4. i < 10 => Tells(Decimal("Y", i), s)
  BY <1>1, <1>2, CommandIs
<1> QED
  BY <1>1, <1>3, <1>4

LEMMA TwoDigits ==
    ASSUME NEW i \in 10..15
    PROVE  TellsNothing(Decimal("Y", i))
<1> DEFINE c == Decimal("Y", i)
<1>1. c.letter = "Y" /\ c.value = i /\ c.chars = 2
  BY CommandIs
<1> HIDE DEF c
<1> QED
  BY <1>1, MeaningY DEF TellsNothing, c

LEMMA SampleTells ==
    ASSUME NEW s \in Settings, s.what \in {"sample", "dataSample"}, NEW n \in Nat,
           NEW v \in Nat, s.value = v, n = v \/ (v > 1000 /\ n = 1000)
    PROVE  IF v \in 750..875 THEN Tells(Decimal(SampleLetter(s), n), s)
           ELSE TellsNothing(Decimal(SampleLetter(s), n))
<1> DEFINE c == Decimal(SampleLetter(s), n)
<1>1. s = [what |-> s.what, value |-> v]
  BY SettingType
<1>2. SampleLetter(s) = IF s.what = "sample" THEN "p" ELSE "P"
  BY DEF SampleLetter
<1>3. c.letter = SampleLetter(s) /\ c.value = n /\ c # NoCommand
  BY <1>2, CommandIs
<1> HIDE DEF c
<1>4. Meaning(c) = IF n \in 750..875 THEN [what |-> s.what, value |-> n] ELSE Invalid
  <2>1. CASE s.what = "sample"
    BY <1>2, <1>3, <2>1, MeaningP
  <2>2. CASE s.what = "dataSample"
    BY <1>2, <1>3, <2>2, MeaningP
  <2> QED
    BY <2>1, <2>2
<1>5. n \in 750..875 <=> v \in 750..875
  OBVIOUS
<1>6. n \in 750..875 => n = v
  OBVIOUS
<1> QED
  BY <1>1, <1>3, <1>4, <1>5, <1>6, NotInvalid DEF Tells, TellsNothing, c

(* The values that a sender can set at all.                                 *)
Settable(impl, s) ==
    CASE s.what = "nominal" ->
            IF impl \in {"kernel", "kernel68"} THEN IndexIn(NominalTable, s.value) # {}
            ELSE s.value \in 5..1000
      [] s.what = "data" ->
            s.value \in {1000 * m : m \in (IF impl \in {"kernel", "kernel68"} THEN (1..14) \cup {16} ELSE 1..9)}
      [] OTHER -> s.value \in 750..875 /\ impl # "cs"

(* The commands that an implementation has for a setting, of which it sends *)
(* one.                                                                     *)
LEMMA CommandFrom ==
    ASSUME NEW impl \in Impls, NEW s,
           NEW cmds,
           impl \in {"kernel", "kernel68"} => cmds = KernelCommand(s),
           impl = "cpp" => cmds = CppCommand(s),
           impl \in {"rust", "py"} => cmds = ScriptCommand(s),
           impl = "cs" => cmds = CsCommand(s)
    PROVE  IF cmds = {} THEN CommandOf(impl, s) = NoCommand ELSE CommandOf(impl, s) \in cmds
<1>1. CommandOf(impl, s) = IF cmds = {} THEN NoCommand ELSE CHOOSE c \in cmds : TRUE
  <2>1. CASE impl = "kernel"
    BY <2>1 DEF CommandOf
  <2>2. CASE impl = "kernel68"
    BY <2>2 DEF CommandOf
  <2>3. CASE impl = "cpp"
    BY <2>3 DEF CommandOf
  <2>4. CASE impl = "rust"
    BY <2>4 DEF CommandOf
  <2>5. CASE impl = "py"
    BY <2>5 DEF CommandOf
  <2>6. CASE impl = "cs"
    BY <2>6 DEF CommandOf
  <2> QED
    BY <2>1, <2>2, <2>3, <2>4, <2>5, <2>6 DEF Impls
<1>2. cmds # {} => (CHOOSE c \in cmds : TRUE) \in cmds
  OBVIOUS
<1> QED
  BY <1>1, <1>2

LEMMA NominalMeans ==
    ASSUME NEW impl \in Impls, NEW s \in Settings, s.what = "nominal"
    PROVE  \/ Tells(CommandOf(impl, s), s)
           \/ TellsNothing(CommandOf(impl, s)) /\ ~Settable(impl, s)
<1> DEFINE indices == IndexIn(NominalTable, s.value)
           cmds == {Decimal("S", i) : i \in indices}
           c == CommandOf(impl, s)
<1>1. \A x \in cmds : Tells(x, s)
  BY NominalTells
<1>2. CASE impl \in {"kernel", "kernel68"}
  <2>1. KernelCommand(s) = cmds
    BY DEF KernelCommand
  <2>2. IF cmds = {} THEN c = NoCommand ELSE c \in cmds
    BY <1>2, <2>1, CommandFrom
  <2>3. indices # {} => cmds # {}
    OBVIOUS
  <2> QED
    BY <1>1, <1>2, <2>2, <2>3 DEF TellsNothing, Settable
<1>3. CASE impl \in {"cpp", "rust", "py"}
  <2>1. CppCommand(s) = LibNominal(s) /\ ScriptCommand(s) = LibNominal(s)
    BY DEF CppCommand, ScriptCommand
  <2>2. IF LibNominal(s) = {} THEN c = NoCommand ELSE c \in LibNominal(s)
    BY <1>3, <2>1, CommandFrom
  <2>3. CASE indices = {}
    <3>1. LibNominal(s) = {Decimal("y", s.value)}
      BY <2>3 DEF LibNominal
    <3>2. c = Decimal("y", s.value)
      BY <2>2, <3>1
    <3> QED
      BY <1>3, <3>2, PlainNominal DEF Settable
  <2>4. CASE indices # {}
    <3>1. LibNominal(s) = cmds /\ cmds # {}
      BY <2>4 DEF LibNominal
    <3> QED
      BY <1>1, <2>2, <3>1
  <2> QED
    BY <2>3, <2>4
<1>4. CASE impl = "cs"
  <2>1. CsCommand(s) = {Decimal("y", s.value)}
    BY DEF CsCommand
  <2>2. IF CsCommand(s) = {} THEN c = NoCommand ELSE c \in CsCommand(s)
    BY <1>4, CommandFrom
  <2>3. c = Decimal("y", s.value)
    BY <2>1, <2>2
  <2> QED
    BY <1>4, <2>3, PlainNominal DEF Settable
<1> QED
  BY <1>2, <1>3, <1>4 DEF Impls

LEMMA IndexOfRate ==
    ASSUME NEW v \in Nat, NEW i \in 0..15, v # 0
    PROVE  i \in IndexIn(DataTable, v) <=> v = (IF i = 15 THEN 16000 ELSE 1000 * i)
<1>1. DOMAIN DataTable = 0..15
  BY DEF DataTable
<1> QED
  BY <1>1, DataRate DEF IndexIn

LEMMA DataMeans ==
    ASSUME NEW impl \in Impls, NEW s \in Settings, s.what = "data"
    PROVE  \/ Tells(CommandOf(impl, s), s)
           \/ TellsNothing(CommandOf(impl, s)) /\ ~Settable(impl, s)
<1> DEFINE c == CommandOf(impl, s)
           v == s.value
           indices == IndexIn(DataTable, v)
<1>1. v \in Nat
  BY SettingType
<1>2. \A m \in Nat \ {0} : 1000 * m # 0
  OBVIOUS
<1>3. CASE impl \in {"kernel", "kernel68"}
  <2> DEFINE cmds == {Hex("Y", i) : i \in indices}
  <2>1. KernelCommand(s) = cmds
    BY DEF KernelCommand, KernelDataCmd
  <2>2. IF cmds = {} THEN c = NoCommand ELSE c \in cmds
    BY <1>3, <2>1, CommandFrom
  <2>3. ASSUME indices = {}, NEW m \in (1..14) \cup {16}, v = 1000 * m PROVE FALSE
    <3> DEFINE i == IF m = 16 THEN 15 ELSE m
    <3>1. i \in 0..15 /\ v # 0 /\ v = (IF i = 15 THEN 16000 ELSE 1000 * i)
      BY <2>3
    <3> HIDE DEF i
    <3> QED
      BY <1>1, <2>3, <3>1, IndexOfRate
  <2>4. \A x \in cmds : Tells(x, s)
    BY DataTells
  <2>5. CASE indices = {}
    <3>1. c = NoCommand
      BY <2>2, <2>5
    <3> QED
      BY <1>3, <2>3, <2>5, <3>1 DEF TellsNothing, Settable
  <2>6. CASE indices # {}
    BY <2>2, <2>4, <2>6
  <2> QED
    BY <2>5, <2>6
<1>4. CASE impl \in {"cpp", "rust", "py", "cs"}
  <2>1. PICK own \in SUBSET (0..15) :
           LET cmds == {Decimal("Y", i) : i \in own} IN
           /\ IF cmds = {} THEN c = NoCommand ELSE c \in cmds
           /\ \A i \in own : v # 0 /\ (v = 1000 * i \/ (i = 15 /\ v = 16000))
           /\ \A i \in 1..9 : v = 1000 * i => i \in own
    <3>1. CASE impl = "cs"
      <4>1. CsCommand(s) = {Decimal("Y", i) : i \in indices}
        BY DEF CsCommand
      <4>2. LET cmds == {Decimal("Y", i) : i \in indices}
            IN  IF cmds = {} THEN c = NoCommand ELSE c \in cmds
        BY <3>1, <4>1, CommandFrom
      <4>3. indices \in SUBSET (0..15) /\ \A i \in indices : v # 0
        <5>1. DOMAIN DataTable = 0..15
          BY DEF DataTable
        <5> QED
          BY <5>1 DEF IndexIn
      <4>4. ASSUME NEW i \in indices PROVE v = 1000 * i \/ (i = 15 /\ v = 16000)
        <5>1. i \in 0..15 /\ v # 0
          BY <4>3
        <5>2. v = (IF i = 15 THEN 16000 ELSE 1000 * i)
          BY <1>1, <5>1, IndexOfRate
        <5> QED
          BY <5>2
      <4>5. ASSUME NEW i \in 1..9, v = 1000 * i PROVE i \in indices
        <5>1. i \in 0..15 /\ v # 0 /\ i # 15
          BY <4>5
        <5> QED
          BY <1>1, <4>5, <5>1, IndexOfRate
      <4> QED
        BY <4>2, <4>3, <4>4, <4>5
    <3>2. CASE impl \in {"cpp", "rust", "py"}
      <4> DEFINE own == {n \in 1..15 : v = 1000 * n}
      <4>1. LibData(s) = {Decimal("Y", i) : i \in own}
        BY DEF LibData
      <4>2. CppCommand(s) = LibData(s) /\ ScriptCommand(s) = LibData(s)
        BY DEF CppCommand, ScriptCommand
      <4>3. IF LibData(s) = {} THEN c = NoCommand ELSE c \in LibData(s)
        BY <3>2, <4>2, CommandFrom
      <4>4. own \in SUBSET (0..15)
        OBVIOUS
      <4>5. \A i \in own : v # 0 /\ v = 1000 * i
        OBVIOUS
      <4>6. \A i \in 1..9 : v = 1000 * i => i \in own
        OBVIOUS
      <4>7. LET cmds == {Decimal("Y", i) : i \in own}
            IN  IF cmds = {} THEN c = NoCommand ELSE c \in cmds
        BY <4>1, <4>3
      <4> HIDE DEF own, c
      <4> QED
        BY <4>4, <4>5, <4>6, <4>7
    <3> QED
      BY <1>4, <3>1, <3>2
  <2>2. CASE own = {}
    <3>1. c = NoCommand
      BY <2>1, <2>2
    <3>2. \A m \in 1..9 : v # 1000 * m
      BY <2>1, <2>2
    <3> QED
      BY <1>4, <3>1, <3>2 DEF TellsNothing, Settable
  <2>3. CASE own # {}
    <3>1. PICK i \in own : c = Decimal("Y", i)
      BY <2>1, <2>3
    <3>2. i \in 0..15 /\ v # 0 /\ (v = 1000 * i \/ (i = 15 /\ v = 16000))
      BY <2>1
    <3>3. CASE i < 10
      <4>1. v = (IF i = 15 THEN 16000 ELSE 1000 * i)
        BY <3>2, <3>3
      <4>2. i \in indices
        BY <1>1, <3>2, <4>1, IndexOfRate
      <4> QED
        BY <3>1, <3>3, <4>2, DataTells
    <3>4. CASE ~(i < 10)
      <4>1. i \in 10..15
        BY <3>2, <3>4
      <4>2. \A m \in 1..9 : v # 1000 * m
        BY <3>2, <4>1
      <4>3. TellsNothing(c)
        BY <3>1, <4>1, TwoDigits
      <4>4. ~Settable(impl, s)
        BY <1>4, <4>2 DEF Settable
      <4> QED
        BY <4>3, <4>4
    <3> QED
      BY <3>3, <3>4
  <2> QED
    BY <2>2, <2>3
<1> QED
  BY <1>3, <1>4 DEF Impls

LEMMA SampleMeans ==
    ASSUME NEW impl \in Impls, NEW s \in Settings, s.what \in {"sample", "dataSample"}
    PROVE  \/ Tells(CommandOf(impl, s), s)
           \/ TellsNothing(CommandOf(impl, s)) /\ ~Settable(impl, s)
<1> DEFINE c == CommandOf(impl, s)
           v == s.value
           cmd(n) == Decimal(SampleLetter(s), n)
<1>1. v \in Nat
  BY SettingType
<1>2. Clamped(v) \in Nat /\ (Clamped(v) = v \/ (v > 1000 /\ Clamped(v) = 1000))
  BY <1>1 DEF Clamped
<1>3. Settable(impl, s) <=> v \in 750..875 /\ impl # "cs"
  <2>1. CASE s.what = "sample"
    BY <2>1 DEF Settable
  <2>2. CASE s.what = "dataSample"
    BY <2>2 DEF Settable
  <2> QED
    BY <2>1, <2>2
<1>4. \/ c = NoCommand /\ (v = 0 \/ impl = "cs")
      \/ impl # "cs" /\ (c = cmd(v) \/ c = cmd(Clamped(v)))
  <2>1. CASE impl \in {"kernel", "kernel68"}
    <3>1. KernelCommand(s) = IF v = 0 THEN {} ELSE {cmd(Clamped(v))}
      BY DEF KernelCommand
    <3>2. IF KernelCommand(s) = {} THEN c = NoCommand ELSE c \in KernelCommand(s)
      BY <2>1, CommandFrom
    <3> QED
      BY <2>1, <3>1, <3>2
  <2>2. CASE impl = "cpp"
    <3>1. CppCommand(s) = IF v = 0 THEN {} ELSE {cmd(v)}
      BY DEF CppCommand
    <3>2. IF CppCommand(s) = {} THEN c = NoCommand ELSE c \in CppCommand(s)
      BY <2>2, CommandFrom
    <3> QED
      BY <2>2, <3>1, <3>2
  <2>3. CASE impl \in {"rust", "py"}
    <3>1. ScriptCommand(s) = {cmd(v)}
      BY DEF ScriptCommand
    <3>2. IF ScriptCommand(s) = {} THEN c = NoCommand ELSE c \in ScriptCommand(s)
      BY <2>3, CommandFrom
    <3> QED
      BY <2>3, <3>1, <3>2
  <2>4. CASE impl = "cs"
    <3>1. CsCommand(s) = {}
      BY DEF CsCommand
    <3>2. IF CsCommand(s) = {} THEN c = NoCommand ELSE c \in CsCommand(s)
      BY <2>4, CommandFrom
    <3> QED
      BY <2>4, <3>1, <3>2
  <2> QED
    BY <2>1, <2>2, <2>3, <2>4 DEF Impls
<1> HIDE DEF c, cmd
<1>5. CASE c = NoCommand /\ (v = 0 \/ impl = "cs")
  BY <1>1, <1>3, <1>5 DEF TellsNothing, c
<1>6. ASSUME impl # "cs", NEW n \in Nat, n = v \/ (v > 1000 /\ n = 1000), c = cmd(n)
      PROVE  Tells(c, s) \/ (TellsNothing(c) /\ ~Settable(impl, s))
  <2>1. s.value = v
    OBVIOUS
  <2> HIDE DEF v
  <2>2. IF v \in 750..875 THEN Tells(cmd(n), s) ELSE TellsNothing(cmd(n))
    BY <1>1, <1>6, <2>1, SampleTells DEF cmd
  <2> QED
    BY <1>3, <1>6, <2>2
<1> QED
  BY <1>1, <1>2, <1>4, <1>5, <1>6 DEF c

(* A command says what was set, or the value cannot be set.                 *)
LEMMA CommandMeans ==
    ASSUME NEW impl \in Impls, NEW s \in Settings
    PROVE  \/ Tells(CommandOf(impl, s), s)
           \/ TellsNothing(CommandOf(impl, s)) /\ ~Settable(impl, s)
BY SettingType, NominalMeans, DataMeans, SampleMeans

---------------------------------------------------------------------------
(* The reports. *)

(* What canerr prints, message by message.                                  *)
Says(f, m) ==
    \/ m = "BusOff" /\ "BUSOFF" \in f.id
    \/ m = "RxOverflow" /\ "CRTL" \in f.id /\ "RX_OVERFLOW" \in f.ctrl
    \/ m = "TxOverflow" /\ "CRTL" \in f.id /\ "TX_OVERFLOW" \in f.ctrl
    \/ m = "RxPassive" /\ "CRTL" \in f.id /\ "RX_PASSIVE" \in f.ctrl
    \/ m = "TxPassive" /\ "CRTL" \in f.id /\ "TX_PASSIVE" \in f.ctrl
    \/ m = "BitError" /\ "PROT" \in f.id /\ "BIT" \in f.prot
    \/ m = "FormatError" /\ "PROT" \in f.id /\ "FORM" \in f.prot
    \/ m = "StuffError" /\ "PROT" \in f.id /\ "STUFF" \in f.prot
    \/ m = "Bit0Error" /\ "PROT" \in f.id /\ "BIT0" \in f.prot
    \/ m = "Bit1Error" /\ "PROT" \in f.id /\ "BIT1" \in f.prot
    \/ m = "AckError" /\ "PROT" \in f.id /\ "ACK" \in f.id
    \/ m = "InCRC" /\ "PROT" \in f.id /\ f.loc = "crc"
    \/ m = "InAckSlot" /\ "PROT" \in f.id /\ f.loc = "ack"

LEMMA PrintedNames ==
    /\ DOMAIN PrintedCtrl = {"RX_OVERFLOW", "TX_OVERFLOW", "RX_PASSIVE", "TX_PASSIVE"}
    /\ PrintedCtrl["RX_OVERFLOW"] = "RxOverflow" /\ PrintedCtrl["TX_OVERFLOW"] = "TxOverflow"
    /\ PrintedCtrl["RX_PASSIVE"] = "RxPassive" /\ PrintedCtrl["TX_PASSIVE"] = "TxPassive"
    /\ DOMAIN PrintedProt = {"BIT", "FORM", "STUFF", "BIT0", "BIT1"}
    /\ PrintedProt["BIT"] = "BitError" /\ PrintedProt["FORM"] = "FormatError"
    /\ PrintedProt["STUFF"] = "StuffError"
    /\ PrintedProt["BIT0"] = "Bit0Error" /\ PrintedProt["BIT1"] = "Bit1Error"
BY DEF PrintedCtrl, PrintedProt

LEMMA UnderIs ==
    ASSUME NEW flag, NEW f, NEW set, NEW m
    PROVE  m \in Under(flag, f, set) <=> flag \in f.id /\ m \in set
BY DEF Under

LEMMA PrintedIs ==
    ASSUME NEW f, NEW m
    PROVE  m \in Printed(f) <=> Says(f, m)
<1> DEFINE ctrl == {PrintedCtrl[c] : c \in f.ctrl \cap DOMAIN PrintedCtrl}
           prot == {PrintedProt[p] : p \in f.prot \cap DOMAIN PrintedProt}
           loc == CASE f.loc = "crc" -> {"InCRC"} [] f.loc = "ack" -> {"InAckSlot"} [] OTHER -> {}
<1>1. m \in ctrl <=>
        \/ m = "RxOverflow" /\ "RX_OVERFLOW" \in f.ctrl
        \/ m = "TxOverflow" /\ "TX_OVERFLOW" \in f.ctrl
        \/ m = "RxPassive" /\ "RX_PASSIVE" \in f.ctrl
        \/ m = "TxPassive" /\ "TX_PASSIVE" \in f.ctrl
  BY PrintedNames
<1>2. m \in prot <=>
        \/ m = "BitError" /\ "BIT" \in f.prot
        \/ m = "FormatError" /\ "FORM" \in f.prot
        \/ m = "StuffError" /\ "STUFF" \in f.prot
        \/ m = "Bit0Error" /\ "BIT0" \in f.prot
        \/ m = "Bit1Error" /\ "BIT1" \in f.prot
  BY PrintedNames
<1>3. m \in loc <=> (m = "InCRC" /\ f.loc = "crc") \/ (m = "InAckSlot" /\ f.loc = "ack")
  OBVIOUS
<1>4. m \in Printed(f) <=>
        \/ "BUSOFF" \in f.id /\ m = "BusOff"
        \/ "CRTL" \in f.id /\ m \in ctrl
        \/ "PROT" \in f.id /\ m \in prot
        \/ "PROT" \in f.id /\ "ACK" \in f.id /\ m = "AckError"
        \/ "PROT" \in f.id /\ m \in loc
  BY UnderIs DEF Printed, Under
<1> HIDE DEF ctrl, prot, loc
<1> QED
  BY <1>1, <1>2, <1>3, <1>4 DEF Says

(* The codes of an e line that say x, and the last that says x or y.        *)
Has(codes, n, x) == \E i \in 1..n : codes[i] = x
Last(codes, n, x, y) ==
    \E i \in 1..n : codes[i] = x /\ \A j \in 1..n : codes[j] \in {x, y} => j <= i

LEMMA HasNext ==
    ASSUME NEW codes, NEW n \in Nat, NEW x
    PROVE  Has(codes, n + 1, x) <=> Has(codes, n, x) \/ codes[n + 1] = x
BY DEF Has

LEMMA LastNext ==
    ASSUME NEW codes, NEW n \in Nat, NEW x, NEW y, x # y
    PROVE  Last(codes, n + 1, x, y) <=>
             codes[n + 1] = x \/ (codes[n + 1] # y /\ Last(codes, n, x, y))
<1>1. CASE codes[n + 1] = x
  <2>1. n + 1 \in 1..n + 1 /\ \A j \in 1..n + 1 : j <= n + 1
    OBVIOUS
  <2> QED
    BY <1>1, <2>1 DEF Last
<1>2. CASE codes[n + 1] = y
  <2>1. ASSUME NEW i \in 1..n + 1, codes[i] = x, \A j \in 1..n + 1 : codes[j] \in {x, y} => j <= i
        PROVE  FALSE
    <3>1. n + 1 <= i
      BY <1>2, <2>1
    <3>2. i = n + 1
      BY <3>1
    <3> QED
      BY <1>2, <2>1, <3>2
  <2> QED
    BY <1>2, <2>1 DEF Last
<1>3. CASE codes[n + 1] \notin {x, y}
  <2>1. \A i \in 1..n + 1 : i \in 1..n \/ i = n + 1
    OBVIOUS
  <2>2. \A i \in 1..n : i \in 1..n + 1
    OBVIOUS
  <2>3. ASSUME Last(codes, n + 1, x, y) PROVE Last(codes, n, x, y)
    <3>1. PICK i \in 1..n + 1 : codes[i] = x /\ \A j \in 1..n + 1 : codes[j] \in {x, y} => j <= i
      BY <2>3 DEF Last
    <3>2. i \in 1..n
      BY <1>3, <2>1, <3>1
    <3> QED
      BY <2>2, <3>1, <3>2 DEF Last
  <2>4. ASSUME Last(codes, n, x, y) PROVE Last(codes, n + 1, x, y)
    <3>1. PICK i \in 1..n : codes[i] = x /\ \A j \in 1..n : codes[j] \in {x, y} => j <= i
      BY <2>4 DEF Last
    <3>2. \A j \in 1..n + 1 : codes[j] \in {x, y} => j <= i
      BY <1>3, <2>1, <3>1
    <3> QED
      BY <2>2, <3>1, <3>2 DEF Last
  <2> QED
    BY <1>3, <2>3, <2>4
<1> QED
  BY <1>1, <1>2, <1>3

(* Error frames as slcan_bump_err can have them, and what the first n codes *)
(* of an e line make of the empty one.                                      *)
ErrorFrame ==
    [id: SUBSET {"PROT", "BUSERROR", "ACK", "CRTL"}, ctrl: SUBSET {"RX_OVERFLOW", "TX_OVERFLOW"},
     prot: SUBSET {"BIT", "FORM", "STUFF", "BIT0", "BIT1"}, loc: {"none", "ack", "crc"},
     tx: {0}, rx: {0}]

Made(f, codes, n) ==
    /\ f \in ErrorFrame
    /\ "PROT" \in f.id
    /\ "ACK" \in f.id <=> Has(codes, n, "a")
    /\ "CRTL" \in f.id <=> Last(codes, n, "o", "O") \/ Last(codes, n, "O", "o")
    /\ "RX_OVERFLOW" \in f.ctrl <=> Last(codes, n, "o", "O")
    /\ "TX_OVERFLOW" \in f.ctrl <=> Last(codes, n, "O", "o")
    /\ "BIT" \in f.prot <=> Has(codes, n, "c")
    /\ "FORM" \in f.prot <=> Has(codes, n, "f")
    /\ "STUFF" \in f.prot <=> Has(codes, n, "s")
    /\ "BIT0" \in f.prot <=> Has(codes, n, "b")
    /\ "BIT1" \in f.prot <=> Has(codes, n, "B")
    /\ f.loc = "ack" <=> Last(codes, n, "a", "c")
    /\ f.loc = "crc" <=> Last(codes, n, "c", "a")

(* Of two codes one is the last, if there is any: the loop sees to it.      *)
Ordered(codes, n) ==
    /\ Has(codes, n, "a") \/ Has(codes, n, "c") => Last(codes, n, "a", "c") \/ Last(codes, n, "c", "a")
    /\ Has(codes, n, "o") \/ Has(codes, n, "O") => Last(codes, n, "o", "O") \/ Last(codes, n, "O", "o")

LEMMA BusErrorIs ==
    /\ BusError \in ErrorFrame
    /\ BusError.id = {"PROT", "BUSERROR"} /\ BusError.ctrl = {} /\ BusError.prot = {}
    /\ BusError.loc = "none" /\ BusError.tx = 0 /\ BusError.rx = 0
BY DEF BusError, NoError, ErrorFrame

LEMMA NoneRead ==
    ASSUME NEW codes
    PROVE  Made(BusError, codes, 0) /\ Ordered(codes, 0)
<1>1. \A x, y : ~Has(codes, 0, x) /\ ~Last(codes, 0, x, y)
  BY DEF Has, Last
<1> QED
  BY <1>1, BusErrorIs DEF Made, Ordered

LEMMA AddCodeIs ==
    ASSUME NEW f \in ErrorFrame, NEW c \in Codes
    PROVE  LET g == AddCode(f, c) IN
           /\ g \in ErrorFrame
           /\ g.id = f.id \cup (IF c = "a" THEN {"ACK"} ELSE {})
                          \cup (IF c \in {"o", "O"} THEN {"CRTL"} ELSE {})
           /\ g.ctrl = IF c = "o" THEN {"RX_OVERFLOW"} ELSE IF c = "O" THEN {"TX_OVERFLOW"} ELSE f.ctrl
           /\ g.prot = f.prot \cup (IF c = "c" THEN {"BIT"} ELSE {}) \cup (IF c = "f" THEN {"FORM"} ELSE {})
                              \cup (IF c = "s" THEN {"STUFF"} ELSE {})
                              \cup (IF c = "b" THEN {"BIT0"} ELSE {}) \cup (IF c = "B" THEN {"BIT1"} ELSE {})
           /\ g.loc = IF c = "a" THEN "ack" ELSE IF c = "c" THEN "crc" ELSE f.loc
<1>1. /\ ProtFlag["b"] = "BIT0" /\ ProtFlag["B"] = "BIT1" /\ ProtFlag["c"] = "BIT"
      /\ ProtFlag["f"] = "FORM" /\ ProtFlag["s"] = "STUFF"
  BY DEF ProtFlag
<1>2. CASE c = "a"
  BY <1>2 DEF AddCode, ErrorFrame
<1>3. CASE c = "c"
  BY <1>3 DEF AddCode, ErrorFrame
<1>4. CASE c = "o"
  BY <1>4 DEF AddCode, ErrorFrame
<1>5. CASE c = "O"
  BY <1>5 DEF AddCode, ErrorFrame
<1>6. CASE c \in {"b", "B", "f", "s"}
  <2>1. AddCode(f, c) = [f EXCEPT !.prot = @ \cup {ProtFlag[c]}]
    BY <1>6 DEF AddCode
  <2>2. CASE c = "b"
    BY <1>1, <2>1, <2>2 DEF ErrorFrame
  <2>3. CASE c = "B"
    BY <1>1, <2>1, <2>3 DEF ErrorFrame
  <2>4. CASE c = "f"
    BY <1>1, <2>1, <2>4 DEF ErrorFrame
  <2>5. CASE c = "s"
    BY <1>1, <2>1, <2>5 DEF ErrorFrame
  <2> QED
    BY <1>6, <2>2, <2>3, <2>4, <2>5
<1> QED
  BY <1>2, <1>3, <1>4, <1>5, <1>6 DEF Codes

(* One turn of the loop.                                                    *)
LEMMA OneMore ==
    ASSUME NEW codes, NEW n \in Nat, NEW f, Made(f, codes, n), Ordered(codes, n),
           codes[n + 1] \in Codes
    PROVE  Made(AddCode(f, codes[n + 1]), codes, n + 1) /\ Ordered(codes, n + 1)
<1> DEFINE c == codes[n + 1]
           g == AddCode(f, c)
<1>1. /\ g \in ErrorFrame
      /\ g.id = f.id \cup (IF c = "a" THEN {"ACK"} ELSE {})
                     \cup (IF c \in {"o", "O"} THEN {"CRTL"} ELSE {})
      /\ g.ctrl = IF c = "o" THEN {"RX_OVERFLOW"} ELSE IF c = "O" THEN {"TX_OVERFLOW"} ELSE f.ctrl
      /\ g.prot = f.prot \cup (IF c = "c" THEN {"BIT"} ELSE {}) \cup (IF c = "f" THEN {"FORM"} ELSE {})
                         \cup (IF c = "s" THEN {"STUFF"} ELSE {})
                         \cup (IF c = "b" THEN {"BIT0"} ELSE {}) \cup (IF c = "B" THEN {"BIT1"} ELSE {})
      /\ g.loc = IF c = "a" THEN "ack" ELSE IF c = "c" THEN "crc" ELSE f.loc
  BY AddCodeIs DEF Made
<1>2. \A x : Has(codes, n + 1, x) <=> Has(codes, n, x) \/ c = x
  BY HasNext
<1>3. \A x, y : x # y => (Last(codes, n + 1, x, y) <=> c = x \/ (c # y /\ Last(codes, n, x, y)))
  BY LastNext
<1> HIDE DEF c, g
<1>4. Made(f, codes, n) /\ Ordered(codes, n)
  OBVIOUS
<1>5. "PROT" \in g.id
  BY <1>1, <1>4 DEF Made
<1>6. "ACK" \in g.id <=> Has(codes, n + 1, "a")
  BY <1>1, <1>2, <1>4 DEF Made
<1>7. "CRTL" \in g.id <=> Last(codes, n + 1, "o", "O") \/ Last(codes, n + 1, "O", "o")
  BY <1>1, <1>3, <1>4 DEF Made
<1>8. /\ "RX_OVERFLOW" \in g.ctrl <=> Last(codes, n + 1, "o", "O")
      /\ "TX_OVERFLOW" \in g.ctrl <=> Last(codes, n + 1, "O", "o")
  BY <1>1, <1>3, <1>4 DEF Made
<1>9. /\ "BIT" \in g.prot <=> Has(codes, n + 1, "c")
      /\ "FORM" \in g.prot <=> Has(codes, n + 1, "f")
      /\ "STUFF" \in g.prot <=> Has(codes, n + 1, "s")
      /\ "BIT0" \in g.prot <=> Has(codes, n + 1, "b")
      /\ "BIT1" \in g.prot <=> Has(codes, n + 1, "B")
  BY <1>1, <1>2, <1>4 DEF Made
<1>10. /\ g.loc = "ack" <=> Last(codes, n + 1, "a", "c")
       /\ g.loc = "crc" <=> Last(codes, n + 1, "c", "a")
  BY <1>1, <1>3, <1>4 DEF Made
<1>11. Made(g, codes, n + 1)
  BY <1>1, <1>5, <1>6, <1>7, <1>8, <1>9, <1>10 DEF Made
<1>12. Ordered(codes, n + 1)
  BY <1>2, <1>3, <1>4 DEF Ordered
<1> QED
  BY <1>11, <1>12 DEF c, g

(* What should be said of codes, in the same words.                         *)
LEMMA LaterIs ==
    ASSUME NEW codes, NEW n \in Nat, DOMAIN codes = 1..n, NEW x, NEW y, x # y, NEW X, NEW Y,
           Has(codes, n, x) \/ Has(codes, n, y) => Last(codes, n, x, y) \/ Last(codes, n, y, x)
    PROVE  LaterOf(codes, x, y, X, Y) =
             IF Last(codes, n, x, y) THEN {X} ELSE IF Last(codes, n, y, x) THEN {Y} ELSE {}
<1> DEFINE at == {i \in DOMAIN codes : codes[i] \in {x, y}}
           last == CHOOSE i \in at : \A j \in at : j <= i
<1>1. LaterOf(codes, x, y, X, Y) = IF at = {} THEN {} ELSE IF codes[last] = x THEN {X} ELSE {Y}
  BY DEF LaterOf
<1>2. ASSUME NEW z \in {x, y}, NEW u \in {x, y}, z # u, Last(codes, n, z, u)
      PROVE  at # {} /\ codes[last] = z
  <2>1. {z, u} = {x, y}
    BY <1>2
  <2>2. PICK i \in 1..n : codes[i] = z /\ \A j \in 1..n : codes[j] \in {z, u} => j <= i
    BY <1>2 DEF Last
  <2>3. i \in at /\ \A j \in at : j <= i
    BY <2>1, <2>2
  <2>4. at \subseteq Nat
    OBVIOUS
  <2>5. last \in at /\ \A j \in at : j <= last
    BY <2>3
  <2>6. last = i
    <3>1. last <= i /\ i <= last /\ i \in Nat /\ last \in Nat
      BY <2>3, <2>4, <2>5
    <3> HIDE DEF last
    <3> QED
      BY <3>1
  <2> QED
    BY <2>2, <2>3, <2>6
<1>3. CASE Last(codes, n, x, y)
  BY <1>1, <1>2, <1>3
<1>4. CASE ~Last(codes, n, x, y) /\ Last(codes, n, y, x)
  <2>1. at # {} /\ codes[last] = y
    BY <1>2, <1>4
  <2> QED
    BY <1>1, <1>4, <2>1
<1>5. CASE ~Last(codes, n, x, y) /\ ~Last(codes, n, y, x)
  <2>1. at = {}
    BY <1>5 DEF Has
  <2> QED
    BY <1>1, <1>5, <2>1
<1> QED
  BY <1>3, <1>4, <1>5

LEMMA ToldOfCodesIs ==
    ASSUME NEW codes, NEW n \in Nat, DOMAIN codes = 1..n, Ordered(codes, n), NEW m
    PROVE  m \in ToldOfCodes(codes) <=>
             \/ m = "AckError" /\ Has(codes, n, "a")
             \/ m = "Bit0Error" /\ Has(codes, n, "b")
             \/ m = "Bit1Error" /\ Has(codes, n, "B")
             \/ m = "BitError" /\ Has(codes, n, "c")
             \/ m = "FormatError" /\ Has(codes, n, "f")
             \/ m = "StuffError" /\ Has(codes, n, "s")
             \/ m = "InAckSlot" /\ Last(codes, n, "a", "c")
             \/ m = "InCRC" /\ ~Last(codes, n, "a", "c") /\ Last(codes, n, "c", "a")
             \/ m = "RxOverflow" /\ Last(codes, n, "o", "O")
             \/ m = "TxOverflow" /\ ~Last(codes, n, "o", "O") /\ Last(codes, n, "O", "o")
<1> DEFINE named == {CodeName[codes[i]] : i \in {j \in DOMAIN codes : codes[j] \in DOMAIN CodeName}}
<1>1. /\ DOMAIN CodeName = {"a", "b", "B", "c", "f", "s"}
      /\ CodeName["a"] = "AckError" /\ CodeName["b"] = "Bit0Error" /\ CodeName["B"] = "Bit1Error"
      /\ CodeName["c"] = "BitError" /\ CodeName["f"] = "FormatError" /\ CodeName["s"] = "StuffError"
  BY DEF CodeName
<1>2. m \in named <=>
        \E i \in 1..n : codes[i] \in {"a", "b", "B", "c", "f", "s"} /\ m = CodeName[codes[i]]
  BY <1>1
<1>3. m \in named <=>
        \/ m = "AckError" /\ Has(codes, n, "a")
        \/ m = "Bit0Error" /\ Has(codes, n, "b")
        \/ m = "Bit1Error" /\ Has(codes, n, "B")
        \/ m = "BitError" /\ Has(codes, n, "c")
        \/ m = "FormatError" /\ Has(codes, n, "f")
        \/ m = "StuffError" /\ Has(codes, n, "s")
  BY <1>1, <1>2 DEF Has
<1>4. LaterOf(codes, "a", "c", "InAckSlot", "InCRC") =
        IF Last(codes, n, "a", "c") THEN {"InAckSlot"}
        ELSE IF Last(codes, n, "c", "a") THEN {"InCRC"} ELSE {}
  BY LaterIs DEF Ordered
<1>5. LaterOf(codes, "o", "O", "RxOverflow", "TxOverflow") =
        IF Last(codes, n, "o", "O") THEN {"RxOverflow"}
        ELSE IF Last(codes, n, "O", "o") THEN {"TxOverflow"} ELSE {}
  BY LaterIs DEF Ordered
<1>6. ToldOfCodes(codes) =
        named \cup LaterOf(codes, "a", "c", "InAckSlot", "InCRC")
              \cup LaterOf(codes, "o", "O", "RxOverflow", "TxOverflow")
  BY DEF ToldOfCodes
<1> HIDE DEF named
<1> QED
  BY <1>3, <1>4, <1>5, <1>6

(* An e line that was read to its end is told.                              *)
LEMMA CodesTold ==
    ASSUME NEW codes, NEW n \in Nat, DOMAIN codes = 1..n, NEW f,
           Made(f, codes, n), Ordered(codes, n)
    PROVE  CanErr(f).told = ToldOfCodes(codes) /\ CanErr(f).counters = <<>>
<1>1. f \in ErrorFrame /\ "BUSOFF" \notin f.id /\ "CNT" \notin f.id
      /\ "RX_PASSIVE" \notin f.ctrl /\ "TX_PASSIVE" \notin f.ctrl
  BY DEF Made, ErrorFrame
<1>2. ASSUME NEW m PROVE m \in Printed(f) <=> m \in ToldOfCodes(codes)
  <2>1. m \in Printed(f) <=> Says(f, m)
    BY PrintedIs
  <2>2. ~(Last(codes, n, "a", "c") /\ Last(codes, n, "c", "a"))
    BY DEF Made
  <2>3. ~(Last(codes, n, "o", "O") /\ Last(codes, n, "O", "o"))
    <3>1. ASSUME NEW i \in 1..n, NEW k \in 1..n, codes[i] = "o", codes[k] = "O",
                 \A j \in 1..n : codes[j] \in {"o", "O"} => j <= i,
                 \A j \in 1..n : codes[j] \in {"O", "o"} => j <= k
          PROVE  FALSE
      <4>1. i <= k /\ k <= i
        BY <3>1
      <4>2. i = k
        BY <4>1
      <4> QED
        BY <3>1, <4>2
    <3> QED
      BY <3>1 DEF Last
  <2> QED
    BY <1>1, <2>1, <2>2, <2>3, ToldOfCodesIs DEF Made, Says
<1>3. Printed(f) = ToldOfCodes(codes)
  BY <1>2
<1> QED
  BY <1>1, <1>3 DEF CanErr, Counters

LEMMA ReportType ==
    ASSUME NEW r \in Reports
    PROVE  /\ r.cmd \in {"e", "E", "s"}
           /\ r.cmd = "e" => r.codes \in CodeSeqs
           /\ r.cmd = "E" => /\ r.state \in States /\ r.last \in 0..7 /\ r.fw \in SUBSET {1, 4, 8}
                             /\ r.tx \in 0..255 /\ r.rx \in 0..255
           /\ r.cmd = "s" => r.state \in States /\ r.tx \in 0..999 /\ r.rx \in 0..999
<1> DEFINE bytes == 0..255
           decimals == 0..999
<1>1. ByteCounts \subseteq bytes /\ DecimalCounts \subseteq decimals
  BY CodecAssumption
<1> HIDE DEF bytes, decimals
<1>2. CASE r \in [cmd: {"e"}, codes: CodeSeqs]
  BY <1>2
<1>3. CASE r \in [cmd: {"E"}, state: States, last: 0..7, fw: SUBSET {1, 4, 8}, tx: ByteCounts, rx: ByteCounts]
  <2>1. r.cmd = "E" /\ r.state \in States /\ r.last \in 0..7 /\ r.fw \in SUBSET {1, 4, 8}
    BY <1>3
  <2>2. r.tx \in ByteCounts /\ r.rx \in ByteCounts
    BY <1>3
  <2>3. r.tx \in bytes /\ r.rx \in bytes
    BY <1>1, <2>2
  <2> QED
    BY <2>1, <2>3 DEF bytes
<1>4. CASE r \in [cmd: {"s"}, state: States, tx: DecimalCounts, rx: DecimalCounts]
  <2>1. r.cmd = "s" /\ r.state \in States /\ r.tx \in DecimalCounts /\ r.rx \in DecimalCounts
    BY <1>4
  <2>2. r.tx \in decimals /\ r.rx \in decimals
    BY <1>1, <2>1
  <2> QED
    BY <2>1, <2>2 DEF decimals
<1> QED
  BY <1>2, <1>3, <1>4 DEF Reports, bytes, decimals

LEMMA CodesType ==
    ASSUME NEW codes \in CodeSeqs
    PROVE  Len(codes) \in 0..9 /\ DOMAIN codes = 1..Len(codes)
<1>1. codes \in Seq(Codes \cup {"?"}) /\ Len(codes) <= 9
  BY CodecAssumption
<1>2. Len(codes) \in Nat /\ DOMAIN codes = 1..Len(codes)
  BY <1>1
<1>3. \A n \in Nat : n <= 9 => n \in 0..9
  OBVIOUS
<1> QED
  BY <1>1, <1>2, <1>3, Zenon

LEMMA StateNames == States = {"active", "warning", "passive", "busoff"}
<1>1. \A i \in 1..4 : i = 1 \/ i = 2 \/ i = 3 \/ i = 4
  OBVIOUS
<1>2. Levels[1] = "active" /\ Levels[2] = "warning" /\ Levels[3] = "passive" /\ Levels[4] = "busoff"
  BY DEF Levels
<1>3. 1 \in 1..4 /\ 2 \in 1..4 /\ 3 \in 1..4 /\ 4 \in 1..4
  OBVIOUS
<1> QED
  BY <1>1, <1>2, <1>3 DEF States

(* The frame of an E line.                                                  *)
LEMMA ProtocolIs ==
    ASSUME NEW last \in 0..7
    PROVE  LET f == ProtocolError(BusError, last) IN
           /\ f \in ErrorFrame
           /\ f.id = IF last = 3 THEN {"PROT", "BUSERROR", "ACK"} ELSE {"PROT", "BUSERROR"}
           /\ f.ctrl = {}
           /\ f.prot = CASE last = 1 -> {"STUFF"} [] last = 2 -> {"FORM"} [] last = 4 -> {"BIT1"}
                         [] last = 5 -> {"BIT0"} [] OTHER -> {}
           /\ f.loc = IF last = 3 THEN "ack" ELSE IF last = 6 THEN "crc" ELSE "none"
<1> DEFINE f == ProtocolError(BusError, last)
<1>1. /\ Protocol[1] = "s" /\ Protocol[2] = "f" /\ Protocol[3] = "a"
      /\ Protocol[4] = "B" /\ Protocol[5] = "b"
  BY DEF Protocol
<1>2. CASE last \in 1..5
  <2>1. f = AddCode(BusError, Protocol[last])
    BY <1>2 DEF ProtocolError
  <2>2. Protocol[last] \in Codes
    BY <1>1, <1>2 DEF Codes
  <2>3. CASE last = 1
    BY <1>1, <2>1, <2>2, <2>3, BusErrorIs, AddCodeIs
  <2>4. CASE last = 2
    BY <1>1, <2>1, <2>2, <2>4, BusErrorIs, AddCodeIs
  <2>5. CASE last = 3
    BY <1>1, <2>1, <2>2, <2>5, BusErrorIs, AddCodeIs
  <2>6. CASE last = 4
    BY <1>1, <2>1, <2>2, <2>6, BusErrorIs, AddCodeIs
  <2>7. CASE last = 5
    BY <1>1, <2>1, <2>2, <2>7, BusErrorIs, AddCodeIs
  <2> QED
    BY <1>2, <2>3, <2>4, <2>5, <2>6, <2>7
<1>3. CASE last = 6
  <2>1. f = [BusError EXCEPT !.loc = "crc"]
    BY <1>3 DEF ProtocolError
  <2> QED
    BY <1>3, <2>1, BusErrorIs DEF ErrorFrame
<1>4. CASE last \in {0, 7}
  <2>1. f = BusError
    BY <1>4 DEF ProtocolError
  <2> QED
    BY <1>4, <2>1, BusErrorIs
<1> QED
  BY <1>2, <1>3, <1>4

LEMMA FirmwareIs ==
    ASSUME NEW f \in ErrorFrame, NEW fw \in SUBSET {1, 4, 8}
    PROVE  LET g == FirmwareErrors(f, fw) IN
           /\ g \in ErrorFrame
           /\ g.id = f.id \cup (IF fw \cap {1, 4, 8} # {} THEN {"CRTL"} ELSE {})
           /\ g.ctrl = f.ctrl \cup (IF fw \cap {1, 8} # {} THEN {"RX_OVERFLOW"} ELSE {})
                              \cup (IF 4 \in fw THEN {"TX_OVERFLOW"} ELSE {})
           /\ g.prot = f.prot /\ g.loc = f.loc
BY DEF FirmwareErrors, ErrorFrame

LEMMA BumpErrNewIs ==
    ASSUME NEW r \in Reports, r.cmd = "E"
    PROVE  LET g == BumpErrNew(r)
               f == ProtocolError(BusError, r.last)
           IN
           /\ g.id = f.id \cup (IF r.fw \cap {1, 4, 8} # {} THEN {"CRTL"} ELSE {}) \cup {"CNT"}
           /\ g.ctrl = (IF r.fw \cap {1, 8} # {} THEN {"RX_OVERFLOW"} ELSE {})
                       \cup (IF 4 \in r.fw THEN {"TX_OVERFLOW"} ELSE {})
           /\ g.prot = f.prot /\ g.loc = f.loc /\ g.tx = r.tx /\ g.rx = r.rx
<1> DEFINE f == ProtocolError(BusError, r.last)
           h == FirmwareErrors(f, r.fw)
           g == BumpErrNew(r)
<1>1. r.last \in 0..7 /\ r.fw \in SUBSET {1, 4, 8}
  BY ReportType
<1>2. f \in ErrorFrame /\ f.ctrl = {}
  BY <1>1, ProtocolIs
<1>3. /\ h \in ErrorFrame
      /\ h.id = f.id \cup (IF r.fw \cap {1, 4, 8} # {} THEN {"CRTL"} ELSE {})
      /\ h.ctrl = f.ctrl \cup (IF r.fw \cap {1, 8} # {} THEN {"RX_OVERFLOW"} ELSE {})
                         \cup (IF 4 \in r.fw THEN {"TX_OVERFLOW"} ELSE {})
      /\ h.prot = f.prot /\ h.loc = f.loc
  BY <1>1, <1>2, FirmwareIs
<1>4. g = [h EXCEPT !.id = @ \cup {"CNT"}, !.tx = r.tx, !.rx = r.rx]
  BY DEF BumpErrNew
<1> HIDE DEF h, g
<1>5. /\ g.id = h.id \cup {"CNT"} /\ g.ctrl = h.ctrl /\ g.prot = h.prot /\ g.loc = h.loc
      /\ g.tx = r.tx /\ g.rx = r.rx
  BY <1>3, <1>4 DEF ErrorFrame
<1> HIDE DEF f
<1> QED
  BY <1>2, <1>3, <1>5 DEF f, g

LEMMA ETold ==
    ASSUME NEW r \in Reports, r.cmd = "E"
    PROVE  CanErr(BumpErrNew(r)).told = ToldOfE(r) /\ CanErr(BumpErrNew(r)).counters = <<r.tx, r.rx>>
<1> DEFINE f == ProtocolError(BusError, r.last)
           g == BumpErrNew(r)
<1>1. r.last \in 0..7 /\ r.fw \in SUBSET {1, 4, 8}
  BY ReportType
<1>2. /\ f.id = IF r.last = 3 THEN {"PROT", "BUSERROR", "ACK"} ELSE {"PROT", "BUSERROR"}
      /\ f.prot = CASE r.last = 1 -> {"STUFF"} [] r.last = 2 -> {"FORM"} [] r.last = 4 -> {"BIT1"}
                    [] r.last = 5 -> {"BIT0"} [] OTHER -> {}
      /\ f.loc = IF r.last = 3 THEN "ack" ELSE IF r.last = 6 THEN "crc" ELSE "none"
  BY <1>1, ProtocolIs
<1>3. /\ g.id = f.id \cup (IF r.fw \cap {1, 4, 8} # {} THEN {"CRTL"} ELSE {}) \cup {"CNT"}
      /\ g.ctrl = (IF r.fw \cap {1, 8} # {} THEN {"RX_OVERFLOW"} ELSE {})
                  \cup (IF 4 \in r.fw THEN {"TX_OVERFLOW"} ELSE {})
      /\ g.prot = f.prot /\ g.loc = f.loc /\ g.tx = r.tx /\ g.rx = r.rx
  BY BumpErrNewIs
<1> HIDE DEF f, g
<1> DEFINE named(m) ==
             \/ m = "StuffError" /\ r.last = 1
             \/ m = "FormatError" /\ r.last = 2
             \/ m \in {"AckError", "InAckSlot"} /\ r.last = 3
             \/ m = "Bit1Error" /\ r.last = 4
             \/ m = "Bit0Error" /\ r.last = 5
             \/ m = "InCRC" /\ r.last = 6
           overflow(m) ==
             \/ m = "RxOverflow" /\ r.fw \cap {1, 8} # {}
             \/ m = "TxOverflow" /\ 4 \in r.fw
<1>4. ASSUME NEW m PROVE m \in Printed(g) <=> named(m) \/ overflow(m)
  <2>1. m \in Printed(g) <=> Says(g, m)
    BY PrintedIs
  <2>2. "PROT" \in g.id /\ "BUSOFF" \notin g.id
    BY <1>2, <1>3
  <2>3. "ACK" \in g.id <=> r.last = 3
    BY <1>2, <1>3
  <2>4. "CRTL" \in g.id <=> r.fw \cap {1, 8} # {} \/ 4 \in r.fw
    BY <1>2, <1>3
  <2>5. /\ "RX_OVERFLOW" \in g.ctrl <=> r.fw \cap {1, 8} # {}
        /\ "TX_OVERFLOW" \in g.ctrl <=> 4 \in r.fw
        /\ "RX_PASSIVE" \notin g.ctrl /\ "TX_PASSIVE" \notin g.ctrl
    BY <1>3
  <2>6. /\ "STUFF" \in g.prot <=> r.last = 1
        /\ "FORM" \in g.prot <=> r.last = 2
        /\ "BIT1" \in g.prot <=> r.last = 4
        /\ "BIT0" \in g.prot <=> r.last = 5
        /\ "BIT" \notin g.prot
    BY <1>1, <1>2, <1>3
  <2>7. (g.loc = "ack" <=> r.last = 3) /\ (g.loc = "crc" <=> r.last = 6)
    BY <1>1, <1>2, <1>3
  <2> QED
    BY <2>1, <2>2, <2>3, <2>4, <2>5, <2>6, <2>7 DEF Says
<1>5. ASSUME NEW m PROVE m \in ToldOfE(r) <=> named(m) \/ overflow(m)
  <2>1. /\ LastName[1] = {"StuffError"} /\ LastName[2] = {"FormatError"}
        /\ LastName[3] = {"AckError", "InAckSlot"} /\ LastName[4] = {"Bit1Error"}
        /\ LastName[5] = {"Bit0Error"} /\ LastName[6] = {"InCRC"} /\ LastName[7] = {}
    BY DEF LastName
  <2>2. m \in (IF r.last = 0 THEN {} ELSE LastName[r.last]) <=> named(m)
    <3>1. \/ r.last = 0 \/ r.last = 1 \/ r.last = 2 \/ r.last = 3
          \/ r.last = 4 \/ r.last = 5 \/ r.last = 6 \/ r.last = 7
      BY <1>1
    <3> QED
      BY <2>1, <3>1
  <2>3. m \in (IF r.fw \cap {1, 8} = {} THEN {} ELSE {"RxOverflow"})
              \cup (IF 4 \in r.fw THEN {"TxOverflow"} ELSE {}) <=> overflow(m)
    OBVIOUS
  <2> HIDE DEF named, overflow
  <2> QED
    BY <2>2, <2>3 DEF ToldOfE
<1> HIDE DEF named, overflow
<1>6. Printed(g) = ToldOfE(r)
  BY <1>4, <1>5
<1>7. "CNT" \in g.id
  BY <1>3
<1> QED
  BY <1>3, <1>6, <1>7 DEF CanErr, Counters, g

(* The frame of an s line.                                                  *)
LEMMA BumpStateIs ==
    ASSUME NEW r \in Reports, r.cmd = "s"
    PROVE  LET g == BumpState(r) IN
           IF r.state = "busoff" THEN g.id = {"BUSOFF"}
           ELSE /\ g.id = {"CRTL", "CNT"}
                /\ g.ctrl = (IF r.tx >= r.rx THEN {TxFlag[r.state]} ELSE {})
                            \cup (IF r.tx <= r.rx THEN {RxFlag[r.state]} ELSE {})
                /\ g.tx = r.tx % 256 /\ g.rx = r.rx % 256
<1> DEFINE ctrl == (IF r.tx >= r.rx THEN {TxFlag[r.state]} ELSE {})
                   \cup (IF r.tx <= r.rx THEN {RxFlag[r.state]} ELSE {})
           g == BumpState(r)
<1>1. CASE r.state = "busoff"
  <2>1. g = [NoError EXCEPT !.id = {"BUSOFF"}]
    BY <1>1 DEF BumpState, ChangeState
  <2> QED
    BY <1>1, <2>1 DEF NoError
<1>2. CASE r.state # "busoff"
  <2> DEFINE f == [NoError EXCEPT !.id = {"CRTL"}, !.ctrl = ctrl]
  <2>1. ChangeState(r) = f
    BY <1>2 DEF ChangeState
  <2>2. g = [f EXCEPT !.id = @ \cup {"CNT"}, !.tx = r.tx % 256, !.rx = r.rx % 256]
    BY <1>2, <2>1 DEF BumpState
  <2> HIDE DEF ctrl
  <2>3. /\ f \in [id: {{"CRTL"}}, ctrl: {ctrl}, prot: {{}}, loc: {"none"}, tx: {0}, rx: {0}]
        /\ f.id = {"CRTL"} /\ f.ctrl = ctrl
    BY DEF NoError
  <2> DEFINE tx == r.tx % 256
             rx == r.rx % 256
  <2>4. g = [f EXCEPT !.id = @ \cup {"CNT"}, !.tx = tx, !.rx = rx]
    BY <2>2
  <2> HIDE DEF f, g, tx, rx
  <2>5. g.id = f.id \cup {"CNT"} /\ g.ctrl = f.ctrl /\ g.tx = tx /\ g.rx = rx
    BY <2>3, <2>4
  <2>6. g.id = {"CRTL", "CNT"} /\ g.ctrl = ctrl
    BY <2>3, <2>5
  <2> QED
    BY <1>2, <2>5, <2>6 DEF ctrl, g, tx, rx
<1> QED
  BY <1>1, <1>2

LEMMA STold ==
    ASSUME NEW r \in Reports, r.cmd = "s"
    PROVE  /\ CanErr(BumpState(r)).told = ToldOfS(r)
           /\ CanErr(BumpState(r)).counters =
                IF r.state = "busoff" THEN <<>> ELSE <<r.tx % 256, r.rx % 256>>
<1> DEFINE g == BumpState(r)
<1>1. r.state \in {"active", "warning", "passive", "busoff"} /\ r.tx \in Nat /\ r.rx \in Nat
  <2>1. r.state \in States /\ r.tx \in 0..999 /\ r.rx \in 0..999
    BY ReportType
  <2>2. \A n \in 0..999 : n \in Nat
    OBVIOUS
  <2> QED
    BY <2>1, <2>2, StateNames, Zenon
<1>2. CASE r.state = "busoff"
  <2>1. g.id = {"BUSOFF"}
    BY <1>2, BumpStateIs
  <2> HIDE DEF g
  <2>2. ASSUME NEW m PROVE m \in Printed(g) <=> m \in {"BusOff"}
    <3>1. m \in Printed(g) <=> Says(g, m)
      BY PrintedIs
    <3> QED
      BY <2>1, <3>1 DEF Says
  <2>3. ToldOfS(r) = {"BusOff"}
    BY <1>2 DEF ToldOfS
  <2>4. Printed(g) = ToldOfS(r)
    BY <2>2, <2>3
  <2> QED
    BY <1>2, <2>1, <2>4 DEF CanErr, Counters, g
<1>3. CASE r.state # "busoff"
  <2>1. /\ g.id = {"CRTL", "CNT"}
        /\ g.ctrl = (IF r.tx >= r.rx THEN {TxFlag[r.state]} ELSE {})
                    \cup (IF r.tx <= r.rx THEN {RxFlag[r.state]} ELSE {})
        /\ g.tx = r.tx % 256 /\ g.rx = r.rx % 256
    BY <1>3, BumpStateIs
  <2> HIDE DEF g
  <2>2. /\ TxFlag["active"] = "ACTIVE" /\ TxFlag["warning"] = "TX_WARNING"
        /\ TxFlag["passive"] = "TX_PASSIVE"
        /\ RxFlag["active"] = "ACTIVE" /\ RxFlag["warning"] = "RX_WARNING"
        /\ RxFlag["passive"] = "RX_PASSIVE"
    BY DEF TxFlag, RxFlag
  <2>3. /\ "TX_PASSIVE" \in g.ctrl <=> r.state = "passive" /\ r.tx >= r.rx
        /\ "RX_PASSIVE" \in g.ctrl <=> r.state = "passive" /\ r.tx <= r.rx
        /\ "RX_OVERFLOW" \notin g.ctrl /\ "TX_OVERFLOW" \notin g.ctrl
    <3>1. CASE r.state = "active"
      BY <2>1, <2>2, <3>1
    <3>2. CASE r.state = "warning"
      BY <2>1, <2>2, <3>2
    <3>3. CASE r.state = "passive"
      BY <2>1, <2>2, <3>3
    <3> QED
      BY <1>1, <1>3, <3>1, <3>2, <3>3
  <2>4. ASSUME NEW m PROVE m \in Printed(g) <=> m \in ToldOfS(r)
    <3>1. m \in Printed(g) <=> Says(g, m)
      BY PrintedIs
    <3>2. Says(g, m) <=>
            \/ m = "TxPassive" /\ r.state = "passive" /\ r.tx >= r.rx
            \/ m = "RxPassive" /\ r.state = "passive" /\ r.tx <= r.rx
      BY <2>1, <2>3 DEF Says
    <3>3. CASE r.state = "passive"
      <4>1. ToldOfS(r) = (IF r.tx >= r.rx THEN {"TxPassive"} ELSE {})
                         \cup (IF r.tx <= r.rx THEN {"RxPassive"} ELSE {})
        BY <3>3 DEF ToldOfS
      <4> QED
        BY <3>1, <3>2, <3>3, <4>1
    <3>4. CASE r.state # "passive"
      <4>1. ToldOfS(r) = {}
        BY <1>3, <3>4 DEF ToldOfS
      <4> QED
        BY <3>1, <3>2, <3>4, <4>1
    <3> QED
      BY <3>3, <3>4
  <2>5. Printed(g) = ToldOfS(r)
    BY <2>4
  <2> QED
    BY <1>3, <2>1, <2>5 DEF CanErr, Counters, g
<1> QED
  BY <1>2, <1>3

(* What canerr prints is never what it prints of nothing.                   *)
LEMMA SomeFrame ==
    /\ \A f \in ErrorFrame : f # NoFrame
    /\ \A r \in Reports : r.cmd = "E" => BumpErrNew(r) # NoFrame
    /\ \A r \in Reports : r.cmd = "s" => BumpState(r) # NoFrame
<1>1. ASSUME NEW f \in ErrorFrame PROVE f # NoFrame
  <2>1. "NONE" \notin f.id
    BY DEF ErrorFrame
  <2> QED
    BY <2>1 DEF NoFrame
<1>2. ASSUME NEW r \in Reports, r.cmd = "E" PROVE BumpErrNew(r) # NoFrame
  <2>1. "CNT" \in BumpErrNew(r).id
    BY <1>2, BumpErrNewIs
  <2> QED
    BY <2>1 DEF NoFrame
<1>3. ASSUME NEW r \in Reports, r.cmd = "s" PROVE BumpState(r) # NoFrame
  <2>1. "CRTL" \in BumpState(r).id \/ "BUSOFF" \in BumpState(r).id
    BY <1>3, BumpStateIs
  <2> QED
    BY <2>1 DEF NoFrame
<1> QED
  BY <1>1, <1>2, <1>3

LEMMA Somebody == \A f : CanErr(f) # Nothing
<1>1. ASSUME NEW f, CanErr(f) = Nothing PROVE FALSE
  <2>1. "told" \in DOMAIN CanErr(f) /\ DOMAIN Nothing = {"kind"}
    BY DEF CanErr, Nothing
  <2> QED
    BY <1>1, <2>1
<1> QED
  BY <1>1

---------------------------------------------------------------------------
(* The inductive invariant: who sends what to whom, and at each stage what  *)
(* the line can hold and what has been made of it.                          *)
Parties ==
    /\ ch \in Channels
    /\ \/ frame \in Frames /\ sender \in Impls /\ receiver \in Impls
       \/ frame \in Reports /\ sender = "adapter" /\ receiver = "canerr"
       \/ frame \in Settings /\ sender \in Impls /\ receiver = "slcandx"

FrameInv ==
    receiver \in Impls =>
        /\ stage \in {"new", "sent", "read"}
        /\ stage # "new" => FrameLine(line)
        /\ stage = "read" => got \in Decode(receiver, line)

(* What became of a report: refused, or told, an e line after its last code.*)
Accepted == LongEnoughPdu(line.prefix, line.n) /\ ~Refused(frame, line.n, line.state)
Known == \A i \in 1..Len(frame.codes) : frame.codes[i] \in Codes
Reported ==
    \/ got = Nothing /\ ~Accepted
    \/ got = Nothing /\ frame.cmd = "e" /\ ~Known
    \/ /\ Accepted /\ got # Nothing
       /\ CASE frame.cmd = "e" -> Known /\ got.told = ToldOfCodes(frame.codes) /\ got.counters = <<>>
            [] frame.cmd = "E" -> got = CanErr(BumpErrNew(frame))
            [] frame.cmd = "s" -> got = CanErr(BumpState(frame))

Reading ==
    /\ frame.cmd = "e" /\ Accepted /\ got # Nothing
    /\ got.next \in 1..Len(frame.codes) + 1
    /\ \A i \in 1..got.next - 1 : frame.codes[i] \in Codes
    /\ Made(got.frame, frame.codes, got.next - 1) /\ Ordered(frame.codes, got.next - 1)

ReportInv ==
    sender = "adapter" =>
        /\ stage \in {"new", "sent", "codes", "read"}
        /\ stage # "new" =>
              /\ line \in [prefix: {0, 1}, n: Nat, state: States]
              /\ line.n <= CmdLen(frame)
        /\ stage = "codes" => Reading
        /\ stage = "read" => Reported

SettingInv ==
    receiver = "slcandx" =>
        /\ stage \in {"new", "sent", "read"}
        /\ stage # "new" => ChannelOf(line) = ch /\ line.cmd = CommandOf(sender, frame)
        /\ stage = "read" =>
              got = IF line.cmd = NoCommand THEN Nothing
                    ELSE [ch |-> ch, means |-> Meaning(line.cmd)]

IInv == Parties /\ FrameInv /\ ReportInv /\ SettingInv

LEMMA Strangers ==
    /\ "adapter" \notin Impls /\ "slcandx" \notin Impls /\ "canerr" \notin Impls
BY DEF Impls

LEMMA InitInv == Init => IInv
<1> SUFFICES ASSUME Init PROVE IInv
  OBVIOUS
<1>1. Parties /\ stage = "new"
  BY DEF Init, Parties
<1> QED
  BY <1>1 DEF IInv, FrameInv, ReportInv, SettingInv

LEMMA PartiesKept ==
    ASSUME Parties, [Next]_vars
    PROVE  Parties' /\ frame' = frame /\ ch' = ch /\ sender' = sender /\ receiver' = receiver
<1>1. frame' = frame /\ ch' = ch /\ sender' = sender /\ receiver' = receiver
  BY DEF Next, Send, SendReport, SendSetting, Cut, Receive, ReceiveReport, ReadCode, ReadSetting, vars
<1> QED
  BY <1>1 DEF Parties

(* Frames.                                                                  *)
LEMMA SameLine ==
    ASSUME frame' = frame, ch' = ch, FrameLine(line')
    PROVE  FrameLine(line)'
BY DEF FrameLine

LEMMA FrameKept ==
    ASSUME Parties, FrameInv, [Next]_vars
    PROVE  FrameInv'
<1>1. frame' = frame /\ ch' = ch /\ receiver' = receiver
  BY PartiesKept
<1> SUFFICES ASSUME receiver \in Impls PROVE FrameInv'
  BY <1>1 DEF FrameInv
<1>2. /\ frame \in Frames /\ sender \in Impls /\ ch \in Channels
      /\ ~FromAdapter /\ ~IsSetting
  BY Strangers DEF Parties, FromAdapter, IsSetting
<1>3. /\ stage \in {"new", "sent", "read"}
      /\ stage # "new" => FrameLine(line)
      /\ stage = "read" => got \in Decode(receiver, line)
  BY DEF FrameInv
<1>4. CASE Send
  <2>1. stage' = "sent" /\ line' = Encode(sender, ch, frame)
    BY <1>4 DEF Send
  <2>2. FrameLine(line')
    BY <1>2, <2>1, EncodeHolds
  <2> QED
    BY <1>1, <2>1, <2>2, SameLine DEF FrameInv
<1>5. CASE Cut
  <2>1. stage = "sent" /\ stage' = "sent"
    BY <1>5 DEF Cut, Uncut
  <2>2. \/ \E n \in 0..line.bytes - 1 : line' = [line EXCEPT !.bytes = n]
        \/ line' = [line EXCEPT !.bytes = 0, !.header = FALSE]
    BY <1>2, <1>5 DEF Cut
  <2>3. FrameLine(line')
    BY <1>3, <2>1, <2>2, CutHolds
  <2> QED
    BY <1>1, <2>1, <2>3, SameLine DEF FrameInv
<1>6. CASE Receive
  <2>1. /\ stage = "sent" /\ stage' = "read" /\ line' = line
        /\ got' \in Decode(receiver, line)
    BY <1>6 DEF Receive
  <2>2. FrameLine(line')
    BY <1>3, <2>1
  <2> QED
    BY <1>1, <2>1, <2>2, SameLine DEF FrameInv
<1>7. CASE UNCHANGED vars
  <2>1. stage' = stage /\ line' = line /\ got' = got
    BY <1>7 DEF vars
  <2>2. stage # "new" => FrameLine(line)'
    BY <1>1, <1>3, <2>1, SameLine
  <2> QED
    BY <1>1, <1>3, <2>1, <2>2 DEF FrameInv
<1> QED
  BY <1>2, <1>3, <1>4, <1>5, <1>6, <1>7
  DEF Next, SendReport, SendSetting, ReceiveReport, ReadCode, ReadSetting

(* Settings.                                                                *)
LEMMA SettingKept ==
    ASSUME Parties, SettingInv, [Next]_vars
    PROVE  SettingInv'
<1>1. frame' = frame /\ ch' = ch /\ receiver' = receiver /\ sender' = sender
  BY PartiesKept
<1> SUFFICES ASSUME receiver = "slcandx" PROVE SettingInv'
  BY <1>1 DEF SettingInv
<1>2. sender \in Impls /\ ch \in Channels /\ ~FromAdapter /\ IsSetting
  BY Strangers DEF Parties, FromAdapter, IsSetting
<1>3. /\ stage \in {"new", "sent", "read"}
      /\ stage # "new" => ChannelOf(line) = ch /\ line.cmd = CommandOf(sender, frame)
      /\ stage = "read" =>
            got = IF line.cmd = NoCommand THEN Nothing
                  ELSE [ch |-> ch, means |-> Meaning(line.cmd)]
  BY DEF SettingInv
<1>4. CASE SendSetting
  <2> DEFINE c == CommandOf(sender, frame)
             p == IF sender \in {"kernel", "kernel68"} /\ ch = 0 THEN NoPrefix ELSE ch
  <2>1. stage' = "sent" /\ line' = [prefix |-> p, cmd |-> c]
    BY <1>4 DEF SendSetting
  <2> HIDE DEF c
  <2>2. ChannelOf(line') = ch /\ line'.cmd = c
    BY <1>2, <2>1 DEF ChannelOf, Channels, NoPrefix
  <2> QED
    BY <1>1, <2>1, <2>2 DEF SettingInv, ChannelOf, c
<1>5. CASE ReadSetting
  <2>1. /\ stage = "sent" /\ stage' = "read" /\ line' = line
        /\ got' = IF line.cmd = NoCommand THEN Nothing
                  ELSE [ch |-> ChannelOf(line), means |-> Meaning(line.cmd)]
    BY <1>5 DEF ReadSetting
  <2> QED
    BY <1>1, <1>3, <2>1 DEF SettingInv, ChannelOf
<1>6. CASE UNCHANGED vars
  <2>1. stage' = stage /\ line' = line /\ got' = got
    BY <1>6 DEF vars
  <2> QED
    BY <1>1, <1>3, <2>1 DEF SettingInv, ChannelOf
<1> QED
  BY <1>2, <1>3, <1>4, <1>5, <1>6
  DEF Next, Send, SendReport, Cut, Uncut, Receive, ReceiveReport, ReadCode

(* Reports.                                                                 *)
LEMMA LengthIs == ASSUME NEW r \in Reports PROVE CmdLen(r) \in Nat
<1>1. CASE r.cmd = "e"
  <2>1. Len(r.codes) \in Nat
    BY <1>1, ReportType, CodesType
  <2> QED
    BY <1>1, <2>1 DEF CmdLen
<1>2. CASE r.cmd = "E"
  BY <1>2 DEF CmdLen
<1>3. CASE r.cmd = "s"
  BY <1>3 DEF CmdLen
<1> QED
  BY <1>1, <1>2, <1>3, ReportType

LEMMA BumpIs ==
    ASSUME NEW r \in Reports, NEW prefix, NEW n, NEW state
    PROVE  IF LongEnoughPdu(prefix, n) /\ ~Refused(r, n, state)
           THEN /\ Bump(prefix, r, n, state) # NoFrame
                /\ r.cmd = "e" => Bump(prefix, r, n, state) = BusError
                /\ r.cmd = "E" => Bump(prefix, r, n, state) = BumpErrNew(r)
                /\ r.cmd = "s" => Bump(prefix, r, n, state) = BumpState(r)
           ELSE Bump(prefix, r, n, state) = NoFrame
<1>1. CASE ~(LongEnoughPdu(prefix, n) /\ ~Refused(r, n, state))
  BY <1>1 DEF Bump
<1>2. CASE LongEnoughPdu(prefix, n) /\ ~Refused(r, n, state)
  <2>1. CASE r.cmd = "e"
    BY <1>2, <2>1, SomeFrame, BusErrorIs DEF Bump
  <2>2. CASE r.cmd = "E"
    BY <1>2, <2>2, SomeFrame DEF Bump
  <2>3. CASE r.cmd = "s"
    BY <1>2, <2>3, SomeFrame DEF Bump
  <2> QED
    BY <1>2, <2>1, <2>2, <2>3, ReportType
<1> QED
  BY <1>1, <1>2

LEMMA ReportKept ==
    ASSUME Parties, ReportInv, [Next]_vars
    PROVE  ReportInv'
<1>1. frame' = frame /\ receiver' = receiver /\ sender' = sender
  BY PartiesKept
<1> SUFFICES ASSUME sender = "adapter" PROVE ReportInv'
  BY <1>1 DEF ReportInv
<1>2. frame \in Reports /\ FromAdapter /\ ~IsSetting
  BY Strangers DEF Parties, FromAdapter, IsSetting
<1>3. /\ stage \in {"new", "sent", "codes", "read"}
      /\ stage # "new" =>
            /\ line \in [prefix: {0, 1}, n: Nat, state: States]
            /\ line.n <= CmdLen(frame)
      /\ stage = "codes" => Reading
      /\ stage = "read" => Reported
  BY DEF ReportInv
<1>4. CASE SendReport
  <2>1. PICK p \in {0, 1}, state \in States :
          line' = [prefix |-> p, n |-> CmdLen(frame), state |-> state]
    BY <1>4 DEF SendReport
  <2>2. line' \in [prefix: {0, 1}, n: Nat, state: States] /\ line'.n <= CmdLen(frame)
    BY <1>2, <2>1, LengthIs
  <2>3. stage' = "sent"
    BY <1>4 DEF SendReport
  <2> QED
    BY <1>1, <2>2, <2>3 DEF ReportInv
<1>5. CASE Cut
  <2>1. stage = "sent" /\ stage' = "sent"
    BY <1>5 DEF Cut, Uncut
  <2>2. PICK n \in 1..line.n - 1 : line' = [line EXCEPT !.n = n]
    BY <1>2, <1>5 DEF Cut
  <2>3. line \in [prefix: {0, 1}, n: Nat, state: States] /\ line.n <= CmdLen(frame)
    BY <1>3, <2>1
  <2>4. n \in Nat /\ n <= line.n /\ line.n \in Nat
    BY <2>2, <2>3
  <2>5. line' \in [prefix: {0, 1}, n: Nat, state: States] /\ line'.n = n
    BY <2>2, <2>3, <2>4
  <2>6. n <= CmdLen(frame)
    BY <1>2, <2>3, <2>4, LengthIs
  <2> QED
    BY <1>1, <2>1, <2>5, <2>6 DEF ReportInv
<1>6. CASE ReceiveReport
  <2> DEFINE f == Bump(line.prefix, frame, line.n, line.state)
  <2>1. /\ stage = "sent" /\ line' = line
        /\ \/ f = NoFrame /\ stage' = "read" /\ got' = Nothing
           \/ f # NoFrame /\ frame.cmd = "e" /\ stage' = "codes" /\ got' = [frame |-> f, next |-> 1]
           \/ f # NoFrame /\ frame.cmd # "e" /\ stage' = "read" /\ got' = CanErr(f)
    BY <1>6 DEF ReceiveReport
  <2>2. IF Accepted
        THEN /\ f # NoFrame
             /\ frame.cmd = "e" => f = BusError
             /\ frame.cmd = "E" => f = BumpErrNew(frame)
             /\ frame.cmd = "s" => f = BumpState(frame)
        ELSE f = NoFrame
    BY <1>2, BumpIs DEF Accepted
  <2> HIDE DEF f
  <2>3. Accepted' = Accepted
    BY <1>1, <2>1 DEF Accepted
  <2>4. /\ line' \in [prefix: {0, 1}, n: Nat, state: States]
        /\ line'.n <= CmdLen(frame)
    BY <1>3, <2>1
  <2>5. CASE f = NoFrame
    <3>1. ~Accepted' /\ got' = Nothing /\ stage' = "read"
      BY <2>1, <2>2, <2>3, <2>5
    <3>2. Reported'
      BY <3>1 DEF Reported
    <3> QED
      BY <1>1, <2>4, <3>1, <3>2 DEF ReportInv
  <2>6. CASE f # NoFrame /\ frame.cmd = "e"
    <3>1. Accepted' /\ stage' = "codes" /\ got' = [frame |-> BusError, next |-> 1]
      BY <2>1, <2>2, <2>3, <2>6
    <3>2. got'.next = 1 /\ got'.frame = BusError /\ got' # Nothing
      <4>1. "next" \in DOMAIN got' /\ DOMAIN Nothing = {"kind"}
        BY <3>1 DEF Nothing
      <4> QED
        BY <3>1, <4>1
    <3>3. Len(frame.codes) \in Nat
      BY <1>2, <2>6, ReportType, CodesType
    <3>4. 1 \in 1..Len(frame.codes) + 1 /\ \A i \in 1..0 : FALSE
      BY <3>3
    <3>5. Made(BusError, frame.codes, 0) /\ Ordered(frame.codes, 0)
      BY NoneRead
    <3>6. Reading'
      BY <1>1, <2>6, <3>1, <3>2, <3>4, <3>5 DEF Reading
    <3> QED
      BY <1>1, <2>4, <3>1, <3>6 DEF ReportInv
  <2>7. CASE f # NoFrame /\ frame.cmd # "e"
    <3>1. Accepted' /\ stage' = "read" /\ got' = CanErr(f)
      BY <2>1, <2>2, <2>3, <2>7
    <3>2. got' # Nothing
      BY <3>1, Somebody
    <3>3. CASE frame.cmd = "E"
      <4>1. got' = CanErr(BumpErrNew(frame))
        BY <2>2, <2>3, <3>1, <3>3
      <4> QED
        BY <1>1, <2>4, <3>1, <3>2, <3>3, <4>1 DEF ReportInv, Reported
    <3>4. CASE frame.cmd = "s"
      <4>1. got' = CanErr(BumpState(frame))
        BY <2>2, <2>3, <3>1, <3>4
      <4> QED
        BY <1>1, <2>4, <3>1, <3>2, <3>4, <4>1 DEF ReportInv, Reported
    <3> QED
      BY <1>2, <2>7, <3>3, <3>4, ReportType
  <2> QED
    BY <2>5, <2>6, <2>7
<1>7. CASE ReadCode
  <2> DEFINE k == got.next
             codes == frame.codes
             n == k - 1
  <2>1. stage = "codes" /\ line' = line
    BY <1>7 DEF ReadCode
  <2>2. /\ frame.cmd = "e" /\ Accepted /\ got # Nothing
        /\ k \in 1..Len(codes) + 1
        /\ \A i \in 1..n : codes[i] \in Codes
        /\ Made(got.frame, codes, n) /\ Ordered(codes, n)
    BY <1>3, <2>1 DEF Reading
  <2>3. Len(codes) \in Nat /\ DOMAIN codes = 1..Len(codes)
    BY <1>2, <2>2, ReportType, CodesType
  <2>4. Accepted' /\ frame'.cmd = "e"
    BY <1>1, <2>1, <2>2 DEF Accepted
  <2>5. /\ line' \in [prefix: {0, 1}, n: Nat, state: States]
        /\ line'.n <= CmdLen(frame)
    BY <1>3, <2>1
  <2>6. CASE k <= Len(codes) /\ codes[k] \in Codes /\ stage' = "codes"
             /\ got' = [frame |-> AddCode(got.frame, codes[k]), next |-> k + 1]
    <3>1. n \in Nat /\ n + 1 = k /\ k + 1 - 1 = k /\ k \in Nat /\ k + 1 \in 1..Len(codes) + 1
      BY <2>2, <2>3, <2>6
    <3>2. Made(AddCode(got.frame, codes[k]), codes, k) /\ Ordered(codes, k)
      <4> HIDE DEF n, k, codes
      <4>1. Made(AddCode(got.frame, codes[n + 1]), codes, n + 1) /\ Ordered(codes, n + 1)
        BY <2>2, <2>6, <3>1, OneMore
      <4> QED
        BY <3>1, <4>1
    <3>3. \A i \in 1..k : codes[i] \in Codes
      <4>1. \A i \in 1..k : i \in 1..n \/ i = k
        BY <3>1
      <4> QED
        BY <2>2, <2>6, <4>1
    <3>4. got'.next = k + 1 /\ got'.frame = AddCode(got.frame, codes[k]) /\ got' # Nothing
      <4>1. "next" \in DOMAIN got' /\ DOMAIN Nothing = {"kind"}
        BY <2>6 DEF Nothing
      <4> QED
        BY <2>6, <4>1
    <3> HIDE DEF n, k
    <3>5. Reading'
      BY <1>1, <2>4, <3>1, <3>2, <3>3, <3>4 DEF Reading
    <3> QED
      BY <1>1, <2>5, <2>6, <3>5 DEF ReportInv
  <2>7. CASE k <= Len(codes) /\ codes[k] \notin Codes /\ stage' = "read" /\ got' = Nothing
    <3>1. ~Known'
      <4>1. k \in 1..Len(codes)
        BY <2>2, <2>3, <2>7
      <4> QED
        BY <1>1, <2>7, <4>1 DEF Known
    <3>2. Reported'
      BY <2>4, <2>7, <3>1 DEF Reported
    <3> QED
      BY <1>1, <2>5, <2>7, <3>2 DEF ReportInv
  <2>8. CASE k > Len(codes) /\ stage' = "read" /\ got' = CanErr(got.frame)
    <3>1. n = Len(codes)
      BY <2>2, <2>3, <2>8
    <3>2. CanErr(got.frame).told = ToldOfCodes(codes) /\ CanErr(got.frame).counters = <<>>
      <4> HIDE DEF n, k, codes
      <4> QED
        BY <2>2, <2>3, <3>1, CodesTold
    <3>3. Known'
      BY <1>1, <2>2, <3>1 DEF Known
    <3>4. got' # Nothing
      BY <2>8, Somebody
    <3>5. Reported'
      BY <1>1, <2>4, <2>8, <3>2, <3>3, <3>4 DEF Reported
    <3> QED
      BY <1>1, <2>5, <2>8, <3>5 DEF ReportInv
  <2> QED
    BY <1>7, <2>6, <2>7, <2>8 DEF ReadCode
<1>8. CASE UNCHANGED vars
  <2>1. stage' = stage /\ line' = line /\ got' = got
    BY <1>8 DEF vars
  <2>2. Accepted' = Accepted /\ Known' = Known
    BY <1>1, <2>1 DEF Accepted, Known
  <2>3. Reported' = Reported
    BY <1>1, <2>1, <2>2 DEF Reported
  <2>4. Reading' = Reading
    BY <1>1, <2>1, <2>2 DEF Reading
  <2> QED
    BY <1>1, <1>3, <2>1, <2>3, <2>4 DEF ReportInv
<1> QED
  BY <1>2, <1>4, <1>5, <1>6, <1>7, <1>8 DEF Next, Send, SendSetting, Receive, ReadSetting

LEMMA Inductive == Spec => []IInv
<1>1. Init => IInv
  BY InitInv
<1>2. IInv /\ [Next]_vars => IInv'
  BY PartiesKept, FrameKept, ReportKept, SettingKept DEF IInv
<1> QED
  BY <1>1, <1>2, PTL DEF Spec

---------------------------------------------------------------------------
(* The properties. *)

(* A whole line means to every reader what its writer meant: every frame    *)
(* with a length its kind can have, from any of the six implementations to  *)
(* any other, arrives on its channel with its kind, length and data.        *)
THEOREM CodecRoundTrip == Spec => []RoundTrip
<1>1. ASSUME IInv PROVE RoundTrip
  <2> SUFFICES ASSUME stage = "read", receiver \in Impls, Whole, frame.len \notin OddLengths
               PROVE  /\ got # Nothing
                      /\ got.ch = ch /\ got.ext = frame.ext /\ got.kind = frame.kind
                      /\ IF frame.kind = "remote"
                         THEN got.data = 0
                              /\ got.len = (IF receiver \in {"cpp", "rust"} THEN 0 ELSE frame.len)
                         ELSE got.data = frame.len /\ got.len = frame.len
    BY DEF RoundTrip
  <2>1. frame \in Frames /\ sender \in Impls /\ ch \in Channels /\ ~FromAdapter
    BY <1>1, Strangers DEF IInv, Parties, FromAdapter
  <2>2. line = Encode(sender, ch, frame)
    BY <2>1 DEF Whole
  <2>3. got \in Decode(receiver, Encode(sender, ch, frame))
    BY <1>1, <2>2 DEF IInv, FrameInv
  <2> QED
    BY <2>1, <2>3, DecodeWhole
<1> QED
  BY <1>1, Inductive, PTL

(* Whatever was lost on the way, and whatever dlc the sender chose, no      *)
(* reader delivers data that the line did not carry, nor a frame from a     *)
(* line without its header, the kernel's remote frames excepted; and no     *)
(* part of a report makes an error frame.                                   *)
THEOREM CodecNothingInvented == Spec => []NothingInvented
<1>1. ASSUME IInv, Delivered, ~IsSetting, FromAdapter PROVE Whole
  <2>1. sender = "adapter" /\ frame \in Reports
    BY <1>1, Strangers DEF IInv, Parties, FromAdapter
  <2>2. Accepted
    BY <1>1, <2>1 DEF IInv, ReportInv, Reading, Reported, Delivered
  <2>3. line.n \in Nat /\ line.n <= CmdLen(frame)
    BY <1>1, <2>1 DEF IInv, ReportInv, Delivered
  <2>4. line.n >= CmdLen(frame)
    BY <2>2 DEF Accepted, Refused, WholeCmd
  <2>5. CmdLen(frame) \in Nat
    BY <2>1, LengthIs
  <2>6. line.n = CmdLen(frame)
    BY <2>3, <2>4, <2>5
  <2> QED
    BY <1>1, <2>6 DEF Whole
<1>2. ASSUME IInv, Delivered, ~IsSetting, ~FromAdapter
      PROVE  /\ got.data <= line.bytes
             /\ line.header \/ (receiver \in {"kernel", "kernel68"} /\ frame.kind = "remote")
  <2>1. frame \in Frames /\ receiver \in Impls
    BY <1>2 DEF IInv, Parties, FromAdapter, IsSetting
  <2>2. FrameLine(line) /\ got \in Decode(receiver, line) /\ got # Nothing
    BY <1>2, <2>1 DEF IInv, FrameInv, Delivered
  <2> QED
    BY <2>1, <2>2, DecodeBounds
<1>3. IInv => NothingInvented
  BY <1>1, <1>2 DEF NothingInvented
<1> QED
  BY <1>3, Inductive, PTL

(* For every sequence of codes, every state and every pair of counters:     *)
(* what canerr prints of a report that arrives whole is what the adapter    *)
(* said, unless the driver does not take the report.                        *)
THEOREM CodecReportTold == Spec => []ReportTold
<1>1. ASSUME IInv, stage = "read", FromAdapter, Whole
      PROVE  /\ frame \in Reports /\ Reported /\ line.n = CmdLen(frame)
             /\ line.prefix \in {0, 1} /\ CmdLen(frame) \in Nat
  <2>1. sender = "adapter" /\ frame \in Reports
    BY <1>1, Strangers DEF IInv, Parties, FromAdapter
  <2> QED
    BY <1>1, <2>1, LengthIs DEF IInv, ReportInv, Whole
<1>2. ASSUME IInv, stage = "read", FromAdapter, Whole, frame.cmd = "e"
      PROVE  IF Len(frame.codes) = 9 \/ \E i \in DOMAIN frame.codes : frame.codes[i] = "?"
             THEN got = Nothing
             ELSE \/ got = Nothing /\ line.prefix + 2 + Len(frame.codes) <= 4
                  \/ got # Nothing /\ got.told = ToldOfCodes(frame.codes) /\ got.counters = <<>>
  <2> DEFINE codes == frame.codes
  <2>1. /\ codes \in CodeSeqs /\ Reported /\ line.n = CmdLen(frame)
        /\ line.prefix \in {0, 1} /\ CmdLen(frame) \in Nat
    BY <1>1, <1>2, ReportType
  <2>2. Len(codes) \in 0..9 /\ DOMAIN codes = 1..Len(codes)
    BY <2>1, CodesType
  <2>3. CmdLen(frame) = 2 + Len(codes)
    BY <1>2 DEF CmdLen
  <2>4. LongEnoughPdu(line.prefix, line.n) <=> ~(line.prefix + 2 + Len(codes) <= 4)
    BY <2>1, <2>2, <2>3 DEF LongEnoughPdu
  <2>5. Refused(frame, line.n, line.state) <=> Len(codes) = 9
    <3>1. line.n >= CmdLen(frame)
      BY <2>1
    <3>2. Len(codes) < 9 <=> Len(codes) # 9
      <4> DEFINE n == Len(codes)
      <4>1. n \in 0..9
        BY <2>2
      <4> HIDE DEF n
      <4>2. n < 9 <=> n # 9
        BY <4>1
      <4> QED
        BY <4>2 DEF n
    <3>3. frame.cmd # "s"
      BY <1>2
    <3> QED
      BY <1>2, <3>1, <3>2, <3>3 DEF Refused, WholeCmd
  <2>6. Known <=> ~\E i \in DOMAIN codes : codes[i] = "?"
    <3>1. \A i \in 1..Len(codes) : codes[i] \in Codes \cup {"?"}
      <4>1. codes \in Seq(Codes \cup {"?"})
        BY <2>1, CodecAssumption
      <4> QED
        BY <4>1
    <3>2. "?" \notin Codes
      BY DEF Codes
    <3> QED
      BY <2>2, <3>1, <3>2 DEF Known
  <2> QED
    BY <1>2, <2>1, <2>4, <2>5, <2>6 DEF Reported, Accepted
<1>3. ASSUME IInv, stage = "read", FromAdapter, Whole, frame.cmd = "E"
      PROVE  got.told = ToldOfE(frame) /\ got.counters = <<frame.tx, frame.rx>>
  <2>1. /\ frame \in Reports /\ Reported /\ line.n = CmdLen(frame)
        /\ line.prefix \in {0, 1}
    BY <1>1, <1>3
  <2>2. CmdLen(frame) = 9
    BY <1>3 DEF CmdLen
  <2>3. Accepted
    BY <1>3, <2>1, <2>2 DEF Accepted, LongEnoughPdu, Refused, WholeCmd
  <2>4. got = CanErr(BumpErrNew(frame))
    BY <1>3, <2>1, <2>3 DEF Reported
  <2> QED
    BY <1>3, <2>1, <2>4, ETold
<1>4. ASSUME IInv, stage = "read", FromAdapter, Whole, frame.cmd = "s"
      PROVE  IF frame.state = line.state THEN got = Nothing
             ELSE /\ got.told = ToldOfS(frame)
                  /\ got.counters = IF frame.state = "busoff" THEN <<>>
                                    ELSE <<frame.tx % 256, frame.rx % 256>>
  <2>1. /\ frame \in Reports /\ Reported /\ line.n = CmdLen(frame)
        /\ line.prefix \in {0, 1}
    BY <1>1, <1>4
  <2>2. CmdLen(frame) = 8
    BY <1>4 DEF CmdLen
  <2>3. Accepted <=> frame.state # line.state
    BY <1>4, <2>1, <2>2 DEF Accepted, LongEnoughPdu, Refused, WholeCmd
  <2>4. CASE frame.state = line.state
    BY <1>4, <2>1, <2>3, <2>4 DEF Reported
  <2>5. CASE frame.state # line.state
    <3>1. got = CanErr(BumpState(frame))
      BY <1>4, <2>1, <2>3, <2>5 DEF Reported
    <3> QED
      BY <1>4, <2>1, <2>5, <3>1, STold
  <2> QED
    BY <2>4, <2>5
<1>5. IInv => ReportTold
  <2> SUFFICES ASSUME IInv, stage = "read", FromAdapter, Whole PROVE ReportTold
    BY DEF ReportTold
  <2>1. CASE frame.cmd = "e"
    BY <1>2, <2>1 DEF ReportTold
  <2>2. CASE frame.cmd = "E"
    BY <1>3, <2>2 DEF ReportTold
  <2>3. CASE frame.cmd = "s"
    BY <1>4, <2>3 DEF ReportTold
  <2> QED
    BY <1>1, <2>1, <2>2, <2>3, ReportType
<1> QED
  BY <1>5, Inductive, PTL

(* For every rate and sample point: a command that slcandx accepts says     *)
(* what was set, whoever wrote it, and one that it does not accept is the   *)
(* answer only to what its tables and ranges, or one digit, cannot hold.    *)
THEOREM CodecCommandMeans == Spec => []CommandMeansSetting
<1>1. ASSUME IInv, stage = "read", IsSetting PROVE CommandMeansSetting
  <2> DEFINE c == CommandOf(sender, frame)
             inKernel == sender \in {"kernel", "kernel68"}
             why == CASE frame.what = "nominal" ->
                           IF inKernel THEN IndexIn(NominalTable, frame.value) = {}
                           ELSE frame.value \notin 5..1000
                      [] frame.what = "data" ->
                           frame.value \notin {1000 * m : m \in (IF inKernel THEN (1..14) \cup {16} ELSE 1..9)}
                      [] OTHER -> frame.value \notin 750..875 \/ sender = "cs"
  <2>1. receiver = "slcandx" /\ frame \in Settings /\ sender \in Impls
    BY <1>1, Strangers DEF IInv, Parties, IsSetting
  <2>2. got = IF c = NoCommand THEN Nothing ELSE [ch |-> ch, means |-> Meaning(c)]
    BY <1>1, <2>1 DEF IInv, SettingInv
  <2>3. Tells(c, frame) \/ (TellsNothing(c) /\ ~Settable(sender, frame))
    BY <2>1, CommandMeans
  <2>4. ~Settable(sender, frame) => why
    <3>1. CASE frame.what = "nominal"
      BY <3>1 DEF Settable
    <3>2. CASE frame.what = "data"
      BY <3>2 DEF Settable
    <3>3. CASE frame.what \notin {"nominal", "data"}
      BY <3>3 DEF Settable
    <3> QED
      BY <3>1, <3>2, <3>3
  <2>5. CommandMeansSetting <=>
          IF got # Nothing /\ got.means # Invalid THEN got.ch = ch /\ got.means = frame ELSE why
    BY <1>1 DEF CommandMeansSetting
  <2> HIDE DEF c, why
  <2>6. CASE c = NoCommand
    BY <2>2, <2>3, <2>4, <2>5, <2>6 DEF Tells
  <2>7. CASE c # NoCommand
    <3>1. got.ch = ch /\ got.means = Meaning(c)
      BY <2>2, <2>7
    <3>2. CASE Tells(c, frame)
      <4>1. "means" \in DOMAIN got /\ DOMAIN Nothing = {"kind"}
        BY <2>2, <2>7 DEF Nothing
      <4>2. got # Nothing
        BY <4>1
      <4> QED
        BY <2>5, <3>1, <3>2, <4>2 DEF Tells
    <3>3. CASE TellsNothing(c) /\ ~Settable(sender, frame)
      BY <2>4, <2>5, <2>7, <3>1, <3>3 DEF TellsNothing
    <3> QED
      BY <2>3, <3>2, <3>3
  <2> QED
    BY <2>6, <2>7
<1>2. IInv => CommandMeansSetting
  BY <1>1 DEF CommandMeansSetting
<1> QED
  BY <1>2, Inductive, PTL

=============================================================================
