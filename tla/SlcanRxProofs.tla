--------------------------- MODULE SlcanRxProofs ---------------------------
(***************************************************************************)
(* The receive side for any channels, any length of a line and of rbuff,   *)
(* any number of lines and of disturbances: what the parser delivers is in *)
(* order, and what a disturbance costs is bounded.                         *)
(***************************************************************************)
EXTENDS SlcanRx, SequenceTheorems, FiniteSetTheorems, TLAPS

(* What is in rbuff is of lines that have not been delivered, though maybe  *)
(* of earlier ones than the adapter is at: a lost CR leaves them there.     *)
Fresh ==
    /\ \A k \in 1..Len(rbuff) : rbuff[k].line <= next.line
    /\ \A c \in Channels :
          /\ Len(rx[c]) < next.line
          /\ \A i \in 1..Len(rx[c]) :
                /\ rx[c][i] < next.line
                /\ \A k \in 1..Len(rbuff) : rx[c][i] < rbuff[k].line

(* Until the next CR is read, the last disturbance may still do its worst.  *)
Due == IF clean THEN 0 ELSE 1
Damage ==
    /\ Count(False) <= events - Due
    /\ (next.line - 1) - Count(True) <= 2 * events - Due

IInv == TypeOK /\ InSync /\ Fresh /\ DeliveredInOrder /\ Damage

---------------------------------------------------------------------------
(* The counts. *)

(* Where the false frames are, and where the others.                        *)
FalseAt == {x \in Channels \X (1..MaxLines) :
               x[2] <= Len(rx[x[1]]) /\ rx[x[1]][x[2]] = FalseFrame}
TrueAt == {x \in Channels \X (1..MaxLines) :
               x[2] <= Len(rx[x[1]]) /\ rx[x[1]][x[2]] # FalseFrame}

LEMMA CountsAre == Count(False) = Cardinality(FalseAt) /\ Count(True) = Cardinality(TrueAt)
BY DEF Count, False, True, FalseAt, TrueAt

LEMMA FinitePlaces ==
    /\ IsFiniteSet(FalseAt) /\ IsFiniteSet(TrueAt)
    /\ Cardinality(FalseAt) \in Nat /\ Cardinality(TrueAt) \in Nat
<1>1. IsFiniteSet(1..MaxLines)
  BY FS_Interval, RxAssumption
<1>2. IsFiniteSet(Channels \X (1..MaxLines))
  BY <1>1, FS_Product, RxAssumption
<1>3. FalseAt \in SUBSET (Channels \X (1..MaxLines)) /\ TrueAt \in SUBSET (Channels \X (1..MaxLines))
  BY DEF FalseAt, TrueAt
<1>4. IsFiniteSet(FalseAt) /\ IsFiniteSet(TrueAt)
  BY <1>2, <1>3, FS_Subset
<1> QED
  BY <1>4, FS_CardinalityType

(* A frame that is delivered is at a place of its own: it is counted once,  *)
(* and the other frames where they were.                                    *)
LEMMA CountsGrow ==
    ASSUME TypeOK, NEW c \in Channels, NEW item \in 0..MaxLines,
           Len(rx[c]) < MaxLines, Deliver(c, item)
    PROVE  /\ Count(False)' = Count(False) + (IF item = FalseFrame THEN 1 ELSE 0)
           /\ Count(True)' = Count(True) + (IF item = FalseFrame THEN 0 ELSE 1)
<1> DEFINE here == <<c, Len(rx[c]) + 1>>
<1>1. /\ rx[c] \in Seq(0..MaxLines) /\ Len(rx[c]) \in Nat
      /\ rx'[c] = Append(rx[c], item)
      /\ \A d \in Channels : d # c => rx'[d] = rx[d]
  BY DEF TypeOK, Deliver
<1>2. /\ Len(rx'[c]) = Len(rx[c]) + 1
      /\ \A i \in 1..Len(rx[c]) : rx'[c][i] = rx[c][i]
      /\ rx'[c][Len(rx[c]) + 1] = item
  BY <1>1, AppendProperties
<1>3. here \in Channels \X (1..MaxLines) /\ here \notin FalseAt /\ here \notin TrueAt
  BY <1>1, RxAssumption DEF FalseAt, TrueAt
<1>4. ASSUME NEW x \in Channels \X (1..MaxLines)
      PROVE  /\ x \in FalseAt' <=> (x \in FalseAt \/ (x = here /\ item = FalseFrame))
             /\ x \in TrueAt' <=> (x \in TrueAt \/ (x = here /\ item # FalseFrame))
  <2>1. PICK d \in Channels, i \in 1..MaxLines : x = <<d, i>>
    OBVIOUS
  <2>2. CASE d # c
    BY <1>1, <2>1, <2>2 DEF FalseAt, TrueAt
  <2>3. CASE d = c /\ i <= Len(rx[c])
    BY <1>1, <1>2, <2>1, <2>3 DEF FalseAt, TrueAt
  <2>4. CASE d = c /\ i = Len(rx[c]) + 1
    BY <1>1, <1>2, <2>1, <2>4 DEF FalseAt, TrueAt
  <2>5. CASE d = c /\ i > Len(rx[c]) + 1
    BY <1>1, <1>2, <2>1, <2>5 DEF FalseAt, TrueAt
  <2> QED
    BY <1>1, <2>2, <2>3, <2>4, <2>5
<1>5. /\ FalseAt \subseteq Channels \X (1..MaxLines) /\ FalseAt' \subseteq Channels \X (1..MaxLines)
      /\ TrueAt \subseteq Channels \X (1..MaxLines) /\ TrueAt' \subseteq Channels \X (1..MaxLines)
  BY DEF FalseAt, TrueAt
<1>6. Count(False)' = Cardinality(FalseAt') /\ Count(True)' = Cardinality(TrueAt')
  BY DEF Count, False, True, FalseAt, TrueAt
<1> HIDE DEF here
<1>7. CASE item = FalseFrame
  <2>1. FalseAt' = FalseAt \cup {here} /\ TrueAt' = TrueAt
    BY <1>3, <1>4, <1>5, <1>7
  <2>2. Cardinality(FalseAt \cup {here}) = Cardinality(FalseAt) + 1
    BY <1>3, FinitePlaces, FS_AddElement
  <2> QED
    BY <1>6, <1>7, <2>1, <2>2, CountsAre, FinitePlaces
<1>8. CASE item # FalseFrame
  <2>1. TrueAt' = TrueAt \cup {here} /\ FalseAt' = FalseAt
    BY <1>3, <1>4, <1>5, <1>8
  <2>2. Cardinality(TrueAt \cup {here}) = Cardinality(TrueAt) + 1
    BY <1>3, FinitePlaces, FS_AddElement
  <2> QED
    BY <1>6, <1>8, <2>1, <2>2, CountsAre, FinitePlaces
<1> QED
  BY <1>7, <1>8

LEMMA CountsStay ==
    ASSUME rx' = rx
    PROVE  Count(False)' = Count(False) /\ Count(True)' = Count(True)
BY DEF Count, False, True

LEMMA CountsAreNat == Count(False) \in Nat /\ Count(True) \in Nat
BY CountsAre, FinitePlaces

---------------------------------------------------------------------------
(* The steps of the stream. *)

(* What the types say of the numbers in the state.                          *)
LEMMA Numbers ==
    ASSUME TypeOK
    PROVE  /\ CR \in Nat /\ BodyLen \in Nat /\ CR = BodyLen + 1
           /\ MaxLines \in Nat /\ MaxEvents \in Nat
           /\ next.line \in 1..MaxLines /\ next.line \in Nat
           /\ next.pos \in 1..CR /\ next.pos \in Nat /\ events \in 0..MaxEvents
           /\ \A k \in 1..Len(rbuff) : rbuff[k] \in Byte /\ rbuff[k].line \in 1..MaxLines
           /\ \A c \in Channels : /\ rx[c] \in Seq(0..MaxLines) /\ Len(rx[c]) \in Nat
                                  /\ \A i \in 1..Len(rx[c]) : rx[c][i] \in 0..MaxLines
<1>1. /\ CR \in Nat /\ BodyLen \in Nat /\ CR = BodyLen + 1
      /\ MaxLines \in Nat /\ MaxEvents \in Nat
  BY RxAssumption DEF CR
<1>2. next.line \in 1..MaxLines /\ next.pos \in 1..CR /\ events \in 0..MaxEvents
  BY DEF TypeOK, Byte
<1>3. \A k \in 1..Len(rbuff) : rbuff[k] \in Byte /\ rbuff[k].line \in 1..MaxLines
  <2>1. \A k \in 1..Len(rbuff) : rbuff[k] \in Byte
    BY DEF TypeOK
  <2> QED
    BY <2>1 DEF Byte
<1>4. \A c \in Channels : /\ rx[c] \in Seq(0..MaxLines) /\ Len(rx[c]) \in Nat
                          /\ \A i \in 1..Len(rx[c]) : rx[c][i] \in 0..MaxLines
  <2>1. \A c \in Channels : rx[c] \in Seq(0..MaxLines)
    BY DEF TypeOK
  <2> QED
    BY <2>1, LenProperties
<1> QED
  BY <1>1, <1>2, <1>3, <1>4

(* A line is BodyLen bytes.                                                 *)
LEMMA BodyType ==
    ASSUME TypeOK
    PROVE  Body(next.line) \in Seq(Byte) /\ Len(Body(next.line)) = BodyLen
<1> DEFINE byte(i) == [line |-> next.line, pos |-> i]
           body == [i \in 1..BodyLen |-> byte(i)]
<1>1. \A i \in 1..BodyLen : byte(i) \in Byte
  BY Numbers DEF Byte
<1>2. BodyLen \in Nat
  BY Numbers
<1> HIDE DEF byte
<1>3. body \in Seq(Byte) /\ Len(body) = BodyLen
  BY <1>1, <1>2
<1> QED
  BY <1>3 DEF Body, byte

(* The first bytes of the current line.                                     *)
LEMMA BodyPrefix ==
    ASSUME TypeOK, NEW n \in 0..BodyLen
    PROVE  /\ SubSeq(Body(next.line), 1, n) \in Seq(Byte)
           /\ Len(SubSeq(Body(next.line), 1, n)) = n
           /\ \A i \in 1..n :
                 SubSeq(Body(next.line), 1, n)[i] = [line |-> next.line, pos |-> i]
<1> DEFINE body == Body(next.line)
<1>1. \A i \in 1..n : body[i] = [line |-> next.line, pos |-> i]
  BY Numbers DEF Body
<1> HIDE DEF body
<1>2. /\ \A i \in 1..n : body[i] \in Byte
      /\ 1 \in Int /\ n \in Int
  <2>1. n \in Nat /\ \A i \in 1..n : i \in 1..CR
    BY Numbers
  <2>2. next.line \in 1..MaxLines
    BY Numbers
  <2>3. \A i \in 1..n : [line |-> next.line, pos |-> i] \in Byte
    BY <2>1, <2>2 DEF Byte
  <2>4. \A i \in 1..n : body[i] \in Byte
    BY <1>1, <2>3
  <2> QED
    BY <2>1, <2>4
<1>3. /\ SubSeq(body, 1, n) \in Seq(Byte)
      /\ Len(SubSeq(body, 1, n)) = IF 1 <= n THEN n - 1 + 1 ELSE 0
      /\ \A i \in 1..n - 1 + 1 : SubSeq(body, 1, n)[i] = body[1 + i - 1]
  BY <1>2, SubSeqProperties
<1>4. Len(SubSeq(body, 1, n)) = n /\ \A i \in 1..n : SubSeq(body, 1, n)[i] = body[i]
  BY <1>3, Numbers
<1> QED
  BY <1>1, <1>3, <1>4 DEF body

LEMMA InitHolds == Init => IInv
<1> SUFFICES ASSUME Init PROVE IInv
  OBVIOUS
<1>1. PICK c \in Channels : owner = <<c>>
  BY DEF Init
<1>2. TypeOK
  <2>1. owner \in Seq(Channels) /\ Len(owner) = 1
    BY <1>1
  <2>2. rbuff = <<>> /\ rbuff \in Seq(Byte) /\ Len(rbuff) = 0
    BY DEF Init
  <2>3. rx \in [Channels -> Seq(0..MaxLines)]
    BY DEF Init
  <2>4. /\ next \in Byte /\ next.line = 1 /\ 1 \in 1..MaxLines
        /\ 0 <= RSize /\ 0 \in 0..MaxEvents
    BY RxAssumption DEF Init, Byte, CR
  <2> QED
    BY <2>1, <2>2, <2>3, <2>4 DEF Init, TypeOK
<1>3. InSync
  <2>1. SubSeq(Body(next.line), 1, 0) = <<>>
    BY SubSeqEmpty
  <2> QED
    BY <2>1 DEF Init, InSync
<1>4. Fresh /\ DeliveredInOrder
  BY DEF Init, Fresh, DeliveredInOrder
<1>5. Damage
  <2>1. FalseAt = {} /\ TrueAt = {}
    BY DEF Init, FalseAt, TrueAt
  <2>2. Count(False) = 0 /\ Count(True) = 0
    BY <2>1, CountsAre, FS_EmptySet
  <2> QED
    BY <2>2 DEF Init, Damage, Due
<1> QED
  BY <1>2, <1>3, <1>4, <1>5 DEF IInv

(* The next byte: of the same line, or the first of a new one, whose        *)
(* channel may be any; the lines before keep theirs.                        *)
LEMMA AdvanceType ==
    ASSUME TypeOK, Advance
    PROVE  /\ owner' \in Seq(Channels) /\ Len(owner') \in 1..MaxLines
           /\ next' \in Byte /\ next'.line = Len(owner')
           /\ \A l \in 1..next.line : owner'[l] = owner[l]
           /\ next.pos < CR => next' = [line |-> next.line, pos |-> next.pos + 1]
           /\ next.pos = CR => next' = [line |-> next.line + 1, pos |-> 1]
<1>1. /\ next.line \in 1..MaxLines /\ next.pos \in 1..CR /\ CR \in Nat
      /\ next = [line |-> next.line, pos |-> next.pos]
      /\ owner \in Seq(Channels) /\ next.line = Len(owner)
  BY RxAssumption DEF TypeOK, Byte, CR
<1>2. CASE next.pos < CR
  <2>1. owner' = owner /\ next' = [line |-> next.line, pos |-> next.pos + 1]
    BY <1>1, <1>2 DEF Advance
  <2> QED
    BY <1>1, <1>2, <2>1 DEF TypeOK, Byte
<1>3. CASE ~(next.pos < CR)
  <2>1. PICK c \in Channels : owner' = Append(owner, c)
    BY <1>3 DEF Advance
  <2>2. Len(owner) < MaxLines /\ next' = [line |-> next.line + 1, pos |-> 1]
    BY <1>3 DEF Advance
  <2>3. /\ owner' \in Seq(Channels) /\ Len(owner') = Len(owner) + 1
        /\ \A l \in 1..Len(owner) : owner'[l] = owner[l]
    BY <1>1, <2>1, AppendProperties
  <2> QED
    BY <1>1, <1>3, <2>2, <2>3, RxAssumption DEF Byte, CR
<1> QED
  BY <1>2, <1>3

(* A step that delivers nothing leaves the order and the counts alone.      *)
LEMMA QuietOrder ==
    ASSUME IInv, rx' = rx, \A l \in 1..next.line : owner'[l] = owner[l]
    PROVE  DeliveredInOrder'
<1> SUFFICES ASSUME NEW c \in Channels, NEW i \in 1..Len(rx[c]), rx[c][i] # FalseFrame
             PROVE  /\ owner'[rx[c][i]] = c
                    /\ \A j \in 1..i - 1 : rx[c][j] < rx[c][i]
  BY DEF DeliveredInOrder
<1>1. rx[c][i] \in 0..MaxLines /\ rx[c][i] < next.line /\ next.line \in Nat /\ MaxLines \in Nat
  BY Numbers DEF IInv, Fresh
<1>2. rx[c][i] \in 1..next.line
  BY <1>1 DEF FalseFrame
<1> QED
  BY <1>2 DEF IInv, DeliveredInOrder

(* What is still in rbuff stays fresh while the adapter goes on.            *)
LEMMA QuietFresh ==
    ASSUME IInv, rx' = rx, next'.line \in Nat, next.line <= next'.line,
           rbuff' = rbuff \/ rbuff' = <<>>
    PROVE  Fresh'
<1>1. /\ next.line \in Nat
      /\ \A k \in 1..Len(rbuff) : rbuff[k].line \in Nat
      /\ \A c \in Channels : Len(rx[c]) \in Nat /\ \A i \in 1..Len(rx[c]) : rx[c][i] \in Nat
  BY Numbers DEF IInv
<1>2. CASE rbuff' = rbuff
  BY <1>1, <1>2 DEF IInv, Fresh
<1>3. CASE rbuff' = <<>>
  BY <1>1, <1>3 DEF IInv, Fresh
<1> QED
  BY <1>2, <1>3

---------------------------------------------------------------------------
(* One lemma for each disturbance. *)

(* A disturbance is worth two lines, one of which may be lost at once.      *)
LEMMA DisturbDamage ==
    ASSUME IInv, Disturb, rx' = rx, next'.line \in Nat, next'.line <= next.line + 1
    PROVE  Damage'
<1>1. /\ Count(False) \in Nat /\ Count(True) \in Nat
      /\ Count(False)' = Count(False) /\ Count(True)' = Count(True)
  BY CountsAreNat, CountsStay
<1>2. next.line \in Nat /\ events \in Nat /\ events' = events + 1 /\ clean' = FALSE
  BY Numbers DEF IInv, Disturb
<1>3. Due \in {0, 1} /\ Due' = 1
  BY <1>2 DEF Due
<1>4. Count(False) <= events - Due /\ (next.line - 1) - Count(True) <= 2 * events - Due
  BY DEF IInv, Damage
<1>5. Count(False) <= events' - 1 /\ (next'.line - 1) - Count(True) <= 2 * events' - 1
  BY <1>1, <1>2, <1>3, <1>4
<1> QED
  BY <1>1, <1>3, <1>5 DEF Damage

LEMMA EventsType ==
    ASSUME IInv, Disturb
    PROVE  events' \in 0..MaxEvents /\ clean' \in BOOLEAN /\ InSync'
<1>1. events' = events + 1 /\ events < MaxEvents /\ clean' = FALSE
  BY DEF Disturb
<1>2. events' \in 0..MaxEvents
  BY <1>1, Numbers DEF IInv
<1>3. InSync'
  BY <1>1, Zenon DEF InSync
<1> QED
  BY <1>1, <1>2, <1>3

LEMMA PassingKeeps ==
    ASSUME IInv, Disturb, Advance, rx' = rx, err' \in BOOLEAN,
           rbuff' = rbuff \/ rbuff' = <<>>
    PROVE  IInv'
<1>1. /\ owner' \in Seq(Channels) /\ Len(owner') \in 1..MaxLines
      /\ next' \in Byte /\ next'.line = Len(owner')
      /\ \A l \in 1..next.line : owner'[l] = owner[l]
      /\ next'.line = next.line \/ next'.line = next.line + 1
  <2>1. next.pos < CR \/ next.pos = CR
    BY Numbers DEF IInv
  <2> QED
    BY <2>1, AdvanceType DEF IInv
<1>2. next.line \in Nat /\ next'.line \in Nat
  BY <1>1, Numbers DEF IInv
<1>3. rbuff' \in Seq(Byte) /\ Len(rbuff') <= RSize
  <2>1. <<>> \in Seq(Byte) /\ Len(<<>>) <= RSize
    BY RxAssumption
  <2> QED
    BY <2>1 DEF IInv, TypeOK
<1>4. TypeOK'
  BY <1>1, <1>3, EventsType DEF IInv, TypeOK
<1>5. Fresh'
  BY <1>1, <1>2, QuietFresh
<1>6. Damage'
  BY <1>1, <1>2, DisturbDamage
<1> QED
  BY <1>1, <1>4, <1>5, <1>6, QuietOrder, EventsType DEF IInv

LEMMA CloseResetsKeeps ==
    ASSUME IInv, CloseResets
    PROVE  IInv'
<1>1. /\ owner' = owner /\ next' = next /\ rx' = rx /\ err' = err /\ rbuff' = <<>> /\ Disturb
  BY DEF CloseResets
<1>2. next.line \in Nat
  BY Numbers DEF IInv
<1>3. <<>> \in Seq(Byte) /\ Len(<<>>) <= RSize
  BY RxAssumption
<1>4. TypeOK'
  BY <1>1, <1>3, EventsType DEF IInv, TypeOK
<1>5. Fresh'
  BY <1>1, <1>2, QuietFresh
<1>6. Damage'
  BY <1>1, <1>2, DisturbDamage
<1> QED
  BY <1>1, <1>4, <1>5, <1>6, QuietOrder, EventsType DEF IInv

---------------------------------------------------------------------------
(* One lemma for each step of the parser. *)

(* A byte goes behind the others of its line, for rbuff has room for them. *)
LEMMA ReadByteKeeps ==
    ASSUME IInv, ReadByte
    PROVE  IInv'
<1>1. /\ next' = [line |-> next.line, pos |-> next.pos + 1] /\ next' \in Byte
      /\ next'.line = next.line /\ owner' = owner /\ next.pos < CR
      /\ UNCHANGED <<rx, events, clean>>
  BY AdvanceType DEF IInv, ReadByte, Advance
<1>2. next \in Byte /\ rbuff \in Seq(Byte) /\ Len(rbuff) \in Nat /\ Len(rbuff) <= RSize /\ RSize \in Nat
      /\ err \in BOOLEAN
  BY RxAssumption DEF IInv, TypeOK
<1>3. \/ (err \/ Full) /\ rbuff' = rbuff /\ err'
      \/ ~err /\ ~Full /\ rbuff' = Append(rbuff, next) /\ ~err'
  BY DEF ReadByte
<1>4. /\ Append(rbuff, next) \in Seq(Byte) /\ Len(Append(rbuff, next)) = Len(rbuff) + 1
      /\ \A k \in 1..Len(rbuff) : Append(rbuff, next)[k] = rbuff[k]
      /\ Append(rbuff, next)[Len(rbuff) + 1] = next
  BY <1>2, AppendProperties
<1>5. rbuff' \in Seq(Byte) /\ Len(rbuff') <= RSize
  BY <1>2, <1>3, <1>4 DEF Full
<1>6. err' \in BOOLEAN
  BY <1>2 DEF ReadByte
<1>7. TypeOK'
  BY <1>1, <1>5, <1>6 DEF IInv, TypeOK
<1>8. InSync'
  <2> SUFFICES ASSUME clean PROVE ~err' /\ rbuff' = SubSeq(Body(next.line), 1, next.pos)
    BY <1>1, Numbers DEF InSync, IInv
  <2>1. ~err /\ rbuff = SubSeq(Body(next.line), 1, next.pos - 1)
    BY DEF IInv, InSync
  <2> DEFINE line == SubSeq(Body(next.line), 1, next.pos)
             before == SubSeq(Body(next.line), 1, next.pos - 1)
  <2>2. next.pos \in 0..BodyLen /\ next.pos - 1 \in 0..BodyLen /\ next.pos \in Nat \ {0}
        /\ BodyLen \in Nat
    BY <1>1, Numbers DEF IInv
  <2>3. /\ line \in Seq(Byte) /\ Len(line) = next.pos
        /\ \A i \in 1..next.pos : line[i] = [line |-> next.line, pos |-> i]
    BY <2>2, BodyPrefix DEF IInv
  <2>4. /\ Len(before) = next.pos - 1
        /\ \A i \in 1..next.pos - 1 : before[i] = [line |-> next.line, pos |-> i]
    BY <2>2, BodyPrefix DEF IInv
  <2> HIDE DEF line, before
  <2>5. rbuff = before
    BY <2>1 DEF before
  <2>6. ~Full
    BY <2>2, <2>4, <2>5, RxAssumption DEF Full
  <2>7. rbuff' = Append(rbuff, next) /\ ~err'
    BY <1>3, <2>1, <2>6
  <2>8. next = [line |-> next.line, pos |-> next.pos]
    BY <1>2 DEF Byte
  <2>9. Append(rbuff, next) = line
    BY <1>4, <2>2, <2>3, <2>4, <2>5, <2>8, SeqEqual
  <2> QED
    BY <2>7, <2>9 DEF line
<1>9. Fresh'
  <2>1. CASE rbuff' = rbuff
    BY <1>1, <2>1, QuietFresh, Numbers DEF IInv
  <2>2. CASE rbuff' = Append(rbuff, next)
    <3>1. /\ \A k \in 1..Len(rbuff) : rbuff[k].line <= next.line
          /\ \A c \in Channels : /\ Len(rx[c]) < next.line
                                 /\ \A i \in 1..Len(rx[c]) :
                                       /\ rx[c][i] < next.line
                                       /\ \A k \in 1..Len(rbuff) : rx[c][i] < rbuff[k].line
      BY DEF IInv, Fresh
    <3>2. \A k \in 1..Len(rbuff') : rbuff'[k] = next \/ (k \in 1..Len(rbuff) /\ rbuff'[k] = rbuff[k])
      BY <1>2, <1>4, <2>2
    <3>3. next.line <= next.line
      BY Numbers DEF IInv
    <3> QED
      BY <1>1, <3>1, <3>2, <3>3 DEF Fresh
  <2> QED
    BY <1>3, <2>1, <2>2
<1>10. DeliveredInOrder'
  BY <1>1, QuietOrder
<1>11. Damage'
  <2>1. Count(False)' = Count(False) /\ Count(True)' = Count(True)
    BY <1>1, CountsStay
  <2> QED
    BY <1>1, <2>1 DEF IInv, Damage, Due
<1> QED
  BY <1>7, <1>8, <1>9, <1>10, <1>11 DEF IInv

(* At a CR without a disturbance behind it, rbuff is the line.              *)
LEMMA CleanLine ==
    ASSUME IInv, next.pos = CR, clean
    PROVE  ~err /\ Len(rbuff) > MinLen /\ Complete
<1>1. ~err /\ rbuff = SubSeq(Body(next.line), 1, BodyLen)
  <2>1. CR - 1 = BodyLen
    BY Numbers DEF IInv
  <2> QED
    BY <2>1 DEF IInv, InSync
<1>2. Len(rbuff) = BodyLen /\ rbuff \in Seq(Byte)
  BY <1>1, BodyPrefix, Numbers DEF IInv
<1>3. SubSeq(rbuff, 1, BodyLen) = rbuff
  BY <1>2, SubSeqFull
<1>4. Body(next.line) = SubSeq(Body(next.line), 1, BodyLen)
  <2>1. Body(next.line) \in Seq(Byte) /\ Len(Body(next.line)) = BodyLen
    BY BodyType DEF IInv
  <2> QED
    BY <2>1, SubSeqFull
<1>5. IsLine(next.line)
  BY <1>1, <1>2, <1>3, <1>4, Numbers DEF IsLine, IInv
<1> QED
  BY <1>1, <1>2, <1>5, Numbers, RxAssumption DEF Complete, IInv

(* What Bump hands over, if anything: a line of the channel that owns it,   *)
(* later than all that was handed over, or a false frame.                   *)
LEMMA BumpDelivers ==
    ASSUME IInv, Bump
    PROVE  \/ ~Complete /\ rx' = rx
           \/ \E c \in Channels, item \in 0..MaxLines :
                 /\ Deliver(c, item)
                 /\ Complete <=> item # FalseFrame
                 /\ item # FalseFrame =>
                       /\ item \in 1..next.line /\ owner[item] = c
                       /\ \A d \in Channels : \A i \in 1..Len(rx[d]) : rx[d][i] < item
<1>1. CASE Complete
  <2> DEFINE l == rbuff[1].line
  <2>1. 1 \in 1..Len(rbuff)
    BY <1>1, RxAssumption DEF Complete, IsLine, IInv, TypeOK
  <2>2. l \in 1..MaxLines /\ l <= next.line /\ next.line = Len(owner) /\ MaxLines \in Nat
        /\ next.line \in Nat
    BY <2>1, Numbers DEF IInv, Fresh, TypeOK
  <2>3. l \in 1..next.line /\ l # FalseFrame /\ l \in 0..MaxLines
    BY <2>2 DEF FalseFrame
  <2>4. owner[l] \in Channels
    BY <2>2, <2>3 DEF IInv, TypeOK
  <2>5. Deliver(owner[l], l)
    BY <1>1 DEF Bump
  <2>6. \A d \in Channels : \A i \in 1..Len(rx[d]) : rx[d][i] < l
    BY <2>1 DEF IInv, Fresh
  <2> HIDE DEF l
  <2> QED
    BY <1>1, <2>3, <2>4, <2>5, <2>6
<1>2. CASE ~Complete
  <2>1. 0 \in 0..MaxLines /\ FalseFrame = 0
    BY RxAssumption DEF FalseFrame
  <2>2. rx' = rx \/ \E c \in Channels : Deliver(c, FalseFrame)
    BY <1>2 DEF Bump
  <2> QED
    BY <1>2, <2>1, <2>2
<1> QED
  BY <1>1, <1>2

(* A frame that is later than all that was delivered, or a false one, keeps *)
(* the order.                                                               *)
LEMMA DeliverOrder ==
    ASSUME IInv, NEW c \in Channels, NEW item \in 0..MaxLines, Deliver(c, item),
           \A l \in 1..next.line : owner'[l] = owner[l],
           item # FalseFrame =>
               /\ item \in 1..next.line /\ owner[item] = c
               /\ \A d \in Channels : \A i \in 1..Len(rx[d]) : rx[d][i] < item
    PROVE  /\ DeliveredInOrder'
           /\ \A d \in Channels : \A i \in 1..Len(rx'[d]) :
                 (i \in 1..Len(rx[d]) /\ rx'[d][i] = rx[d][i]) \/ rx'[d][i] = item
           /\ \A d \in Channels : Len(rx'[d]) \in Nat /\ Len(rx'[d]) <= Len(rx[d]) + 1
           /\ rx' \in [Channels -> Seq(0..MaxLines)]
<1>1. /\ rx[c] \in Seq(0..MaxLines) /\ Len(rx[c]) \in Nat
      /\ rx'[c] = Append(rx[c], item)
      /\ \A d \in Channels : d # c => rx'[d] = rx[d]
  BY Numbers DEF IInv, TypeOK, Deliver
<1>2. /\ Append(rx[c], item) \in Seq(0..MaxLines)
      /\ Len(rx'[c]) = Len(rx[c]) + 1
      /\ \A i \in 1..Len(rx[c]) : rx'[c][i] = rx[c][i]
      /\ rx'[c][Len(rx[c]) + 1] = item
  BY <1>1, AppendProperties
<1>3. rx' \in [Channels -> Seq(0..MaxLines)]
  BY <1>2 DEF Deliver, IInv, TypeOK
<1>4. \A d \in Channels : Len(rx[d]) \in Nat
  BY Numbers DEF IInv
<1>5. \A d \in Channels : Len(rx'[d]) \in Nat /\ Len(rx'[d]) <= Len(rx[d]) + 1
  <2> SUFFICES ASSUME NEW d \in Channels
               PROVE  Len(rx'[d]) \in Nat /\ Len(rx'[d]) <= Len(rx[d]) + 1
    OBVIOUS
  <2>1. CASE d = c
    BY <1>1, <1>2, <2>1
  <2>2. CASE d # c
    BY <1>1, <1>4, <2>2
  <2> QED
    BY <2>1, <2>2
<1>6. \A d \in Channels : \A i \in 1..Len(rx'[d]) :
         (i \in 1..Len(rx[d]) /\ rx'[d][i] = rx[d][i]) \/ rx'[d][i] = item
  <2>1. \A i \in 1..Len(rx'[c]) :
           (i \in 1..Len(rx[c]) /\ rx'[c][i] = rx[c][i]) \/ rx'[c][i] = item
    <3>1. ASSUME NEW i \in 1..Len(rx'[c]) PROVE i \in 1..Len(rx[c]) \/ i = Len(rx[c]) + 1
      BY <1>1, <1>2
    <3> QED
      BY <1>2, <3>1
  <2>2. \A d \in Channels : d # c =>
           \A i \in 1..Len(rx'[d]) : i \in 1..Len(rx[d]) /\ rx'[d][i] = rx[d][i]
    BY <1>1
  <2> QED
    BY <2>1, <2>2
<1>7. \A d \in Channels : \A i \in 1..Len(rx[d]) : rx[d][i] # FalseFrame =>
         /\ owner'[rx[d][i]] = d
         /\ \A j \in 1..i - 1 : rx[d][j] < rx[d][i]
  <2> SUFFICES ASSUME NEW d \in Channels, NEW i \in 1..Len(rx[d]), rx[d][i] # FalseFrame
               PROVE  /\ owner'[rx[d][i]] = d
                      /\ \A j \in 1..i - 1 : rx[d][j] < rx[d][i]
    OBVIOUS
  <2>1. rx[d][i] \in 0..MaxLines /\ rx[d][i] < next.line /\ next.line \in Nat /\ MaxLines \in Nat
    BY Numbers DEF IInv, Fresh
  <2>2. rx[d][i] \in 1..next.line
    BY <2>1 DEF FalseFrame
  <2> QED
    BY <2>2 DEF IInv, DeliveredInOrder
<1>8. DeliveredInOrder'
  <2> SUFFICES ASSUME NEW d \in Channels, NEW i \in 1..Len(rx'[d]), rx'[d][i] # FalseFrame
               PROVE  /\ owner'[rx'[d][i]] = d
                      /\ \A j \in 1..i - 1 : rx'[d][j] < rx'[d][i]
    BY DEF DeliveredInOrder, FalseFrame
  <2>1. CASE d # c
    BY <1>1, <1>7, <2>1
  <2>2. CASE d = c /\ i \in 1..Len(rx[c])
    <3>1. rx'[c][i] = rx[c][i] /\ \A j \in 1..i - 1 : rx'[c][j] = rx[c][j]
      BY <1>1, <1>2, <2>2
    <3> QED
      BY <1>7, <2>2, <3>1
  <2>3. CASE d = c /\ i = Len(rx[c]) + 1
    <3>1. rx'[c][i] = item /\ \A j \in 1..i - 1 : j \in 1..Len(rx[c]) /\ rx'[c][j] = rx[c][j]
      BY <1>1, <1>2, <2>3
    <3> QED
      BY <2>3, <3>1
  <2> QED
    BY <1>1, <1>2, <2>1, <2>2, <2>3
<1> QED
  BY <1>3, <1>5, <1>6, <1>8

(* A CR: the line is handed over or not, and the next one begins.           *)
LEMMA ReadCRKeeps ==
    ASSUME IInv, ReadCR
    PROVE  IInv'
<1>1. /\ owner' \in Seq(Channels) /\ Len(owner') \in 1..MaxLines
      /\ next' \in Byte /\ next'.line = Len(owner')
      /\ \A l \in 1..next.line : owner'[l] = owner[l]
      /\ next'.line = next.line + 1 /\ next'.pos = 1
      /\ next.pos = CR
  BY AdvanceType DEF IInv, ReadCR
<1>2. next.line \in Nat /\ MaxLines \in Nat /\ next.line < MaxLines /\ events \in Nat
  BY <1>1, Numbers DEF IInv
<1>3. err' = FALSE /\ rbuff' = <<>> /\ clean' = TRUE /\ events' = events
  BY DEF ReadCR, ClearErr, ResetCount
<1>4. InSync'
  <2>1. SubSeq(Body(next'.line), 1, 0) = <<>>
    BY SubSeqEmpty
  <2> QED
    BY <1>1, <1>3, <2>1 DEF InSync, Body
<1>5. rbuff' \in Seq(Byte) /\ Len(rbuff') <= RSize
  BY <1>3, RxAssumption
<1>6. Due \in {0, 1} /\ Due' = 0 /\ (clean => Due = 0) /\ (~clean => Due = 1)
  BY <1>3 DEF Due
<1>7. /\ Count(False) \in Nat /\ Count(True) \in Nat
      /\ Count(False) <= events - Due /\ (next.line - 1) - Count(True) <= 2 * events - Due
  BY CountsAreNat DEF IInv, Damage
<1>8. CASE rx' = rx /\ ~clean
  <2>1. rx' \in [Channels -> Seq(0..MaxLines)]
    BY <1>8 DEF IInv, TypeOK
  <2>2. TypeOK'
    BY <1>1, <1>3, <1>5, <2>1 DEF IInv, TypeOK
  <2>3. Fresh' /\ DeliveredInOrder'
    BY <1>1, <1>2, <1>3, <1>8, QuietFresh, QuietOrder
  <2>4. Count(False)' = Count(False) /\ Count(True)' = Count(True)
    BY <1>8, CountsStay
  <2>5. /\ Count(False)' <= events' - Due'
        /\ (next'.line - 1) - Count(True)' <= 2 * events' - Due'
    <3>1. next'.line = next.line + 1 /\ events' = events /\ Due' = 0 /\ Due = 1
      BY <1>1, <1>3, <1>6, <1>8
    <3> QED
      BY <1>2, <1>7, <2>4, <3>1
  <2> QED
    BY <1>4, <2>2, <2>3, <2>5 DEF IInv, Damage
<1>9. ASSUME NEW c \in Channels, NEW item \in 0..MaxLines, Deliver(c, item),
             item # FalseFrame =>
                 /\ item \in 1..next.line /\ owner[item] = c
                 /\ \A d \in Channels : \A i \in 1..Len(rx[d]) : rx[d][i] < item,
             item # FalseFrame \/ ~clean
      PROVE  IInv'
  <2>1. /\ DeliveredInOrder'
        /\ \A d \in Channels : \A i \in 1..Len(rx'[d]) :
              (i \in 1..Len(rx[d]) /\ rx'[d][i] = rx[d][i]) \/ rx'[d][i] = item
        /\ \A d \in Channels : Len(rx'[d]) \in Nat /\ Len(rx'[d]) <= Len(rx[d]) + 1
        /\ rx' \in [Channels -> Seq(0..MaxLines)]
    BY <1>1, <1>9, DeliverOrder
  <2>2. TypeOK'
    BY <1>1, <1>3, <1>5, <2>1 DEF IInv, TypeOK
  <2>3. \A d \in Channels : /\ Len(rx[d]) \in Nat /\ Len(rx[d]) < next.line
                            /\ \A i \in 1..Len(rx[d]) : rx[d][i] \in Nat /\ rx[d][i] < next.line
    BY Numbers DEF IInv, Fresh
  <2>4. item \in Nat /\ item < next.line + 1
    BY <1>2, <1>9 DEF FalseFrame
  <2>5. \A d \in Channels : /\ Len(rx'[d]) < next.line + 1
                            /\ \A i \in 1..Len(rx'[d]) : rx'[d][i] < next.line + 1
    <3> SUFFICES ASSUME NEW d \in Channels
                 PROVE  /\ Len(rx'[d]) < next.line + 1
                        /\ \A i \in 1..Len(rx'[d]) : rx'[d][i] < next.line + 1
      OBVIOUS
    <3>1. Len(rx'[d]) < next.line + 1
      BY <1>2, <2>1, <2>3
    <3>2. \A i \in 1..Len(rx[d]) : rx[d][i] < next.line + 1
      BY <1>2, <2>3
    <3>3. \A i \in 1..Len(rx'[d]) : rx'[d][i] < next.line + 1
      BY <2>1, <2>4, <3>2
    <3> QED
      BY <3>1, <3>3
  <2>6. Fresh'
    BY <1>1, <1>3, <2>5 DEF Fresh
  <2>7. Len(rx[c]) < MaxLines
    BY <1>2, <2>3
  <2>8. /\ Count(False)' = Count(False) + (IF item = FalseFrame THEN 1 ELSE 0)
        /\ Count(True)' = Count(True) + (IF item = FalseFrame THEN 0 ELSE 1)
    BY <1>9, <2>7, CountsGrow DEF IInv
  <2>9. /\ Count(False)' <= events' - Due'
        /\ (next'.line - 1) - Count(True)' <= 2 * events' - Due'
    <3>1. next'.line = next.line + 1 /\ events' = events /\ Due' = 0
      BY <1>1, <1>3, <1>6
    <3>2. CASE item = FalseFrame
      <4>1. Count(False)' = Count(False) + 1 /\ Count(True)' = Count(True)
        BY <1>7, <2>8, <3>2
      <4>2. Due = 1
        BY <1>6, <1>9, <3>2
      <4> QED
        BY <1>2, <1>7, <3>1, <4>1, <4>2
    <3>3. CASE item # FalseFrame
      <4>1. Count(False)' = Count(False) /\ Count(True)' = Count(True) + 1
        BY <1>7, <2>8, <3>3
      <4> QED
        BY <1>2, <1>6, <1>7, <3>1, <4>1
    <3> QED
      BY <3>2, <3>3
  <2> QED
    BY <1>4, <2>1, <2>2, <2>6, <2>9 DEF IInv, Damage
<1>10. CASE ~(GoodLine /\ Len(rbuff) > MinLen)
  <2>1. rx' = rx /\ ~clean
    BY <1>1, <1>10, CleanLine DEF ReadCR, GoodLine
  <2> QED
    BY <1>8, <2>1
<1>11. CASE GoodLine /\ Len(rbuff) > MinLen
  <2>1. Bump
    BY <1>11 DEF ReadCR
  <2>2. clean => Complete
    BY <1>1, CleanLine
  <2>3. CASE ~Complete /\ rx' = rx
    BY <1>8, <2>2, <2>3
  <2>4. CASE \E c \in Channels, item \in 0..MaxLines :
                 /\ Deliver(c, item)
                 /\ Complete <=> item # FalseFrame
                 /\ item # FalseFrame =>
                       /\ item \in 1..next.line /\ owner[item] = c
                       /\ \A d \in Channels : \A i \in 1..Len(rx[d]) : rx[d][i] < item
    BY <1>9, <2>2, <2>4
  <2> QED
    BY <2>1, <2>3, <2>4, BumpDelivers
<1> QED
  BY <1>10, <1>11

---------------------------------------------------------------------------
LEMMA Inductive == IInv /\ [Next]_vars => IInv'
<1> SUFFICES ASSUME IInv, [Next]_vars PROVE IInv'
  OBVIOUS
<1>1. CASE ReadCR
  BY <1>1, ReadCRKeeps
<1>2. CASE ReadByte
  BY <1>2, ReadByteKeeps
<1>3. CASE BadByte
  BY <1>3, PassingKeeps DEF BadByte
<1>4. CASE LostByte
  BY <1>4, PassingKeeps DEF LostByte, IInv, TypeOK
<1>5. CASE CloseResets
  BY <1>5, CloseResetsKeeps
<1>6. CASE CloseResetsInCR
  BY <1>6, PassingKeeps DEF CloseResetsInCR, ClearErr, ResetCount
<1>7. CASE UNCHANGED vars
  <2>1. Count(False)' = Count(False) /\ Count(True)' = Count(True)
    BY <1>7, CountsStay DEF vars
  <2>2. TypeOK' /\ InSync'
    BY <1>7 DEF vars, IInv, TypeOK, InSync
  <2>3. Fresh' /\ DeliveredInOrder'
    BY <1>7 DEF vars, IInv, Fresh, DeliveredInOrder
  <2>4. Damage'
    BY <1>7, <2>1 DEF vars, IInv, Damage, Due
  <2> QED
    BY <2>2, <2>3, <2>4 DEF IInv
<1> QED
  BY <1>1, <1>2, <1>3, <1>4, <1>5, <1>6, <1>7 DEF Next

LEMMA Invariant == Spec => []IInv
<1> QED
  BY InitHolds, Inductive, PTL DEF Spec

(* The variables keep their types: in particular rbuff never has more than  *)
(* SLCAN_MTU bytes, whatever is lost and whoever closes.                    *)
THEOREM RxTypeCorrect == Spec => []TypeOK
<1>1. IInv => TypeOK
  BY DEF IInv
<1> QED
  BY <1>1, Invariant, PTL

(* A CR that is read puts the parser back in step with the adapter.         *)
THEOREM RxInSync == Spec => []InSync
<1>1. IInv => InSync
  BY DEF IInv
<1> QED
  BY <1>1, Invariant, PTL

(* What a channel delivers is its own, each frame once, in order.           *)
THEOREM RxDeliveredInOrder == Spec => []DeliveredInOrder
<1>1. IInv => DeliveredInOrder
  BY DEF IInv
<1> QED
  BY <1>1, Invariant, PTL

(* A disturbance makes up at most one frame and costs at most two lines.    *)
THEOREM RxDamageBounded == Spec => []DamageBounded
<1>1. IInv => DamageBounded
  <2> SUFFICES ASSUME IInv PROVE DamageBounded
    OBVIOUS
  <2>1. Due \in {0, 1} /\ events \in Nat /\ next.line \in Nat
    BY Numbers DEF Due, IInv
  <2> QED
    BY <2>1, CountsAreNat DEF IInv, Damage, DamageBounded
<1> QED
  BY <1>1, Invariant, PTL

=============================================================================
