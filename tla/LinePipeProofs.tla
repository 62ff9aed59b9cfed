--------------------------- MODULE LinePipeProofs ---------------------------
(***************************************************************************)
(* LinePipe keeps each thread's lines in order, for any threads, any       *)
(* number of lines, and whether or not writes fail.  The facts about       *)
(* sequences at the beginning are those its refinements rest on: what the  *)
(* first k lines of a pipe are, and what is left behind a write.           *)
(***************************************************************************)
EXTENDS LinePipe, SequenceTheorems, TLAPS

(* Concatenated sequences. *)

(* The first elements of a concatenation are those of its first part.       *)
LEMMA FrontOfConcat ==
    ASSUME NEW S, NEW a \in Seq(S), NEW b \in Seq(S), NEW k \in 0..Len(a)
    PROVE  SubSeq(a \o b, 1, k) = SubSeq(a, 1, k)
<1>1. CASE k = 0
  <2>1. SubSeq(a \o b, 1, 0) = <<>> /\ SubSeq(a, 1, 0) = <<>>
    BY SubSeqEmpty
  <2> QED
    BY <1>1, <2>1
<1>2. CASE k > 0
  <2>1. 1 \in 1..Len(a) /\ k \in 1..Len(a)
    BY <1>2
  <2> QED
    BY <2>1, SubSeqOfConcat1
<1> QED
  BY <1>1, <1>2

(* What is behind the first part is the second.                             *)
LEMMA RestOfConcat ==
    ASSUME NEW S, NEW a \in Seq(S), NEW b \in Seq(S)
    PROVE  SubSeq(a \o b, Len(a) + 1, Len(a \o b)) = b
<1> DEFINE c == a \o b
           rest == SubSeq(c, Len(a) + 1, Len(c))
<1>1. /\ c \in Seq(S) /\ Len(c) = Len(a) + Len(b)
      /\ Len(a) \in Nat /\ Len(b) \in Nat
      /\ \A i \in 1..(Len(a) + Len(b)) : c[i] = IF i <= Len(a) THEN a[i] ELSE b[i - Len(a)]
  BY ConcatProperties
<1> HIDE DEF c
<1>2. \A i \in (Len(a) + 1)..Len(c) : c[i] \in S
  BY <1>1
<1>3. /\ rest \in Seq(S)
      /\ Len(rest) = IF Len(a) + 1 <= Len(c) THEN Len(c) - (Len(a) + 1) + 1 ELSE 0
      /\ \A i \in 1..(Len(c) - (Len(a) + 1) + 1) : rest[i] = c[(Len(a) + 1) + i - 1]
  BY <1>1, <1>2, SubSeqProperties
<1> HIDE DEF rest
<1>4. Len(rest) = Len(b)
  BY <1>1, <1>3
<1>5. \A i \in 1..Len(b) : rest[i] = b[i]
  <2> SUFFICES ASSUME NEW i \in 1..Len(b) PROVE rest[i] = b[i]
    OBVIOUS
  <2>1. /\ i \in 1..(Len(c) - (Len(a) + 1) + 1)
        /\ (Len(a) + 1) + i - 1 = Len(a) + i
        /\ Len(a) + i \in 1..(Len(a) + Len(b)) /\ ~(Len(a) + i <= Len(a))
        /\ (Len(a) + i) - Len(a) = i
    BY <1>1
  <2>2. rest[i] = c[Len(a) + i]
    BY <1>3, <2>1
  <2>3. c[Len(a) + i] = b[(Len(a) + i) - Len(a)]
    BY <1>1, <2>1
  <2> QED
    BY <2>1, <2>2, <2>3
<1>6. rest = b
  BY <1>3, <1>4, <1>5, SeqEqual
<1> QED
  BY <1>6 DEF rest, c

(* An element put behind the second part is put behind the whole.           *)
LEMMA AppendToConcat ==
    ASSUME NEW S, NEW a \in Seq(S), NEW b \in Seq(S), NEW e \in S
    PROVE  a \o Append(b, e) = Append(a \o b, e)
<1>1. Append(b, e) = b \o <<e>> /\ Append(a \o b, e) = (a \o b) \o <<e>>
  BY AppendIsConcat
<1>2. (a \o b) \o <<e>> = a \o (b \o <<e>>)
  BY ConcatAssociative
<1> QED
  BY <1>1, <1>2

(* Moving the first element of b to the end of a leaves a \o b as it is.    *)
LEMMA MoveHead ==
    ASSUME NEW S, NEW a \in Seq(S), NEW b \in Seq(S), b # <<>>
    PROVE  Append(a, Head(b)) \o Tail(b) = a \o b
<1>1. Head(b) \in S /\ Tail(b) \in Seq(S) /\ <<Head(b)>> \in Seq(S)
  OBVIOUS
<1>2. Append(a, Head(b)) = a \o <<Head(b)>>
  BY <1>1, AppendIsConcat
<1>3. b = <<Head(b)>> \o Tail(b)
  <2> DEFINE q == <<Head(b)>> \o Tail(b)
  <2>1. /\ q \in Seq(S) /\ Len(q) = Len(<<Head(b)>>) + Len(Tail(b))
        /\ \A i \in 1..(Len(<<Head(b)>>) + Len(Tail(b))) :
              q[i] = IF i <= Len(<<Head(b)>>) THEN <<Head(b)>>[i] ELSE Tail(b)[i - Len(<<Head(b)>>)]
    BY <1>1, ConcatProperties
  <2>2. Len(b) \in Nat \ {0} /\ Len(Tail(b)) = Len(b) - 1 /\ Len(<<Head(b)>>) = 1
        /\ \A i \in 1..(Len(b) - 1) : Tail(b)[i] = b[i + 1]
    OBVIOUS
  <2>3. Len(q) = Len(b)
    BY <2>1, <2>2
  <2>4. \A i \in 1..Len(b) : q[i] = b[i]
    <3> HIDE DEF q
    <3> SUFFICES ASSUME NEW i \in 1..Len(b) PROVE q[i] = b[i]
      OBVIOUS
    <3>1. CASE i = 1
      <4>1. q[1] = <<Head(b)>>[1]
        BY <2>1, <2>2
      <4>2. Head(b) = b[1]
        OBVIOUS
      <4> QED
        BY <3>1, <4>1, <4>2
    <3>2. CASE i > 1
      <4>1. q[i] = Tail(b)[i - 1]
        BY <2>1, <2>2, <3>2
      <4>2. i - 1 \in 1..(Len(b) - 1) /\ (i - 1) + 1 = i
        BY <2>2, <3>2
      <4> QED
        BY <2>2, <4>1, <4>2
    <3> QED
      BY <3>1, <3>2
  <2> QED
    BY <2>1, <2>3, <2>4, SeqEqual
<1>4. (a \o <<Head(b)>>) \o Tail(b) = a \o (<<Head(b)>> \o Tail(b))
  BY <1>1, ConcatAssociative
<1> QED
  BY <1>2, <1>3, <1>4

---------------------------------------------------------------------------
(* The order of the lines. *)

All == port \o pending

Numbered(q) == \A i \in 1..Len(q) : q[i].n <= sent[q[i].by]

IInv ==
    /\ sent \in [Senders -> Nat]
    /\ pending \in Seq(Line) /\ port \in Seq(Line)
    /\ closing \in BOOLEAN
    /\ Numbered(All)
    /\ Ordered(All)

(* What is left of q when its elements a+1 .. b are taken out.              *)
Cut(q, a, b) == [i \in 1..(Len(q) - (b - a)) |-> IF i <= a THEN q[i] ELSE q[i + (b - a)]]

LEMMA CutKeepsOrder ==
    ASSUME NEW q \in Seq(Line), NEW a \in 0..Len(q), NEW b \in a..Len(q),
           Ordered(q), Numbered(q)
    PROVE  Ordered(Cut(q, a, b)) /\ Numbered(Cut(q, a, b))
<1> DEFINE c == Cut(q, a, b)
           at(i) == IF i <= a THEN i ELSE i + (b - a)
<1>1. c = [i \in 1..(Len(q) - (b - a)) |-> IF i <= a THEN q[i] ELSE q[i + (b - a)]]
  BY DEF Cut
<1>2. Len(q) \in Nat /\ a \in Nat /\ b \in Nat /\ a <= b /\ b <= Len(q)
  OBVIOUS
<1>3. Len(c) = Len(q) - (b - a)
  BY <1>1, <1>2
<1>4. \A i \in 1..Len(c) : at(i) \in 1..Len(q) /\ c[i] = q[at(i)]
  BY <1>1, <1>2, <1>3
<1>5. \A i, j \in 1..Len(c) : i < j => at(i) < at(j)
  BY <1>2, <1>3
<1> HIDE DEF c, at
<1>6. Ordered(c)
  BY <1>4, <1>5 DEF Ordered
<1>7. Numbered(c)
  BY <1>4 DEF Numbered
<1> QED
  BY <1>6, <1>7 DEF c

(* Writing k of the first m pending lines and dropping the rest of them.    *)
LEMMA CutOfAll ==
    ASSUME NEW m \in 0..Len(pending), NEW k \in 0..m,
           pending \in Seq(Line), port \in Seq(Line)
    PROVE  (port \o SubSeq(pending, 1, k)) \o From(pending, m)
             = Cut(All, Len(port) + k, Len(port) + m)
<1> DEFINE a == port \o SubSeq(pending, 1, k)
           b == From(pending, m)
           left == (port \o SubSeq(pending, 1, k)) \o From(pending, m)
           right == Cut(All, Len(port) + k, Len(port) + m)
<1>1. Len(port) \in Nat /\ Len(pending) \in Nat /\ k \in Nat /\ m \in Nat
      /\ k <= m /\ m <= Len(pending)
  OBVIOUS
<1>2. /\ SubSeq(pending, 1, k) \in Seq(Line) /\ Len(SubSeq(pending, 1, k)) = k
      /\ \A i \in 1..k : SubSeq(pending, 1, k)[i] = pending[i]
  BY <1>1
<1>3. /\ b \in Seq(Line) /\ Len(b) = Len(pending) - m
      /\ \A i \in 1..(Len(pending) - m) : b[i] = pending[m + i]
  BY <1>1 DEF From
<1>4. /\ a \in Seq(Line) /\ Len(a) = Len(port) + k
      /\ \A i \in 1..(Len(port) + k) : a[i] =
            IF i <= Len(port) THEN port[i] ELSE pending[i - Len(port)]
  BY <1>1, <1>2
<1>11. left = a \o b
  OBVIOUS
<1> HIDE DEF a, b, left
<1>12. /\ left \in Seq(Line) /\ Len(left) = Len(a) + Len(b)
       /\ \A i \in 1..Len(left) : left[i] = IF i <= Len(a) THEN a[i] ELSE b[i - Len(a)]
  BY <1>3, <1>4, <1>11
<1>5. /\ left \in Seq(Line) /\ Len(left) = Len(port) + Len(pending) - (m - k)
      /\ \A i \in 1..Len(left) : left[i] =
            IF i <= Len(port) THEN port[i]
            ELSE IF i <= Len(port) + k THEN pending[i - Len(port)]
            ELSE pending[i - Len(port) + (m - k)]
  <2>1. Len(left) = Len(port) + Len(pending) - (m - k)
    BY <1>1, <1>3, <1>4, <1>12
  <2> SUFFICES ASSUME NEW i \in 1..Len(left)
               PROVE  left[i] = IF i <= Len(port) THEN port[i]
                                ELSE IF i <= Len(port) + k THEN pending[i - Len(port)]
                                ELSE pending[i - Len(port) + (m - k)]
    BY <1>12, <2>1
  <2>2. CASE i <= Len(port) + k
    BY <1>1, <1>4, <1>12, <2>2
  <2>3. CASE i > Len(port) + k
    <3>1. i - Len(a) \in 1..(Len(pending) - m)
      BY <1>1, <1>4, <2>1, <2>3
    <3>2. left[i] = b[i - Len(a)]
      BY <1>1, <1>4, <1>12, <2>3
    <3>3. m + (i - Len(a)) = i - Len(port) + (m - k)
      BY <1>1, <1>4
    <3>4. b[i - Len(a)] = pending[m + (i - Len(a))]
      BY <1>3, <3>1
    <3>5. left[i] = pending[i - Len(port) + (m - k)]
      BY <3>2, <3>3, <3>4
    <3>6. ~(i <= Len(port)) /\ ~(i <= Len(port) + k)
      BY <1>1, <1>12, <2>3
    <3> QED
      BY <3>5, <3>6
  <2> QED
    BY <1>1, <2>1, <2>2, <2>3
<1>6. /\ All \in Seq(Line) /\ Len(All) = Len(port) + Len(pending)
      /\ \A i \in 1..Len(All) : All[i] =
            IF i <= Len(port) THEN port[i] ELSE pending[i - Len(port)]
  BY <1>1 DEF All
<1>7. right = [i \in 1..(Len(port) + Len(pending) - (m - k)) |->
                 IF i <= Len(port) + k THEN All[i] ELSE All[i + (m - k)]]
  BY <1>1, <1>6 DEF Cut
<1> HIDE DEF right
<1>8. right \in Seq(Line) /\ Len(right) = Len(port) + Len(pending) - (m - k)
  <2> DEFINE size == Len(port) + Len(pending) - (m - k)
  <2>1. \A i \in 1..size : (IF i <= Len(port) + k THEN All[i] ELSE All[i + (m - k)]) \in Line
    BY <1>1, <1>6
  <2>2. size \in Nat
    BY <1>1
  <2> HIDE DEF size
  <2> QED
    BY <1>7, <2>1, <2>2 DEF size
<1>9. \A i \in 1..Len(left) : left[i] = right[i]
  <2> SUFFICES ASSUME NEW i \in 1..Len(left) PROVE left[i] = right[i]
    OBVIOUS
  <2>1. right[i] = IF i <= Len(port) + k THEN All[i] ELSE All[i + (m - k)]
    BY <1>1, <1>5, <1>7
  <2>2. CASE i <= Len(port) + k
    <3>1. i \in 1..Len(All)
      BY <1>1, <1>5, <1>6, <2>2
    <3>2. right[i] = IF i <= Len(port) THEN port[i] ELSE pending[i - Len(port)]
      BY <1>6, <2>1, <2>2, <3>1
    <3>3. left[i] = IF i <= Len(port) THEN port[i] ELSE pending[i - Len(port)]
      BY <1>5, <2>2
    <3> QED
      BY <3>2, <3>3
  <2>3. CASE i > Len(port) + k
    <3>1. /\ i + (m - k) \in 1..Len(All) /\ i + (m - k) > Len(port)
          /\ i + (m - k) - Len(port) = i - Len(port) + (m - k)
      BY <1>1, <1>5, <1>6, <2>3
    <3>2. right[i] = pending[i - Len(port) + (m - k)]
      BY <1>1, <1>6, <2>1, <2>3, <3>1
    <3> QED
      BY <1>1, <1>5, <2>3, <3>2
  <2> QED
    BY <1>1, <1>5, <2>2, <2>3
<1>10. left = right
  BY <1>5, <1>8, <1>9
<1> QED
  BY <1>10 DEF left, right, a, b

LEMMA PutKeeps ==
    ASSUME IInv, NEW s \in Senders, Put(s)
    PROVE  IInv'
<1> DEFINE line == [by |-> s, n |-> sent[s] + 1]
<1>1. line \in Line /\ sent[s] \in Nat
  BY DEF IInv, Line
<1>2. /\ sent' \in [Senders -> Nat]
      /\ \A t \in Senders : sent'[t] = IF t = s THEN sent[t] + 1 ELSE sent[t]
  BY DEF IInv, Put
<1>3. /\ pending' = Append(pending, line) /\ port' = port /\ closing' = closing
      /\ pending' \in Seq(Line) /\ port' \in Seq(Line) /\ closing' \in BOOLEAN
  BY <1>1 DEF IInv, Put
<1>4. All' = Append(All, line) /\ All \in Seq(Line)
  BY <1>1, <1>3 DEF IInv, All
<1> HIDE DEF line
<1>5. /\ Len(All') = Len(All) + 1 /\ Len(All) \in Nat
      /\ \A i \in 1..Len(All) : All'[i] = All[i] /\ All[i] \in Line
      /\ All'[Len(All) + 1] = line
  BY <1>1, <1>4
<1>6. \A i \in 1..Len(All) : All[i].by \in Senders /\ All[i].n \in Nat
                              /\ All[i].n <= sent[All[i].by]
  BY <1>5 DEF IInv, Numbered, Line
<1>7. line.by = s /\ line.n = sent[s] + 1
  BY DEF line
<1>8. Numbered(All)'
  <2> SUFFICES ASSUME NEW i \in 1..Len(All')
               PROVE  All'[i].n <= sent'[All'[i].by]
    BY DEF Numbered
  <2>1. CASE i \in 1..Len(All)
    <3>1. sent[All[i].by] \in Nat
      BY <1>6, <2>1 DEF IInv
    <3> QED
      BY <1>2, <1>5, <1>6, <2>1, <3>1
  <2>2. CASE i = Len(All) + 1
    BY <1>1, <1>2, <1>5, <1>7, <2>2
  <2> QED
    BY <1>5, <2>1, <2>2
<1>9. Ordered(All)'
  <2> SUFFICES ASSUME NEW i \in 1..Len(All'), NEW j \in 1..Len(All'),
                      i < j, All'[i].by = All'[j].by
               PROVE  All'[i].n < All'[j].n
    BY DEF Ordered
  <2>1. i \in 1..Len(All)
    BY <1>5
  <2>2. CASE j \in 1..Len(All)
    BY <1>5, <2>1, <2>2 DEF IInv, Ordered
  <2>3. CASE j = Len(All) + 1
    BY <1>1, <1>5, <1>6, <1>7, <2>1, <2>3
  <2> QED
    BY <1>5, <2>2, <2>3
<1> QED
  BY <1>2, <1>3, <1>8, <1>9 DEF IInv

LEMMA FailKeeps ==
    ASSUME IInv, NEW m \in 0..Len(pending), NEW k \in 0..m,
           sent' = sent, closing' = closing,
           port' = port \o SubSeq(pending, 1, k),
           pending' = From(pending, m)
    PROVE  IInv'
<1>1. port' \in Seq(Line) /\ pending' \in Seq(Line)
  BY DEF IInv, From
<1>2. All' = Cut(All, Len(port) + k, Len(port) + m)
  BY CutOfAll DEF IInv, All
<1>3. /\ All \in Seq(Line) /\ Len(port) + k \in 0..Len(All)
      /\ Len(port) + m \in (Len(port) + k)..Len(All)
  BY DEF IInv, All
<1>4. Ordered(Cut(All, Len(port) + k, Len(port) + m))
      /\ Numbered(Cut(All, Len(port) + k, Len(port) + m))
  BY <1>3, CutKeepsOrder DEF IInv
<1>5. Ordered(All') /\ Numbered(All')
  BY <1>2, <1>4
<1> QED
  BY <1>1, <1>5 DEF IInv, Numbered, Ordered

LEMMA Inductive == IInv /\ [Next]_vars => IInv'
<1> SUFFICES ASSUME IInv, [Next]_vars PROVE IInv'
  OBVIOUS
<1>1. ASSUME NEW s \in Senders, Put(s) PROVE IInv'
  BY <1>1, PutKeeps
<1>2. ASSUME NEW k \in 1..Len(pending), Write(k) PROVE IInv'
  <2>1. k \in 0..Len(pending) /\ k \in 0..k
    BY <1>2 DEF IInv
  <2> QED
    BY <1>2, <2>1, FailKeeps DEF Write
<1>3. ASSUME NEW m \in 1..Len(pending), NEW k \in 0..m, Fail(k, m) PROVE IInv'
  <2>1. m \in 0..Len(pending)
    BY <1>3 DEF IInv
  <2> QED
    BY <1>3, <2>1, FailKeeps DEF Fail
<1>4. CASE Close
  <2>1. CASE pending' = pending
    BY <1>4, <2>1 DEF Close, IInv, All, Ordered, Numbered
  <2>2. CASE pending' = <<>>
    <3> DEFINE n == Len(pending)
    <3>1. n \in Nat /\ n \in 0..n /\ 0 \in 0..n
      BY DEF IInv
    <3>2. SubSeq(pending, 1, 0) = <<>> /\ From(pending, n) = <<>>
      BY DEF IInv, From
    <3>3. All' = (port \o SubSeq(pending, 1, 0)) \o From(pending, n)
      BY <1>4, <2>2, <3>2 DEF IInv, Close, All
    <3>6. All' = Cut(All, Len(port) + 0, Len(port) + n)
      BY <3>1, <3>3, CutOfAll DEF IInv
    <3>4. /\ All \in Seq(Line) /\ Len(port) + 0 \in 0..Len(All)
          /\ Len(port) + n \in (Len(port) + 0)..Len(All)
      BY DEF IInv, All
    <3>5. Ordered(All') /\ Numbered(All')
      BY <3>6, <3>4, CutKeepsOrder DEF IInv
    <3> QED
      BY <1>4, <2>2, <3>5 DEF IInv, Close, Ordered, Numbered
  <2> QED
    BY <1>4, <2>1, <2>2 DEF Close
<1>5. CASE UNCHANGED vars
  <2>1. All' = All
    BY <1>5 DEF vars, All
  <2> QED
    BY <1>5, <2>1 DEF vars, IInv, Ordered, Numbered
<1> QED
  BY <1>1, <1>2, <1>3, <1>4, <1>5 DEF Next

(* No line is written out of its thread's order, or twice.                  *)
THEOREM PipeInOrder == Spec => []InOrder
<1>1. Init => IInv
  <2> SUFFICES ASSUME Init PROVE IInv
    OBVIOUS
  <2>1. All = <<>> /\ 1..Len(All) = {}
    BY DEF Init, All
  <2>2. Ordered(All) /\ Numbered(All)
    BY <2>1 DEF Ordered, Numbered
  <2>3. sent \in [Senders -> Nat]
    BY DEF Init
  <2>5. <<>> \in Seq(Line)
    OBVIOUS
  <2>4. pending \in Seq(Line) /\ port \in Seq(Line) /\ closing \in BOOLEAN
    BY <2>5 DEF Init
  <2> QED
    BY <2>2, <2>3, <2>4 DEF IInv
<1>2. IInv => InOrder
  BY DEF IInv, InOrder, All
<1> QED
  BY <1>1, <1>2, Inductive, PTL DEF Spec

=============================================================================
