---------------------------- MODULE CangwProofs ----------------------------
(***************************************************************************)
(* The gateways for any interfaces, any number of frames and any length of *)
(* the sockets' queues: whichever program forwards them, the frames of an  *)
(* interface leave in the order they came, none twice, and each that came  *)
(* is in exactly one place.                                                *)
(***************************************************************************)
EXTENDS Cangw, TLAPS

Frame == [src: Interfaces, n: Nat, kind: Kinds]
OutFrame == [src: Interfaces, n: Nat, data: {"copied", "zeros", "none"}]

(* The frames of one interface in q are in order; those of s come after n;  *)
(* all have arrived.                                                        *)
Ordered(q) == \A i, j \in 1..Len(q) : i < j /\ q[i].src = q[j].src => q[i].n < q[j].n
After(q, s, n) == \A i \in 1..Len(q) : q[i].src = s => q[i].n > n
Came(q, a) == \A i \in 1..Len(q) : q[i].n <= a[q[i].src]

TypeInv ==
    /\ prog \in Programs /\ arrived \in [Interfaces -> Nat]
    /\ queue \in [Sockets -> Seq(Frame)] /\ buffer \in [Sources -> Seq(Frame)]
    /\ hand \in [Workers -> Frame \cup {None}]
    /\ pending \in Seq(Frame) /\ out \in Seq(OutFrame)

(* A socket has the frames it hears, a worker those of its interface; only  *)
(* asio has sends under way, only py has frames in buffers.                 *)
PlaceInv ==
    /\ \A k \in Sockets : \A i \in 1..Len(queue[k]) : Socket(queue[k][i].src) = k
    /\ \A s \in Sources : \A i \in 1..Len(buffer[s]) : buffer[s][i].src = s
    /\ \A w \in Workers : hand[w] # None => hand[w].src \in Sources /\ Worker(hand[w].src) = w
    /\ \A i \in 1..Len(pending) : pending[i].src \in Sources
    /\ \A i \in 1..Len(out) : out[i].src \in Sources
    /\ prog = "asio" => \A w \in Workers : hand[w] = None
    /\ prog # "asio" => pending = <<>>
    /\ prog # "py" => \A s \in Sources : buffer[s] = <<>>

(* What has gone further came earlier. *)
Queued(s, n) == After(queue[Socket(s)], s, n)
Buffered(s, n) == After(buffer[s], s, n)
InHand(s, n) == hand[Worker(s)].src = s => hand[Worker(s)].n > n

QueueOrder == \A k \in Sockets : Ordered(queue[k]) /\ Came(queue[k], arrived)
BufferOrder ==
    \A s \in Sources :
        /\ Ordered(buffer[s]) /\ Came(buffer[s], arrived)
        /\ \A i \in 1..Len(buffer[s]) : Queued(s, buffer[s][i].n)
HandOrder ==
    \A w \in Workers : hand[w] # None =>
        /\ hand[w].n <= arrived[hand[w].src]
        /\ Queued(hand[w].src, hand[w].n) /\ Buffered(hand[w].src, hand[w].n)
PendingOrder ==
    /\ Ordered(pending) /\ Came(pending, arrived)
    /\ \A i \in 1..Len(pending) : Queued(pending[i].src, pending[i].n)
OutOrder ==
    /\ Ordered(out) /\ Came(out, arrived)
    /\ \A i \in 1..Len(out) :
          /\ Queued(out[i].src, out[i].n) /\ Buffered(out[i].src, out[i].n)
          /\ InHand(out[i].src, out[i].n) /\ After(pending, out[i].src, out[i].n)
OrderInv == QueueOrder /\ BufferOrder /\ HandOrder /\ PendingOrder /\ OutOrder

IInv == TypeInv /\ PlaceInv /\ OrderInv

---------------------------------------------------------------------------
(* Sequences of frames. *)

LEMMA TailKeeps ==
    ASSUME NEW S, NEW q \in Seq(S), q # <<>>
    PROVE  /\ Tail(q) \in Seq(S) /\ Head(q) \in S /\ Head(q) = q[1]
           /\ Len(q) \in Nat /\ Len(Tail(q)) = Len(q) - 1
           /\ \A i \in 1..Len(Tail(q)) : Tail(q)[i] = q[i + 1] /\ i + 1 \in 1..Len(q)
  OBVIOUS

LEMMA TailOrdered ==
    ASSUME NEW S, NEW q \in Seq(S), q # <<>>, Ordered(q),
           \A i \in 1..Len(q) : q[i].n \in Nat
    PROVE  Ordered(Tail(q)) /\ After(Tail(q), Head(q).src, Head(q).n)
<1>1. /\ Len(q) \in Nat /\ Len(q) > 0 /\ Len(Tail(q)) = Len(q) - 1 /\ Head(q) = q[1]
      /\ \A i \in 1..Len(Tail(q)) : Tail(q)[i] = q[i + 1] /\ i + 1 \in 1..Len(q)
  BY TailKeeps
<1>2. Ordered(Tail(q))
  <2> SUFFICES ASSUME NEW i \in 1..Len(Tail(q)), NEW j \in 1..Len(Tail(q)), i < j,
                      Tail(q)[i].src = Tail(q)[j].src
               PROVE  Tail(q)[i].n < Tail(q)[j].n
    BY DEF Ordered
  <2>1. i + 1 \in 1..Len(q) /\ j + 1 \in 1..Len(q) /\ i + 1 < j + 1
    BY <1>1
  <2> QED
    BY <1>1, <2>1 DEF Ordered
<1>3. After(Tail(q), Head(q).src, Head(q).n)
  <2> SUFFICES ASSUME NEW i \in 1..Len(Tail(q)), Tail(q)[i].src = Head(q).src
               PROVE  Tail(q)[i].n > Head(q).n
    BY DEF After
  <2>1. i + 1 \in 1..Len(q) /\ 1 \in 1..Len(q) /\ 1 < i + 1
    BY <1>1
  <2>2. q[1].n < q[i + 1].n
    BY <1>1, <2>1 DEF Ordered
  <2>3. q[1].n \in Nat /\ q[i + 1].n \in Nat
    BY <2>1
  <2> QED
    BY <1>1, <2>2, <2>3
<1> QED
  BY <1>2, <1>3

LEMMA TailAfter ==
    ASSUME NEW S, NEW q \in Seq(S), q # <<>>, NEW s, NEW n, After(q, s, n)
    PROVE  After(Tail(q), s, n)
  BY TailKeeps DEF After

LEMMA TailCame ==
    ASSUME NEW S, NEW q \in Seq(S), q # <<>>, NEW a, Came(q, a)
    PROVE  Came(Tail(q), a)
  BY TailKeeps DEF Came

LEMMA AppendKeeps ==
    ASSUME NEW S, NEW q \in Seq(S), NEW f \in S
    PROVE  /\ Append(q, f) \in Seq(S) /\ Len(q) \in Nat /\ Len(Append(q, f)) = Len(q) + 1
           /\ \A i \in 1..Len(q) : Append(q, f)[i] = q[i]
           /\ Append(q, f)[Len(q) + 1] = f
  OBVIOUS

LEMMA AppendOrdered ==
    ASSUME NEW S, NEW q \in Seq(S), NEW f \in S, Ordered(q),
           \A i \in 1..Len(q) : q[i].src = f.src => q[i].n < f.n
    PROVE  Ordered(Append(q, f))
<1> SUFFICES ASSUME NEW i \in 1..Len(Append(q, f)), NEW j \in 1..Len(Append(q, f)), i < j,
                    Append(q, f)[i].src = Append(q, f)[j].src
             PROVE  Append(q, f)[i].n < Append(q, f)[j].n
  BY DEF Ordered
<1>1. /\ Len(q) \in Nat /\ Len(Append(q, f)) = Len(q) + 1
      /\ \A k \in 1..Len(q) : Append(q, f)[k] = q[k]
      /\ Append(q, f)[Len(q) + 1] = f
  BY AppendKeeps
<1>2. i \in 1..Len(q) /\ Append(q, f)[i] = q[i]
  BY <1>1
<1>3. CASE j \in 1..Len(q)
  BY <1>1, <1>2, <1>3 DEF Ordered
<1>4. CASE j = Len(q) + 1
  BY <1>1, <1>2, <1>4
<1> QED
  BY <1>1, <1>3, <1>4

LEMMA AppendAfter ==
    ASSUME NEW S, NEW q \in Seq(S), NEW f \in S, NEW s, NEW n, After(q, s, n),
           f.src = s => f.n > n
    PROVE  After(Append(q, f), s, n)
<1>1. /\ Len(q) \in Nat /\ Len(Append(q, f)) = Len(q) + 1
      /\ \A k \in 1..Len(q) : Append(q, f)[k] = q[k]
      /\ Append(q, f)[Len(q) + 1] = f
  BY AppendKeeps
<1>2. \A i \in 1..Len(Append(q, f)) : i \in 1..Len(q) \/ i = Len(q) + 1
  BY <1>1
<1> QED
  BY <1>1, <1>2 DEF After

LEMMA AppendCame ==
    ASSUME NEW S, NEW q \in Seq(S), NEW f \in S, NEW a, Came(q, a), f.n <= a[f.src]
    PROVE  Came(Append(q, f), a)
<1>1. /\ Len(q) \in Nat /\ Len(Append(q, f)) = Len(q) + 1
      /\ \A k \in 1..Len(q) : Append(q, f)[k] = q[k]
      /\ Append(q, f)[Len(q) + 1] = f
  BY AppendKeeps
<1>2. \A i \in 1..Len(Append(q, f)) : i \in 1..Len(q) \/ i = Len(q) + 1
  BY <1>1
<1> QED
  BY <1>1, <1>2 DEF Came

LEMMA NoneIsNoFrame == None \notin Frame /\ \A f \in Frame : f # None
  BY CangwAssumption DEF None, Frame, Interfaces

(* An element of the sequence of frames is a frame. *)
LEMMA Elements ==
    ASSUME NEW S, NEW q \in Seq(S)
    PROVE  Len(q) \in Nat /\ \A i \in 1..Len(q) : q[i] \in S
  OBVIOUS

---------------------------------------------------------------------------
LEMMA InitHolds == Init => IInv
<1> SUFFICES ASSUME Init PROVE IInv
  OBVIOUS
<1>1. /\ arrived \in [Interfaces -> Nat] /\ queue \in [Sockets -> Seq(Frame)]
      /\ buffer \in [Sources -> Seq(Frame)] /\ hand \in [Workers -> Frame \cup {None}]
      /\ pending \in Seq(Frame) /\ out \in Seq(OutFrame)
  <2>1. <<>> \in Seq(Frame) /\ <<>> \in Seq(OutFrame)
    OBVIOUS
  <2> QED
    BY <2>1 DEF Init
<1>2. /\ \A k \in Sockets : queue[k] = <<>>
      /\ \A s \in Sources : buffer[s] = <<>>
      /\ \A w \in Workers : hand[w] = None
      /\ pending = <<>> /\ out = <<>> /\ Len(<<>>) = 0
  BY DEF Init
<1>3. TypeInv
  BY <1>1 DEF Init, TypeInv
<1>4. PlaceInv
  BY <1>2 DEF PlaceInv
<1>5. \A a : Ordered(<<>>) /\ Came(<<>>, a)
  BY DEF Ordered, Came
<1>6. OrderInv
  BY <1>2, <1>5 DEF OrderInv, QueueOrder, BufferOrder, HandOrder, PendingOrder, OutOrder
<1> QED
  BY <1>3, <1>4, <1>6 DEF IInv

(* Sockets and workers. *)
LEMMA Names ==
    ASSUME TypeInv
    PROVE  /\ \A s \in Interfaces : Socket(s) \in Sockets
           /\ \A s \in Sources : s \in Interfaces /\ Worker(s) \in Workers
           /\ prog # "single" => \A s : Socket(s) = s
           /\ prog = "single" => \A s : Socket(s) = "any" /\ Worker(s) = "main"
           /\ prog \in {"asio", "py"} => \A s : Worker(s) = s
  BY DEF Socket, BoundTo, Sockets, Worker, OneThread, Workers, Interfaces

(* What has come stays come when more comes. *)
LEMMA CameLater ==
    ASSUME NEW q, NEW a, NEW b, Came(q, a),
           \A i \in 1..Len(q) : q[i].n \in Nat /\ a[q[i].src] \in Nat /\ b[q[i].src] \in Nat
                               /\ a[q[i].src] <= b[q[i].src]
    PROVE  Came(q, b)
  BY DEF Came

(* The steps that touch no frame. *)
Still == /\ prog' = prog /\ arrived' = arrived /\ queue' = queue /\ buffer' = buffer
         /\ hand' = hand /\ pending' = pending /\ out' = out

LEMMA StillKeeps == IInv /\ Still => IInv'
<1> SUFFICES ASSUME IInv, Still PROVE IInv'
  OBVIOUS
<1>1. TypeInv'
  BY DEF IInv, Still, TypeInv
<1>2. PlaceInv'
  BY DEF IInv, Still, PlaceInv, Socket, Worker, OneThread
<1>3. OrderInv'
  BY DEF IInv, Still, OrderInv, QueueOrder, BufferOrder, HandOrder, PendingOrder, OutOrder,
         Queued, Buffered, InHand, Socket, Worker, OneThread
<1> QED
  BY <1>1, <1>2, <1>3 DEF IInv

---------------------------------------------------------------------------
(* A frame arrives: its number is above all numbers of its interface. *)
LEMMA ArriveKeeps == \A s \in Interfaces, kind \in Kinds : IInv /\ Arrive(s, kind) => IInv'
<1> SUFFICES ASSUME NEW s \in Interfaces, NEW kind \in Kinds, IInv, Arrive(s, kind) PROVE IInv'
  OBVIOUS
<1> DEFINE f == [src |-> s, n |-> arrived[s] + 1, kind |-> kind]
           k == Socket(s)
<1>1. TypeInv /\ PlaceInv /\ OrderInv
  BY DEF IInv
<1>2. /\ arrived' = [arrived EXCEPT ![s] = @ + 1]
      /\ queue' = [queue EXCEPT ![k] = Append(@, f)] \/ queue' = queue
      /\ prog' = prog /\ buffer' = buffer /\ hand' = hand /\ pending' = pending /\ out' = out
  BY DEF Arrive
<1>3. /\ k \in Sockets /\ arrived \in [Interfaces -> Nat] /\ arrived[s] \in Nat
      /\ queue \in [Sockets -> Seq(Frame)] /\ f \in Frame /\ f.src = s /\ f.n = arrived[s] + 1
  <2>1. /\ arrived \in [Interfaces -> Nat] /\ arrived[s] \in Nat
        /\ queue \in [Sockets -> Seq(Frame)]
    BY <1>1 DEF TypeInv
  <2>2. k \in Sockets
    BY <1>1, Names
  <2>3. f \in Frame /\ f.src = s /\ f.n = arrived[s] + 1
    BY <2>1 DEF Frame
  <2> QED
    BY <2>1, <2>2, <2>3
<1>4. /\ arrived' \in [Interfaces -> Nat] /\ arrived'[s] = arrived[s] + 1
      /\ \A x \in Interfaces : arrived[x] \in Nat /\ arrived'[x] \in Nat /\ arrived[x] <= arrived'[x]
  BY <1>2, <1>3
<1> HIDE DEF f, k
<1>5. /\ queue' \in [Sockets -> Seq(Frame)]
      /\ \A x \in Sockets : x # k => queue'[x] = queue[x]
      /\ queue'[k] = Append(queue[k], f) \/ queue'[k] = queue[k]
      /\ queue[k] \in Seq(Frame)
  <2>1. queue[k] \in Seq(Frame) /\ Append(queue[k], f) \in Seq(Frame)
    BY <1>3, AppendKeeps
  <2>2. CASE queue' = queue
    BY <1>3, <2>1, <2>2
  <2>3. CASE queue' = [queue EXCEPT ![k] = Append(@, f)]
    BY <1>3, <2>1, <2>3
  <2> QED
    BY <1>2, <2>2, <2>3
<1>6. TypeInv'
  BY <1>1, <1>2, <1>4, <1>5 DEF TypeInv
<1>7. Socket(s)' = k /\ \A x : Socket(x)' = Socket(x) /\ Worker(x)' = Worker(x)
  BY <1>2 DEF Socket, Worker, OneThread, k
<1>8. PlaceInv'
  <2>1. \A x \in Sockets : \A i \in 1..Len(queue'[x]) : Socket(queue'[x][i].src) = x
    <3>1. \A x \in Sockets : \A i \in 1..Len(queue[x]) : Socket(queue[x][i].src) = x
      BY <1>1 DEF PlaceInv
    <3>2. CASE queue'[k] = Append(queue[k], f)
      <4>1. \A i \in 1..Len(queue'[k]) : i \in 1..Len(queue[k]) \/ i = Len(queue[k]) + 1
        BY <1>3, <1>5, <3>2, AppendKeeps
      <4>2. \A i \in 1..Len(queue'[k]) : Socket(queue'[k][i].src) = k
        BY <1>3, <1>5, <3>1, <3>2, <4>1, AppendKeeps DEF k
      <4> QED
        BY <1>5, <3>1, <4>2
    <3>3. CASE queue'[k] = queue[k]
      BY <1>5, <3>1, <3>3
    <3> QED
      BY <1>5, <3>2, <3>3
  <2> QED
    BY <1>1, <1>2, <1>7, <2>1 DEF PlaceInv
<1>9. ASSUME NEW x \in Interfaces, NEW n \in Nat, n <= arrived[x], Queued(x, n)
      PROVE  After(queue'[Socket(x)], x, n)
  <2>1. After(queue[Socket(x)], x, n) /\ Socket(x) \in Sockets
    BY <1>1, <1>9, Names DEF Queued
  <2>2. CASE Socket(x) # k \/ queue'[k] = queue[k]
    BY <1>5, <2>1, <2>2
  <2>3. CASE Socket(x) = k /\ queue'[k] = Append(queue[k], f)
    <3>1. f.src = x => f.n > n
      BY <1>3, <1>9
    <3>2. After(Append(queue[k], f), x, n)
      BY <1>3, <1>5, <2>1, <2>3, <3>1, AppendAfter
    <3> QED
      BY <2>3, <3>2
  <2> QED
    BY <1>5, <2>2, <2>3
<1>10. QueueOrder'
  <2>1. ASSUME NEW x \in Sockets PROVE Ordered(queue'[x]) /\ Came(queue'[x], arrived')
    <3>1. /\ queue[x] \in Seq(Frame) /\ Ordered(queue[x]) /\ Came(queue[x], arrived)
          /\ \A i \in 1..Len(queue[x]) : queue[x][i] \in Frame
      BY <1>1, <1>3, Elements DEF OrderInv, QueueOrder
    <3>2. Came(queue[x], arrived')
      BY <1>4, <3>1, CameLater DEF Frame
    <3>3. CASE queue'[x] = queue[x]
      BY <3>1, <3>2, <3>3
    <3>4. CASE x = k /\ queue'[k] = Append(queue[k], f)
      <4>1. \A i \in 1..Len(queue[k]) : queue[k][i].src = f.src => queue[k][i].n < f.n
        BY <1>3, <3>1, <3>4 DEF Came, Frame
      <4>2. Ordered(Append(queue[k], f))
        BY <1>3, <3>1, <3>4, <4>1, AppendOrdered
      <4>3. Came(Append(queue[k], f), arrived')
        BY <1>3, <1>4, <3>1, <3>2, <3>4, AppendCame
      <4> QED
        BY <3>4, <4>2, <4>3
    <3> QED
      BY <1>5, <3>3, <3>4
  <2> QED
    BY <2>1 DEF QueueOrder
<1>11. BufferOrder'
  <2>1. ASSUME NEW x \in Sources
        PROVE  /\ Ordered(buffer[x]) /\ Came(buffer[x], arrived')
               /\ \A i \in 1..Len(buffer[x]) : After(queue'[Socket(x)], x, buffer[x][i].n)
    <3>1. /\ buffer[x] \in Seq(Frame) /\ Ordered(buffer[x]) /\ Came(buffer[x], arrived)
          /\ \A i \in 1..Len(buffer[x]) : buffer[x][i].src = x /\ Queued(x, buffer[x][i].n)
      BY <1>1 DEF TypeInv, PlaceInv, OrderInv, BufferOrder
    <3>2. \A i \in 1..Len(buffer[x]) : buffer[x][i] \in Frame
      BY <3>1, Elements
    <3>3. Came(buffer[x], arrived')
      BY <1>4, <3>1, <3>2, CameLater DEF Frame
    <3>4. \A i \in 1..Len(buffer[x]) : buffer[x][i].n \in Nat /\ buffer[x][i].n <= arrived[x]
      BY <3>1, <3>2 DEF Came, Frame
    <3>5. x \in Interfaces
      BY DEF Interfaces
    <3>6. \A i \in 1..Len(buffer[x]) : After(queue'[Socket(x)], x, buffer[x][i].n)
      BY <1>9, <3>1, <3>4, <3>5
    <3> QED
      BY <3>1, <3>3, <3>6
  <2> QED
    BY <1>2, <1>7, <2>1 DEF BufferOrder, Queued
<1>12. HandOrder'
  <2>1. ASSUME NEW w \in Workers, hand[w] # None
        PROVE  /\ hand[w].n <= arrived'[hand[w].src]
               /\ After(queue'[Socket(hand[w].src)], hand[w].src, hand[w].n)
               /\ Buffered(hand[w].src, hand[w].n)
    <3>1. hand[w] \in Frame
      BY <1>1, <2>1 DEF TypeInv
    <3>2. /\ hand[w].n <= arrived[hand[w].src]
          /\ Queued(hand[w].src, hand[w].n) /\ Buffered(hand[w].src, hand[w].n)
      BY <1>1, <2>1 DEF OrderInv, HandOrder
    <3>3. hand[w].src \in Interfaces /\ hand[w].n \in Nat
      BY <3>1 DEF Frame
    <3>4. After(queue'[Socket(hand[w].src)], hand[w].src, hand[w].n)
      BY <1>9, <3>2, <3>3
    <3>5. hand[w].n <= arrived'[hand[w].src]
      BY <1>4, <3>2, <3>3
    <3> QED
      BY <3>2, <3>4, <3>5
  <2> QED
    BY <1>2, <1>7, <2>1 DEF HandOrder, Queued, Buffered
<1>13. PendingOrder'
  <2>1. /\ pending \in Seq(Frame) /\ Ordered(pending) /\ Came(pending, arrived)
        /\ \A i \in 1..Len(pending) : Queued(pending[i].src, pending[i].n)
    BY <1>1 DEF TypeInv, OrderInv, PendingOrder
  <2>2. \A i \in 1..Len(pending) : pending[i].src \in Interfaces /\ pending[i].n \in Nat
    <3>1. \A i \in 1..Len(pending) : pending[i] \in Frame
      BY <2>1, Elements
    <3> QED
      BY <3>1 DEF Frame
  <2>3. Came(pending, arrived')
    BY <1>4, <2>1, <2>2, CameLater
  <2>4. \A i \in 1..Len(pending) : pending[i].n <= arrived[pending[i].src]
    BY <2>1 DEF Came
  <2>5. \A i \in 1..Len(pending) : After(queue'[Socket(pending[i].src)], pending[i].src, pending[i].n)
    BY <1>9, <2>1, <2>2, <2>4
  <2> QED
    BY <1>2, <1>7, <2>1, <2>3, <2>5 DEF PendingOrder, Queued
<1>14. OutOrder'
  <2>1. /\ out \in Seq(OutFrame) /\ Ordered(out) /\ Came(out, arrived)
        /\ \A i \in 1..Len(out) : Queued(out[i].src, out[i].n)
        /\ \A i \in 1..Len(out) : Buffered(out[i].src, out[i].n) /\ InHand(out[i].src, out[i].n)
                                 /\ After(pending, out[i].src, out[i].n)
    BY <1>1 DEF TypeInv, OrderInv, OutOrder
  <2>2. \A i \in 1..Len(out) : out[i].src \in Interfaces /\ out[i].n \in Nat
    <3>1. \A i \in 1..Len(out) : out[i] \in OutFrame
      BY <2>1, Elements
    <3> QED
      BY <3>1 DEF OutFrame
  <2>3. Came(out, arrived')
    BY <1>4, <2>1, <2>2, CameLater
  <2>4. \A i \in 1..Len(out) : out[i].n <= arrived[out[i].src]
    BY <2>1 DEF Came
  <2>5. \A i \in 1..Len(out) : After(queue'[Socket(out[i].src)], out[i].src, out[i].n)
    BY <1>9, <2>1, <2>2, <2>4
  <2> QED
    BY <1>2, <1>7, <2>1, <2>3, <2>5 DEF OutOrder, Queued, Buffered, InHand
<1>15. OrderInv'
  BY <1>10, <1>11, <1>12, <1>13, <1>14 DEF OrderInv
<1> QED
  BY <1>6, <1>8, <1>15 DEF IInv

---------------------------------------------------------------------------
(* Taking the first frame out of a queue. *)
LEMMA QueueTail ==
    ASSUME TypeInv, PlaceInv, QueueOrder, NEW k \in Sockets, queue[k] # <<>>,
           queue' = [queue EXCEPT ![k] = Tail(@)], arrived' = arrived
    PROVE  /\ queue' \in [Sockets -> Seq(Frame)]
           /\ \A x \in Sockets : \A i \in 1..Len(queue'[x]) : Socket(queue'[x][i].src) = x
           /\ QueueOrder'
           /\ Head(queue[k]) \in Frame /\ Socket(Head(queue[k]).src) = k
           /\ Head(queue[k]).n <= arrived[Head(queue[k]).src]
           /\ After(queue'[k], Head(queue[k]).src, Head(queue[k]).n)
           /\ \A x \in Sockets : \A s, n : After(queue[x], s, n) => After(queue'[x], s, n)
           /\ \A s, n : After(queue[k], s, n) /\ Head(queue[k]).src = s => Head(queue[k]).n > n
<1> DEFINE q == queue[k]
           h == Head(q)
<1>1. queue \in [Sockets -> Seq(Frame)] /\ q \in Seq(Frame) /\ q # <<>>
  BY DEF TypeInv
<1>2. /\ queue'[k] = Tail(q) /\ \A x \in Sockets : x # k => queue'[x] = queue[x]
      /\ queue' \in [Sockets -> Seq(Frame)]
  BY <1>1, TailKeeps
<1> HIDE DEF q
<1>3. /\ Tail(q) \in Seq(Frame) /\ h \in Frame /\ h = q[1]
      /\ Len(q) \in Nat /\ Len(Tail(q)) = Len(q) - 1
      /\ \A i \in 1..Len(Tail(q)) : Tail(q)[i] = q[i + 1] /\ i + 1 \in 1..Len(q)
  BY <1>1, TailKeeps
<1>4. 1 \in 1..Len(q)
  BY <1>1
<1> HIDE DEF h
<1>5. \A i \in 1..Len(q) : q[i] \in Frame
  BY <1>1, Elements
<1>6. /\ \A x \in Sockets : Ordered(queue[x]) /\ Came(queue[x], arrived)
      /\ \A x \in Sockets : \A i \in 1..Len(queue[x]) : Socket(queue[x][i].src) = x
      /\ \A i \in 1..Len(q) : q[i].n \in Nat
  BY <1>5 DEF QueueOrder, PlaceInv, Frame
<1>7. Ordered(q) /\ Came(q, arrived) /\ \A i \in 1..Len(q) : Socket(q[i].src) = k
  BY <1>6 DEF q
<1>8. Socket(h.src) = k /\ h.n <= arrived[h.src]
  BY <1>3, <1>4, <1>7 DEF Came
<1>9. Ordered(Tail(q)) /\ After(Tail(q), h.src, h.n)
  BY <1>1, <1>6, <1>7, TailOrdered DEF h
<1>10. QueueOrder'
  <2>1. Came(Tail(q), arrived)
    BY <1>1, <1>7, TailCame
  <2>2. ASSUME NEW x \in Sockets PROVE Ordered(queue'[x]) /\ Came(queue'[x], arrived')
    BY <1>2, <1>6, <1>9, <2>1
  <2> QED
    BY <2>2 DEF QueueOrder
<1>11. \A x \in Sockets : \A i \in 1..Len(queue'[x]) : Socket(queue'[x][i].src) = x
  <2>1. \A i \in 1..Len(Tail(q)) : Socket(Tail(q)[i].src) = k
    BY <1>3, <1>7
  <2> QED
    BY <1>2, <1>6, <2>1
<1>12. \A s, n : After(q, s, n) => After(Tail(q), s, n)
  BY <1>1, TailAfter
<1>13. \A s, n : After(q, s, n) /\ h.src = s => h.n > n
  BY <1>3, <1>4 DEF After
<1>14. \A x \in Sockets : \A s, n : After(queue[x], s, n) => After(queue'[x], s, n)
  BY <1>2, <1>12 DEF q
<1> QED
  BY <1>2, <1>3, <1>8, <1>9, <1>10, <1>11, <1>13, <1>14 DEF q, h

(* What is taken from a queue stays behind what has gone further. *)
LEMMA OthersKeep ==
    ASSUME IInv, prog' = prog, arrived' = arrived,
           \A x \in Sockets : \A s, n : After(queue[x], s, n) => After(queue'[x], s, n)
    PROVE  /\ buffer' = buffer => BufferOrder'
           /\ hand' = hand /\ buffer' = buffer => HandOrder'
           /\ pending' = pending => PendingOrder'
           /\ \A i \in 1..Len(out) : After(queue'[Socket(out[i].src)], out[i].src, out[i].n)
<1>1. TypeInv /\ PlaceInv /\ BufferOrder /\ HandOrder /\ PendingOrder /\ OutOrder
  BY DEF IInv, OrderInv
<1>2. \A x : Socket(x)' = Socket(x)
  BY DEF Socket
<1>3. \A x \in Interfaces : Socket(x) \in Sockets
  BY <1>1, Names
<1>4. \A x \in Sources : x \in Interfaces
  BY DEF Interfaces
<1>5. buffer' = buffer => BufferOrder'
  BY <1>1, <1>2, <1>3, <1>4 DEF BufferOrder, Queued
<1>6. hand' = hand /\ buffer' = buffer => HandOrder'
  <2>1. \A w \in Workers : hand[w] # None => hand[w].src \in Sources
    BY <1>1 DEF PlaceInv
  <2> QED
    BY <1>1, <1>2, <1>3, <1>4, <2>1 DEF HandOrder, Queued, Buffered
<1>7. pending' = pending => PendingOrder'
  <2>1. \A i \in 1..Len(pending) : pending[i].src \in Sources
    BY <1>1 DEF PlaceInv
  <2> QED
    BY <1>1, <1>2, <1>3, <1>4, <2>1 DEF PendingOrder, Queued
<1>8. \A i \in 1..Len(out) : After(queue'[Socket(out[i].src)], out[i].src, out[i].n)
  <2>1. \A i \in 1..Len(out) : out[i].src \in Sources
    BY <1>1 DEF PlaceInv
  <2> QED
    BY <1>1, <1>3, <1>4, <2>1 DEF OutOrder, Queued
<1> QED
  BY <1>5, <1>6, <1>7, <1>8

(* asio: the frame received is behind all whose sends are under way. *)
LEMMA ReceivedKeeps == \A s \in Sources : IInv /\ Received(s) => IInv'
<1> SUFFICES ASSUME NEW s \in Sources, IInv, Received(s) PROVE IInv'
  OBVIOUS
<1> DEFINE f == Head(queue[s])
<1>1. TypeInv /\ PlaceInv /\ QueueOrder /\ BufferOrder /\ HandOrder /\ PendingOrder /\ OutOrder
  BY DEF IInv, OrderInv
<1>2. /\ prog = "asio" /\ queue[s] # <<>>
      /\ queue' = [queue EXCEPT ![s] = Tail(@)] /\ pending' = Append(pending, f)
      /\ prog' = prog /\ arrived' = arrived /\ buffer' = buffer /\ hand' = hand /\ out' = out
  BY DEF Received, AtEnd
<1>3. s \in Sockets /\ s \in Interfaces /\ \A x : Socket(x) = x /\ Worker(x) = x
  BY <1>1, <1>2, Names
<1>4. /\ queue' \in [Sockets -> Seq(Frame)]
      /\ \A x \in Sockets : \A i \in 1..Len(queue'[x]) : Socket(queue'[x][i].src) = x
      /\ QueueOrder' /\ f \in Frame /\ Socket(f.src) = s /\ f.n <= arrived[f.src]
      /\ After(queue'[s], f.src, f.n)
      /\ \A x \in Sockets : \A y, n : After(queue[x], y, n) => After(queue'[x], y, n)
      /\ \A y, n : After(queue[s], y, n) /\ f.src = y => f.n > n
  BY <1>1, <1>2, <1>3, QueueTail
<1> HIDE DEF f
<1>5. f.src = s
  BY <1>3, <1>4
<1>6. \A x : Socket(x)' = Socket(x) /\ Worker(x)' = Worker(x)
  BY <1>2 DEF Socket, Worker, OneThread
<1>7. pending \in Seq(Frame) /\ pending' \in Seq(Frame)
  BY <1>1, <1>2, <1>4, AppendKeeps DEF TypeInv
<1>8. TypeInv'
  BY <1>1, <1>2, <1>4, <1>7 DEF TypeInv
<1>9. PlaceInv'
  <2>1. \A i \in 1..Len(pending') : pending'[i].src \in Sources
    <3>1. \A i \in 1..Len(pending) : pending[i].src \in Sources
      BY <1>1 DEF PlaceInv
    <3>2. \A i \in 1..Len(pending') : i \in 1..Len(pending) \/ i = Len(pending) + 1
      BY <1>2, <1>4, <1>7, AppendKeeps
    <3> QED
      BY <1>2, <1>4, <1>5, <1>7, <3>1, <3>2, AppendKeeps
  <2> QED
    BY <1>1, <1>2, <1>4, <1>6, <2>1 DEF PlaceInv
<1>10. BufferOrder' /\ HandOrder'
       /\ \A i \in 1..Len(out) : After(queue'[Socket(out[i].src)], out[i].src, out[i].n)
  BY <1>2, <1>4, OthersKeep
<1>11. PendingOrder'
  <2>1. /\ Ordered(pending) /\ Came(pending, arrived)
        /\ \A i \in 1..Len(pending) : After(queue[pending[i].src], pending[i].src, pending[i].n)
        /\ \A i \in 1..Len(pending) : pending[i].src \in Sources
    BY <1>1, <1>3 DEF PendingOrder, PlaceInv, Queued
  <2>2. Came(pending', arrived')
    BY <1>2, <1>4, <1>7, <2>1, AppendCame
  <2>3. \A i \in 1..Len(pending) : pending[i].src = f.src => pending[i].n < f.n
    <3> SUFFICES ASSUME NEW i \in 1..Len(pending), pending[i].src = f.src
                 PROVE  pending[i].n < f.n
      OBVIOUS
    <3>1. After(queue[s], s, pending[i].n) /\ f.n > pending[i].n
      BY <1>4, <1>5, <2>1
    <3>2. pending[i] \in Frame
      BY <1>7, Elements
    <3>3. pending[i].n \in Nat /\ f.n \in Nat
      BY <1>4, <3>2 DEF Frame
    <3> QED
      BY <3>1, <3>3
  <2>4. Ordered(pending')
    BY <1>2, <1>4, <1>7, <2>1, <2>3, AppendOrdered
  <2>5. ASSUME NEW i \in 1..Len(pending')
        PROVE  After(queue'[pending'[i].src], pending'[i].src, pending'[i].n)
    <3>1. CASE i \in 1..Len(pending)
      <4>1. pending'[i] = pending[i] /\ pending[i].src \in Sockets
        BY <1>2, <1>4, <1>7, <2>1, <3>1, AppendKeeps DEF Sockets, Interfaces
      <4> QED
        BY <1>4, <2>1, <3>1, <4>1
    <3>2. CASE i = Len(pending) + 1
      BY <1>2, <1>4, <1>5, <1>7, <3>2, AppendKeeps
    <3> QED
      BY <1>2, <1>4, <1>7, <3>1, <3>2, AppendKeeps
  <2> QED
    BY <1>3, <1>6, <2>2, <2>4, <2>5 DEF PendingOrder, Queued
<1>12. OutOrder'
  <2>1. ASSUME NEW i \in 1..Len(out)
        PROVE  After(pending', out[i].src, out[i].n)
    <3>1. /\ After(pending, out[i].src, out[i].n)
          /\ After(queue[out[i].src], out[i].src, out[i].n)
      BY <1>1, <1>3 DEF OutOrder, Queued
    <3>2. f.src = out[i].src => f.n > out[i].n
      BY <1>4, <1>5, <3>1
    <3> QED
      BY <1>2, <1>4, <1>7, <3>1, <3>2, AppendAfter
  <2>2. Ordered(out) /\ Came(out, arrived)
        /\ \A i \in 1..Len(out) : Buffered(out[i].src, out[i].n) /\ InHand(out[i].src, out[i].n)
    BY <1>1 DEF OutOrder
  <2> QED
    BY <1>2, <1>6, <1>10, <2>1, <2>2 DEF OutOrder, Queued, Buffered, InHand
<1> QED
  BY <1>4, <1>8, <1>9, <1>10, <1>11, <1>12 DEF IInv, OrderInv

(* py: the frame taken from a buffer is before all that stay in it. *)
LEMMA TakeKeeps == \A s \in Sources : IInv /\ Take(s) => IInv'
<1> SUFFICES ASSUME NEW s \in Sources, IInv, Take(s) PROVE IInv'
  OBVIOUS
<1> DEFINE f == Head(buffer[s])
<1>1. TypeInv /\ PlaceInv /\ QueueOrder /\ BufferOrder /\ HandOrder /\ PendingOrder /\ OutOrder
  BY DEF IInv, OrderInv
<1>2. /\ buffer[s] # <<>> /\ hand[Worker(s)] = None
      /\ hand' = [hand EXCEPT ![Worker(s)] = f] /\ buffer' = [buffer EXCEPT ![s] = Tail(@)]
      /\ prog' = prog /\ arrived' = arrived /\ queue' = queue /\ pending' = pending /\ out' = out
  BY DEF Take, Free
<1>3. prog = "py"
  BY <1>1, <1>2 DEF PlaceInv
<1>4. s \in Interfaces /\ s \in Workers /\ \A x : Worker(x) = x
  BY <1>1, <1>3, Names
<1>5. /\ buffer \in [Sources -> Seq(Frame)] /\ buffer[s] \in Seq(Frame)
      /\ Tail(buffer[s]) \in Seq(Frame) /\ f \in Frame /\ f = buffer[s][1]
      /\ Len(buffer[s]) \in Nat /\ Len(Tail(buffer[s])) = Len(buffer[s]) - 1
      /\ \A i \in 1..Len(Tail(buffer[s])) :
            Tail(buffer[s])[i] = buffer[s][i + 1] /\ i + 1 \in 1..Len(buffer[s])
  BY <1>1, <1>2, TailKeeps DEF TypeInv
<1>6. 1 \in 1..Len(buffer[s]) /\ \A i \in 1..Len(buffer[s]) : buffer[s][i] \in Frame
  BY <1>2, <1>5, Elements
<1>7. /\ Ordered(buffer[s]) /\ Came(buffer[s], arrived)
      /\ \A i \in 1..Len(buffer[s]) : buffer[s][i].src = s /\ Queued(s, buffer[s][i].n)
      /\ \A i \in 1..Len(buffer[s]) : buffer[s][i].n \in Nat
  BY <1>1, <1>6 DEF PlaceInv, BufferOrder, Frame
<1>8. /\ f.src = s /\ Queued(s, f.n) /\ f.n <= arrived[s]
  BY <1>5, <1>6, <1>7 DEF Came
<1>9. Ordered(Tail(buffer[s])) /\ After(Tail(buffer[s]), s, f.n) /\ Came(Tail(buffer[s]), arrived)
  BY <1>2, <1>5, <1>7, <1>8, TailOrdered, TailCame
<1>10. \A n : After(buffer[s], s, n) => After(Tail(buffer[s]), s, n) /\ f.n > n
  <2>1. \A n : After(buffer[s], s, n) => After(Tail(buffer[s]), s, n)
    BY <1>2, <1>5, TailAfter
  <2>2. \A n : After(buffer[s], s, n) => f.n > n
    BY <1>5, <1>6, <1>8 DEF After
  <2> QED
    BY <2>1, <2>2
<1> HIDE DEF f
<1>11. \A x : Socket(x)' = Socket(x) /\ Worker(x)' = Worker(x)
  BY <1>2 DEF Socket, Worker, OneThread
<1>12. /\ buffer' \in [Sources -> Seq(Frame)] /\ buffer'[s] = Tail(buffer[s])
       /\ \A x \in Sources : x # s => buffer'[x] = buffer[x]
  BY <1>2, <1>5
<1>13. /\ hand' \in [Workers -> Frame \cup {None}] /\ hand'[s] = f
       /\ \A w \in Workers : w # s => hand'[w] = hand[w]
  BY <1>1, <1>2, <1>4, <1>5 DEF TypeInv
<1>14. TypeInv'
  BY <1>1, <1>2, <1>12, <1>13 DEF TypeInv
<1>15. PlaceInv'
  <2>1. \A x \in Sources : \A i \in 1..Len(buffer'[x]) : buffer'[x][i].src = x
    <3>1. \A i \in 1..Len(Tail(buffer[s])) : Tail(buffer[s])[i].src = s
      BY <1>5, <1>7
    <3>2. \A x \in Sources : x # s => \A i \in 1..Len(buffer[x]) : buffer[x][i].src = x
      BY <1>1 DEF PlaceInv
    <3> QED
      BY <1>12, <3>1, <3>2
  <2>2. \A w \in Workers : hand'[w] # None => hand'[w].src \in Sources /\ Worker(hand'[w].src) = w
    BY <1>1, <1>4, <1>8, <1>13 DEF PlaceInv
  <2>3. prog' # "asio" /\ prog' = "py"
    BY <1>2, <1>3
  <2> QED
    BY <1>1, <1>2, <1>11, <2>1, <2>2, <2>3 DEF PlaceInv
<1>16. QueueOrder' /\ PendingOrder'
  BY <1>1, <1>2, <1>11 DEF QueueOrder, PendingOrder, Queued
<1>17. BufferOrder'
  <2>1. ASSUME NEW x \in Sources
        PROVE  /\ Ordered(buffer'[x]) /\ Came(buffer'[x], arrived)
               /\ \A i \in 1..Len(buffer'[x]) : Queued(x, buffer'[x][i].n)
    <3>1. CASE x = s
      BY <1>5, <1>7, <1>9, <1>12, <3>1
    <3>2. CASE x # s
      BY <1>1, <1>12, <3>2 DEF BufferOrder
    <3> QED
      BY <3>1, <3>2
  <2> QED
    BY <1>2, <1>11, <2>1 DEF BufferOrder, Queued
<1>18. HandOrder'
  <2>1. ASSUME NEW w \in Workers, hand'[w] # None
        PROVE  /\ hand'[w].n <= arrived[hand'[w].src]
               /\ Queued(hand'[w].src, hand'[w].n)
               /\ After(buffer'[hand'[w].src], hand'[w].src, hand'[w].n)
    <3>1. CASE w = s
      BY <1>8, <1>9, <1>12, <1>13, <3>1
    <3>2. CASE w # s
      <4>1. hand[w] # None /\ hand'[w] = hand[w] /\ hand[w].src \in Sources /\ hand[w].src = w
        BY <1>1, <1>4, <1>13, <2>1, <3>2 DEF PlaceInv
      <4>2. /\ hand[w].n <= arrived[hand[w].src] /\ Queued(hand[w].src, hand[w].n)
            /\ After(buffer[hand[w].src], hand[w].src, hand[w].n)
        BY <1>1, <4>1 DEF HandOrder, Buffered
      <4> QED
        BY <1>12, <3>2, <4>1, <4>2
    <3> QED
      BY <3>1, <3>2
  <2> QED
    BY <1>2, <1>11, <2>1 DEF HandOrder, Queued, Buffered
<1>19. OutOrder'
  <2>1. ASSUME NEW i \in 1..Len(out)
        PROVE  /\ After(buffer'[out[i].src], out[i].src, out[i].n)
               /\ hand'[out[i].src].src = out[i].src => hand'[out[i].src].n > out[i].n
    <3>1. /\ out[i].src \in Sources /\ After(buffer[out[i].src], out[i].src, out[i].n)
          /\ hand[out[i].src].src = out[i].src => hand[out[i].src].n > out[i].n
      BY <1>1, <1>4 DEF OutOrder, PlaceInv, Buffered, InHand
    <3>2. CASE out[i].src = s
      BY <1>8, <1>10, <1>12, <1>13, <3>1, <3>2
    <3>3. CASE out[i].src # s
      BY <1>12, <1>13, <3>1, <3>3 DEF Workers
    <3> QED
      BY <3>2, <3>3
  <2>2. /\ Ordered(out) /\ Came(out, arrived)
        /\ \A i \in 1..Len(out) : Queued(out[i].src, out[i].n) /\ After(pending, out[i].src, out[i].n)
    BY <1>1 DEF OutOrder
  <2> QED
    BY <1>2, <1>4, <1>11, <2>1, <2>2 DEF OutOrder, Queued, Buffered, InHand
<1> QED
  BY <1>14, <1>15, <1>16, <1>17, <1>18, <1>19 DEF IInv, OrderInv

(* The frame written is behind those of its interface that were written     *)
(* before, and before all that are still under way.                         *)
LEMMA OutGrows ==
    ASSUME IInv, NEW f \in Frame, f.src \in Sources, f.n <= arrived[f.src],
           \A i \in 1..Len(out) : out[i].src = f.src => out[i].n < f.n,
           out' = Append(out, Converted(f)), arrived' = arrived
    PROVE  /\ out' \in Seq(OutFrame) /\ Ordered(out') /\ Came(out', arrived')
           /\ \A i \in 1..Len(out') :
                 \/ i \in 1..Len(out) /\ out'[i] = out[i]
                 \/ out'[i].src = f.src /\ out'[i].n = f.n
<1> DEFINE c == Converted(f)
<1>1. f.src \in Interfaces /\ f.n \in Nat
  BY DEF Frame
<1>2. c.src = f.src /\ c.n = f.n
  BY DEF Converted
<1>3. c \in OutFrame
  BY <1>1 DEF Converted, OutFrame
<1> HIDE DEF c
<1>4. out \in Seq(OutFrame) /\ Ordered(out) /\ Came(out, arrived) /\ out' = Append(out, c)
  BY DEF IInv, TypeInv, OrderInv, OutOrder, c
<1>5. Ordered(out')
  BY <1>2, <1>3, <1>4, AppendOrdered
<1>6. Came(out', arrived')
  BY <1>2, <1>3, <1>4, AppendCame
<1>7. /\ out' \in Seq(OutFrame) /\ Len(out) \in Nat /\ Len(out') = Len(out) + 1
      /\ \A i \in 1..Len(out) : out'[i] = out[i]
      /\ out'[Len(out) + 1] = c
  BY <1>3, <1>4, AppendKeeps
<1>8. \A i \in 1..Len(out') : i \in 1..Len(out) \/ i = Len(out) + 1
  BY <1>7
<1> QED
  BY <1>2, <1>5, <1>6, <1>7, <1>8

LEMMA WriteKeeps == \A w \in Workers : IInv /\ Write(w) => IInv'
<1> SUFFICES ASSUME NEW w \in Workers, IInv, Write(w) PROVE IInv'
  OBVIOUS
<1> DEFINE f == hand[w]
<1>1. TypeInv /\ PlaceInv /\ QueueOrder /\ BufferOrder /\ HandOrder /\ PendingOrder /\ OutOrder
  BY DEF IInv, OrderInv
<1>2. /\ f # None /\ hand' = [hand EXCEPT ![w] = None]
      /\ out' = Append(out, Converted(f)) \/ out' = out
      /\ prog' = prog /\ arrived' = arrived /\ queue' = queue /\ buffer' = buffer
      /\ pending' = pending
  BY DEF Write, Emptied
<1>3. f \in Frame /\ hand \in [Workers -> Frame \cup {None}]
  BY <1>1, <1>2 DEF TypeInv
<1>4. f.src \in Sources /\ Worker(f.src) = w /\ f.n <= arrived[f.src]
      /\ Queued(f.src, f.n) /\ Buffered(f.src, f.n)
  BY <1>1, <1>2 DEF PlaceInv, HandOrder
<1>5. pending = <<>>
  BY <1>1, <1>2 DEF PlaceInv
<1>6. /\ hand' \in [Workers -> Frame \cup {None}] /\ hand'[w] = None
      /\ \A x \in Workers : x # w => hand'[x] = hand[x]
  BY <1>2, <1>3
<1>7. \A i \in 1..Len(out) : out[i].src = f.src => out[i].n < f.n
  <2> SUFFICES ASSUME NEW i \in 1..Len(out), out[i].src = f.src PROVE out[i].n < f.n
    OBVIOUS
  <2>1. f.n > out[i].n
    BY <1>1, <1>4 DEF OutOrder, InHand
  <2>2. out[i] \in OutFrame
    BY <1>1, Elements DEF TypeInv
  <2>3. out[i].n \in Nat /\ f.n \in Nat
    BY <1>3, <2>2 DEF OutFrame, Frame
  <2> QED
    BY <2>1, <2>3
<1> HIDE DEF f
<1>8. /\ out' \in Seq(OutFrame) /\ Ordered(out') /\ Came(out', arrived')
      /\ \A i \in 1..Len(out') :
            \/ i \in 1..Len(out) /\ out'[i] = out[i]
            \/ out'[i].src = f.src /\ out'[i].n = f.n
  <2>1. CASE out' = out
    BY <1>1, <1>2, <2>1 DEF TypeInv, OutOrder
  <2>2. CASE out' = Append(out, Converted(f))
    BY <1>2, <1>3, <1>4, <1>7, <2>2, OutGrows
  <2> QED
    BY <1>2, <2>1, <2>2
<1>9. \A x : Socket(x)' = Socket(x) /\ Worker(x)' = Worker(x)
  BY <1>2 DEF Socket, Worker, OneThread
<1>10. TypeInv'
  BY <1>1, <1>2, <1>6, <1>8 DEF TypeInv
<1>11. PlaceInv'
  <2>1. \A x \in Workers : hand'[x] # None =>
            hand'[x] = hand[x] /\ hand[x].src \in Sources /\ Worker(hand[x].src) = x
    BY <1>1, <1>6 DEF PlaceInv
  <2>2. \A i \in 1..Len(out') : out'[i].src \in Sources
    BY <1>1, <1>4, <1>8 DEF PlaceInv
  <2>3. prog = "asio" => \A x \in Workers : hand'[x] = None
    BY <1>1, <1>6 DEF PlaceInv
  <2> QED
    BY <1>1, <1>2, <1>9, <2>1, <2>2, <2>3 DEF PlaceInv
<1>12. QueueOrder' /\ BufferOrder' /\ PendingOrder'
  BY <1>1, <1>2, <1>9 DEF QueueOrder, BufferOrder, PendingOrder, Queued
<1>13. HandOrder'
  <2>1. \A x \in Workers : hand'[x] # None => hand'[x] = hand[x]
    BY <1>6
  <2> QED
    BY <1>1, <1>2, <1>9, <2>1 DEF HandOrder, Queued, Buffered
<1>14. OutOrder'
  <2>1. \A x \in Sources : Worker(x) \in Workers
    BY <1>1, Names
  <2>2. ASSUME NEW i \in 1..Len(out')
        PROVE  /\ Queued(out'[i].src, out'[i].n) /\ Buffered(out'[i].src, out'[i].n)
               /\ hand'[Worker(out'[i].src)].src = out'[i].src
                    => hand'[Worker(out'[i].src)].n > out'[i].n
               /\ After(<<>>, out'[i].src, out'[i].n)
    <3>0. After(<<>>, out'[i].src, out'[i].n)
      BY DEF After
    <3>1. CASE i \in 1..Len(out) /\ out'[i] = out[i]
      <4>1. /\ Queued(out[i].src, out[i].n) /\ Buffered(out[i].src, out[i].n)
            /\ InHand(out[i].src, out[i].n) /\ out[i].src \in Sources
        BY <1>1, <3>1 DEF OutOrder, PlaceInv
      <4>2. CASE Worker(out[i].src) = w
        <5>1. hand'[Worker(out[i].src)].src # out[i].src
          BY <1>6, <4>1, <4>2, CangwAssumption DEF None
        <5> QED
          BY <3>0, <3>1, <4>1, <5>1
      <4>3. CASE Worker(out[i].src) # w
        BY <1>6, <2>1, <3>0, <3>1, <4>1, <4>3 DEF InHand
      <4> QED
        BY <4>2, <4>3
    <3>2. CASE out'[i].src = f.src /\ out'[i].n = f.n
      <4>1. hand'[Worker(f.src)].src # f.src
        BY <1>4, <1>6, CangwAssumption DEF None
      <4> QED
        BY <1>4, <3>0, <3>2, <4>1
    <3> QED
      BY <1>8, <3>1, <3>2
  <2> QED
    BY <1>2, <1>5, <1>8, <1>9, <2>2 DEF OutOrder, Queued, Buffered, InHand
<1> QED
  BY <1>10, <1>11, <1>12, <1>13, <1>14 DEF IInv, OrderInv

LEMMA SendDoneKeeps == IInv /\ SendDone => IInv'
<1> SUFFICES ASSUME IInv, SendDone PROVE IInv'
  OBVIOUS
<1> DEFINE f == Head(pending)
<1>1. TypeInv /\ PlaceInv /\ QueueOrder /\ BufferOrder /\ HandOrder /\ PendingOrder /\ OutOrder
  BY DEF IInv, OrderInv
<1>2. /\ pending # <<>> /\ pending' = Tail(pending)
      /\ out' = Append(out, Converted(f)) \/ out' = out
      /\ prog' = prog /\ arrived' = arrived /\ queue' = queue /\ buffer' = buffer
      /\ hand' = hand
  BY DEF SendDone
<1>3. prog = "asio" /\ \A x \in Workers : hand[x] = None
  BY <1>1, <1>2 DEF PlaceInv
<1>4. \A x \in Sources : buffer[x] = <<>>
  BY <1>1, <1>3 DEF PlaceInv
<1>5. /\ pending \in Seq(Frame) /\ Tail(pending) \in Seq(Frame) /\ f \in Frame /\ f = pending[1]
      /\ Len(pending) \in Nat /\ Len(Tail(pending)) = Len(pending) - 1
      /\ \A i \in 1..Len(Tail(pending)) :
            Tail(pending)[i] = pending[i + 1] /\ i + 1 \in 1..Len(pending)
  BY <1>1, <1>2, TailKeeps DEF TypeInv
<1>6. 1 \in 1..Len(pending) /\ \A i \in 1..Len(pending) : pending[i] \in Frame
  BY <1>2, <1>5, Elements
<1>7. /\ Ordered(pending) /\ Came(pending, arrived)
      /\ \A i \in 1..Len(pending) : Queued(pending[i].src, pending[i].n)
      /\ \A i \in 1..Len(pending) : pending[i].src \in Sources
      /\ \A i \in 1..Len(pending) : pending[i].n \in Nat
  BY <1>1, <1>6 DEF PlaceInv, PendingOrder, Frame
<1>8. f.src \in Sources /\ Queued(f.src, f.n) /\ f.n <= arrived[f.src]
  BY <1>5, <1>6, <1>7 DEF Came
<1>9. Ordered(Tail(pending)) /\ After(Tail(pending), f.src, f.n) /\ Came(Tail(pending), arrived)
  BY <1>2, <1>5, <1>7, TailOrdered, TailCame
<1>10. \A s, n : After(pending, s, n) => After(Tail(pending), s, n)
  BY <1>2, <1>5, TailAfter
<1>11. \A i \in 1..Len(out) : out[i].src = f.src => out[i].n < f.n
  <2> SUFFICES ASSUME NEW i \in 1..Len(out), out[i].src = f.src PROVE out[i].n < f.n
    OBVIOUS
  <2>1. f.n > out[i].n
    BY <1>1, <1>5, <1>6 DEF OutOrder, After
  <2>2. out[i] \in OutFrame
    BY <1>1, Elements DEF TypeInv
  <2>3. out[i].n \in Nat /\ f.n \in Nat
    BY <1>5, <2>2 DEF OutFrame, Frame
  <2> QED
    BY <2>1, <2>3
<1> HIDE DEF f
<1>12. /\ out' \in Seq(OutFrame) /\ Ordered(out') /\ Came(out', arrived')
       /\ \A i \in 1..Len(out') :
             \/ i \in 1..Len(out) /\ out'[i] = out[i]
             \/ out'[i].src = f.src /\ out'[i].n = f.n
  <2>1. CASE out' = out
    BY <1>1, <1>2, <2>1 DEF TypeInv, OutOrder
  <2>2. CASE out' = Append(out, Converted(f))
    BY <1>2, <1>5, <1>8, <1>11, <2>2, OutGrows
  <2> QED
    BY <1>2, <2>1, <2>2
<1>13. \A x : Socket(x)' = Socket(x) /\ Worker(x)' = Worker(x)
  BY <1>2 DEF Socket, Worker, OneThread
<1>14. TypeInv'
  BY <1>1, <1>2, <1>5, <1>12 DEF TypeInv
<1>15. PlaceInv'
  <2>1. \A i \in 1..Len(pending') : pending'[i].src \in Sources
    BY <1>2, <1>5, <1>7
  <2>2. \A i \in 1..Len(out') : out'[i].src \in Sources
    BY <1>1, <1>8, <1>12 DEF PlaceInv
  <2> QED
    BY <1>1, <1>2, <1>3, <1>13, <2>1, <2>2 DEF PlaceInv
<1>16. QueueOrder' /\ BufferOrder' /\ HandOrder'
  BY <1>1, <1>2, <1>13 DEF QueueOrder, BufferOrder, HandOrder, Queued, Buffered
<1>17. PendingOrder'
  <2>1. \A i \in 1..Len(pending') : Queued(pending'[i].src, pending'[i].n)
    BY <1>2, <1>5, <1>7
  <2> QED
    BY <1>2, <1>9, <1>13, <2>1 DEF PendingOrder, Queued
<1>18. OutOrder'
  <2>1. ASSUME NEW i \in 1..Len(out')
        PROVE  /\ out'[i].src \in Sources
               /\ Queued(out'[i].src, out'[i].n) /\ After(Tail(pending), out'[i].src, out'[i].n)
    <3>1. CASE i \in 1..Len(out) /\ out'[i] = out[i]
      <4>1. /\ out[i].src \in Sources /\ Queued(out[i].src, out[i].n)
            /\ After(pending, out[i].src, out[i].n)
        BY <1>1, <3>1 DEF OutOrder, PlaceInv
      <4> QED
        BY <1>10, <3>1, <4>1
    <3>2. CASE out'[i].src = f.src /\ out'[i].n = f.n
      BY <1>8, <1>9, <3>2
    <3> QED
      BY <1>12, <3>1, <3>2
  <2>2. \A s \in Sources : \A n : After(buffer[s], s, n)
    BY <1>4 DEF After
  <2>3. \A s \in Sources : hand[Worker(s)].src # s
    <3>1. \A s \in Sources : hand[Worker(s)] = None
      BY <1>1, <1>3, Names
    <3>2. None.src = "none" /\ \A s \in Sources : s # "none"
      BY CangwAssumption DEF None
    <3> QED
      BY <3>1, <3>2
  <2> QED
    BY <1>2, <1>12, <1>13, <2>1, <2>2, <2>3 DEF OutOrder, Queued, Buffered, InHand
<1> QED
  BY <1>14, <1>15, <1>16, <1>17, <1>18 DEF IInv, OrderInv

---------------------------------------------------------------------------
(* Reading a frame: it is dropped, put into py's buffer, or taken in hand. *)
LEMMA ReadKeeps == \A s \in Sources : IInv /\ Read(s) => IInv'
<1> SUFFICES ASSUME NEW s \in Sources, IInv, Read(s) PROVE IInv'
  OBVIOUS
<1> DEFINE k == Socket(s)
           f == Head(queue[k])
           w == Worker(s)
<1>1. TypeInv /\ PlaceInv /\ QueueOrder /\ BufferOrder /\ HandOrder /\ PendingOrder /\ OutOrder
  BY DEF IInv, OrderInv
<1>2. /\ prog # "asio" /\ queue[k] # <<>> /\ queue' = [queue EXCEPT ![k] = Tail(@)]
      /\ prog = "py" \/ hand[w] = None
      /\ prog' = prog /\ arrived' = arrived /\ pending' = pending /\ out' = out
  BY DEF Read, Free
<1>3. \/ hand' = hand /\ buffer' = buffer
      \/ /\ ~Ignored(f) /\ prog = "py" /\ buffer' = [buffer EXCEPT ![s] = Append(@, f)]
         /\ hand' = hand
      \/ /\ ~Ignored(f) /\ prog # "py" /\ hand' = [hand EXCEPT ![w] = f] /\ buffer' = buffer
  BY DEF Read, Deliver
<1>4. k \in Sockets /\ s \in Interfaces /\ w \in Workers
  BY <1>1, Names
<1>5. /\ queue' \in [Sockets -> Seq(Frame)]
      /\ \A x \in Sockets : \A i \in 1..Len(queue'[x]) : Socket(queue'[x][i].src) = x
      /\ QueueOrder' /\ f \in Frame /\ Socket(f.src) = k /\ f.n <= arrived[f.src]
      /\ After(queue'[k], f.src, f.n)
      /\ \A x \in Sockets : \A y, n : After(queue[x], y, n) => After(queue'[x], y, n)
      /\ \A y, n : After(queue[k], y, n) /\ f.src = y => f.n > n
  BY <1>1, <1>2, <1>4, QueueTail
<1>6. ~Ignored(f) => f.src \in Sources
  BY <1>5 DEF Ignored, Frame, Interfaces
<1>7. prog # "single" => f.src = s /\ k = s
  BY <1>1, <1>5, Names
<1>8. Worker(f.src) = w
  BY <1>1, <1>7, Names
<1> HIDE DEF f, k, w
<1>9. \A x : Socket(x)' = Socket(x) /\ Worker(x)' = Worker(x)
  BY <1>2 DEF Socket, Worker, OneThread
<1>10. /\ buffer' = buffer => BufferOrder'
       /\ hand' = hand /\ buffer' = buffer => HandOrder'
       /\ PendingOrder'
       /\ \A i \in 1..Len(out) : After(queue'[Socket(out[i].src)], out[i].src, out[i].n)
  BY <1>2, <1>5, OthersKeep
<1>11. /\ out \in Seq(OutFrame) /\ Ordered(out) /\ Came(out, arrived)
       /\ \A i \in 1..Len(out) : out[i].src \in Sources
       /\ \A i \in 1..Len(out) : Queued(out[i].src, out[i].n) /\ Buffered(out[i].src, out[i].n)
       /\ \A i \in 1..Len(out) : InHand(out[i].src, out[i].n) /\ After(pending, out[i].src, out[i].n)
  BY <1>1 DEF TypeInv, PlaceInv, OutOrder
<1>12. CASE hand' = hand /\ buffer' = buffer
  <2>1. TypeInv'
    BY <1>1, <1>2, <1>5, <1>12 DEF TypeInv
  <2>2. PlaceInv'
    BY <1>1, <1>2, <1>5, <1>9, <1>12 DEF PlaceInv
  <2>3. OutOrder'
    BY <1>2, <1>9, <1>10, <1>11, <1>12 DEF OutOrder, Queued, Buffered, InHand
  <2> QED
    BY <1>5, <1>10, <1>12, <2>1, <2>2, <2>3 DEF IInv, OrderInv
<1>13. CASE /\ ~Ignored(f) /\ prog = "py" /\ buffer' = [buffer EXCEPT ![s] = Append(@, f)]
            /\ hand' = hand
  <2>1. f.src = s /\ k = s /\ Socket(s) = s
    BY <1>1, <1>7, <1>13, Names
  <2>2. /\ buffer \in [Sources -> Seq(Frame)] /\ buffer[s] \in Seq(Frame)
        /\ Append(buffer[s], f) \in Seq(Frame) /\ Len(buffer[s]) \in Nat
        /\ Len(Append(buffer[s], f)) = Len(buffer[s]) + 1
        /\ \A i \in 1..Len(buffer[s]) : Append(buffer[s], f)[i] = buffer[s][i]
        /\ Append(buffer[s], f)[Len(buffer[s]) + 1] = f
    BY <1>1, <1>5, AppendKeeps DEF TypeInv
  <2>3. /\ buffer' \in [Sources -> Seq(Frame)] /\ buffer'[s] = Append(buffer[s], f)
        /\ \A x \in Sources : x # s => buffer'[x] = buffer[x]
    BY <1>13, <2>2
  <2>4. \A i \in 1..Len(Append(buffer[s], f)) : i \in 1..Len(buffer[s]) \/ i = Len(buffer[s]) + 1
    BY <2>2
  <2>5. \A n : Queued(s, n) => f.n > n /\ After(queue'[s], s, n)
    BY <1>4, <1>5, <2>1 DEF Queued
  <2>6. /\ Ordered(buffer[s]) /\ Came(buffer[s], arrived)
        /\ \A i \in 1..Len(buffer[s]) : buffer[s][i].src = s /\ Queued(s, buffer[s][i].n)
    BY <1>1 DEF PlaceInv, BufferOrder
  <2>7. Ordered(Append(buffer[s], f)) /\ Came(Append(buffer[s], f), arrived)
    <3>1. \A i \in 1..Len(buffer[s]) : buffer[s][i] \in Frame
      BY <2>2, Elements
    <3>2. \A i \in 1..Len(buffer[s]) : buffer[s][i].n \in Nat /\ f.n \in Nat
      BY <1>5, <3>1 DEF Frame
    <3>3. \A i \in 1..Len(buffer[s]) : f.n > buffer[s][i].n
      BY <2>5, <2>6
    <3>4. \A i \in 1..Len(buffer[s]) : buffer[s][i].n < f.n
      BY <3>2, <3>3
    <3> QED
      BY <1>5, <2>2, <2>6, <3>4, AppendOrdered, AppendCame
  <2>8. TypeInv'
    BY <1>1, <1>2, <1>5, <1>13, <2>3 DEF TypeInv
  <2>9. PlaceInv'
    <3>1. \A i \in 1..Len(buffer'[s]) : buffer'[s][i].src = s
      BY <2>1, <2>2, <2>3, <2>4, <2>6
    <3>2. \A x \in Sources : x # s => \A i \in 1..Len(buffer'[x]) : buffer'[x][i].src = x
      BY <1>1, <2>3 DEF PlaceInv
    <3>3. \A x \in Sources : \A i \in 1..Len(buffer'[x]) : buffer'[x][i].src = x
      BY <3>1, <3>2
    <3>4. prog' = "py" /\ prog' # "asio"
      BY <1>2, <1>13
    <3> QED
      BY <1>1, <1>2, <1>5, <1>9, <1>13, <3>3, <3>4 DEF PlaceInv
  <2>10. BufferOrder'
    <3>1. ASSUME NEW x \in Sources
          PROVE  /\ Ordered(buffer'[x]) /\ Came(buffer'[x], arrived)
                 /\ \A i \in 1..Len(buffer'[x]) : After(queue'[Socket(x)], x, buffer'[x][i].n)
      <4>1. CASE x = s
        <5>1. \A i \in 1..Len(buffer'[s]) : After(queue'[s], s, buffer'[s][i].n)
          BY <1>5, <2>1, <2>2, <2>3, <2>4, <2>5, <2>6
        <5> QED
          BY <2>1, <2>3, <2>7, <4>1, <5>1
      <4>2. CASE x # s
        <5>1. Socket(x) \in Sockets
          BY <1>1, Names
        <5>2. /\ Ordered(buffer[x]) /\ Came(buffer[x], arrived)
              /\ \A i \in 1..Len(buffer[x]) : After(queue[Socket(x)], x, buffer[x][i].n)
          BY <1>1 DEF BufferOrder, Queued
        <5> QED
          BY <1>5, <2>3, <4>2, <5>1, <5>2
      <4> QED
        BY <4>1, <4>2
    <3> QED
      BY <1>2, <1>9, <3>1 DEF BufferOrder, Queued
  <2>11. ASSUME NEW x \in Sources, NEW n, After(queue[Socket(x)], x, n), After(buffer[x], x, n)
         PROVE  After(queue'[Socket(x)], x, n) /\ After(buffer'[x], x, n)
    <3>1. Socket(x) \in Sockets
      BY <1>1, Names
    <3>2. CASE x = s
      <4>1. f.n > n
        BY <2>1, <2>5, <2>11, <3>2 DEF Queued
      <4>2. After(queue'[Socket(x)], x, n)
        BY <1>5, <2>11, <3>1
      <4>3. After(buffer'[s], s, n)
        BY <2>2, <2>3, <2>11, <3>2, <4>1, AppendAfter
      <4> QED
        BY <3>2, <4>2, <4>3
    <3>3. CASE x # s
      BY <1>5, <2>3, <2>11, <3>1, <3>3
    <3> QED
      BY <3>2, <3>3
  <2>12. HandOrder'
    <3>1. \A x \in Workers : hand[x] # None => hand[x].src \in Sources
      BY <1>1 DEF PlaceInv
    <3> QED
      BY <1>1, <1>2, <1>9, <1>13, <2>11, <3>1 DEF HandOrder, Queued, Buffered
  <2>13. OutOrder'
    <3>1. ASSUME NEW i \in 1..Len(out) PROVE After(buffer'[out[i].src], out[i].src, out[i].n)
      BY <1>11, <2>11 DEF Queued, Buffered
    <3> QED
      BY <1>2, <1>9, <1>10, <1>11, <1>13, <3>1 DEF OutOrder, Queued, Buffered, InHand
  <2> QED
    BY <1>5, <1>10, <2>8, <2>9, <2>10, <2>12, <2>13 DEF IInv, OrderInv
<1>14. CASE ~Ignored(f) /\ prog # "py" /\ hand' = [hand EXCEPT ![w] = f] /\ buffer' = buffer
  <2>1. /\ hand' \in [Workers -> Frame \cup {None}] /\ hand'[w] = f
        /\ \A x \in Workers : x # w => hand'[x] = hand[x]
    BY <1>1, <1>4, <1>5, <1>14 DEF TypeInv
  <2>2. f.src \in Sources /\ \A x \in Sources : buffer[x] = <<>>
    BY <1>1, <1>6, <1>14 DEF PlaceInv
  <2>3. TypeInv'
    BY <1>1, <1>2, <1>5, <1>14, <2>1 DEF TypeInv
  <2>4. PlaceInv'
    <3>1. \A x \in Workers : hand'[x] # None => hand'[x].src \in Sources /\ Worker(hand'[x].src) = x
      BY <1>1, <1>8, <2>1, <2>2 DEF PlaceInv
    <3>2. prog' # "asio"
      BY <1>2
    <3> QED
      BY <1>1, <1>2, <1>5, <1>9, <1>14, <3>1, <3>2 DEF PlaceInv
  <2>5. \A x \in Sources : \A n : After(buffer[x], x, n)
    BY <2>2 DEF After
  <2>6. HandOrder'
    <3>1. ASSUME NEW x \in Workers, hand'[x] # None
          PROVE  /\ hand'[x].n <= arrived[hand'[x].src]
                 /\ After(queue'[Socket(hand'[x].src)], hand'[x].src, hand'[x].n)
                 /\ After(buffer[hand'[x].src], hand'[x].src, hand'[x].n)
      <4>1. CASE x = w
        BY <1>5, <2>1, <2>2, <2>5, <4>1
      <4>2. CASE x # w
        <5>1. hand[x] # None /\ hand'[x] = hand[x] /\ hand[x].src \in Sources
          BY <1>1, <2>1, <3>1, <4>2 DEF PlaceInv
        <5>2. hand[x].n <= arrived[hand[x].src] /\ After(queue[Socket(hand[x].src)], hand[x].src, hand[x].n)
          BY <1>1, <5>1 DEF HandOrder, Queued
        <5>3. Socket(hand[x].src) \in Sockets
          BY <1>1, <5>1, Names
        <5> QED
          BY <1>5, <2>5, <5>1, <5>2, <5>3
      <4> QED
        BY <4>1, <4>2
    <3> QED
      BY <1>2, <1>9, <1>14, <3>1 DEF HandOrder, Queued, Buffered
  <2>7. OutOrder'
    <3>1. ASSUME NEW i \in 1..Len(out), hand'[Worker(out[i].src)].src = out[i].src
          PROVE  hand'[Worker(out[i].src)].n > out[i].n
      <4>1. Worker(out[i].src) \in Workers
        BY <1>1, <1>11, Names
      <4>2. CASE Worker(out[i].src) = w
        <5>1. f.src = out[i].src
          BY <2>1, <3>1, <4>2
        <5>2. After(queue[k], out[i].src, out[i].n)
          BY <1>5, <1>11, <5>1 DEF Queued
        <5> QED
          BY <1>5, <2>1, <4>2, <5>1, <5>2
      <4>3. CASE Worker(out[i].src) # w
        BY <1>11, <2>1, <3>1, <4>1, <4>3 DEF InHand
      <4> QED
        BY <4>2, <4>3
    <3> QED
      BY <1>2, <1>9, <1>10, <1>11, <1>14, <3>1 DEF OutOrder, Queued, Buffered, InHand
  <2> QED
    BY <1>5, <1>10, <1>14, <2>3, <2>4, <2>6, <2>7 DEF IInv, OrderInv
<1> QED
  BY <1>3, <1>12, <1>13, <1>14

---------------------------------------------------------------------------
LEMMA Inductive == IInv /\ [Next]_vars => IInv'
<1> SUFFICES ASSUME IInv, [Next]_vars PROVE IInv'
  OBVIOUS
<1>1. CASE Network
  <2>1. ASSUME NEW s \in Interfaces, NEW kind \in Kinds, Arrive(s, kind) PROVE IInv'
    BY <2>1, ArriveKeeps
  <2>2. ASSUME NEW s \in Sources, Down(s) PROVE IInv'
    BY <2>2, StillKeeps DEF Down, Still
  <2> QED
    BY <1>1, <2>1, <2>2 DEF Network
<1>2. CASE EpollWait
  BY <1>2, StillKeeps DEF EpollWait, Still
<1>3. CASE SendDone
  BY <1>3, SendDoneKeeps
<1>4. ASSUME NEW s \in Sources, ReadError(s) PROVE IInv'
  BY <1>4, StillKeeps DEF ReadError, Still
<1>5. ASSUME NEW s \in Sources, Read(s) PROVE IInv'
  BY <1>5, ReadKeeps
<1>6. ASSUME NEW s \in Sources, Take(s) PROVE IInv'
  BY <1>6, TakeKeeps
<1>7. ASSUME NEW s \in Sources, Received(s) PROVE IInv'
  BY <1>7, ReceivedKeeps
<1>8. ASSUME NEW w \in Workers, Write(w) PROVE IInv'
  BY <1>8, WriteKeeps
<1>9. CASE UNCHANGED vars
  BY <1>9, StillKeeps DEF vars, Still
<1> QED
  BY <1>1, <1>2, <1>3, <1>4, <1>5, <1>6, <1>7, <1>8, <1>9 DEF Next

(* The frames of an interface leave in the order they came, none twice:     *)
(* main of the gateways, whichever of their ways they read and write.       *)
THEOREM GatewayInOrder == Spec => []InOrder
<1>1. IInv => InOrder
  <2>1. TypeInv /\ Ordered(out) => InOrder
    <3> SUFFICES ASSUME TypeInv, Ordered(out) PROVE InOrder
      OBVIOUS
    <3>1. DOMAIN out = 1..Len(out)
      BY DEF TypeInv
    <3> QED
      BY <3>1 DEF Ordered, InOrder
  <2> QED
    BY <2>1 DEF IInv, OrderInv, OutOrder
<1> QED
  BY <1>1, InitHolds, Inductive, PTL DEF Spec

---------------------------------------------------------------------------
(* Every frame is in one place: the six places of Held(t), one by one.      *)

Numbers(q, t) == {q[i].n : i \in {j \in DOMAIN q : q[j].src = t}}
InQueue(t) == Numbers(queue[Socket(t)], t)
InBuffer(t) == IF t \in Sources THEN Numbers(buffer[t], t) ELSE {}
InHands(t) == {hand[w].n : w \in {x \in Workers : hand[x].src = t}}
InPending(t) == Numbers(pending, t)
InOut(t) == Numbers(out, t)
InLost(t) == {f.n : f \in {g \in lost : g.src = t}}

Places == {"queued", "buffered", "held", "pending", "out", "lost"}

LEMMA HeldIs ==
    ASSUME NEW t
    PROVE  /\ Held(t) = [queued |-> InQueue(t), buffered |-> InBuffer(t), held |-> InHands(t),
                         pending |-> InPending(t), out |-> InOut(t), lost |-> InLost(t)]
           /\ Held(t)' = [queued |-> InQueue(t)', buffered |-> InBuffer(t)',
                          held |-> InHands(t)', pending |-> InPending(t)',
                          out |-> InOut(t)', lost |-> InLost(t)']
BY DEF Held, InQueue, InBuffer, InHands, InPending, InOut, InLost, Numbers

(* The frames 1..n are each in one of the places of h. *)
Partition(h, n) ==
    /\ UNION {h[p] : p \in Places} = 1..n
    /\ \A p, q \in Places : p # q => h[p] \cap h[q] = {}

LEMMA AccountedIs ==
    /\ Accounted <=> \A t \in Interfaces : Partition(Held(t), arrived[t])
    /\ Accounted' <=> \A t \in Interfaces : Partition(Held(t)', arrived'[t])
<1>1. \A t \in Interfaces : DOMAIN Held(t) = Places /\ DOMAIN Held(t)' = Places
  BY HeldIs DEF Places
<1> QED
  BY <1>1 DEF Accounted, Partition

(* The numbers in e go from one place to another. *)
LEMMA PartitionMoves ==
    ASSUME NEW h, NEW k, NEW n, Partition(h, n), NEW a \in Places, NEW b \in Places, a # b,
           NEW e, h[a] = k[a] \cup e, k[a] \cap e = {}, k[b] = h[b] \cup e,
           \A p \in Places \ {a, b} : k[p] = h[p]
    PROVE  Partition(k, n)
<1>1. UNION {k[p] : p \in Places} = UNION {h[p] : p \in Places}
  <2>1. ASSUME NEW x, NEW p \in Places, x \in k[p] PROVE \E q \in Places : x \in h[q]
    <3>1. p = a \/ p = b \/ p \in Places \ {a, b}
      OBVIOUS
    <3> QED
      BY <2>1, <3>1
  <2>2. ASSUME NEW x, NEW p \in Places, x \in h[p] PROVE \E q \in Places : x \in k[q]
    <3>1. p = a \/ p = b \/ p \in Places \ {a, b}
      OBVIOUS
    <3> QED
      BY <2>2, <3>1
  <2> QED
    BY <2>1, <2>2
<1>2. ASSUME NEW p \in Places, NEW q \in Places, p # q, NEW x, x \in k[p], x \in k[q] PROVE FALSE
  <2>1. \A r, s \in Places : r # s => ~(x \in h[r] /\ x \in h[s])
    BY DEF Partition
  <2>2. \A r \in Places : r = a \/ r = b \/ (r \in Places \ {a, b} /\ k[r] = h[r])
    OBVIOUS
  <2>3. x \in k[a] => x \in h[a] /\ x \notin e
    OBVIOUS
  <2>4. x \in k[b] => x \in h[b] \/ (x \in e /\ x \in h[a])
    OBVIOUS
  <2> QED
    BY <1>2, <2>1, <2>2, <2>3, <2>4
<1> QED
  BY <1>1, <1>2 DEF Partition

(* The next number comes in. *)
LEMMA PartitionGrows ==
    ASSUME NEW h, NEW k, NEW n \in Nat, Partition(h, n), NEW b \in Places,
           k[b] = h[b] \cup {n + 1}, \A p \in Places \ {b} : k[p] = h[p]
    PROVE  Partition(k, n + 1)
<1>1. \A p \in Places : n + 1 \notin h[p]
  <2>1. n + 1 \notin 1..n
    OBVIOUS
  <2> QED
    BY <2>1 DEF Partition
<1>2. UNION {k[p] : p \in Places} = (UNION {h[p] : p \in Places}) \cup {n + 1}
  <2>1. ASSUME NEW x, x \in UNION {k[p] : p \in Places}
        PROVE  x \in (UNION {h[p] : p \in Places}) \cup {n + 1}
    <3>1. PICK p \in Places : x \in k[p]
      BY <2>1
    <3>2. x \in h[p] \/ x = n + 1
      BY <3>1
    <3> QED
      BY <3>2
  <2>2. ASSUME NEW x, x \in UNION {h[p] : p \in Places} PROVE x \in UNION {k[p] : p \in Places}
    <3>1. PICK p \in Places : x \in h[p]
      BY <2>2
    <3>2. x \in k[p]
      BY <3>1
    <3> QED
      BY <3>2
  <2>3. n + 1 \in UNION {k[p] : p \in Places}
    <3>1. n + 1 \in k[b]
      OBVIOUS
    <3> QED
      BY <3>1
  <2> QED
    BY <2>1, <2>2, <2>3
<1>3. 1..(n + 1) = 1..n \cup {n + 1}
  OBVIOUS
<1>4. ASSUME NEW p \in Places, NEW q \in Places, p # q, NEW x, x \in k[p], x \in k[q] PROVE FALSE
  <2>1. \A r, s \in Places : r # s => ~(x \in h[r] /\ x \in h[s])
    BY DEF Partition
  <2>2. \A r \in Places : x \in k[r] => x \in h[r] \/ (r = b /\ x = n + 1)
    OBVIOUS
  <2> QED
    BY <1>1, <1>4, <2>1, <2>2
<1> QED
  BY <1>2, <1>3, <1>4 DEF Partition

---------------------------------------------------------------------------
(* A frame comes to a place, or leaves it. *)

One(f, t) == IF f.src = t THEN {f.n} ELSE {}

LEMMA NumbersAppend ==
    ASSUME NEW S, NEW q \in Seq(S), NEW f \in S, NEW t
    PROVE  Numbers(Append(q, f), t) = Numbers(q, t) \cup One(f, t)
<1> DEFINE last == Len(q) + 1
           r == Append(q, f)
<1>1. /\ DOMAIN q = 1..Len(q) /\ DOMAIN r = 1..last /\ Len(q) \in Nat
      /\ \A j \in DOMAIN q : r[j] = q[j]
      /\ r[last] = f /\ last \in DOMAIN r
  BY AppendKeeps
<1>2. \A j \in DOMAIN r : j \in DOMAIN q \/ j = last
  BY <1>1
<1>3. \A j \in DOMAIN q : j \in DOMAIN r
  BY <1>1
<1> HIDE DEF r, last
<1> QED
  BY <1>1, <1>2, <1>3 DEF Numbers, One, r

LEMMA NumbersTail ==
    ASSUME NEW S, NEW q \in Seq(S), q # <<>>, Ordered(q), \A i \in 1..Len(q) : q[i].n \in Nat, NEW t
    PROVE  /\ Numbers(q, t) = Numbers(Tail(q), t) \cup One(Head(q), t)
           /\ Numbers(Tail(q), t) \cap One(Head(q), t) = {}
<1> DEFINE r == Tail(q)
<1>1. /\ Len(q) \in Nat /\ DOMAIN q = 1..Len(q) /\ DOMAIN r = 1..(Len(q) - 1)
      /\ Head(q) = q[1] /\ 1 \in DOMAIN q
      /\ \A j \in DOMAIN r : r[j] = q[j + 1] /\ j + 1 \in DOMAIN q
  BY TailKeeps
<1>2. \A j \in DOMAIN q : j = 1 \/ (j - 1 \in DOMAIN r /\ r[j - 1] = q[j])
  BY <1>1
<1>3. After(r, Head(q).src, Head(q).n) /\ DOMAIN r = 1..Len(r)
  BY TailOrdered, TailKeeps
<1>4. \A j \in DOMAIN r : r[j].src = Head(q).src => r[j].n # Head(q).n
  <2>1. \A j \in DOMAIN r : r[j].n \in Nat
    BY <1>1
  <2>2. Head(q).n \in Nat
    BY <1>1
  <2> QED
    BY <1>3, <2>1, <2>2 DEF After
<1> HIDE DEF r
<1>5. Numbers(q, t) = Numbers(r, t) \cup One(Head(q), t)
  <2>1. ASSUME NEW x, x \in Numbers(q, t) PROVE x \in Numbers(r, t) \cup One(Head(q), t)
    BY <1>1, <1>2, <2>1 DEF Numbers, One
  <2>2. ASSUME NEW x, x \in Numbers(r, t) PROVE x \in Numbers(q, t)
    BY <1>1, <2>2 DEF Numbers
  <2>3. ASSUME NEW x, x \in One(Head(q), t) PROVE x \in Numbers(q, t)
    BY <1>1, <2>3 DEF Numbers, One
  <2> QED
    BY <2>1, <2>2, <2>3
<1>6. Numbers(r, t) \cap One(Head(q), t) = {}
  BY <1>4 DEF Numbers, One
<1> QED
  BY <1>5, <1>6 DEF r

LEMMA PlacesSame ==
    ASSUME NEW t
    PROVE  /\ queue' = queue /\ prog' = prog => InQueue(t)' = InQueue(t)
           /\ buffer' = buffer => InBuffer(t)' = InBuffer(t)
           /\ hand' = hand => InHands(t)' = InHands(t)
           /\ pending' = pending => InPending(t)' = InPending(t)
           /\ out' = out => InOut(t)' = InOut(t)
           /\ lost' = lost => InLost(t)' = InLost(t)
BY DEF InQueue, InBuffer, InHands, InPending, InOut, InLost, Socket

LEMMA QueueGives ==
    ASSUME IInv, prog' = prog, NEW s \in Sources, queue[Socket(s)] # <<>>,
           queue' = [queue EXCEPT ![Socket(s)] = Tail(@)],
           NEW f, f = Head(queue[Socket(s)]), NEW t \in Interfaces
    PROVE  /\ f \in Frame
           /\ InQueue(t) = InQueue(t)' \cup One(f, t) /\ InQueue(t)' \cap One(f, t) = {}
<1> PICK k : k = Socket(s)
  OBVIOUS
<1>1. k \in Sockets /\ Socket(t) \in Sockets /\ Socket(t)' = Socket(t)
  BY Names DEF IInv, Socket
<1> DEFINE q == queue[k]
<1>2. q \in Seq(Frame) /\ q # <<>> /\ Ordered(q)
  BY <1>1 DEF IInv, TypeInv, OrderInv, QueueOrder
<1>3. \A i \in 1..Len(q) : q[i] \in Frame /\ q[i].n \in Nat
  <2>1. \A i \in 1..Len(q) : q[i] \in Frame
    BY <1>2
  <2> QED
    BY <2>1 DEF Frame
<1>4. f = q[1] /\ 1 \in 1..Len(q)
  BY <1>2
<1>5. f \in Frame /\ Socket(f.src) = k
  BY <1>1, <1>3, <1>4 DEF IInv, PlaceInv
<1>6. CASE Socket(t) = k
  <2>1. InQueue(t) = Numbers(q, t) /\ InQueue(t)' = Numbers(Tail(q), t)
    BY <1>1, <1>6 DEF InQueue, IInv, TypeInv
  <2> HIDE DEF q
  <2>2. /\ Numbers(q, t) = Numbers(Tail(q), t) \cup One(f, t)
        /\ Numbers(Tail(q), t) \cap One(f, t) = {}
    BY <1>2, <1>3, NumbersTail DEF q
  <2> QED
    BY <1>5, <2>1, <2>2
<1>7. CASE Socket(t) # k
  <2>1. One(f, t) = {}
    BY <1>5, <1>7 DEF One
  <2>2. queue'[Socket(t)] = queue[Socket(t)]
    BY <1>1, <1>7 DEF IInv, TypeInv
  <2> QED
    BY <1>1, <1>5, <2>1, <2>2 DEF InQueue
<1> QED
  BY <1>6, <1>7

LEMMA QueueTakes ==
    ASSUME IInv, prog' = prog, NEW s \in Interfaces, NEW f \in Frame, f.src = s,
           queue' = [queue EXCEPT ![Socket(s)] = Append(@, f)], NEW t \in Interfaces
    PROVE  InQueue(t)' = InQueue(t) \cup One(f, t)
<1>1. Socket(s) \in Sockets /\ Socket(t) \in Sockets /\ Socket(t)' = Socket(t)
  BY Names DEF IInv, Socket
<1>2. queue[Socket(s)] \in Seq(Frame)
  BY <1>1 DEF IInv, TypeInv
<1>3. CASE Socket(t) = Socket(s)
  <2>1. queue'[Socket(t)] = Append(queue[Socket(t)], f)
    BY <1>1, <1>3 DEF IInv, TypeInv
  <2> QED
    BY <1>1, <1>2, <1>3, <2>1, NumbersAppend DEF InQueue
<1>4. CASE Socket(t) # Socket(s)
  <2>1. queue'[Socket(t)] = queue[Socket(t)]
    BY <1>1, <1>4 DEF IInv, TypeInv
  <2> QED
    BY <1>1, <1>4, <2>1 DEF InQueue, One
<1> QED
  BY <1>3, <1>4

LEMMA BufferTakes ==
    ASSUME IInv, NEW s \in Sources, NEW f \in Frame, f.src = s,
           buffer' = [buffer EXCEPT ![s] = Append(@, f)], NEW t \in Interfaces
    PROVE  InBuffer(t)' = InBuffer(t) \cup One(f, t)
<1>1. buffer \in [Sources -> Seq(Frame)] /\ buffer[s] \in Seq(Frame)
  BY DEF IInv, TypeInv
<1>2. CASE t = s
  BY <1>1, <1>2, NumbersAppend DEF InBuffer
<1>3. CASE t # s
  BY <1>1, <1>3 DEF InBuffer, One
<1> QED
  BY <1>2, <1>3

LEMMA BufferGives ==
    ASSUME IInv, NEW s \in Sources, buffer[s] # <<>>, buffer' = [buffer EXCEPT ![s] = Tail(@)],
           NEW f, f = Head(buffer[s]), NEW t \in Interfaces
    PROVE  /\ f \in Frame
           /\ InBuffer(t) = InBuffer(t)' \cup One(f, t) /\ InBuffer(t)' \cap One(f, t) = {}
<1> DEFINE q == buffer[s]
<1>1. buffer \in [Sources -> Seq(Frame)] /\ q \in Seq(Frame) /\ q # <<>> /\ Ordered(q)
  BY DEF IInv, TypeInv, OrderInv, BufferOrder
<1>2. \A i \in 1..Len(q) : q[i] \in Frame /\ q[i].n \in Nat
  <2>1. \A i \in 1..Len(q) : q[i] \in Frame
    BY <1>1
  <2> QED
    BY <2>1 DEF Frame
<1>3. f = q[1] /\ 1 \in 1..Len(q)
  BY <1>1
<1>4. f \in Frame /\ f.src = s
  BY <1>2, <1>3 DEF IInv, PlaceInv
<1>5. CASE t = s
  <2>1. InBuffer(t) = Numbers(q, t) /\ InBuffer(t)' = Numbers(Tail(q), t)
    BY <1>1, <1>5 DEF InBuffer
  <2> HIDE DEF q
  <2>2. /\ Numbers(q, t) = Numbers(Tail(q), t) \cup One(f, t)
        /\ Numbers(Tail(q), t) \cap One(f, t) = {}
    BY <1>1, <1>2, NumbersTail DEF q
  <2> QED
    BY <1>4, <2>1, <2>2
<1>6. CASE t # s
  BY <1>1, <1>4, <1>6 DEF InBuffer, One
<1> QED
  BY <1>5, <1>6

LEMMA HandsTake ==
    ASSUME IInv, NEW w \in Workers, hand[w] = None, NEW f \in Frame,
           hand' = [hand EXCEPT ![w] = f], NEW t \in Interfaces
    PROVE  InHands(t)' = InHands(t) \cup One(f, t)
<1>1. hand'[w] = f /\ (\A x \in Workers : x # w => hand'[x] = hand[x]) /\ hand[w].src # t
  BY CangwAssumption DEF IInv, TypeInv, None, Interfaces
<1>2. ASSUME NEW n, n \in InHands(t)' PROVE n \in InHands(t) \cup One(f, t)
  BY <1>1, <1>2 DEF InHands, One
<1>3. ASSUME NEW n, n \in InHands(t) PROVE n \in InHands(t)'
  BY <1>1, <1>3 DEF InHands
<1>4. ASSUME NEW n, n \in One(f, t) PROVE n \in InHands(t)'
  BY <1>1, <1>4 DEF InHands, One
<1> QED
  BY <1>2, <1>3, <1>4

(* A worker has the frames of its interfaces only: no other has this one.   *)
LEMMA HandsGive ==
    ASSUME IInv, NEW w \in Workers, hand[w] # None, hand' = [hand EXCEPT ![w] = None],
           NEW f, f = hand[w], NEW t \in Interfaces
    PROVE  /\ f \in Frame
           /\ InHands(t) = InHands(t)' \cup One(f, t) /\ InHands(t)' \cap One(f, t) = {}
<1>1. hand'[w] = None /\ (\A x \in Workers : x # w => hand'[x] = hand[x]) /\ None.src # t
  BY CangwAssumption DEF IInv, TypeInv, None, Interfaces
<1>2. f \in Frame /\ Worker(f.src) = w
  BY DEF IInv, TypeInv, PlaceInv
<1>3. \A x \in Workers : hand[x].src = t => Worker(t) = x
  <2>1. \A x \in Workers : hand[x].src = t => hand[x] # None
    BY <1>1
  <2> QED
    BY <2>1 DEF IInv, PlaceInv
<1>4. ASSUME NEW n, n \in InHands(t) PROVE n \in InHands(t)' \cup One(f, t)
  BY <1>1, <1>4 DEF InHands, One
<1>5. ASSUME NEW n, n \in InHands(t)' PROVE n \in InHands(t) /\ f.src # t
  <2>1. PICK x \in Workers : hand'[x].src = t /\ n = hand'[x].n
    BY <1>5 DEF InHands
  <2>2. x # w
    BY <1>1, <2>1
  <2>3. hand[x].src = t /\ n = hand[x].n
    BY <1>1, <2>1, <2>2
  <2> QED
    BY <1>2, <1>3, <2>2, <2>3 DEF InHands
<1>6. ASSUME NEW n, n \in One(f, t) PROVE n \in InHands(t)
  BY <1>6 DEF InHands, One
<1> QED
  BY <1>2, <1>4, <1>5, <1>6 DEF One

LEMMA PendingTakes ==
    ASSUME IInv, NEW f \in Frame, pending' = Append(pending, f), NEW t
    PROVE  InPending(t)' = InPending(t) \cup One(f, t)
BY NumbersAppend DEF IInv, TypeInv, InPending

LEMMA PendingGives ==
    ASSUME IInv, pending # <<>>, pending' = Tail(pending), NEW f, f = Head(pending), NEW t
    PROVE  /\ f \in Frame
           /\ InPending(t) = InPending(t)' \cup One(f, t) /\ InPending(t)' \cap One(f, t) = {}
<1>1. pending \in Seq(Frame) /\ Ordered(pending)
  BY DEF IInv, TypeInv, OrderInv, PendingOrder
<1>2. \A i \in 1..Len(pending) : pending[i] \in Frame /\ pending[i].n \in Nat
  <2>1. \A i \in 1..Len(pending) : pending[i] \in Frame
    BY <1>1
  <2> QED
    BY <2>1 DEF Frame
<1>3. f \in Frame
  BY <1>1, TailKeeps
<1> QED
  BY <1>1, <1>2, <1>3, NumbersTail DEF InPending

LEMMA OutTakes ==
    ASSUME IInv, NEW f \in Frame, out' = Append(out, Converted(f)), NEW t
    PROVE  InOut(t)' = InOut(t) \cup One(f, t)
<1>1. Converted(f) \in OutFrame /\ One(Converted(f), t) = One(f, t)
  BY DEF Converted, OutFrame, Frame, One
<1> QED
  BY <1>1, NumbersAppend DEF IInv, TypeInv, InOut

LEMMA LostTakes ==
    ASSUME NEW f, lost' = lost \cup {f}, NEW t
    PROVE  InLost(t)' = InLost(t) \cup One(f, t)
BY DEF InLost, One

---------------------------------------------------------------------------
(* Each step moves one frame. *)

(* A frame goes from place a to place b; the others stay as they are.       *)
Moves(f, a, b) ==
    \A t \in Interfaces :
       /\ Held(t)[a] = Held(t)'[a] \cup One(f, t) /\ Held(t)'[a] \cap One(f, t) = {}
       /\ Held(t)'[b] = Held(t)[b] \cup One(f, t)
       /\ \A p \in Places \ {a, b} : Held(t)'[p] = Held(t)[p]

LEMMA AccountedMoves ==
    ASSUME Accounted, arrived' = arrived, NEW a \in Places, NEW b \in Places, a # b,
           NEW f, Moves(f, a, b)
    PROVE  Accounted'
<1>1. ASSUME NEW t \in Interfaces PROVE Partition(Held(t)', arrived'[t])
  <2>1. PICK h, k, e, n : h = Held(t) /\ k = Held(t)' /\ e = One(f, t) /\ n = arrived[t]
    OBVIOUS
  <2>2. Partition(h, n)
    BY <2>1, AccountedIs
  <2>3. /\ h[a] = k[a] \cup e /\ k[a] \cap e = {} /\ k[b] = h[b] \cup e
        /\ \A p \in Places \ {a, b} : k[p] = h[p]
    BY <2>1 DEF Moves
  <2>4. Partition(k, n)
    BY <2>2, <2>3, PartitionMoves
  <2> QED
    BY <2>1, <2>4
<1> QED
  BY <1>1, AccountedIs

LEMMA FieldsAre ==
    ASSUME NEW t
    PROVE  /\ Held(t)["queued"] = InQueue(t) /\ Held(t)'["queued"] = InQueue(t)'
           /\ Held(t)["buffered"] = InBuffer(t) /\ Held(t)'["buffered"] = InBuffer(t)'
           /\ Held(t)["held"] = InHands(t) /\ Held(t)'["held"] = InHands(t)'
           /\ Held(t)["pending"] = InPending(t) /\ Held(t)'["pending"] = InPending(t)'
           /\ Held(t)["out"] = InOut(t) /\ Held(t)'["out"] = InOut(t)'
           /\ Held(t)["lost"] = InLost(t) /\ Held(t)'["lost"] = InLost(t)'
BY HeldIs

LEMMA StillAccounted ==
    ASSUME Accounted, Still, lost' = lost
    PROVE  Accounted'
<1>1. ASSUME NEW t \in Interfaces PROVE Held(t)' = Held(t)
  <2>1. /\ InQueue(t)' = InQueue(t) /\ InBuffer(t)' = InBuffer(t) /\ InHands(t)' = InHands(t)
        /\ InPending(t)' = InPending(t) /\ InOut(t)' = InOut(t) /\ InLost(t)' = InLost(t)
    BY PlacesSame DEF Still
  <2> QED
    BY <2>1, HeldIs
<1> QED
  BY <1>1, AccountedIs DEF Still

LEMMA ArriveAccounted ==
    ASSUME IInv, Accounted, NEW s \in Interfaces, NEW kind \in Kinds, Arrive(s, kind)
    PROVE  Accounted'
<1> DEFINE f == [src |-> s, n |-> arrived[s] + 1, kind |-> kind]
<1>1. arrived[s] \in Nat /\ arrived \in [Interfaces -> Nat]
  BY DEF IInv, TypeInv
<1>2. f \in Frame /\ f.src = s /\ f.n = arrived[s] + 1
  BY <1>1 DEF Frame
<1>3. /\ \/ queue' = [queue EXCEPT ![Socket(s)] = Append(@, f)] /\ lost' = lost
         \/ lost' = lost \cup {f} /\ queue' = queue
      /\ arrived' = [arrived EXCEPT ![s] = @ + 1]
      /\ prog' = prog /\ buffer' = buffer /\ hand' = hand /\ pending' = pending /\ out' = out
  BY DEF Arrive
<1> HIDE DEF f
<1>4. ASSUME NEW t \in Interfaces PROVE Partition(Held(t)', arrived'[t])
  <2>1. PICK b \in {"queued", "lost"} :
           /\ Held(t)'[b] = Held(t)[b] \cup One(f, t)
           /\ \A p \in Places \ {b} : Held(t)'[p] = Held(t)[p]
    <3>1. CASE queue' = [queue EXCEPT ![Socket(s)] = Append(@, f)] /\ lost' = lost
      <4>1. Held(t)'["queued"] = Held(t)["queued"] \cup One(f, t)
        BY <1>2, <1>3, <3>1, QueueTakes, FieldsAre
      <4>2. \A p \in Places \ {"queued"} : Held(t)'[p] = Held(t)[p]
        BY <1>3, <3>1, FieldsAre, PlacesSame DEF Places
      <4> QED
        BY <4>1, <4>2
    <3>2. CASE lost' = lost \cup {f} /\ queue' = queue
      <4>1. Held(t)'["lost"] = Held(t)["lost"] \cup One(f, t)
        BY <3>2, LostTakes, FieldsAre
      <4>2. \A p \in Places \ {"lost"} : Held(t)'[p] = Held(t)[p]
        BY <1>3, <3>2, FieldsAre, PlacesSame DEF Places
      <4> QED
        BY <4>1, <4>2
    <3> QED
      BY <1>3, <3>1, <3>2
  <2>2. PICK h, k, e : h = Held(t) /\ k = Held(t)' /\ e = One(f, t)
    OBVIOUS
  <2>3. PICK n \in Nat : n = arrived[t]
    BY <1>1
  <2>4. Partition(h, n) /\ b \in Places
    BY <2>2, <2>3, AccountedIs DEF Places
  <2>5. k[b] = h[b] \cup e /\ \A p \in Places \ {b} : k[p] = h[p]
    BY <2>1, <2>2
  <2>6. CASE t = s
    <3>1. e = {n + 1} /\ arrived'[t] = n + 1
      BY <1>1, <1>2, <1>3, <2>2, <2>3, <2>6 DEF One
    <3>2. Partition(k, n + 1)
      BY <2>4, <2>5, <3>1, PartitionGrows
    <3> QED
      BY <2>2, <3>1, <3>2
  <2>7. CASE t # s
    <3>1. e = {} /\ arrived'[t] = n
      BY <1>1, <1>2, <1>3, <2>2, <2>3, <2>7 DEF One
    <3>2. \A p \in Places : k[p] = h[p]
      BY <2>5, <3>1
    <3>3. Partition(k, n)
      BY <2>4, <3>2 DEF Partition
    <3> QED
      BY <2>2, <3>1, <3>3
  <2> QED
    BY <2>6, <2>7
<1> QED
  BY <1>4, AccountedIs

LEMMA ReadAccounted ==
    ASSUME IInv, Accounted, NEW s \in Sources, Read(s)
    PROVE  Accounted'
<1> PICK f : f = Head(queue[Socket(s)])
  OBVIOUS
<1>1. /\ queue' = [queue EXCEPT ![Socket(s)] = Tail(@)] /\ queue[Socket(s)] # <<>>
      /\ prog # "asio" /\ Deliver(s, f)
      /\ prog' = prog /\ arrived' = arrived /\ pending' = pending /\ out' = out
  BY DEF Read
<1>2. \A t \in Interfaces :
         /\ f \in Frame
         /\ InQueue(t) = InQueue(t)' \cup One(f, t) /\ InQueue(t)' \cap One(f, t) = {}
  BY <1>1, QueueGives
<1>3. Worker(s) \in Workers /\ s \in Interfaces
  BY Names DEF IInv
<1>4. CASE lost' = lost \cup {f} /\ hand' = hand /\ buffer' = buffer
  <2>1. ASSUME NEW t \in Interfaces
        PROVE  /\ Held(t)["queued"] = Held(t)'["queued"] \cup One(f, t)
               /\ Held(t)'["queued"] \cap One(f, t) = {}
               /\ Held(t)'["lost"] = Held(t)["lost"] \cup One(f, t)
               /\ \A p \in Places \ {"queued", "lost"} : Held(t)'[p] = Held(t)[p]
    BY <1>1, <1>2, <1>4, LostTakes, FieldsAre, PlacesSame DEF Places
  <2>2. "queued" \in Places /\ "lost" \in Places /\ "queued" # "lost"
    BY DEF Places
  <2>3. Moves(f, "queued", "lost")
    BY <2>1 DEF Moves
  <2> QED
    BY <1>1, <2>2, <2>3, AccountedMoves
<1>5. CASE /\ prog = "py" /\ buffer' = [buffer EXCEPT ![s] = Append(@, f)]
           /\ hand' = hand /\ lost' = lost
  <2>1. f \in Frame /\ f.src = s
    <3>1. f \in Frame
      BY <1>2, <1>3
    <3>2. Socket(s) = s /\ s \in Sockets /\ queue[s] \in Seq(Frame) /\ queue[s] # <<>>
      BY <1>1, <1>3, <1>5, Names DEF IInv, TypeInv
    <3>3. f = queue[s][1] /\ 1 \in 1..Len(queue[s])
      BY <3>2
    <3>4. Socket(f.src) = s
      BY <3>2, <3>3 DEF IInv, PlaceInv
    <3> QED
      BY <1>5, <3>1, <3>4, Names DEF IInv
  <2>2. ASSUME NEW t \in Interfaces PROVE InBuffer(t)' = InBuffer(t) \cup One(f, t)
    BY <1>5, <2>1, BufferTakes
  <2>3. ASSUME NEW t \in Interfaces
        PROVE  /\ Held(t)["queued"] = Held(t)'["queued"] \cup One(f, t)
               /\ Held(t)'["queued"] \cap One(f, t) = {}
               /\ Held(t)'["buffered"] = Held(t)["buffered"] \cup One(f, t)
               /\ \A p \in Places \ {"queued", "buffered"} : Held(t)'[p] = Held(t)[p]
    BY <1>1, <1>2, <1>5, <2>2, FieldsAre, PlacesSame DEF Places
  <2>4. "queued" \in Places /\ "buffered" \in Places /\ "queued" # "buffered"
    BY DEF Places
  <2>5. Moves(f, "queued", "buffered")
    BY <2>3 DEF Moves
  <2> QED
    BY <1>1, <2>4, <2>5, AccountedMoves
<1>6. CASE /\ prog # "py" /\ hand' = [hand EXCEPT ![Worker(s)] = f]
           /\ buffer' = buffer /\ lost' = lost
  <2>1. hand[Worker(s)] = None
    BY <1>6 DEF Read, Free
  <2>2. ASSUME NEW t \in Interfaces PROVE InHands(t)' = InHands(t) \cup One(f, t)
    BY <1>2, <1>3, <1>6, <2>1, HandsTake
  <2>3. ASSUME NEW t \in Interfaces
        PROVE  /\ Held(t)["queued"] = Held(t)'["queued"] \cup One(f, t)
               /\ Held(t)'["queued"] \cap One(f, t) = {}
               /\ Held(t)'["held"] = Held(t)["held"] \cup One(f, t)
               /\ \A p \in Places \ {"queued", "held"} : Held(t)'[p] = Held(t)[p]
    BY <1>1, <1>2, <1>6, <2>2, FieldsAre, PlacesSame DEF Places
  <2>4. "queued" \in Places /\ "held" \in Places /\ "queued" # "held"
    BY DEF Places
  <2>5. Moves(f, "queued", "held")
    BY <2>3 DEF Moves
  <2> QED
    BY <1>1, <2>4, <2>5, AccountedMoves
<1> QED
  BY <1>1, <1>4, <1>5, <1>6 DEF Deliver

LEMMA ReceivedAccounted ==
    ASSUME IInv, Accounted, NEW s \in Sources, Received(s)
    PROVE  Accounted'
<1> PICK f : f = Head(queue[Socket(s)])
  OBVIOUS
<1>1. Socket(s) = s
  BY Names DEF IInv, Received
<1>2. /\ queue' = [queue EXCEPT ![Socket(s)] = Tail(@)] /\ queue[Socket(s)] # <<>>
      /\ pending' = Append(pending, f)
      /\ prog' = prog /\ arrived' = arrived /\ buffer' = buffer /\ hand' = hand
      /\ out' = out /\ lost' = lost
  BY <1>1 DEF Received, AtEnd
<1>3. \A t \in Interfaces :
         /\ f \in Frame
         /\ InQueue(t) = InQueue(t)' \cup One(f, t) /\ InQueue(t)' \cap One(f, t) = {}
  BY <1>2, QueueGives
<1>4. \A t \in Interfaces : InPending(t)' = InPending(t) \cup One(f, t)
  BY <1>2, <1>3, PendingTakes
<1>5. ASSUME NEW t \in Interfaces
      PROVE  /\ Held(t)["queued"] = Held(t)'["queued"] \cup One(f, t)
             /\ Held(t)'["queued"] \cap One(f, t) = {}
             /\ Held(t)'["pending"] = Held(t)["pending"] \cup One(f, t)
             /\ \A p \in Places \ {"queued", "pending"} : Held(t)'[p] = Held(t)[p]
  BY <1>2, <1>3, <1>4, FieldsAre, PlacesSame DEF Places
<1>6. "queued" \in Places /\ "pending" \in Places /\ "queued" # "pending"
  BY DEF Places
<1>7. Moves(f, "queued", "pending")
  BY <1>5 DEF Moves
<1> QED
  BY <1>2, <1>6, <1>7, AccountedMoves

LEMMA TakeAccounted ==
    ASSUME IInv, Accounted, NEW s \in Sources, Take(s)
    PROVE  Accounted'
<1> PICK f : f = Head(buffer[s])
  OBVIOUS
<1>1. /\ buffer' = [buffer EXCEPT ![s] = Tail(@)] /\ buffer[s] # <<>>
      /\ hand' = [hand EXCEPT ![Worker(s)] = f] /\ hand[Worker(s)] = None
      /\ prog' = prog /\ arrived' = arrived /\ queue' = queue /\ pending' = pending
      /\ out' = out /\ lost' = lost
  BY DEF Take, Free
<1>2. Worker(s) \in Workers
  BY Names DEF IInv
<1>3. \A t \in Interfaces :
         /\ f \in Frame
         /\ InBuffer(t) = InBuffer(t)' \cup One(f, t) /\ InBuffer(t)' \cap One(f, t) = {}
  BY <1>1, BufferGives
<1>4. ASSUME NEW t \in Interfaces PROVE InHands(t)' = InHands(t) \cup One(f, t)
  BY <1>1, <1>2, <1>3, HandsTake
<1>5. ASSUME NEW t \in Interfaces
      PROVE  /\ Held(t)["buffered"] = Held(t)'["buffered"] \cup One(f, t)
             /\ Held(t)'["buffered"] \cap One(f, t) = {}
             /\ Held(t)'["held"] = Held(t)["held"] \cup One(f, t)
             /\ \A p \in Places \ {"buffered", "held"} : Held(t)'[p] = Held(t)[p]
  BY <1>1, <1>3, <1>4, FieldsAre, PlacesSame DEF Places
<1>6. "buffered" \in Places /\ "held" \in Places /\ "buffered" # "held"
  BY DEF Places
<1>7. Moves(f, "buffered", "held")
  BY <1>5 DEF Moves
<1> QED
  BY <1>1, <1>6, <1>7, AccountedMoves

(* A frame that has left its place goes out or is lost.                     *)
LEMMA LeavesAccounted ==
    ASSUME IInv, Accounted, arrived' = arrived, NEW f \in Frame, NEW a \in Places \ {"out", "lost"},
           \A t \in Interfaces :
              /\ Held(t)[a] = Held(t)'[a] \cup One(f, t) /\ Held(t)'[a] \cap One(f, t) = {}
              /\ \A p \in Places \ {a, "out", "lost"} : Held(t)'[p] = Held(t)[p],
           \/ out' = Append(out, Converted(f)) /\ lost' = lost
           \/ lost' = lost \cup {f} /\ out' = out
    PROVE  Accounted'
<1>1. CASE out' = Append(out, Converted(f)) /\ lost' = lost
  <2>1. \A t \in Interfaces : InOut(t)' = InOut(t) \cup One(f, t) /\ InLost(t)' = InLost(t)
    BY <1>1, OutTakes, PlacesSame
  <2>2. \A t \in Interfaces : /\ Held(t)'["out"] = Held(t)["out"] \cup One(f, t)
                              /\ Held(t)'["lost"] = Held(t)["lost"]
    BY <2>1, FieldsAre
  <2>3. "out" \in Places /\ a \in Places /\ a # "out"
    BY DEF Places
  <2>4. Moves(f, a, "out")
    BY <2>2 DEF Moves
  <2> QED
    BY <2>3, <2>4, AccountedMoves
<1>2. CASE lost' = lost \cup {f} /\ out' = out
  <2>1. \A t \in Interfaces : InLost(t)' = InLost(t) \cup One(f, t) /\ InOut(t)' = InOut(t)
    BY <1>2, LostTakes, PlacesSame
  <2>2. \A t \in Interfaces : /\ Held(t)'["lost"] = Held(t)["lost"] \cup One(f, t)
                              /\ Held(t)'["out"] = Held(t)["out"]
    BY <2>1, FieldsAre
  <2>3. "lost" \in Places /\ a \in Places /\ a # "lost"
    BY DEF Places
  <2>4. Moves(f, a, "lost")
    BY <2>2 DEF Moves
  <2> QED
    BY <2>3, <2>4, AccountedMoves
<1> QED
  BY <1>1, <1>2

LEMMA WriteAccounted ==
    ASSUME IInv, Accounted, NEW w \in Workers, Write(w)
    PROVE  Accounted'
<1> PICK f : f = hand[w]
  OBVIOUS
<1>1. /\ hand[w] # None /\ hand' = [hand EXCEPT ![w] = None]
      /\ \/ out' = Append(out, Converted(f)) /\ lost' = lost
         \/ lost' = lost \cup {f} /\ out' = out
      /\ prog' = prog /\ arrived' = arrived /\ queue' = queue /\ buffer' = buffer
      /\ pending' = pending
  BY DEF Write, Emptied
<1>2. f \in Frame
  BY <1>1 DEF IInv, TypeInv
<1>3. \A t \in Interfaces :
         InHands(t) = InHands(t)' \cup One(f, t) /\ InHands(t)' \cap One(f, t) = {}
  BY <1>1, HandsGive
<1>4. ASSUME NEW t \in Interfaces
      PROVE  /\ Held(t)["held"] = Held(t)'["held"] \cup One(f, t)
             /\ Held(t)'["held"] \cap One(f, t) = {}
             /\ \A p \in Places \ {"held", "out", "lost"} : Held(t)'[p] = Held(t)[p]
  BY <1>1, <1>3, FieldsAre, PlacesSame DEF Places
<1>5. "held" \in Places \ {"out", "lost"}
  BY DEF Places
<1> QED
  BY <1>1, <1>2, <1>4, <1>5, LeavesAccounted

LEMMA SendDoneAccounted ==
    ASSUME IInv, Accounted, SendDone
    PROVE  Accounted'
<1> PICK f : f = Head(pending)
  OBVIOUS
<1>1. /\ pending # <<>> /\ pending' = Tail(pending)
      /\ \/ out' = Append(out, Converted(f)) /\ lost' = lost
         \/ lost' = lost \cup {f} /\ out' = out
      /\ prog' = prog /\ arrived' = arrived /\ queue' = queue /\ buffer' = buffer /\ hand' = hand
  BY DEF SendDone
<1>2. f \in Frame
  BY <1>1 DEF IInv, TypeInv
<1>3. \A t \in Interfaces :
         InPending(t) = InPending(t)' \cup One(f, t) /\ InPending(t)' \cap One(f, t) = {}
  BY <1>1, PendingGives
<1>4. ASSUME NEW t \in Interfaces
      PROVE  /\ Held(t)["pending"] = Held(t)'["pending"] \cup One(f, t)
             /\ Held(t)'["pending"] \cap One(f, t) = {}
             /\ \A p \in Places \ {"pending", "out", "lost"} : Held(t)'[p] = Held(t)[p]
  BY <1>1, <1>3, FieldsAre, PlacesSame DEF Places
<1>5. "pending" \in Places \ {"out", "lost"}
  BY DEF Places
<1> QED
  BY <1>1, <1>2, <1>4, <1>5, LeavesAccounted

LEMMA InitAccounted == Init => Accounted
<1> SUFFICES ASSUME Init PROVE Accounted
  OBVIOUS
<1>1. /\ \A k \in Sockets : queue[k] = <<>>
      /\ \A s \in Sources : buffer[s] = <<>>
      /\ \A w \in Workers : hand[w] = None
      /\ pending = <<>> /\ out = <<>> /\ lost = {}
      /\ \A s \in Interfaces : arrived[s] = 0 /\ Socket(s) \in Sockets
  BY DEF Init, Socket, BoundTo, Sockets
<1>2. \A t : Numbers(<<>>, t) = {}
  BY DEF Numbers
<1>3. ASSUME NEW t \in Interfaces
      PROVE  /\ InQueue(t) = {} /\ InBuffer(t) = {} /\ InHands(t) = {}
             /\ InPending(t) = {} /\ InOut(t) = {} /\ InLost(t) = {}
  <2>1. None.src # t
    BY CangwAssumption DEF None, Interfaces
  <2> QED
    BY <1>1, <1>2, <2>1 DEF InQueue, InBuffer, InHands, InPending, InOut, InLost
<1>4. ASSUME NEW t \in Interfaces PROVE Partition(Held(t), arrived[t])
  <2>1. \A p \in Places : Held(t)[p] = {}
    BY <1>3, FieldsAre DEF Places
  <2>2. 1..arrived[t] = {}
    BY <1>1
  <2> QED
    BY <2>1, <2>2 DEF Partition
<1> QED
  BY <1>4, AccountedIs

LEMMA AccountedInductive == IInv /\ Accounted /\ [Next]_vars => Accounted'
<1> SUFFICES ASSUME IInv, Accounted, [Next]_vars PROVE Accounted'
  OBVIOUS
<1>1. CASE Network
  <2>1. ASSUME NEW s \in Interfaces, NEW kind \in Kinds, Arrive(s, kind) PROVE Accounted'
    BY <2>1, ArriveAccounted
  <2>2. ASSUME NEW s \in Sources, Down(s) PROVE Accounted'
    BY <2>2, StillAccounted DEF Down, Still
  <2> QED
    BY <1>1, <2>1, <2>2 DEF Network
<1>2. CASE EpollWait
  BY <1>2, StillAccounted DEF EpollWait, Still
<1>3. CASE SendDone
  BY <1>3, SendDoneAccounted
<1>4. ASSUME NEW s \in Sources, ReadError(s) PROVE Accounted'
  BY <1>4, StillAccounted DEF ReadError, Still
<1>5. ASSUME NEW s \in Sources, Read(s) PROVE Accounted'
  BY <1>5, ReadAccounted
<1>6. ASSUME NEW s \in Sources, Take(s) PROVE Accounted'
  BY <1>6, TakeAccounted
<1>7. ASSUME NEW s \in Sources, Received(s) PROVE Accounted'
  BY <1>7, ReceivedAccounted
<1>8. ASSUME NEW w \in Workers, Write(w) PROVE Accounted'
  BY <1>8, WriteAccounted
<1>9. CASE UNCHANGED vars
  BY <1>9, StillAccounted DEF vars, Still
<1> QED
  BY <1>1, <1>2, <1>3, <1>4, <1>5, <1>6, <1>7, <1>8, <1>9 DEF Next

(* No frame vanishes and none is made up or doubled on its way through any  *)
(* of the gateways: each that came is in exactly one of a socket's queue, a *)
(* reader's buffer, a worker's hand, a send under way, what was written and *)
(* what was lost.                                                           *)
THEOREM GatewayAccounted == Spec => []Accounted
<1>1. IInv /\ Accounted /\ [Next]_vars => (IInv /\ Accounted)'
  BY Inductive, AccountedInductive
<1> QED
  BY <1>1, InitHolds, InitAccounted, PTL DEF Spec

=============================================================================
