--------------------------- MODULE LibraryProofs ---------------------------
(***************************************************************************)
(* The writing halves of the C++, C# and Rust libraries for any threads,   *)
(* any number of lines, any size of a batch and a port that may fail or    *)
(* not: their variables keep their types, the C++ write loop never sleeps  *)
(* on a line nobody will announce, and each implements LinePipe, so that   *)
(* the lines of a thread keep their order.                                 *)
(***************************************************************************)
EXTENDS CppWriter, FiniteSets, SequenceTheorems, TLAPS

(* The C# and the Rust library next to the C++ one: the threads that use    *)
(* them, their parameters, and their variables, but for those that have the *)
(* name of a variable of CppWriter.                                         *)
CONSTANTS Threads, Preempt, BatchMax, MaxOpens, Full, Failures
VARIABLES queue, signal, isOpen, opens, batch, c, toSet,
          cmds, shut, behind, wbuf, failed

Cs == INSTANCE CsWriter WITH Senders <- Threads
Rust == INSTANCE RustWorker WITH Senders <- Threads

(* What is proved of LinePipe, for the pipe each library implements. *)
CppOrder == INSTANCE LinePipeProofs WITH
    Lossy <- Timeouts, pending <- chunk \o buffer, closing <- ~running
CsOrder == INSTANCE LinePipeProofs WITH
    Senders <- Threads,
    Lossy <- Failures, pending <- batch[1] \o queue, closing <- opens > 0 /\ ~running
RustOrder == INSTANCE LinePipeProofs WITH
    Senders <- Threads,
    Lossy <- Failures, pending <- wbuf \o cmds \o behind, closing <- shut \/ failed

---------------------------------------------------------------------------
(* The C++ library. *)

(* The buffer is empty where the loop decided to block, and stays so while  *)
(* it has the mutex; running_ is cleared by the destructor alone.           *)
CppInv ==
    /\ TypeOK
    /\ w = "park" => buffer = <<>>
    /\ NoSleepOnWork
    /\ d # "none" => ~running

---------------------------------------------------------------------------
LEMMA CppInitHolds == Init => CppInv
<1> SUFFICES ASSUME Init PROVE CppInv
  OBVIOUS
<1>1. <<>> \in Seq(Line)
  OBVIOUS
<1>2. sent \in [Senders -> 0..MaxSends]
  BY CppAssumption DEF Init
<1> QED
  BY <1>1, <1>2 DEF Init, CppInv, TypeOK, NoSleepOnWork, WriterStates

LEMMA CppSendKeeps ==
    ASSUME CppInv, NEW s \in Senders, Send(s)
    PROVE  CppInv'
<1>1. sent[s] \in 0..MaxSends /\ sent[s] < MaxSends
  BY DEF CppInv, TypeOK, Send
<1>2. [by |-> s, n |-> sent[s] + 1] \in Line /\ sent[s] + 1 \in 0..MaxSends
  BY <1>1, CppAssumption DEF Line
<1>3. buffer' \in Seq(Line) /\ sent' \in [Senders -> 0..MaxSends]
  BY <1>2 DEF CppInv, TypeOK, Send, AtEnd
<1>4. w \notin {"eval", "park", "pass", "swap"} /\ toNotify' # {}
  BY DEF Send, CanLock, Unlocked
<1> QED
  BY <1>3, <1>4 DEF CppInv, TypeOK, Send, NoSleepOnWork

LEMMA CppWriteLoopKeeps ==
    ASSUME CppInv, WriteLoop \/ WSpurious
    PROVE  CppInv'
<1> USE DEF CppInv, TypeOK, NoSleepOnWork, WriterStates, Go
<1>1. CASE WTop
  BY <1>1 DEF WTop
<1>2. CASE WEval
  BY <1>2 DEF WEval, Predicate
<1>3. CASE WPark
  BY <1>3 DEF WPark
<1>4. CASE WPass
  BY <1>4 DEF WPass
<1>5. CASE WSleep
  BY <1>5 DEF WSleep
<1>6. CASE WSwap
  <2>1. <<>> \in Seq(Line)
    OBVIOUS
  <2> QED
    BY <1>6, <2>1 DEF WSwap, SwapBuffer
<1>7. CASE WWrite
  <2>1. <<>> \in Seq(Line)
    OBVIOUS
  <2>2. port' \in Seq(Line)
    <3>1. CASE port' = port \o chunk
      BY <3>1
    <3>2. ASSUME NEW k \in 0..Len(chunk), port' = port \o SubSeq(chunk, 1, k)
          PROVE  port' \in Seq(Line)
      <4>1. SubSeq(chunk, 1, k) \in Seq(Line)
        OBVIOUS
      <4> QED
        BY <3>2, <4>1
    <3> QED
      BY <1>7, <3>1, <3>2 DEF WWrite
  <2> QED
    BY <1>7, <2>1, <2>2 DEF WWrite
<1>8. CASE WSpurious
  BY <1>8 DEF WSpurious
<1> QED
  BY <1>1, <1>2, <1>3, <1>4, <1>5, <1>6, <1>7, <1>8 DEF WriteLoop

LEMMA CppOthersKeep ==
    ASSUME CppInv,
           \/ \E s \in Senders : NotifyOne(s)
           \/ RCallback \/ RReturn \/ REnd \/ DStop \/ Destructor
    PROVE  CppInv'
<1> USE DEF CppInv, TypeOK, NoSleepOnWork, WriterStates
<1>1. ASSUME NEW s \in Senders, NotifyOne(s) PROVE CppInv'
  BY <1>1 DEF NotifyOne, Notify
<1>2. CASE RCallback
  BY <1>2 DEF RCallback
<1>3. CASE RReturn
  BY <1>3 DEF RReturn
<1>4. CASE REnd
  BY <1>4 DEF REnd
<1>5. CASE DStop
  BY <1>5 DEF DStop
<1>6. CASE DNotify
  BY <1>6 DEF DNotify, Notify
<1>7. CASE DJoinRead
  BY <1>7 DEF DJoinRead
<1>8. CASE DJoinWrite
  <2>1. <<>> \in Seq(Line)
    OBVIOUS
  <2> QED
    BY <1>8, <2>1 DEF DJoinWrite, WriterJoined
<1> QED
  BY <1>1, <1>2, <1>3, <1>4, <1>5, <1>6, <1>7, <1>8 DEF Destructor

LEMMA CppInductive == CppInv /\ [Next]_vars => CppInv'
<1> SUFFICES ASSUME CppInv, [Next]_vars PROVE CppInv'
  OBVIOUS
<1>1. CASE UNCHANGED vars
  BY <1>1 DEF vars, CppInv, TypeOK, NoSleepOnWork
<1> QED
  BY <1>1, CppSendKeeps, CppWriteLoopKeeps, CppOthersKeep DEF Next

(* The variables keep their types, the chunk is empty outside the write and *)
(* the threads are gone before the members are.                             *)
THEOREM CppTypeCorrect == Spec => []TypeOK
<1>1. CppInv => TypeOK
  BY DEF CppInv
<1> QED
  BY <1>1, CppInitHolds, CppInductive, PTL DEF Spec

(* Whenever write_loop is blocked on a line, its sender has yet to notify.  *)
THEOREM CppNoSleepOnWork == Spec => []NoSleepOnWork
<1>1. CppInv => NoSleepOnWork
  BY DEF CppInv
<1> QED
  BY <1>1, CppInitHolds, CppInductive, PTL DEF Spec

---------------------------------------------------------------------------
(* The refinement. *)

LEMMA CppInitRefines == Init => Pipe!Init
<1> SUFFICES ASSUME Init PROVE Pipe!Init
  OBVIOUS
<1>1. <<>> \o <<>> = <<>>
  OBVIOUS
<1> QED
  BY <1>1 DEF Init, Pipe!Init

LEMMA CppSendRefines ==
    ASSUME CppInv, NEW s \in Senders, Send(s)
    PROVE  Pipe!Put(s)
<1> DEFINE line == [by |-> s, n |-> sent[s] + 1]
<1>1. line \in Line
  BY CppAssumption DEF CppInv, TypeOK, Line
<1> HIDE DEF line
<1>2. chunk \o Append(buffer, line) = Append(chunk \o buffer, line)
  BY <1>1, CppOrder!AppendToConcat DEF CppInv, TypeOK
<1>3. chunk' \o buffer' = Append(chunk \o buffer, line)
  BY <1>2 DEF Send, AtEnd, line
<1> QED
  BY <1>3 DEF Send, Pipe!Put, line

LEMMA CppSwapRefines ==
    ASSUME CppInv, WSwap
    PROVE  UNCHANGED Pipe!vars
<1>1. chunk = <<>>
  BY DEF CppInv, TypeOK, WSwap, Go
<1>2. buffer \o <<>> = buffer /\ <<>> \o buffer = buffer
  BY ConcatEmptySeq DEF CppInv, TypeOK
<1>3. chunk' \o buffer' = chunk \o buffer
  BY <1>1, <1>2 DEF WSwap, SwapBuffer
<1> QED
  BY <1>3 DEF WSwap, Pipe!vars

LEMMA CppWriteRefines ==
    ASSUME CppInv, WWrite
    PROVE  [Pipe!Next]_(Pipe!vars)
<1> DEFINE m == Len(chunk)
<1>1. chunk \in Seq(Line) /\ buffer \in Seq(Line) /\ port \in Seq(Line) /\ m \in Nat
  BY DEF CppInv, TypeOK
<1>2. /\ Len(chunk \o buffer) = m + Len(buffer)
      /\ chunk' \o buffer' = buffer
  BY <1>1, ConcatProperties, ConcatEmptySeq DEF WWrite
<1>3. chunk' \o buffer' = Pipe!From(chunk \o buffer, m)
  BY <1>1, <1>2, CppOrder!RestOfConcat DEF Pipe!From
<1>4. \A k \in 0..m : SubSeq(chunk \o buffer, 1, k) = SubSeq(chunk, 1, k)
  BY <1>1, CppOrder!FrontOfConcat
<1>5. SubSeq(chunk, 1, m) = chunk
  BY <1>1, SubSeqFull
<1>6. m > 0 => m \in 1..Len(chunk \o buffer)
  BY <1>1, <1>2
<1>7. sent' = sent /\ running' = running
  BY DEF WWrite
<1>8. CASE m = 0
  <2>1. chunk = <<>>
    BY <1>1, <1>8
  <2>2. port' = port
    <3>1. \A k \in 0..0 : SubSeq(chunk, 1, k) = <<>>
      BY <1>5, <1>8, <2>1
    <3>2. port \o <<>> = port
      BY <1>1, ConcatEmptySeq
    <3> QED
      BY <1>8, <2>1, <3>1, <3>2 DEF WWrite
  <2>3. chunk' \o buffer' = chunk \o buffer
    BY <1>1, <1>2, <2>1, ConcatEmptySeq
  <2> QED
    BY <1>7, <2>2, <2>3 DEF Pipe!vars
<1>9. CASE m > 0 /\ port' = port \o chunk
  <2>1. port' = port \o SubSeq(chunk \o buffer, 1, m)
    BY <1>1, <1>4, <1>5, <1>9
  <2>2. Pipe!Write(m)
    BY <1>3, <1>7, <2>1 DEF Pipe!Write
  <2> QED
    BY <1>6, <1>9, <2>2 DEF Pipe!Next
<1>10. ASSUME m > 0, Timeouts, NEW k \in 0..m, port' = port \o SubSeq(chunk, 1, k)
       PROVE  [Pipe!Next]_(Pipe!vars)
  <2>1. port' = port \o SubSeq(chunk \o buffer, 1, k)
    BY <1>4, <1>10
  <2>2. Pipe!Fail(k, m)
    BY <1>3, <1>7, <1>10, <2>1 DEF Pipe!Fail
  <2> QED
    BY <1>6, <1>10, <2>2 DEF Pipe!Next
<1>11. port' = port \o chunk \/ (Timeouts /\ \E k \in 0..m : port' = port \o SubSeq(chunk, 1, k))
  BY DEF WWrite
<1>12. m = 0 \/ m > 0
  BY <1>1
<1> HIDE DEF m
<1> QED
  BY <1>8, <1>9, <1>10, <1>11, <1>12, Zenon

LEMMA CppDestructorRefines ==
    ASSUME CppInv, DStop \/ DJoinWrite
    PROVE  Pipe!Close
<1>1. CASE DStop
  BY <1>1 DEF DStop, Pipe!Close
<1>2. CASE DJoinWrite
  <2>1. ~running /\ chunk = <<>>
    BY <1>2 DEF CppInv, TypeOK, DJoinWrite, WriterJoined
  <2>2. chunk' \o buffer' = <<>>
    BY <1>2, <2>1 DEF DJoinWrite
  <2> QED
    BY <1>2, <2>1, <2>2 DEF DJoinWrite, Pipe!Close
<1> QED
  BY <1>1, <1>2

LEMMA CppStepRefines == CppInv /\ [Next]_vars => [Pipe!Next]_(Pipe!vars)
<1> SUFFICES ASSUME CppInv, [Next]_vars PROVE [Pipe!Next]_(Pipe!vars)
  OBVIOUS
<1>1. ASSUME NEW s \in Senders, Send(s) PROVE Pipe!Next
  BY <1>1, CppSendRefines DEF Pipe!Next
<1>2. ASSUME NEW s \in Senders, NotifyOne(s) PROVE UNCHANGED Pipe!vars
  BY <1>2 DEF NotifyOne, Pipe!vars
<1>3. CASE WTop \/ WEval \/ WPark \/ WPass \/ WSleep \/ WSpurious
  BY <1>3 DEF WTop, WEval, WPark, WPass, WSleep, WSpurious, Pipe!vars
<1>4. CASE WSwap
  BY <1>4, CppSwapRefines
<1>5. CASE WWrite
  BY <1>5, CppWriteRefines
<1>6. CASE RCallback \/ RReturn \/ REnd \/ DNotify \/ DJoinRead
  BY <1>6 DEF RCallback, RReturn, REnd, DNotify, DJoinRead, Pipe!vars
<1>7. CASE DStop \/ DJoinWrite
  BY <1>7, CppDestructorRefines DEF Pipe!Next
<1>8. CASE UNCHANGED vars
  BY <1>8 DEF vars, Pipe!vars
<1> QED
  BY <1>1, <1>2, <1>3, <1>4, <1>5, <1>6, <1>7, <1>8 DEF Next, WriteLoop, Destructor

(* Every behaviour of the writer is one of LinePipe: whatever the threads,  *)
(* the grouping, the timeouts and the destructor do, lines come out whole,  *)
(* in each thread's order, and none is lost without a timeout or a close.   *)
THEOREM CppImplementsPipe == Spec => PipeSpec
<1> QED
  BY CppInitHolds, CppInductive, CppInitRefines, CppStepRefines, PTL DEF Spec, PipeSpec, Pipe!Spec

(* So the lines of one thread are in the port, and among those still to     *)
(* come, in the order it sent them, none twice.                             *)
THEOREM CppInOrder == Spec => []Pipe!InOrder
<1>1. PipeSpec => CppOrder!Spec
  <2>1. Pipe!Init => CppOrder!Init
    BY DEF Pipe!Init, CppOrder!Init
  <2>2. [Pipe!Next]_(Pipe!vars) => [CppOrder!Next]_(CppOrder!vars)
    BY DEF Pipe!Next, CppOrder!Next, Pipe!vars, CppOrder!vars, Pipe!Put, CppOrder!Put, Pipe!Write, CppOrder!Write,
           Pipe!Fail, CppOrder!Fail, Pipe!Close, CppOrder!Close, Pipe!From, CppOrder!From
  <2> QED
    BY <2>1, <2>2, PTL DEF PipeSpec, Pipe!Spec, CppOrder!Spec
<1>2. CppOrder!InOrder => Pipe!InOrder
  BY DEF Pipe!InOrder, CppOrder!InOrder, Pipe!Ordered, CppOrder!Ordered
<1> QED
  BY <1>1, <1>2, CppImplementsPipe, CppOrder!PipeInOrder, PTL

LEMMA EmptyLines == \A S : <<>> \in Seq(S)
  OBVIOUS

---------------------------------------------------------------------------
(* The C# library. *)

(* A write loop is there only for an Open that was called. *)
CsInv ==
    /\ Cs!TypeOK
    /\ \A i \in Cs!Loops : w[i] # "none" => i <= opens
    /\ isOpen => opens > 0

LEMMA CsInitHolds ==
    ASSUME Cs!CsAssumption
    PROVE  Cs!Init => CsInv
<1> SUFFICES ASSUME Cs!Init PROVE CsInv
  OBVIOUS
<1>1. sent \in [Threads -> 0..MaxSends] /\ opens \in 0..MaxOpens
  BY DEF Cs!Init, Cs!CsAssumption
<1>2. w \in [Cs!Loops -> Cs!LoopStates] /\ batch \in [Cs!Loops -> Seq(Cs!Line)]
  BY EmptyLines DEF Cs!Init, Cs!LoopStates
<1>3. \A i \in Cs!Loops : Len(batch[i]) <= BatchMax /\ batch[i] = <<>> /\ w[i] = "none"
  BY DEF Cs!Init, Cs!CsAssumption
<1> QED
  BY <1>1, <1>2, <1>3, EmptyLines DEF Cs!Init, CsInv, Cs!TypeOK

---------------------------------------------------------------------------
(* The invariant is inductive. *)

LEMMA CsEnqueueKeeps ==
    ASSUME Cs!CsAssumption, CsInv, NEW s \in Threads, Cs!Enqueue(s)
    PROVE  CsInv'
<1> DEFINE line == [by |-> s, n |-> sent[s] + 1]
<1>1. sent[s] \in 0..MaxSends /\ sent[s] < MaxSends
  BY DEF CsInv, Cs!TypeOK, Cs!Enqueue
<1>2. line \in Cs!Line /\ sent[s] + 1 \in 0..MaxSends
  BY <1>1 DEF Cs!Line, Cs!CsAssumption
<1>3. sent' \in [Threads -> 0..MaxSends]
  BY <1>2 DEF CsInv, Cs!TypeOK, Cs!Enqueue
<1>4. Append(queue, line) \in Seq(Cs!Line)
  BY <1>2 DEF CsInv, Cs!TypeOK
<1>5. toSet' \subseteq Threads
  BY DEF CsInv, Cs!TypeOK, Cs!Enqueue
<1> QED
  BY <1>3, <1>4, <1>5 DEF CsInv, Cs!TypeOK, Cs!Enqueue

(* A loop that has room takes the next line. *)
LEMMA CsDequeueKeeps ==
    ASSUME Cs!CsAssumption, CsInv, NEW i \in Cs!Loops,
           queue # <<>>, Len(batch[i]) < BatchMax, Cs!Dequeue(i)
    PROVE  /\ queue' \in Seq(Cs!Line)
           /\ batch' \in [Cs!Loops -> Seq(Cs!Line)]
           /\ \A j \in Cs!Loops : Len(batch'[j]) <= BatchMax
           /\ \A j \in Cs!Loops : j # i => batch'[j] = batch[j]
<1>1. Head(queue) \in Cs!Line /\ Tail(queue) \in Seq(Cs!Line)
  BY DEF CsInv, Cs!TypeOK
<1>2. batch[i] \in Seq(Cs!Line)
  BY DEF CsInv, Cs!TypeOK
<1> DEFINE b == Append(batch[i], Head(queue))
<1>3. b \in Seq(Cs!Line) /\ Len(b) = Len(batch[i]) + 1
  BY <1>1, <1>2
<1>4. batch' = [batch EXCEPT ![i] = b] /\ queue' = Tail(queue)
  BY DEF Cs!Dequeue
<1> HIDE DEF b
<1>5. Len(b) <= BatchMax
  BY <1>2, <1>3 DEF Cs!CsAssumption
<1> QED
  BY <1>1, <1>3, <1>4, <1>5 DEF CsInv, Cs!TypeOK

LEMMA CsLoopKeeps ==
    ASSUME Cs!CsAssumption, CsInv, NEW i \in Cs!Loops, Cs!WriteLoop(i)
    PROVE  CsInv'
<1> USE EmptyLines DEF CsInv, Cs!TypeOK, Cs!Go, Cs!LoopStates
<1>1. CASE Cs!WTop(i)
  BY <1>1 DEF Cs!WTop
<1>2. CASE Cs!WWait(i)
  BY <1>2 DEF Cs!WWait
<1>3. CASE /\ Cs!WWoken(i) /\ UNCHANGED <<queue, batch>>
           /\ Cs!Go(i, "woken", "gone") \/ Cs!Go(i, "woken", "top")
  BY <1>3 DEF Cs!WWoken
<1>4. CASE Cs!WWoken(i) /\ queue # <<>> /\ Cs!Go(i, "woken", "group") /\ Cs!Dequeue(i)
  <2>1. Len(batch[i]) < BatchMax
    <3>1. batch[i] = <<>>
      BY <1>4
    <3>2. Len(<<>>) = 0 /\ 0 < BatchMax
      BY DEF Cs!CsAssumption
    <3> QED
      BY <3>1, <3>2
  <2>2. /\ queue' \in Seq(Cs!Line) /\ batch' \in [Cs!Loops -> Seq(Cs!Line)]
        /\ \A j \in Cs!Loops : Len(batch'[j]) <= BatchMax
        /\ \A j \in Cs!Loops : j # i => batch'[j] = batch[j]
    BY <1>4, <2>1, CsDequeueKeeps
  <2>3. w' = [w EXCEPT ![i] = "group"] /\ w[i] = "woken"
        /\ UNCHANGED <<signal, running, isOpen, opens, c, toSet, sent, port>>
    BY <1>4 DEF Cs!WWoken
  <2>4. /\ w' \in [Cs!Loops -> Cs!LoopStates] /\ w'[i] = "group"
        /\ \A j \in Cs!Loops : j # i => w'[j] = w[j]
    BY <2>3
  <2> QED
    BY <2>2, <2>3, <2>4
<1>5. CASE Cs!WGroup(i)
  <2>1. queue # <<>> /\ Len(batch[i]) < BatchMax /\ Cs!Dequeue(i) /\ w[i] = "group"
    BY <1>5 DEF Cs!WGroup, Cs!HasRoom
  <2>2. /\ queue' \in Seq(Cs!Line) /\ batch' \in [Cs!Loops -> Seq(Cs!Line)]
        /\ \A j \in Cs!Loops : Len(batch'[j]) <= BatchMax
        /\ \A j \in Cs!Loops : j # i => batch'[j] = batch[j]
    BY <2>1, CsDequeueKeeps
  <2>3. UNCHANGED <<signal, running, isOpen, opens, w, c, toSet, sent, port>>
    BY <1>5 DEF Cs!WGroup
  <2> QED
    BY <2>1, <2>2, <2>3
<1>6. CASE Cs!WGroupEnd(i)
  BY <1>6 DEF Cs!WGroupEnd, Cs!KeepSignal
<1>7. CASE Cs!WWrite(i)
  <2>1. port \o batch[i] \in Seq(Cs!Line)
    OBVIOUS
  <2>5. ASSUME NEW k \in 0..Len(batch[i]) PROVE port \o SubSeq(batch[i], 1, k) \in Seq(Cs!Line)
    <3>1. SubSeq(batch[i], 1, k) \in Seq(Cs!Line)
      OBVIOUS
    <3> QED
      BY <3>1
  <2>2. port' \in Seq(Cs!Line)
    BY <1>7, <2>1, <2>5 DEF Cs!WWrite
  <2>3. /\ batch' \in [Cs!Loops -> Seq(Cs!Line)] /\ batch'[i] = <<>>
        /\ \A j \in Cs!Loops : j # i => batch'[j] = batch[j]
        /\ \A j \in Cs!Loops : Len(batch'[j]) <= BatchMax
    BY <1>7 DEF Cs!WWrite, Cs!CsAssumption
  <2>4. w' \in [Cs!Loops -> Cs!LoopStates] /\ w'[i] = "top" /\ w[i] = "write"
        /\ \A j \in Cs!Loops : j # i => w'[j] = w[j]
    BY <1>7 DEF Cs!WWrite
  <2> QED
    BY <1>7, <2>2, <2>3, <2>4 DEF Cs!WWrite
<1>8. Cs!WWoken(i) => \/ /\ UNCHANGED <<queue, batch>>
                         /\ Cs!Go(i, "woken", "gone") \/ Cs!Go(i, "woken", "top")
                      \/ queue # <<>> /\ Cs!Go(i, "woken", "group") /\ Cs!Dequeue(i)
  BY DEF Cs!WWoken
<1> QED
  BY <1>1, <1>2, <1>3, <1>4, <1>5, <1>6, <1>7, <1>8 DEF Cs!WriteLoop

LEMMA CsOpenKeeps ==
    ASSUME Cs!CsAssumption, CsInv, Cs!Open
    PROVE  CsInv'
<1>1. opens \in Nat /\ opens < MaxOpens /\ opens + 1 \in Cs!Loops /\ opens + 1 \in 0..MaxOpens
  BY DEF CsInv, Cs!TypeOK, Cs!Open, Cs!Loops, Cs!CsAssumption
<1>2. w' \in [Cs!Loops -> Cs!LoopStates] /\ w'[opens + 1] = "top"
      /\ \A i \in Cs!Loops : i # opens + 1 => w'[i] = w[i]
  BY <1>1 DEF CsInv, Cs!TypeOK, Cs!Open, Cs!LoopStates
<1>3. w[opens + 1] = "none" /\ batch[opens + 1] = <<>>
  <2>1. ~(opens + 1 <= opens)
    BY <1>1
  <2> QED
    BY <1>1, <2>1 DEF CsInv, Cs!TypeOK
<1>4. \A i \in Cs!Loops : w'[i] # "none" => i <= opens'
  BY <1>1, <1>2 DEF CsInv, Cs!Open, Cs!Loops
<1> QED
  BY <1>1, <1>2, <1>3, <1>4 DEF CsInv, Cs!TypeOK, Cs!Open

LEMMA CsInductive ==
    ASSUME Cs!CsAssumption
    PROVE  CsInv /\ [Cs!Next]_(Cs!vars) => CsInv'
<1> SUFFICES ASSUME CsInv, [Cs!Next]_(Cs!vars) PROVE CsInv'
  OBVIOUS
<1>1. ASSUME NEW s \in Threads, Cs!Set(s) PROVE CsInv'
  BY <1>1 DEF Cs!Set, CsInv, Cs!TypeOK
<1>2. CASE Cs!CloseStop
  BY <1>2 DEF Cs!CloseStop, CsInv, Cs!TypeOK
<1>3. CASE Cs!CloseSet
  BY <1>3 DEF Cs!CloseSet, Cs!SetSignal, CsInv, Cs!TypeOK
<1>4. CASE Cs!ClosePort
  BY <1>4 DEF Cs!ClosePort, CsInv, Cs!TypeOK
<1>5. CASE UNCHANGED Cs!vars
  BY <1>5 DEF Cs!vars, CsInv, Cs!TypeOK
<1> QED
  BY <1>1, <1>2, <1>3, <1>4, <1>5, CsEnqueueKeeps, CsLoopKeeps, CsOpenKeeps DEF Cs!Next

(* The variables keep their types: no batch grows beyond a full one, and a  *)
(* loop that waits has none.                                                *)
THEOREM CsTypeCorrect ==
    ASSUME Cs!CsAssumption
    PROVE  Cs!Spec => []Cs!TypeOK
<1>1. Cs!Init => CsInv
  BY CsInitHolds
<1>2. CsInv /\ [Cs!Next]_(Cs!vars) => CsInv'
  BY CsInductive
<1>3. CsInv => Cs!TypeOK
  BY DEF CsInv
<1> QED
  BY <1>1, <1>2, <1>3, PTL DEF Cs!Spec

---------------------------------------------------------------------------
(* Opened again while a write loop of the last Open is still there, two     *)
(* loops take lines from one queue.                                         *)

(* Where a line is, and that a sequence has it once. *)
Has(s, x) == \E k \in 1..Len(s) : s[k] = x
Distinct(s) == \A j, k \in 1..Len(s) : s[j] = s[k] => j = k
Apart(s, t) == \A x : ~(Has(s, x) /\ Has(t, x))

LEMMA AppendHas ==
    ASSUME NEW S, NEW s \in Seq(S), NEW x \in S
    PROVE  /\ \A y : Has(Append(s, x), y) <=> Has(s, y) \/ y = x
           /\ Distinct(s) /\ ~Has(s, x) => Distinct(Append(s, x))
<1> DEFINE t == Append(s, x)
<1>1. /\ Len(s) \in Nat /\ Len(t) = Len(s) + 1 /\ t[Len(s) + 1] = x
      /\ \A k \in 1..Len(s) : t[k] = s[k]
  OBVIOUS
<1> HIDE DEF t
<1>2. ASSUME NEW y PROVE Has(t, y) <=> Has(s, y) \/ y = x
  <2>1. 1..Len(t) = (1..Len(s)) \cup {Len(s) + 1}
    BY <1>1
  <2> QED
    BY <1>1, <2>1 DEF Has
<1>3. ASSUME Distinct(s), ~Has(s, x), NEW j \in 1..Len(t), NEW k \in 1..Len(t), t[j] = t[k]
      PROVE  j = k
  <2>1. \A i \in 1..Len(t) : i \in 1..Len(s) \/ i = Len(s) + 1
    BY <1>1
  <2> QED
    BY <1>1, <1>3, <2>1 DEF Distinct, Has
<1> QED
  BY <1>2, <1>3 DEF t, Distinct

LEMMA TailHas ==
    ASSUME NEW S, NEW s \in Seq(S), s # <<>>
    PROVE  /\ \A y : Has(s, y) <=> y = Head(s) \/ Has(Tail(s), y)
           /\ Distinct(s) => Distinct(Tail(s)) /\ ~Has(Tail(s), Head(s))
<1> DEFINE t == Tail(s)
<1>1. /\ Len(s) \in Nat \ {0} /\ Len(t) = Len(s) - 1 /\ Head(s) = s[1]
      /\ \A k \in 1..Len(t) : t[k] = s[k + 1] /\ k + 1 \in 1..Len(s)
  OBVIOUS
<1> HIDE DEF t
<1>2. \A k \in 1..Len(s) : k = 1 \/ (k - 1 \in 1..Len(t) /\ s[k] = t[k - 1])
  <2> SUFFICES ASSUME NEW k \in 1..Len(s), k # 1 PROVE k - 1 \in 1..Len(t) /\ s[k] = t[k - 1]
    OBVIOUS
  <2>1. k - 1 \in 1..Len(t) /\ (k - 1) + 1 = k
    BY <1>1
  <2> QED
    BY <1>1, <2>1
<1>3. 1 \in 1..Len(s)
  BY <1>1
<1>4. ASSUME NEW y PROVE Has(s, y) <=> y = s[1] \/ Has(t, y)
  BY <1>1, <1>2, <1>3 DEF Has
<1>5. ASSUME Distinct(s) PROVE Distinct(t) /\ ~Has(t, s[1])
  <2>1. ASSUME NEW j \in 1..Len(t), NEW k \in 1..Len(t), t[j] = t[k] PROVE j = k
    <3>1. j + 1 = k + 1
      BY <1>1, <1>5, <2>1 DEF Distinct
    <3> QED
      BY <1>1, <3>1
  <2>2. ASSUME NEW k \in 1..Len(t), t[k] = s[1] PROVE FALSE
    <3>1. k + 1 = 1
      BY <1>1, <1>3, <1>5, <2>2 DEF Distinct
    <3> QED
      BY <1>1, <3>1
  <2> QED
    BY <2>1, <2>2 DEF Distinct, Has
<1> QED
  BY <1>1, <1>4, <1>5 DEF t

LEMMA ConcatHas ==
    ASSUME NEW S, NEW s \in Seq(S), NEW t \in Seq(S)
    PROVE  /\ \A y : Has(s \o t, y) <=> Has(s, y) \/ Has(t, y)
           /\ Distinct(s) /\ Distinct(t) /\ Apart(s, t) => Distinct(s \o t)
<1> DEFINE u == s \o t
           m == Len(s)
<1>1. /\ m \in Nat /\ Len(t) \in Nat /\ Len(u) = m + Len(t)
      /\ \A k \in 1..m : u[k] = s[k]
      /\ \A k \in 1..Len(t) : u[m + k] = t[k]
  BY ConcatProperties
<1> HIDE DEF u
<1>2. ASSUME NEW k \in 1..Len(u)
      PROVE  /\ k \in 1..m \/ k > m
             /\ k > m => k - m \in 1..Len(t) /\ u[k] = t[k - m]
  <2>1. k > m => k - m \in 1..Len(t) /\ m + (k - m) = k
    BY <1>1
  <2>2. k > m => u[k] = t[k - m]
    BY <1>1, <2>1
  <2>3. k \in 1..m \/ k > m
    BY <1>1
  <2> QED
    BY <2>1, <2>2, <2>3
<1>3. (\A k \in 1..m : k \in 1..Len(u)) /\ (\A k \in 1..Len(t) : m + k \in 1..Len(u))
  BY <1>1
<1>4. ASSUME NEW y PROVE Has(u, y) <=> Has(s, y) \/ Has(t, y)
  BY <1>1, <1>2, <1>3 DEF Has
<1>5. ASSUME Distinct(s), Distinct(t), Apart(s, t),
             NEW j \in 1..Len(u), NEW k \in 1..Len(u), u[j] = u[k]
      PROVE  j = k
  <2>1. CASE j \in 1..m /\ k \in 1..m
    BY <1>1, <1>5, <2>1 DEF Distinct
  <2>2. CASE j > m /\ k > m
    <3>1. /\ j - m \in 1..Len(t) /\ k - m \in 1..Len(t)
          /\ t[j - m] = t[k - m]
      BY <1>2, <1>5, <2>2
    <3>2. j - m = k - m
      BY <1>5, <3>1 DEF Distinct
    <3> QED
      BY <1>1, <3>2
  <2>3. ASSUME NEW a \in 1..Len(u), NEW b \in 1..Len(u), a \in 1..m, b > m
        PROVE  u[a] # u[b]
    <3>1. u[a] = s[a] /\ Has(s, s[a])
      BY <1>1, <2>3 DEF Has
    <3>2. b - m \in 1..Len(t) /\ u[b] = t[b - m]
      BY <1>2, <2>3
    <3>3. Has(t, u[b])
      BY <3>2 DEF Has
    <3> QED
      BY <1>5, <3>1, <3>3 DEF Apart
  <2> QED
    BY <1>2, <1>5, <2>1, <2>2, <2>3
<1> QED
  BY <1>4, <1>5 DEF u, Distinct

LEMMA FrontHas ==
    ASSUME NEW S, NEW s \in Seq(S), NEW k \in 0..Len(s)
    PROVE  /\ SubSeq(s, 1, k) \in Seq(S)
           /\ \A y : Has(SubSeq(s, 1, k), y) => Has(s, y)
           /\ Distinct(s) => Distinct(SubSeq(s, 1, k))
<1> DEFINE t == SubSeq(s, 1, k)
<1>1. /\ t \in Seq(S) /\ Len(t) = k
      /\ \A i \in 1..Len(t) : i \in 1..Len(s) /\ t[i] = s[i]
  OBVIOUS
<1> HIDE DEF t
<1> QED
  BY <1>1 DEF t, Has, Distinct

(* Every line in the port was sent, and is there once. *)
CsWrittenOnce ==
    /\ Distinct(port)
    /\ \A k \in 1..Len(port) : port[k].n \in 1..sent[port[k].by]

(* A line that was sent is in one place only: in the port, in the batch of  *)
(* one loop, or in the queue.                                               *)
CsOnce ==
    /\ Distinct(port) /\ Distinct(queue) /\ Apart(port, queue)
    /\ \A i \in Cs!Loops : Distinct(batch[i]) /\ Apart(batch[i], port) /\ Apart(batch[i], queue)
    /\ \A i, j \in Cs!Loops : i # j => Apart(batch[i], batch[j])
CsSent ==
    \A x : Has(port, x) \/ Has(queue, x) \/ (\E i \in Cs!Loops : Has(batch[i], x))
              => x \in Cs!Line /\ x.n \in 1..sent[x.by]

LEMMA CsOnceSame ==
    ASSUME CsOnce, CsSent, UNCHANGED <<port, queue, batch, sent>>
    PROVE  CsOnce' /\ CsSent'
<1>1. port' = port /\ queue' = queue /\ batch' = batch /\ sent' = sent
  OBVIOUS
<1>2. CsOnce'
  BY <1>1 DEF CsOnce
<1>3. CsSent'
  BY <1>1 DEF CsSent
<1> QED
  BY <1>2, <1>3

LEMMA CsEnqueueOnce ==
    ASSUME Cs!CsAssumption, CsInv, CsOnce, CsSent, NEW s \in Threads, Cs!Enqueue(s)
    PROVE  CsOnce' /\ CsSent'
<1> DEFINE line == [by |-> s, n |-> sent[s] + 1]
<1>1. sent \in [Threads -> 0..MaxSends] /\ sent[s] \in Nat
  BY DEF CsInv, Cs!TypeOK, Cs!CsAssumption
<1>2. line \in Cs!Line /\ line.by = s /\ line.n = sent[s] + 1
  BY <1>1 DEF Cs!Line
<1>3. queue' = Append(queue, line) /\ sent' = [sent EXCEPT ![s] = @ + 1]
      /\ UNCHANGED <<batch, port>> /\ queue \in Seq(Cs!Line)
  BY DEF Cs!Enqueue, CsInv, Cs!TypeOK
<1> HIDE DEF line
<1>4. ~Has(port, line) /\ ~Has(queue, line) /\ \A i \in Cs!Loops : ~Has(batch[i], line)
  <2>1. line.n \notin 1..sent[line.by]
    BY <1>1, <1>2
  <2> QED
    BY <2>1 DEF CsSent
<1>5. \A y : Has(queue', y) <=> Has(queue, y) \/ y = line
  BY <1>2, <1>3, AppendHas
<1>6. Distinct(queue')
  BY <1>2, <1>3, <1>4, AppendHas DEF CsOnce
<1>7. CsOnce'
  BY <1>3, <1>4, <1>5, <1>6 DEF CsOnce, Apart
<1>8. \A x \in Cs!Line : x.n \in 1..sent[x.by] => x.n \in 1..sent'[x.by]
  BY <1>1, <1>3 DEF Cs!Line
<1>9. line.n \in 1..sent'[line.by]
  BY <1>1, <1>2, <1>3
<1> QED
  BY <1>2, <1>3, <1>5, <1>7, <1>8, <1>9 DEF CsSent

(* A line goes from the queue to a batch. *)
LEMMA CsDequeueOnce ==
    ASSUME Cs!CsAssumption, CsInv, CsOnce, CsSent, NEW i \in Cs!Loops,
           queue # <<>>, Cs!Dequeue(i), UNCHANGED <<port, sent>>
    PROVE  CsOnce' /\ CsSent'
<1> DEFINE line == Head(queue)
<1>1. /\ queue \in Seq(Cs!Line) /\ line \in Cs!Line
      /\ batch \in [Cs!Loops -> Seq(Cs!Line)] /\ batch[i] \in Seq(Cs!Line)
  BY DEF CsInv, Cs!TypeOK
<1>2. /\ queue' = Tail(queue) /\ batch'[i] = Append(batch[i], line)
      /\ \A j \in Cs!Loops : j # i => batch'[j] = batch[j]
  BY <1>1 DEF Cs!Dequeue
<1>3. /\ \A y : Has(queue, y) <=> y = line \/ Has(queue', y)
      /\ Distinct(queue') /\ ~Has(queue', line)
  BY <1>1, <1>2, TailHas DEF CsOnce
<1> HIDE DEF line
<1>4. ~Has(batch[i], line)
  BY <1>3 DEF CsOnce, Apart
<1>5. /\ \A y : Has(batch'[i], y) <=> Has(batch[i], y) \/ y = line
      /\ Distinct(batch'[i])
  BY <1>1, <1>2, <1>4, AppendHas DEF CsOnce
<1>6. Apart(port, queue')
  BY <1>3 DEF CsOnce, Apart
<1>7. ASSUME NEW j \in Cs!Loops
      PROVE  Distinct(batch'[j]) /\ Apart(batch'[j], port) /\ Apart(batch'[j], queue')
  <2>1. CASE j = i
    BY <1>3, <1>5, <2>1 DEF CsOnce, Apart
  <2>2. CASE j # i
    BY <1>2, <1>3, <2>2 DEF CsOnce, Apart
  <2> QED
    BY <2>1, <2>2
<1>8. ASSUME NEW j \in Cs!Loops, NEW k \in Cs!Loops, j # k PROVE Apart(batch'[j], batch'[k])
  <2>1. CASE j = i
    BY <1>2, <1>3, <1>5, <1>8, <2>1 DEF CsOnce, Apart
  <2>2. CASE k = i
    BY <1>2, <1>3, <1>5, <1>8, <2>2 DEF CsOnce, Apart
  <2>3. CASE j # i /\ k # i
    BY <1>2, <1>8, <2>3 DEF CsOnce
  <2> QED
    BY <2>1, <2>2, <2>3
<1>9. CsOnce'
  BY <1>3, <1>6, <1>7, <1>8 DEF CsOnce
<1>10. ASSUME NEW x, NEW j \in Cs!Loops, Has(batch'[j], x)
       PROVE  Has(queue, x) \/ Has(batch[j], x)
  BY <1>2, <1>3, <1>5, <1>10
<1> QED
  BY <1>3, <1>9, <1>10 DEF CsSent

(* A batch goes to the port, as far as the write gets. *)
LEMMA CsWriteOnce ==
    ASSUME Cs!CsAssumption, CsInv, CsOnce, CsSent, NEW i \in Cs!Loops, Cs!WWrite(i)
    PROVE  CsOnce' /\ CsSent'
<1>1. /\ port \in Seq(Cs!Line) /\ batch[i] \in Seq(Cs!Line)
      /\ batch \in [Cs!Loops -> Seq(Cs!Line)]
  BY DEF CsInv, Cs!TypeOK
<1>2. /\ batch'[i] = <<>> /\ UNCHANGED <<queue, sent>>
      /\ \A j \in Cs!Loops : j # i => batch'[j] = batch[j]
  BY <1>1 DEF Cs!WWrite
<1>11. PICK t \in Seq(Cs!Line) :
          /\ port' = port \o t /\ \A y : Has(t, y) => Has(batch[i], y)
          /\ Distinct(batch[i]) => Distinct(t)
  BY <1>1, FrontHas DEF Cs!WWrite
<1>3. \A y : ~Has(batch'[i], y)
  BY <1>2 DEF Has
<1>4. Distinct(batch'[i])
  BY <1>2 DEF Distinct
<1>5. /\ \A y : Has(port', y) => Has(port, y) \/ Has(batch[i], y)
      /\ Distinct(port')
  <2>1. Apart(port, t) /\ Distinct(t)
    BY <1>11 DEF CsOnce, Apart
  <2> QED
    BY <1>1, <1>11, <2>1, ConcatHas DEF CsOnce
<1>6. Apart(port', queue')
  BY <1>2, <1>5 DEF CsOnce, Apart
<1>7. ASSUME NEW j \in Cs!Loops
      PROVE  Distinct(batch'[j]) /\ Apart(batch'[j], port') /\ Apart(batch'[j], queue')
  <2>1. CASE j = i
    BY <1>3, <1>4, <2>1 DEF Apart
  <2>2. CASE j # i
    BY <1>2, <1>5, <2>2 DEF CsOnce, Apart
  <2> QED
    BY <2>1, <2>2
<1>8. ASSUME NEW j \in Cs!Loops, NEW k \in Cs!Loops, j # k PROVE Apart(batch'[j], batch'[k])
  <2>1. CASE j = i \/ k = i
    BY <1>3, <2>1 DEF Apart
  <2>2. CASE j # i /\ k # i
    BY <1>2, <1>8, <2>2 DEF CsOnce
  <2> QED
    BY <2>1, <2>2
<1>9. CsOnce'
  BY <1>2, <1>5, <1>6, <1>7, <1>8 DEF CsOnce
<1>10. ASSUME NEW x, NEW j \in Cs!Loops, Has(batch'[j], x) PROVE Has(batch[j], x)
  BY <1>2, <1>3, <1>10
<1> QED
  BY <1>2, <1>5, <1>9, <1>10 DEF CsSent

LEMMA CsOnceInductive ==
    ASSUME Cs!CsAssumption
    PROVE  CsInv /\ CsOnce /\ CsSent /\ [Cs!Next]_(Cs!vars) => CsOnce' /\ CsSent'
<1> SUFFICES ASSUME CsInv, CsOnce, CsSent, [Cs!Next]_(Cs!vars) PROVE CsOnce' /\ CsSent'
  OBVIOUS
<1>1. ASSUME NEW i \in Cs!Loops, Cs!WriteLoop(i) PROVE CsOnce' /\ CsSent'
  <2>1. CASE Cs!WTop(i) \/ Cs!WWait(i) \/ Cs!WGroupEnd(i)
    BY <2>1, CsOnceSame DEF Cs!WTop, Cs!WWait, Cs!WGroupEnd
  <2>2. CASE Cs!WWoken(i)
    <3>1. UNCHANGED <<port, sent>>
          /\ (UNCHANGED <<queue, batch>> \/ (queue # <<>> /\ Cs!Dequeue(i)))
      BY <2>2 DEF Cs!WWoken
    <3> QED
      BY <3>1, CsOnceSame, CsDequeueOnce
  <2>3. CASE Cs!WGroup(i)
    BY <2>3, CsDequeueOnce DEF Cs!WGroup
  <2>4. CASE Cs!WWrite(i)
    BY <2>4, CsWriteOnce
  <2> QED
    BY <1>1, <2>1, <2>2, <2>3, <2>4 DEF Cs!WriteLoop
<1>2. ASSUME NEW s \in Threads, Cs!Set(s) PROVE CsOnce' /\ CsSent'
  BY <1>2, CsOnceSame DEF Cs!Set
<1>3. CASE Cs!Open \/ Cs!CloseStop \/ Cs!CloseSet \/ Cs!ClosePort
  BY <1>3, CsOnceSame DEF Cs!Open, Cs!CloseStop, Cs!CloseSet, Cs!ClosePort
<1>4. CASE UNCHANGED Cs!vars
  BY <1>4, CsOnceSame DEF Cs!vars
<1> QED
  BY <1>1, <1>2, <1>3, <1>4, CsEnqueueOnce DEF Cs!Next

(* However often the library is closed and opened again, and however many   *)
(* of its write loops take lines from _writeQueue at a time: the port gets  *)
(* only lines that were sent, and each at most once.  Their order is kept   *)
(* only with one loop (CsInOrder).                                          *)
THEOREM CsLinesOnce ==
    ASSUME Cs!CsAssumption
    PROVE  Cs!Spec => []CsWrittenOnce
<1>1. Cs!Init => CsInv /\ CsOnce /\ CsSent
  <2> SUFFICES ASSUME Cs!Init PROVE CsInv /\ CsOnce /\ CsSent
    OBVIOUS
  <2>1. port = <<>> /\ queue = <<>> /\ \A i \in Cs!Loops : batch[i] = <<>>
    BY DEF Cs!Init
  <2>2. Len(<<>>) = 0 /\ 1..0 = {}
    OBVIOUS
  <2> QED
    BY <2>1, <2>2, CsInitHolds DEF CsOnce, CsSent, Has, Distinct, Apart
<1>2. CsInv /\ [Cs!Next]_(Cs!vars) => CsInv'
  BY CsInductive
<1>3. CsInv /\ CsOnce /\ CsSent /\ [Cs!Next]_(Cs!vars) => CsOnce' /\ CsSent'
  BY CsOnceInductive
<1>4. CsOnce /\ CsSent => CsWrittenOnce
  BY DEF CsOnce, CsSent, CsWrittenOnce, Has
<1> QED
  BY <1>1, <1>2, <1>3, <1>4, PTL DEF Cs!Spec

---------------------------------------------------------------------------
(* The refinement, for a library that is opened once. *)

LEMMA CsOneLoop ==
    ASSUME Cs!CsAssumption, MaxOpens = 1, CsInv
    PROVE  /\ Cs!Loops = {1} /\ opens \in {0, 1}
           /\ batch[1] \in Seq(Cs!Line) /\ queue \in Seq(Cs!Line) /\ port \in Seq(Cs!Line)
           /\ w[1] # "none" => opens = 1
<1>1. Cs!Loops = {1} /\ opens \in {0, 1}
  BY DEF Cs!Loops, CsInv, Cs!TypeOK
<1> QED
  BY <1>1 DEF CsInv, Cs!TypeOK

LEMMA CsStutters ==
    ASSUME UNCHANGED <<sent, queue, batch, port, opens, running>>
    PROVE  UNCHANGED Cs!Pipe!vars
<1>1. UNCHANGED <<sent, port, opens, running>> /\ batch' = batch /\ queue' = queue
  OBVIOUS
<1>2. batch'[1] \o queue' = batch[1] \o queue
  BY <1>1
<1>3. (opens' > 0 /\ ~running') = (opens > 0 /\ ~running)
  BY <1>1
<1> QED
  BY <1>1, <1>2, <1>3 DEF Cs!Pipe!vars

LEMMA CsInitRefines ==
    ASSUME Cs!CsAssumption
    PROVE  Cs!Init => Cs!Pipe!Init
<1> SUFFICES ASSUME Cs!Init PROVE Cs!Pipe!Init
  OBVIOUS
<1>1. <<>> \o <<>> = <<>>
  OBVIOUS
<1>2. batch[1] = <<>>
  BY DEF Cs!Init, Cs!Loops, Cs!CsAssumption
<1> QED
  BY <1>1, <1>2 DEF Cs!Init, Cs!Pipe!Init

LEMMA CsEnqueueRefines ==
    ASSUME Cs!CsAssumption, MaxOpens = 1, CsInv, NEW s \in Threads, Cs!Enqueue(s)
    PROVE  Cs!Pipe!Put(s)
<1> DEFINE line == [by |-> s, n |-> sent[s] + 1]
<1>1. line \in Cs!Line
  BY DEF CsInv, Cs!TypeOK, Cs!Line, Cs!CsAssumption
<1> HIDE DEF line
<1>2. batch[1] \o Append(queue, line) = Append(batch[1] \o queue, line)
  <2> DEFINE b == batch[1]
  <2>1. b \in Seq(Cs!Line) /\ queue \in Seq(Cs!Line)
    BY CsOneLoop
  <2> HIDE DEF b
  <2>2. b \o Append(queue, line) = Append(b \o queue, line)
    BY <1>1, <2>1, CsOrder!AppendToConcat
  <2> QED
    BY <2>2 DEF b
<1>3. batch'[1] \o queue' = Append(batch[1] \o queue, line)
  BY <1>2 DEF Cs!Enqueue, line
<1> QED
  BY <1>3 DEF Cs!Enqueue, Cs!Pipe!Put, line

LEMMA CsDequeueRefines ==
    ASSUME Cs!CsAssumption, MaxOpens = 1, CsInv, queue # <<>>, Cs!Dequeue(1)
    PROVE  batch'[1] \o queue' = batch[1] \o queue
<1>1. Append(batch[1], Head(queue)) \o Tail(queue) = batch[1] \o queue
  BY CsOneLoop, CsOrder!MoveHead
<1>2. batch'[1] = Append(batch[1], Head(queue)) /\ queue' = Tail(queue)
  BY CsOneLoop DEF Cs!Dequeue, CsInv, Cs!TypeOK
<1> QED
  BY <1>1, <1>2

LEMMA CsWriteRefines ==
    ASSUME Cs!CsAssumption, MaxOpens = 1, CsInv, Cs!WWrite(1)
    PROVE  [Cs!Pipe!Next]_(Cs!Pipe!vars)
<1> DEFINE m == Len(batch[1])
           pending == batch[1] \o queue
           closing == opens > 0 /\ ~running
<1>1. batch[1] \in Seq(Cs!Line) /\ queue \in Seq(Cs!Line) /\ port \in Seq(Cs!Line) /\ m \in Nat
  BY CsOneLoop
<1>2. batch'[1] = <<>> /\ queue' = queue /\ UNCHANGED <<sent, opens, running>>
  BY CsOneLoop DEF Cs!WWrite, CsInv, Cs!TypeOK
<1>3. opens = 1
  BY CsOneLoop DEF Cs!WWrite, Cs!Go
<1>4. batch'[1] \o queue' = queue
  BY <1>1, <1>2, ConcatEmptySeq
<1>5. Len(pending) = m + Len(queue) /\ Len(queue) \in Nat
  BY <1>1, ConcatProperties
<1>6. batch'[1] \o queue' = Cs!Pipe!From(pending, m)
  BY <1>1, <1>4, CsOrder!RestOfConcat DEF Cs!Pipe!From
<1>7. \A k \in 0..m : SubSeq(pending, 1, k) = SubSeq(batch[1], 1, k)
  BY <1>1, CsOrder!FrontOfConcat
<1>8. SubSeq(batch[1], 1, m) = batch[1]
  BY <1>1, SubSeqFull
<1>9. m > 0 => m \in 1..Len(pending)
  BY <1>1, <1>5
<1>10. \/ port' = port \o batch[1]
       \/ /\ Failures \/ ~running
          /\ \E k \in 0..m : port' = port \o SubSeq(batch[1], 1, k)
  BY DEF Cs!WWrite
<1>11. CASE m = 0
  <2>1. batch[1] = <<>>
    BY <1>1, <1>11
  <2>2. port' = port
    <3>1. \A k \in 0..0 : SubSeq(batch[1], 1, k) = <<>>
      BY <1>8, <1>11, <2>1
    <3>2. port \o <<>> = port
      BY <1>1, ConcatEmptySeq
    <3> QED
      BY <1>10, <1>11, <2>1, <3>1, <3>2
  <2>3. batch'[1] \o queue' = pending
    BY <1>1, <1>4, <2>1, ConcatEmptySeq
  <2> QED
    BY <1>2, <2>2, <2>3 DEF Cs!Pipe!vars
<1>12. CASE m > 0 /\ port' = port \o batch[1]
  <2>1. port' = port \o SubSeq(pending, 1, m)
    <3>1. m \in 0..m
      BY <1>1
    <3>2. SubSeq(pending, 1, m) = batch[1]
      BY <1>7, <1>8, <3>1
    <3> QED
      BY <1>12, <3>2
  <2>2. Cs!Pipe!Write(m)
    BY <1>2, <1>6, <2>1 DEF Cs!Pipe!Write
  <2> QED
    BY <1>9, <1>12, <2>2 DEF Cs!Pipe!Next
<1>13. ASSUME m > 0, Failures \/ ~running, NEW k \in 0..m,
              port' = port \o SubSeq(batch[1], 1, k)
       PROVE  [Cs!Pipe!Next]_(Cs!Pipe!vars)
  <2>1. port' = port \o SubSeq(pending, 1, k)
    BY <1>7, <1>13
  <2>2. Cs!Pipe!Fail(k, m)
    <3>1. Failures \/ (opens > 0 /\ ~running)
      BY <1>3, <1>13
    <3> HIDE DEF m
    <3> QED
      BY <1>2, <1>6, <2>1, <3>1, Zenon DEF Cs!Pipe!Fail
  <2> QED
    BY <1>9, <1>13, <2>2 DEF Cs!Pipe!Next
<1>14. m = 0 \/ m > 0
  BY <1>1
<1> HIDE DEF m, pending, closing
<1> QED
  BY <1>10, <1>11, <1>12, <1>13, <1>14, Zenon

LEMMA CsLoopRefines ==
    ASSUME Cs!CsAssumption, MaxOpens = 1, CsInv, Cs!WriteLoop(1)
    PROVE  [Cs!Pipe!Next]_(Cs!Pipe!vars)
<1>1. CASE Cs!WTop(1) \/ Cs!WWait(1) \/ Cs!WGroupEnd(1)
  BY <1>1, CsStutters DEF Cs!WTop, Cs!WWait, Cs!WGroupEnd
<1>2. CASE (Cs!WWoken(1) \/ Cs!WGroup(1)) /\ UNCHANGED <<queue, batch>>
  BY <1>2 DEF Cs!WWoken, Cs!WGroup, Cs!Pipe!vars
<1>3. CASE (Cs!WWoken(1) \/ Cs!WGroup(1)) /\ queue # <<>> /\ Cs!Dequeue(1)
  <2>1. batch'[1] \o queue' = batch[1] \o queue
    BY <1>3, CsDequeueRefines
  <2>2. UNCHANGED <<sent, opens, running, port>>
    BY <1>3 DEF Cs!WWoken, Cs!WGroup
  <2> QED
    BY <2>1, <2>2 DEF Cs!Pipe!vars
<1>4. CASE Cs!WWrite(1)
  BY <1>4, CsWriteRefines
<1>5. Cs!WWoken(1) \/ Cs!WGroup(1) =>
        UNCHANGED <<queue, batch>> \/ (queue # <<>> /\ Cs!Dequeue(1))
  BY DEF Cs!WWoken, Cs!WGroup
<1> QED
  BY <1>1, <1>2, <1>3, <1>4, <1>5 DEF Cs!WriteLoop

LEMMA CsStepRefines ==
    ASSUME Cs!CsAssumption, MaxOpens = 1, CsInv, [Cs!Next]_(Cs!vars)
    PROVE  [Cs!Pipe!Next]_(Cs!Pipe!vars)
<1>1. ASSUME NEW s \in Threads, Cs!Enqueue(s) PROVE Cs!Pipe!Next
  BY <1>1, CsEnqueueRefines DEF Cs!Pipe!Next
<1>2. ASSUME NEW s \in Threads, Cs!Set(s) PROVE UNCHANGED Cs!Pipe!vars
  BY <1>2 DEF Cs!Set, Cs!Pipe!vars
<1>3. ASSUME NEW i \in Cs!Loops, Cs!WriteLoop(i) PROVE [Cs!Pipe!Next]_(Cs!Pipe!vars)
  <2>1. i = 1
    BY CsOneLoop
  <2> QED
    BY <1>3, <2>1, CsLoopRefines
<1>4. CASE Cs!Open
  <2>1. opens = 0 /\ opens' = 1 /\ running'
    BY <1>4, CsOneLoop DEF Cs!Open
  <2> QED
    BY <1>4, <2>1 DEF Cs!Open, Cs!Pipe!vars
<1>5. CASE Cs!CloseStop
  <2>1. opens > 0 /\ opens' = opens /\ ~running'
    BY <1>5 DEF Cs!CloseStop, CsInv
  <2> QED
    BY <1>5, <2>1 DEF Cs!CloseStop, Cs!Pipe!Close, Cs!Pipe!Next
<1>6. CASE Cs!CloseSet \/ Cs!ClosePort
  BY <1>6, CsStutters DEF Cs!CloseSet, Cs!ClosePort
<1>7. CASE UNCHANGED Cs!vars
  BY <1>7 DEF Cs!vars, Cs!Pipe!vars
<1> QED
  BY <1>1, <1>2, <1>3, <1>4, <1>5, <1>6, <1>7 DEF Cs!Next

(* Opened once, the library is a LinePipe that loses lines only when it is  *)
(* closed or a write fails: EnqueueCommand, the grouping, swallowed         *)
(* exceptions and a Close at any time keep each thread's order.             *)
THEOREM CsImplementsPipe ==
    ASSUME Cs!CsAssumption, MaxOpens = 1
    PROVE  Cs!Spec => Cs!PipeSpec
<1>1. Cs!Init => CsInv /\ Cs!Pipe!Init
  BY CsInitHolds, CsInitRefines
<1>2. CsInv /\ [Cs!Next]_(Cs!vars) => CsInv'
  BY CsInductive
<1>3. CsInv /\ [Cs!Next]_(Cs!vars) => [Cs!Pipe!Next]_(Cs!Pipe!vars)
  BY CsStepRefines
<1> QED
  BY <1>1, <1>2, <1>3, PTL DEF Cs!Spec, Cs!PipeSpec, Cs!Pipe!Spec

(* So the lines of one thread are in the port, and among those still to     *)
(* come, in the order it sent them, none twice, for a library   *)
(* that is opened once.                                                     *)
THEOREM CsInOrder ==
    ASSUME Cs!CsAssumption, MaxOpens = 1
    PROVE  Cs!Spec => []Cs!Pipe!InOrder
<1>1. Cs!PipeSpec => CsOrder!Spec
  <2>1. Cs!Pipe!Init => CsOrder!Init
    BY DEF Cs!Pipe!Init, CsOrder!Init
  <2>2. [Cs!Pipe!Next]_(Cs!Pipe!vars) => [CsOrder!Next]_(CsOrder!vars)
    BY DEF Cs!Pipe!Next, CsOrder!Next, Cs!Pipe!vars, CsOrder!vars, Cs!Pipe!Put, CsOrder!Put,
           Cs!Pipe!Write, CsOrder!Write, Cs!Pipe!Fail, CsOrder!Fail,
           Cs!Pipe!Close, CsOrder!Close, Cs!Pipe!From, CsOrder!From
  <2> QED
    BY <2>1, <2>2, PTL DEF Cs!PipeSpec, Cs!Pipe!Spec, CsOrder!Spec
<1>2. CsOrder!InOrder => Cs!Pipe!InOrder
  BY DEF Cs!Pipe!InOrder, CsOrder!InOrder, Cs!Pipe!Ordered, CsOrder!Ordered
<1>3. Cs!Spec => Cs!PipeSpec
  BY CsImplementsPipe
<1> QED
  BY <1>1, <1>2, <1>3, CsOrder!PipeInOrder, PTL

---------------------------------------------------------------------------
(* The Rust library. *)

LEMMA RustInitHolds ==
    ASSUME Rust!RustAssumption
    PROVE  Rust!Init => Rust!TypeOK
<1> SUFFICES ASSUME Rust!Init PROVE Rust!TypeOK
  OBVIOUS
<1>1. sent \in [Threads -> 0..MaxSends]
  BY DEF Rust!Init, Rust!RustAssumption
<1> QED
  BY <1>1, EmptyLines DEF Rust!Init, Rust!TypeOK

---------------------------------------------------------------------------
(* The type invariant is inductive. *)

LEMMA RustSendKeeps ==
    ASSUME Rust!RustAssumption, Rust!TypeOK, NEW s \in Threads, Rust!Send(s)
    PROVE  Rust!TypeOK'
<1> DEFINE line == [by |-> s, n |-> sent[s] + 1]
<1>1. sent[s] \in 0..MaxSends /\ sent[s] < MaxSends
  BY DEF Rust!TypeOK, Rust!Send
<1>2. line \in Rust!Line /\ sent[s] + 1 \in 0..MaxSends
  BY <1>1 DEF Rust!Line, Rust!RustAssumption
<1>3. sent' \in [Threads -> 0..MaxSends]
  BY <1>2 DEF Rust!TypeOK, Rust!Send
<1>4. Append(cmds, line) \in Seq(Rust!Line) /\ Append(behind, line) \in Seq(Rust!Line)
  BY <1>2 DEF Rust!TypeOK
<1> HIDE DEF line
<1>5. \/ ~shut /\ cmds' = Append(cmds, line) /\ behind' = behind
      \/ shut /\ cmds' = cmds /\ behind' = Append(behind, line)
  BY DEF Rust!Send, line
<1>6. /\ UNCHANGED <<shut, wbuf, w, failed, d, port>>
      /\ w # "gone"
  BY DEF Rust!Send
<1> QED
  BY <1>3, <1>4, <1>5, <1>6 DEF Rust!TypeOK

LEMMA RustWorkerKeeps ==
    ASSUME Rust!TypeOK, Rust!Worker
    PROVE  Rust!TypeOK'
<1> USE EmptyLines DEF Rust!TypeOK, Rust!Go
<1>1. CASE Rust!Read
  BY <1>1 DEF Rust!Read
<1>2. CASE Rust!ReadFails
  BY <1>2 DEF Rust!ReadFails, Rust!End
<1>3. CASE Rust!Collect
  <2>1. Head(cmds) \in Rust!Line /\ Tail(cmds) \in Seq(Rust!Line)
    BY <1>3 DEF Rust!Collect
  <2>2. Append(wbuf, Head(cmds)) \in Seq(Rust!Line)
    BY <2>1
  <2> QED
    BY <1>3, <2>1, <2>2 DEF Rust!Collect, Rust!Serialized
<1>4. CASE Rust!CollectEnd
  BY <1>4 DEF Rust!CollectEnd
<1>5. CASE Rust!CollectNothing
  BY <1>5 DEF Rust!CollectNothing
<1>6. CASE Rust!MeetShutdown
  BY <1>6 DEF Rust!MeetShutdown, Rust!End
<1>7. CASE Rust!Write
  <2>1. port \o wbuf \in Seq(Rust!Line)
    OBVIOUS
  <2>2. \A k \in 0..Len(wbuf) : port \o SubSeq(wbuf, 1, k) \in Seq(Rust!Line)
    <3>1. \A k \in 0..Len(wbuf) : SubSeq(wbuf, 1, k) \in Seq(Rust!Line)
      OBVIOUS
    <3> QED
      BY <3>1
  <2>3. port' \in Seq(Rust!Line)
    BY <1>7, <2>1, <2>2 DEF Rust!Write
  <2> QED
    BY <1>7, <2>3 DEF Rust!Write, Rust!ClearBuffer
<1> QED
  BY <1>1, <1>2, <1>3, <1>4, <1>5, <1>6, <1>7 DEF Rust!Worker

LEMMA RustInductive ==
    ASSUME Rust!RustAssumption
    PROVE  Rust!TypeOK /\ [Rust!Next]_(Rust!vars) => Rust!TypeOK'
<1> SUFFICES ASSUME Rust!TypeOK, [Rust!Next]_(Rust!vars) PROVE Rust!TypeOK'
  OBVIOUS
<1>1. CASE Rust!Shutdown
  BY <1>1 DEF Rust!Shutdown, Rust!TypeOK
<1>2. CASE Rust!DropStart
  BY <1>2 DEF Rust!DropStart, Rust!PutShutdown, Rust!TypeOK
<1>3. CASE Rust!DropEnd
  BY <1>3 DEF Rust!DropEnd, Rust!TypeOK
<1>4. CASE UNCHANGED Rust!vars
  BY <1>4 DEF Rust!vars, Rust!TypeOK
<1> QED
  BY <1>1, <1>2, <1>3, <1>4, RustSendKeeps, RustWorkerKeeps DEF Rust!Next

(* The variables keep their types; commands are behind a Shutdown only if   *)
(* there is one, and the worker ends by a Shutdown or a failed read only.   *)
THEOREM RustTypeCorrect ==
    ASSUME Rust!RustAssumption
    PROVE  Rust!Spec => []Rust!TypeOK
<1>1. Rust!Init => Rust!TypeOK
  BY RustInitHolds
<1>2. Rust!TypeOK /\ [Rust!Next]_(Rust!vars) => Rust!TypeOK'
  BY RustInductive
<1> QED
  BY <1>1, <1>2, PTL DEF Rust!Spec

---------------------------------------------------------------------------
(* The refinement. *)

LEMMA RustInitRefines ==
    Rust!Init => Rust!Pipe!Init
<1>1. (<<>> \o <<>>) \o <<>> = <<>>
  OBVIOUS
<1> QED
  BY <1>1 DEF Rust!Init, Rust!Pipe!Init

LEMMA RustSendRefines ==
    ASSUME Rust!RustAssumption, Rust!TypeOK, NEW s \in Threads, Rust!Send(s)
    PROVE  Rust!Pipe!Put(s)
<1> DEFINE line == [by |-> s, n |-> sent[s] + 1]
<1>1. line \in Rust!Line
  BY DEF Rust!TypeOK, Rust!Line, Rust!RustAssumption
<1>2. wbuf \in Seq(Rust!Line) /\ cmds \in Seq(Rust!Line) /\ behind \in Seq(Rust!Line)
  BY DEF Rust!TypeOK
<1>3. wbuf \o cmds \in Seq(Rust!Line)
  BY <1>2
<1> HIDE DEF line
<1>4. CASE ~shut
  <2>1. behind = <<>> /\ behind' = <<>> /\ cmds' = Append(cmds, line) /\ wbuf' = wbuf
    BY <1>4 DEF Rust!TypeOK, Rust!Send, line
  <2>2. wbuf \o Append(cmds, line) = Append(wbuf \o cmds, line)
    BY <1>1, <1>2, RustOrder!AppendToConcat
  <2>3. /\ (wbuf \o cmds) \o <<>> = wbuf \o cmds
        /\ Append(wbuf \o cmds, line) \o <<>> = Append(wbuf \o cmds, line)
    BY <1>1, <1>3, ConcatEmptySeq
  <2> QED
    BY <2>1, <2>2, <2>3
       DEF Rust!Send, Rust!Pipe!Put, line
<1>5. CASE shut
  <2>1. cmds' = cmds /\ behind' = Append(behind, line) /\ wbuf' = wbuf
    BY <1>5 DEF Rust!Send, line
  <2>2. (wbuf \o cmds) \o Append(behind, line) = Append((wbuf \o cmds) \o behind, line)
    BY <1>1, <1>2, <1>3, RustOrder!AppendToConcat
  <2> QED
    BY <2>1, <2>2 DEF Rust!Send, Rust!Pipe!Put, line
<1> QED
  BY <1>4, <1>5

LEMMA RustCollectRefines ==
    ASSUME Rust!TypeOK, Rust!Collect
    PROVE  UNCHANGED Rust!Pipe!vars
<1>1. wbuf \in Seq(Rust!Line) /\ cmds \in Seq(Rust!Line) /\ cmds # <<>>
  BY DEF Rust!TypeOK, Rust!Collect
<1>2. Append(wbuf, Head(cmds)) \o Tail(cmds) = wbuf \o cmds
  BY <1>1, RustOrder!MoveHead
<1>3. wbuf' \o cmds' = wbuf \o cmds
  BY <1>2 DEF Rust!Collect, Rust!Serialized
<1> QED
  BY <1>3 DEF Rust!Collect, Rust!Pipe!vars

LEMMA RustWriteRefines ==
    ASSUME Rust!TypeOK, Rust!Write
    PROVE  [Rust!Pipe!Next]_(Rust!Pipe!vars)
<1> DEFINE m == Len(wbuf)
           rest == cmds \o behind
           pending == (wbuf \o cmds) \o behind
           next == (wbuf' \o cmds') \o behind'
<1>1. /\ wbuf \in Seq(Rust!Line) /\ cmds \in Seq(Rust!Line)
      /\ behind \in Seq(Rust!Line) /\ port \in Seq(Rust!Line)
      /\ m \in Nat /\ rest \in Seq(Rust!Line)
  BY DEF Rust!TypeOK
<1>2. pending = wbuf \o rest
  BY <1>1, ConcatAssociative
<1>3. next = rest
  BY <1>1, ConcatEmptySeq DEF Rust!Write, Rust!ClearBuffer
<1> HIDE DEF rest, next
<1>4. Len(pending) = m + Len(rest) /\ Len(rest) \in Nat
  BY <1>1, <1>2, ConcatProperties
<1>5. next = Rust!Pipe!From(pending, m)
  BY <1>1, <1>2, <1>3, RustOrder!RestOfConcat DEF Rust!Pipe!From
<1>6. \A k \in 0..m : SubSeq(pending, 1, k) = SubSeq(wbuf, 1, k)
  BY <1>1, <1>2, RustOrder!FrontOfConcat
<1>7. SubSeq(wbuf, 1, m) = wbuf
  BY <1>1, SubSeqFull
<1>8. m > 0 => m \in 1..Len(pending)
  BY <1>1, <1>4
<1>9. UNCHANGED <<sent, shut, failed>>
  BY DEF Rust!Write
<1>10. CASE m = 0
  <2>1. wbuf = <<>>
    BY <1>1, <1>10
  <2>2. port' = port
    <3>1. \A k \in 0..0 : SubSeq(wbuf, 1, k) = <<>>
      BY <1>7, <1>10, <2>1
    <3>2. port \o <<>> = port
      BY <1>1, ConcatEmptySeq
    <3> QED
      BY <1>10, <2>1, <3>1, <3>2 DEF Rust!Write
  <2>3. next = pending
    BY <1>1, <1>2, <1>3, <2>1, ConcatEmptySeq
  <2> QED
    BY <1>9, <2>2, <2>3 DEF Rust!Pipe!vars, next
<1>11. CASE m > 0 /\ port' = port \o wbuf
  <2>1. port' = port \o SubSeq(pending, 1, m)
    BY <1>1, <1>6, <1>7, <1>11
  <2>2. Rust!Pipe!Write(m)
    BY <1>5, <1>9, <2>1 DEF Rust!Pipe!Write, next
  <2> QED
    BY <1>8, <1>11, <2>2 DEF Rust!Pipe!Next
<1>12. ASSUME m > 0, Failures, NEW k \in 0..m, port' = port \o SubSeq(wbuf, 1, k)
       PROVE  [Rust!Pipe!Next]_(Rust!Pipe!vars)
  <2>1. port' = port \o SubSeq(pending, 1, k)
    BY <1>6, <1>12
  <2>2. Rust!Pipe!Fail(k, m)
    BY <1>5, <1>9, <1>12, <2>1 DEF Rust!Pipe!Fail, next
  <2> QED
    BY <1>8, <1>12, <2>2 DEF Rust!Pipe!Next
<1>13. port' = port \o wbuf \/ (Failures /\ \E k \in 0..m : port' = port \o SubSeq(wbuf, 1, k))
  BY DEF Rust!Write
<1>14. m = 0 \/ m > 0
  BY <1>1
<1> HIDE DEF m, pending
<1> QED
  BY <1>10, <1>11, <1>12, <1>13, <1>14, Zenon

LEMMA RustEndRefines ==
    ASSUME Rust!TypeOK, Rust!ReadFails \/ Rust!MeetShutdown
    PROVE  Rust!Pipe!Close
<1>1. (<<>> \o <<>>) \o <<>> = <<>>
  OBVIOUS
<1>2. shut' \/ failed'
  BY DEF Rust!ReadFails, Rust!MeetShutdown
<1> QED
  BY <1>1, <1>2 DEF Rust!ReadFails, Rust!MeetShutdown, Rust!End, Rust!Pipe!Close

LEMMA RustShutdownRefines ==
    ASSUME Rust!TypeOK, Rust!Shutdown \/ Rust!DropStart
    PROVE  [Rust!Pipe!Next]_(Rust!Pipe!vars)
<1>1. UNCHANGED <<cmds, behind, wbuf, failed, sent, port>>
  BY DEF Rust!Shutdown, Rust!DropStart
<1>2. CASE shut'
  BY <1>1, <1>2 DEF Rust!Pipe!Close, Rust!Pipe!Next
<1>3. CASE ~shut'
  <2>1. Rust!DropStart /\ w = "gone" /\ shut' = shut
    BY <1>3 DEF Rust!Shutdown, Rust!DropStart, Rust!PutShutdown, Rust!TypeOK
  <2> QED
    BY <1>1, <2>1 DEF Rust!Pipe!vars
<1> QED
  BY <1>2, <1>3

LEMMA RustStepRefines ==
    ASSUME Rust!RustAssumption
    PROVE  Rust!TypeOK /\ [Rust!Next]_(Rust!vars) => [Rust!Pipe!Next]_(Rust!Pipe!vars)
<1> SUFFICES ASSUME Rust!TypeOK, [Rust!Next]_(Rust!vars) PROVE [Rust!Pipe!Next]_(Rust!Pipe!vars)
  OBVIOUS
<1>1. ASSUME NEW s \in Threads, Rust!Send(s) PROVE Rust!Pipe!Next
  BY <1>1, RustSendRefines DEF Rust!Pipe!Next
<1>2. CASE Rust!Read \/ Rust!CollectEnd \/ Rust!CollectNothing \/ Rust!DropEnd
  BY <1>2 DEF Rust!Read, Rust!CollectEnd, Rust!CollectNothing, Rust!DropEnd, Rust!Pipe!vars
<1>3. CASE Rust!Collect
  BY <1>3, RustCollectRefines
<1>4. CASE Rust!Write
  BY <1>4, RustWriteRefines
<1>5. CASE Rust!ReadFails \/ Rust!MeetShutdown
  BY <1>5, RustEndRefines DEF Rust!Pipe!Next
<1>6. CASE Rust!Shutdown \/ Rust!DropStart
  BY <1>6, RustShutdownRefines
<1>7. CASE UNCHANGED Rust!vars
  BY <1>7 DEF Rust!vars, Rust!Pipe!vars
<1> QED
  BY <1>1, <1>2, <1>3, <1>4, <1>5, <1>6, <1>7 DEF Rust!Next, Rust!Worker

(* Every behaviour of the library is one of LinePipe: lines come out whole  *)
(* and in each thread's order, and only a failing port, a Shutdown or the   *)
(* end of the worker loses any.                                             *)
THEOREM RustImplementsPipe ==
    ASSUME Rust!RustAssumption
    PROVE  Rust!Spec => Rust!PipeSpec
<1>1. Rust!Init => Rust!TypeOK /\ Rust!Pipe!Init
  BY RustInitHolds, RustInitRefines
<1>2. Rust!TypeOK /\ [Rust!Next]_(Rust!vars) => Rust!TypeOK'
  BY RustInductive
<1>3. Rust!TypeOK /\ [Rust!Next]_(Rust!vars) => [Rust!Pipe!Next]_(Rust!Pipe!vars)
  BY RustStepRefines
<1> QED
  BY <1>1, <1>2, <1>3, PTL DEF Rust!Spec, Rust!PipeSpec, Rust!Pipe!Spec

(* So the lines of one thread are in the port, and among those still to     *)
(* come, in the order it sent them, none twice.                            *)
THEOREM RustInOrder ==
    ASSUME Rust!RustAssumption
    PROVE  Rust!Spec => []Rust!Pipe!InOrder
<1>1. Rust!PipeSpec => RustOrder!Spec
  <2>1. Rust!Pipe!Init => RustOrder!Init
    BY DEF Rust!Pipe!Init, RustOrder!Init
  <2>2. [Rust!Pipe!Next]_(Rust!Pipe!vars) => [RustOrder!Next]_(RustOrder!vars)
    BY DEF Rust!Pipe!Next, RustOrder!Next, Rust!Pipe!vars, RustOrder!vars, Rust!Pipe!Put, RustOrder!Put,
           Rust!Pipe!Write, RustOrder!Write, Rust!Pipe!Fail, RustOrder!Fail,
           Rust!Pipe!Close, RustOrder!Close, Rust!Pipe!From, RustOrder!From
  <2> QED
    BY <2>1, <2>2, PTL DEF Rust!PipeSpec, Rust!Pipe!Spec, RustOrder!Spec
<1>2. RustOrder!InOrder => Rust!Pipe!InOrder
  BY DEF Rust!Pipe!InOrder, RustOrder!InOrder, Rust!Pipe!Ordered, RustOrder!Ordered
<1>3. Rust!Spec => Rust!PipeSpec
  BY RustImplementsPipe
<1> QED
  BY <1>1, <1>2, <1>3, RustOrder!PipeInOrder, PTL

=============================================================================
