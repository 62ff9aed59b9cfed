------------------------------ MODULE CsWriter ------------------------------
(***************************************************************************)
(* The C# library (sd/slcanx-csharp/Slcanx/Slcanx.cs): EnqueueCommand puts *)
(* a line into _writeQueue and sets _writeSignal, an AutoResetEvent;       *)
(* WriteLoop waits for the signal, takes one line, groups what comes in    *)
(* the next 125 us up to a limit, and writes the batch.  Open starts a     *)
(* WriteLoop thread, Close tells it to stop and closes the port 10 ms      *)
(* later, without waiting for it.                                          *)
(***************************************************************************)
EXTENDS Naturals, Sequences, FiniteSets

CONSTANTS
    Senders,    \* the threads that send
    Preempt,    \* may a write loop lose its CPU for the 125 us
    BatchMax,   \* lines of a full batch (2048 characters)
    Failures,   \* may writes of the port fail, or the port go away
    MaxSends,   \* bound: lines a thread sends
    MaxOpens    \* bound: calls of Open

ASSUME CsAssumption ==
    /\ Preempt \in BOOLEAN /\ Failures \in BOOLEAN
    /\ BatchMax \in Nat \ {0} /\ MaxSends \in Nat /\ MaxOpens \in Nat \ {0}

(* One thread for each Open. *)
Loops == 1..MaxOpens

VARIABLES
    queue,      \* _writeQueue
    signal,     \* _writeSignal
    running,    \* _running
    isOpen,     \* _serialPort.IsOpen
    opens,      \* how often Open opened the port
    w,          \* where each WriteLoop stands
    batch,      \* its batch, as lines
    c,          \* where Close stands
    toSet,      \* the threads between Enqueue and Set
    sent,       \* how many lines each thread enqueued
    port        \* history: the lines the serial port has got

vars == <<queue, signal, running, isOpen, opens, w, batch, c, toSet, sent, port>>

---------------------------------------------------------------------------
(* EnqueueCommand. *)

Enqueue(s) ==
    /\ s \notin toSet /\ sent[s] < MaxSends
    /\ queue' = Append(queue, [by |-> s, n |-> sent[s] + 1])
    /\ sent' = [sent EXCEPT ![s] = @ + 1]
    /\ toSet' = toSet \cup {s}
    /\ UNCHANGED <<signal, running, isOpen, opens, w, batch, c, port>>

Set(s) ==
    /\ s \in toSet
    /\ toSet' = toSet \ {s}
    /\ signal' = TRUE
    /\ UNCHANGED <<queue, running, isOpen, opens, w, batch, c, sent, port>>

---------------------------------------------------------------------------
(* WriteLoop. *)

Go(i, from, to) == w[i] = from /\ w' = [w EXCEPT ![i] = to]

WTop(i) ==
    /\ IF running THEN Go(i, "top", "wait") ELSE Go(i, "top", "gone")
    /\ UNCHANGED <<queue, signal, running, isOpen, opens, batch, c, toSet, sent, port>>

(* WaitOne takes the signal, however often it was set. *)
WWait(i) ==
    /\ signal
    /\ Go(i, "wait", "woken")
    /\ signal' = FALSE
    /\ UNCHANGED <<queue, running, isOpen, opens, batch, c, toSet, sent, port>>

Peek(i) == batch' = [batch EXCEPT ![i] = Append(@, Head(queue))]
           /\ UNCHANGED queue                  \* mutant: the line stays queued
Dequeue(i) ==
    /\ batch' = [batch EXCEPT ![i] = Append(@, Head(queue))]
    /\ queue' = Tail(queue)

WWoken(i) ==
    /\ \/ ~running /\ Go(i, "woken", "gone") /\ UNCHANGED <<queue, batch>>
       \/ running /\ queue = <<>> /\ Go(i, "woken", "top") /\ UNCHANGED <<queue, batch>>
       \/ running /\ queue # <<>> /\ Go(i, "woken", "group") /\ Dequeue(i)
    /\ UNCHANGED <<signal, running, isOpen, opens, c, toSet, sent, port>>

HasRoom(i) == Len(batch[i]) < BatchMax

WGroup(i) ==
    /\ w[i] = "group" /\ HasRoom(i) /\ queue # <<>>
    /\ Dequeue(i)
    /\ UNCHANGED <<signal, running, isOpen, opens, w, c, toSet, sent, port>>

ClearSignal == signal' = FALSE                \* mutant: the event is reset again
KeepSignal == UNCHANGED signal

(* The batch is full, or 125 us are over: a thread that keeps its CPU has   *)
(* emptied the queue by then.                                               *)
WGroupEnd(i) ==
    /\ Preempt \/ ~HasRoom(i) \/ queue = <<>>
    /\ Go(i, "group", "write")
    /\ KeepSignal
    /\ UNCHANGED <<queue, running, isOpen, opens, batch, c, toSet, sent, port>>

(* An exception of Write is swallowed, with what the port has not got of    *)
(* the batch, while the library runs and when Close cuts it off; a batch    *)
(* that finds the port closed is dropped.                                   *)
WWrite(i) ==
    /\ Go(i, "write", "top")
    /\ \/ isOpen /\ port' = port \o batch[i]
       \/ /\ Failures \/ ~running
          /\ \E k \in 0..Len(batch[i]) :
                /\ k > 0 => isOpen
                /\ port' = port \o SubSeq(batch[i], 1, k)
    /\ batch' = [batch EXCEPT ![i] = <<>>]
    /\ UNCHANGED <<queue, signal, running, isOpen, opens, c, toSet, sent>>

---------------------------------------------------------------------------
(* Open and Close, by one thread. *)

Open ==
    /\ c = "none" /\ ~isOpen /\ opens < MaxOpens
    /\ isOpen' = TRUE
    /\ running' = TRUE
    /\ opens' = opens + 1
    /\ w' = [w EXCEPT ![opens + 1] = "top"]
    /\ UNCHANGED <<queue, signal, batch, c, toSet, sent, port>>

CloseStop ==
    /\ c = "none" /\ isOpen
    /\ running' = FALSE
    /\ c' = "set"
    /\ UNCHANGED <<queue, signal, isOpen, opens, w, batch, toSet, sent, port>>

NoSet == UNCHANGED signal                     \* mutant: Close does not set it
SetSignal == signal' = TRUE

CloseSet ==
    /\ c = "set"
    /\ SetSignal
    /\ c' = "sleep"
    /\ UNCHANGED <<queue, running, isOpen, opens, w, batch, toSet, sent, port>>

ClosePort ==
    /\ c = "sleep"
    /\ isOpen' = FALSE
    /\ c' = "none"
    /\ UNCHANGED <<queue, signal, running, opens, w, batch, toSet, sent, port>>

---------------------------------------------------------------------------
Init ==
    /\ queue = <<>> /\ signal = FALSE
    /\ running = FALSE /\ isOpen = FALSE /\ opens = 0
    /\ w = [i \in Loops |-> "none"] /\ batch = [i \in Loops |-> <<>>]
    /\ c = "none"
    /\ toSet = {}
    /\ sent = [s \in Senders |-> 0]
    /\ port = <<>>

WriteLoop(i) ==
    WTop(i) \/ WWait(i) \/ WWoken(i) \/ WGroup(i) \/ WGroupEnd(i) \/ WWrite(i)

Next ==
    \/ \E s \in Senders : Enqueue(s) \/ Set(s)
    \/ \E i \in Loops : WriteLoop(i)
    \/ Open \/ CloseStop \/ CloseSet \/ ClosePort

Spec == Init /\ [][Next]_vars

(* Threads that are not blocked go on; nobody has to open or close. *)
FairSpec ==
    /\ Spec
    /\ \A s \in Senders : WF_vars(Set(s))
    /\ \A i \in Loops : WF_vars(WriteLoop(i))
    /\ WF_vars(CloseSet) /\ WF_vars(ClosePort)

---------------------------------------------------------------------------
(* Properties. *)

Line == [by: Senders, n: Nat]
LoopStates == {"none", "top", "wait", "woken", "group", "write", "gone"}

(* The types of the variables; a batch is empty outside its loop's turn,    *)
(* and never longer than a full one.                                        *)
TypeOK ==
    /\ queue \in Seq(Line) /\ port \in Seq(Line)
    /\ signal \in BOOLEAN /\ running \in BOOLEAN /\ isOpen \in BOOLEAN
    /\ opens \in 0..MaxOpens
    /\ w \in [Loops -> LoopStates]
    /\ batch \in [Loops -> Seq(Line)]
    /\ \A i \in Loops : /\ Len(batch[i]) <= BatchMax
                        /\ w[i] \notin {"group", "write"} => batch[i] = <<>>
    /\ c \in {"none", "set", "sleep"}
    /\ toSet \subseteq Senders
    /\ sent \in [Senders -> 0..MaxSends]

(* Opened once, the library is a LinePipe: what it has taken and not        *)
(* written is the batch followed by the queue, and only a write that fails  *)
(* or a Close loses lines.                                                  *)
Pipe == INSTANCE LinePipe WITH
    Lossy <- Failures, pending <- batch[1] \o queue, closing <- opens > 0 /\ ~running
PipeSpec == Pipe!Spec

(* A set signal is worth a line: the loop that takes it takes at least one  *)
(* of the lines that wait.  It may be the one signal of several lines, and  *)
(* those the batch had no time for wait for the next Set.                   *)
Total == Cardinality({x \in Senders \X (1..MaxSends) : x[2] <= sent[x[1]]})
Taken == Total - Len(queue)
SignalTakesLine == \A k \in 0..Cardinality(Senders) * MaxSends :
    (running /\ signal /\ queue # <<>> /\ Taken = k) ~> (Taken > k \/ ~running)

(* After Close of a library that was opened once its write loop ends,       *)
(* though Close does not join it: the Set of Close, or one before it, is    *)
(* left for the loop wherever it stands.  (Of two loops one Set wakes one.) *)
LoopsEnd == (c = "set") ~> (\A i \in Loops : w[i] \in {"none", "gone"})

=============================================================================
