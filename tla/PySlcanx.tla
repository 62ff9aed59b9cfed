------------------------------ MODULE PySlcanx ------------------------------
(***************************************************************************)
(* The python-can interface (sd/python-can-slcanx/src/slcanx/bus.py) for   *)
(* one serial port: buses that are opened on it share one SerialHandler,   *)
(* found in _handlers and counted in refs; its reader thread dispatches    *)
(* lines to the buses of their channel; the bus that is shut down last     *)
(* closes the handler, which stays in _handlers.                           *)
(*                                                                         *)
(* One action is one critical section of the handler's lock, or one step   *)
(* of a thread that holds _handlers_lock.  A bus is shut down once, by one *)
(* thread; python-can's BusABC holds no state of its own here.             *)
(***************************************************************************)
EXTENDS Naturals, Sequences

CONSTANTS
    Buses,          \* the SlcanxBus objects
    Chan,           \* the slcanx_channel of each
    NoBus,          \* nobody holds _handlers_lock
    MaxHandlers,    \* bound: how often the port is opened
    MaxLines        \* bound: lines that come in

ASSUME PyAssumption ==
    /\ NoBus \notin Buses /\ Chan \in [Buses -> 0..3]
    /\ MaxHandlers \in Nat /\ MaxLines \in Nat

Handlers == 1..MaxHandlers

VARIABLES
    registry,   \* the handler in _handlers; 0 if there is none
    regLock,    \* who holds _handlers_lock
    made,       \* how many handlers were made
    isOpen,     \* serial.is_open of each handler
    running,    \* its running
    buses,      \* its buses, of all channels
    refs,       \* its refs
    reader,     \* is its reader thread alive
    lines,      \* the lines in the reader's buffer
    input,      \* the lines the serial port has received
    pc,         \* where __init__ and shutdown of each bus stand
    handler,    \* its handler
    queue,      \* its queue
    adapter,    \* the channels that are open in the adapter
    arrived     \* how many lines came in

registered == <<registry, made>>
port == <<isOpen, running, buses, refs>>
reading == <<reader, lines, input, queue, arrived>>
vars == <<registered, regLock, port, reading, pc, handler, adapter>>

Go(b, from, to) == pc[b] = from /\ pc' = [pc EXCEPT ![b] = to]

NoRegLock == TRUE                             \* mutant: without _handlers_lock
RegFree == regLock = NoBus

---------------------------------------------------------------------------
(* SlcanxBus.__init__. *)

(* A Serial that cannot be opened raises before anything is stored. *)
FindHandler(b) ==
    /\ RegFree /\ Go(b, "none", "found")
    /\ regLock' = b
    /\ \/ /\ registry # 0
          /\ UNCHANGED <<registered, port, reader>>
       \/ /\ registry = 0 /\ made < MaxHandlers
          /\ made' = made + 1 /\ registry' = made'
          /\ isOpen' = [isOpen EXCEPT ![made'] = TRUE]
          /\ running' = [running EXCEPT ![made'] = TRUE]
          /\ reader' = [reader EXCEPT ![made'] = TRUE]
          /\ UNCHANGED <<buses, refs>>
    /\ handler' = [handler EXCEPT ![b] = registry']
    /\ UNCHANGED <<lines, input, queue, arrived, adapter>>

KeepRegLock == UNCHANGED regLock              \* mutant: acquire without release
ReleaseRegLock == regLock' = NoBus

RefBus(b) == refs' = [refs EXCEPT ![handler[b]] = @ + 1]

AddBus(b) ==
    /\ Go(b, "found", "added")
    /\ buses' = [buses EXCEPT ![handler[b]] = @ \cup {b}]
    /\ RefBus(b)
    /\ ReleaseRegLock
    /\ UNCHANGED <<registered, isOpen, running, reading, handler, adapter>>

(* The commands of __init__, the last of which opens the channel; a write   *)
(* that raises leaves a bus that nobody can shut down.                      *)
OpenChannel(b) ==
    /\ \/ /\ Go(b, "added", "open") /\ isOpen[handler[b]]
          /\ adapter' = adapter \cup {Chan[b]}
       \/ Go(b, "added", "failed") /\ UNCHANGED adapter
    /\ UNCHANGED <<registered, regLock, port, reading, handler>>

---------------------------------------------------------------------------
(* SlcanxBus.shutdown; it can be called again after the write raised. *)

CloseChannel(b) ==
    /\ Go(b, "open", "closed") /\ isOpen[handler[b]]
    /\ adapter' = adapter \ {Chan[b]}
    /\ UNCHANGED <<registered, regLock, port, reading, handler>>

RefsBefore(h) == refs[h] = 0                  \* mutant: looked at before it is decremented
LastRef(h) == refs[h] = 1                     \* refs is 0 when it is decremented

RemoveBus(b) ==
    LET h == handler[b] IN
    /\ pc[b] = "closed" /\ RegFree
    /\ buses' = [buses EXCEPT ![h] = @ \ {b}]
    /\ refs' = [refs EXCEPT ![h] = @ - 1]
    /\ \/ LastRef(h) /\ Go(b, "closed", "last") /\ regLock' = b
       \/ ~LastRef(h) /\ Go(b, "closed", "gone") /\ UNCHANGED regLock
    /\ UNCHANGED <<registered, isOpen, running, reading, handler, adapter>>

StopReader(b) ==
    /\ Go(b, "last", "joining")
    /\ running' = [running EXCEPT ![handler[b]] = FALSE]
    /\ UNCHANGED <<registered, regLock, isOpen, buses, refs, reading, handler, adapter>>

(* The reader has ended, or did not within a second. *)
CloseSerial(b) ==
    /\ Go(b, "joining", "closing")
    /\ isOpen' = [isOpen EXCEPT ![handler[b]] = FALSE]
    /\ UNCHANGED <<registered, regLock, running, buses, refs, reading, handler, adapter>>

(* Nothing assigns self.channel: reading it raises, the with block lets go  *)
(* of the lock and the closed handler stays in _handlers.                   *)
KeepsHandler == UNCHANGED registry

Forget(b) ==
    /\ Go(b, "closing", "gone")
    /\ KeepsHandler
    /\ regLock' = NoBus
    /\ UNCHANGED <<made, port, reading, handler, adapter>>

---------------------------------------------------------------------------
(* The reader thread of a handler. *)

(* The adapter sends lines of the channels that are open in it. *)
Arrive(h, c) ==
    /\ isOpen[h] /\ c \in adapter /\ arrived < MaxLines
    /\ arrived' = arrived + 1
    /\ input' = [input EXCEPT ![h] = Append(@, [ch |-> c, n |-> arrived'])]
    /\ UNCHANGED <<registered, regLock, port, reader, lines, queue, pc, handler, adapter>>

Read(h) ==
    /\ reader[h] /\ running[h] /\ isOpen[h] /\ lines[h] = <<>> /\ input[h] # <<>>
    /\ lines' = [lines EXCEPT ![h] = input[h]]
    /\ input' = [input EXCEPT ![h] = <<>>]
    /\ UNCHANGED <<registered, regLock, port, reader, queue, arrived, pc, handler, adapter>>

OneBus(h, line) ==                            \* mutant: one bus of the channel only
    LET all == {b \in buses[h] : Chan[b] = line.ch} IN
    IF all = {} THEN {} ELSE {CHOOSE b \in all : TRUE}
Listeners(h, line) == {b \in buses[h] : Chan[b] = line.ch}

Dispatch(h) ==
    /\ lines[h] # <<>>
    /\ LET line == Head(lines[h]) IN
       queue' = [b \in Buses |->
           IF b \in Listeners(h, line) THEN Append(queue[b], line) ELSE queue[b]]
    /\ lines' = [lines EXCEPT ![h] = Tail(@)]
    /\ UNCHANGED <<registered, regLock, port, reader, input, arrived, pc, handler, adapter>>

(* running is FALSE, or the closed port raises. *)
ReaderEnds(h) ==
    /\ reader[h] /\ lines[h] = <<>>
    /\ ~running[h] \/ ~isOpen[h]
    /\ reader' = [reader EXCEPT ![h] = FALSE]
    /\ UNCHANGED <<registered, regLock, port, lines, input, queue, arrived, pc, handler, adapter>>

---------------------------------------------------------------------------
Init ==
    /\ registry = 0 /\ regLock = NoBus /\ made = 0
    /\ isOpen = [h \in Handlers |-> FALSE] /\ running = [h \in Handlers |-> FALSE]
    /\ buses = [h \in Handlers |-> {}] /\ refs = [h \in Handlers |-> 0]
    /\ reader = [h \in Handlers |-> FALSE]
    /\ lines = [h \in Handlers |-> <<>>] /\ input = [h \in Handlers |-> <<>>]
    /\ pc = [b \in Buses |-> "none"] /\ handler = [b \in Buses |-> 0]
    /\ queue = [b \in Buses |-> <<>>]
    /\ adapter = {} /\ arrived = 0

(* The steps of a call that has begun; the first ones are the user's. *)
Call(b) == AddBus(b) \/ OpenChannel(b) \/ RemoveBus(b)
           \/ StopReader(b) \/ CloseSerial(b) \/ Forget(b)
Reader(h) == Read(h) \/ Dispatch(h) \/ ReaderEnds(h)

Next ==
    \/ \E b \in Buses : FindHandler(b) \/ CloseChannel(b) \/ Call(b)
    \/ \E h \in Handlers : Reader(h) \/ \E c \in 0..3 : Arrive(h, c)

Spec == Init /\ [][Next]_vars

(* A call that has begun goes on, and so does a reader; nobody has to open  *)
(* a bus or to shut one down.                                               *)
FairSpec ==
    /\ Spec
    /\ \A b \in Buses : WF_vars(Call(b))
    /\ \A h \in Handlers : WF_vars(Reader(h))

---------------------------------------------------------------------------
(* Properties. *)

(* A bus that was added has the one handler of the port, registered with    *)
(* it, whoever opens and shuts down other buses of the port meanwhile; one  *)
(* that was opened has it open and with its reader running until it leaves  *)
(* it itself, and its channel open in the adapter, unless a bus of the same *)
(* channel was shut down: its 'C' closes the channel for both.              *)
Added(b) == pc[b] \in {"added", "open", "closed", "failed"}
InUse(b) == pc[b] \in {"open", "closed"}
ShutDown(b) == pc[b] \in {"closed", "last", "joining", "closing", "gone"}
ServedWhileInUse == \A b \in Buses :
    LET h == handler[b] IN
    /\ Added(b) => registry = h /\ b \in buses[h]
    /\ InUse(b) => isOpen[h] /\ running[h] /\ reader[h]
    /\ pc[b] = "open" => Chan[b] \in adapter
                         \/ \E x \in Buses : Chan[x] = Chan[b] /\ ShutDown(x)

(* The port is open only in the handler that is registered.  When the last  *)
(* bus is shut down it is closed, and no channel of the adapter is left     *)
(* open.  A handler that was closed is the last one of the process: it      *)
(* stays registered, and no later bus of the port can be opened.            *)
PortReleased ==
    /\ \A h \in Handlers : isOpen[h] => registry = h
    /\ (\A b \in Buses : pc[b] \in {"none", "gone"})
          => (\A h \in Handlers : ~isOpen[h]) /\ adapter = {}
    /\ (\E h \in 1..made : ~isOpen[h])
          => (\A h \in Handlers : ~isOpen[h]) /\ \A b \in Buses : ~InUse(b)

(* A line that comes in while a bus of its channel is open reaches the bus, *)
(* unless the bus is shut down.                                             *)
Waits(b, n) ==
    LET coming == lines[handler[b]] \o input[handler[b]] IN
    \E i \in 1..Len(coming) : coming[i] = [ch |-> Chan[b], n |-> n]
Got(b, n) == \E i \in 1..Len(queue[b]) : queue[b][i].n = n
LinesDelivered == \A b \in Buses : \A n \in 1..MaxLines :
    (pc[b] = "open" /\ Waits(b, n)) ~> (Got(b, n) \/ pc[b] # "open")

(* A shutdown that closed its channel ends, whatever others do with the     *)
(* locks.                                                                   *)
ShutdownEnds == \A b \in Buses : (pc[b] = "closed") ~> (pc[b] = "gone")

=============================================================================
