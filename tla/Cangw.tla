------------------------------- MODULE Cangw -------------------------------
(***************************************************************************)
(* The gateways of src/linux_training: programs that read the frames of    *)
(* some CAN interfaces and write them to another as CAN FD frames with bit *)
(* rate switch.  Nine programs do the same with other means; a behaviour  *)
(* is one of them:                                                         *)
(*   single  cangw_c.c: one socket for all interfaces                      *)
(*   epoll   cangw_c_epoll.c, cangw_cpp_epoll.cpp                          *)
(*   asio    cangw_cpp_asio.cpp, cangw_cpp_asio_0.cpp                      *)
(*   threads cangw_rs_0: a thread and an outgoing socket per interface     *)
(*   tokio   cangw_rs_tokio: a task and an outgoing socket per interface   *)
(*   shared  cangw_rs_tokio_1: a task per interface, one outgoing socket   *)
(*   py      cangw_py_asyncio.py                                           *)
(***************************************************************************)
EXTENDS Naturals, Sequences

CONSTANTS Sources,    \* can0, can1, can2
          Others,     \* interfaces a socket of all interfaces hears too
          MaxFrames,  \* frames each interface receives
          QueueMax,   \* frames the receive queue of a socket holds
          MaxDowns    \* times an interface goes down

ASSUME CangwAssumption ==
    /\ MaxFrames \in [Sources \cup Others -> Nat] /\ QueueMax \in Nat \ {0} /\ MaxDowns \in Nat
    /\ Sources \cap Others = {} /\ {"any", "main", "none"} \cap (Sources \cup Others) = {}

Programs == {"single", "epoll", "asio", "threads", "tokio", "shared", "py"}
Kinds == {"classic", "remote", "fd", "error"}
Interfaces == Sources \cup Others

VARIABLES
    prog,
    arrived,    \* frames each interface has received
    queue,      \* receive queues of the sockets
    downs, err, \* an interface went down, and its socket has an error to tell
    round,      \* epoll: sockets still to be read in this round
    buffer,     \* py: frames in the reader of each interface
    hand,       \* the frame a worker has read and not yet written
    pending,    \* asio: sends under way
    dead,       \* interfaces whose loop has ended
    out, lost   \* frames written, and those that were not

vars == <<prog, arrived, queue, downs, err, round, buffer, hand, pending, dead, out, lost>>

---------------------------------------------------------------------------
(* Who reads what.  Each program's sockets and workers. *)

BoundTo(s) == s
Socket(s) == IF prog = "single" THEN "any" ELSE BoundTo(s)
Sockets == Interfaces \cup {"any"}
Hears(s) == s \in Sources \/ prog = "single"

OneThread == prog \in {"single", "epoll"}
Worker(s) == IF OneThread THEN "main" ELSE s
Workers == Sources \cup {"main"}
None == [src |-> "none"]

(* Whose loop ends when it cannot read: asio returns, tokio_1 breaks. *)
EndsAlways == Programs                        \* mutant: every program stops at an error
EndsOnError == {"asio", "shared"}

(* What becomes of a frame: an FD frame with bit rate switch.  Of a remote  *)
(* one the C and C++ programs clear the RTR flag and send as many zeros as  *)
(* its dlc says, the others send no data, or ignore it.  Error frames, for  *)
(* which the C and C++ programs do not ask, the Rust ones ignore; the Python *)
(* one forwards them as data frames.                                        *)
Zeroed == {"single", "epoll", "asio"}
Ignored(f) ==
    \/ f.kind = "remote" /\ prog = "shared"
    \/ f.kind = "error" /\ prog # "py"
    \/ f.src \in Others
Converted(f) ==
    [src |-> f.src, n |-> f.n,
     data |-> IF f.kind # "remote" THEN "copied" ELSE IF prog \in Zeroed THEN "zeros" ELSE "none"]

Init ==
    /\ prog \in Programs
    /\ arrived = [s \in Interfaces |-> 0]
    /\ queue = [k \in Sockets |-> <<>>]
    /\ downs = 0 /\ err = {} /\ round = <<>>
    /\ buffer = [s \in Sources |-> <<>>]
    /\ hand = [w \in Workers |-> None]
    /\ pending = <<>> /\ dead = {} /\ out = <<>> /\ lost = {}

---------------------------------------------------------------------------
(* The network: a frame arrives, and is dropped if the socket is full; an   *)
(* interface goes down, which a socket bound to it tells its reader once.   *)

HasRoom(k) == Len(queue[k]) < QueueMax

Arrive(s, kind) ==
    LET f == [src |-> s, n |-> arrived[s] + 1, kind |-> kind]
    IN  /\ Hears(s) /\ (prog \in Zeroed => kind # "error") /\ arrived[s] < MaxFrames[s]
        /\ arrived' = [arrived EXCEPT ![s] = @ + 1]
        /\ IF HasRoom(Socket(s))
           THEN queue' = [queue EXCEPT ![Socket(s)] = Append(@, f)] /\ UNCHANGED lost
           ELSE lost' = lost \cup {f} /\ UNCHANGED queue
        /\ UNCHANGED <<prog, downs, err, round, buffer, hand, pending, dead, out>>

Down(s) ==
    /\ prog # "single" /\ downs < MaxDowns
    /\ downs' = downs + 1 /\ err' = err \cup {s}
    /\ UNCHANGED <<prog, arrived, queue, round, buffer, hand, pending, dead, out, lost>>

---------------------------------------------------------------------------
(* Reading. *)

Readable(s) == queue[Socket(s)] # <<>> \/ s \in err
Free(s) == hand[Worker(s)] = None /\ s \notin dead

(* epoll_wait tells each readable socket once, in some order; none is told  *)
(* again before all of them were read.                                      *)
EpollWait ==
    /\ prog = "epoll" /\ round = <<>> /\ hand["main"] = None
    /\ \E n \in 1..3 : \E r \in [1..n -> Sources] :
          /\ \A i, j \in 1..n : r[i] = r[j] => i = j
          /\ {r[i] : i \in 1..n} = {s \in Sources : Readable(s)}
          /\ round' = r
    /\ UNCHANGED <<prog, arrived, queue, downs, err, buffer, hand, pending, dead, out, lost>>

Turn(s) == prog = "epoll" => round # <<>> /\ Head(round) = s
TurnTaken == round' = IF prog = "epoll" THEN Tail(round) ELSE round

(* read fails: the loop goes on, or that interface's loop ends. *)
ReadError(s) ==
    /\ Turn(s) /\ Free(s) /\ s \in err /\ err' = err \ {s} /\ TurnTaken
    /\ dead' = IF prog \in EndsOnError THEN dead \cup {s} ELSE dead
    /\ UNCHANGED <<prog, arrived, queue, downs, buffer, hand, pending, out, lost>>

(* A frame is read: the worker has it in hand, the notifier of py puts it   *)
(* into the reader's buffer.                                                *)
Deliver(s, f) ==
    CASE Ignored(f) -> lost' = lost \cup {f} /\ UNCHANGED <<hand, buffer>>
      [] ~Ignored(f) /\ prog = "py" ->
            buffer' = [buffer EXCEPT ![s] = Append(@, f)] /\ UNCHANGED <<hand, lost>>
      [] OTHER ->
            hand' = [hand EXCEPT ![Worker(s)] = f] /\ UNCHANGED <<buffer, lost>>

Read(s) ==
    /\ prog # "asio" /\ Turn(s) /\ s \notin err /\ queue[Socket(s)] # <<>> /\ s \notin dead
    /\ prog = "py" \/ Free(s)
    /\ queue' = [queue EXCEPT ![Socket(s)] = Tail(@)]
    /\ Deliver(s, Head(queue[Socket(s)]))
    /\ TurnTaken
    /\ UNCHANGED <<prog, arrived, downs, err, pending, dead, out>>

(* asio: the completion handler of an interface's async_receive starts to   *)
(* send the frame and, without waiting for that, receives again.            *)
InFront(seq, f) == <<f>> \o seq               \* mutant: sends are started in front
AtEnd(seq, f) == Append(seq, f)
Received(s) ==
    /\ prog = "asio" /\ queue[s] # <<>> /\ s \notin err /\ s \notin dead
    /\ queue' = [queue EXCEPT ![s] = Tail(@)]
    /\ pending' = AtEnd(pending, Head(queue[s]))
    /\ UNCHANGED <<prog, arrived, downs, err, round, buffer, hand, dead, out, lost>>

(* py: forward_worker takes the next message of its reader. *)
Take(s) ==
    /\ buffer[s] # <<>> /\ Free(s)
    /\ hand' = [hand EXCEPT ![Worker(s)] = Head(buffer[s])]
    /\ buffer' = [buffer EXCEPT ![s] = Tail(@)]
    /\ UNCHANGED <<prog, arrived, queue, downs, err, round, pending, dead, out, lost>>

---------------------------------------------------------------------------
(* Writing: the frame goes out, or the error is logged and the frame lost.  *)
(* A tokio task that would block tries again, with the frame still in hand. *)

Kept(w) == hand[w]                            \* mutant: a frame is written again
Emptied(w) == None

Write(w) ==
    /\ hand[w] # None
    /\ \/ out' = Append(out, Converted(hand[w])) /\ UNCHANGED lost
       \/ lost' = lost \cup {hand[w]} /\ UNCHANGED out
    /\ hand' = [hand EXCEPT ![w] = Emptied(w)]
    /\ UNCHANGED <<prog, arrived, queue, downs, err, round, buffer, pending, dead>>

SendDone ==
    /\ pending # <<>> /\ pending' = Tail(pending)
    /\ \/ out' = Append(out, Converted(Head(pending))) /\ UNCHANGED lost
       \/ lost' = lost \cup {Head(pending)} /\ UNCHANGED out
    /\ UNCHANGED <<prog, arrived, queue, downs, err, round, buffer, hand, dead>>

---------------------------------------------------------------------------
Network == \E s \in Interfaces : (\E k \in Kinds : Arrive(s, k)) \/ (s \in Sources /\ Down(s))

Next ==
    \/ Network \/ EpollWait \/ SendDone
    \/ \E s \in Sources : ReadError(s) \/ Read(s) \/ Take(s) \/ Received(s)
    \/ \E w \in Workers : Write(w)

Spec ==
    /\ Init /\ [][Next]_vars
    /\ WF_vars(EpollWait) /\ WF_vars(SendDone)
    /\ \A s \in Sources :
          /\ WF_vars(ReadError(s)) /\ WF_vars(Read(s)) /\ WF_vars(Take(s)) /\ WF_vars(Received(s))
    /\ \A w \in Workers : WF_vars(Write(w))

---------------------------------------------------------------------------
(* Properties. *)

(* The frames of an interface leave in the order they came, none twice,     *)
(* whichever program forwards them and whatever is lost on the way.         *)
InOrder ==
    \A i, j \in DOMAIN out : i < j /\ out[i].src = out[j].src => out[i].n < out[j].n

(* Every frame that came is in one place: in a queue, in a program's hands, *)
(* written, or lost for a reason the program has.                           *)
Held(s) ==
    LET in(seq) == {seq[i].n : i \in {j \in DOMAIN seq : seq[j].src = s}}
        held == {hand[w].n : w \in {x \in Workers : hand[x].src = s}}
    IN  [queued |-> in(queue[Socket(s)]),
         buffered |-> IF s \in Sources THEN in(buffer[s]) ELSE {},
         held |-> held, pending |-> in(pending), out |-> in(out),
         lost |-> {f.n : f \in {g \in lost : g.src = s}}]
Accounted ==
    \A s \in Interfaces :
        LET h == Held(s)
        IN  /\ UNION {h[p] : p \in DOMAIN h} = 1..arrived[s]
            /\ \A p, q \in DOMAIN h : p # q => h[p] \cap h[q] = {}

(* When no more frames come, all that came have been written or lost: a     *)
(* worker never starves a socket.  The exception are interfaces that went   *)
(* down under asio and tokio_1, whose loops end and are not started again.  *)
Quiet(s) ==
    /\ queue[Socket(s)] = <<>> /\ buffer[s] = <<>>
    /\ hand[Worker(s)] = None /\ pending = <<>>
Drains ==
    <>[](\A s \in Sources : Quiet(s) \/ (s \in dead /\ prog \in {"asio", "shared"}))

=============================================================================
