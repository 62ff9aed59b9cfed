----------------------------- MODULE CppWriter -----------------------------
(***************************************************************************)
(* The C++ library (sd/slcanx-cpp/src/slcanx.cpp): send and send_cmd       *)
(* append a line to write_buffer_ under write_mutex_ and then notify       *)
(* write_cv_; write_loop waits for a line, lets more come for the grouping *)
(* window, swaps the buffer out and writes it; read_loop calls the         *)
(* receive callback, which may send too; the destructor stops both         *)
(* threads.                                                                *)
(*                                                                         *)
(* One action is one critical section of write_mutex_, or one access       *)
(* outside it.  `wait` evaluates its predicate and blocks with the mutex   *)
(* held, but running_ and notify_all in the destructor do not take it.     *)
(***************************************************************************)
EXTENDS Naturals, Sequences

CONSTANTS
    Users,      \* the threads that use the library
    Reader,     \* the read thread, which sends from its callback
    Grouping,   \* group_window_us_ > 0
    Big,        \* lines of a buffer that is not held back (1024 bytes)
    Timeouts,   \* may WriteFile time out after a part of the chunk
    MaxSends    \* bound: lines a thread sends

ASSUME CppAssumption ==
    /\ Reader \notin Users /\ Grouping \in BOOLEAN /\ Timeouts \in BOOLEAN
    /\ Big \in Nat /\ MaxSends \in Nat

Senders == Users \cup {Reader}

VARIABLES
    buffer,     \* write_buffer_, as lines
    chunk,      \* the chunk of write_loop
    running,    \* running_
    w,          \* where write_loop stands
    r,          \* where read_loop stands
    d,          \* where the destructor stands
    toNotify,   \* the threads between the unlock and the notify_one of a send
    sent,       \* how many lines each thread appended
    port        \* history: the lines the serial port has got in full

vars == <<buffer, chunk, running, w, r, d, toNotify, sent, port>>

(* write_loop holds write_mutex_ in these places. *)
Unlocked == w \notin {"eval", "park", "pass", "swap"}
NoLock == TRUE                                \* mutant: append without the mutex
CanLock == Unlocked

(* A notification reaches write_loop only if it is blocked in wait. *)
NotifyNobody == UNCHANGED w                   \* mutant: the notify is missing
Notify == w' = IF w = "blocked" THEN "eval" ELSE w

---------------------------------------------------------------------------
(* send and send_cmd. *)

MayCall(s) == IF s = Reader THEN r = "callback" ELSE d = "none"

InFront(line) == <<line>> \o buffer           \* mutant: insert at begin()
AtEnd(line) == Append(buffer, line)

Send(s) ==
    /\ MayCall(s) /\ s \notin toNotify /\ sent[s] < MaxSends
    /\ CanLock
    /\ buffer' = AtEnd([by |-> s, n |-> sent[s] + 1])
    /\ sent' = [sent EXCEPT ![s] = @ + 1]
    /\ toNotify' = toNotify \cup {s}
    /\ UNCHANGED <<chunk, running, w, r, d, port>>

NotifyOne(s) ==
    /\ s \in toNotify
    /\ toNotify' = toNotify \ {s}
    /\ Notify
    /\ UNCHANGED <<buffer, chunk, running, r, d, sent, port>>

---------------------------------------------------------------------------
(* write_loop. *)

Go(from, to) == w = from /\ w' = to

WTop ==
    /\ IF running THEN Go("top", "eval") ELSE Go("top", "gone")
    /\ UNCHANGED <<buffer, chunk, running, r, d, toNotify, sent, port>>

Predicate == buffer # <<>> \/ ~running

WEval ==
    /\ IF Predicate THEN Go("eval", "pass") ELSE Go("eval", "park")
    /\ UNCHANGED <<buffer, chunk, running, r, d, toNotify, sent, port>>

WPark ==
    /\ Go("park", "blocked")
    /\ UNCHANGED <<buffer, chunk, running, r, d, toNotify, sent, port>>

WSpurious ==
    /\ Go("blocked", "eval")
    /\ UNCHANGED <<buffer, chunk, running, r, d, toNotify, sent, port>>

WPass ==
    /\ \/ ~running /\ Go("pass", "gone")
       \/ running /\ Grouping /\ Len(buffer) < Big /\ Go("pass", "sleep")
       \/ running /\ ~(Grouping /\ Len(buffer) < Big) /\ Go("pass", "swap")
    /\ UNCHANGED <<buffer, chunk, running, r, d, toNotify, sent, port>>

WSleep ==
    /\ Go("sleep", "swap")
    /\ UNCHANGED <<buffer, chunk, running, r, d, toNotify, sent, port>>

SwapBuffer == chunk' = buffer /\ buffer' = <<>>

WSwap ==
    /\ Go("swap", "write")
    /\ SwapBuffer
    /\ UNCHANGED <<running, r, d, toNotify, sent, port>>

(* SerialPort::write: its result, false or a short count, is not looked at. *)
WWrite ==
    /\ Go("write", "top")
    /\ \/ port' = port \o chunk
       \/ Timeouts /\ \E k \in 0..Len(chunk) : port' = port \o SubSeq(chunk, 1, k)
    /\ chunk' = <<>>
    /\ UNCHANGED <<buffer, running, r, d, toNotify, sent>>

---------------------------------------------------------------------------
(* read_loop, as far as it ends or calls back. *)

RCallback ==
    /\ r = "loop" /\ running
    /\ r' = "callback"
    /\ UNCHANGED <<buffer, chunk, running, w, d, toNotify, sent, port>>

RReturn ==
    /\ r = "callback" /\ Reader \notin toNotify
    /\ r' = "loop"
    /\ UNCHANGED <<buffer, chunk, running, w, d, toNotify, sent, port>>

REnd ==
    /\ r = "loop" /\ ~running
    /\ r' = "gone"
    /\ UNCHANGED <<buffer, chunk, running, w, d, toNotify, sent, port>>

---------------------------------------------------------------------------
(* ~Slcanx; no user thread is inside a call any more. *)

DStop ==
    /\ d = "none" /\ toNotify \cap Users = {}
    /\ running' = FALSE
    /\ d' = "notify"
    /\ UNCHANGED <<buffer, chunk, w, r, toNotify, sent, port>>

DNotify ==
    /\ d = "notify"
    /\ Notify
    /\ d' = "joinRead"
    /\ UNCHANGED <<buffer, chunk, running, r, toNotify, sent, port>>

DJoinRead ==
    /\ d = "joinRead" /\ r = "gone"
    /\ d' = "joinWrite"
    /\ UNCHANGED <<buffer, chunk, running, w, r, toNotify, sent, port>>

WriterJoined == w = "gone"

(* The members are destroyed, write_buffer_ with what is in it. *)
DJoinWrite ==
    /\ d = "joinWrite" /\ WriterJoined
    /\ d' = "done"
    /\ buffer' = <<>>
    /\ UNCHANGED <<chunk, running, w, r, toNotify, sent, port>>

---------------------------------------------------------------------------
Init ==
    /\ buffer = <<>> /\ chunk = <<>>
    /\ running = TRUE
    /\ w = "top" /\ r = "loop" /\ d = "none"
    /\ toNotify = {}
    /\ sent = [s \in Senders |-> 0]
    /\ port = <<>>

WriteLoop == WTop \/ WEval \/ WPark \/ WPass \/ WSleep \/ WSwap \/ WWrite
Destructor == DNotify \/ DJoinRead \/ DJoinWrite

Next ==
    \/ \E s \in Senders : Send(s) \/ NotifyOne(s)
    \/ WriteLoop \/ WSpurious
    \/ RCallback \/ RReturn \/ REnd
    \/ DStop \/ Destructor

Spec == Init /\ [][Next]_vars

(* Threads that are not blocked go on, and a callback returns; a spurious   *)
(* wakeup never has to come, nor has the object to be destroyed.            *)
FairSpec ==
    /\ Spec
    /\ \A s \in Senders : WF_vars(NotifyOne(s))
    /\ WF_vars(WriteLoop) /\ WF_vars(RReturn) /\ WF_vars(REnd) /\ WF_vars(Destructor)

---------------------------------------------------------------------------
(* Properties. *)

WriterStates == {"top", "eval", "park", "blocked", "pass", "sleep", "swap", "write", "gone"}
Line == [by: Senders, n: Nat]

(* The types of the variables; the chunk is empty outside the write, and no *)
(* thread of the library outlives its members.                              *)
TypeOK ==
    /\ buffer \in Seq(Line) /\ chunk \in Seq(Line) /\ port \in Seq(Line)
    /\ running \in BOOLEAN
    /\ w \in WriterStates
    /\ r \in {"loop", "callback", "gone"}
    /\ d \in {"none", "notify", "joinRead", "joinWrite", "done"}
    /\ toNotify \subseteq Senders
    /\ sent \in [Senders -> 0..MaxSends]
    /\ w # "write" => chunk = <<>>
    /\ d \in {"joinWrite", "done"} => r = "gone"
    /\ d = "done" => w = "gone"

(* The library is a LinePipe: what it has taken and not written is the      *)
(* chunk followed by the buffer.                                            *)
Pipe == INSTANCE LinePipe WITH
    Lossy <- Timeouts, pending <- chunk \o buffer, closing <- ~running
PipeSpec == Pipe!Spec

(* write_loop never sleeps on a buffer that nobody will announce: while it  *)
(* is blocked with a line to write, the thread that appended the line has   *)
(* still to notify it.                                                      *)
NoSleepOnWork == w = "blocked" /\ buffer # <<>> => toNotify # {}

(* A line that send has taken reaches WriteFile, unless the library is      *)
(* destroyed first.                                                         *)
Held(s, n) == \E i \in 1..Len(chunk \o buffer) : (chunk \o buffer)[i] = [by |-> s, n |-> n]
SentIsWritten == \A s \in Senders : \A n \in 1..MaxSends :
    (sent[s] >= n) ~> (~Held(s, n) \/ ~running)

(* A destructor that has stored running_ ends: its notify_all reaches       *)
(* write_loop wherever it stands.                                           *)
DestructorEnds == (d = "notify") ~> (d = "done")

=============================================================================
