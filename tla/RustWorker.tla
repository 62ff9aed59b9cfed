----------------------------- MODULE RustWorker -----------------------------
(***************************************************************************)
(* The Rust library (sd/slcanx-rs): Channel puts commands into an unbounded*)
(* channel; one worker thread (SerialWorker::run) takes turns: it reads    *)
(* the port, collects commands in write_buf until the group window is over,*)
(* the buffer is large or no command is there, and writes write_buf.       *)
(* shutdown and drop put Shutdown behind the commands sent so far; it ends *)
(* the worker where it is met.                                             *)
(***************************************************************************)
EXTENDS Naturals, Sequences

CONSTANTS
    Senders,    \* the threads that send
    Full,       \* lines after which write_buf is written (1024 bytes)
    Failures,   \* may the port fail
    MaxSends    \* bound: lines a thread sends

ASSUME RustAssumption == Full \in Nat /\ Failures \in BOOLEAN /\ MaxSends \in Nat

VARIABLES
    cmds,       \* the commands of cmd_rx up to the first Shutdown
    shut,       \* there is a Shutdown in cmd_rx
    behind,     \* the commands after it
    wbuf,       \* write_buf, as lines
    w,          \* where the worker stands
    failed,     \* the worker ended because a read failed
    d,          \* where drop stands
    sent,       \* how many lines each thread put into the channel
    port        \* history: the lines the serial port has got in full

vars == <<cmds, shut, behind, wbuf, w, failed, d, sent, port>>

---------------------------------------------------------------------------
(* Channel. *)

(* The channel fails a send when the worker, its receiver, is gone. *)
Send(s) ==
    /\ w # "gone" /\ sent[s] < MaxSends
    /\ LET line == [by |-> s, n |-> sent[s] + 1] IN
       \/ ~shut /\ cmds' = Append(cmds, line) /\ UNCHANGED behind
       \/ shut /\ behind' = Append(behind, line) /\ UNCHANGED cmds
    /\ sent' = [sent EXCEPT ![s] = @ + 1]
    /\ UNCHANGED <<shut, wbuf, w, failed, d, port>>

(* Slcanx::shutdown, which a user may call before drop does. *)
Shutdown ==
    /\ w # "gone" /\ d = "live"
    /\ shut' = TRUE
    /\ UNCHANGED <<cmds, behind, wbuf, w, failed, d, sent, port>>

NoShutdown == UNCHANGED shut                  \* mutant: drop only joins
PutShutdown == shut' = (shut \/ w # "gone")

DropStart ==
    /\ d = "live"
    /\ PutShutdown
    /\ d' = "joining"
    /\ UNCHANGED <<cmds, behind, wbuf, w, failed, sent, port>>

DropEnd ==
    /\ d = "joining" /\ w = "gone"
    /\ d' = "dropped"
    /\ UNCHANGED <<cmds, shut, behind, wbuf, w, failed, sent, port>>

---------------------------------------------------------------------------
(* The worker. *)

Go(from, to) == w = from /\ w' = to

(* write_buf and the receiver are dropped, with what they hold. *)
End ==
    /\ w' = "gone"
    /\ cmds' = <<>> /\ behind' = <<>> /\ wbuf' = <<>>

Read ==
    /\ Go("read", "collect")
    /\ UNCHANGED <<cmds, shut, behind, wbuf, failed, d, sent, port>>

ReadFails ==
    /\ Failures /\ w = "read"
    /\ End
    /\ failed' = TRUE
    /\ UNCHANGED <<shut, d, sent, port>>

Prepended(line) == wbuf' = <<line>> \o wbuf   \* mutant: serialized in front
Serialized(line) == wbuf' = Append(wbuf, line)

(* The next command, while the window is not over (CollectEnd). *)
Collect ==
    /\ w = "collect" /\ cmds # <<>> /\ Len(wbuf) <= Full
    /\ Serialized(Head(cmds))
    /\ cmds' = Tail(cmds)
    /\ UNCHANGED <<shut, behind, w, failed, d, sent, port>>

(* The window is over, write_buf is large, or no command is there. *)
CollectEnd ==
    /\ wbuf # <<>>
    /\ Go("collect", "write")
    /\ UNCHANGED <<cmds, shut, behind, wbuf, failed, d, sent, port>>

AnyCommand == TRUE                            \* mutant: a waiting command is passed over
NoCommand == cmds = <<>> /\ ~shut

(* One millisecond without a command. *)
CollectNothing ==
    /\ wbuf = <<>> /\ NoCommand
    /\ Go("collect", "read")
    /\ UNCHANGED <<cmds, shut, behind, wbuf, failed, d, sent, port>>

MeetShutdown ==
    /\ w = "collect" /\ Len(wbuf) <= Full
    /\ cmds = <<>> /\ shut
    /\ End
    /\ UNCHANGED <<shut, failed, d, sent, port>>

ClearBuffer == wbuf' = <<>>

(* A failed write_all is logged, and write_buf is cleared all the same. *)
Write ==
    /\ Go("write", "read")
    /\ \/ port' = port \o wbuf
       \/ Failures /\ \E k \in 0..Len(wbuf) : port' = port \o SubSeq(wbuf, 1, k)
    /\ ClearBuffer
    /\ UNCHANGED <<cmds, shut, behind, failed, d, sent>>

---------------------------------------------------------------------------
Init ==
    /\ cmds = <<>> /\ shut = FALSE /\ behind = <<>>
    /\ wbuf = <<>> /\ w = "read" /\ failed = FALSE
    /\ d = "live"
    /\ sent = [s \in Senders |-> 0]
    /\ port = <<>>

Worker == Read \/ ReadFails \/ Collect \/ CollectEnd \/ CollectNothing
          \/ MeetShutdown \/ Write

Next ==
    \/ \E s \in Senders : Send(s)
    \/ Shutdown \/ DropStart \/ DropEnd
    \/ Worker

Spec == Init /\ [][Next]_vars

(* The worker is never blocked: it reads with a timeout and waits a         *)
(* millisecond for a command.                                               *)
FairSpec == Spec /\ WF_vars(Worker) /\ WF_vars(DropEnd)

---------------------------------------------------------------------------
(* Properties. *)

Line == [by: Senders, n: Nat]

(* The types of the variables; only a Shutdown has commands behind it, and  *)
(* write_buf is empty while the worker reads.                               *)
TypeOK ==
    /\ cmds \in Seq(Line) /\ behind \in Seq(Line) /\ wbuf \in Seq(Line)
    /\ port \in Seq(Line)
    /\ shut \in BOOLEAN /\ failed \in BOOLEAN
    /\ w \in {"read", "collect", "write", "gone"}
    /\ d \in {"live", "joining", "dropped"}
    /\ sent \in [Senders -> 0..MaxSends]
    /\ w = "read" => wbuf = <<>>
    /\ ~shut => behind = <<>>
    /\ w = "gone" => shut \/ failed

(* The library is a LinePipe, which may lose lines only through a failing   *)
(* port, a Shutdown or the end of the worker.                               *)
Pipe == INSTANCE LinePipe WITH
    Lossy <- Failures, pending <- wbuf \o cmds \o behind, closing <- shut \/ failed
PipeSpec == Pipe!Spec

(* A line that the channel has taken reaches write_all, whatever the reading *)
(* and the grouping do, unless a Shutdown is sent or a read fails.          *)
Held(s, n) == \E i \in 1..Len(wbuf \o cmds) : (wbuf \o cmds)[i] = [by |-> s, n |-> n]
SentIsWritten == \A s \in Senders : \A n \in 1..MaxSends :
    (sent[s] >= n) ~> (~Held(s, n) \/ shut \/ failed)

(* drop ends: its Shutdown reaches the worker behind whatever is queued.    *)
DropReturns == (d = "joining") ~> (d = "dropped")

=============================================================================
