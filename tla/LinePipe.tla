------------------------------ MODULE LinePipe ------------------------------
(***************************************************************************)
(* What the writing half of each user space library promises.  Threads     *)
(* hand over lines; a worker thread moves them to the serial port, several *)
(* in one write.  A line reaches the port whole, once, and after the lines *)
(* handed over before it; none is lost unless the library is closed or a   *)
(* write fails.  CppWriter, CsWriter and RustWorker implement it.          *)
(***************************************************************************)
EXTENDS Naturals, Sequences

CONSTANTS
    Senders,    \* the threads that send
    Lossy       \* may a write to the port fail

VARIABLES
    sent,       \* how many lines each thread handed over
    pending,    \* lines handed over that the port has not got
    port,       \* lines the port has got
    closing     \* the library is being closed

vars == <<sent, pending, port, closing>>

Line == [by: Senders, n: Nat]

From(s, k) == SubSeq(s, k + 1, Len(s))

Put(s) ==
    /\ sent' = [sent EXCEPT ![s] = @ + 1]
    /\ pending' = Append(pending, [by |-> s, n |-> sent[s] + 1])
    /\ UNCHANGED <<port, closing>>

(* One write of the first k lines. *)
Write(k) ==
    /\ port' = port \o SubSeq(pending, 1, k)
    /\ pending' = From(pending, k)
    /\ UNCHANGED <<sent, closing>>

(* A write that fails, or that a close cuts off: the port has got k of its  *)
(* m lines in full.                                                         *)
Fail(k, m) ==
    /\ Lossy \/ closing
    /\ port' = port \o SubSeq(pending, 1, k)
    /\ pending' = From(pending, m)
    /\ UNCHANGED <<sent, closing>>

Close ==
    /\ closing' = TRUE
    /\ pending' \in {pending, <<>>}
    /\ UNCHANGED <<sent, port>>

Init ==
    /\ sent = [s \in Senders |-> 0]
    /\ pending = <<>> /\ port = <<>>
    /\ closing = FALSE

Next ==
    \/ \E s \in Senders : Put(s)
    \/ \E k \in 1..Len(pending) : Write(k)
    \/ \E m \in 1..Len(pending) : \E k \in 0..m : Fail(k, m)
    \/ Close

Spec == Init /\ [][Next]_vars

---------------------------------------------------------------------------
(* Lines of one thread are in the order it sent them, none twice, in the    *)
(* port and among those that are still to come.                             *)
Ordered(q) == \A i, j \in 1..Len(q) :
    i < j /\ q[i].by = q[j].by => q[i].n < q[j].n

InOrder == Ordered(port \o pending)

=============================================================================
