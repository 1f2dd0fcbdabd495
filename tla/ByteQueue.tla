----------------------------- MODULE ByteQueue ------------------------------
(***************************************************************************)
(* What FIFO.c gives the two threads that share a FIFO: a queue that keeps *)
(* Capacity bytes; a byte that was put is got once, in order.  It admits   *)
(* one byte more than it keeps, which FIFO.h does not say of it, and then  *)
(* the next Get may return anything.                                       *)
(***************************************************************************)
EXTENDS Integers, Sequences

CONSTANTS
    Data,           \* the bytes
    Capacity        \* how many bytes the queue keeps

VARIABLES
    q,              \* the bytes put and not yet got, oldest first
    out             \* the byte of the latest Get

vars == <<q, out>>

Init == q = <<>> /\ out \in Data

Put(d) ==
    /\ Len(q) <= Capacity
    /\ q' = Append(q, d)
    /\ UNCHANGED out

Get ==
    /\ q # <<>>
    /\ out' \in Data
    /\ Len(q) <= Capacity => out' = Head(q)
    /\ q' = Tail(q)

Next == Get \/ \E d \in Data : Put(d)

Spec == Init /\ [][Next]_vars
=============================================================================
