------------------------------ MODULE ByteLine ------------------------------
(***************************************************************************)
(* What the serial port gives the packet thread: the bytes that the line   *)
(* delivers, once each and in order, as long as no more than Capacity of   *)
(* them wait to be got.  When more wait, those that have found no place    *)
(* yet may turn into copies of the newest one.  So may all that come       *)
(* before the threads are started.                                         *)
(***************************************************************************)
EXTENDS Integers, Sequences

CONSTANTS
    Data,           \* the bytes
    Capacity        \* how many bytes may wait

VARIABLES
    line,           \* the bytes delivered and not yet got, oldest first
    got,            \* the byte of the latest Get
    turn,           \* how many Gets there have been, modulo Capacity
    started         \* the threads run

bytes == <<line, got, turn>>
vars == <<bytes, started>>

Init == line = <<>> /\ got \in Data /\ turn = 0 /\ started = FALSE

Deliver(d) ==
    /\ line' = Append(line, d)
    /\ UNCHANGED <<got, turn>>

Get ==
    /\ line # <<>>
    /\ got' \in Data
    /\ Len(line) <= Capacity => got' = Head(line)
    /\ line' = Tail(line)
    /\ turn' = IF turn + 1 = Capacity THEN 0 ELSE turn + 1

\* The first kept bytes stay; there is one byte less at the most.
Overrun ==
    \E kept \in 0 .. Len(line) - 2, left \in {Len(line), Len(line) - 1} :
        /\ started => kept > Capacity
        /\ line' = [i \in 1 .. left |-> IF i <= kept THEN line[i] ELSE line[Len(line)]]
        /\ UNCHANGED <<got, turn>>

Next ==
    /\ Get \/ Overrun \/ (\E d \in Data : Deliver(d)) \/ UNCHANGED bytes
    /\ started => started'

Spec == Init /\ [][Next]_vars
=============================================================================
