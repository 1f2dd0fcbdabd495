---------------------------- MODULE NonVolatile -----------------------------
(***************************************************************************)
(* What Flash.h promises: a memory in which a write changes the bytes of   *)
(* one aligned variable, all at once, and nothing else.  What it does not  *)
(* promise is that a write survives a reset: the reset may find the write  *)
(* undone, or its whole sector erased.                                     *)
(***************************************************************************)
EXTENDS Integers

CONSTANTS
    Address,        \* the addresses of the memory
    Byte,           \* what a byte holds
    Erased,         \* a byte after the erasure of its sector
    Sector(_)       \* Sector(a): the addresses erased together with a

VARIABLES
    mem,            \* the memory
    next,           \* the memory as it will be after the write under way
    writing         \* a write is under way

vars == <<mem, next, writing>>

Init == mem \in [Address -> Byte] /\ next = mem /\ writing = FALSE

\* The memory with the n bytes x in place of those at address a.
Overwritten(a, n, x) ==
    [i \in Address |-> IF i \in a .. a + n - 1 THEN x[i - a] ELSE mem[i]]

Begin ==
    /\ ~ writing
    /\ writing' = TRUE
    /\ \E a \in Address, n \in {1, 2, 4} :
        /\ a % n = 0
        /\ \E x \in [0 .. n - 1 -> Byte] : next' = Overwritten(a, n, x)
    /\ UNCHANGED mem

Commit == writing /\ mem' = next /\ writing' = FALSE /\ UNCHANGED next

WithoutSector(a) == [i \in Address |-> IF i \in Sector(a) THEN Erased ELSE mem[i]]

Erase ==
    /\ ~ writing
    /\ \E a \in Address : mem' = WithoutSector(a)
    /\ next' = mem'
    /\ UNCHANGED writing

\* The sector that may be lost is the one the write changes.
Reset ==
    /\ writing
    /\ \/ mem' = mem
       \/ \E a \in Address :
            /\ \A i \in Address \ Sector(a) : next[i] = mem[i]
            /\ mem' = WithoutSector(a)
    /\ next' = mem'
    /\ writing' = FALSE

Next == Begin \/ Commit \/ Erase \/ Reset

Spec == Init /\ [][Next]_vars
=============================================================================
