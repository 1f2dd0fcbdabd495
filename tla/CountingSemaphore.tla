------------------------- MODULE CountingSemaphore -------------------------
(***************************************************************************)
(* What the semaphores of the RTOS promise: Dijkstra's counting semaphore. *)
(* Every acquisition takes one permit, every release returns one, and the  *)
(* number of permits is negative exactly when that many threads sleep.     *)
(* Which of the sleepers a release wakes is left open.                     *)
(***************************************************************************)
EXTENDS Integers, FiniteSets

CONSTANTS
    Thread,         \* the threads that acquire
    Semaphore,      \* the semaphores
    MaxCount,       \* the largest number of permits a semaphore can hold
    InitialCount    \* the permits each semaphore is created with

VARIABLES
    permits,        \* permits[s]: releases minus acquisitions, may be negative
    sleeping        \* sleeping[s]: the threads whose acquisition is pending

vars == <<permits, sleeping>>

Init ==
    /\ permits = InitialCount
    /\ sleeping = [s \in Semaphore |-> {}]

Acquire(t, s) ==
    /\ \A r \in Semaphore : t \notin sleeping[r]
    /\ permits' = [permits EXCEPT ![s] = @ - 1]
    /\ \/ /\ permits[s] > 0
          /\ UNCHANGED sleeping
       \/ /\ permits[s] <= 0
          /\ sleeping' = [sleeping EXCEPT ![s] = @ \cup {t}]

Release(s) ==
    /\ permits[s] < MaxCount
    /\ permits' = [permits EXCEPT ![s] = @ + 1]
    /\ \/ /\ permits[s] >= 0
          /\ UNCHANGED sleeping
       \/ /\ permits[s] < 0
          /\ \E t \in sleeping[s] :
                sleeping' = [sleeping EXCEPT ![s] = @ \ {t}]

Next ==
    \E s \in Semaphore : Release(s) \/ \E t \in Thread : Acquire(t, s)

Spec == Init /\ [][Next]_vars
============================================================================
