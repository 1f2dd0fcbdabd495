--------------------------------- MODULE OS ---------------------------------
(***************************************************************************)
(* The part of the RTOS kernel that the application uses: counting         *)
(* semaphores (an OS_ECB holds a count and a wait list) and a ready list   *)
(* scheduled by strict priority.  A thread is identified with its priority *)
(* number, which the kernel requires to be unique: the lower the number,   *)
(* the more urgent the thread.  Both lists are bit sets indexed by         *)
(* priority in the kernel and sets of threads here.                        *)
(*                                                                         *)
(* Next is the most general client: the running thread may wait on any     *)
(* semaphore or delete itself, and a thread or an interrupt routine may    *)
(* signal any semaphore.  The modules that model the application use the   *)
(* operations as INSTANCE and say who calls which.                         *)
(***************************************************************************)
EXTENDS Integers, FiniteSets

CONSTANTS
    Thread,         \* the threads, each the number of its priority
    Semaphore,      \* the semaphores that OS_SemaphoreCreate returned
    MaxCount,       \* the largest value of the 32-bit count, 4294967295
    InitialCount    \* the value each semaphore was created with

ASSUME ThreadAssumption == Thread \subseteq Nat /\ IsFiniteSet(Thread)
ASSUME CountAssumption ==
    /\ MaxCount \in Nat \ {0}
    /\ InitialCount \in [Semaphore -> 0 .. MaxCount]

VARIABLES
    count,          \* count[s]: OS_ECB.count
    waitList,       \* waitList[s]: OS_ECB.waitList
    readyList       \* the threads that are ready to run

vars == <<count, waitList, readyList>>

Init ==
    /\ count = InitialCount
    /\ waitList = [s \in Semaphore |-> {}]
    /\ readyList = Thread

\* The first bit set in a list: the most urgent of the threads in S.
Highest(t, S) == t \in S /\ \A u \in S : t <= u

\* The scheduler dispatches the most urgent ready thread.  When no thread is
\* ready the kernel's idle thread runs.
Running(t) == Highest(t, readyList)

\* MUTANT of OS_SemaphoreWait: a thread that waits is left in the ready list.
WaitStaysReady(t, s) ==
    /\ Running(t)
    /\ \/ /\ count[s] > 0
          /\ count' = [count EXCEPT ![s] = @ - 1]
          /\ UNCHANGED <<waitList, readyList>>
       \/ /\ count[s] = 0
          /\ waitList' = [waitList EXCEPT ![s] = @ \cup {t}]
          /\ UNCHANGED <<count, readyList>>

OS_SemaphoreWait(t, s) ==
    /\ Running(t)
    /\ \/ /\ count[s] > 0
          /\ count' = [count EXCEPT ![s] = @ - 1]
          /\ UNCHANGED <<waitList, readyList>>
       \/ /\ count[s] = 0
          /\ waitList' = [waitList EXCEPT ![s] = @ \cup {t}]
          /\ readyList' = readyList \ {t}
          /\ UNCHANGED count

\* The signal refused with OS_SEMAPHORE_OVERFLOW; the application never looks
\* at the result of OS_SemaphoreSignal.
SignalOverflows(s) ==
    /\ count[s] = MaxCount
    /\ UNCHANGED vars

\* MUTANT of SignalCounts: the test for OS_SEMAPHORE_OVERFLOW is missing.
CountsPastTheWidth(s) ==
    /\ waitList[s] = {}
    /\ count' = [count EXCEPT ![s] = @ + 1]
    /\ UNCHANGED <<waitList, readyList>>

\* Nobody waits: the signal is kept as a count.
SignalCounts(s) ==
    /\ count[s] # MaxCount
    /\ waitList[s] = {}
    /\ count' = [count EXCEPT ![s] = @ + 1]
    /\ UNCHANGED <<waitList, readyList>>

\* MUTANT of SignalHandsOver: the signal that wakes a waiter is counted too.
HandsOverAndCounts(s) ==
    /\ count[s] # MaxCount
    /\ \E t \in waitList[s] :
          /\ Highest(t, waitList[s])
          /\ waitList' = [waitList EXCEPT ![s] = @ \ {t}]
          /\ readyList' = readyList \cup {t}
    /\ count' = [count EXCEPT ![s] = @ + 1]

\* Somebody waits: the most urgent waiter takes the signal, which never
\* reaches the count, and becomes ready.
SignalHandsOver(s) ==
    /\ count[s] # MaxCount
    /\ \E t \in waitList[s] :
          /\ Highest(t, waitList[s])
          /\ waitList' = [waitList EXCEPT ![s] = @ \ {t}]
          /\ readyList' = readyList \cup {t}
    /\ UNCHANGED count

OS_SemaphoreSignal(s) ==
    SignalOverflows(s) \/ SignalCounts(s) \/ SignalHandsOver(s)

\* OS_ThreadDelete(OS_PRIORITY_SELF), the only use the application makes.
OS_ThreadDelete(t) ==
    /\ Running(t)
    /\ readyList' = readyList \ {t}
    /\ UNCHANGED <<count, waitList>>

Next ==
    \/ \E t \in Thread, s \in Semaphore : OS_SemaphoreWait(t, s)
    \/ \E s \in Semaphore : OS_SemaphoreSignal(s)
    \/ \E t \in Thread : OS_ThreadDelete(t)

Spec == Init /\ [][Next]_vars

-----------------------------------------------------------------------------
\* The type invariant: counts stay within 32 bits, the lists hold threads.
TypeOK ==
    /\ count \in [Semaphore -> 0 .. MaxCount]
    /\ waitList \in [Semaphore -> SUBSET Thread]
    /\ readyList \in SUBSET Thread

\* A thread never sleeps on a semaphore that still holds a count: neither the
\* order of the waits and signals nor a wait list of several threads lets
\* OS_SemaphoreWait put a thread to sleep past a signal it could have taken.
NoSignalLost ==
    \A s \in Semaphore : count[s] > 0 => waitList[s] = {}

\* A thread is in at most one list of the kernel: a thread that is ready waits
\* for nothing, and a thread never waits for two semaphores, so one signal
\* never makes it leave a wait it was not in.
OneHome ==
    \A t \in Thread, s \in Semaphore : t \in waitList[s] =>
        /\ t \notin readyList
        /\ \A r \in Semaphore : t \in waitList[r] => r = s

\* The permits of the abstract counting semaphore.
Permits == [s \in Semaphore |-> count[s] - Cardinality(waitList[s])]

Abstract ==
    INSTANCE CountingSemaphore WITH permits <- Permits, sleeping <- waitList

\* The kernel's count, wait list and hand-over to the most urgent waiter
\* together are a counting semaphore: no call of OS_SemaphoreWait or
\* OS_SemaphoreSignal gains or loses a permit.
ImplementsCountingSemaphore == Abstract!Spec
=============================================================================
