-------------------------------- MODULE FIFO --------------------------------
(***************************************************************************)
(* FIFO.c: a byte buffer shared by one thread that calls FIFO_Put and one  *)
(* that calls FIFO_Get (the receive thread and the packet handler, or the  *)
(* packet handler and the transmit thread).  Start is used by the getter   *)
(* only and End by the putter only; two semaphores say how much space and  *)
(* how many bytes there are.                                               *)
(*                                                                         *)
(* Each call is three steps, because the other thread may run between      *)
(* them: wait for the first semaphore, access the buffer, signal the       *)
(* second one.  One thread only waits for each semaphore, so a semaphore   *)
(* is its count, and its wait list is the "blocked" program counter of     *)
(* that thread: as in the kernel (module OS), a signal that finds the      *)
(* thread blocked lets it go on and does not reach the count.              *)
(***************************************************************************)
EXTENDS Integers, Sequences

CONSTANTS
    FIFO_SIZE,      \* the length of Buffer, and the initial free space
    Data,           \* the bytes
    Zero            \* what the static Buffer holds before the first Put

ASSUME SizeAssumption == FIFO_SIZE \in Nat /\ FIFO_SIZE >= 2
ASSUME ZeroAssumption == Zero \in Data

VARIABLES
    Start, End,             \* the indices of FIFO_t
    Buffer,                 \* FIFO_t.Buffer
    FreeSpace,              \* the count of the semaphore FreeSpace
    ItemsAvailable,         \* the count of the semaphore ItemsAvailable
    putPc, data,            \* FIFO_Put: its next step and its argument
    getPc, dataPtr,         \* FIFO_Get: its next step and where it stores
    queue                   \* history: the bytes stored and not yet fetched

putVars == <<putPc, data>>
getVars == <<getPc, dataPtr>>
vars == <<Start, End, Buffer, FreeSpace, ItemsAvailable, putVars, getVars, queue>>

\* FIFO_Init, and both threads outside their calls.
Init ==
    /\ Start = 0
    /\ End = 0
    /\ Buffer = [i \in 0 .. FIFO_SIZE - 1 |-> Zero]
    /\ FreeSpace = FIFO_SIZE
    /\ ItemsAvailable = 0
    /\ putPc = "idle"
    /\ getPc = "idle"
    /\ data = Zero
    /\ dataPtr = Zero
    /\ queue = <<>>

\* The number of slots the indices run through: both wrap to 0 at the last
\* element of Buffer, which is never used.
Slots == FIFO_SIZE - 1

-----------------------------------------------------------------------------
\* FIFO_Put(FIFO, d) is called: OS_SemaphoreWait(FreeSpace).
Put_Wait(d) ==
    /\ putPc = "idle"
    /\ data' = d
    /\ \/ /\ FreeSpace > 0
          /\ FreeSpace' = FreeSpace - 1
          /\ putPc' = "store"
       \/ /\ FreeSpace = 0
          /\ putPc' = "blocked"
          /\ UNCHANGED FreeSpace
    /\ UNCHANGED <<Start, End, Buffer, ItemsAvailable, getVars, queue>>

\* MUTANT of Put_Store: End runs through the whole Buffer, Start does not.
StoreWrapsLate ==
    /\ putPc = "store"
    /\ Buffer' = [Buffer EXCEPT ![End] = data]
    /\ End' = IF End + 1 > FIFO_SIZE - 1 THEN 0 ELSE End + 1
    /\ putPc' = "signal"
    /\ queue' = Append(queue, data)
    /\ UNCHANGED <<Start, FreeSpace, ItemsAvailable, data, getVars>>

Put_Store ==
    /\ putPc = "store"
    /\ Buffer' = [Buffer EXCEPT ![End] = data]
    /\ End' = IF End + 1 >= FIFO_SIZE - 1 THEN 0 ELSE End + 1
    /\ putPc' = "signal"
    /\ queue' = Append(queue, data)
    /\ UNCHANGED <<Start, FreeSpace, ItemsAvailable, data, getVars>>

\* MUTANT of Put_Signal: the signal that wakes the getter is counted as well.
PutSignalCountsTwice ==
    /\ putPc = "signal"
    /\ putPc' = "idle"
    /\ getPc' = IF getPc = "blocked" THEN "fetch" ELSE getPc
    /\ ItemsAvailable' = ItemsAvailable + 1
    /\ UNCHANGED <<Start, End, Buffer, FreeSpace, data, dataPtr, queue>>

Put_Signal ==
    /\ putPc = "signal"
    /\ putPc' = "idle"
    /\ \/ /\ getPc = "blocked"
          /\ getPc' = "fetch"
          /\ UNCHANGED ItemsAvailable
       \/ /\ getPc # "blocked"
          /\ ItemsAvailable' = ItemsAvailable + 1
          /\ UNCHANGED getPc
    /\ UNCHANGED <<Start, End, Buffer, FreeSpace, data, dataPtr, queue>>

\* FIFO_Get(FIFO, dataPtr) is called: OS_SemaphoreWait(ItemsAvailable).
Get_Wait ==
    /\ getPc = "idle"
    /\ \/ /\ ItemsAvailable > 0
          /\ ItemsAvailable' = ItemsAvailable - 1
          /\ getPc' = "fetch"
       \/ /\ ItemsAvailable = 0
          /\ getPc' = "blocked"
          /\ UNCHANGED ItemsAvailable
    /\ UNCHANGED <<Start, End, Buffer, FreeSpace, putVars, dataPtr, queue>>

\* MUTANT of Get_Fetch: Start is advanced before the byte is read.
FetchAfterAdvance ==
    /\ getPc = "fetch"
    /\ Start' = IF Start + 1 = FIFO_SIZE - 1 THEN 0 ELSE Start + 1
    /\ dataPtr' = Buffer[Start']
    /\ getPc' = "signal"
    /\ queue' = Tail(queue)
    /\ UNCHANGED <<End, Buffer, FreeSpace, ItemsAvailable, putVars>>

Get_Fetch ==
    /\ getPc = "fetch"
    /\ dataPtr' = Buffer[Start]
    /\ Start' = IF Start + 1 = FIFO_SIZE - 1 THEN 0 ELSE Start + 1
    /\ getPc' = "signal"
    /\ queue' = Tail(queue)
    /\ UNCHANGED <<End, Buffer, FreeSpace, ItemsAvailable, putVars>>

\* MUTANT of Get_Signal: the space of the byte fetched is not given back.
GetKeepsSpace ==
    /\ getPc = "signal"
    /\ getPc' = "idle"
    /\ UNCHANGED <<Start, End, Buffer, FreeSpace, ItemsAvailable, putVars, dataPtr, queue>>

\* MUTANT of Get_Signal: a sleeping putter is left asleep.
GetNeverWakes ==
    /\ getPc = "signal"
    /\ getPc' = "idle"
    /\ FreeSpace' = FreeSpace + 1
    /\ UNCHANGED <<Start, End, Buffer, ItemsAvailable, putVars, dataPtr, queue>>

Get_Signal ==
    /\ getPc = "signal"
    /\ getPc' = "idle"
    /\ \/ /\ putPc = "blocked"
          /\ putPc' = "store"
          /\ UNCHANGED FreeSpace
       \/ /\ putPc # "blocked"
          /\ FreeSpace' = FreeSpace + 1
          /\ UNCHANGED putPc
    /\ UNCHANGED <<Start, End, Buffer, ItemsAvailable, data, dataPtr, queue>>

Next ==
    \/ \E d \in Data : Put_Wait(d)
    \/ Put_Store
    \/ Put_Signal
    \/ Get_Wait
    \/ Get_Fetch
    \/ Get_Signal

Spec == Init /\ [][Next]_vars

\* A call that has been made goes on when the scheduler lets it, and the getter
\* calls again; nobody has to call FIFO_Put.
Fairness ==
    /\ WF_vars(Put_Store)
    /\ WF_vars(Put_Signal)
    /\ WF_vars(Get_Wait)
    /\ WF_vars(Get_Fetch)
    /\ WF_vars(Get_Signal)

FairSpec == Spec /\ Fairness

-----------------------------------------------------------------------------
\* The type invariant: the indices stay off the unused last element of Buffer.
TypeOK ==
    /\ Start \in 0 .. Slots - 1
    /\ End \in 0 .. Slots - 1
    /\ Buffer \in [0 .. FIFO_SIZE - 1 -> Data]
    /\ FreeSpace \in 0 .. FIFO_SIZE
    /\ ItemsAvailable \in 0 .. FIFO_SIZE
    /\ putPc \in {"idle", "blocked", "store", "signal"}
    /\ getPc \in {"idle", "blocked", "fetch", "signal"}
    /\ data \in Data
    /\ dataPtr \in Data
    /\ queue \in Seq(Data)

One(condition) == IF condition THEN 1 ELSE 0

\* Every unit of FIFO_SIZE is in one place: free, held by a call that has taken
\* it and not stored yet, under a stored byte, or about to be given back.
Credits ==
    FreeSpace + One(putPc = "store") + Len(queue) + One(getPc = "signal") = FIFO_SIZE

\* ItemsAvailable runs behind the stored bytes by the byte not yet signalled
\* and by the one the getter has been promised.
Items ==
    ItemsAvailable + One(putPc = "signal") + One(getPc = "fetch") = Len(queue)

\* A thread sleeps on a semaphore only while its count is zero.
Blocked ==
    /\ putPc = "blocked" => FreeSpace = 0
    /\ getPc = "blocked" => ItemsAvailable = 0

\* The two semaphores account for every byte and every slot at every point of
\* two overlapping calls, with or without a sleeping thread.
Accounting == Credits /\ Items /\ Blocked

\* The putter and the getter never wait for each other.
NotBothBlocked == ~ (putPc = "blocked" /\ getPc = "blocked")

\* A FIFO_Put that sleeps because there is no space returns, whatever the
\* order in which the two threads and the kernel hand the semaphores over.
BlockedPutReturns == putPc = "blocked" ~> putPc = "idle"

Queue == INSTANCE ByteQueue WITH Capacity <- Slots, q <- queue, out <- dataPtr

\* The FIFO keeps FIFO_SIZE - 1 bytes in order: while no more are held, FIFO_Get
\* never hands out a byte out of turn, overwritten or stale.  FreeSpace admits one
\* byte more than that; what becomes of the queue then, StartIsOldest is about.
ImplementsByteQueue == Queue!Spec

\* Start is what FIFO.h says it is, "the index of the position of the oldest data
\* in the FIFO".  The code breaks this: the FIFO_SIZE-th byte that FreeSpace admits
\* is stored over the oldest one, and FIFO_Get hands out the newest in its place.
StartIsOldest == queue # <<>> => Buffer[Start] = Head(queue)
=============================================================================
