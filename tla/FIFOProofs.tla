----------------------------- MODULE FIFOProofs -----------------------------
(***************************************************************************)
(* Proofs about the FIFO, for every FIFO_SIZE and every set of bytes.      *)
(***************************************************************************)
EXTENDS FIFO, TLAPS

\* Every step of a Put or a Get keeps the semaphores in agreement with the
\* bytes held.
LEMMA AccountingStep ==
  ASSUME TypeOK, Accounting, [Next]_vars
  PROVE  TypeOK' /\ Accounting'
<1> USE SizeAssumption, ZeroAssumption
        DEF TypeOK, Accounting, Credits, Items, Blocked, One, Slots
<1>0. Len(queue) \in 0 .. FIFO_SIZE
  <2>1. /\ One(putPc = "store") \in 0 .. 1
        /\ One(getPc = "signal") \in 0 .. 1
    OBVIOUS
  <2>2. Len(queue) \in Nat
    OBVIOUS
  <2> HIDE DEF One
  <2> QED
    BY <2>1, <2>2
<1>1. ASSUME NEW d \in Data, Put_Wait(d)
      PROVE  TypeOK' /\ Accounting'
  <2>1. CASE FreeSpace > 0
    <3>1. Accounting'
      <4>1. Credits'
        BY <1>1, <2>1 DEF Put_Wait, getVars
      <4>2. Items'
        BY <1>1, <2>1 DEF Put_Wait, getVars
      <4>3. Blocked'
        BY <1>1, <2>1 DEF Put_Wait, getVars
      <4> QED
        BY <4>1, <4>2, <4>3
    <3>2. TypeOK'
      BY <1>1, <2>1 DEF Put_Wait, getVars
    <3> QED
      BY <3>1, <3>2
  <2>2. CASE FreeSpace = 0
    <3>1. Accounting'
      BY <1>1, <2>2 DEF Put_Wait, getVars
    <3>2. TypeOK'
      BY <1>1, <2>2 DEF Put_Wait, getVars
    <3> QED
      BY <3>1, <3>2
  <2> QED
    BY <2>1, <2>2
<1>2. CASE Put_Store
  <2>1. /\ queue' \in Seq(Data)
        /\ Len(queue') = Len(queue) + 1
    BY <1>2 DEF Put_Store
  <2>2. Accounting'
    <3>1. Credits'
      BY <1>2, <2>1 DEF Put_Store, getVars
    <3>2. Items'
      BY <1>2, <2>1 DEF Put_Store, getVars
    <3>3. Blocked'
      BY <1>2, <2>1 DEF Put_Store, getVars
    <3> QED
      BY <3>1, <3>2, <3>3
  <2>3. TypeOK'
    <3>1. End' \in 0 .. Slots - 1
      BY <1>2 DEF Put_Store
    <3>2. Buffer' \in [0 .. FIFO_SIZE - 1 -> Data]
      BY <1>2 DEF Put_Store
    <3>3. UNCHANGED <<Start, FreeSpace, ItemsAvailable, data, getPc, dataPtr>>
      BY <1>2 DEF Put_Store, getVars
    <3> QED
      BY <1>2, <2>1, <3>1, <3>2, <3>3 DEF Put_Store
  <2> QED
    BY <2>2, <2>3
<1>3. CASE Put_Signal
  <2>1. CASE getPc = "blocked"
    <3>1. Credits'
      BY <1>3, <2>1 DEF Put_Signal
    <3>2. Items'
      BY <1>3, <2>1 DEF Put_Signal
    <3>3. Blocked'
      BY <1>3, <2>1 DEF Put_Signal
    <3>4. TypeOK'
      BY <1>3, <2>1, <1>0 DEF Put_Signal
    <3> QED
      BY <3>1, <3>2, <3>3, <3>4
  <2>2. CASE getPc # "blocked"
    <3>1. Credits'
      BY <1>3, <2>2 DEF Put_Signal
    <3>2. Items'
      BY <1>3, <2>2 DEF Put_Signal
    <3>3. Blocked'
      BY <1>3, <2>2 DEF Put_Signal
    <3>4. TypeOK'
      BY <1>3, <2>2, <1>0 DEF Put_Signal
    <3> QED
      BY <3>1, <3>2, <3>3, <3>4
  <2> QED
    BY <2>1, <2>2
<1>4. CASE Get_Wait
  <2>1. CASE ItemsAvailable > 0
    <3>1. Credits'
      BY <1>4, <2>1 DEF Get_Wait, putVars
    <3>2. Items'
      BY <1>4, <2>1 DEF Get_Wait, putVars
    <3>3. Blocked'
      BY <1>4, <2>1 DEF Get_Wait, putVars
    <3>4. TypeOK'
      BY <1>4, <2>1, <1>0 DEF Get_Wait, putVars
    <3> QED
      BY <3>1, <3>2, <3>3, <3>4
  <2>2. CASE ItemsAvailable = 0
    <3>1. Credits'
      BY <1>4, <2>2 DEF Get_Wait, putVars
    <3>2. Items'
      BY <1>4, <2>2 DEF Get_Wait, putVars
    <3>3. Blocked'
      BY <1>4, <2>2 DEF Get_Wait, putVars
    <3>4. TypeOK'
      BY <1>4, <2>2, <1>0 DEF Get_Wait, putVars
    <3> QED
      BY <3>1, <3>2, <3>3, <3>4
  <2> QED
    BY <2>1, <2>2
<1>5. CASE Get_Fetch
  <2>1. queue # <<>>
    BY <1>5 DEF Get_Fetch
  <2>2. /\ queue' \in Seq(Data)
        /\ Len(queue') = Len(queue) - 1
    BY <1>5, <2>1 DEF Get_Fetch
  <2>3. Accounting'
    <3>0. /\ One(getPc = "fetch") = 1 /\ One(getPc' = "fetch") = 0
          /\ One(getPc = "signal") = 0 /\ One(getPc' = "signal") = 1
          /\ One(putPc = "store") \in 0 .. 1 /\ One(putPc = "signal") \in 0 .. 1
      BY <1>5 DEF Get_Fetch
    <3>1. Credits'
      <4> HIDE DEF One
      <4> QED
        BY <1>5, <2>2, <3>0 DEF Get_Fetch, putVars
    <3>2. Items'
      <4> HIDE DEF One
      <4> QED
        BY <1>5, <2>2, <3>0 DEF Get_Fetch, putVars
    <3>3. Blocked'
      BY <1>5, <2>2 DEF Get_Fetch, putVars
    <3> QED
      BY <3>1, <3>2, <3>3
  <2>4. TypeOK'
    <3>1. Start' \in 0 .. Slots - 1
      BY <1>5 DEF Get_Fetch
    <3>2. dataPtr' \in Data
      BY <1>5 DEF Get_Fetch
    <3>3. UNCHANGED <<End, Buffer, FreeSpace, ItemsAvailable, putPc, data>>
      BY <1>5 DEF Get_Fetch, putVars
    <3> QED
      BY <1>5, <2>2, <3>1, <3>2, <3>3 DEF Get_Fetch
  <2> QED
    BY <2>3, <2>4
<1>6. CASE Get_Signal
  <2>1. CASE putPc = "blocked"
    <3>1. Credits'
      BY <1>6, <2>1 DEF Get_Signal
    <3>2. Items'
      BY <1>6, <2>1 DEF Get_Signal
    <3>3. Blocked'
      BY <1>6, <2>1 DEF Get_Signal
    <3>4. TypeOK'
      BY <1>6, <2>1, <1>0 DEF Get_Signal
    <3> QED
      BY <3>1, <3>2, <3>3, <3>4
  <2>2. CASE putPc # "blocked"
    <3>1. Credits'
      BY <1>6, <2>2 DEF Get_Signal
    <3>2. Items'
      BY <1>6, <2>2 DEF Get_Signal
    <3>3. Blocked'
      BY <1>6, <2>2 DEF Get_Signal
    <3>4. TypeOK'
      BY <1>6, <2>2, <1>0 DEF Get_Signal
    <3> QED
      BY <3>1, <3>2, <3>3, <3>4
  <2> QED
    BY <2>1, <2>2
<1>7. CASE UNCHANGED vars
  BY <1>7 DEF vars, putVars, getVars
<1> QED
  BY <1>1, <1>2, <1>3, <1>4, <1>5, <1>6, <1>7 DEF Next

\* The indices of both threads stay in the ring and the counts within the size
\* of the FIFO, together with the accounting that keeps them there: FIFO_Put
\* needs a unit of free space for the byte it stores.
THEOREM AccountingHolds == Spec => [](TypeOK /\ Accounting)
<1>1. Init => TypeOK /\ Accounting
  BY SizeAssumption, ZeroAssumption
     DEF Init, TypeOK, Accounting, Credits, Items, Blocked, One, Slots
<1>2. TypeOK /\ Accounting /\ [Next]_vars => (TypeOK /\ Accounting)'
  BY AccountingStep
<1> QED
  BY <1>1, <1>2, PTL DEF Spec

\* The indices never reach the last element of Buffer, nor the counts more
\* than FIFO_SIZE.
THEOREM TypeCorrect == Spec => []TypeOK
BY AccountingHolds, PTL

\* A FIFO never brings its two threads to wait for each other: if the getter
\* sleeps there is no byte, so all the space is free or held by the putter.
THEOREM NeverBothBlocked == Spec => []NotBothBlocked
<1>1. TypeOK /\ Accounting => NotBothBlocked
  BY SizeAssumption
  DEF TypeOK, Accounting, Credits, Items, Blocked, One, NotBothBlocked
<1> QED
  BY <1>1, AccountingHolds, PTL

-----------------------------------------------------------------------------
\* The slot of the i-th oldest byte.
Slot(i) ==
    IF Start + i - 1 < Slots THEN Start + i - 1 ELSE Start + i - 1 - Slots

\* End is Start plus the number of bytes held, round the ring.
Positions ==
    \/ End = Start + Len(queue)
    \/ End = Start + Len(queue) - Slots
    \/ End = Start + Len(queue) - 2 * Slots

\* The buffer holds the queue, except that the FIFO_SIZE-th byte, for which
\* there is free space but no slot, has replaced the oldest one.
Contents ==
    \A i \in 1 .. Len(queue) :
        (i > 1 \/ Len(queue) < FIFO_SIZE) => Buffer[Slot(i)] = queue[i]

\* The indices, which only one of the two threads each may touch, and the
\* buffer agree on which bytes are held and in which order.
Ring == Positions /\ Contents

\* How many bytes are held when a byte is stored or fetched.
LEMMA HeldAtAccess ==
  ASSUME TypeOK, Accounting
  PROVE  /\ Len(queue) \in 0 .. FIFO_SIZE
         /\ Len(queue) + FreeSpace <= FIFO_SIZE
         /\ putPc = "store" => Len(queue) + FreeSpace <= Slots
         /\ getPc = "fetch" => Len(queue) >= 1
<1> USE SizeAssumption DEF TypeOK, Accounting, Credits, Items, One, Slots
<1>1. /\ One(putPc = "store") \in 0 .. 1 /\ One(getPc = "signal") \in 0 .. 1
      /\ One(putPc = "signal") \in 0 .. 1 /\ One(getPc = "fetch") \in 0 .. 1
      /\ putPc = "store" => One(putPc = "store") = 1
      /\ getPc = "fetch" => One(getPc = "fetch") = 1
  OBVIOUS
<1>2. Len(queue) \in Nat
  OBVIOUS
<1> HIDE DEF One
<1> QED
  BY <1>1, <1>2

\* A byte stored at End goes behind the bytes held, a byte fetched from Start
\* leaves the others where they are; only the byte stored when every slot is
\* held replaces another one.
LEMMA RingStep ==
  ASSUME TypeOK, Accounting, Ring, [Next]_vars
  PROVE  Ring'
<1> USE SizeAssumption DEF Slots
<1>1. CASE Put_Store
  <2>1. Len(queue) \in 0 .. Slots
    BY <1>1, HeldAtAccess DEF Put_Store, TypeOK
  <2>2. /\ Start' = Start
        /\ Buffer' = [Buffer EXCEPT ![End] = data]
        /\ queue' = Append(queue, data)
        /\ Len(queue') = Len(queue) + 1
        /\ queue'[Len(queue) + 1] = data
        /\ \A i \in 1 .. Len(queue) : queue'[i] = queue[i]
    BY <1>1 DEF Put_Store, TypeOK
  <2>3. Positions'
    <3>1. End' = End + 1 \/ End' = End + 1 - Slots
      BY <1>1 DEF Put_Store, TypeOK
    <3>2. End' < Slots
      BY <1>1 DEF Put_Store, TypeOK
    <3> QED
      BY <2>1, <2>2, <3>1, <3>2 DEF Positions, Ring, TypeOK
  <2>4. Slot(Len(queue) + 1) = End
    BY <2>1 DEF Slot, Ring, Positions, TypeOK
  <2>5. ASSUME NEW i \in 1 .. Len(queue), i > 1 \/ Len(queue) < Slots
        PROVE  Slot(i) # End
    BY <2>1, <2>5 DEF Slot, Ring, Positions, TypeOK
  <2>6. ASSUME NEW i \in 1 .. Len(queue) + 1,
               i > 1 \/ Len(queue) + 1 < FIFO_SIZE
        PROVE  Buffer'[Slot(i)] = queue'[i]
    <3>1. CASE i = Len(queue) + 1
      BY <2>2, <2>4, <3>1 DEF TypeOK
    <3>2. CASE i # Len(queue) + 1
      <4>1. i \in 1 .. Len(queue) /\ (i > 1 \/ Len(queue) < Slots)
        BY <2>1, <2>6, <3>2
      <4>2. Slot(i) # End
        BY <2>5, <4>1
      <4>3. Buffer[Slot(i)] = queue[i]
        BY <2>1, <4>1 DEF Ring, Contents
      <4>4. Slot(i) \in 0 .. FIFO_SIZE - 1
        BY <2>1, <4>1 DEF Slot, TypeOK
      <4> QED
        BY <2>2, <4>1, <4>2, <4>3, <4>4 DEF TypeOK
    <3> QED
      BY <3>1, <3>2
  <2>7. \A i : Slot(i)' = Slot(i)
    BY <2>2 DEF Slot
  <2>8. Contents'
    BY <2>2, <2>6, <2>7 DEF Contents
  <2> QED
    BY <2>3, <2>8 DEF Ring
<1>2. CASE Get_Fetch
  <2>1. Len(queue) \in 1 .. FIFO_SIZE
    BY <1>2, HeldAtAccess DEF Get_Fetch, TypeOK
  <2>2. /\ End' = End
        /\ Buffer' = Buffer
        /\ Len(queue') = Len(queue) - 1
        /\ \A i \in 1 .. Len(queue) - 1 : queue'[i] = queue[i + 1]
    BY <1>2, <2>1 DEF Get_Fetch, TypeOK
  <2>3. Positions'
    BY <1>2, <2>1, <2>2 DEF Get_Fetch, Positions, Ring, TypeOK
  <2>4. ASSUME NEW i \in 1 .. Len(queue) - 1
        PROVE  Slot(i)' = Slot(i + 1)
    BY <1>2, <2>1 DEF Get_Fetch, Slot, TypeOK
  <2>5. \A i \in 1 .. Len(queue) - 1 : Buffer[Slot(i + 1)] = queue[i + 1]
    BY <2>1 DEF Ring, Contents
  <2>6. Contents'
    BY <2>1, <2>2, <2>4, <2>5 DEF Contents
  <2> QED
    BY <2>3, <2>6 DEF Ring
<1>3. CASE UNCHANGED <<Start, End, Buffer, queue>>
  BY <1>3 DEF Ring, Positions, Contents, Slot
<1> QED
  BY <1>1, <1>2, <1>3
     DEF Next, vars, Put_Wait, Put_Signal, Get_Wait, Get_Signal

\* Before the first call the ring is empty.
LEMMA RingInit == Init => Ring
BY SizeAssumption DEF Init, Ring, Positions, Contents, Slots

\* The ring of every reachable state holds the queue, but for the byte that the
\* FIFO_SIZE-th Put overwrites.
THEOREM RingHolds == Spec => []Ring
<1>1. TypeOK /\ Accounting /\ Ring /\ [Next]_vars => Ring'
  BY RingStep
<1> QED
  BY <1>1, RingInit, AccountingHolds, PTL DEF Spec

\* At every step of the two threads the FIFO is a queue that keeps FIFO_SIZE - 1
\* bytes: a store appends to it, a fetch takes its head, unless all FIFO_SIZE
\* bytes are held, and no other step is visible.
THEOREM FIFOImplementsByteQueue == Spec => ImplementsByteQueue
<1>1. Init => Queue!Init
  BY ZeroAssumption DEF Init, Queue!Init
<1>2. TypeOK /\ Accounting /\ Ring /\ [Next]_vars => [Queue!Next]_(Queue!vars)
  <2> SUFFICES ASSUME TypeOK, Accounting, Ring, [Next]_vars
               PROVE  Queue!Next \/ UNCHANGED <<queue, dataPtr>>
    BY DEF Queue!vars
  <2>1. CASE Put_Store
    <3>1. Len(queue) <= Slots
      BY <2>1, SizeAssumption, HeldAtAccess DEF Put_Store, TypeOK, Slots
    <3>2. Queue!Put(data)
      BY <2>1, <3>1 DEF Put_Store, getVars, Queue!Put
    <3> QED
      BY <3>2 DEF TypeOK, Queue!Next
  <2>2. CASE Get_Fetch
    <3>1. Len(queue) >= 1
      BY <2>2, SizeAssumption, HeldAtAccess DEF Get_Fetch, TypeOK
    <3>2. Slot(1) = Start
      BY SizeAssumption DEF Slot, Slots, TypeOK
    <3>3. Len(queue) <= Slots => Buffer[Slot(1)] = queue[1]
      BY <3>1, SizeAssumption DEF Ring, Contents, TypeOK, Slots
    <3>4. /\ queue # <<>>
          /\ Buffer[Start] \in Data
          /\ Len(queue) <= Slots => Buffer[Start] = Head(queue)
      BY <3>1, <3>2, <3>3, SizeAssumption DEF TypeOK, Slots
    <3>5. Queue!Get
      BY <2>2, <3>4 DEF Get_Fetch, Queue!Get
    <3> QED
      BY <3>5 DEF Queue!Next
  <2>3. CASE UNCHANGED <<queue, dataPtr>>
    BY <2>3
  <2> QED
    BY <2>1, <2>2, <2>3
       DEF Next, vars, getVars, Put_Wait, Put_Signal, Get_Wait, Get_Signal
<1> QED
  BY <1>1, <1>2, AccountingHolds, RingHolds, PTL
     DEF Spec, ImplementsByteQueue, Queue!Spec
=============================================================================
