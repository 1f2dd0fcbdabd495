---------------------------- MODULE SerialProofs ----------------------------
(***************************************************************************)
(* Proofs about the serial port, for every FIFO_SIZE, every set of bytes   *)
(* and every length of a packet: that its two FIFOs, between threads of    *)
(* different priorities and the interrupt routine, make the steps of the   *)
(* FIFO of module FIFO, and so are byte queues; that the data register is  *)
(* never overwritten; and that no signal is lost between the interrupt     *)
(* routine and the threads.                                                *)
(***************************************************************************)
EXTENDS Serial, SequenceTheorems, FiniteSetTheorems, TLAPS

\* The semaphores are different ones, and so are the threads.
LEMMA Different ==
  /\ Free(Rx) \in Semaphores /\ Items(Rx) \in Semaphores
  /\ Free(Tx) \in Semaphores /\ Items(Tx) \in Semaphores
  /\ ByteReceived \in Semaphores /\ TransmitReady \in Semaphores
  /\ Packet_ByteReady \in Semaphores
  /\ Free(Rx) \notin {Items(Rx), Free(Tx), Items(Tx), ByteReceived, TransmitReady, Packet_ByteReady}
  /\ Items(Rx) \notin {Free(Tx), Items(Tx), ByteReceived, TransmitReady, Packet_ByteReady}
  /\ Free(Tx) \notin {Items(Tx), ByteReceived, TransmitReady, Packet_ByteReady}
  /\ Items(Tx) \notin {ByteReceived, TransmitReady, Packet_ByteReady}
  /\ ByteReceived \notin {TransmitReady, Packet_ByteReady}
  /\ TransmitReady # Packet_ByteReady
<1> USE DEF Free, Items, ByteReceived, TransmitReady, Packet_ByteReady, Rx, Tx, Semaphores
<1>1. /\ Free(Rx) \in Semaphores /\ Items(Rx) \in Semaphores
      /\ Free(Tx) \in Semaphores /\ Items(Tx) \in Semaphores
      /\ ByteReceived \in Semaphores /\ TransmitReady \in Semaphores
      /\ Packet_ByteReady \in Semaphores
  OBVIOUS
<1>2. /\ Free(Rx) \notin {Items(Rx), Free(Tx), Items(Tx), ByteReceived, TransmitReady, Packet_ByteReady}
      /\ Items(Rx) \notin {Free(Tx), Items(Tx), ByteReceived, TransmitReady, Packet_ByteReady}
  OBVIOUS
<1>3. /\ Free(Tx) \notin {Items(Tx), ByteReceived, TransmitReady, Packet_ByteReady}
      /\ Items(Tx) \notin {ByteReceived, TransmitReady, Packet_ByteReady}
      /\ ByteReceived \notin {TransmitReady, Packet_ByteReady}
      /\ TransmitReady # Packet_ByteReady
  OBVIOUS
<1> QED
  BY <1>1, <1>2, <1>3

\* The thread that waits for each semaphore, and what it does next.
Waits(t, s, label) ==
    \/ t = Receive /\ s = ByteReceived /\ label = "put"
    \/ t = Receive /\ s = Free(Rx) /\ label = "store"
    \/ t = Transmit /\ s = TransmitReady /\ label = "check"
    \/ t = Transmit /\ s = Items(Tx) /\ label = "fetch"
    \/ t = Handle /\ s = Packet_ByteReady /\ label = "get"
    \/ t = Handle /\ s = Items(Rx) /\ label = "fetch"
    \/ t = Handle /\ s = Free(Tx) /\ label = "store"

Labels == {"wait", "put", "store", "putSignal", "notify", "check",
           "get", "fetch", "getSignal", "enable", "handle", "initialise"}

\* The threads and the kernel: a thread is ready, or waits for one semaphore
\* that has no count and that it alone waits for.  InitModulesThread never waits,
\* and is gone after the initialisation.
Sleeping ==
    /\ pc \in [Threads -> Labels]
    /\ count \in [Semaphores -> 0 .. MaxCount]
    /\ waitList \in [Semaphores -> SUBSET Threads]
    /\ readyList \in SUBSET Threads
    /\ \A s \in Semaphores : count[s] > 0 => waitList[s] = {}
    /\ \A t \in Threads, s \in Semaphores :
        t \in waitList[s] => t \notin readyList /\ Waits(t, s, pc[t])
    /\ \A t \in Threads \ {InitModules} :
        t \in readyList \/ \E s \in Semaphores : t \in waitList[s]

\* A thread that waits for a semaphore.
LEMMA WaitStep ==
  ASSUME Sleeping, NEW t \in Threads, NEW s \in Semaphores, NEW label \in Labels,
         Wait(t, s), Goto(t, label), Waits(t, s, label)
  PROVE  /\ Sleeping'
         /\ isr = "idle" /\ t \in readyList
         /\ \A r \in Semaphores : t \notin waitList[r]
         /\ \A u \in Threads : pc'[u] = IF u = t THEN label ELSE pc[u]
         /\ \A r \in Semaphores : r # s => count'[r] = count[r] /\ waitList'[r] = waitList[r]
         /\ \A r \in Semaphores, u \in Threads :
              u # t => (u \in waitList'[r] <=> u \in waitList[r])
         /\ \/ /\ count[s] > 0 /\ count'[s] = count[s] - 1 /\ waitList'[s] = waitList[s]
            \/ /\ count[s] = 0 /\ count'[s] = 0 /\ t \in waitList'[s]
<1> USE SerialAssumption DEF Sleeping
<1>1. /\ t \in readyList /\ isr = "idle"
      /\ \A r \in Semaphores : t \notin waitList[r]
  BY DEF Wait, Kernel!OS_SemaphoreWait, Kernel!Running, Kernel!Highest
<1>2. pc' = [pc EXCEPT ![t] = label]
  BY DEF Goto
<1>3. CASE /\ count[s] > 0
           /\ count' = [count EXCEPT ![s] = @ - 1]
           /\ UNCHANGED <<waitList, readyList>>
  BY <1>1, <1>2, <1>3
<1>4. CASE /\ count[s] = 0
           /\ waitList' = [waitList EXCEPT ![s] = @ \cup {t}]
           /\ readyList' = readyList \ {t}
           /\ UNCHANGED count
  BY <1>1, <1>2, <1>4
<1> QED
  BY <1>3, <1>4 DEF Wait, Kernel!OS_SemaphoreWait

\* A signal, from an interrupt routine or from the running thread, which may go
\* on to its next step.
LEMMA SignalStep ==
  ASSUME Sleeping, NEW s \in Semaphores, Signal(s),
         pc' \in [Threads -> Labels],
         \A u \in Threads \ readyList : pc'[u] = pc[u]
  PROVE  /\ Sleeping'
         /\ \A r \in Semaphores : r # s => count'[r] = count[r] /\ waitList'[r] = waitList[r]
         /\ \/ /\ count[s] = MaxCount /\ count' = count /\ waitList' = waitList
            \/ /\ waitList[s] = {} /\ count'[s] = count[s] + 1 /\ waitList' = waitList
            \/ /\ count[s] = 0 /\ count' = count /\ waitList'[s] = {}
               /\ \E u \in Threads : waitList[s] = {u} /\ Waits(u, s, pc[u])
<1> USE SerialAssumption DEF Sleeping
<1>1. CASE Kernel!SignalOverflows(s)
  BY <1>1 DEF Kernel!SignalOverflows, Kernel!vars
<1>2. CASE Kernel!SignalCounts(s)
  BY <1>2 DEF Kernel!SignalCounts
<1>3. CASE Kernel!SignalHandsOver(s)
  <2>1. PICK u \in waitList[s] :
          /\ waitList' = [waitList EXCEPT ![s] = @ \ {u}]
          /\ readyList' = readyList \cup {u}
          /\ count' = count
    BY <1>3 DEF Kernel!SignalHandsOver
  <2>2. u \in Threads /\ Waits(u, s, pc[u]) /\ u \notin readyList
    BY <2>1
  <2>3. waitList[s] = {u}
    <3> SUFFICES ASSUME NEW v \in waitList[s] PROVE v = u
      BY <2>1
    <3>1. v \in Threads /\ Waits(v, s, pc[v])
      OBVIOUS
    <3> QED
      BY <2>2, <3>1, Different DEF Waits
  <2>4. \A r \in Semaphores : u \in waitList[r] => r = s
    BY <2>2, Different DEF Waits, Receive, Transmit, Handle
  <2>5. \A r \in Semaphores : waitList'[r] = IF r = s THEN {} ELSE waitList[r]
    BY <2>1, <2>3
  <2>6. count[s] = 0
    BY <2>1
  <2>7. \A r \in Semaphores : u \notin waitList'[r]
    BY <2>4, <2>5
  <2>8. pc'[u] = pc[u]
    BY <2>2
  <2>9. Sleeping'
    <3>1. /\ waitList' \in [Semaphores -> SUBSET Threads]
          /\ readyList' \in SUBSET Threads
          /\ \A r \in Semaphores : count'[r] > 0 => waitList'[r] = {}
      BY <2>1, <2>2, <2>5
    <3>2. \A t \in Threads, r \in Semaphores :
            t \in waitList'[r] => t \notin readyList' /\ Waits(t, r, pc'[t])
      BY <2>1, <2>5, <2>7
    <3>3. \A t \in Threads \ {InitModules} :
            t \in readyList' \/ \E r \in Semaphores : t \in waitList'[r]
      BY <2>1, <2>3, <2>5
    <3> QED
      BY <2>1, <3>1, <3>2, <3>3
  <2> QED
    BY <2>1, <2>2, <2>3, <2>5, <2>6, <2>9
<1> QED
  BY <1>1, <1>2, <1>3 DEF Signal, Kernel!OS_SemaphoreSignal

\* A step of the running thread that calls nothing of the kernel.
LEMMA LocalStep ==
  ASSUME Sleeping, UNCHANGED kernel,
         pc' \in [Threads -> Labels],
         \A u \in Threads \ readyList : pc'[u] = pc[u]
  PROVE  Sleeping'
BY DEF Sleeping, kernel

\* The thread that runs is ready, sleeps nowhere, and alone goes on.
LEMMA RunningStep ==
  ASSUME Sleeping, NEW t \in Threads, NEW label \in Labels,
         NEW at, At(t, at), Goto(t, label)
  PROVE  /\ isr = "idle" /\ pc[t] = at
         /\ \A s \in Semaphores : t \notin waitList[s]
         /\ pc' \in [Threads -> Labels]
         /\ \A u \in Threads : pc'[u] = IF u = t THEN label ELSE pc[u]
         /\ \A u \in Threads \ readyList : pc'[u] = pc[u]
BY DEF Sleeping, At, Running, Kernel!Running, Kernel!Highest, Goto

\* A FIFO: its indices are bounded by the invariants of module FIFO.
Record ==
    [Start : Int, End : Int, Buffer : [0 .. FIFO_SIZE - 1 -> Data],
     data : Data, dataPtr : Data, queue : Seq(Data)]

\* A FIFO is replaced by another one.
LEMMA ReplaceFIFO ==
  ASSUME fifo \in [{Rx, Tx} -> Record], NEW f \in {Rx, Tx}, NEW r \in Record,
         fifo' = [fifo EXCEPT ![f] = r]
  PROVE  /\ fifo' \in [{Rx, Tx} -> Record]
         /\ fifo'[f] = r
         /\ \A g \in {Rx, Tx} : g # f => fifo'[g] = fifo[g]
OBVIOUS

\* A record of which one field is replaced.
LEMMA ReplaceField ==
  ASSUME NEW x \in Record
  PROVE  /\ \A b \in [0 .. FIFO_SIZE - 1 -> Data] : [x EXCEPT !.Buffer = b] \in Record
         /\ \A e \in Int : [x EXCEPT !.End = e] \in Record
         /\ \A e \in Int : [x EXCEPT !.Start = e] \in Record
         /\ \A d \in Data : [x EXCEPT !.dataPtr = d] \in Record
         /\ \A q \in Seq(Data) : [x EXCEPT !.queue = q] \in Record
<1> DEFINE B == [0 .. FIFO_SIZE - 1 -> Data]
           Q == Seq(Data)
<1>1. Record = [Start : Int, End : Int, Buffer : B, data : Data, dataPtr : Data, queue : Q]
  BY DEF Record
<1> HIDE DEF B, Q
<1>2. /\ \A b \in B : [x EXCEPT !.Buffer = b] \in Record
      /\ \A e \in Int : [x EXCEPT !.End = e] \in Record
  BY <1>1
<1>3. /\ \A e \in Int : [x EXCEPT !.Start = e] \in Record
      /\ \A d \in Data : [x EXCEPT !.dataPtr = d] \in Record
  BY <1>1
<1>4. \A q \in Q : [x EXCEPT !.queue = q] \in Record
  BY <1>1
<1> QED
  BY <1>2, <1>3, <1>4 DEF B, Q

\* What the three accesses do to a FIFO.
LEMMA StoreEffect ==
  ASSUME fifo \in [{Rx, Tx} -> Record], NEW f \in {Rx, Tx},
         fifo[f].End \in 0 .. FIFO_SIZE - 2, Store(f)
  PROVE  /\ fifo' \in [{Rx, Tx} -> Record]
         /\ \A g \in {Rx, Tx} : g # f => fifo'[g] = fifo[g]
         /\ fifo'[f].Start = fifo[f].Start
         /\ fifo'[f].End = IF fifo[f].End + 1 >= FIFO_SIZE - 1 THEN 0 ELSE fifo[f].End + 1
         /\ fifo'[f].Buffer = [fifo[f].Buffer EXCEPT ![fifo[f].End] = fifo[f].data]
         /\ fifo'[f].data = fifo[f].data /\ fifo'[f].dataPtr = fifo[f].dataPtr
         /\ fifo'[f].queue = Append(fifo[f].queue, fifo[f].data)
<1> DEFINE e == IF fifo[f].End + 1 >= FIFO_SIZE - 1 THEN 0 ELSE fifo[f].End + 1
           b == [fifo[f].Buffer EXCEPT ![fifo[f].End] = fifo[f].data]
           q == Append(fifo[f].queue, fifo[f].data)
           x == fifo[f]
           r == [[[x EXCEPT !.Buffer = b] EXCEPT !.End = e] EXCEPT !.queue = q]
<1>1. x \in Record
  OBVIOUS
<1>2. e \in Int /\ b \in [0 .. FIFO_SIZE - 1 -> Data]
  BY <1>1, SerialAssumption DEF Record
<1>3. q \in Seq(Data)
  <2>1. x.queue \in Seq(Data) /\ x.data \in Data
    BY <1>1 DEF Record
  <2> QED
    BY <2>1, AppendProperties
<1>4. fifo' = [fifo EXCEPT ![f].Buffer = b, ![f].End = e, ![f].queue = q]
  BY DEF Store
<1> HIDE DEF e, b, q
<1>5. fifo' = [fifo EXCEPT ![f] = r]
  BY <1>4
<1>6. r \in Record
  BY <1>1, <1>2, <1>3, ReplaceField
<1>7. /\ r.Start = x.Start /\ r.data = x.data /\ r.dataPtr = x.dataPtr
      /\ r.Buffer = b /\ r.End = e /\ r.queue = q
  BY <1>1 DEF Record
<1> HIDE DEF r
<1> QED
  BY <1>5, <1>6, <1>7, ReplaceFIFO DEF e, b, q

\* Fetch: Start goes on round the ring and the oldest byte leaves the queue.
LEMMA FetchEffect ==
  ASSUME fifo \in [{Rx, Tx} -> Record], NEW f \in {Rx, Tx},
         fifo[f].Start \in 0 .. FIFO_SIZE - 2, fifo[f].queue # <<>>, Fetch(f)
  PROVE  /\ fifo' \in [{Rx, Tx} -> Record]
         /\ \A g \in {Rx, Tx} : g # f => fifo'[g] = fifo[g]
         /\ fifo'[f].End = fifo[f].End
         /\ fifo'[f].Start = IF fifo[f].Start + 1 = FIFO_SIZE - 1 THEN 0 ELSE fifo[f].Start + 1
         /\ fifo'[f].Buffer = fifo[f].Buffer
         /\ fifo'[f].dataPtr = fifo[f].Buffer[fifo[f].Start]
         /\ fifo'[f].data = fifo[f].data
         /\ fifo'[f].queue = Tail(fifo[f].queue)
<1> DEFINE b == IF fifo[f].Start + 1 = FIFO_SIZE - 1 THEN 0 ELSE fifo[f].Start + 1
           d == fifo[f].Buffer[fifo[f].Start]
           q == Tail(fifo[f].queue)
           x == fifo[f]
           r == [[[x EXCEPT !.dataPtr = d] EXCEPT !.Start = b] EXCEPT !.queue = q]
<1>1. x \in Record
  OBVIOUS
<1>2. b \in Int /\ d \in Data
  BY <1>1, SerialAssumption DEF Record
<1>3. q \in Seq(Data)
  <2>1. x.queue \in Seq(Data)
    BY <1>1 DEF Record
  <2> QED
    BY <2>1, HeadTailProperties
<1>4. fifo' = [fifo EXCEPT ![f].dataPtr = d, ![f].Start = b, ![f].queue = q]
  BY DEF Fetch
<1> HIDE DEF b, d, q
<1>5. fifo' = [fifo EXCEPT ![f] = r]
  BY <1>4
<1>6. r \in Record
  BY <1>1, <1>2, <1>3, ReplaceField
<1>7. /\ r.End = x.End /\ r.data = x.data /\ r.Buffer = x.Buffer
      /\ r.dataPtr = d /\ r.Start = b /\ r.queue = q
  BY <1>1 DEF Record
<1> HIDE DEF r
<1> QED
  BY <1>5, <1>6, <1>7, ReplaceFIFO DEF b, d, q

\* The argument of FIFO_Put is stored and nothing else.
LEMMA ArgumentEffect ==
  ASSUME fifo \in [{Rx, Tx} -> Record], NEW f \in {Rx, Tx}, NEW d \in Data,
         PutArgument(f, d)
  PROVE  /\ fifo' \in [{Rx, Tx} -> Record]
         /\ \A g \in {Rx, Tx} : g # f => fifo'[g] = fifo[g]
         /\ fifo'[f].Start = fifo[f].Start /\ fifo'[f].End = fifo[f].End
         /\ fifo'[f].Buffer = fifo[f].Buffer /\ fifo'[f].data = d
         /\ fifo'[f].dataPtr = fifo[f].dataPtr /\ fifo'[f].queue = fifo[f].queue
<1> DEFINE r == [fifo[f] EXCEPT !.data = d]
<1>1. r \in Record
  BY DEF Record
<1>2. fifo' = [fifo EXCEPT ![f] = r]
  BY DEF PutArgument
<1>3. fifo'[f] = r
  BY <1>1, <1>2, ReplaceFIFO
<1> QED
  BY <1>1, <1>2, <1>3, ReplaceFIFO DEF Record

-----------------------------------------------------------------------------
\* FIFO f between the thread p that fills it and the thread g that empties it.
Side(f, p, g) ==
    INSTANCE FIFO WITH
        Start <- fifo[f].Start, End <- fifo[f].End, Buffer <- fifo[f].Buffer,
        FreeSpace <- count[Free(f)], ItemsAvailable <- count[Items(f)],
        putPc <- PutPc(f, p), data <- fifo[f].data,
        getPc <- GetPc(f, g), dataPtr <- fifo[f].dataPtr,
        queue <- fifo[f].queue

Between(f, p, g) ==
    \/ f = Rx /\ p = Receive /\ g = Handle
    \/ f = Tx /\ p = Handle /\ g = Transmit

\* A FIFO that the step leaves alone.
LEMMA SideStutters ==
  ASSUME NEW f, NEW p, NEW g,
         fifo'[f] = fifo[f],
         \A s \in {Free(f), Items(f)} : count'[s] = count[s] /\ waitList'[s] = waitList[s],
         pc'[p] = pc[p] \/ {pc[p], pc'[p]} \cap {"store", "putSignal"} = {},
         pc'[g] = pc[g] \/ {pc[g], pc'[g]} \cap {"fetch", "getSignal"} = {}
  PROVE  UNCHANGED Side(f, p, g)!vars
<1>1. PutPc(f, p)' = PutPc(f, p)
  BY DEF PutPc
<1>2. GetPc(f, g)' = GetPc(f, g)
  BY DEF GetPc
<1> QED
  BY <1>1, <1>2 DEF Side!vars, Side!putVars, Side!getVars

\* The putter waits for space.
LEMMA SidePut_Wait ==
  ASSUME NEW f, NEW p, NEW g, Between(f, p, g), Sleeping,
         fifo \in [{Rx, Tx} -> Record], NEW d \in Data,
         pc[p] \in {"wait", "put"}, PutArgument(f, d), Wait(p, Free(f)), Goto(p, "store")
  PROVE  Side(f, p, g)!Put_Wait(d)
<1>1. /\ f \in {Rx, Tx} /\ p \in Threads /\ g \in Threads /\ p # g
      /\ Free(f) \in Semaphores /\ Items(f) \in Semaphores /\ Free(f) # Items(f)
      /\ "store" \in Labels /\ Waits(p, Free(f), "store")
  BY Different DEF Between, Threads, Receive, Transmit, Handle, Labels, Waits
<1>2. /\ \A u \in Threads : pc'[u] = IF u = p THEN "store" ELSE pc[u]
      /\ \A r \in Semaphores : r # Free(f) => count'[r] = count[r] /\ waitList'[r] = waitList[r]
      /\ p \notin waitList[Free(f)]
      /\ \/ /\ count[Free(f)] > 0 /\ count'[Free(f)] = count[Free(f)] - 1
            /\ waitList'[Free(f)] = waitList[Free(f)]
         \/ /\ count[Free(f)] = 0 /\ count'[Free(f)] = 0 /\ p \in waitList'[Free(f)]
  BY <1>1, WaitStep
<1>3. /\ fifo'[f].Start = fifo[f].Start /\ fifo'[f].End = fifo[f].End
      /\ fifo'[f].Buffer = fifo[f].Buffer /\ fifo'[f].data = d
      /\ fifo'[f].dataPtr = fifo[f].dataPtr /\ fifo'[f].queue = fifo[f].queue
  BY <1>1, ArgumentEffect
<1>4. PutPc(f, p) = "idle"
  BY DEF PutPc
<1>5. PutPc(f, p)' = IF p \in waitList'[Free(f)] THEN "blocked" ELSE "store"
  BY <1>1, <1>2 DEF PutPc
<1>6. GetPc(f, g)' = GetPc(f, g)
  BY <1>1, <1>2 DEF GetPc
<1>7. count'[Items(f)] = count[Items(f)]
  BY <1>1, <1>2
<1> QED
  BY <1>2, <1>3, <1>4, <1>5, <1>6, <1>7 DEF Side!Put_Wait, Side!getVars

\* The putter stores its byte.
LEMMA SidePut_Store ==
  ASSUME NEW f, NEW p, NEW g, Between(f, p, g), Sleeping,
         fifo \in [{Rx, Tx} -> Record], Side(f, p, g)!TypeOK,
         At(p, "store"), Store(f), UNCHANGED kernel, Goto(p, "putSignal")
  PROVE  Side(f, p, g)!Put_Store
<1>1. /\ f \in {Rx, Tx} /\ p \in Threads /\ g \in Threads /\ p # g
      /\ Free(f) \in Semaphores /\ "putSignal" \in Labels
  BY Different DEF Between, Threads, Receive, Transmit, Handle, Labels
<1>2. /\ pc[p] = "store"
      /\ \A s \in Semaphores : p \notin waitList[s]
      /\ \A u \in Threads : pc'[u] = IF u = p THEN "putSignal" ELSE pc[u]
  BY <1>1, RunningStep
<1>3. fifo[f].End \in 0 .. FIFO_SIZE - 2
  BY SerialAssumption DEF Side!TypeOK, Side!Slots
<1>4. /\ fifo'[f].Start = fifo[f].Start
      /\ fifo'[f].End = IF fifo[f].End + 1 >= FIFO_SIZE - 1 THEN 0 ELSE fifo[f].End + 1
      /\ fifo'[f].Buffer = [fifo[f].Buffer EXCEPT ![fifo[f].End] = fifo[f].data]
      /\ fifo'[f].data = fifo[f].data /\ fifo'[f].dataPtr = fifo[f].dataPtr
      /\ fifo'[f].queue = Append(fifo[f].queue, fifo[f].data)
  BY <1>1, <1>3, StoreEffect
<1>5. PutPc(f, p) = "store" /\ PutPc(f, p)' = "signal"
  BY <1>1, <1>2 DEF PutPc
<1>6. GetPc(f, g)' = GetPc(f, g)
  BY <1>1, <1>2 DEF GetPc, kernel
<1>7. count' = count
  BY DEF kernel
<1> QED
  BY <1>4, <1>5, <1>6, <1>7 DEF Side!Put_Store, Side!getVars

\* The accounting leaves room in the counts of both semaphores.
LEMMA SideRoom ==
  ASSUME NEW f, NEW p, NEW g, Side(f, p, g)!TypeOK, Side(f, p, g)!Accounting
  PROVE  /\ PutPc(f, p) = "signal" => count[Items(f)] < MaxCount
         /\ GetPc(f, g) = "signal" => count[Free(f)] < MaxCount
<1>1. Len(fifo[f].queue) \in Nat
  <2>1. fifo[f].queue \in Seq(Data)
    BY DEF Side!TypeOK
  <2> QED
    BY <2>1, LenProperties
<1>2. count[Items(f)] \in Nat /\ count[Free(f)] \in Nat
  BY SerialAssumption DEF Side!TypeOK
<1> QED
  BY <1>1, <1>2, SerialAssumption DEF Side!Accounting, Side!Credits, Side!Items, Side!One

\* The putter signals the byte.
LEMMA SidePut_Signal ==
  ASSUME NEW f, NEW p, NEW g, Between(f, p, g), Sleeping,
         Side(f, p, g)!TypeOK, Side(f, p, g)!Accounting,
         NEW label \in Labels \ {"store", "putSignal"},
         At(p, "putSignal"), Signal(Items(f)), UNCHANGED fifo, Goto(p, label)
  PROVE  Side(f, p, g)!Put_Signal
<1>1. /\ f \in {Rx, Tx} /\ p \in Threads /\ g \in Threads /\ p # g
      /\ Free(f) \in Semaphores /\ Items(f) \in Semaphores /\ Free(f) # Items(f)
      /\ \A u \in Threads : Waits(u, Items(f), pc[u]) => u = g /\ pc[u] = "fetch"
      /\ \A u \in Threads : Waits(u, Free(f), pc[u]) => u = p /\ pc[u] = "store"
  BY Different DEF Between, Threads, Receive, Transmit, Handle, Waits
<1>2. /\ pc[p] = "putSignal"
      /\ \A s \in Semaphores : p \notin waitList[s]
      /\ pc' \in [Threads -> Labels]
      /\ \A u \in Threads : pc'[u] = IF u = p THEN label ELSE pc[u]
      /\ \A u \in Threads \ readyList : pc'[u] = pc[u]
  BY <1>1, RunningStep
<1>3. PutPc(f, p) = "signal" /\ PutPc(f, p)' = "idle"
  BY <1>1, <1>2 DEF PutPc
<1>4. /\ \A r \in Semaphores : r # Items(f) => count'[r] = count[r] /\ waitList'[r] = waitList[r]
      /\ \/ count[Items(f)] = MaxCount
         \/ /\ waitList[Items(f)] = {} /\ count'[Items(f)] = count[Items(f)] + 1
            /\ waitList' = waitList
         \/ /\ count' = count /\ waitList'[Items(f)] = {}
            /\ \E u \in Threads : waitList[Items(f)] = {u} /\ Waits(u, Items(f), pc[u])
  BY <1>1, <1>2, SignalStep
<1>5. count[Items(f)] # MaxCount
  BY <1>3, SideRoom DEF Side!TypeOK
<1>6. pc'[g] = pc[g]
  BY <1>1, <1>2
<1>7. count'[Free(f)] = count[Free(f)]
  BY <1>1, <1>4
<1>8. CASE waitList[Items(f)] = {} /\ count'[Items(f)] = count[Items(f)] + 1 /\ waitList' = waitList
  <2>1. GetPc(f, g) # "blocked" /\ GetPc(f, g)' = GetPc(f, g)
    BY <1>6, <1>8 DEF GetPc
  <2> QED
    BY <2>1, <1>3, <1>7, <1>8 DEF Side!Put_Signal
<1>9. CASE /\ count' = count /\ waitList'[Items(f)] = {}
           /\ \E u \in Threads : waitList[Items(f)] = {u} /\ Waits(u, Items(f), pc[u])
  <2>1. GetPc(f, g) = "blocked" /\ GetPc(f, g)' = "fetch"
    BY <1>1, <1>6, <1>9 DEF GetPc
  <2> QED
    BY <2>1, <1>3, <1>7, <1>9 DEF Side!Put_Signal
<1> QED
  BY <1>4, <1>5, <1>8, <1>9

\* The getter waits for a byte.
LEMMA SideGet_Wait ==
  ASSUME NEW f, NEW p, NEW g, Between(f, p, g), Sleeping,
         pc[g] = "get", UNCHANGED fifo, Wait(g, Items(f)), Goto(g, "fetch")
  PROVE  Side(f, p, g)!Get_Wait
<1>1. /\ f \in {Rx, Tx} /\ p \in Threads /\ g \in Threads /\ p # g
      /\ Free(f) \in Semaphores /\ Items(f) \in Semaphores /\ Free(f) # Items(f)
      /\ "fetch" \in Labels /\ Waits(g, Items(f), "fetch")
  BY Different DEF Between, Threads, Receive, Transmit, Handle, Labels, Waits
<1>2. /\ \A u \in Threads : pc'[u] = IF u = g THEN "fetch" ELSE pc[u]
      /\ \A r \in Semaphores : r # Items(f) => count'[r] = count[r] /\ waitList'[r] = waitList[r]
      /\ g \notin waitList[Items(f)]
      /\ \/ /\ count[Items(f)] > 0 /\ count'[Items(f)] = count[Items(f)] - 1
            /\ waitList'[Items(f)] = waitList[Items(f)]
         \/ /\ count[Items(f)] = 0 /\ count'[Items(f)] = 0 /\ g \in waitList'[Items(f)]
  BY <1>1, WaitStep
<1>3. GetPc(f, g) = "idle"
  BY DEF GetPc
<1>4. GetPc(f, g)' = IF g \in waitList'[Items(f)] THEN "blocked" ELSE "fetch"
  BY <1>1, <1>2 DEF GetPc
<1>5. PutPc(f, p)' = PutPc(f, p)
  BY <1>1, <1>2 DEF PutPc
<1>6. count'[Free(f)] = count[Free(f)]
  BY <1>1, <1>2
<1> QED
  BY <1>2, <1>3, <1>4, <1>5, <1>6 DEF Side!Get_Wait, Side!putVars

\* The getter fetches the byte.
LEMMA SideGet_Fetch ==
  ASSUME NEW f, NEW p, NEW g, Between(f, p, g), Sleeping,
         fifo \in [{Rx, Tx} -> Record], Side(f, p, g)!TypeOK, Side(f, p, g)!Accounting,
         At(g, "fetch"), Fetch(f), UNCHANGED kernel, Goto(g, "getSignal")
  PROVE  /\ Side(f, p, g)!Get_Fetch
         /\ fifo' \in [{Rx, Tx} -> Record]
<1>1. /\ f \in {Rx, Tx} /\ p \in Threads /\ g \in Threads /\ p # g
      /\ Items(f) \in Semaphores /\ "getSignal" \in Labels
  BY Different DEF Between, Threads, Receive, Transmit, Handle, Labels
<1>2. /\ pc[g] = "fetch"
      /\ \A s \in Semaphores : g \notin waitList[s]
      /\ \A u \in Threads : pc'[u] = IF u = g THEN "getSignal" ELSE pc[u]
  BY <1>1, RunningStep
<1>3. GetPc(f, g) = "fetch" /\ GetPc(f, g)' = "signal"
  BY <1>1, <1>2 DEF GetPc
<1>4. fifo[f].queue # <<>>
  <2>1. count[Items(f)] \in Nat
    BY SerialAssumption DEF Side!TypeOK
  <2>2. Len(fifo[f].queue) # 0
    BY <1>3, <2>1 DEF Side!Accounting, Side!Items, Side!One
  <2> QED
    BY <2>2, EmptySeq
<1>5. fifo[f].Start \in 0 .. FIFO_SIZE - 2
  BY SerialAssumption DEF Side!TypeOK, Side!Slots
<1>6. /\ fifo' \in [{Rx, Tx} -> Record]
      /\ fifo'[f].End = fifo[f].End
      /\ fifo'[f].Start = IF fifo[f].Start + 1 = FIFO_SIZE - 1 THEN 0 ELSE fifo[f].Start + 1
      /\ fifo'[f].Buffer = fifo[f].Buffer
      /\ fifo'[f].dataPtr = fifo[f].Buffer[fifo[f].Start]
      /\ fifo'[f].data = fifo[f].data
      /\ fifo'[f].queue = Tail(fifo[f].queue)
  BY <1>1, <1>4, <1>5, FetchEffect
<1>7. PutPc(f, p)' = PutPc(f, p)
  BY <1>1, <1>2 DEF PutPc, kernel
<1>8. count' = count
  BY DEF kernel
<1> QED
  BY <1>3, <1>6, <1>7, <1>8 DEF Side!Get_Fetch, Side!putVars

\* The getter gives the space back.
LEMMA SideGet_Signal ==
  ASSUME NEW f, NEW p, NEW g, Between(f, p, g), Sleeping,
         Side(f, p, g)!TypeOK, Side(f, p, g)!Accounting,
         NEW label \in Labels \ {"fetch", "getSignal"},
         At(g, "getSignal"), Signal(Free(f)), UNCHANGED fifo, Goto(g, label)
  PROVE  Side(f, p, g)!Get_Signal
<1>1. /\ f \in {Rx, Tx} /\ p \in Threads /\ g \in Threads /\ p # g
      /\ Free(f) \in Semaphores /\ Items(f) \in Semaphores /\ Free(f) # Items(f)
      /\ \A u \in Threads : Waits(u, Free(f), pc[u]) => u = p /\ pc[u] = "store"
  BY Different DEF Between, Threads, Receive, Transmit, Handle, Waits
<1>2. /\ pc[g] = "getSignal"
      /\ \A s \in Semaphores : g \notin waitList[s]
      /\ pc' \in [Threads -> Labels]
      /\ \A u \in Threads : pc'[u] = IF u = g THEN label ELSE pc[u]
      /\ \A u \in Threads \ readyList : pc'[u] = pc[u]
  BY <1>1, RunningStep
<1>3. GetPc(f, g) = "signal" /\ GetPc(f, g)' = "idle"
  BY <1>1, <1>2 DEF GetPc
<1>4. /\ \A r \in Semaphores : r # Free(f) => count'[r] = count[r] /\ waitList'[r] = waitList[r]
      /\ \/ count[Free(f)] = MaxCount
         \/ /\ waitList[Free(f)] = {} /\ count'[Free(f)] = count[Free(f)] + 1
            /\ waitList' = waitList
         \/ /\ count' = count /\ waitList'[Free(f)] = {}
            /\ \E u \in Threads : waitList[Free(f)] = {u} /\ Waits(u, Free(f), pc[u])
  BY <1>1, <1>2, SignalStep
<1>5. count[Free(f)] # MaxCount
  BY <1>3, SideRoom DEF Side!TypeOK
<1>6. pc'[p] = pc[p]
  BY <1>1, <1>2
<1>7. count'[Items(f)] = count[Items(f)]
  BY <1>1, <1>4
<1>8. CASE waitList[Free(f)] = {} /\ count'[Free(f)] = count[Free(f)] + 1 /\ waitList' = waitList
  <2>1. PutPc(f, p) # "blocked" /\ PutPc(f, p)' = PutPc(f, p)
    BY <1>6, <1>8 DEF PutPc
  <2> QED
    BY <2>1, <1>3, <1>7, <1>8 DEF Side!Get_Signal
<1>9. CASE /\ count' = count /\ waitList'[Free(f)] = {}
           /\ \E u \in Threads : waitList[Free(f)] = {u} /\ Waits(u, Free(f), pc[u])
  <2>1. PutPc(f, p) = "blocked" /\ PutPc(f, p)' = "store"
    BY <1>1, <1>6, <1>9 DEF PutPc
  <2> QED
    BY <2>1, <1>3, <1>7, <1>9 DEF Side!Get_Signal
<1> QED
  BY <1>4, <1>5, <1>8, <1>9

-----------------------------------------------------------------------------
\* Both FIFOs between their threads, with what module FIFO proves of them.
Pipes ==
    /\ fifo \in [{Rx, Tx} -> Record]
    /\ Side(Rx, Receive, Handle)!TypeOK /\ Side(Rx, Receive, Handle)!Accounting
    /\ Side(Tx, Handle, Transmit)!TypeOK /\ Side(Tx, Handle, Transmit)!Accounting

RxMoves == Side(Rx, Receive, Handle)!Next \/ UNCHANGED Side(Rx, Receive, Handle)!vars
TxMoves == Side(Tx, Handle, Transmit)!Next \/ UNCHANGED Side(Tx, Handle, Transmit)!vars
Moves == Sleeping' /\ fifo' \in [{Rx, Tx} -> Record] /\ RxMoves /\ TxMoves

\* A step that leaves every semaphore of the FIFOs alone, and every thread
\* inside or outside its call.
LEMMA BothStutter ==
  ASSUME Sleeping', fifo \in [{Rx, Tx} -> Record], UNCHANGED fifo,
         \A s \in {Free(Rx), Items(Rx), Free(Tx), Items(Tx)} :
            count'[s] = count[s] /\ waitList'[s] = waitList[s],
         \A u \in Threads :
            \/ pc'[u] = pc[u]
            \/ {pc[u], pc'[u]} \cap {"store", "putSignal", "fetch", "getSignal"} = {}
  PROVE  Moves
<1>1. Receive \in Threads /\ Transmit \in Threads /\ Handle \in Threads
  BY DEF Threads
<1>2. UNCHANGED Side(Rx, Receive, Handle)!vars
  BY <1>1, SideStutters
<1>3. UNCHANGED Side(Tx, Handle, Transmit)!vars
  BY <1>1, SideStutters
<1> QED
  BY <1>2, <1>3 DEF Moves, RxMoves, TxMoves

\* A step of the devices or of a running thread that calls nothing.
LEMMA QuietStep ==
  ASSUME Sleeping, Pipes, UNCHANGED <<kernel, pc, fifo>>
  PROVE  Moves
<1>1. Sleeping'
  BY DEF Sleeping, kernel
<1> QED
  BY <1>1, BothStutter DEF kernel, Pipes

\* The end of the initialisation.
LEMMA InitEnds ==
  ASSUME Sleeping, Pipes, InitModulesThread
  PROVE  /\ Moves /\ isr = "idle" /\ readyList' = readyList \ {InitModules}
         /\ UNCHANGED <<count, waitList, pc, fifo, uart, interrupt, packet>>
<1>1. /\ isr = "idle" /\ readyList' = readyList \ {InitModules}
      /\ UNCHANGED <<count, waitList, pc, fifo, uart, interrupt, packet>>
  BY DEF InitModulesThread, Kernel!OS_ThreadDelete
<1>2. Sleeping'
  BY <1>1 DEF Sleeping
<1>3. Moves
  BY <1>1, <1>2, BothStutter DEF Pipes
<1> QED
  BY <1>1, <1>3

\* A step of the running thread that calls nothing of the kernel or of a FIFO.
LEMMA WalkStep ==
  ASSUME Sleeping, Pipes, NEW t \in Threads, NEW at, NEW label \in Labels,
         At(t, at), Goto(t, label), UNCHANGED <<kernel, fifo>>,
         {at, label} \cap {"store", "putSignal", "fetch", "getSignal"} = {}
  PROVE  Moves
<1>1. Sleeping'
  BY RunningStep, LocalStep
<1> QED
  BY <1>1, RunningStep, BothStutter DEF kernel, Pipes

\* A signal that is none of the FIFOs', from the interrupt routine or from a
\* thread.
LEMMA OtherSignal ==
  ASSUME Sleeping, Pipes, UNCHANGED fifo,
         NEW s \in {ByteReceived, TransmitReady, Packet_ByteReady}, Signal(s),
         pc' \in [Threads -> Labels],
         \A u \in Threads \ readyList : pc'[u] = pc[u],
         \A u \in Threads :
            \/ pc'[u] = pc[u]
            \/ {pc[u], pc'[u]} \cap {"store", "putSignal", "fetch", "getSignal"} = {}
  PROVE  Moves
<1>1. /\ s \in Semaphores
      /\ {Free(Rx), Items(Rx), Free(Tx), Items(Tx)} \subseteq Semaphores
      /\ s \notin {Free(Rx), Items(Rx), Free(Tx), Items(Tx)}
  BY Different
<1>2. /\ Sleeping'
      /\ \A r \in Semaphores : r # s => count'[r] = count[r] /\ waitList'[r] = waitList[r]
  BY <1>1, SignalStep
<1> QED
  BY <1>1, <1>2, BothStutter DEF Pipes

\* A wait that is none of the FIFOs'.
LEMMA OtherWait ==
  ASSUME Sleeping, Pipes, UNCHANGED fifo, NEW t \in Threads,
         NEW s \in {ByteReceived, TransmitReady, Packet_ByteReady},
         NEW label \in Labels, pc[t] = "wait", Wait(t, s), Goto(t, label), Waits(t, s, label),
         label \notin {"store", "putSignal", "fetch", "getSignal"}
  PROVE  Moves
<1>1. /\ s \in Semaphores
      /\ {Free(Rx), Items(Rx), Free(Tx), Items(Tx)} \subseteq Semaphores
      /\ s \notin {Free(Rx), Items(Rx), Free(Tx), Items(Tx)}
  BY Different
<1>2. /\ Sleeping'
      /\ \A u \in Threads : pc'[u] = IF u = t THEN label ELSE pc[u]
      /\ \A r \in Semaphores : r # s => count'[r] = count[r] /\ waitList'[r] = waitList[r]
  BY <1>1, WaitStep
<1> QED
  BY <1>1, <1>2, BothStutter DEF Pipes

\* A step of one of the two threads of FIFO f leaves the other FIFO alone.
LEMMA OtherSide ==
  ASSUME NEW f, NEW p, NEW g, Between(f, p, g), Side(f, p, g)!Next, NEW t \in {p, g},
         \A h \in {Rx, Tx} : h # f => fifo'[h] = fifo[h],
         \A s \in Semaphores \ {Free(f), Items(f)} :
            count'[s] = count[s] /\ waitList'[s] = waitList[s],
         \A u \in Threads : u # t => pc'[u] = pc[u],
         t = p => {pc[t], pc'[t]} \cap {"fetch", "getSignal"} = {},
         t = g => {pc[t], pc'[t]} \cap {"store", "putSignal"} = {}
  PROVE  RxMoves /\ TxMoves
<1>1. Receive \in Threads /\ Transmit \in Threads /\ Handle \in Threads
  BY DEF Threads
<1>2. Receive # Transmit /\ Receive # Handle /\ Transmit # Handle
  BY DEF Receive, Transmit, Handle
<1>3. CASE f = Rx
  <2>1. p = Receive /\ g = Handle
    BY <1>3 DEF Between, Rx, Tx
  <2>2. fifo'[Tx] = fifo[Tx]
    BY <1>3 DEF Rx, Tx
  <2>3. \A s \in {Free(Tx), Items(Tx)} : count'[s] = count[s] /\ waitList'[s] = waitList[s]
    BY <1>3, Different
  <2>4. pc'[Transmit] = pc[Transmit]
    BY <1>1, <1>2, <2>1
  <2>5. pc'[Handle] = pc[Handle] \/ {pc[Handle], pc'[Handle]} \cap {"store", "putSignal"} = {}
    BY <1>1, <1>2, <2>1
  <2>6. UNCHANGED Side(Tx, Handle, Transmit)!vars
    BY <2>2, <2>3, <2>4, <2>5, SideStutters
  <2> QED
    BY <1>3, <2>1, <2>6 DEF RxMoves, TxMoves
<1>4. CASE f = Tx
  <2>1. p = Handle /\ g = Transmit
    BY <1>4 DEF Between, Rx, Tx
  <2>2. fifo'[Rx] = fifo[Rx]
    BY <1>4 DEF Rx, Tx
  <2>3. \A s \in {Free(Rx), Items(Rx)} : count'[s] = count[s] /\ waitList'[s] = waitList[s]
    BY <1>4, Different
  <2>4. pc'[Receive] = pc[Receive]
    BY <1>1, <1>2, <2>1
  <2>5. pc'[Handle] = pc[Handle] \/ {pc[Handle], pc'[Handle]} \cap {"fetch", "getSignal"} = {}
    BY <1>1, <1>2, <2>1
  <2>6. UNCHANGED Side(Rx, Receive, Handle)!vars
    BY <2>2, <2>3, <2>4, <2>5, SideStutters
  <2> QED
    BY <1>4, <2>1, <2>6 DEF RxMoves, TxMoves
<1> QED
  BY <1>3, <1>4 DEF Between

\* What Pipes and Between say of one FIFO.
LEMMA OnePipe ==
  ASSUME Pipes, NEW f, NEW p, NEW g, Between(f, p, g)
  PROVE  /\ f \in {Rx, Tx} /\ p \in Threads /\ g \in Threads /\ p # g
         /\ Free(f) \in Semaphores /\ Items(f) \in Semaphores
         /\ Side(f, p, g)!TypeOK /\ Side(f, p, g)!Accounting
         /\ Waits(p, Free(f), "store") /\ Waits(g, Items(f), "fetch")
BY Different DEF Pipes, Between, Threads, Receive, Transmit, Handle, Waits

\* The three steps of FIFO_Put, by the putter of FIFO f.
LEMMA PutWaitMoves ==
  ASSUME Sleeping, Pipes, NEW f, NEW p, NEW g, Between(f, p, g), NEW d \in Data,
         pc[p] = "put", PutArgument(f, d), Wait(p, Free(f)), Goto(p, "store")
  PROVE  Moves
<1>1. Side(f, p, g)!Next
  <2>1. Side(f, p, g)!Put_Wait(d)
    BY SidePut_Wait DEF Pipes
  <2> QED
    BY <2>1 DEF Side!Next
<1>2. /\ fifo' \in [{Rx, Tx} -> Record]
      /\ \A h \in {Rx, Tx} : h # f => fifo'[h] = fifo[h]
  BY OnePipe, ArgumentEffect DEF Pipes
<1>3. /\ Sleeping'
      /\ \A u \in Threads : pc'[u] = IF u = p THEN "store" ELSE pc[u]
      /\ \A r \in Semaphores : r # Free(f) => count'[r] = count[r] /\ waitList'[r] = waitList[r]
  <2>1. "store" \in Labels
    BY DEF Labels
  <2> QED
    BY <2>1, OnePipe, WaitStep
<1>4. RxMoves /\ TxMoves
  BY <1>1, <1>2, <1>3, OnePipe, OtherSide
<1> QED
  BY <1>2, <1>3, <1>4 DEF Moves

\* The byte is stored.
LEMMA PutStoreMoves ==
  ASSUME Sleeping, Pipes, NEW f, NEW p, NEW g, Between(f, p, g),
         At(p, "store"), Store(f), UNCHANGED kernel, Goto(p, "putSignal")
  PROVE  Moves
<1>1. Side(f, p, g)!Next
  <2>1. Side(f, p, g)!Put_Store
    BY OnePipe, SidePut_Store DEF Pipes
  <2> QED
    BY <2>1 DEF Side!Next
<1>2. /\ fifo' \in [{Rx, Tx} -> Record]
      /\ \A h \in {Rx, Tx} : h # f => fifo'[h] = fifo[h]
  <2>1. fifo[f].End \in 0 .. FIFO_SIZE - 2
    BY OnePipe, SerialAssumption DEF Side!TypeOK, Side!Slots
  <2> QED
    BY <2>1, OnePipe, StoreEffect DEF Pipes
<1>3. /\ Sleeping' /\ pc[p] = "store"
      /\ \A u \in Threads : pc'[u] = IF u = p THEN "putSignal" ELSE pc[u]
  <2>1. "putSignal" \in Labels
    BY DEF Labels
  <2> QED
    BY <2>1, OnePipe, RunningStep, LocalStep
<1>4. RxMoves /\ TxMoves
  BY <1>1, <1>2, <1>3, OnePipe, OtherSide DEF kernel
<1> QED
  BY <1>2, <1>3, <1>4 DEF Moves

\* The byte is signalled.
LEMMA PutSignalMoves ==
  ASSUME Sleeping, Pipes, NEW f, NEW p, NEW g, Between(f, p, g),
         NEW label \in Labels \ {"store", "putSignal", "fetch", "getSignal"},
         At(p, "putSignal"), Signal(Items(f)), UNCHANGED fifo, Goto(p, label)
  PROVE  Moves
<1>1. Side(f, p, g)!Next
  <2>1. Side(f, p, g)!Put_Signal
    BY OnePipe, SidePut_Signal
  <2> QED
    BY <2>1 DEF Side!Next
<1>2. /\ Sleeping' /\ pc[p] = "putSignal"
      /\ \A u \in Threads : pc'[u] = IF u = p THEN label ELSE pc[u]
      /\ \A r \in Semaphores : r # Items(f) => count'[r] = count[r] /\ waitList'[r] = waitList[r]
  BY OnePipe, RunningStep, SignalStep
<1>3. RxMoves /\ TxMoves
  BY <1>1, <1>2, OnePipe, OtherSide
<1> QED
  BY <1>2, <1>3 DEF Moves, Pipes

\* The three steps of FIFO_Get, by the getter of FIFO f.
LEMMA GetWaitMoves ==
  ASSUME Sleeping, Pipes, NEW f, NEW p, NEW g, Between(f, p, g),
         pc[g] = "get", UNCHANGED fifo, Wait(g, Items(f)), Goto(g, "fetch")
  PROVE  Moves
<1>1. Side(f, p, g)!Next
  <2>1. Side(f, p, g)!Get_Wait
    BY SideGet_Wait
  <2> QED
    BY <2>1 DEF Side!Next
<1>2. /\ Sleeping'
      /\ \A u \in Threads : pc'[u] = IF u = g THEN "fetch" ELSE pc[u]
      /\ \A r \in Semaphores : r # Items(f) => count'[r] = count[r] /\ waitList'[r] = waitList[r]
  <2>1. "fetch" \in Labels
    BY DEF Labels
  <2> QED
    BY <2>1, OnePipe, WaitStep
<1>3. RxMoves /\ TxMoves
  BY <1>1, <1>2, OnePipe, OtherSide
<1> QED
  BY <1>2, <1>3 DEF Moves, Pipes

\* The byte is fetched.
LEMMA GetFetchMoves ==
  ASSUME Sleeping, Pipes, NEW f, NEW p, NEW g, Between(f, p, g),
         At(g, "fetch"), Fetch(f), UNCHANGED kernel, Goto(g, "getSignal")
  PROVE  Moves
<1>1. Side(f, p, g)!Next /\ fifo' \in [{Rx, Tx} -> Record]
  <2>1. Side(f, p, g)!Get_Fetch /\ fifo' \in [{Rx, Tx} -> Record]
    BY OnePipe, SideGet_Fetch DEF Pipes
  <2> QED
    BY <2>1 DEF Side!Next
<1>2. \A h \in {Rx, Tx} : h # f => fifo'[h] = fifo[h]
  BY OnePipe DEF Pipes, Fetch
<1>3. /\ Sleeping' /\ pc[g] = "fetch"
      /\ \A u \in Threads : pc'[u] = IF u = g THEN "getSignal" ELSE pc[u]
  <2>1. "getSignal" \in Labels
    BY DEF Labels
  <2> QED
    BY <2>1, OnePipe, RunningStep, LocalStep
<1>4. RxMoves /\ TxMoves
  BY <1>1, <1>2, <1>3, OnePipe, OtherSide DEF kernel
<1> QED
  BY <1>1, <1>3, <1>4 DEF Moves

\* Its space is given back.
LEMMA GetSignalMoves ==
  ASSUME Sleeping, Pipes, NEW f, NEW p, NEW g, Between(f, p, g),
         NEW label \in Labels \ {"store", "putSignal", "fetch", "getSignal"},
         At(g, "getSignal"), Signal(Free(f)), UNCHANGED fifo, Goto(g, label)
  PROVE  Moves
<1>1. Side(f, p, g)!Next
  <2>1. Side(f, p, g)!Get_Signal
    BY OnePipe, SideGet_Signal
  <2> QED
    BY <2>1 DEF Side!Next
<1>2. /\ Sleeping' /\ pc[g] = "getSignal"
      /\ \A u \in Threads : pc'[u] = IF u = g THEN label ELSE pc[u]
      /\ \A r \in Semaphores : r # Free(f) => count'[r] = count[r] /\ waitList'[r] = waitList[r]
  BY OnePipe, RunningStep, SignalStep
<1>3. RxMoves /\ TxMoves
  BY <1>1, <1>2, OnePipe, OtherSide
<1> QED
  BY <1>2, <1>3 DEF Moves, Pipes

-----------------------------------------------------------------------------
\* The device, the interrupt routine and the local variables.
Device ==
    /\ {RDRF, TDRE, TIE, fresh, early} \subseteq BOOLEAN
    /\ {RxData, RxByte} \subseteq Data
    /\ isr \in {"idle", "receive", "transmit"}
    /\ status \in [RDRF : BOOLEAN, TDRE : BOOLEAN, TIE : BOOLEAN]
    /\ nbBytes \in 0 .. PACKET_SIZE_BYTES - 1
    /\ nbToSend \in 0 .. 2 * PACKET_SIZE_BYTES
    /\ pc[Handle] \in {"put", "store", "putSignal", "enable"} => nbToSend > 0

\* Every step, of whichever thread or of the interrupt routine, moves each FIFO
\* as one of its own steps does, and wakes and puts to sleep the right threads.
LEMMA MovesStep ==
  ASSUME Sleeping, Pipes, Device, Next
  PROVE  Moves
<1>0. /\ Receive \in Threads /\ Transmit \in Threads /\ Handle \in Threads
      /\ Between(Rx, Receive, Handle) /\ Between(Tx, Handle, Transmit)
  BY DEF Threads, Between
<1>1. CASE (\E d \in Data : Line_Receive(d)) \/ Line_Transmit \/ ISR_Enter
  BY <1>1, QuietStep DEF Line_Receive, Line_Transmit, ISR_Enter
<1>2. CASE ISR_Receive
  <2>1. CASE Signal(ByteReceived)
    BY <1>2, <2>1, OtherSignal DEF ISR_Receive, Sleeping
  <2>2. CASE UNCHANGED kernel
    BY <1>2, <2>2, QuietStep DEF ISR_Receive
  <2> QED
    BY <1>2, <2>1, <2>2 DEF ISR_Receive
<1>3. CASE ISR_Transmit
  <2>1. CASE Signal(TransmitReady)
    BY <1>3, <2>1, OtherSignal DEF ISR_Transmit, Sleeping
  <2>2. CASE UNCHANGED kernel
    BY <1>3, <2>2, QuietStep DEF ISR_Transmit
  <2> QED
    BY <1>3, <2>1, <2>2 DEF ISR_Transmit
<1>4. CASE UART_ReceiveThread
  <2>1. CASE Receive_Wait
    BY <1>0, <2>1, OtherWait DEF Receive_Wait, Labels, Waits
  <2>2. CASE Receive_PutWait
    BY <1>0, <2>2, PutWaitMoves DEF Receive_PutWait, Device
  <2>3. CASE Receive_PutStore
    BY <1>0, <2>3, PutStoreMoves DEF Receive_PutStore
  <2>4. CASE Receive_PutSignal
    BY <1>0, <2>4, PutSignalMoves DEF Receive_PutSignal, Labels
  <2>5. CASE Receive_Notify
    <3>1. /\ pc' \in [Threads -> Labels]
          /\ \A u \in Threads \ readyList : pc'[u] = pc[u]
          /\ \A u \in Threads : pc'[u] = IF u = Receive THEN "wait" ELSE pc[u]
          /\ pc[Receive] = "notify"
      BY <1>0, <2>5, RunningStep DEF Receive_Notify, Labels
    <3> QED
      BY <2>5, <3>1, OtherSignal DEF Receive_Notify
  <2> QED
    BY <1>4, <2>1, <2>2, <2>3, <2>4, <2>5 DEF UART_ReceiveThread
<1>5. CASE UART_TransmitThread
  <2>1. CASE Transmit_Wait
    BY <1>0, <2>1, OtherWait DEF Transmit_Wait, Labels, Waits
  <2>2. CASE Transmit_Check
    BY <1>0, <2>2, WalkStep DEF Transmit_Check, Labels
  <2>3. CASE Transmit_GetWait
    BY <1>0, <2>3, GetWaitMoves DEF Transmit_GetWait
  <2>4. CASE Transmit_GetFetch
    BY <1>0, <2>4, GetFetchMoves DEF Transmit_GetFetch
  <2>5. CASE Transmit_GetSignal
    BY <1>0, <2>5, GetSignalMoves DEF Transmit_GetSignal, Labels
  <2>6. CASE Transmit_Enable
    BY <1>0, <2>6, WalkStep DEF Transmit_Enable, Labels
  <2> QED
    BY <1>5, <2>1, <2>2, <2>3, <2>4, <2>5, <2>6 DEF UART_TransmitThread
<1>6. CASE Handle_PacketThread
  <2>1. CASE Handle_Wait
    BY <1>0, <2>1, OtherWait DEF Handle_Wait, Labels, Waits
  <2>2. CASE Handle_GetWait
    BY <1>0, <2>2, GetWaitMoves DEF Handle_GetWait
  <2>3. CASE Handle_GetFetch
    BY <1>0, <2>3, GetFetchMoves DEF Handle_GetFetch
  <2>4. CASE Handle_GetSignal
    BY <1>0, <2>4, GetSignalMoves DEF Handle_GetSignal, Labels
  <2>5. CASE Handle_Packet
    BY <1>0, <2>5, WalkStep DEF Handle_Packet, Labels
  <2>6. CASE \E d \in Data : Handle_PutWait(d)
    BY <1>0, <2>6, PutWaitMoves DEF Handle_PutWait
  <2>7. CASE Handle_PutStore
    BY <1>0, <2>7, PutStoreMoves DEF Handle_PutStore
  <2>8. CASE Handle_PutSignal
    BY <1>0, <2>8, PutSignalMoves DEF Handle_PutSignal, Labels
  <2>9. CASE Handle_Enable
    BY <1>0, <2>9, WalkStep DEF Handle_Enable, Labels
  <2> QED
    BY <1>6, <2>1, <2>2, <2>3, <2>4, <2>5, <2>6, <2>7, <2>8, <2>9 DEF Handle_PacketThread
<1>7. CASE InitModulesThread
  BY <1>7, InitEnds
<1> QED
  BY <1>1, <1>2, <1>3, <1>4, <1>5, <1>6, <1>7 DEF Next, UART_ISR

\* The FIFOs of the serial port are FIFOs, so what is proved of every FIFO
\* holds of them.
RxProofs ==
    INSTANCE FIFOProofs WITH
        Start <- fifo[Rx].Start, End <- fifo[Rx].End, Buffer <- fifo[Rx].Buffer,
        FreeSpace <- count[Free(Rx)], ItemsAvailable <- count[Items(Rx)],
        putPc <- PutPc(Rx, Receive), data <- fifo[Rx].data,
        getPc <- GetPc(Rx, Handle), dataPtr <- fifo[Rx].dataPtr,
        queue <- fifo[Rx].queue

TxProofs ==
    INSTANCE FIFOProofs WITH
        Start <- fifo[Tx].Start, End <- fifo[Tx].End, Buffer <- fifo[Tx].Buffer,
        FreeSpace <- count[Free(Tx)], ItemsAvailable <- count[Items(Tx)],
        putPc <- PutPc(Tx, Handle), data <- fifo[Tx].data,
        getPc <- GetPc(Tx, Transmit), dataPtr <- fifo[Tx].dataPtr,
        queue <- fifo[Tx].queue

\* RxProofs speaks of the FIFO that Side(Rx, Receive, Handle) speaks of.
LEMMA SameRx ==
  /\ RxProofs!TypeOK <=> Side(Rx, Receive, Handle)!TypeOK
  /\ RxProofs!TypeOK' <=> Side(Rx, Receive, Handle)!TypeOK'
  /\ RxProofs!Accounting <=> Side(Rx, Receive, Handle)!Accounting
  /\ RxProofs!Accounting' <=> Side(Rx, Receive, Handle)!Accounting'
  /\ RxProofs!vars = Side(Rx, Receive, Handle)!vars
  /\ RxProofs!vars' = Side(Rx, Receive, Handle)!vars'
  /\ RxProofs!Next <=> Side(Rx, Receive, Handle)!Next
<1>1. /\ RxProofs!TypeOK <=> Side(Rx, Receive, Handle)!TypeOK
      /\ RxProofs!TypeOK' <=> Side(Rx, Receive, Handle)!TypeOK'
  BY DEF RxProofs!TypeOK, RxProofs!Slots,
         Side!TypeOK, Side!Slots
<1>2. /\ RxProofs!Accounting <=> Side(Rx, Receive, Handle)!Accounting
      /\ RxProofs!Accounting' <=> Side(Rx, Receive, Handle)!Accounting'
  BY DEF RxProofs!Accounting, RxProofs!Credits, RxProofs!Items, RxProofs!Blocked, RxProofs!One,
         Side!Accounting, Side!Credits, Side!Items, Side!Blocked, Side!One
<1>3. /\ RxProofs!vars = Side(Rx, Receive, Handle)!vars
      /\ RxProofs!vars' = Side(Rx, Receive, Handle)!vars'
  BY DEF RxProofs!vars, RxProofs!putVars, RxProofs!getVars,
         Side!vars, Side!putVars, Side!getVars
<1>4. RxProofs!Next <=> Side(Rx, Receive, Handle)!Next
  BY DEF RxProofs!Next, RxProofs!vars, RxProofs!putVars, RxProofs!getVars, RxProofs!Put_Wait,
         RxProofs!Put_Store, RxProofs!Put_Signal, RxProofs!Get_Wait, RxProofs!Get_Fetch, RxProofs!Get_Signal,
         Side!Next, Side!vars, Side!putVars, Side!getVars, Side!Put_Wait,
         Side!Put_Store, Side!Put_Signal, Side!Get_Wait, Side!Get_Fetch, Side!Get_Signal
<1> QED
  BY <1>1, <1>2, <1>3, <1>4

\* TxProofs speaks of the FIFO that Side(Tx, Handle, Transmit) speaks of.
LEMMA SameTx ==
  /\ TxProofs!TypeOK <=> Side(Tx, Handle, Transmit)!TypeOK
  /\ TxProofs!TypeOK' <=> Side(Tx, Handle, Transmit)!TypeOK'
  /\ TxProofs!Accounting <=> Side(Tx, Handle, Transmit)!Accounting
  /\ TxProofs!Accounting' <=> Side(Tx, Handle, Transmit)!Accounting'
  /\ TxProofs!vars = Side(Tx, Handle, Transmit)!vars
  /\ TxProofs!vars' = Side(Tx, Handle, Transmit)!vars'
  /\ TxProofs!Next <=> Side(Tx, Handle, Transmit)!Next
<1>1. /\ TxProofs!TypeOK <=> Side(Tx, Handle, Transmit)!TypeOK
      /\ TxProofs!TypeOK' <=> Side(Tx, Handle, Transmit)!TypeOK'
  BY DEF TxProofs!TypeOK, TxProofs!Slots,
         Side!TypeOK, Side!Slots
<1>2. /\ TxProofs!Accounting <=> Side(Tx, Handle, Transmit)!Accounting
      /\ TxProofs!Accounting' <=> Side(Tx, Handle, Transmit)!Accounting'
  BY DEF TxProofs!Accounting, TxProofs!Credits, TxProofs!Items, TxProofs!Blocked, TxProofs!One,
         Side!Accounting, Side!Credits, Side!Items, Side!Blocked, Side!One
<1>3. /\ TxProofs!vars = Side(Tx, Handle, Transmit)!vars
      /\ TxProofs!vars' = Side(Tx, Handle, Transmit)!vars'
  BY DEF TxProofs!vars, TxProofs!putVars, TxProofs!getVars,
         Side!vars, Side!putVars, Side!getVars
<1>4. TxProofs!Next <=> Side(Tx, Handle, Transmit)!Next
  BY DEF TxProofs!Next, TxProofs!vars, TxProofs!putVars, TxProofs!getVars, TxProofs!Put_Wait,
         TxProofs!Put_Store, TxProofs!Put_Signal, TxProofs!Get_Wait, TxProofs!Get_Fetch, TxProofs!Get_Signal,
         Side!Next, Side!vars, Side!putVars, Side!getVars, Side!Put_Wait,
         Side!Put_Store, Side!Put_Signal, Side!Get_Wait, Side!Get_Fetch, Side!Get_Signal
<1> QED
  BY <1>1, <1>2, <1>3, <1>4

\* A step that moves both FIFOs as FIFOs keeps what module FIFO proves of them.
LEMMA PipesStep ==
  ASSUME Pipes, Moves
  PROVE  Pipes'
<1>0. /\ FIFO_SIZE \in Nat /\ FIFO_SIZE >= 2
      /\ Zero \in Data
  BY SerialAssumption
<1>1. Side(Rx, Receive, Handle)!TypeOK' /\ Side(Rx, Receive, Handle)!Accounting'
  <2>1. RxProofs!TypeOK /\ RxProofs!Accounting /\ [RxProofs!Next]_(RxProofs!vars)
    BY SameRx DEF Pipes, Moves, RxMoves
  <2>2. RxProofs!TypeOK' /\ RxProofs!Accounting'
    BY <1>0, <2>1, RxProofs!AccountingStep
  <2> QED
    BY <2>2, SameRx
<1>2. Side(Tx, Handle, Transmit)!TypeOK' /\ Side(Tx, Handle, Transmit)!Accounting'
  <2>1. TxProofs!TypeOK /\ TxProofs!Accounting /\ [TxProofs!Next]_(TxProofs!vars)
    BY SameTx DEF Pipes, Moves, TxMoves
  <2>2. TxProofs!TypeOK' /\ TxProofs!Accounting'
    BY <1>0, <2>1, TxProofs!AccountingStep
  <2> QED
    BY <2>2, SameTx
<1> QED
  BY <1>1, <1>2 DEF Pipes, Moves

\* The device registers and the local variables keep their ranges.
LEMMA DeviceStep ==
  ASSUME Sleeping, Device, Next
  PROVE  Device'
<1> USE DEF Device
<1>0. /\ pc \in [Threads -> Labels]
      /\ Receive \in Threads /\ Transmit \in Threads /\ Handle \in Threads
      /\ Receive # Handle /\ Transmit # Handle
  BY DEF Sleeping, Threads, Receive, Transmit, Handle
<1>1. CASE (\E d \in Data : Line_Receive(d)) \/ Line_Transmit \/ UART_ISR
  <2>1. CASE \E d \in Data : Line_Receive(d)
    BY <2>1 DEF Line_Receive, interrupt, packet
  <2>2. CASE Line_Transmit
    BY <2>2 DEF Line_Transmit, interrupt, packet
  <2>3. CASE ISR_Enter
    BY <2>3 DEF ISR_Enter, uart, packet
  <2>4. CASE ISR_Receive
    BY <2>4 DEF ISR_Receive, packet
  <2>5. CASE ISR_Transmit
    BY <2>5 DEF ISR_Transmit, packet
  <2> QED
    BY <1>1, <2>1, <2>2, <2>3, <2>4, <2>5 DEF UART_ISR
<1>2. CASE UART_ReceiveThread
  <2>1. pc'[Handle] = pc[Handle]
    BY <1>0, <1>2 DEF UART_ReceiveThread, Receive_Wait, Receive_PutWait, Receive_PutStore,
                      Receive_PutSignal, Receive_Notify, Goto
  <2>2. /\ UNCHANGED <<uart, packet, RxByte, isr, status, early>>
        /\ fresh' \in {fresh, FALSE}
    BY <1>2 DEF UART_ReceiveThread, Receive_Wait, Receive_PutWait, Receive_PutStore,
                Receive_PutSignal, Receive_Notify, interrupt
  <2> QED
    BY <2>1, <2>2 DEF uart, packet
<1>3. CASE UART_TransmitThread
  <2>1. pc'[Handle] = pc[Handle]
    BY <1>0, <1>3 DEF UART_TransmitThread, Transmit_Wait, Transmit_Check, Transmit_GetWait,
                      Transmit_GetFetch, Transmit_GetSignal, Transmit_Enable, Goto
  <2>2. /\ UNCHANGED <<RDRF, RxData, interrupt, packet>>
        /\ TDRE' \in {TDRE, FALSE} /\ TIE' \in {TIE, TRUE}
    BY <1>3 DEF UART_TransmitThread, Transmit_Wait, Transmit_Check, Transmit_GetWait,
                Transmit_GetFetch, Transmit_GetSignal, Transmit_Enable, uart
  <2> QED
    BY <2>1, <2>2 DEF interrupt, packet
<1>4. CASE Handle_PacketThread
  <2>1. CASE Handle_Wait \/ Handle_GetWait \/ Handle_GetFetch
    <3>1. pc'[Handle] \in {"get", "fetch", "getSignal"}
      BY <1>0, <2>1 DEF Handle_Wait, Handle_GetWait, Handle_GetFetch, Goto
    <3> QED
      BY <2>1, <3>1 DEF Handle_Wait, Handle_GetWait, Handle_GetFetch, uart, interrupt, packet
  <2>2. CASE Handle_GetSignal
    <3>1. pc'[Handle] \in {"get", "handle"}
      BY <1>0, <2>2 DEF Handle_GetSignal, Goto
    <3>2. nbBytes' \in 0 .. PACKET_SIZE_BYTES - 1
      BY <2>2, SerialAssumption DEF Handle_GetSignal
    <3> QED
      BY <2>2, <3>1, <3>2 DEF Handle_GetSignal, uart, interrupt
  <2>3. CASE Handle_Packet
    <3>1. nbToSend' \in {0, PACKET_SIZE_BYTES, 2 * PACKET_SIZE_BYTES}
      <4>1. PICK nbPackets \in 0 .. MaxAnswers : nbToSend' = nbPackets * PACKET_SIZE_BYTES
        BY <2>3 DEF Handle_Packet
      <4>2. nbPackets \in {0, 1, 2}
        BY <4>1, SerialAssumption
      <4> QED
        BY <4>1, <4>2, SerialAssumption
    <3>2. nbToSend' = 0 => pc'[Handle] = "wait"
      BY <1>0, <2>3 DEF Handle_Packet, Goto
    <3> QED
      BY <2>3, <3>1, <3>2, SerialAssumption DEF Handle_Packet, uart, interrupt
  <2>4. CASE (\E d \in Data : Handle_PutWait(d)) \/ Handle_PutStore \/ Handle_PutSignal
    BY <2>4 DEF Handle_PutWait, Handle_PutStore, Handle_PutSignal, At, uart, interrupt, packet
  <2>5. CASE Handle_Enable
    <3>1. nbToSend > 0
      BY <2>5 DEF Handle_Enable, At
    <3>2. pc'[Handle] = IF nbToSend > 1 THEN "put" ELSE "wait"
      BY <1>0, <2>5 DEF Handle_Enable, Goto
    <3>3. nbToSend' \in 0 .. 2 * PACKET_SIZE_BYTES /\ (pc'[Handle] = "put" => nbToSend' > 0)
      BY <2>5, <3>1, <3>2, SerialAssumption DEF Handle_Enable
    <3> QED
      BY <2>5, <3>2, <3>3 DEF Handle_Enable, interrupt
  <2> QED
    BY <1>4, <2>1, <2>2, <2>3, <2>4, <2>5 DEF Handle_PacketThread
<1>5. CASE InitModulesThread
  BY <1>5 DEF InitModulesThread, uart, interrupt, packet
<1> QED
  BY <1>1, <1>2, <1>3, <1>4, <1>5 DEF Next

-----------------------------------------------------------------------------
\* What the transmit thread saw of the transmitter stays true until it writes
\* the data register: the line only empties it.
SawEmpty == pc[Transmit] \in {"get", "fetch"} => TDRE

\* No thread but the transmit thread writes the data register.
LEMMA SawEmptyStep ==
  ASSUME Sleeping, SawEmpty, Next
  PROVE  SawEmpty'
<1> USE DEF SawEmpty
<1>0. /\ pc \in [Threads -> Labels]
      /\ Receive \in Threads /\ Transmit \in Threads /\ Handle \in Threads
      /\ Receive # Transmit /\ Handle # Transmit
  BY DEF Sleeping, Threads, Receive, Transmit, Handle
<1>1. CASE (\E d \in Data : Line_Receive(d)) \/ Line_Transmit \/ UART_ISR
  BY <1>1 DEF Line_Receive, Line_Transmit, UART_ISR, ISR_Enter, ISR_Receive, ISR_Transmit, uart
<1>2. CASE UART_ReceiveThread
  BY <1>0, <1>2 DEF UART_ReceiveThread, Receive_Wait, Receive_PutWait, Receive_PutStore,
                    Receive_PutSignal, Receive_Notify, Goto, uart
<1>3. CASE UART_TransmitThread
  BY <1>0, <1>3 DEF UART_TransmitThread, Transmit_Wait, Transmit_Check, Transmit_GetWait,
                    Transmit_GetFetch, Transmit_GetSignal, Transmit_Enable, Goto, uart
<1>4. CASE Handle_PacketThread
  <2>1. UNCHANGED TDRE
    BY <1>4 DEF Handle_PacketThread, Handle_Wait, Handle_GetWait, Handle_GetFetch,
                Handle_GetSignal, Handle_Packet, Handle_PutWait, Handle_PutStore,
                Handle_PutSignal, Handle_Enable, uart
  <2>2. pc'[Transmit] = pc[Transmit]
    BY <1>0, <1>4 DEF Handle_PacketThread, Handle_Wait, Handle_GetWait, Handle_GetFetch,
                Handle_GetSignal, Handle_Packet, Handle_PutWait, Handle_PutStore,
                Handle_PutSignal, Handle_Enable, Goto
  <2> QED
    BY <2>1, <2>2
<1>5. CASE InitModulesThread
  BY <1>5 DEF InitModulesThread, uart
<1> QED
  BY <1>1, <1>2, <1>3, <1>4, <1>5 DEF Next

\* A step of the transmit thread or of the packet thread, with at most one call
\* of the kernel.
LEMMA OthersIdle ==
  ASSUME Sleeping, NEW t \in {Transmit, Handle}, NEW s \in Semaphores, s # ByteReceived,
         NEW label \in Labels, Goto(t, label),
         \/ Wait(t, s) /\ Waits(t, s, label)
         \/ \E at : At(t, at) /\ (Signal(s) \/ UNCHANGED kernel)
  PROVE  /\ pc'[Receive] = pc[Receive]
         /\ count'[ByteReceived] = count[ByteReceived]
         /\ waitList'[ByteReceived] = waitList[ByteReceived]
<1>0. /\ pc \in [Threads -> Labels] /\ t \in Threads /\ t # Receive
      /\ Receive \in Threads /\ ByteReceived \in Semaphores
  BY Different DEF Sleeping, Threads, Receive, Transmit, Handle
<1>1. CASE Wait(t, s) /\ Waits(t, s, label)
  BY <1>0, <1>1, WaitStep
<1>2. CASE \E at : At(t, at) /\ (Signal(s) \/ UNCHANGED kernel)
  <2>1. PICK at : At(t, at) /\ (Signal(s) \/ UNCHANGED kernel)
    BY <1>2
  <2> QED
    BY <1>0, <2>1, RunningStep, SignalStep DEF kernel
<1> QED
  BY <1>1, <1>2

\* A byte in RxByte is signalled, or the receive thread is about to pass it on.
Announced ==
    fresh => \/ count[ByteReceived] > 0
             \/ pc[Receive] = "put" /\ Receive \notin waitList[ByteReceived]

\* Only the receive thread takes the signal, and then it goes on to FIFO_Put.
LEMMA AnnouncedStep ==
  ASSUME Sleeping, Announced, Next
  PROVE  Announced'
<1>0. /\ pc \in [Threads -> Labels]
      /\ Receive \in Threads /\ Transmit \in Threads /\ Handle \in Threads
      /\ Receive # Transmit /\ Receive # Handle
      /\ ByteReceived \in Semaphores
  BY Different DEF Sleeping, Threads, Receive, Transmit, Handle
<1>1. ASSUME UNCHANGED fresh, pc'[Receive] = pc[Receive],
             count'[ByteReceived] = count[ByteReceived],
             waitList'[ByteReceived] = waitList[ByteReceived]
      PROVE  Announced'
  BY <1>1 DEF Announced
<1>2. CASE (\E d \in Data : Line_Receive(d)) \/ Line_Transmit \/ ISR_Enter
  BY <1>1, <1>2 DEF Line_Receive, Line_Transmit, ISR_Enter, interrupt, kernel
<1>3. CASE ISR_Receive
  <2>1. CASE Signal(ByteReceived)
    <3>1. \/ count'[ByteReceived] = MaxCount
          \/ count'[ByteReceived] = count[ByteReceived] + 1
          \/ waitList'[ByteReceived] = {} /\ \E u \in Threads : Waits(u, ByteReceived, pc[u])
      BY <1>0, <1>3, <2>1, SignalStep DEF ISR_Receive
    <3>2. pc' = pc
      BY <1>3 DEF ISR_Receive
    <3>3. count[ByteReceived] \in Nat
      BY <1>0, SerialAssumption DEF Sleeping
    <3> QED
      BY <3>1, <3>2, <3>3, Different, SerialAssumption DEF Announced, Waits
  <2>2. CASE UNCHANGED <<kernel, fresh>>
    BY <1>1, <1>3, <2>2 DEF ISR_Receive, kernel
  <2> QED
    BY <1>3, <2>1, <2>2 DEF ISR_Receive
<1>4. CASE ISR_Transmit
  <2>1. count'[ByteReceived] = count[ByteReceived] /\ waitList'[ByteReceived] = waitList[ByteReceived]
    <3>1. CASE Signal(TransmitReady)
      BY <1>0, <1>4, <3>1, Different, SignalStep DEF ISR_Transmit
    <3> QED
      BY <1>4, <3>1 DEF ISR_Transmit, kernel
  <2> QED
    BY <1>1, <1>4, <2>1 DEF ISR_Transmit
<1>5. CASE UART_ReceiveThread
  <2>1. CASE Receive_Wait
    <3>1. pc[Receive] = "wait"
      BY <2>1 DEF Receive_Wait
    <3>2. /\ pc'[Receive] = "put"
          /\ Receive \notin waitList[ByteReceived]
          /\ \/ count[ByteReceived] > 0 /\ waitList'[ByteReceived] = waitList[ByteReceived]
             \/ count[ByteReceived] = 0
      BY <1>0, <2>1, WaitStep DEF Receive_Wait, Labels, Waits
    <3>3. fresh' = fresh
      BY <2>1 DEF Receive_Wait, interrupt
    <3> QED
      BY <3>1, <3>2, <3>3 DEF Announced
  <2>2. CASE Receive_PutWait
    BY <2>2 DEF Receive_PutWait, Announced
  <2>3. CASE Receive_PutStore \/ Receive_PutSignal \/ Receive_Notify
    <3>1. pc[Receive] # "put" /\ fresh' = fresh
      BY <2>3 DEF Receive_PutStore, Receive_PutSignal, Receive_Notify, At, interrupt
    <3>2. count'[ByteReceived] = count[ByteReceived]
      <4>1. CASE Receive_PutStore
        BY <4>1 DEF Receive_PutStore, kernel
      <4>2. CASE Receive_PutSignal
        BY <1>0, <4>2, Different, RunningStep, SignalStep DEF Receive_PutSignal, Labels
      <4>3. CASE Receive_Notify
        BY <1>0, <4>3, Different, RunningStep, SignalStep DEF Receive_Notify, Labels
      <4> QED
        BY <2>3, <4>1, <4>2, <4>3
    <3> QED
      BY <3>1, <3>2 DEF Announced
  <2> QED
    BY <1>5, <2>1, <2>2, <2>3 DEF UART_ReceiveThread
<1>6. ASSUME NEW t \in {Transmit, Handle}, NEW s \in Semaphores, s # ByteReceived,
             NEW label \in Labels, Goto(t, label), UNCHANGED fresh,
             \/ Wait(t, s) /\ Waits(t, s, label)
             \/ \E at : At(t, at) /\ (Signal(s) \/ UNCHANGED kernel)
      PROVE  Announced'
  BY <1>1, <1>6, OthersIdle
<1>7. CASE UART_TransmitThread
  <2> USE <1>0, <1>6, Different DEF Labels, Waits, interrupt
  <2>1. CASE Transmit_Wait
    BY <2>1 DEF Transmit_Wait
  <2>2. CASE Transmit_Check
    BY <2>2 DEF Transmit_Check
  <2>3. CASE Transmit_GetWait
    BY <2>3 DEF Transmit_GetWait
  <2>4. CASE Transmit_GetFetch
    BY <2>4 DEF Transmit_GetFetch
  <2>5. CASE Transmit_GetSignal
    BY <2>5 DEF Transmit_GetSignal
  <2>6. CASE Transmit_Enable
    BY <2>6 DEF Transmit_Enable
  <2> QED
    BY <1>7, <2>1, <2>2, <2>3, <2>4, <2>5, <2>6 DEF UART_TransmitThread
<1>8. CASE Handle_PacketThread
  <2> USE <1>0, <1>6, Different DEF Labels, Waits, interrupt
  <2>1. CASE Handle_Wait
    BY <2>1 DEF Handle_Wait
  <2>2. CASE Handle_GetWait
    BY <2>2 DEF Handle_GetWait
  <2>3. CASE Handle_GetFetch
    BY <2>3 DEF Handle_GetFetch
  <2>4. CASE Handle_GetSignal
    BY <2>4 DEF Handle_GetSignal
  <2>5. CASE Handle_Packet
    BY <2>5 DEF Handle_Packet
  <2>6. CASE \E d \in Data : Handle_PutWait(d)
    BY <2>6 DEF Handle_PutWait
  <2>7. CASE Handle_PutStore
    BY <2>7 DEF Handle_PutStore
  <2>8. CASE Handle_PutSignal
    BY <2>8 DEF Handle_PutSignal
  <2>9. CASE Handle_Enable
    BY <2>9 DEF Handle_Enable
  <2> QED
    BY <1>8, <2>1, <2>2, <2>3, <2>4, <2>5, <2>6, <2>7, <2>8, <2>9 DEF Handle_PacketThread
<1>9. CASE InitModulesThread
  BY <1>1, <1>9 DEF InitModulesThread, interrupt, Kernel!OS_ThreadDelete
<1> QED
  BY <1>2, <1>3, <1>4, <1>5, <1>7, <1>8, <1>9 DEF Next, UART_ISR

-----------------------------------------------------------------------------
\* The interrupt routine still runs on a true TDRE, and an occupied transmitter
\* is going to interrupt when it is empty.
Rearmed ==
    /\ isr # "idle" /\ status.TDRE => TDRE
    /\ ~ TDRE => TIE \/ pc[Transmit] \in {"getSignal", "enable"}

\* A byte in TxFIFO without the interrupt: the transmit thread has been
\* signalled or is on its way, or the packet thread is about to enable it.
Due ==
    ~ TIE /\ fifo[Tx].queue # <<>> =>
        \/ count[TransmitReady] > 0
        \/ pc[Transmit] # "wait" /\ Transmit \notin waitList[TransmitReady]
        \/ pc[Handle] \in {"putSignal", "enable"}

\* The transmit interrupt is disabled by the interrupt routine only, on a true TDRE.
LEMMA RearmedStep ==
  ASSUME Sleeping, Device, Rearmed, Next
  PROVE  Rearmed'
<1> USE DEF Rearmed
<1>0. /\ pc \in [Threads -> Labels]
      /\ Receive \in Threads /\ Transmit \in Threads /\ Handle \in Threads
      /\ Receive # Transmit /\ Handle # Transmit
  BY DEF Sleeping, Threads, Receive, Transmit, Handle
<1>1. CASE (\E d \in Data : Line_Receive(d)) \/ Line_Transmit \/ ISR_Enter
  BY <1>1 DEF Line_Receive, Line_Transmit, ISR_Enter, interrupt, uart
<1>2. CASE ISR_Receive
  BY <1>2 DEF ISR_Receive
<1>3. CASE ISR_Transmit
  <2>1. isr # "idle" /\ isr' = "idle"
    BY <1>3 DEF ISR_Transmit
  <2>2. UNCHANGED <<TDRE, pc>> /\ (TIE' = TIE \/ status.TDRE)
    BY <1>3 DEF ISR_Transmit
  <2> QED
    BY <2>1, <2>2
<1>4. CASE UART_ReceiveThread
  <2>1. pc'[Transmit] = pc[Transmit] /\ UNCHANGED <<TDRE, TIE, isr, status>>
    BY <1>0, <1>4 DEF UART_ReceiveThread, Receive_Wait, Receive_PutWait, Receive_PutStore,
                      Receive_PutSignal, Receive_Notify, Goto, uart, interrupt
  <2> QED
    BY <2>1
<1>5. CASE UART_TransmitThread
  <2>0. isr' = "idle"
    BY <1>5 DEF UART_TransmitThread, Transmit_Wait, Transmit_Check, Transmit_GetWait,
                Transmit_GetFetch, Transmit_GetSignal, Transmit_Enable, At, Running, Wait, interrupt
  <2>1. CASE Transmit_Wait \/ Transmit_Check \/ Transmit_GetWait
    <3>1. UNCHANGED <<TDRE, TIE>> /\ pc[Transmit] \notin {"getSignal", "enable"}
      BY <2>1 DEF Transmit_Wait, Transmit_Check, Transmit_GetWait, At, uart
    <3> QED
      BY <2>0, <3>1
  <2>2. CASE Transmit_GetFetch
    BY <1>0, <2>0, <2>2 DEF Transmit_GetFetch, Goto
  <2>3. CASE Transmit_GetSignal
    BY <1>0, <2>0, <2>3 DEF Transmit_GetSignal, Goto
  <2>4. CASE Transmit_Enable
    BY <2>0, <2>4 DEF Transmit_Enable
  <2> QED
    BY <1>5, <2>1, <2>2, <2>3, <2>4 DEF UART_TransmitThread
<1>6. CASE Handle_PacketThread
  <2>1. pc'[Transmit] = pc[Transmit]
    BY <1>0, <1>6 DEF Handle_PacketThread, Handle_Wait, Handle_GetWait, Handle_GetFetch,
                Handle_GetSignal, Handle_Packet, Handle_PutWait, Handle_PutStore,
                Handle_PutSignal, Handle_Enable, Goto
  <2>2. UNCHANGED <<TDRE, isr, status>> /\ TIE' \in {TIE, TRUE}
    BY <1>6 DEF Handle_PacketThread, Handle_Wait, Handle_GetWait, Handle_GetFetch,
                Handle_GetSignal, Handle_Packet, Handle_PutWait, Handle_PutStore,
                Handle_PutSignal, Handle_Enable, uart, interrupt
  <2> QED
    BY <2>1, <2>2
<1>7. CASE InitModulesThread
  BY <1>7 DEF InitModulesThread, uart, interrupt
<1> QED
  BY <1>1, <1>2, <1>3, <1>4, <1>5, <1>6, <1>7 DEF Next, UART_ISR

\* The interrupt is disabled with a signal, and a byte stored while it is disabled
\* has its putter enable it.
LEMMA DueStep ==
  ASSUME Sleeping, Pipes, Device, Rearmed, Due, Next
  PROVE  Due'
<1>0. /\ pc \in [Threads -> Labels]
      /\ Receive \in Threads /\ Transmit \in Threads /\ Handle \in Threads
      /\ Receive # Transmit /\ Handle # Transmit /\ Receive # Handle
      /\ TransmitReady \in Semaphores
      /\ Rx # Tx /\ fifo \in [{Rx, Tx} -> Record]
  BY Different DEF Sleeping, Pipes, Threads, Receive, Transmit, Handle, Rx, Tx
<1>1. ASSUME UNCHANGED TIE, fifo'[Tx].queue = fifo[Tx].queue,
             pc'[Transmit] = pc[Transmit],
             pc'[Handle] = pc[Handle] \/ pc[Handle] \notin {"putSignal", "enable"},
             count'[TransmitReady] = count[TransmitReady],
             waitList'[TransmitReady] = waitList[TransmitReady]
      PROVE  Due'
  BY <1>1 DEF Due
<1>2. CASE (\E d \in Data : Line_Receive(d)) \/ Line_Transmit \/ ISR_Enter
  BY <1>1, <1>2 DEF Line_Receive, Line_Transmit, ISR_Enter, uart, kernel
<1>3. CASE ISR_Receive
  <2>1. count'[TransmitReady] = count[TransmitReady] /\ waitList'[TransmitReady] = waitList[TransmitReady]
    <3>1. CASE Signal(ByteReceived)
      BY <1>0, <1>3, <3>1, Different, SignalStep DEF ISR_Receive
    <3> QED
      BY <1>3, <3>1 DEF ISR_Receive, kernel
  <2> QED
    BY <1>1, <1>3, <2>1 DEF ISR_Receive
<1>4. CASE ISR_Transmit
  <2>1. CASE Signal(TransmitReady)
    <3>1. \/ count'[TransmitReady] = MaxCount
          \/ count'[TransmitReady] = count[TransmitReady] + 1
          \/ waitList'[TransmitReady] = {} /\ \E u \in Threads : Waits(u, TransmitReady, pc[u])
      BY <1>0, <1>4, <2>1, SignalStep DEF ISR_Transmit
    <3>2. pc' = pc
      BY <1>4 DEF ISR_Transmit
    <3>3. count[TransmitReady] \in Nat
      BY <1>0, SerialAssumption DEF Sleeping
    <3> QED
      BY <3>1, <3>2, <3>3, Different, SerialAssumption DEF Due, Waits
  <2>2. CASE UNCHANGED <<kernel, TIE>>
    BY <1>1, <1>4, <2>2 DEF ISR_Transmit, kernel
  <2> QED
    BY <1>4, <2>1, <2>2 DEF ISR_Transmit
<1>5. ASSUME NEW t \in {Receive, Handle}, NEW s \in Semaphores, s # TransmitReady,
             NEW label \in Labels, Goto(t, label), UNCHANGED TIE,
             fifo'[Tx].queue = fifo[Tx].queue,
             t = Receive \/ pc[t] \notin {"putSignal", "enable"} \/ label = "enable",
             \/ Wait(t, s) /\ Waits(t, s, label)
             \/ \E at : At(t, at) /\ (Signal(s) \/ UNCHANGED kernel)
      PROVE  Due'
  <2>1. /\ pc'[Transmit] = pc[Transmit]
        /\ \/ pc'[Handle] \in {pc[Handle], "enable"}
           \/ pc[Handle] \notin {"putSignal", "enable"}
    BY <1>0, <1>5 DEF Goto
  <2>2. count'[TransmitReady] = count[TransmitReady] /\ waitList'[TransmitReady] = waitList[TransmitReady]
    <3>1. CASE Wait(t, s) /\ Waits(t, s, label)
      BY <1>0, <1>5, <3>1, WaitStep
    <3>2. CASE \E at : At(t, at) /\ (Signal(s) \/ UNCHANGED kernel)
      <4>1. PICK at : At(t, at) /\ (Signal(s) \/ UNCHANGED kernel)
        BY <3>2
      <4> QED
        BY <1>0, <1>5, <4>1, RunningStep, SignalStep DEF kernel
    <3> QED
      BY <1>5, <3>1, <3>2
  <2> QED
    BY <1>5, <2>1, <2>2 DEF Due
<1>6. CASE UART_ReceiveThread
  <2> USE <1>0, <1>5, Different DEF Labels, Waits, uart
  <2>1. CASE Receive_Wait
    BY <2>1 DEF Receive_Wait
  <2>2. CASE Receive_PutWait
    <3>1. fifo'[Tx].queue = fifo[Tx].queue
      BY <2>2 DEF Receive_PutWait, PutArgument
    <3> QED
      BY <2>2, <3>1 DEF Receive_PutWait
  <2>3. CASE Receive_PutStore
    <3>1. fifo'[Tx].queue = fifo[Tx].queue
      BY <2>3 DEF Receive_PutStore, Store
    <3> QED
      BY <2>3, <3>1 DEF Receive_PutStore
  <2>4. CASE Receive_PutSignal
    BY <2>4 DEF Receive_PutSignal
  <2>5. CASE Receive_Notify
    BY <2>5 DEF Receive_Notify
  <2> QED
    BY <1>6, <2>1, <2>2, <2>3, <2>4, <2>5 DEF UART_ReceiveThread
<1>7. CASE UART_TransmitThread
  <2>0. \A s \in Semaphores : Transmit \notin waitList[s]
    <3>1. Transmit \in readyList
      BY <1>7 DEF UART_TransmitThread, Transmit_Wait, Transmit_Check, Transmit_GetWait,
                  Transmit_GetFetch, Transmit_GetSignal, Transmit_Enable, At, Running, Wait,
                  Kernel!OS_SemaphoreWait, Kernel!Running, Kernel!Highest
    <3> QED
      BY <1>0, <3>1 DEF Sleeping
  <2>1. CASE Transmit_Wait
    <3>1. /\ \/ count[TransmitReady] > 0 /\ waitList'[TransmitReady] = waitList[TransmitReady]
             \/ count[TransmitReady] = 0
          /\ \A u \in Threads : pc'[u] = IF u = Transmit THEN "check" ELSE pc[u]
      BY <1>0, <2>1, WaitStep DEF Transmit_Wait, Labels, Waits
    <3>2. pc[Transmit] = "wait" /\ UNCHANGED <<TIE, fifo>>
      BY <2>1 DEF Transmit_Wait, uart
    <3> QED
      BY <1>0, <2>0, <3>1, <3>2 DEF Due
  <2>2. CASE Transmit_Check
    <3>1. /\ pc[Transmit] = "check"
          /\ pc'[Transmit] = IF TDRE THEN "get" ELSE "wait"
          /\ UNCHANGED <<TIE, waitList>>
      BY <1>0, <2>2 DEF Transmit_Check, At, Goto, uart, kernel
    <3>2. ~ TDRE => TIE'
      BY <3>1 DEF Rearmed
    <3> QED
      BY <1>0, <2>0, <3>1, <3>2 DEF Due
  <2>3. CASE Transmit_GetWait
    <3>1. /\ pc'[Transmit] = "fetch"
          /\ waitList'[TransmitReady] = waitList[TransmitReady]
      BY <1>0, <2>3, Different, WaitStep DEF Transmit_GetWait, Labels, Waits
    <3> QED
      BY <1>0, <2>0, <3>1 DEF Due
  <2>4. CASE Transmit_GetFetch
    BY <1>0, <2>0, <2>4 DEF Transmit_GetFetch, Goto, kernel, Due
  <2>5. CASE Transmit_GetSignal
    <3>1. /\ pc'[Transmit] = "enable"
          /\ waitList'[TransmitReady] = waitList[TransmitReady]
      BY <1>0, <2>5, Different, RunningStep, SignalStep DEF Transmit_GetSignal, Labels
    <3> QED
      BY <1>0, <2>0, <3>1 DEF Due
  <2>6. CASE Transmit_Enable
    BY <2>6 DEF Transmit_Enable, Due
  <2> QED
    BY <1>7, <2>1, <2>2, <2>3, <2>4, <2>5, <2>6 DEF UART_TransmitThread
<1>8. CASE Handle_PacketThread
  <2> USE <1>0, <1>5, Different DEF Labels, Waits, uart
  <2>1. CASE Handle_Wait
    BY <2>1 DEF Handle_Wait
  <2>2. CASE Handle_GetWait
    BY <2>2 DEF Handle_GetWait
  <2>3. CASE Handle_GetFetch
    <3>1. fifo'[Tx].queue = fifo[Tx].queue
      BY <2>3 DEF Handle_GetFetch, Fetch
    <3> QED
      BY <2>3, <3>1 DEF Handle_GetFetch, At
  <2>4. CASE Handle_GetSignal
    BY <2>4 DEF Handle_GetSignal, At
  <2>5. CASE Handle_Packet
    BY <2>5 DEF Handle_Packet, At
  <2>6. CASE \E d \in Data : Handle_PutWait(d)
    <3>1. PICK d \in Data : Handle_PutWait(d)
      BY <2>6
    <3>2. fifo'[Tx].queue = fifo[Tx].queue
      BY <3>1, ArgumentEffect DEF Handle_PutWait
    <3> QED
      BY <3>1, <3>2 DEF Handle_PutWait
  <2>7. CASE Handle_PutStore
    BY <2>7 DEF Handle_PutStore, Goto, Due
  <2>8. CASE Handle_PutSignal
    BY <2>8 DEF Handle_PutSignal, At
  <2>9. CASE Handle_Enable
    BY <2>9 DEF Handle_Enable, Due
  <2> QED
    BY <1>8, <2>1, <2>2, <2>3, <2>4, <2>5, <2>6, <2>7, <2>8, <2>9 DEF Handle_PacketThread
<1>9. CASE InitModulesThread
  BY <1>1, <1>9 DEF InitModulesThread, uart, Kernel!OS_ThreadDelete
<1> QED
  BY <1>2, <1>3, <1>4, <1>6, <1>7, <1>8, <1>9 DEF Next, UART_ISR

-----------------------------------------------------------------------------
\* The inductive invariant of the serial port.
IInv == Sleeping /\ Pipes /\ Device /\ SawEmpty /\ Announced /\ Rearmed /\ Due

\* The invariant holds at the start, and both FIFOs are empty.
LEMMA IInvInit ==
  ASSUME Init
  PROVE  IInv /\ Side(Rx, Receive, Handle)!Init /\ Side(Tx, Handle, Transmit)!Init
<1> USE SerialAssumption DEF Init
<1>0. /\ Receive \in Threads /\ Transmit \in Threads /\ Handle \in Threads
      /\ pc = [t \in Threads |-> IF t = InitModules THEN "initialise" ELSE "wait"]
      /\ InitModules \notin {Receive, Transmit, Handle}
      /\ readyList = Threads
      /\ waitList = [s \in Semaphores |-> {}]
      /\ count = [s \in Semaphores |-> IF s \in {Free(Rx), Free(Tx)} THEN FIFO_SIZE ELSE 0]
  BY DEF Threads, Kernel!Init, InitModules, Receive, Transmit, Handle
<1>1. Sleeping
  BY <1>0 DEF Sleeping, Labels
<1>2. /\ fifo \in [{Rx, Tx} -> Record]
      /\ \A f \in {Rx, Tx} :
          /\ fifo[f].Start = 0 /\ fifo[f].End = 0
          /\ fifo[f].Buffer = [i \in 0 .. FIFO_SIZE - 1 |-> Zero]
          /\ fifo[f].data = Zero /\ fifo[f].dataPtr = Zero
          /\ fifo[f].queue = <<>>
  <2> DEFINE r == [Start |-> 0, End |-> 0, Buffer |-> [i \in 0 .. FIFO_SIZE - 1 |-> Zero],
                   data |-> Zero, dataPtr |-> Zero, queue |-> <<>>]
  <2>1. r \in Record
    BY EmptySeq DEF Record
  <2>2. fifo = [f \in {Rx, Tx} |-> r]
    OBVIOUS
  <2> QED
    BY <2>1, <2>2
<1>3. ASSUME NEW f, NEW p, NEW g, Between(f, p, g)
      PROVE  Side(f, p, g)!Init /\ Side(f, p, g)!TypeOK /\ Side(f, p, g)!Accounting
  <2> HIDE DEF Init
  <2>1. /\ f \in {Rx, Tx} /\ p \in Threads /\ g \in Threads
        /\ Free(f) \in Semaphores /\ Items(f) \in Semaphores
        /\ Items(f) \notin {Free(Rx), Free(Tx)}
    BY <1>0, <1>3, Different DEF Between
  <2>2. /\ count[Free(f)] = FIFO_SIZE /\ count[Items(f)] = 0
        /\ PutPc(f, p) = "idle" /\ GetPc(f, g) = "idle"
    BY <1>0, <2>1 DEF PutPc, GetPc
  <2>3. <<>> \in Seq(Data) /\ Len(<<>>) = 0
    BY EmptySeq
  <2>4. Side(f, p, g)!Init
    BY <1>2, <2>1, <2>2 DEF Side!Init
  <2>5. Side(f, p, g)!TypeOK
    <3>1. /\ fifo[f].Start \in 0 .. FIFO_SIZE - 2 /\ fifo[f].End \in 0 .. FIFO_SIZE - 2
          /\ count[Free(f)] \in 0 .. FIFO_SIZE /\ count[Items(f)] \in 0 .. FIFO_SIZE
      BY <1>2, <2>1, <2>2
    <3>2. /\ fifo[f].Buffer \in [0 .. FIFO_SIZE - 1 -> Data]
          /\ fifo[f].data \in Data /\ fifo[f].dataPtr \in Data
          /\ fifo[f].queue \in Seq(Data)
      BY <1>2, <2>1, <2>3
    <3>3. Side(f, p, g)!Slots - 1 = FIFO_SIZE - 2
      BY DEF Side!Slots
    <3>4. /\ PutPc(f, p) \in {"idle", "blocked", "store", "signal"}
          /\ GetPc(f, g) \in {"idle", "blocked", "fetch", "signal"}
      BY <2>2
    <3> QED
      BY <3>1, <3>2, <3>3, <3>4 DEF Side!TypeOK
  <2>6. Side(f, p, g)!Accounting
    BY <1>2, <2>1, <2>2, <2>3
    DEF Side!Accounting, Side!Credits, Side!Items, Side!Blocked, Side!One
  <2> QED
    BY <2>4, <2>5, <2>6
<1>4. Pipes
  BY <1>2, <1>3 DEF Pipes, Between
<1>5. Device
  <2>1. pc[Handle] = "wait"
    BY <1>0
  <2>2. /\ nbBytes \in 0 .. PACKET_SIZE_BYTES - 1
        /\ nbToSend \in 0 .. 2 * PACKET_SIZE_BYTES
    OBVIOUS
  <2>3. status \in [RDRF : BOOLEAN, TDRE : BOOLEAN, TIE : BOOLEAN]
    OBVIOUS
  <2>4. {RDRF, TDRE, TIE, fresh, early} \subseteq BOOLEAN /\ {RxData, RxByte} \subseteq Data
    OBVIOUS
  <2>5. isr = "idle"
    OBVIOUS
  <2> QED
    BY <2>1, <2>2, <2>3, <2>4, <2>5 DEF Device
<1>6. SawEmpty /\ Announced /\ Rearmed /\ Due
  BY <1>0, <1>2 DEF SawEmpty, Announced, Rearmed, Due
<1>7. Side(Rx, Receive, Handle)!Init /\ Side(Tx, Handle, Transmit)!Init
  BY <1>3 DEF Between
<1> QED
  BY <1>1, <1>4, <1>5, <1>6, <1>7 DEF IInv

\* Every step keeps the invariant and moves both FIFOs as FIFOs.
LEMMA IInvStep == IInv /\ [Next]_vars => IInv' /\ RxMoves /\ TxMoves
<1> SUFFICES ASSUME IInv, [Next]_vars PROVE IInv' /\ RxMoves /\ TxMoves
  OBVIOUS
<1>1. CASE Next
  <2>1. Moves
    BY <1>1, MovesStep DEF IInv
  <2>2. Pipes'
    BY <2>1, PipesStep DEF IInv
  <2>3. Device' /\ SawEmpty' /\ Announced'
    BY <1>1, DeviceStep, SawEmptyStep, AnnouncedStep DEF IInv
  <2>4. Rearmed' /\ Due'
    BY <1>1, RearmedStep, DueStep DEF IInv
  <2> QED
    BY <2>1, <2>2, <2>3, <2>4 DEF IInv, Moves
<1>2. CASE UNCHANGED vars
  <2>1. UNCHANGED <<kernel, pc, fifo>>
    BY <1>2 DEF vars
  <2>2. Moves
    BY <2>1, QuietStep DEF IInv
  <2>3. Pipes'
    BY <2>2, PipesStep DEF IInv
  <2>4. Device' /\ SawEmpty' /\ Announced' /\ Rearmed' /\ Due'
    BY <1>2 DEF vars, kernel, uart, interrupt, packet, IInv, Device, SawEmpty, Announced,
                Rearmed, Due
  <2> QED
    BY <2>2, <2>3, <2>4 DEF IInv, Moves
<1> QED
  BY <1>1, <1>2

\* The invariant holds throughout.
LEMMA IInvHolds == Spec => []IInv
<1>1. Init => IInv
  BY IInvInit
<1>2. IInv /\ [Next]_vars => IInv'
  BY IInvStep
<1> QED
  BY <1>1, <1>2, PTL DEF Spec

\* The type invariant.
THEOREM TypeCorrect == Spec => []TypeOK
<1>1. IInv => TypeOK
  <2> SUFFICES ASSUME IInv PROVE TypeOK
    OBVIOUS
  <2>1. \A f \in {Rx, Tx} :
        /\ fifo[f].Start \in 0 .. FIFO_SIZE - 2
        /\ fifo[f].End \in 0 .. FIFO_SIZE - 2
        /\ fifo[f].Buffer \in [0 .. FIFO_SIZE - 1 -> Data]
        /\ fifo[f].data \in Data
        /\ fifo[f].dataPtr \in Data
        /\ fifo[f].queue \in Seq(Data)
    BY SerialAssumption DEF IInv, Pipes, Side!TypeOK, Side!Slots
  <2>2. Kernel!TypeOK
    BY DEF IInv, Sleeping, Kernel!TypeOK
  <2> QED
    BY <2>1, <2>2 DEF IInv, Sleeping, Device, Labels, TypeOK
<1> QED
  BY <1>1, IInvHolds, PTL

\* The transmit thread writes the data register only while the transmitter is
\* empty, although it sleeps between its test of TDRE and the write.
THEOREM NeverOverrun == Spec => []NoTransmitOverrun
<1>1. IInv => NoTransmitOverrun
  BY DEF IInv, SawEmpty, NoTransmitOverrun
<1> QED
  BY <1>1, IInvHolds, PTL

\* The receive thread never sleeps with a byte in RxByte that it has not passed on.
THEOREM NeverReceiveStall == Spec => []NoReceiveStall
<1>1. IInv => NoReceiveStall
  <2> SUFFICES ASSUME IInv, Receive \in waitList[ByteReceived] PROVE ~ fresh
    BY DEF NoReceiveStall
  <2>1. count[ByteReceived] = 0
    BY Different, SerialAssumption DEF IInv, Sleeping
  <2> QED
    BY <2>1 DEF IInv, Announced
<1> QED
  BY <1>1, IInvHolds, PTL

\* When no thread can run and no interrupt is due, TxFIFO is empty: the wake-up of
\* the transmit thread is never lost between the interrupt routine, which disables
\* the interrupt, and the two threads that enable it.
THEOREM NeverTransmitStall == Spec => []NoTransmitStall
<1>1. IInv => NoTransmitStall
  <2> SUFFICES ASSUME IInv, readyList = {}, ~ TIE, fifo[Tx].queue # <<>> PROVE FALSE
    BY DEF NoTransmitStall
  <2>1. /\ Transmit \in Threads /\ Handle \in Threads
        /\ TransmitReady \in Semaphores /\ Items(Tx) \in Semaphores
    BY Different DEF Threads
  <2>2. \A t \in {Transmit, Handle} :
          \E s \in Semaphores : t \in waitList[s] /\ Waits(t, s, pc[t])
    BY <2>1 DEF IInv, Sleeping, InitModules, Transmit, Handle
  <2>3. pc[Handle] \in {"get", "fetch", "store"}
    BY <2>1, <2>2 DEF Waits, Receive, Transmit, Handle
  <2>4. \/ Transmit \in waitList[TransmitReady]
        \/ Transmit \in waitList[Items(Tx)] /\ pc[Transmit] = "fetch"
    BY <2>1, <2>2 DEF Waits, Receive, Transmit, Handle
  <2>5. CASE Transmit \in waitList[TransmitReady]
    <3>1. count[TransmitReady] = 0
      BY <2>1, <2>5, SerialAssumption DEF IInv, Sleeping
    <3> QED
      BY <2>3, <2>5, <3>1 DEF IInv, Due
  <2>6. CASE Transmit \in waitList[Items(Tx)] /\ pc[Transmit] = "fetch"
    <3>1. GetPc(Tx, Transmit) = "blocked" /\ PutPc(Tx, Handle) # "signal"
      BY <2>3, <2>6 DEF GetPc, PutPc
    <3>2. Len(fifo[Tx].queue) = 0
      BY <3>1 DEF IInv, Pipes, Side!Accounting, Side!Items, Side!Blocked, Side!One
    <3>3. fifo[Tx].queue \in Seq(Data)
      BY DEF IInv, Pipes, Side!TypeOK
    <3> QED
      BY <3>2, <3>3, EmptySeq
  <2> QED
    BY <2>4, <2>5, <2>6
<1> QED
  BY <1>1, IInvHolds, PTL

\* RxFIFO under the kernel and its priorities makes the steps of a FIFO only.
THEOREM RxIsFIFO == Spec => RxImplementsFIFO
<1>1. Init => RxFIFO!Init
  <2>1. RxFIFO!Init <=> Side(Rx, Receive, Handle)!Init
    BY DEF RxFIFO!Init, Side!Init
  <2> QED
    BY <2>1, IInvInit
<1>2. IInv /\ [Next]_vars => [RxFIFO!Next]_(RxFIFO!vars)
  <2>1. /\ RxFIFO!vars = Side(Rx, Receive, Handle)!vars
        /\ RxFIFO!vars' = Side(Rx, Receive, Handle)!vars'
    BY DEF RxFIFO!vars, RxFIFO!putVars, RxFIFO!getVars, Side!vars, Side!putVars, Side!getVars
  <2>2. RxFIFO!Next <=> Side(Rx, Receive, Handle)!Next
    BY DEF RxFIFO!Next, RxFIFO!vars, RxFIFO!putVars, RxFIFO!getVars, RxFIFO!Put_Wait,
         RxFIFO!Put_Store, RxFIFO!Put_Signal, RxFIFO!Get_Wait, RxFIFO!Get_Fetch, RxFIFO!Get_Signal,
         Side!Next, Side!vars, Side!putVars, Side!getVars, Side!Put_Wait,
         Side!Put_Store, Side!Put_Signal, Side!Get_Wait, Side!Get_Fetch, Side!Get_Signal
  <2> QED
    BY <2>1, <2>2, IInvStep DEF RxMoves
<1> QED
  BY <1>1, <1>2, IInvHolds, PTL DEF Spec, RxImplementsFIFO, RxFIFO!Spec

\* TxFIFO under the kernel and its priorities makes the steps of a FIFO only.
THEOREM TxIsFIFO == Spec => TxImplementsFIFO
<1>1. Init => TxFIFO!Init
  <2>1. TxFIFO!Init <=> Side(Tx, Handle, Transmit)!Init
    BY DEF TxFIFO!Init, Side!Init
  <2> QED
    BY <2>1, IInvInit
<1>2. IInv /\ [Next]_vars => [TxFIFO!Next]_(TxFIFO!vars)
  <2>1. /\ TxFIFO!vars = Side(Tx, Handle, Transmit)!vars
        /\ TxFIFO!vars' = Side(Tx, Handle, Transmit)!vars'
    BY DEF TxFIFO!vars, TxFIFO!putVars, TxFIFO!getVars, Side!vars, Side!putVars, Side!getVars
  <2>2. TxFIFO!Next <=> Side(Tx, Handle, Transmit)!Next
    BY DEF TxFIFO!Next, TxFIFO!vars, TxFIFO!putVars, TxFIFO!getVars, TxFIFO!Put_Wait,
         TxFIFO!Put_Store, TxFIFO!Put_Signal, TxFIFO!Get_Wait, TxFIFO!Get_Fetch, TxFIFO!Get_Signal,
         Side!Next, Side!vars, Side!putVars, Side!getVars, Side!Put_Wait,
         Side!Put_Store, Side!Put_Signal, Side!Get_Wait, Side!Get_Fetch, Side!Get_Signal
  <2> QED
    BY <2>1, <2>2, IInvStep DEF TxMoves
<1> QED
  BY <1>1, <1>2, IInvHolds, PTL DEF Spec, TxImplementsFIFO, TxFIFO!Spec

\* So what is proved of every FIFO holds of RxFIFO.
LEMMA RxIsProved == Spec => RxProofs!Spec
<1>1. RxFIFO!Init => RxProofs!Init
  BY DEF RxProofs!Init, RxFIFO!Init
<1>2. [RxFIFO!Next]_(RxFIFO!vars) => [RxProofs!Next]_(RxProofs!vars)
  <2>1. RxProofs!vars = RxFIFO!vars /\ RxProofs!vars' = RxFIFO!vars'
    BY DEF RxFIFO!vars, RxFIFO!putVars, RxFIFO!getVars,
           RxProofs!vars, RxProofs!putVars, RxProofs!getVars
  <2>2. RxFIFO!Next => RxProofs!Next
    BY DEF RxFIFO!Next, RxFIFO!putVars, RxFIFO!getVars, RxFIFO!Put_Wait, RxFIFO!Put_Store,
           RxFIFO!Put_Signal, RxFIFO!Get_Wait, RxFIFO!Get_Fetch, RxFIFO!Get_Signal,
           RxProofs!Next, RxProofs!putVars, RxProofs!getVars, RxProofs!Put_Wait, RxProofs!Put_Store,
           RxProofs!Put_Signal, RxProofs!Get_Wait, RxProofs!Get_Fetch, RxProofs!Get_Signal
  <2> QED
    BY <2>1, <2>2
<1> QED
  BY <1>1, <1>2, RxIsFIFO, PTL DEF RxImplementsFIFO, RxFIFO!Spec, RxProofs!Spec

\* What UART_InChar hands to the packet thread, one byte after the other, are the
\* bytes that the receive thread stored, in their order, none lost, repeated or
\* overwritten while fewer than FIFO_SIZE are held.
THEOREM RxIsByteQueue == Spec => RxProofs!ImplementsByteQueue
<1>1. RxProofs!Spec => RxProofs!ImplementsByteQueue
  <2>1. FIFO_SIZE \in Nat /\ FIFO_SIZE >= 2 /\ Zero \in Data
    BY SerialAssumption
  <2> QED
    BY <2>1, RxProofs!FIFOImplementsByteQueue
<1> QED
  BY <1>1, RxIsProved, PTL

\* What the transmit thread writes to the data register are the bytes of the
\* packet thread's UART_OutChar, on the same terms.
THEOREM TxIsByteQueue == Spec => TxProofs!ImplementsByteQueue
<1>1. TxProofs!Spec => TxProofs!ImplementsByteQueue
  <2>1. FIFO_SIZE \in Nat /\ FIFO_SIZE >= 2 /\ Zero \in Data
    BY SerialAssumption
  <2> QED
    BY <2>1, TxProofs!FIFOImplementsByteQueue
<1>2. TxFIFO!Init => TxProofs!Init
  BY DEF TxProofs!Init, TxFIFO!Init
<1>3. [TxFIFO!Next]_(TxFIFO!vars) => [TxProofs!Next]_(TxProofs!vars)
  <2>1. TxProofs!vars = TxFIFO!vars /\ TxProofs!vars' = TxFIFO!vars'
    BY DEF TxFIFO!vars, TxFIFO!putVars, TxFIFO!getVars,
           TxProofs!vars, TxProofs!putVars, TxProofs!getVars
  <2>2. TxFIFO!Next => TxProofs!Next
    BY DEF TxFIFO!Next, TxFIFO!putVars, TxFIFO!getVars, TxFIFO!Put_Wait, TxFIFO!Put_Store,
           TxFIFO!Put_Signal, TxFIFO!Get_Wait, TxFIFO!Get_Fetch, TxFIFO!Get_Signal,
           TxProofs!Next, TxProofs!putVars, TxProofs!getVars, TxProofs!Put_Wait, TxProofs!Put_Store,
           TxProofs!Put_Signal, TxProofs!Get_Wait, TxProofs!Get_Fetch, TxProofs!Get_Signal
  <2> QED
    BY <2>1, <2>2
<1> QED
  BY <1>1, <1>2, <1>3, TxIsFIFO, PTL DEF TxImplementsFIFO, TxFIFO!Spec, TxProofs!Spec

-----------------------------------------------------------------------------
\* What any step does to the kernel: nothing, or one call of it.
LEMMA KernelStep ==
  ASSUME [Next]_vars
  PROVE  \/ UNCHANGED kernel
         \/ \E t \in Threads, s \in Semaphores : Wait(t, s)
         \/ \E s \in Semaphores : Signal(s)
         \/ \E t \in Threads : Kernel!OS_ThreadDelete(t)
<1> USE Different
<1> DEFINE Calls == \/ UNCHANGED kernel
                    \/ \E t \in Threads, s \in Semaphores : Wait(t, s)
                    \/ \E s \in Semaphores : Signal(s)
                    \/ \E t \in Threads : Kernel!OS_ThreadDelete(t)
<1>0. {InitModules, Receive, Transmit, Handle} \subseteq Threads
  BY DEF Threads
<1>1. CASE (\E d \in Data : Line_Receive(d)) \/ Line_Transmit \/ UART_ISR
  BY <1>1 DEF Line_Receive, Line_Transmit, UART_ISR, ISR_Enter, ISR_Receive, ISR_Transmit
<1>2. CASE UART_ReceiveThread
  BY <1>0, <1>2 DEF UART_ReceiveThread, Receive_Wait, Receive_PutWait, Receive_PutStore,
     Receive_PutSignal, Receive_Notify
<1>3. CASE UART_TransmitThread
  BY <1>0, <1>3 DEF UART_TransmitThread, Transmit_Wait, Transmit_Check, Transmit_GetWait,
     Transmit_GetFetch, Transmit_GetSignal, Transmit_Enable
<1>4. CASE Handle_PacketThread
  BY <1>0, <1>4 DEF Handle_PacketThread, Handle_Wait, Handle_GetWait, Handle_GetFetch,
     Handle_GetSignal, Handle_Packet, Handle_PutWait, Handle_PutStore, Handle_PutSignal,
     Handle_Enable
<1>5. CASE InitModulesThread
  BY <1>0, <1>5 DEF InitModulesThread
<1>6. CASE UNCHANGED vars
  BY <1>6 DEF vars
<1> QED
  BY <1>1, <1>2, <1>3, <1>4, <1>5, <1>6 DEF Next

\* The interrupt routine and the threads of the serial port use the kernel as its
\* clients may: a thread waits only while it runs, and never from the interrupt
\* routine.
THEOREM SerialRunsKernel == Spec => Kernel!Spec
<1>1. Init => Kernel!Init
  BY DEF Init
<1>2. [Next]_vars => [Kernel!Next]_(Kernel!vars)
  <2> SUFFICES ASSUME [Next]_vars PROVE [Kernel!Next]_(Kernel!vars)
    OBVIOUS
  <2>1. CASE UNCHANGED kernel
    BY <2>1 DEF kernel, Kernel!vars
  <2>2. CASE \E t \in Threads, s \in Semaphores : Wait(t, s)
    BY <2>2 DEF Wait, Kernel!Next
  <2>3. CASE \E s \in Semaphores : Signal(s)
    BY <2>3 DEF Signal, Kernel!Next
  <2>4. CASE \E t \in Threads : Kernel!OS_ThreadDelete(t)
    BY <2>4 DEF Kernel!Next
  <2> QED
    BY <2>1, <2>2, <2>3, <2>4, KernelStep
<1> QED
  BY <1>1, <1>2, PTL DEF Spec, Kernel!Spec

InitialPermits == [s \in Semaphores |-> IF s \in {Free(Rx), Free(Tx)} THEN FIFO_SIZE ELSE 0]

KernelProofs ==
    INSTANCE OSProofs WITH
        Thread <- Threads, Semaphore <- Semaphores, InitialCount <- InitialPermits

\* The threads and the semaphores are ones that the kernel's proofs are about.
LEMMA KernelAssumptions ==
  /\ Threads \subseteq Nat /\ KernelProofs!IsFiniteSet(Threads)
  /\ MaxCount \in Nat \ {0}
  /\ InitialPermits \in [Semaphores -> 0 .. MaxCount]
<1>1. Threads \subseteq 0 .. 9
  BY DEF Threads, InitModules, Receive, Transmit, Handle
<1>2. IsFiniteSet(0 .. 9)
  <2>1. 0 \in Int /\ 9 \in Int
    OBVIOUS
  <2> QED
    BY <2>1, FS_Interval, Zenon
<1>3. IsFiniteSet(Threads)
  BY <1>1, <1>2, FS_Subset, Zenon
<1>4. KernelProofs!IsFiniteSet(Threads)
  BY <1>3 DEF IsFiniteSet, KernelProofs!IsFiniteSet
<1>5. /\ MaxCount \in Nat \ {0}
      /\ InitialPermits \in [Semaphores -> 0 .. MaxCount]
  BY SerialAssumption DEF InitialPermits
<1> QED
  BY <1>1, <1>4, <1>5

\* So the seven semaphores are counting semaphores, whatever bytes arrive and
\* whichever thread the interrupt routine wakes: no unit of space, no byte and no
\* signal of the UART is counted twice or lost.
THEOREM SerialSemaphoresCount == Spec => KernelProofs!ImplementsCountingSemaphore
<1>1. KernelProofs!Spec => KernelProofs!ImplementsCountingSemaphore
  BY KernelAssumptions, KernelProofs!KernelImplementsCountingSemaphore
<1>2. Kernel!Init => KernelProofs!Init
  BY DEF Kernel!Init, KernelProofs!Init, InitialPermits
<1>3. [Kernel!Next]_(Kernel!vars) => [KernelProofs!Next]_(KernelProofs!vars)
  <2>1. KernelProofs!vars = Kernel!vars /\ KernelProofs!vars' = Kernel!vars'
    BY DEF Kernel!vars, KernelProofs!vars
  <2>2. Kernel!Next => KernelProofs!Next
    BY DEF Kernel!Next, Kernel!OS_SemaphoreWait, Kernel!OS_SemaphoreSignal,
           Kernel!OS_ThreadDelete, Kernel!SignalOverflows, Kernel!SignalCounts,
           Kernel!SignalHandsOver, Kernel!Running, Kernel!Highest, Kernel!vars,
           KernelProofs!Next, KernelProofs!OS_SemaphoreWait, KernelProofs!OS_SemaphoreSignal,
           KernelProofs!OS_ThreadDelete, KernelProofs!SignalOverflows,
           KernelProofs!SignalCounts, KernelProofs!SignalHandsOver,
           KernelProofs!Running, KernelProofs!Highest, KernelProofs!vars
  <2> QED
    BY <2>1, <2>2
<1> QED
  BY <1>1, <1>2, <1>3, SerialRunsKernel, PTL DEF Kernel!Spec, KernelProofs!Spec

-----------------------------------------------------------------------------
\* From the line to the packet thread.  Bytes leave the receiver by the interrupt
\* routine only, which has seen them there.
Seen == isr = "receive" /\ status.RDRF => RDRF

\* After the initialisation a byte in the receiver that is going to replace the
\* one in RxByte finds all the space of RxFIFO in use.
Held == IF pc[Receive] = "store" THEN 1 ELSE 0

Started == InitModules \notin readyList /\ ~ early

Crowded == Started /\ RDRF /\ Owed > 0 => Len(fifo[Rx].queue) + Held >= FIFO_SIZE

\* A byte that is in the receiver before the initialisation is over came before
\* that.
Early == RDRF /\ InitModules \in readyList => early

\* What a step may do to the bytes that are under way.
NothingGot == fifo'[Rx].dataPtr = fifo[Rx].dataPtr /\ fifo'[Rx].Start = fifo[Rx].Start

RxQuiet ==
    /\ fifo'[Rx].queue = fifo[Rx].queue /\ NothingGot
    /\ pc'[Receive] = "store" <=> pc[Receive] = "store"
    /\ InHand' = InHand

RxIdle == RxQuiet /\ Owed' = Owed /\ UNCHANGED <<RxByte, RDRF, RxData>>

Arrives ==
    /\ RxQuiet /\ Owed' = Owed /\ UNCHANGED RxByte
    /\ Started' => Receive \notin readyList
    /\ ~ RDRF /\ RDRF' /\ RxData' \in Data

IsRead ==
    /\ RxQuiet /\ RDRF /\ ~ RDRF' /\ RxByte' = RxData
    /\ Owed' = Owed + 1 \/ (Owed' = Owed /\ Owed > 0)

IsPassed ==
    /\ pc[Receive] = "put" /\ pc'[Receive] = "store"
    /\ fifo'[Rx].queue = fifo[Rx].queue /\ NothingGot
    /\ fifo'[Rx].data = RxByte
    /\ Owed > 0 /\ Owed' = Owed - 1 /\ UNCHANGED <<RxByte, RDRF, RxData>>

IsStored ==
    /\ pc[Receive] = "store" /\ pc'[Receive] # "store"
    /\ fifo'[Rx].queue = Append(fifo[Rx].queue, fifo[Rx].data)
    /\ NothingGot
    /\ Owed' = Owed /\ UNCHANGED <<RxByte, RDRF, RxData>>

IsFetched ==
    /\ Receive \notin readyList /\ pc'[Receive] = pc[Receive] /\ pc[Handle] = "fetch"
    /\ Handle \notin waitList[Items(Rx)]
    /\ fifo'[Rx].data = fifo[Rx].data
    /\ fifo'[Rx].queue = Tail(fifo[Rx].queue)
    /\ fifo'[Rx].dataPtr = fifo[Rx].Buffer[fifo[Rx].Start]
    /\ fifo'[Rx].Start = IF fifo[Rx].Start + 1 = FIFO_SIZE - 1 THEN 0 ELSE fifo[Rx].Start + 1
    /\ Owed' = Owed /\ UNCHANGED <<RxByte, RDRF, RxData>>

\* How many puts are owed, and that no thread but the receive thread can change it.
LEMMA OwedStays ==
  ASSUME pc'[Receive] = pc[Receive] \/ "put" \notin {pc[Receive], pc'[Receive]},
         count'[ByteReceived] = count[ByteReceived],
         Receive \in waitList'[ByteReceived] <=> Receive \in waitList[ByteReceived]
  PROVE  Owed' = Owed
BY DEF Owed

\* A step that leaves RxFIFO and the receiver alone.
LEMMA LeavesIdle ==
  ASSUME fifo'[Rx] = fifo[Rx], UNCHANGED <<RxByte, RDRF, RxData>>,
         pc'[Receive] = pc[Receive] \/ {"put", "store"} \cap {pc[Receive], pc'[Receive]} = {},
         count'[ByteReceived] = count[ByteReceived],
         Receive \in waitList'[ByteReceived] <=> Receive \in waitList[ByteReceived]
  PROVE  RxIdle
BY OwedStays DEF RxIdle, RxQuiet, NothingGot, InHand

\* Every step is one of these.
LEMMA ReceiveMoves ==
  ASSUME IInv, Seen, Next
  PROVE  RxIdle \/ Arrives \/ IsRead \/ IsPassed \/ IsStored \/ IsFetched
<1> DEFINE Moved == RxIdle \/ Arrives \/ IsRead \/ IsPassed \/ IsStored \/ IsFetched
<1>0. /\ Sleeping /\ Pipes /\ Device
      /\ pc \in [Threads -> Labels]
      /\ Receive \in Threads /\ Transmit \in Threads /\ Handle \in Threads
      /\ Receive # Transmit /\ Receive # Handle /\ Transmit # Handle
      /\ ByteReceived \in Semaphores
      /\ count[ByteReceived] \in 0 .. MaxCount
  BY Different DEF IInv, Sleeping, Threads, Receive, Transmit, Handle
<1>01. /\ fifo \in [{Rx, Tx} -> Record] /\ Rx # Tx
       /\ \A f \in {Rx, Tx} : fifo[f].End \in 0 .. FIFO_SIZE - 2 /\ fifo[f].Start \in 0 .. FIFO_SIZE - 2
       /\ RxByte \in Data
  BY <1>0, SerialAssumption DEF Pipes, Device, Side!TypeOK, Side!Slots, Rx, Tx
<1>1. CASE \E d \in Data : Line_Receive(d)
  <2>1. /\ Owed' = Owed /\ RxQuiet
    BY <1>1 DEF Line_Receive, kernel, Owed, RxQuiet, NothingGot, InHand
  <2>2. Started' => Receive \notin readyList
    BY <1>1 DEF Line_Receive, Started
  <2> QED
    BY <1>1, <2>1, <2>2 DEF Line_Receive, Arrives
<1>2. CASE Line_Transmit \/ ISR_Enter
  BY <1>2, LeavesIdle DEF Line_Transmit, ISR_Enter, kernel, uart, interrupt
<1>3. CASE ISR_Receive
  <2>1. CASE ~ status.RDRF
    BY <1>3, <2>1, LeavesIdle DEF ISR_Receive, kernel
  <2>2. CASE status.RDRF
    <3>1. /\ RDRF /\ ~ RDRF' /\ RxByte' = RxData /\ Signal(ByteReceived)
          /\ UNCHANGED <<pc, fifo>>
      BY <1>3, <2>2 DEF ISR_Receive, Seen
    <3>2. \/ /\ count[ByteReceived] = MaxCount /\ count' = count /\ waitList' = waitList
          \/ /\ waitList[ByteReceived] = {} /\ count'[ByteReceived] = count[ByteReceived] + 1
             /\ waitList' = waitList
          \/ /\ count[ByteReceived] = 0 /\ count' = count /\ waitList'[ByteReceived] = {}
             /\ \E u \in Threads : waitList[ByteReceived] = {u} /\ Waits(u, ByteReceived, pc[u])
      BY <1>0, <3>1, SignalStep
    <3>3. Owed' = Owed + 1 \/ (Owed' = Owed /\ Owed > 0)
      <4>1. CASE count[ByteReceived] = MaxCount /\ count' = count /\ waitList' = waitList
        BY <3>1, <4>1, SerialAssumption DEF Owed
      <4>2. CASE /\ count'[ByteReceived] = count[ByteReceived] + 1
                 /\ waitList' = waitList
        BY <1>0, <3>1, <4>2, SerialAssumption DEF Owed
      <4>3. CASE /\ count[ByteReceived] = 0 /\ count' = count /\ waitList'[ByteReceived] = {}
                 /\ \E u \in Threads : waitList[ByteReceived] = {u} /\ Waits(u, ByteReceived, pc[u])
        <5>1. waitList[ByteReceived] = {Receive} /\ pc[Receive] = "put"
          BY <4>3, Different DEF Waits
        <5> QED
          BY <3>1, <4>3, <5>1 DEF Owed
      <4> QED
        BY <3>2, <4>1, <4>2, <4>3
    <3> QED
      BY <3>1, <3>3 DEF IsRead, RxQuiet, NothingGot, InHand
  <2> QED
    BY <2>1, <2>2
<1>4. CASE ISR_Transmit
  <2>1. count'[ByteReceived] = count[ByteReceived] /\ waitList'[ByteReceived] = waitList[ByteReceived]
    <3>1. CASE Signal(TransmitReady)
      BY <1>0, <1>4, <3>1, Different, SignalStep DEF ISR_Transmit
    <3> QED
      BY <1>4, <3>1 DEF ISR_Transmit, kernel
  <2> QED
    BY <1>4, <2>1, LeavesIdle DEF ISR_Transmit
<1>5. CASE UART_ReceiveThread
  <2>1. CASE Receive_Wait
    <3>1. /\ pc[Receive] = "wait" /\ pc'[Receive] = "put" /\ UNCHANGED <<fifo, RxByte, RDRF, RxData>>
          /\ Receive \notin waitList[ByteReceived]
          /\ \/ /\ count[ByteReceived] > 0 /\ count'[ByteReceived] = count[ByteReceived] - 1
                /\ waitList'[ByteReceived] = waitList[ByteReceived]
             \/ /\ count[ByteReceived] = 0 /\ count'[ByteReceived] = 0
                /\ Receive \in waitList'[ByteReceived]
      BY <1>0, <2>1, WaitStep DEF Receive_Wait, Labels, Waits, uart, interrupt
    <3>2. Owed' = Owed
      BY <1>0, <3>1, SerialAssumption DEF Owed
    <3> QED
      BY <3>1, <3>2 DEF RxIdle, RxQuiet, NothingGot, InHand
  <2>2. CASE Receive_PutWait
    <3>1. /\ pc[Receive] = "put" /\ pc'[Receive] = "store"
          /\ UNCHANGED <<RxByte, RDRF, RxData>>
          /\ Receive \notin waitList[ByteReceived]
          /\ count'[ByteReceived] = count[ByteReceived]
      BY <1>0, <2>2, Different, WaitStep DEF Receive_PutWait, Labels, Waits, uart
    <3>2. Owed' = Owed - 1 /\ Owed > 0
      BY <1>0, <3>1, SerialAssumption DEF Owed
    <3>3. /\ fifo'[Rx].queue = fifo[Rx].queue /\ NothingGot
          /\ fifo'[Rx].data = RxByte
      BY <1>01, <2>2, ArgumentEffect DEF Receive_PutWait, NothingGot
    <3> QED
      BY <3>1, <3>2, <3>3 DEF IsPassed
  <2>3. CASE Receive_PutStore
    <3>1. /\ pc[Receive] = "store" /\ pc'[Receive] = "putSignal"
          /\ UNCHANGED <<kernel, RxByte, RDRF, RxData>>
      BY <1>0, <2>3 DEF Receive_PutStore, At, Goto, uart, interrupt
    <3>2. /\ fifo'[Rx].queue = Append(fifo[Rx].queue, fifo[Rx].data)
          /\ NothingGot
      BY <1>01, <2>3, StoreEffect DEF Receive_PutStore, NothingGot
    <3> QED
      BY <3>1, <3>2, OwedStays DEF IsStored, kernel
  <2>4. ASSUME NEW at \in {"putSignal", "notify"}, NEW label \in {"notify", "wait"},
               NEW s \in {Items(Rx), Packet_ByteReady}, At(Receive, at), Signal(s),
               Goto(Receive, label), UNCHANGED <<fifo, uart, interrupt>>
        PROVE  RxIdle
    <3>1. /\ pc[Receive] = at /\ pc'[Receive] = label
          /\ count'[ByteReceived] = count[ByteReceived]
          /\ waitList'[ByteReceived] = waitList[ByteReceived]
      BY <1>0, <2>4, Different, RunningStep, SignalStep DEF Labels
    <3> QED
      BY <2>4, <3>1, LeavesIdle DEF uart, interrupt
  <2>5. CASE Receive_PutSignal \/ Receive_Notify
    BY <2>4, <2>5 DEF Receive_PutSignal, Receive_Notify
  <2> QED
    BY <1>5, <2>1, <2>2, <2>3, <2>5 DEF UART_ReceiveThread
<1>6. ASSUME NEW t \in {Transmit, Handle}, NEW s \in Semaphores, s # ByteReceived,
             NEW label \in Labels, Goto(t, label),
             \/ Wait(t, s) /\ Waits(t, s, label)
             \/ \E at : At(t, at) /\ (Signal(s) \/ UNCHANGED kernel),
             fifo'[Rx] = fifo[Rx], UNCHANGED <<RxByte, RDRF, RxData>>
      PROVE  RxIdle
  BY <1>0, <1>6, OthersIdle, LeavesIdle
<1>7. CASE UART_TransmitThread
  <2> USE <1>0, <1>6, Different DEF Labels, Waits, interrupt, uart
  <2>1. CASE Transmit_Wait
    BY <2>1 DEF Transmit_Wait
  <2>2. CASE Transmit_Check
    BY <2>2 DEF Transmit_Check
  <2>3. CASE Transmit_GetWait
    BY <2>3 DEF Transmit_GetWait
  <2>4. CASE Transmit_GetFetch
    <3>1. fifo'[Rx] = fifo[Rx]
      BY <1>01, <2>4 DEF Transmit_GetFetch, Fetch
    <3> QED
      BY <2>4, <3>1 DEF Transmit_GetFetch
  <2>5. CASE Transmit_GetSignal
    BY <2>5 DEF Transmit_GetSignal
  <2>6. CASE Transmit_Enable
    BY <2>6 DEF Transmit_Enable
  <2> QED
    BY <1>7, <2>1, <2>2, <2>3, <2>4, <2>5, <2>6 DEF UART_TransmitThread
<1>8. CASE Handle_PacketThread
  <2> USE <1>0, <1>6, Different DEF Labels, Waits, interrupt, uart
  <2>1. CASE Handle_Wait
    BY <2>1 DEF Handle_Wait
  <2>2. CASE Handle_GetWait
    BY <2>2 DEF Handle_GetWait
  <2>3. CASE Handle_GetFetch
    <3>1. /\ Handle \in readyList /\ Receive \notin readyList
          /\ Handle \notin waitList[Items(Rx)] /\ pc[Handle] = "fetch"
      BY <2>3 DEF Handle_GetFetch, At, Running, Kernel!Running, Kernel!Highest, Sleeping,
                  Receive, Handle
    <3>2. /\ pc'[Receive] = pc[Receive]
          /\ UNCHANGED <<kernel, RxByte, RDRF, RxData>>
      BY <2>3 DEF Handle_GetFetch, Goto
    <3>3. Side(Rx, Receive, Handle)!TypeOK /\ Side(Rx, Receive, Handle)!Accounting
      BY DEF Pipes
    <3>4. GetPc(Rx, Handle) = "fetch"
      BY <3>1 DEF GetPc
    <3>5. fifo[Rx].queue # <<>>
      <4>1. RxProofs!TypeOK /\ RxProofs!Accounting
        BY <3>3, SameRx
      <4>2. /\ FIFO_SIZE \in Nat /\ FIFO_SIZE >= 2
            /\ Zero \in Data
        BY SerialAssumption
      <4>3. Len(fifo[Rx].queue) >= 1
        BY <3>4, <4>1, <4>2, RxProofs!HeldAtAccess
      <4> QED
        BY <4>3
    <3>6. /\ fifo'[Rx].queue = Tail(fifo[Rx].queue)
          /\ fifo'[Rx].dataPtr = fifo[Rx].Buffer[fifo[Rx].Start]
          /\ fifo'[Rx].Start = IF fifo[Rx].Start + 1 = FIFO_SIZE - 1 THEN 0 ELSE fifo[Rx].Start + 1
          /\ fifo'[Rx].data = fifo[Rx].data
      BY <1>01, <2>3, <3>5, FetchEffect DEF Handle_GetFetch
    <3> QED
      BY <3>1, <3>2, <3>6, OwedStays DEF IsFetched, kernel
  <2>4. CASE Handle_GetSignal
    BY <2>4 DEF Handle_GetSignal
  <2>5. CASE Handle_Packet
    BY <2>5 DEF Handle_Packet
  <2>6. CASE \E d \in Data : Handle_PutWait(d)
    <3>1. PICK d \in Data : Handle_PutWait(d)
      BY <2>6
    <3>2. fifo'[Rx] = fifo[Rx]
      BY <1>01, <3>1 DEF Handle_PutWait, PutArgument
    <3> QED
      BY <3>1, <3>2 DEF Handle_PutWait
  <2>7. CASE Handle_PutStore
    <3>1. fifo'[Rx] = fifo[Rx]
      BY <1>01, <2>7 DEF Handle_PutStore, Store
    <3> QED
      BY <2>7, <3>1 DEF Handle_PutStore
  <2>8. CASE Handle_PutSignal
    BY <2>8 DEF Handle_PutSignal
  <2>9. CASE Handle_Enable
    BY <2>9 DEF Handle_Enable
  <2> QED
    BY <1>8, <2>1, <2>2, <2>3, <2>4, <2>5, <2>6, <2>7, <2>8, <2>9 DEF Handle_PacketThread
<1>9. CASE InitModulesThread
  BY <1>9, LeavesIdle DEF InitModulesThread, uart, interrupt, Kernel!OS_ThreadDelete
<1> QED
  BY <1>1, <1>2, <1>3, <1>4, <1>5, <1>7, <1>8, <1>9 DEF Next, UART_ISR

\* A receive thread that cannot run owes a put only if it waits for space.
LEMMA WaitsForSpace ==
  ASSUME IInv, Receive \notin readyList, Owed > 0
  PROVE  /\ pc[Receive] = "store" /\ Receive \in waitList[Free(Rx)]
         /\ Len(fifo[Rx].queue) >= FIFO_SIZE - 1
         /\ GetPc(Rx, Handle) # "signal" => Len(fifo[Rx].queue) = FIFO_SIZE
<1>1. Receive \in Threads \ {InitModules}
  BY DEF Threads, InitModules, Receive
<1>2. PICK s \in Semaphores : Receive \in waitList[s] /\ Waits(Receive, s, pc[Receive])
  BY <1>1 DEF IInv, Sleeping
<1>3. s # ByteReceived
  <2>1. ASSUME s = ByteReceived PROVE FALSE
    <3>1. count[ByteReceived] = 0
      BY <1>2, <2>1, Different, SerialAssumption DEF IInv, Sleeping
    <3> QED
      BY <1>2, <2>1, <3>1 DEF Owed
  <2> QED
    BY <2>1
<1>4. s = Free(Rx) /\ pc[Receive] = "store"
  BY <1>2, <1>3 DEF Waits, Receive, Transmit, Handle
<1>5. PutPc(Rx, Receive) = "blocked"
  BY <1>2, <1>4 DEF PutPc
<1>6. Side(Rx, Receive, Handle)!TypeOK /\ Side(Rx, Receive, Handle)!Accounting
  BY DEF IInv, Pipes
<1>7. count[Free(Rx)] = 0
  BY <1>5, <1>6 DEF Side!Accounting, Side!Blocked
<1> DEFINE length == Len(fifo[Rx].queue)
           taken == IF GetPc(Rx, Handle) = "signal" THEN 1 ELSE 0
<1>8. length \in Nat
  <2>1. fifo[Rx].queue \in Seq(Data)
    BY <1>6 DEF Side!TypeOK
  <2> QED
    BY <2>1, LenProperties
<1>9. length + taken = FIFO_SIZE
  <2>1. count[Free(Rx)] + (IF PutPc(Rx, Receive) = "store" THEN 1 ELSE 0) + length + taken
          = FIFO_SIZE
    BY <1>6 DEF Side!Accounting, Side!Credits, Side!One
  <2>2. (IF PutPc(Rx, Receive) = "store" THEN 1 ELSE 0) = 0 /\ taken \in {0, 1}
    BY <1>5
  <2> HIDE DEF length, taken
  <2>3. 0 + 0 + length + taken = FIFO_SIZE
    BY <1>7, <2>1, <2>2
  <2> QED
    BY <1>8, <2>2, <2>3
<1>10. taken \in {0, 1} /\ (GetPc(Rx, Handle) # "signal" => taken = 0)
  OBVIOUS
<1> HIDE DEF length, taken
<1>11. length >= FIFO_SIZE - 1 /\ (GetPc(Rx, Handle) # "signal" => length = FIFO_SIZE)
  BY <1>8, <1>9, <1>10, SerialAssumption
<1> QED
  BY <1>2, <1>4, <1>11 DEF length

\* InitModulesThread does not come back, and only the line and the interrupt
\* routine touch the mark of an early byte.
LEMMA StartStep ==
  ASSUME Sleeping, Next
  PROVE  /\ InitModules \in readyList' => InitModules \in readyList
         /\ \/ early' = early /\ (RDRF' => RDRF)
            \/ ~ RDRF' /\ ~ early'
            \/ ~ RDRF /\ (early' <=> InitModules \in readyList)
<1>1. InitModules \in readyList' => InitModules \in readyList
  <2>1. CASE UNCHANGED kernel
    BY <2>1 DEF kernel
  <2>2. CASE \E t \in Threads, s \in Semaphores : Wait(t, s)
    BY <2>2 DEF Wait, Kernel!OS_SemaphoreWait
  <2>3. CASE \E s \in Semaphores : Signal(s)
    <3>1. PICK s \in Semaphores : Signal(s)
      BY <2>3
    <3>2. InitModules \notin waitList[s]
      BY DEF Sleeping, Waits, InitModules, Receive, Transmit, Handle, Threads
    <3> QED
      BY <3>1, <3>2 DEF Signal, Kernel!OS_SemaphoreSignal, Kernel!SignalOverflows,
                        Kernel!SignalCounts, Kernel!SignalHandsOver, Kernel!Highest,
                        Kernel!vars
  <2>4. CASE \E t \in Threads : Kernel!OS_ThreadDelete(t)
    BY <2>4 DEF Kernel!OS_ThreadDelete
  <2> QED
    BY <2>1, <2>2, <2>3, <2>4, KernelStep
<1>2. CASE \E d \in Data : Line_Receive(d)
  BY <1>1, <1>2 DEF Line_Receive
<1>3. CASE Line_Transmit \/ UART_ISR
  BY <1>1, <1>3 DEF Line_Transmit, UART_ISR, ISR_Enter, ISR_Receive, ISR_Transmit, uart, interrupt
<1>4. InitModulesThread \/ UART_ReceiveThread \/ UART_TransmitThread \/ Handle_PacketThread
        => UNCHANGED <<early, RDRF>>
  BY DEF InitModulesThread, UART_ReceiveThread, Receive_Wait, Receive_PutWait,
         Receive_PutStore, Receive_PutSignal, Receive_Notify, UART_TransmitThread,
         Transmit_Wait, Transmit_Check, Transmit_GetWait, Transmit_GetFetch,
         Transmit_GetSignal, Transmit_Enable, Handle_PacketThread, Handle_Wait,
         Handle_GetWait, Handle_GetFetch, Handle_GetSignal, Handle_Packet, Handle_PutWait,
         Handle_PutStore, Handle_PutSignal, Handle_Enable, uart, interrupt
<1> QED
  BY <1>1, <1>2, <1>3, <1>4 DEF Next

\* The threads stay started, and a byte that waits in the receiver while they
\* start is an early one.
LEMMA EarlyStep ==
  ASSUME Sleeping, Early, Next
  PROVE  /\ Early'
         /\ Started => Started'
         /\ RDRF /\ RDRF' /\ Started' => Started
BY StartStep DEF Early, Started

\* Only a fetch makes room, and then the thread that waits for space still holds
\* the byte it is going to store there.
LEMMA CrowdedStep ==
  ASSUME IInv, Seen, Early, Crowded, Next
  PROVE  Crowded'
<1> DEFINE length == Len(fifo[Rx].queue)
<1>0. RDRF /\ RDRF' /\ Started' => Started
  BY EarlyStep DEF IInv
<1>1. /\ fifo[Rx].queue \in Seq(Data) /\ fifo[Rx].data \in Data
      /\ length \in Nat /\ Owed \in Nat
  <2>1. fifo[Rx].queue \in Seq(Data) /\ fifo[Rx].data \in Data
    BY DEF IInv, Pipes, Side!TypeOK
  <2>2. count[ByteReceived] \in Nat
    BY Different, SerialAssumption DEF IInv, Sleeping
  <2> QED
    BY <2>1, <2>2, LenProperties DEF Owed
<1>2. CASE RxIdle
  BY <1>0, <1>2 DEF RxIdle, RxQuiet, NothingGot, Crowded, Held
<1>3. CASE Arrives
  <2> SUFFICES ASSUME Started', Owed > 0 PROVE length' + Held' >= FIFO_SIZE
    BY <1>3 DEF Arrives, Crowded
  <2>1. pc[Receive] = "store" /\ length >= FIFO_SIZE - 1
    BY <1>1, <1>3, WaitsForSpace, SerialAssumption DEF Arrives
  <2>2. length' = length /\ Held' = 1
    BY <1>3, <2>1 DEF Arrives, RxQuiet, NothingGot, Held
  <2> HIDE DEF length
  <2> QED
    BY <1>1, <2>1, <2>2, SerialAssumption
<1>4. CASE IsRead
  BY <1>4 DEF IsRead, Crowded
<1>5. CASE IsPassed
  <2> SUFFICES ASSUME Started', RDRF' PROVE Owed' > 0 => length' + Held' >= FIFO_SIZE
    BY DEF Crowded
  <2>0. Owed > 0 => length + Held >= FIFO_SIZE
    BY <1>0, <1>5 DEF Crowded, IsPassed
  <2>1. length' = length /\ Held = 0 /\ Held' = 1 /\ Owed' = Owed - 1 /\ RDRF' = RDRF
    BY <1>5 DEF IsPassed, Held
  <2> HIDE DEF length
  <2> QED
    BY <1>1, <2>0, <2>1, SerialAssumption
<1>6. CASE IsStored
  <2> SUFFICES ASSUME Started', RDRF' PROVE Owed' > 0 => length' + Held' >= FIFO_SIZE
    BY DEF Crowded
  <2>1. length' = length + 1
    BY <1>1, <1>6, AppendProperties DEF IsStored
  <2>2. Held = 1 /\ Held' = 0 /\ Owed' = Owed /\ RDRF' = RDRF
    BY <1>6 DEF IsStored, Held
  <2>3. Owed > 0 => length + Held >= FIFO_SIZE
    BY <1>0, <2>2 DEF Crowded
  <2> HIDE DEF length
  <2> QED
    BY <1>1, <2>1, <2>2, <2>3, SerialAssumption
<1>7. CASE IsFetched
  <2> SUFFICES ASSUME Owed > 0 PROVE length' + Held' >= FIFO_SIZE
    BY <1>7 DEF IsFetched, Crowded
  <2>1. GetPc(Rx, Handle) = "fetch"
    BY <1>7 DEF IsFetched, GetPc
  <2>2. pc[Receive] = "store" /\ length = FIFO_SIZE
    BY <1>1, <1>7, <2>1, WaitsForSpace, SerialAssumption DEF IsFetched
  <2>3. fifo[Rx].queue # <<>>
    BY <2>2, EmptySeq, SerialAssumption
  <2>4. length' = length - 1
    BY <1>1, <1>7, <2>3, HeadTailProperties DEF IsFetched
  <2>5. Held' = 1
    BY <1>7, <2>2 DEF IsFetched, Held
  <2> HIDE DEF length
  <2> QED
    BY <2>2, <2>4, <2>5, SerialAssumption
<1> QED
  BY <1>2, <1>3, <1>4, <1>5, <1>6, <1>7, ReceiveMoves

\* Nothing but the interrupt routine empties the receiver.
LEMMA SeenStep ==
  ASSUME IInv, Seen, Next
  PROVE  Seen'
<1>1. CASE UART_ISR
  BY <1>1 DEF UART_ISR, ISR_Enter, ISR_Receive, ISR_Transmit, Seen, uart
<1>2. CASE \E d \in Data : Line_Receive(d)
  BY <1>2 DEF Line_Receive, Seen, interrupt
<1>3. CASE Line_Transmit
  BY <1>3 DEF Line_Transmit, Seen, interrupt
<1>4. InitModulesThread \/ UART_ReceiveThread \/ UART_TransmitThread \/ Handle_PacketThread
        => UNCHANGED <<isr, status, RDRF>>
  BY DEF InitModulesThread, UART_ReceiveThread, Receive_Wait, Receive_PutWait, Receive_PutStore,
         Receive_PutSignal, Receive_Notify, UART_TransmitThread, Transmit_Wait, Transmit_Check,
         Transmit_GetWait, Transmit_GetFetch, Transmit_GetSignal, Transmit_Enable,
         Handle_PacketThread, Handle_Wait, Handle_GetWait, Handle_GetFetch, Handle_GetSignal,
         Handle_Packet, Handle_PutWait, Handle_PutStore, Handle_PutSignal, Handle_Enable,
         uart, interrupt
<1> QED
  BY <1>1, <1>2, <1>3, <1>4 DEF Next, Seen

\* Copies of a byte are a sequence.
LEMMA CopiesAreBytes ==
  ASSUME NEW n \in Nat, NEW d \in Data
  PROVE  /\ Copies(n, d) \in Seq(Data) /\ Len(Copies(n, d)) = n
         /\ \A i \in 1 .. n : Copies(n, d)[i] = d
BY DEF Copies

\* One copy more, at the front.
LEMMA CopyInFront ==
  ASSUME NEW n \in Nat, NEW d \in Data
  PROVE  Copies(n + 1, d) = <<d>> \o Copies(n, d)
<1>1. /\ Copies(n, d) \in Seq(Data) /\ Len(Copies(n, d)) = n
      /\ \A i \in 1 .. n : Copies(n, d)[i] = d
  BY CopiesAreBytes
<1>2. /\ Copies(n + 1, d) \in Seq(Data) /\ Len(Copies(n + 1, d)) = n + 1
      /\ \A i \in 1 .. n + 1 : Copies(n + 1, d)[i] = d
  BY CopiesAreBytes
<1>3. <<d>> \in Seq(Data) /\ Len(<<d>>) = 1 /\ <<d>>[1] = d
  OBVIOUS
<1> DEFINE c == Copies(n, d)
           e == Copies(n + 1, d)
           s == <<d>>
           f == s \o c
<1> HIDE DEF c, e, s
<1>4. /\ s \o c \in Seq(Data) /\ Len(s \o c) = 1 + n
      /\ \A i \in 1 .. 1 + n : (s \o c)[i] = IF i <= 1 THEN s[i] ELSE c[i - 1]
  BY <1>1, <1>3, ConcatProperties DEF c, s
<1>5. \A i \in 1 .. n + 1 : e[i] = (s \o c)[i]
  BY <1>1, <1>2, <1>3, <1>4 DEF c, e, s
<1>6. e \in Seq(Data) /\ f \in Seq(Data) /\ Len(e) = Len(f) /\ Len(e) = n + 1
  BY <1>2, <1>4 DEF e
<1>7. \A i \in 1 .. Len(e) : e[i] = f[i]
  BY <1>5, <1>6
<1> HIDE DEF f
<1>8. e = f
  BY <1>6, <1>7, SeqEqual
<1> QED
  BY <1>8 DEF c, e, s, f

\* The parts of Outstanding are sequences of bytes.
LEMMA PartsAreBytes ==
  ASSUME IInv
  PROVE  /\ fifo[Rx].queue \in Seq(Data) /\ fifo[Rx].data \in Data
         /\ fifo[Rx].dataPtr \in Data /\ RxByte \in Data /\ Owed \in Nat
         /\ InHand \in Seq(Data) /\ InReceiver \in Seq(Data)
         /\ Copies(Owed, RxByte) \in Seq(Data)
<1>1. /\ fifo[Rx].queue \in Seq(Data) /\ fifo[Rx].data \in Data
      /\ fifo[Rx].dataPtr \in Data /\ RxByte \in Data /\ RxData \in Data
  BY DEF IInv, Pipes, Device, Side!TypeOK
<1>2. Owed \in Nat
  <2>1. count[ByteReceived] \in Nat
    BY Different, SerialAssumption DEF IInv, Sleeping
  <2> QED
    BY <2>1 DEF Owed
<1>3. InHand \in Seq(Data) /\ InReceiver \in Seq(Data)
  BY <1>1 DEF InHand, InReceiver
<1> QED
  BY <1>1, <1>2, <1>3, CopiesAreBytes

\* A byte that arrives goes behind the others.
LEMMA ArrivesDelivers ==
  ASSUME IInv, Arrives
  PROVE  \E d \in Data : Line!Deliver(d)
<1> DEFINE a == fifo[Rx].queue
           b == InHand
           c == Copies(Owed, RxByte)
           d == RxData'
<1>1. a \in Seq(Data) /\ b \in Seq(Data) /\ c \in Seq(Data) /\ d \in Data
  BY PartsAreBytes DEF Arrives
<1>2. /\ a' = a /\ b' = b /\ c' = c
      /\ InReceiver = <<>> /\ InReceiver' = <<d>>
      /\ NothingGot
  BY DEF Arrives, RxQuiet, NothingGot, InReceiver
<1>3. Outstanding = ((a \o b) \o c) \o <<>> /\ Outstanding' = ((a \o b) \o c) \o <<d>>
  BY <1>2 DEF Outstanding
<1> HIDE DEF a, b, c, d
<1>4. (a \o b) \o c \in Seq(Data)
  BY <1>1, ConcatProperties
<1>5. Outstanding' = Append(Outstanding, d)
  BY <1>1, <1>3, <1>4, ConcatEmptySeq, AppendIsConcat
<1> QED
  BY <1>1, <1>2, <1>5 DEF Line!Deliver, NothingGot

\* Passing the byte in RxByte to FIFO_Put is not visible, nor is storing it.
LEMMA PassingIsInvisible ==
  ASSUME IInv, IsPassed
  PROVE  Outstanding' = Outstanding
<1> DEFINE a == fifo[Rx].queue
           x == <<RxByte>>
           c == Copies(Owed - 1, RxByte)
           r == InReceiver
<1>1. Owed \in Nat /\ Owed > 0 /\ Owed - 1 \in Nat /\ RxByte \in Data
  BY PartsAreBytes DEF IsPassed
<1>2. a \in Seq(Data) /\ x \in Seq(Data) /\ c \in Seq(Data) /\ r \in Seq(Data)
  <2>1. a \in Seq(Data) /\ r \in Seq(Data)
    BY PartsAreBytes
  <2>2. c \in Seq(Data)
    BY <1>1, CopiesAreBytes
  <2>3. x \in Seq(Data)
    BY <1>1
  <2> QED
    BY <2>1, <2>2, <2>3
<1>3. Copies(Owed, RxByte) = x \o c
  <2>1. Copies((Owed - 1) + 1, RxByte) = x \o c
    BY <1>1, CopyInFront
  <2>2. (Owed - 1) + 1 = Owed
    BY <1>1
  <2> QED
    BY <2>1, <2>2
<1>4. InHand = <<>> /\ InHand' = x
  BY DEF IsPassed, InHand
<1>5. /\ fifo'[Rx].queue = a /\ InReceiver' = r
      /\ Copies(Owed, RxByte)' = c
  <2>1. Copies(Owed, RxByte)' = Copies(Owed', RxByte')
    BY DEF Copies
  <2> QED
    BY <2>1 DEF IsPassed, InReceiver
<1>6. Outstanding = ((a \o <<>>) \o (x \o c)) \o r
  BY <1>3, <1>4 DEF Outstanding
<1>7. Outstanding' = ((a \o x) \o c) \o r
  BY <1>4, <1>5 DEF Outstanding
<1> HIDE DEF a, x, c, r
<1>8. a \o <<>> = a /\ (a \o x) \o c = a \o (x \o c)
  BY <1>2, ConcatEmptySeq, ConcatAssociative
<1> QED
  BY <1>6, <1>7, <1>8

LEMMA StoringIsInvisible ==
  ASSUME IInv, IsStored
  PROVE  Outstanding' = Outstanding
<1> DEFINE a == fifo[Rx].queue
           x == <<fifo[Rx].data>>
           c == Copies(Owed, RxByte)
           r == InReceiver
<1>1. /\ a \in Seq(Data) /\ fifo[Rx].data \in Data /\ x \in Seq(Data)
      /\ c \in Seq(Data) /\ r \in Seq(Data)
  BY PartsAreBytes
<1>2. InHand = x /\ InHand' = <<>> /\ InReceiver' = r /\ c' = c
  BY DEF IsStored, InHand, InReceiver
<1>3. fifo'[Rx].queue = a \o x
  BY <1>1, AppendIsConcat DEF IsStored
<1>4. Outstanding = ((a \o x) \o c) \o r /\ Outstanding' = (((a \o x) \o <<>>) \o c) \o r
  BY <1>2, <1>3 DEF Outstanding
<1> HIDE DEF a, x, c, r
<1>5. (a \o x) \o <<>> = a \o x
  BY <1>1, ConcatProperties, ConcatEmptySeq
<1> QED
  BY <1>4, <1>5

\* A fetch takes the oldest byte, unless RxFIFO holds one more than it keeps.
LEMMA FetchGets ==
  ASSUME IInv, RxProofs!Ring, IsFetched
  PROVE  Line!Get
<1> DEFINE a == fifo[Rx].queue
           b == InHand
           c == Copies(Owed, RxByte)
           r == InReceiver
           rest == (b \o c) \o r
<1>1. a \in Seq(Data) /\ b \in Seq(Data) /\ c \in Seq(Data) /\ r \in Seq(Data)
  BY PartsAreBytes
<1>2. rest \in Seq(Data)
  BY <1>1, ConcatProperties
<1>3. b' = b /\ c' = c /\ r' = r /\ fifo'[Rx].queue = Tail(a)
  BY DEF IsFetched, InHand, InReceiver
<1>4. Side(Rx, Receive, Handle)!TypeOK /\ Side(Rx, Receive, Handle)!Accounting
  BY DEF IInv, Pipes
<1>5. /\ FIFO_SIZE \in Nat /\ FIFO_SIZE >= 2
      /\ Zero \in Data
  BY SerialAssumption
<1>6. Len(a) \in 1 .. FIFO_SIZE
  <2>1. GetPc(Rx, Handle) = "fetch"
    BY DEF IsFetched, GetPc
  <2>2. RxProofs!TypeOK /\ RxProofs!Accounting
    BY <1>4, SameRx
  <2>3. Len(a) \in 0 .. FIFO_SIZE /\ Len(a) >= 1
    BY <1>5, <2>1, <2>2, RxProofs!HeldAtAccess
  <2> QED
    BY <1>5, <2>3
<1>7. a # <<>>
  BY <1>6
<1>8. fifo'[Rx].dataPtr \in Data /\ (Len(a) <= FIFO_SIZE - 1 => fifo'[Rx].dataPtr = a[1])
  <2>1. fifo[Rx].Start \in 0 .. FIFO_SIZE - 2 /\ fifo[Rx].Buffer \in [0 .. FIFO_SIZE - 1 -> Data]
    BY <1>4, <1>5 DEF Side!TypeOK, Side!Slots
  <2>2. RxProofs!Slot(1) = fifo[Rx].Start
    BY <1>5, <2>1 DEF RxProofs!Slot, RxProofs!Slots
  <2>3. Len(a) < FIFO_SIZE => fifo[Rx].Buffer[RxProofs!Slot(1)] = a[1]
    BY <1>6, <1>5 DEF RxProofs!Ring, RxProofs!Contents
  <2> QED
    BY <1>5, <1>6, <2>1, <2>2, <2>3 DEF IsFetched
<1>9. Outstanding = ((a \o b) \o c) \o r /\ Outstanding' = ((Tail(a) \o b) \o c) \o r
  BY <1>3 DEF Outstanding
<1> HIDE DEF a, b, c, r
<1>10. Tail(a) \in Seq(Data)
  BY <1>1, <1>7, HeadTailProperties
<1>11. b \o c \in Seq(Data)
  BY <1>1, ConcatProperties
<1>12. Outstanding = a \o rest
  <2>1. (a \o b) \o c = a \o (b \o c)
    BY <1>1, ConcatAssociative
  <2>2. (a \o (b \o c)) \o r = a \o ((b \o c) \o r)
    BY <1>1, <1>11, ConcatAssociative
  <2> QED
    BY <1>9, <2>1, <2>2
<1>13. Outstanding' = Tail(a) \o rest
  <2>1. (Tail(a) \o b) \o c = Tail(a) \o (b \o c)
    BY <1>1, <1>10, ConcatAssociative
  <2>2. (Tail(a) \o (b \o c)) \o r = Tail(a) \o ((b \o c) \o r)
    BY <1>1, <1>10, <1>11, ConcatAssociative
  <2> QED
    BY <1>9, <2>1, <2>2
<1> HIDE DEF rest
<1>14. Len(a \o rest) = Len(a) + Len(rest) /\ Len(rest) \in Nat /\ a \o rest \in Seq(Data)
  BY <1>1, <1>2, ConcatProperties, LenProperties
<1>15. a \o rest # <<>>
  BY <1>6, <1>14, EmptySeq
<1>16. Head(a \o rest) = a[1]
  <2>1. (a \o rest)[1] = a[1]
    BY <1>1, <1>2, <1>6, ConcatProperties, LenProperties
  <2> QED
    BY <2>1, <1>14, <1>15
<1>17. Tail(a \o rest) = Tail(a) \o rest
  <2>1. Len(Tail(a)) = Len(a) - 1 /\ \A i \in 1 .. Len(a) - 1 : Tail(a)[i] = a[i + 1]
    BY <1>1, <1>7, HeadTailProperties
  <2>2. /\ Tail(a \o rest) \in Seq(Data)
        /\ Len(Tail(a \o rest)) = Len(a) + Len(rest) - 1
        /\ \A i \in 1 .. Len(a) + Len(rest) - 1 : Tail(a \o rest)[i] = (a \o rest)[i + 1]
    BY <1>14, <1>15, HeadTailProperties
  <2>3. /\ Tail(a) \o rest \in Seq(Data)
        /\ Len(Tail(a) \o rest) = Len(Tail(a)) + Len(rest)
        /\ \A i \in 1 .. Len(Tail(a)) + Len(rest) :
              (Tail(a) \o rest)[i] = IF i <= Len(Tail(a)) THEN Tail(a)[i] ELSE rest[i - Len(Tail(a))]
    BY <1>2, <1>10, ConcatProperties
  <2>4. \A i \in 1 .. Len(a) + Len(rest) :
            (a \o rest)[i] = IF i <= Len(a) THEN a[i] ELSE rest[i - Len(a)]
    BY <1>1, <1>2, ConcatProperties
  <2> DEFINE t == Tail(a \o rest)
             u == Tail(a) \o rest
             v == a \o rest
             m == Len(a)
             n == Len(rest)
  <2> HIDE DEF t, u, v, m, n
  <2>5. m \in Nat /\ m >= 1 /\ n \in Nat
    BY <1>5, <1>6, <1>14 DEF m, n
  <2>6. ASSUME NEW i \in 1 .. m + n - 1
        PROVE  t[i] = u[i]
    <3>1. i + 1 \in 1 .. m + n /\ i \in 1 .. (m - 1) + n
      BY <2>5
    <3>2. t[i] = v[i + 1]
      BY <2>2 DEF t, v, m, n
    <3>3. v[i + 1] = IF i + 1 <= m THEN a[i + 1] ELSE rest[i + 1 - m]
      BY <2>4, <3>1 DEF v, m, n
    <3>4. u[i] = IF i <= m - 1 THEN Tail(a)[i] ELSE rest[i - (m - 1)]
      BY <2>1, <2>3, <3>1 DEF u, m, n
    <3>5. CASE i <= m - 1
      <4>1. i + 1 <= m /\ i \in 1 .. m - 1
        BY <2>5, <3>5
      <4>2. Tail(a)[i] = a[i + 1]
        BY <2>1, <4>1 DEF m
      <4> QED
        BY <3>2, <3>3, <3>4, <3>5, <4>1, <4>2
    <3>6. CASE ~ (i <= m - 1)
      <4>1. ~ (i + 1 <= m) /\ i + 1 - m = i - (m - 1)
        BY <2>5, <3>6
      <4> QED
        BY <3>2, <3>3, <3>4, <3>6, <4>1
    <3> QED
      BY <3>5, <3>6
  <2>7. t \in Seq(Data) /\ u \in Seq(Data) /\ Len(t) = m + n - 1
    BY <2>2, <2>3 DEF t, u, m, n
  <2>8. Len(u) = (m - 1) + n
    BY <2>1, <2>3 DEF u, m, n
  <2>9. Len(t) = Len(u)
    BY <2>5, <2>7, <2>8
  <2>10. \A i \in 1 .. Len(t) : t[i] = u[i]
    BY <2>6, <2>7
  <2>11. t = u
    BY <2>7, <2>9, <2>10, SeqEqual
  <2> QED
    BY <2>11 DEF t, u
<1>18. Len(Outstanding) <= FIFO_SIZE - 1 => fifo'[Rx].dataPtr = Head(Outstanding)
  BY <1>5, <1>6, <1>8, <1>12, <1>13, <1>14, <1>16 DEF a
<1> QED
  BY <1>8, <1>12, <1>13, <1>15, <1>17, <1>18 DEF Line!Get, IsFetched

\* Reading a byte that finds RxByte free is not visible.
LEMMA ReadingIsInvisible ==
  ASSUME IInv, IsRead, Owed = 0
  PROVE  Outstanding' = Outstanding
<1> DEFINE a == fifo[Rx].queue
           b == InHand
           x == RxData
<1>1. a \in Seq(Data) /\ b \in Seq(Data) /\ x \in Data /\ RxByte \in Data
  BY PartsAreBytes DEF IInv, Device
<1>2. /\ fifo'[Rx].queue = a /\ b' = b /\ InReceiver = <<x>> /\ InReceiver' = <<>>
      /\ RxByte' = x /\ Owed' = 1
  BY DEF IsRead, RxQuiet, NothingGot, InReceiver
<1>3. Copies(Owed, RxByte) = <<>>
  BY <1>1, CopiesAreBytes, EmptySeq
<1>4. Copies(Owed, RxByte)' = <<x>>
  <2>1. Copies(Owed, RxByte)' = Copies(0 + 1, x)
    BY <1>2 DEF Copies
  <2>2. Copies(0 + 1, x) = <<x>> \o Copies(0, x)
    BY <1>1, CopyInFront
  <2>3. Copies(0, x) = <<>> /\ <<x>> \in Seq(Data)
    BY <1>1, CopiesAreBytes, EmptySeq
  <2> QED
    BY <2>1, <2>2, <2>3, ConcatEmptySeq
<1>5. Outstanding = ((a \o b) \o <<>>) \o <<x>> /\ Outstanding' = ((a \o b) \o <<x>>) \o <<>>
  BY <1>2, <1>3, <1>4 DEF Outstanding
<1> HIDE DEF a, b
<1>6. a \o b \in Seq(Data) /\ <<x>> \in Seq(Data)
  BY <1>1, ConcatProperties
<1>7. (a \o b) \o <<x>> \in Seq(Data)
  BY <1>6, ConcatProperties
<1>8. (a \o b) \o <<>> = a \o b /\ ((a \o b) \o <<x>>) \o <<>> = (a \o b) \o <<x>>
  BY <1>6, <1>7, ConcatEmptySeq
<1> QED
  BY <1>5, <1>8

\* What stands where in two sequences joined and ended by a byte.
LEMMA JoinedAndEnded ==
  ASSUME NEW u, NEW s \in Seq(Data), NEW t \in Seq(Data), NEW x,
         x \in Data, u = (s \o t) \o <<x>>
  PROVE  /\ u \in Seq(Data) /\ Len(u) = Len(s) + Len(t) + 1 /\ u[Len(u)] = x
         /\ \A i \in 1 .. Len(s) : u[i] = s[i]
<1> DEFINE m == Len(s)
           n == Len(s) + Len(t)
           st == s \o t
           e == <<x>>
<1>1. m \in Nat /\ Len(t) \in Nat
  BY LenProperties
<1>2. st \in Seq(Data) /\ Len(st) = n /\ \A i \in 1 .. n : st[i] = IF i <= m THEN s[i] ELSE t[i - m]
  BY ConcatProperties
<1>3. e \in Seq(Data) /\ Len(e) = 1 /\ e[1] = x
  OBVIOUS
<1> HIDE DEF st, e, n
<1>4. /\ st \o e \in Seq(Data) /\ Len(st \o e) = n + 1
      /\ \A i \in 1 .. n + 1 : (st \o e)[i] = IF i <= n THEN st[i] ELSE e[i - n]
  <2>1. /\ st \o e \in Seq(Data) /\ Len(st \o e) = Len(st) + Len(e)
        /\ \A i \in 1 .. Len(st) + Len(e) :
             (st \o e)[i] = IF i <= Len(st) THEN st[i] ELSE e[i - Len(st)]
    BY <1>2, <1>3, ConcatProperties
  <2> QED
    BY <2>1, <1>2, <1>3
<1>5. u = st \o e
  BY DEF st, e
<1>6. /\ u \in Seq(Data) /\ Len(u) = n + 1
      /\ \A i \in 1 .. n + 1 : u[i] = IF i <= n THEN st[i] ELSE e[i - n]
  BY <1>4, <1>5
<1>7. n \in Nat /\ m <= n
  BY <1>1 DEF n
<1> HIDE DEF m
<1>8. u[n + 1] = x
  <2>1. n + 1 \in 1 .. n + 1 /\ ~ (n + 1 <= n) /\ n + 1 - n = 1
    BY <1>7
  <2> QED
    BY <2>1, <1>3, <1>6
<1>9. ASSUME NEW i \in 1 .. m
      PROVE  u[i] = s[i]
  <2>1. i \in 1 .. n + 1 /\ i \in 1 .. n /\ i <= n /\ i <= m
    BY <1>1, <1>7 DEF m
  <2> QED
    BY <2>1, <1>2, <1>6
<1> QED
  BY <1>6, <1>8, <1>9 DEF m, n

\* One that finds a byte in RxByte turns all that are owed into copies of itself:
\* what is lost are bytes behind those that fill RxFIFO, once the threads are
\* started.
LEMMA ReadingOverruns ==
  ASSUME IInv, Crowded, IsRead, Owed > 0
  PROVE  Line!Overrun
<1> DEFINE a == fifo[Rx].queue
           b == InHand
           ab == a \o b
           x == RxData
           c == Copies(Owed, RxByte)
           e == Copies(Owed', x)
           K == Len(ab)
           left == K + Owed'
<1>1. /\ a \in Seq(Data) /\ b \in Seq(Data) /\ c \in Seq(Data) /\ x \in Data
      /\ Owed \in Nat /\ RxByte \in Data
  BY PartsAreBytes DEF IInv, Device
<1>2. /\ fifo'[Rx].queue = a /\ b' = b /\ InReceiver = <<x>> /\ InReceiver' = <<>>
      /\ Copies(Owed, RxByte)' = e /\ NothingGot
      /\ Owed' \in {Owed, Owed + 1}
  BY DEF IsRead, RxQuiet, NothingGot, InReceiver, Copies
<1>3. Owed' \in Nat
  BY <1>1, <1>2
<1>4. Len(c) = Owed /\ e \in Seq(Data) /\ Len(e) = Owed' /\ \A i \in 1 .. Owed' : e[i] = x
  BY <1>1, <1>3, CopiesAreBytes
<1>5. Len(b) = Held /\ Held \in {0, 1}
  BY DEF InHand, Held
<1>6. Len(a) \in Nat /\ (Started => Len(a) + Held >= FIFO_SIZE)
  BY <1>1, LenProperties DEF Crowded, IsRead
<1>7. Outstanding = (ab \o c) \o <<x>> /\ Outstanding' = (ab \o e) \o <<>>
  BY <1>2 DEF Outstanding
<1>8. ab \in Seq(Data) /\ K = Len(a) + Held
  BY <1>1, <1>5, ConcatProperties
<1>9. K \in Nat /\ (Started => K >= FIFO_SIZE)
  BY <1>5, <1>6, <1>8
<1> HIDE DEF a, b, ab, c, e, K, x
<1>10. /\ Outstanding \in Seq(Data) /\ Len(Outstanding) = K + Owed + 1
       /\ Outstanding[Len(Outstanding)] = x /\ \A i \in 1 .. K : Outstanding[i] = ab[i]
  <2>1. Outstanding = (ab \o c) \o <<x>>
    BY <1>7
  <2>2. /\ Outstanding \in Seq(Data) /\ Len(Outstanding) = Len(ab) + Len(c) + 1
        /\ Outstanding[Len(Outstanding)] = x /\ \A i \in 1 .. Len(ab) : Outstanding[i] = ab[i]
    BY <1>1, <1>8, <2>1, JoinedAndEnded
  <2> QED
    BY <1>4, <2>2 DEF K
<1>11. /\ ab \o e \in Seq(Data) /\ Len(ab \o e) = left
       /\ \A i \in 1 .. left : (ab \o e)[i] = IF i <= K THEN ab[i] ELSE e[i - K]
  BY <1>4, <1>8, ConcatProperties DEF K
<1>12. Outstanding' = ab \o e
  BY <1>7, <1>11, ConcatEmptySeq
<1> DEFINE f == ab \o e
           last == Outstanding[Len(Outstanding)]
           g == [i \in 1 .. left |-> IF i <= K THEN Outstanding[i] ELSE last]
<1> HIDE DEF f, last
<1>13. ASSUME NEW i \in 1 .. left
       PROVE  f[i] = g[i]
  <2>1. f[i] = IF i <= K THEN ab[i] ELSE e[i - K]
    BY <1>11 DEF f
  <2>2. CASE i <= K
    <3>1. i \in 1 .. K
      BY <1>3, <1>9, <2>2
    <3> QED
      BY <1>10, <2>1, <2>2, <3>1
  <2>3. CASE ~ (i <= K)
    <3>1. i - K \in 1 .. Owed'
      <4> DEFINE p == Owed'
      <4>1. p \in Nat /\ K \in Nat /\ i \in 1 .. K + p /\ ~ (i <= K)
        BY <1>3, <1>9, <2>3
      <4> HIDE DEF p
      <4>2. i - K \in 1 .. p
        BY <4>1
      <4> QED
        BY <4>2 DEF p
    <3>2. f[i] = x
      BY <1>4, <2>1, <2>3, <3>1
    <3>3. last = x
      BY <1>10 DEF last
    <3> QED
      BY <2>3, <3>2, <3>3
  <2> QED
    BY <2>2, <2>3
<1>14. f = [i \in 1 .. left |-> f[i]]
  <2>1. f \in Seq(Data) /\ Len(f) = left
    BY <1>11 DEF f
  <2> QED
    BY <2>1, LenProperties
<1>15. f = g
  BY <1>13, <1>14
<1>16. K \in 0 .. Len(Outstanding) - 2 /\ (Started => K > FIFO_SIZE - 1)
  <2>1. Len(Outstanding) - 2 = K + Owed - 1
    BY <1>1, <1>9, <1>10
  <2> QED
    BY <1>1, <1>9, <2>1, SerialAssumption
<1>17. left \in {Len(Outstanding), Len(Outstanding) - 1}
  <2>1. Len(Outstanding) - 1 = K + Owed /\ Len(Outstanding) = K + (Owed + 1)
    BY <1>1, <1>9, <1>10
  <2>2. K + Owed' \in {K + Owed, K + (Owed + 1)}
    BY <1>2
  <2> QED
    BY <2>1, <2>2
<1> QED
  BY <1>2, <1>12, <1>15, <1>16, <1>17 DEF Line!Overrun, NothingGot, Started, f, last

\* The receiver, the interrupt routine, the receive thread and RxFIFO hand the
\* packet thread every byte that comes after the initialisation, each once and in
\* its turn, as long as no more than FIFO_SIZE - 1 wait; and when more wait, those
\* that have come into RxFIFO are safe.
THEOREM ReceivesInOrderHolds == Spec => ReceivesInOrder
<1> DEFINE Extra == Crowded /\ Seen /\ Early
<1>1. Init => Line!Init /\ Extra
  <2> SUFFICES ASSUME Init PROVE Line!Init /\ Extra
    OBVIOUS
  <2>1. IInv
    BY IInvInit
  <2>2. /\ fifo[Rx].queue = <<>> /\ fifo[Rx].Start = 0 /\ ~ RDRF /\ isr = "idle"
        /\ pc[Receive] = "wait"
    BY DEF Init, Threads, InitModules, Receive
  <2>3. count[ByteReceived] = 0 /\ InitModules \in readyList
    BY Different DEF Init, Kernel!Init, Threads
  <2>4. InHand = <<>> /\ InReceiver = <<>> /\ Owed = 0
    BY <2>2, <2>3 DEF InHand, InReceiver, Owed
  <2>5. Copies(Owed, RxByte) = <<>>
    BY <2>1, <2>4, PartsAreBytes, CopiesAreBytes, EmptySeq
  <2>6. Outstanding = ((<<>> \o <<>>) \o <<>>) \o <<>>
    BY <2>2, <2>4, <2>5 DEF Outstanding
  <2>7. Outstanding = <<>>
    BY <2>6, EmptySeq, ConcatEmptySeq
  <2> QED
    BY <2>1, <2>2, <2>3, <2>7, PartsAreBytes DEF Line!Init, Crowded, Seen, Early
<1>2. IInv /\ Extra /\ [Next]_vars => Extra'
  <2> SUFFICES ASSUME IInv, Extra, [Next]_vars PROVE Extra'
    OBVIOUS
  <2>1. CASE UNCHANGED vars
    BY <2>1 DEF vars, kernel, uart, interrupt, Crowded, Seen, Early, Started, Held, Owed
  <2>2. CASE Next
    BY <2>2, CrowdedStep, SeenStep, EarlyStep DEF IInv
  <2> QED
    BY <2>1, <2>2
<1>3. IInv /\ Extra /\ RxProofs!Ring /\ [Next]_vars => [Line!Next]_(Line!vars)
  <2> SUFFICES ASSUME IInv, Extra, RxProofs!Ring, [Next]_vars
               PROVE  [Line!Next]_(Line!vars)
    OBVIOUS
  <2>0. CASE UNCHANGED vars
    BY <2>0 DEF vars, kernel, uart, interrupt, Outstanding, InHand, InReceiver, Owed,
                Line!vars, Line!bytes
  <2>1. SUFFICES ASSUME Next
                 PROVE  Line!Next
    BY <2>0
  <2>2. Started => Started'
    BY <2>1, EarlyStep DEF IInv
  <2>3. SUFFICES \/ Line!Get \/ Line!Overrun \/ (\E d \in Data : Line!Deliver(d))
                 \/ Outstanding' = Outstanding /\ NothingGot
    BY <2>2 DEF Line!Next, Line!bytes, NothingGot, Started
  <2>4. CASE RxIdle
    BY <2>4 DEF RxIdle, RxQuiet, NothingGot, Outstanding, InReceiver, Copies
  <2>5. CASE Arrives
    BY <2>5, ArrivesDelivers
  <2>6. CASE IsRead
    <3>1. CASE Owed = 0
      BY <2>6, <3>1, ReadingIsInvisible DEF IsRead, RxQuiet
    <3>2. CASE Owed > 0
      BY <2>6, <3>2, ReadingOverruns
    <3> QED
      BY <3>1, <3>2, PartsAreBytes
  <2>7. CASE IsPassed
    BY <2>7, PassingIsInvisible DEF IsPassed
  <2>8. CASE IsStored
    BY <2>8, StoringIsInvisible DEF IsStored
  <2>9. CASE IsFetched
    BY <2>9, FetchGets
  <2> QED
    BY <2>1, <2>4, <2>5, <2>6, <2>7, <2>8, <2>9, ReceiveMoves
<1>4. Spec => []RxProofs!Ring
  <2>1. RxProofs!Spec => []RxProofs!Ring
    <3>1. FIFO_SIZE \in Nat /\ FIFO_SIZE >= 2 /\ Zero \in Data
      BY SerialAssumption
    <3> QED
      BY <3>1, RxProofs!RingHolds
  <2> QED
    BY <2>1, RxIsProved, PTL
<1> QED
  BY <1>1, <1>2, <1>3, <1>4, IInvHolds, PTL DEF Spec, ReceivesInOrder, Line!Spec
=============================================================================
