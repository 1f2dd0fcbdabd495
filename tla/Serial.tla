------------------------------- MODULE Serial -------------------------------
(***************************************************************************)
(* The serial port: UART.c with its interrupt routine and its two threads, *)
(* the two FIFOs of module FIFO, and the packet thread of handle.c as the  *)
(* reader of RxFIFO and the writer of TxFIFO, under the kernel of OS.      *)
(*                                                                         *)
(* The UART itself and the serial line are the environment.  The line is   *)
(* slow: at 115200 baud a byte takes 87 microseconds, so the receive       *)
(* thread, the most urgent one, has gone to sleep again before the next    *)
(* byte arrives.  Only InitModulesThread, which is more urgent still, can  *)
(* keep it from that, from the moment UART_Init enables the interrupts,    *)
(* where Init begins, until it deletes itself.                             *)
(*                                                                         *)
(* Left out: what the bytes of a packet mean.  After PACKET_SIZE_BYTES     *)
(* bytes Packet_Get either takes them for a packet or drops the oldest,    *)
(* and HandlePacket answers with none, one or two packets.  Packet_Put     *)
(* disables interrupts, but the wait in the FIFO_Put it calls enables them *)
(* again before anything is stored, so that is left out as well.           *)
(***************************************************************************)
EXTENDS Integers, FiniteSets, Sequences

CONSTANTS
    FIFO_SIZE, Data, Zero,  \* of both FIFOs
    PACKET_SIZE_BYTES,      \* 5 in the program
    MaxAnswers,             \* the most packets that answer one, 2 in the program
    MaxCount                \* the largest count of a semaphore

ASSUME SerialAssumption ==
    /\ FIFO_SIZE \in Nat /\ FIFO_SIZE >= 2
    /\ Zero \in Data
    /\ PACKET_SIZE_BYTES \in Nat \ {0}
    /\ MaxAnswers \in 0 .. 2
    /\ MaxCount \in Nat /\ MaxCount >= FIFO_SIZE

\* The thread priorities.
InitModules == 0
Receive == 1
Transmit == 7
Handle == 9
Threads == {InitModules, Receive, Transmit, Handle}

Rx == "RxFIFO"
Tx == "TxFIFO"
Free(f) == <<f, "FreeSpace">>
Items(f) == <<f, "ItemsAvailable">>
ByteReceived == <<"UART", "ByteReceived">>
TransmitReady == <<"UART", "TransmitReady">>
Packet_ByteReady == <<"Packet", "ByteReady">>
Semaphores ==
    {Free(f) : f \in {Rx, Tx}} \cup {Items(f) : f \in {Rx, Tx}}
        \cup {ByteReceived, TransmitReady, Packet_ByteReady}

VARIABLES
    count, waitList, readyList, \* the kernel
    pc,             \* pc[t]: the next step of thread t
    fifo,           \* fifo[f]: Start, End and Buffer of a FIFO, the argument of
                    \* its last Put, the result of its last Get, and, as
                    \* history, the bytes stored and not yet fetched
    RDRF, RxData,   \* the receiver is full, and its byte
    TDRE, TIE,      \* the transmitter is empty, its interrupt is enabled
    RxByte,         \* the static RxByte of UART.c
    isr,            \* what is left of UART_ISR, "idle" outside it
    status,         \* the registers as UART_ISR has read them
    fresh,          \* history: RxByte has not been passed to FIFO_Put yet
    early,          \* history: the byte in the receiver came while
                    \* InitModulesThread was running
    nbBytes,        \* the count of Packet_Get
    nbToSend        \* the bytes that HandlePacket has still to put

kernel == <<count, waitList, readyList>>
uart == <<RDRF, RxData, TDRE, TIE>>
interrupt == <<RxByte, isr, status, fresh, early>>
packet == <<nbBytes, nbToSend>>
vars == <<kernel, pc, fifo, uart, interrupt, packet>>

Kernel ==
    INSTANCE OS WITH
        Thread <- Threads, Semaphore <- Semaphores,
        InitialCount <- [s \in Semaphores |->
            IF s \in {Free(Rx), Free(Tx)} THEN FIFO_SIZE ELSE 0]

Running(t) == isr = "idle" /\ Kernel!Running(t)
At(t, label) == Running(t) /\ pc[t] = label
Goto(t, label) == pc' = [pc EXCEPT ![t] = label]
Wait(t, s) == isr = "idle" /\ Kernel!OS_SemaphoreWait(t, s)
Signal(s) == Kernel!OS_SemaphoreSignal(s)

Init ==
    /\ Kernel!Init
    /\ pc = [t \in Threads |-> IF t = InitModules THEN "initialise" ELSE "wait"]
    /\ fifo = [f \in {Rx, Tx} |->
                [Start |-> 0, End |-> 0, Buffer |-> [i \in 0 .. FIFO_SIZE - 1 |-> Zero],
                 data |-> Zero, dataPtr |-> Zero, queue |-> <<>>]]
    /\ RDRF = FALSE /\ RxData = Zero
    /\ TDRE = TRUE /\ TIE = FALSE
    /\ RxByte = Zero
    /\ isr = "idle"
    /\ status = [RDRF |-> FALSE, TDRE |-> FALSE, TIE |-> FALSE]
    /\ fresh = FALSE /\ early = FALSE
    /\ nbBytes = 0 /\ nbToSend = 0

-----------------------------------------------------------------------------
\* The three steps of FIFO_Put and FIFO_Get that touch the FIFO (module FIFO).
PutArgument(f, d) == fifo' = [fifo EXCEPT ![f].data = d]

\* MUTANT of Store: End runs through the whole Buffer.
StoreWrapsLate(f) ==
    fifo' = [fifo EXCEPT
        ![f].Buffer[fifo[f].End] = fifo[f].data,
        ![f].End = IF @ + 1 > FIFO_SIZE - 1 THEN 0 ELSE @ + 1,
        ![f].queue = Append(@, fifo[f].data)]

Store(f) ==
    fifo' = [fifo EXCEPT
        ![f].Buffer[fifo[f].End] = fifo[f].data,
        ![f].End = IF @ + 1 >= FIFO_SIZE - 1 THEN 0 ELSE @ + 1,
        ![f].queue = Append(@, fifo[f].data)]

Fetch(f) ==
    fifo' = [fifo EXCEPT
        ![f].dataPtr = fifo[f].Buffer[fifo[f].Start],
        ![f].Start = IF @ + 1 = FIFO_SIZE - 1 THEN 0 ELSE @ + 1,
        ![f].queue = Tail(@)]

-----------------------------------------------------------------------------
\* The line delivers a byte, or takes the byte of the transmitter.  (A byte that
\* finds the receiver full is dropped there and is no step.)
Line_Receive(d) ==
    /\ ~ RDRF
    /\ Receive \in readyList => InitModules \in readyList
    /\ RDRF' = TRUE
    /\ RxData' = d
    /\ early' = (InitModules \in readyList)
    /\ UNCHANGED <<kernel, pc, fifo, TDRE, TIE, RxByte, isr, status, fresh, packet>>

Line_Transmit ==
    /\ ~ TDRE
    /\ TDRE' = TRUE
    /\ UNCHANGED <<kernel, pc, fifo, RDRF, RxData, TIE, interrupt, packet>>

\* UART_ISR.  It runs on the registers as they were when it was entered.
ISR_Enter ==
    /\ isr = "idle"
    /\ RDRF \/ (TDRE /\ TIE)
    /\ isr' = "receive"
    /\ status' = [RDRF |-> RDRF, TDRE |-> TDRE, TIE |-> TIE]
    /\ UNCHANGED <<kernel, pc, fifo, uart, RxByte, fresh, early, packet>>

ISR_Receive ==
    /\ isr = "receive"
    /\ isr' = "transmit"
    /\ \/ /\ status.RDRF
          /\ RxByte' = RxData
          /\ RDRF' = FALSE
          /\ fresh' = TRUE /\ early' = FALSE
          /\ Signal(ByteReceived)
       \/ /\ ~ status.RDRF
          /\ UNCHANGED <<kernel, RDRF, RxByte, fresh, early>>
    /\ UNCHANGED <<pc, fifo, RxData, TDRE, TIE, status, packet>>

ISR_Transmit ==
    /\ isr = "transmit"
    /\ isr' = "idle"
    /\ \/ /\ status.TIE /\ status.TDRE
          /\ TIE' = FALSE
          /\ Signal(TransmitReady)
       \/ /\ ~ (status.TIE /\ status.TDRE)
          /\ UNCHANGED <<kernel, TIE>>
    /\ status' = [RDRF |-> FALSE, TDRE |-> FALSE, TIE |-> FALSE]
    /\ UNCHANGED <<pc, fifo, RDRF, RxData, TDRE, RxByte, fresh, early, packet>>

UART_ISR == ISR_Enter \/ ISR_Receive \/ ISR_Transmit

-----------------------------------------------------------------------------
\* InitModulesThread has enabled the interrupts of the UART long before it ends,
\* and no other thread runs until it deletes itself.
InitModulesThread ==
    /\ isr = "idle"
    /\ Kernel!OS_ThreadDelete(InitModules)
    /\ UNCHANGED <<pc, fifo, uart, interrupt, packet>>

-----------------------------------------------------------------------------
\* UART_ReceiveThread.
Receive_Wait ==
    /\ pc[Receive] = "wait"
    /\ Wait(Receive, ByteReceived)
    /\ Goto(Receive, "put")
    /\ UNCHANGED <<fifo, uart, interrupt, packet>>

\* MUTANT of Receive_PutWait: the thread stores the byte without waiting for
\* space.
PutNeverWaits ==
    /\ At(Receive, "put")
    /\ PutArgument(Rx, RxByte)
    /\ fresh' = FALSE
    /\ Goto(Receive, "store")
    /\ UNCHANGED <<kernel, uart, RxByte, isr, status, early, packet>>

Receive_PutWait ==
    /\ pc[Receive] = "put"
    /\ PutArgument(Rx, RxByte)
    /\ fresh' = FALSE
    /\ Wait(Receive, Free(Rx))
    /\ Goto(Receive, "store")
    /\ UNCHANGED <<uart, RxByte, isr, status, early, packet>>

\* MUTANT of Receive_PutStore: RxByte is read after the wait for space.
StoresLatest ==
    /\ At(Receive, "store")
    /\ fifo' = [fifo EXCEPT
        ![Rx].data = RxByte,
        ![Rx].Buffer[fifo[Rx].End] = RxByte,
        ![Rx].End = IF @ + 1 >= FIFO_SIZE - 1 THEN 0 ELSE @ + 1,
        ![Rx].queue = Append(@, RxByte)]
    /\ Goto(Receive, "putSignal")
    /\ UNCHANGED <<kernel, uart, interrupt, packet>>

Receive_PutStore ==
    /\ At(Receive, "store")
    /\ Store(Rx)
    /\ Goto(Receive, "putSignal")
    /\ UNCHANGED <<kernel, uart, interrupt, packet>>

Receive_PutSignal ==
    /\ At(Receive, "putSignal")
    /\ Signal(Items(Rx))
    /\ Goto(Receive, "notify")
    /\ UNCHANGED <<fifo, uart, interrupt, packet>>

Receive_Notify ==
    /\ At(Receive, "notify")
    /\ Signal(Packet_ByteReady)
    /\ Goto(Receive, "wait")
    /\ UNCHANGED <<fifo, uart, interrupt, packet>>

UART_ReceiveThread ==
    \/ Receive_Wait \/ Receive_PutWait \/ Receive_PutStore
    \/ Receive_PutSignal \/ Receive_Notify

-----------------------------------------------------------------------------
\* UART_TransmitThread.
Transmit_Wait ==
    /\ pc[Transmit] = "wait"
    /\ Wait(Transmit, TransmitReady)
    /\ Goto(Transmit, "check")
    /\ UNCHANGED <<fifo, uart, interrupt, packet>>

\* MUTANT of Transmit_Check: a signal left over from before is taken for an
\* empty transmitter.
CheckIgnoresTDRE ==
    /\ At(Transmit, "check")
    /\ Goto(Transmit, "get")
    /\ UNCHANGED <<kernel, fifo, uart, interrupt, packet>>

Transmit_Check ==
    /\ At(Transmit, "check")
    /\ Goto(Transmit, IF TDRE THEN "get" ELSE "wait")
    /\ UNCHANGED <<kernel, fifo, uart, interrupt, packet>>

Transmit_GetWait ==
    /\ pc[Transmit] = "get"
    /\ Wait(Transmit, Items(Tx))
    /\ Goto(Transmit, "fetch")
    /\ UNCHANGED <<fifo, uart, interrupt, packet>>

\* FIFO_Get stores the byte in the data register of the UART.
Transmit_GetFetch ==
    /\ At(Transmit, "fetch")
    /\ Fetch(Tx)
    /\ TDRE' = FALSE
    /\ Goto(Transmit, "getSignal")
    /\ UNCHANGED <<kernel, RDRF, RxData, TIE, interrupt, packet>>

\* MUTANT of Transmit_GetSignal: the space of the byte is not given back.
GetKeepsSpace ==
    /\ At(Transmit, "getSignal")
    /\ Goto(Transmit, "enable")
    /\ UNCHANGED <<kernel, fifo, uart, interrupt, packet>>

Transmit_GetSignal ==
    /\ At(Transmit, "getSignal")
    /\ Signal(Free(Tx))
    /\ Goto(Transmit, "enable")
    /\ UNCHANGED <<fifo, uart, interrupt, packet>>

\* MUTANT of Transmit_Enable: the transmit interrupt is left disabled.
EnableForgotten ==
    /\ At(Transmit, "enable")
    /\ Goto(Transmit, "wait")
    /\ UNCHANGED <<kernel, fifo, uart, interrupt, packet>>

Transmit_Enable ==
    /\ At(Transmit, "enable")
    /\ TIE' = TRUE
    /\ Goto(Transmit, "wait")
    /\ UNCHANGED <<kernel, fifo, RDRF, RxData, TDRE, interrupt, packet>>

UART_TransmitThread ==
    \/ Transmit_Wait \/ Transmit_Check \/ Transmit_GetWait
    \/ Transmit_GetFetch \/ Transmit_GetSignal \/ Transmit_Enable

-----------------------------------------------------------------------------
\* Handle_PacketThread: Packet_Get, one UART_InChar per byte, ...
Handle_Wait ==
    /\ pc[Handle] = "wait"
    /\ Wait(Handle, Packet_ByteReady)
    /\ Goto(Handle, "get")
    /\ UNCHANGED <<fifo, uart, interrupt, packet>>

Handle_GetWait ==
    /\ pc[Handle] = "get"
    /\ Wait(Handle, Items(Rx))
    /\ Goto(Handle, "fetch")
    /\ UNCHANGED <<fifo, uart, interrupt, packet>>

Handle_GetFetch ==
    /\ At(Handle, "fetch")
    /\ Fetch(Rx)
    /\ Goto(Handle, "getSignal")
    /\ UNCHANGED <<kernel, uart, interrupt, packet>>

Handle_GetSignal ==
    /\ At(Handle, "getSignal")
    /\ Signal(Free(Rx))
    /\ \/ /\ nbBytes < PACKET_SIZE_BYTES - 1
          /\ nbBytes' = nbBytes + 1
          /\ Goto(Handle, "get")
       \/ /\ nbBytes = PACKET_SIZE_BYTES - 1
          /\ \/ nbBytes' = 0 /\ Goto(Handle, "handle")
             \/ nbBytes' = nbBytes /\ Goto(Handle, "get")
    /\ UNCHANGED <<fifo, uart, interrupt, nbToSend>>

\* ... and HandlePacket, which answers with Packet_Put, one UART_OutChar per
\* byte.
Handle_Packet ==
    /\ At(Handle, "handle")
    /\ \E nbPackets \in 0 .. MaxAnswers : nbToSend' = nbPackets * PACKET_SIZE_BYTES
    /\ Goto(Handle, IF nbToSend' = 0 THEN "wait" ELSE "put")
    /\ UNCHANGED <<kernel, fifo, uart, interrupt, nbBytes>>

Handle_PutWait(d) ==
    /\ pc[Handle] = "put"
    /\ PutArgument(Tx, d)
    /\ Wait(Handle, Free(Tx))
    /\ Goto(Handle, "store")
    /\ UNCHANGED <<uart, interrupt, packet>>

Handle_PutStore ==
    /\ At(Handle, "store")
    /\ Store(Tx)
    /\ Goto(Handle, "putSignal")
    /\ UNCHANGED <<kernel, uart, interrupt, packet>>

Handle_PutSignal ==
    /\ At(Handle, "putSignal")
    /\ Signal(Items(Tx))
    /\ Goto(Handle, "enable")
    /\ UNCHANGED <<fifo, uart, interrupt, packet>>

Handle_Enable ==
    /\ At(Handle, "enable")
    /\ TIE' = TRUE
    /\ nbToSend' = nbToSend - 1
    /\ Goto(Handle, IF nbToSend > 1 THEN "put" ELSE "wait")
    /\ UNCHANGED <<kernel, fifo, RDRF, RxData, TDRE, interrupt, nbBytes>>

Handle_PacketThread ==
    \/ Handle_Wait \/ Handle_GetWait \/ Handle_GetFetch \/ Handle_GetSignal
    \/ Handle_Packet
    \/ \E d \in Data : Handle_PutWait(d)
    \/ Handle_PutStore \/ Handle_PutSignal \/ Handle_Enable

-----------------------------------------------------------------------------
Next ==
    \/ \E d \in Data : Line_Receive(d)
    \/ Line_Transmit
    \/ UART_ISR
    \/ InitModulesThread
    \/ UART_ReceiveThread
    \/ UART_TransmitThread
    \/ Handle_PacketThread

Spec == Init /\ [][Next]_vars

\* The line takes the bytes it is given, the interrupt routine runs, and a
\* thread that is the most urgent ready one again and again gets to run; the
\* initialisation comes to its end.  No byte need ever arrive.
Fairness ==
    /\ WF_vars(Line_Transmit)
    /\ WF_vars(UART_ISR)
    /\ SF_vars(InitModulesThread)
    /\ SF_vars(UART_ReceiveThread)
    /\ SF_vars(UART_TransmitThread)
    /\ SF_vars(Handle_PacketThread)

FairSpec == Spec /\ Fairness

-----------------------------------------------------------------------------
\* The type invariant.
TypeOK ==
    /\ Kernel!TypeOK
    /\ pc \in [Threads -> {"wait", "put", "store", "putSignal", "notify", "check",
                           "get", "fetch", "getSignal", "enable", "handle", "initialise"}]
    /\ \A f \in {Rx, Tx} :
        /\ fifo[f].Start \in 0 .. FIFO_SIZE - 2
        /\ fifo[f].End \in 0 .. FIFO_SIZE - 2
        /\ fifo[f].Buffer \in [0 .. FIFO_SIZE - 1 -> Data]
        /\ fifo[f].data \in Data
        /\ fifo[f].dataPtr \in Data
        /\ fifo[f].queue \in Seq(Data)
    /\ {RDRF, TDRE, TIE, fresh, early} \subseteq BOOLEAN
    /\ {RxData, RxByte} \subseteq Data
    /\ isr \in {"idle", "receive", "transmit"}
    /\ status \in [RDRF : BOOLEAN, TDRE : BOOLEAN, TIE : BOOLEAN]
    /\ nbBytes \in 0 .. PACKET_SIZE_BYTES - 1
    /\ nbToSend \in 0 .. 2 * PACKET_SIZE_BYTES

\* The transmit thread never writes the data register over a byte that the line
\* has not taken, although it may sleep between its test of TDRE and the write.
NoTransmitOverrun == pc[Transmit] = "fetch" => TDRE

\* When nothing can run any more, no byte is left in TxFIFO: the transmit
\* thread sleeps for the next byte, or an interrupt is going to wake it.
NoTransmitStall ==
    (readyList = {} /\ isr = "idle" /\ TDRE /\ ~ TIE) => fifo[Tx].queue = <<>>

\* The receive thread never sleeps for the next byte with the latest one still
\* in RxByte.
NoReceiveStall == Receive \in waitList[ByteReceived] => ~ fresh

\* A byte at the head of TxFIFO gets sent, however the interrupt routine, the
\* transmit thread and the packet thread interleave.
HeadIsSent ==
    \A i \in 0 .. FIFO_SIZE - 2 :
        (fifo[Tx].queue # <<>> /\ fifo[Tx].Start = i) ~> fifo[Tx].Start # i

\* The refinement mapping: where in FIFO_Put or FIFO_Get thread t is.
PutPc(f, t) ==
    CASE pc[t] = "store" -> IF t \in waitList[Free(f)] THEN "blocked" ELSE "store"
      [] pc[t] = "putSignal" -> "signal"
      [] OTHER -> "idle"

GetPc(f, t) ==
    CASE pc[t] = "fetch" -> IF t \in waitList[Items(f)] THEN "blocked" ELSE "fetch"
      [] pc[t] = "getSignal" -> "signal"
      [] OTHER -> "idle"

\* RxFIFO, filled by the receive thread and emptied by the packet thread.
RxFIFO ==
    INSTANCE FIFO WITH
        Start <- fifo[Rx].Start, End <- fifo[Rx].End, Buffer <- fifo[Rx].Buffer,
        FreeSpace <- count[Free(Rx)], ItemsAvailable <- count[Items(Rx)],
        putPc <- PutPc(Rx, Receive), data <- fifo[Rx].data,
        getPc <- GetPc(Rx, Handle), dataPtr <- fifo[Rx].dataPtr,
        queue <- fifo[Rx].queue

\* TxFIFO, filled by the packet thread and emptied by the transmit thread.
TxFIFO ==
    INSTANCE FIFO WITH
        Start <- fifo[Tx].Start, End <- fifo[Tx].End, Buffer <- fifo[Tx].Buffer,
        FreeSpace <- count[Free(Tx)], ItemsAvailable <- count[Items(Tx)],
        putPc <- PutPc(Tx, Handle), data <- fifo[Tx].data,
        getPc <- GetPc(Tx, Transmit), dataPtr <- fifo[Tx].dataPtr,
        queue <- fifo[Tx].queue

\* RxFIFO in its place between the receive thread and the packet thread, under
\* the kernel and its priorities, is the FIFO of module FIFO.
RxImplementsFIFO == RxFIFO!Spec

\* TxFIFO between the packet thread and the more urgent transmit thread is the
\* FIFO of module FIFO.
TxImplementsFIFO == TxFIFO!Spec

\* The calls of FIFO_Put that the receive thread owes: one for each signal of
\* ByteReceived that is kept or has made it ready.
Owed ==
    count[ByteReceived]
        + (IF pc[Receive] = "put" /\ Receive \notin waitList[ByteReceived] THEN 1 ELSE 0)

\* The byte in the hands of FIFO_Put, and the one in the receiver.
InHand == IF pc[Receive] = "store" THEN <<fifo[Rx].data>> ELSE <<>>
InReceiver == IF RDRF THEN <<RxData>> ELSE <<>>

Copies(n, d) == [i \in 1 .. n |-> d]

\* The bytes on their way from the line to the packet thread, oldest first; the
\* one in RxByte counts as often as it is going to be put.
Outstanding == fifo[Rx].queue \o InHand \o Copies(Owed, RxByte) \o InReceiver

Line ==
    INSTANCE ByteLine WITH
        Capacity <- FIFO_SIZE - 1, line <- Outstanding,
        got <- fifo[Rx].dataPtr, turn <- fifo[Rx].Start,
        started <- InitModules \notin readyList /\ ~ early

\* The receiver, the interrupt routine, the receive thread and RxFIFO together
\* hand the packet thread every byte of the line once and in order, unless it
\* falls behind by more than FIFO_SIZE - 1 bytes: a byte that comes after the
\* initialisation is lost, or replaced by the one behind it, in no other case.
ReceivesInOrder == Line!Spec
=============================================================================
