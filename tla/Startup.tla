------------------------------ MODULE Startup -------------------------------
(***************************************************************************)
(* InitModulesThread of main.c, the most urgent thread: it initialises the *)
(* modules until all of them report success, creates the semaphores of the *)
(* application and deletes itself; only then may another thread run.  The  *)
(* interrupts it disables at its beginning are enabled again by UART_Init, *)
(* so that the UART and, from PIT_Init on, the timer interrupt the rest.   *)
(*                                                                         *)
(* A semaphore variable holds NULL or the number of its event control      *)
(* block, of which the kernel has a fixed number and frees none.           *)
(***************************************************************************)
EXTENDS Integers, SequencesExt

CONSTANTS
    NB_ANALOG_CHANNELS, \* 3 in the program
    OS_MAX_EVENTS,      \* the event control blocks of the kernel, 32
    MaxCount            \* the largest count of a semaphore

ASSUME ChannelAssumption == NB_ANALOG_CHANNELS \in 1 .. 3
ASSUME BlockAssumption == OS_MAX_EVENTS \in Nat
ASSUME CountAssumption == MaxCount \in Nat \ {0}

NULL == 0

\* The semaphores that UART_Init creates, two of them for each FIFO, and those
\* that InitModulesThread itself creates, each in the order of their creation.
UARTSemaphores ==
    <<"ByteReceived", "TransmitReady", "RxFreeSpace", "RxItemsAvailable",
      "TxFreeSpace", "TxItemsAvailable">>
ChannelSemaphores ==
    <<"voltageCheck0", "timeCount0", "voltageCheck1", "timeCount1",
      "voltageCheck2", "timeCount2">>
MainSemaphores ==
    SubSeq(ChannelSemaphores, 1, 2 * NB_ANALOG_CHANNELS)
        \o <<"SignalOutput", "PITCount", "RMSCalc">>
Semaphores ==
    {"Packet_ByteReady", "PIT"} \cup ToSet(UARTSemaphores) \cup ToSet(MainSemaphores)

\* The semaphores that interrupt routines signal before a byte has been put.
Interrupts == {"ByteReceived", "PIT"}

VARIABLES
    pc,             \* the next step of InitModulesThread
    next,           \* which of several semaphores it creates next
    InitSuccess,
    hasInitialized, \* the modules whose static hasInitialized is set
    masked,         \* interrupts are disabled
    enabled,        \* the interrupts that are enabled at the NVIC
    created,        \* how many event control blocks are in use
    block,          \* block[s]: the event control block of semaphore s
    count,          \* the counts of the semaphores that interrupts signal
    nullSignal,     \* history: an interrupt routine has signalled NULL
    lost,           \* history: a semaphore was replaced that had a count
    failed          \* history: a module has failed

interrupts == <<masked, enabled>>
semaphores == <<created, block, count, lost>>
progress == <<InitSuccess, hasInitialized, failed>>
vars == <<pc, next, progress, interrupts, semaphores, nullSignal>>

Init ==
    /\ pc = "disable" /\ next = 1
    /\ InitSuccess = FALSE /\ hasInitialized = {}
    /\ masked = FALSE /\ enabled = {}
    /\ created = 0
    /\ block = [s \in Semaphores |-> NULL]
    /\ count = [s \in Interrupts |-> 0]
    /\ nullSignal = FALSE /\ lost = FALSE /\ failed = FALSE

-----------------------------------------------------------------------------
\* MUTANT of OS_SemaphoreCreate: there is always another event control block.
CreateForEver(s) ==
    /\ block' = [block EXCEPT ![s] = created + 1] /\ created' = created + 1
    /\ IF s \in Interrupts
       THEN count' = [count EXCEPT ![s] = 0] /\ lost' = (lost \/ count[s] > 0)
       ELSE UNCHANGED <<count, lost>>

\* OS_SemaphoreCreate, and its result assigned to the variable s.
OS_SemaphoreCreate(s) ==
    /\ IF created < OS_MAX_EVENTS
       THEN block' = [block EXCEPT ![s] = created + 1] /\ created' = created + 1
       ELSE block' = [block EXCEPT ![s] = NULL] /\ UNCHANGED created
    /\ IF s \in Interrupts
       THEN count' = [count EXCEPT ![s] = 0] /\ lost' = (lost \/ count[s] > 0)
       ELSE UNCHANGED <<count, lost>>

\* OS_SemaphoreSignal(s) in an interrupt routine.
OS_SemaphoreSignal(s) ==
    IF block[s] = NULL
    THEN nullSignal' = TRUE /\ UNCHANGED count
    ELSE count' = [count EXCEPT ![s] = @ + 1] /\ UNCHANGED nullSignal

\* UART_ISR when a byte has been received, and PIT_ISR.  InitModulesThread stays
\* the thread that runs.
Interrupt(s) ==
    /\ ~ masked
    /\ s \in enabled
    /\ count[s] < MaxCount
    /\ OS_SemaphoreSignal(s)
    /\ UNCHANGED <<pc, next, progress, interrupts, created, block, lost>>

-----------------------------------------------------------------------------
\* OS_DisableInterrupts, at the beginning of InitModulesThread.
DisableInterrupts ==
    /\ pc = "disable"
    /\ masked' = TRUE
    /\ pc' = "packet"
    /\ UNCHANGED <<next, progress, enabled, semaphores, nullSignal>>

\* InitSuccess &= result.
Reported(result) == InitSuccess' = (InitSuccess /\ result)

\* MUTANT of FirstCall: a module that is initialised reports success.
FirstCallOrLater(module) == TRUE

\* MUTANT of FirstCall: hasInitialized is set from the beginning.
NeverFirstCall(module) == FALSE

\* A module with a static hasInitialized reports success for its first call.
FirstCall(module) == module \notin hasInitialized

\* The body of the loop begins with Packet_Init, which creates its semaphore
\* in every call.
Packet_Init ==
    /\ pc = "packet"
    /\ OS_SemaphoreCreate("Packet_ByteReady")
    /\ IF "packet" \in hasInitialized
       THEN InitSuccess' = FirstCall("packet") /\ pc' = "leds"
       ELSE InitSuccess' = TRUE /\ pc' = "uart"
    /\ UNCHANGED <<next, hasInitialized, failed, interrupts, nullSignal>>

UART_Create ==
    /\ pc = "uart"
    /\ OS_SemaphoreCreate(UARTSemaphores[next])
    /\ IF next < Len(UARTSemaphores)
       THEN next' = next + 1 /\ UNCHANGED pc
       ELSE next' = 1 /\ pc' = "uartOn"
    /\ UNCHANGED <<progress, interrupts, nullSignal>>

\* The rest of UART_Init: its interrupt is enabled, and then all of them.
UART_Enable ==
    /\ pc = "uartOn"
    /\ enabled' = enabled \cup {"ByteReceived"}
    /\ masked' = FALSE
    /\ hasInitialized' = hasInitialized \cup {"packet"}
    /\ pc' = "leds"
    /\ UNCHANGED <<next, InitSuccess, failed, semaphores, nullSignal>>

\* Flash_Init, which succeeds always, and LEDs_Init.
LEDs_Init ==
    /\ pc = "leds"
    /\ Reported(FirstCall("leds"))
    /\ hasInitialized' = hasInitialized \cup {"leds"}
    /\ pc' = "pit"
    /\ UNCHANGED <<next, failed, interrupts, semaphores, nullSignal>>

\* MUTANT of PIT_Create: the timer is started before its semaphore is there.
PIT_CreateLate ==
    /\ pc = "pit"
    /\ enabled' = enabled \cup {"PIT"}
    /\ pc' = "pitOn"
    /\ UNCHANGED <<next, progress, masked, semaphores, nullSignal>>

\* PIT_Init creates a semaphore in every call, too.
PIT_Create ==
    /\ pc = "pit"
    /\ OS_SemaphoreCreate("PIT")
    /\ pc' = "pitOn"
    /\ UNCHANGED <<next, progress, interrupts, nullSignal>>

\* It starts the timer and enables its interrupt.
PIT_Start ==
    /\ pc = "pitOn"
    /\ enabled' = enabled \cup {"PIT"}
    /\ pc' = "analog"
    /\ UNCHANGED <<next, progress, masked, semaphores, nullSignal>>

\* Analog_Init, which may fail, and the end of the body of the loop.
Analog_Init(result) ==
    /\ pc = "analog"
    /\ Reported(result)
    /\ failed' = (failed \/ ~ result)
    /\ pc' = IF InitSuccess' THEN "create" ELSE "packet"
    /\ UNCHANGED <<next, hasInitialized, interrupts, semaphores, nullSignal>>

Main_Create ==
    /\ pc = "create"
    /\ OS_SemaphoreCreate(MainSemaphores[next])
    /\ IF next < Len(MainSemaphores)
       THEN next' = next + 1 /\ UNCHANGED pc
       ELSE next' = 1 /\ pc' = "delete"
    /\ UNCHANGED <<progress, interrupts, nullSignal>>

\* PIT_Set restarts the timer; OS_EnableInterrupts; OS_ThreadDelete.
Delete ==
    /\ pc = "delete"
    /\ masked' = FALSE
    /\ pc' = "deleted"
    /\ UNCHANGED <<next, progress, enabled, semaphores, nullSignal>>

InitModulesThread ==
    \/ DisableInterrupts
    \/ Packet_Init
    \/ UART_Create
    \/ UART_Enable
    \/ LEDs_Init
    \/ PIT_Create
    \/ PIT_Start
    \/ \E result \in BOOLEAN : Analog_Init(result)
    \/ Main_Create
    \/ Delete

\* Then the threads run: UART_ReceiveThread waits for ByteReceived and
\* Sample_Thread for PITSemaphore.
ThreadWaits(s) ==
    /\ pc = "deleted"
    /\ count[s] > 0
    /\ count' = [count EXCEPT ![s] = @ - 1]
    /\ UNCHANGED <<pc, next, progress, interrupts, created, block, lost, nullSignal>>

Next ==
    \/ InitModulesThread
    \/ \E s \in Interrupts : Interrupt(s) \/ ThreadWaits(s)

Spec == Init /\ [][Next]_vars

\* Interrupt routines end, and InitModulesThread is the most urgent thread.
FairSpec == Spec /\ WF_vars(InitModulesThread)

-----------------------------------------------------------------------------
\* The type invariant.
TypeOK ==
    /\ pc \in {"disable", "packet", "uart", "uartOn", "leds", "pit", "pitOn",
               "analog", "create", "delete", "deleted"}
    /\ next \in 1 .. Len(UARTSemaphores) + Len(MainSemaphores)
    /\ InitSuccess \in BOOLEAN /\ hasInitialized \subseteq {"packet", "leds"}
    /\ masked \in BOOLEAN /\ enabled \subseteq Interrupts
    /\ created \in 0 .. OS_MAX_EVENTS
    /\ block \in [Semaphores -> 0 .. OS_MAX_EVENTS]
    /\ count \in [Interrupts -> 0 .. MaxCount]
    /\ nullSignal \in BOOLEAN /\ lost \in BOOLEAN /\ failed \in BOOLEAN

\* When the threads begin to run every semaphore has an event control block of
\* its own, although the loop takes new ones in every turn and nobody looks at
\* the result of OS_SemaphoreCreate, and it has every signal that an interrupt
\* routine gave it during the initialisation.
ThreadsFindSemaphores ==
    pc = "deleted" =>
        /\ ~ lost
        /\ \A s \in Semaphores :
            /\ block[s] # NULL
            /\ \A t \in Semaphores : block[s] = block[t] => s = t

\* No interrupt routine signals a semaphore that has not been created, although
\* interrupts are enabled from the middle of the first turn on, unless failed
\* turns have used up all the event control blocks.
InterruptsFindSemaphores == nullSignal => failed /\ created = OS_MAX_EVENTS

\* If no module fails the threads begin to run, whatever the interrupts do.
ThreadsStart == <>(pc = "deleted" \/ failed)
=============================================================================
