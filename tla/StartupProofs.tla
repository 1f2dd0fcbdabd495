--------------------------- MODULE StartupProofs ----------------------------
(***************************************************************************)
(* Proofs about the initialisation thread, for any number of channels the  *)
(* program may have, any pool of event control blocks that is large enough *)
(* for one turn of the loop, and any number of interrupts and of failures. *)
(***************************************************************************)
EXTENDS Startup, SequenceTheorems, TLAPS

UARTs == Len(UARTSemaphores)
Mains == Len(MainSemaphores)

\* The pool has a block for every semaphore of the program.
PoolSuffices == 2 + UARTs + Mains <= OS_MAX_EVENTS

\* The lists of semaphores, and that no list names one that an interrupt routine
\* signals but the first of the UART.
LEMMA Lists ==
  /\ UARTs = 6 /\ Mains \in Nat \ {0} /\ Mains = 2 * NB_ANALOG_CHANNELS + 3
  /\ \A i \in 1 .. UARTs : UARTSemaphores[i] \in Semaphores
  /\ \A i \in 1 .. Mains : MainSemaphores[i] \in Semaphores
  /\ \A i \in 1 .. Mains : MainSemaphores[i] \notin Interrupts
  /\ \A i \in 1 .. UARTs : UARTSemaphores[i] \in Interrupts => i = 1
  /\ UARTSemaphores[1] = "ByteReceived"
  /\ {"Packet_ByteReady", "PIT"} \subseteq Semaphores
  /\ "Packet_ByteReady" \notin Interrupts
  /\ Interrupts \subseteq Semaphores
  /\ Semaphores = {"Packet_ByteReady", "PIT"}
                    \cup {UARTSemaphores[i] : i \in 1 .. UARTs}
                    \cup {MainSemaphores[i] : i \in 1 .. Mains}
<1>1. /\ UARTs = 6
      /\ DOMAIN UARTSemaphores = 1 .. 6
      /\ UARTSemaphores[1] = "ByteReceived"
      /\ \A i \in 2 .. 6 : UARTSemaphores[i] \notin Interrupts
  BY DEF UARTs, UARTSemaphores, Interrupts
<1>2. /\ Mains = 2 * NB_ANALOG_CHANNELS + 3
      /\ DOMAIN MainSemaphores = 1 .. Mains
      /\ \A i \in 1 .. Mains : MainSemaphores[i] \notin Interrupts
  <2> DEFINE Names == {"voltageCheck0", "timeCount0", "voltageCheck1", "timeCount1",
                       "voltageCheck2", "timeCount2", "SignalOutput", "PITCount", "RMSCalc"}
             Size == 2 * NB_ANALOG_CHANNELS
             First == SubSeq(ChannelSemaphores, 1, Size)
             Rest == <<"SignalOutput", "PITCount", "RMSCalc">>
  <2>1. /\ ChannelSemaphores \in Seq(Names) /\ Len(ChannelSemaphores) = 6
    BY DEF ChannelSemaphores
  <2>2. Size \in 2 .. 6
    BY ChannelAssumption
  <2>3. Rest \in Seq(Names) /\ Len(Rest) = 3
    OBVIOUS
  <2>4. Names \cap Interrupts = {}
    BY DEF Interrupts
  <2> HIDE DEF Names, Size
  <2>5. First \in Seq(Names) /\ Len(First) = Size
    <3>1. \A i \in 1 .. Size : ChannelSemaphores[i] \in Names
      <4>1. \A i \in 1 .. Len(ChannelSemaphores) : ChannelSemaphores[i] \in Names
        BY <2>1, ElementOfSeq
      <4> QED
        BY <2>1, <2>2, <4>1
    <3>2. /\ SubSeq(ChannelSemaphores, 1, Size) \in Seq(Names)
          /\ Len(SubSeq(ChannelSemaphores, 1, Size)) =
               IF 1 <= Size THEN Size - 1 + 1 ELSE 0
      BY <2>2, <3>1, SubSeqProperties
    <3> QED
      BY <2>2, <3>2
  <2> HIDE DEF First, Rest
  <2>6. First \o Rest \in Seq(Names) /\ Len(First \o Rest) = Size + 3
    <3>1. /\ First \o Rest \in Seq(Names)
          /\ Len(First \o Rest) = Len(First) + Len(Rest)
      BY <2>3, <2>5, ConcatProperties
    <3> QED
      BY <2>3, <2>5, <3>1
  <2>7. MainSemaphores = First \o Rest
    BY DEF MainSemaphores, First, Rest, Size
  <2>8. \A i \in 1 .. Len(MainSemaphores) : MainSemaphores[i] \in Names
    BY <2>6, <2>7, ElementOfSeq
  <2>9. DOMAIN MainSemaphores = 1 .. Len(MainSemaphores)
    BY <2>6, <2>7
  <2> QED
    BY <2>4, <2>6, <2>7, <2>8, <2>9 DEF Mains, Size
<1>3. /\ \A i \in 1 .. UARTs : UARTSemaphores[i] \in Semaphores
      /\ \A i \in 1 .. Mains : MainSemaphores[i] \in Semaphores
  BY <1>1, <1>2 DEF Semaphores, ToSet
<1>4. {"Packet_ByteReady", "PIT"} \subseteq Semaphores /\ "Packet_ByteReady" \notin Interrupts
  BY DEF Semaphores, Interrupts
<1>5. Interrupts \subseteq Semaphores
  BY <1>1, <1>3, <1>4 DEF Interrupts
<1>6. Semaphores = {"Packet_ByteReady", "PIT"}
                     \cup {UARTSemaphores[i] : i \in 1 .. UARTs}
                     \cup {MainSemaphores[i] : i \in 1 .. Mains}
  BY <1>1, <1>2 DEF Semaphores, ToSet
<1> QED
  BY <1>1, <1>2, <1>3, <1>4, <1>5, <1>6, ChannelAssumption

\* Where the loop is, and what InitSuccess and hasInitialized say of it: after a
\* failure every turn fails.
Progress ==
    /\ pc \in {"disable", "packet", "uart", "uartOn", "leds", "pit", "pitOn",
               "analog", "create", "delete", "deleted"}
    /\ next \in 1 .. (IF pc = "uart" THEN UARTs ELSE IF pc = "create" THEN Mains ELSE 1)
    /\ InitSuccess \in BOOLEAN /\ failed \in BOOLEAN
    /\ hasInitialized \subseteq {"packet", "leds"}
    /\ failed =>
          /\ pc \in {"packet", "leds", "pit", "pitOn", "analog"}
          /\ ~ InitSuccess
          /\ "packet" \in hasInitialized
    /\ ~ failed =>
          /\ pc \in {"disable", "packet"} => hasInitialized = {}
          /\ pc \in {"uart", "uartOn", "leds"} => "leds" \notin hasInitialized
          /\ pc \in {"leds", "pit", "pitOn", "analog"} => "packet" \in hasInitialized
          /\ pc \notin {"disable", "packet"} => InitSuccess

\* How many event control blocks the first turn has taken.
Taken ==
    CASE pc \in {"disable", "packet"} -> 0
      [] pc = "uart" -> next
      [] pc \in {"uartOn", "leds", "pit"} -> 1 + UARTs
      [] pc \in {"pitOn", "analog"} -> 2 + UARTs
      [] pc = "create" -> 1 + UARTs + next
      [] OTHER -> 2 + UARTs + Mains

\* The pool: a block belongs to one semaphore.
Blocks ==
    /\ created \in 0 .. OS_MAX_EVENTS
    /\ block \in [Semaphores -> 0 .. OS_MAX_EVENTS]
    /\ \A s \in Semaphores : block[s] <= created
    /\ \A s, t \in Semaphores : block[s] = block[t] /\ block[s] # NULL => s = t

\* The signals of the interrupt routines.
Signals ==
    /\ masked \in BOOLEAN /\ enabled \subseteq Interrupts
    /\ count \in [Interrupts -> 0 .. MaxCount]
    /\ \A s \in Interrupts : s \notin enabled => count[s] = 0
    /\ nullSignal \in BOOLEAN /\ lost \in BOOLEAN
    /\ failed \/ pc = "analog" => "PIT" \in enabled
    /\ ~ failed =>
          /\ ~ lost
          /\ "ByteReceived" \in enabled => pc \notin {"disable", "packet", "uart", "uartOn"}
          /\ "PIT" \in enabled => pc \in {"analog", "create", "delete", "deleted"}

\* The semaphores that the first turn has created so far.
FirstTurn ==
    ~ failed =>
        /\ created = Taken
        /\ pc \notin {"disable", "packet"} => block["Packet_ByteReady"] # NULL
        /\ \A i \in 1 .. UARTs :
              \/ pc \notin {"disable", "packet", "uart"}
              \/ pc = "uart" /\ i < next
              => block[UARTSemaphores[i]] # NULL
        /\ pc \in {"pitOn", "analog", "create", "delete", "deleted"} => block["PIT"] # NULL
        /\ \A i \in 1 .. Mains :
              \/ pc \in {"delete", "deleted"}
              \/ pc = "create" /\ i < next
              => block[MainSemaphores[i]] # NULL

Exhausted == failed /\ created = OS_MAX_EVENTS

\* An interrupt that is enabled has its semaphore, or the pool has run dry.
Found ==
    /\ \A s \in enabled : block[s] = NULL => Exhausted
    /\ nullSignal => Exhausted

\* The inductive invariant.
IInv == Progress /\ Blocks /\ Signals /\ FirstTurn /\ Found

\* The first turn stays within the pool.
LEMMA TakenBound ==
  ASSUME PoolSuffices, Progress
  PROVE  /\ Taken \in Nat /\ Taken <= OS_MAX_EVENTS
         /\ pc \in {"packet", "pit"} => Taken < OS_MAX_EVENTS
         /\ pc = "uart" => Taken < OS_MAX_EVENTS
         /\ pc = "create" => Taken < OS_MAX_EVENTS
BY Lists, BlockAssumption DEF PoolSuffices, Progress, Taken

\* What the creation of a semaphore does to the pool and to the signals.
LEMMA CreateEffect ==
  ASSUME Blocks, count \in [Interrupts -> 0 .. MaxCount], lost \in BOOLEAN,
         NEW s \in Semaphores, OS_SemaphoreCreate(s)
  PROVE  /\ Blocks'
         /\ \A t \in Semaphores : t # s => block'[t] = block[t]
         /\ \/ created < OS_MAX_EVENTS /\ created' = created + 1 /\ block'[s] # NULL
            \/ created = OS_MAX_EVENTS /\ created' = created
         /\ count' \in [Interrupts -> 0 .. MaxCount] /\ lost' \in BOOLEAN
         /\ \A t \in Interrupts : count[t] = 0 => count'[t] = 0
         /\ s \notin Interrupts => UNCHANGED <<count, lost>>
         /\ (s \in Interrupts /\ count[s] = 0) => lost' = lost
<1> USE BlockAssumption DEF NULL
<1>0. /\ count' \in [Interrupts -> 0 .. MaxCount] /\ lost' \in BOOLEAN
      /\ \A t \in Interrupts : count[t] = 0 => count'[t] = 0
      /\ s \notin Interrupts => UNCHANGED <<count, lost>>
      /\ (s \in Interrupts /\ count[s] = 0) => lost' = lost
  <2>1. CASE s \in Interrupts
    <3>1. count' = [count EXCEPT ![s] = 0] /\ lost' = (lost \/ count[s] > 0)
      BY <2>1 DEF OS_SemaphoreCreate
    <3>2. count' \in [Interrupts -> 0 .. MaxCount]
      BY <2>1, <3>1, CountAssumption
    <3> QED
      BY <2>1, <3>1, <3>2
  <2>2. CASE s \notin Interrupts
    BY <2>2 DEF OS_SemaphoreCreate
  <2> QED
    BY <2>1, <2>2
<1>1. CASE created < OS_MAX_EVENTS
  <2>1. created' = created + 1 /\ block' = [block EXCEPT ![s] = created + 1]
    BY <1>1 DEF OS_SemaphoreCreate
  <2>2. /\ block'[s] = created + 1
        /\ \A t \in Semaphores : t # s => block'[t] = block[t]
        /\ block' \in [Semaphores -> 0 .. OS_MAX_EVENTS]
    BY <1>1, <2>1 DEF Blocks
  <2>3. /\ created \in Nat /\ created' \in 0 .. OS_MAX_EVENTS
        /\ \A t \in Semaphores : block[t] \in Nat /\ block[t] <= created
    BY <1>1, <2>1 DEF Blocks
  <2>4. \A t \in Semaphores : block'[t] <= created'
    BY <2>1, <2>2, <2>3
  <2>5. ASSUME NEW t \in Semaphores, NEW u \in Semaphores,
               block'[t] = block'[u], block'[t] # NULL
        PROVE  t = u
    BY <2>2, <2>3, <2>5 DEF Blocks
  <2>6. Blocks'
    BY <2>2, <2>3, <2>4, <2>5 DEF Blocks
  <2> QED
    BY <1>0, <1>1, <2>1, <2>2, <2>3, <2>6
<1>2. CASE ~ (created < OS_MAX_EVENTS)
  <2>1. created' = created /\ block' = [block EXCEPT ![s] = NULL]
    BY <1>2 DEF OS_SemaphoreCreate
  <2>2. /\ block'[s] = 0
        /\ \A t \in Semaphores : t # s => block'[t] = block[t]
        /\ block' \in [Semaphores -> 0 .. OS_MAX_EVENTS]
    BY <2>1 DEF Blocks
  <2>3. Blocks' /\ created = OS_MAX_EVENTS
    BY <1>2, <2>1, <2>2 DEF Blocks
  <2> QED
    BY <1>0, <2>1, <2>2, <2>3
<1> QED
  BY <1>1, <1>2

\* A step that creates semaphore s: the pool, the interrupts that are enabled and
\* the counts of their semaphores.
LEMMA CreateStep ==
  ASSUME Blocks, Signals, Found, NEW s \in Semaphores, OS_SemaphoreCreate(s),
         UNCHANGED <<interrupts, failed, nullSignal>>,
         ~ failed => created < OS_MAX_EVENTS,
         ~ failed => s \notin Interrupts \/ s \notin enabled,
         pc' # "analog",
         ~ failed =>
            /\ "ByteReceived" \in enabled => pc' \notin {"disable", "packet", "uart", "uartOn"}
            /\ "PIT" \in enabled => pc' \in {"analog", "create", "delete", "deleted"}
  PROVE  /\ Blocks' /\ Signals' /\ Found'
         /\ ~ failed => created' = created + 1 /\ block'[s] # NULL
         /\ \A t \in Semaphores : t # s => block'[t] = block[t]
<1> USE Lists
<1>1. /\ count \in [Interrupts -> 0 .. MaxCount] /\ lost \in BOOLEAN
      /\ masked' = masked /\ enabled' = enabled /\ failed' = failed /\ nullSignal' = nullSignal
      /\ created \in 0 .. OS_MAX_EVENTS
  BY DEF Signals, Blocks, interrupts
<1>2. /\ Blocks'
      /\ \A t \in Semaphores : t # s => block'[t] = block[t]
      /\ \/ created < OS_MAX_EVENTS /\ created' = created + 1 /\ block'[s] # NULL
         \/ created = OS_MAX_EVENTS /\ created' = created
      /\ count' \in [Interrupts -> 0 .. MaxCount] /\ lost' \in BOOLEAN
      /\ \A t \in Interrupts : count[t] = 0 => count'[t] = 0
      /\ s \notin Interrupts => UNCHANGED <<count, lost>>
      /\ (s \in Interrupts /\ count[s] = 0) => lost' = lost
  BY <1>1, CreateEffect
<1>3. Signals'
  <2>1. ~ failed => lost' = lost
    BY <1>2 DEF Signals
  <2>2. \A t \in Interrupts : t \notin enabled' => count'[t] = 0
    BY <1>1, <1>2 DEF Signals
  <2> QED
    BY <1>1, <1>2, <2>1, <2>2 DEF Signals
<1>4. Found'
  <2>1. Exhausted => Exhausted'
    BY <1>1, <1>2, BlockAssumption DEF Exhausted
  <2>2. ASSUME NEW t \in enabled, block'[t] = NULL
        PROVE  Exhausted'
    <3>1. CASE t = s
      BY <1>1, <1>2, <2>2, <3>1 DEF Exhausted
    <3>2. CASE t # s
      <4>1. t \in Semaphores
        BY DEF Signals
      <4> QED
        BY <1>2, <2>1, <2>2, <3>2, <4>1 DEF Found
    <3> QED
      BY <3>1, <3>2
  <2> QED
    BY <1>1, <2>1, <2>2 DEF Found
<1> QED
  BY <1>1, <1>2, <1>3, <1>4, BlockAssumption

\* Packet_Init creates its semaphore, in the first turn and in every later one.
LEMMA PacketStep ==
  ASSUME PoolSuffices, IInv, Packet_Init
  PROVE  IInv'
<1> USE Lists
<1>1. /\ pc = "packet"
      /\ OS_SemaphoreCreate("Packet_ByteReady")
      /\ UNCHANGED <<next, hasInitialized, failed, interrupts, nullSignal>>
      /\ \/ "packet" \in hasInitialized /\ InitSuccess' = FALSE /\ pc' = "leds"
         \/ "packet" \notin hasInitialized /\ InitSuccess' = TRUE /\ pc' = "uart"
  BY DEF Packet_Init, FirstCall
<1>2. Progress /\ Blocks /\ Signals /\ FirstTurn /\ Found
  BY DEF IInv
<1>3. ~ failed => /\ created = 0 /\ created < OS_MAX_EVENTS
                  /\ pc' = "uart" /\ next = 1 /\ enabled = {}
  BY <1>1, <1>2, TakenBound DEF FirstTurn, Taken, Progress, Signals, Interrupts
<1>4. /\ Blocks' /\ Signals' /\ Found'
      /\ ~ failed => created' = created + 1 /\ block'["Packet_ByteReady"] # NULL
  BY <1>1, <1>2, <1>3, CreateStep
<1>5. Progress'
  <2>1. next = 1
    BY <1>1, <1>2 DEF Progress
  <2>2. CASE failed
    BY <1>1, <1>2, <2>1, <2>2 DEF Progress
  <2>3. CASE ~ failed
    <3>1. hasInitialized' = {} /\ pc' = "uart" /\ InitSuccess' = TRUE /\ failed' = failed
      BY <1>1, <1>2, <1>3, <2>3 DEF Progress
    <3>2. next' \in 1 .. UARTs /\ ~ failed' /\ failed' \in BOOLEAN
      BY <1>1, <1>2, <2>1, <2>3, <3>1 DEF Progress
    <3> QED
      BY <3>1, <3>2 DEF Progress
  <2> QED
    BY <1>2, <2>2, <2>3 DEF Progress
<1>6. FirstTurn'
  BY <1>1, <1>2, <1>3, <1>4 DEF FirstTurn, Taken
<1> QED
  BY <1>4, <1>5, <1>6 DEF IInv

\* UART_Init creates its semaphores one by one.
LEMMA UARTStep ==
  ASSUME PoolSuffices, IInv, UART_Create
  PROVE  IInv'
<1> USE Lists
<1>1. /\ pc = "uart"
      /\ OS_SemaphoreCreate(UARTSemaphores[next])
      /\ UNCHANGED <<progress, interrupts, nullSignal>>
      /\ \/ next < UARTs /\ next' = next + 1 /\ pc' = "uart"
         \/ ~ (next < UARTs) /\ next' = 1 /\ pc' = "uartOn"
  BY DEF UART_Create, UARTs
<1>2. Progress /\ Blocks /\ Signals /\ FirstTurn /\ Found
  BY DEF IInv
<1>3. /\ ~ failed /\ next \in 1 .. UARTs /\ created = next /\ created < OS_MAX_EVENTS
      /\ enabled = {}
  BY <1>1, <1>2, TakenBound DEF FirstTurn, Taken, Progress, Signals, Interrupts
<1>4. /\ Blocks' /\ Signals' /\ Found'
      /\ created' = created + 1 /\ block'[UARTSemaphores[next]] # NULL
      /\ \A t \in Semaphores : t # UARTSemaphores[next] => block'[t] = block[t]
  <2>1. UARTSemaphores[next] \in Semaphores
    BY <1>3
  <2>2. UNCHANGED failed
    BY <1>1 DEF progress
  <2> QED
    BY <1>1, <1>2, <1>3, <2>1, <2>2, CreateStep
<1>5. Progress'
  BY <1>1, <1>2, <1>3 DEF Progress, progress
<1>6. FirstTurn'
  <2>1. \A s \in Semaphores : block[s] # NULL => block'[s] # NULL
    BY <1>4
  <2>2. created' = Taken'
    BY <1>1, <1>3, <1>4 DEF Taken
  <2>3. block'["Packet_ByteReady"] # NULL
    BY <1>1, <1>2, <1>3, <2>1 DEF FirstTurn
  <2>4. \A i \in 1 .. UARTs : i < next => block[UARTSemaphores[i]] # NULL
    BY <1>1, <1>2, <1>3 DEF FirstTurn
  <2>5. \A i \in 1 .. UARTs : i <= next => block'[UARTSemaphores[i]] # NULL
    BY <1>3, <1>4, <2>1, <2>4
  <2> QED
    BY <1>1, <1>3, <2>2, <2>3, <2>5 DEF FirstTurn
<1> QED
  BY <1>4, <1>5, <1>6 DEF IInv

\* PIT_Init creates its semaphore, again in every turn.
LEMMA PITStep ==
  ASSUME PoolSuffices, IInv, PIT_Create
  PROVE  IInv'
<1> USE Lists
<1>1. /\ pc = "pit"
      /\ OS_SemaphoreCreate("PIT")
      /\ UNCHANGED <<next, progress, interrupts, nullSignal>>
      /\ pc' = "pitOn"
  BY DEF PIT_Create
<1>2. Progress /\ Blocks /\ Signals /\ FirstTurn /\ Found
  BY DEF IInv
<1>3. ~ failed => /\ created = 1 + UARTs /\ created < OS_MAX_EVENTS
                  /\ "PIT" \notin enabled
  BY <1>1, <1>2, TakenBound DEF FirstTurn, Taken, Progress, Signals
<1>4. UNCHANGED <<InitSuccess, hasInitialized, failed>>
  BY <1>1 DEF progress
<1>5. /\ Blocks' /\ Signals' /\ Found'
      /\ ~ failed => created' = created + 1 /\ block'["PIT"] # NULL
      /\ \A t \in Semaphores : t # "PIT" => block'[t] = block[t]
  BY <1>1, <1>2, <1>3, <1>4, CreateStep
<1>6. Progress'
  BY <1>1, <1>2, <1>4 DEF Progress
<1>7. FirstTurn'
  <2> SUFFICES ASSUME ~ failed PROVE FirstTurn'
    BY <1>4 DEF FirstTurn
  <2>1. \A s \in Semaphores : block[s] # NULL => block'[s] # NULL
    BY <1>5
  <2>2. created' = Taken'
    BY <1>1, <1>3, <1>5 DEF Taken
  <2>3. /\ block'["Packet_ByteReady"] # NULL
        /\ \A i \in 1 .. UARTs : block'[UARTSemaphores[i]] # NULL
    BY <1>1, <1>2, <2>1 DEF FirstTurn
  <2> QED
    BY <1>1, <1>5, <2>2, <2>3 DEF FirstTurn
<1> QED
  BY <1>5, <1>6, <1>7 DEF IInv

\* InitModulesThread creates its own semaphores one by one.
LEMMA MainStep ==
  ASSUME PoolSuffices, IInv, Main_Create
  PROVE  IInv'
<1> USE Lists
<1>1. /\ pc = "create"
      /\ OS_SemaphoreCreate(MainSemaphores[next])
      /\ UNCHANGED <<progress, interrupts, nullSignal>>
      /\ \/ next < Mains /\ next' = next + 1 /\ pc' = "create"
         \/ ~ (next < Mains) /\ next' = 1 /\ pc' = "delete"
  BY DEF Main_Create, Mains
<1>2. Progress /\ Blocks /\ Signals /\ FirstTurn /\ Found
  BY DEF IInv
<1>3. /\ ~ failed /\ next \in 1 .. Mains /\ created = 1 + UARTs + next
      /\ created < OS_MAX_EVENTS
  BY <1>1, <1>2, TakenBound DEF FirstTurn, Taken, Progress
<1>4. /\ Blocks' /\ Signals' /\ Found'
      /\ created' = created + 1 /\ block'[MainSemaphores[next]] # NULL
      /\ \A t \in Semaphores : t # MainSemaphores[next] => block'[t] = block[t]
  <2>1. MainSemaphores[next] \in Semaphores /\ MainSemaphores[next] \notin Interrupts
    BY <1>3
  <2>2. UNCHANGED failed
    BY <1>1 DEF progress
  <2> QED
    BY <1>1, <1>2, <1>3, <2>1, <2>2, CreateStep
<1>5. Progress'
  BY <1>1, <1>2, <1>3 DEF Progress, progress
<1>6. FirstTurn'
  <2>1. \A s \in Semaphores : block[s] # NULL => block'[s] # NULL
    BY <1>4
  <2>2. created' = Taken'
    BY <1>1, <1>3, <1>4 DEF Taken
  <2>3. /\ block'["Packet_ByteReady"] # NULL /\ block'["PIT"] # NULL
        /\ \A i \in 1 .. UARTs : block'[UARTSemaphores[i]] # NULL
    BY <1>1, <1>2, <1>3, <2>1 DEF FirstTurn
  <2>4. \A i \in 1 .. Mains : i < next => block[MainSemaphores[i]] # NULL
    BY <1>1, <1>2, <1>3 DEF FirstTurn
  <2>5. \A i \in 1 .. Mains : i <= next => block'[MainSemaphores[i]] # NULL
    BY <1>3, <1>4, <2>1, <2>4
  <2> QED
    BY <1>1, <1>3, <2>2, <2>3, <2>5 DEF FirstTurn
<1> QED
  BY <1>4, <1>5, <1>6 DEF IInv

\* The steps that create no semaphore leave the pool as it is.
LEMMA PoolStays ==
  ASSUME IInv, UNCHANGED <<created, block>>
  PROVE  Blocks' /\ (Exhausted /\ (failed => failed') => Exhausted')
BY DEF IInv, Blocks, Exhausted

\* The steps of InitModulesThread that create no semaphore: it disables the
\* interrupts, initialises the LEDs, starts the timer, and so on.
LEMMA QuietSteps ==
  ASSUME IInv,
         DisableInterrupts \/ UART_Enable \/ LEDs_Init \/ PIT_Start
            \/ (\E result \in BOOLEAN : Analog_Init(result)) \/ Delete
  PROVE  IInv'
<1> USE Lists
<1>1. Progress /\ Blocks /\ Signals /\ FirstTurn /\ Found
  BY DEF IInv
<1>2. /\ UNCHANGED <<created, block, count, lost, nullSignal, next>>
      /\ failed => failed'
  BY <1>1 DEF DisableInterrupts, UART_Enable, LEDs_Init, PIT_Start, Analog_Init, Delete,
         semaphores, progress, Progress
<1>3. Blocks'
  BY <1>2, PoolStays
<1>4. /\ next = 1
      /\ pc \in {"disable", "uartOn", "leds", "pitOn", "analog", "delete"}
  BY <1>1 DEF DisableInterrupts, UART_Enable, LEDs_Init, PIT_Start, Analog_Init, Delete,
         Progress
<1>5. CASE DisableInterrupts
  <2>1. /\ pc = "disable" /\ pc' = "packet" /\ masked' = TRUE /\ enabled' = enabled
        /\ UNCHANGED <<InitSuccess, hasInitialized, failed>>
    BY <1>5 DEF DisableInterrupts, progress
  <2>2. Progress' /\ Signals'
    BY <1>1, <1>2, <1>4, <2>1 DEF Progress, Signals
  <2>3. FirstTurn' /\ Found'
    BY <1>1, <1>2, <2>1 DEF FirstTurn, Taken, Found, Exhausted
  <2> QED
    BY <1>3, <2>2, <2>3 DEF IInv
<1>6. CASE UART_Enable
  <2>1. /\ pc = "uartOn" /\ pc' = "leds" /\ masked' = FALSE
        /\ enabled' = enabled \cup {"ByteReceived"}
        /\ hasInitialized' = hasInitialized \cup {"packet"}
        /\ UNCHANGED <<InitSuccess, failed>>
    BY <1>6 DEF UART_Enable
  <2>2. Progress'
    BY <1>1, <1>2, <1>4, <2>1 DEF Progress
  <2>3. Signals'
    BY <1>1, <1>2, <2>1 DEF Signals, Interrupts
  <2>4. FirstTurn'
    BY <1>1, <1>2, <2>1 DEF FirstTurn, Taken
  <2>5. ~ failed /\ block["ByteReceived"] # NULL
    <3>1. ~ failed
      BY <1>1, <2>1 DEF Progress
    <3>2. block[UARTSemaphores[1]] # NULL
      BY <1>1, <2>1, <3>1 DEF FirstTurn
    <3> QED
      BY <3>1, <3>2
  <2>6. Found'
    BY <1>1, <1>2, <2>1, <2>5 DEF Found, Exhausted
  <2> QED
    BY <1>3, <2>2, <2>3, <2>4, <2>6 DEF IInv
<1>7. CASE LEDs_Init
  <2>1. /\ pc = "leds" /\ pc' = "pit"
        /\ InitSuccess' = (InitSuccess /\ "leds" \notin hasInitialized)
        /\ hasInitialized' = hasInitialized \cup {"leds"}
        /\ UNCHANGED <<failed, masked, enabled>>
    BY <1>7 DEF LEDs_Init, Reported, FirstCall, interrupts
  <2>2. Progress'
    BY <1>1, <1>2, <1>4, <2>1 DEF Progress
  <2>3. Signals'
    BY <1>1, <1>2, <2>1 DEF Signals
  <2>4. FirstTurn' /\ Found'
    BY <1>1, <1>2, <2>1 DEF FirstTurn, Taken, Found, Exhausted
  <2> QED
    BY <1>3, <2>2, <2>3, <2>4 DEF IInv
<1>8. CASE PIT_Start
  <2>1. /\ pc = "pitOn" /\ pc' = "analog"
        /\ enabled' = enabled \cup {"PIT"}
        /\ UNCHANGED <<InitSuccess, hasInitialized, failed, masked>>
    BY <1>8 DEF PIT_Start, progress
  <2>2. Progress'
    BY <1>1, <1>2, <1>4, <2>1 DEF Progress
  <2>3. Signals'
    BY <1>1, <1>2, <2>1 DEF Signals, Interrupts
  <2>4. FirstTurn'
    BY <1>1, <1>2, <2>1 DEF FirstTurn, Taken
  <2>5. block["PIT"] = NULL => Exhausted
    <3>1. CASE failed
      BY <1>1, <3>1 DEF Signals, Found
    <3>2. CASE ~ failed
      BY <1>1, <2>1, <3>2 DEF FirstTurn
    <3> QED
      BY <3>1, <3>2
  <2>6. Found'
    BY <1>1, <1>2, <2>1, <2>5 DEF Found, Exhausted
  <2> QED
    BY <1>3, <2>2, <2>3, <2>4, <2>6 DEF IInv
<1>9. ASSUME NEW result \in BOOLEAN, Analog_Init(result)
      PROVE  IInv'
  <2>1. /\ pc = "analog"
        /\ UNCHANGED <<hasInitialized, masked, enabled>>
        /\ InitSuccess' = (InitSuccess /\ result)
        /\ failed' = (failed \/ ~ result)
        /\ pc' = IF InitSuccess' THEN "create" ELSE "packet"
    BY <1>9 DEF Analog_Init, Reported, interrupts
  <2>2. Progress'
    BY <1>1, <1>2, <1>4, <2>1 DEF Progress
  <2>3. ~ failed' => ~ failed /\ pc' = "create"
    BY <1>1, <2>1 DEF Progress
  <2>4. Signals'
    BY <1>1, <1>2, <2>1, <2>3 DEF Signals
  <2>5. FirstTurn'
    BY <1>1, <1>2, <1>4, <2>1, <2>3 DEF FirstTurn, Taken
  <2>6. Found'
    BY <1>1, <1>2, <2>1 DEF Found, Exhausted
  <2> QED
    BY <1>3, <2>2, <2>4, <2>5, <2>6 DEF IInv
<1>10. CASE Delete
  <2>1. /\ pc = "delete" /\ pc' = "deleted" /\ masked' = FALSE /\ enabled' = enabled
        /\ UNCHANGED <<InitSuccess, hasInitialized, failed>>
    BY <1>10 DEF Delete, progress
  <2>2. Progress' /\ Signals'
    BY <1>1, <1>2, <1>4, <2>1 DEF Progress, Signals
  <2>3. FirstTurn' /\ Found'
    BY <1>1, <1>2, <2>1 DEF FirstTurn, Taken, Found, Exhausted
  <2> QED
    BY <1>3, <2>2, <2>3 DEF IInv
<1> QED
  BY <1>5, <1>6, <1>7, <1>8, <1>9, <1>10

\* Interrupt routines signal, and after the initialisation threads wait.
LEMMA SignalSteps ==
  ASSUME IInv, NEW s \in Interrupts, Interrupt(s) \/ ThreadWaits(s)
  PROVE  IInv'
<1> USE Lists
<1>1. Progress /\ Blocks /\ Signals /\ FirstTurn /\ Found
  BY DEF IInv
<1>2. UNCHANGED <<pc, next, InitSuccess, hasInitialized, failed, masked, enabled,
                  created, block, lost>>
  BY DEF Interrupt, ThreadWaits, progress, interrupts
<1>3. Progress' /\ Blocks' /\ FirstTurn'
  BY <1>1, <1>2 DEF Progress, Blocks, FirstTurn, Taken
<1>4. CASE Interrupt(s)
  <2>1. /\ s \in enabled /\ count[s] < MaxCount
        /\ \/ block[s] = NULL /\ nullSignal' = TRUE /\ count' = count
           \/ count' = [count EXCEPT ![s] = @ + 1] /\ nullSignal' = nullSignal
    BY <1>4 DEF Interrupt, OS_SemaphoreSignal
  <2>2. /\ count' \in [Interrupts -> 0 .. MaxCount]
        /\ \A t \in Interrupts : t # s => count'[t] = count[t]
        /\ nullSignal' \in BOOLEAN
    <3>1. count \in [Interrupts -> 0 .. MaxCount] /\ nullSignal \in BOOLEAN
      BY <1>1 DEF Signals
    <3>2. CASE count' = count
      BY <2>1, <3>1, <3>2
    <3>3. CASE count' = [count EXCEPT ![s] = @ + 1]
      <4>1. count[s] + 1 \in 0 .. MaxCount
        BY <2>1, <3>1, CountAssumption
      <4> QED
        BY <2>1, <3>1, <3>3, <4>1
    <3> QED
      BY <2>1, <3>2, <3>3
  <2>3. Signals'
    BY <1>1, <1>2, <2>1, <2>2 DEF Signals
  <2>4. Found'
    BY <1>1, <1>2, <2>1 DEF Found, Exhausted
  <2> QED
    BY <1>3, <2>3, <2>4 DEF IInv
<1>5. CASE ThreadWaits(s)
  <2>1. /\ count[s] > 0 /\ count' = [count EXCEPT ![s] = @ - 1] /\ nullSignal' = nullSignal
    BY <1>5 DEF ThreadWaits
  <2>2. /\ count' \in [Interrupts -> 0 .. MaxCount]
        /\ \A t \in Interrupts : t # s => count'[t] = count[t]
        /\ s \in enabled
    BY <1>1, <2>1, CountAssumption DEF Signals
  <2>3. Signals'
    BY <1>1, <1>2, <2>1, <2>2 DEF Signals
  <2>4. Found'
    BY <1>1, <1>2, <2>1 DEF Found, Exhausted
  <2> QED
    BY <1>3, <2>3, <2>4 DEF IInv
<1> QED
  BY <1>4, <1>5

\* The inductive invariant holds when InitModulesThread begins.
LEMMA InitIInv == Init => IInv
<1> SUFFICES ASSUME Init PROVE IInv
  OBVIOUS
<1> USE Lists, BlockAssumption, CountAssumption DEF Init
<1>1. Progress
  <2>1. /\ pc = "disable" /\ next = 1 /\ InitSuccess = FALSE /\ failed = FALSE
        /\ hasInitialized = {}
    OBVIOUS
  <2>2. InitSuccess \in BOOLEAN /\ failed \in BOOLEAN /\ ~ failed
    BY <2>1
  <2>3. next \in 1 .. (IF pc = "uart" THEN UARTs ELSE IF pc = "create" THEN Mains ELSE 1)
    BY <2>1
  <2> QED
    BY <2>1, <2>2, <2>3 DEF Progress
<1>2. Blocks
  <2>1. /\ created = 0 /\ \A s \in Semaphores : block[s] = 0
        /\ block \in [Semaphores -> 0 .. OS_MAX_EVENTS]
    BY DEF NULL
  <2> QED
    BY <2>1 DEF Blocks, NULL
<1>3. Signals
  <2>1. /\ masked \in BOOLEAN /\ nullSignal \in BOOLEAN /\ lost \in BOOLEAN
        /\ ~ failed /\ ~ lost /\ enabled = {} /\ pc = "disable"
    OBVIOUS
  <2>2. count \in [Interrupts -> 0 .. MaxCount] /\ \A s \in Interrupts : count[s] = 0
    OBVIOUS
  <2> QED
    BY <2>1, <2>2 DEF Signals
<1>4. FirstTurn
  BY DEF FirstTurn, Taken
<1>5. Found
  BY DEF Found
<1> QED
  BY <1>1, <1>2, <1>3, <1>4, <1>5 DEF IInv

\* Every step of InitModulesThread, of an interrupt routine and of the threads
\* that wait keeps it, if the pool is large enough for one turn.
LEMMA StepIInv ==
  ASSUME PoolSuffices, IInv, [Next]_vars
  PROVE  IInv'
<1>1. CASE InitModulesThread
  BY <1>1, PacketStep, UARTStep, PITStep, MainStep, QuietSteps DEF InitModulesThread
<1>2. CASE \E s \in Interrupts : Interrupt(s) \/ ThreadWaits(s)
  BY <1>2, SignalSteps
<1>3. CASE UNCHANGED vars
  <2>1. UNCHANGED <<pc, next, InitSuccess, hasInitialized, failed, masked, enabled,
                    created, block, count, lost, nullSignal>>
    BY <1>3 DEF vars, progress, interrupts, semaphores
  <2> QED
    BY <2>1 DEF IInv, Progress, Blocks, Signals, FirstTurn, Taken, Found, Exhausted
<1> QED
  BY <1>1, <1>2, <1>3 DEF Next

\* Every variable of the initialisation keeps its type.
THEOREM TypeCorrect ==
  ASSUME PoolSuffices
  PROVE  Spec => []TypeOK
<1>1. IInv => TypeOK
  BY Lists DEF IInv, Progress, Blocks, Signals, TypeOK, UARTs, Mains
<1>2. IInv /\ [Next]_vars => IInv'
  BY StepIInv
<1> QED
  BY <1>1, <1>2, InitIInv, PTL DEF Spec

\* If the pool of event control blocks is large enough for the semaphores of the
\* program, every thread finds those it waits for when the threads begin to run,
\* and has missed no signal, whatever failed or interrupted the initialisation.
THEOREM SemaphoresFound ==
  ASSUME PoolSuffices
  PROVE  Spec => []ThreadsFindSemaphores
<1>1. IInv => ThreadsFindSemaphores
  <2> SUFFICES ASSUME IInv, pc = "deleted" PROVE ThreadsFindSemaphores
    BY DEF ThreadsFindSemaphores
  <2>1. ~ failed
    BY DEF IInv, Progress
  <2>2. \A s \in Semaphores : block[s] # NULL
    <3>1. /\ block["Packet_ByteReady"] # NULL /\ block["PIT"] # NULL
          /\ \A i \in 1 .. UARTs : block[UARTSemaphores[i]] # NULL
          /\ \A i \in 1 .. Mains : block[MainSemaphores[i]] # NULL
      BY <2>1 DEF IInv, FirstTurn
    <3> QED
      BY <3>1, Lists
  <2> QED
    BY <2>1, <2>2 DEF IInv, Signals, Blocks, ThreadsFindSemaphores
<1>2. IInv /\ [Next]_vars => IInv'
  BY StepIInv
<1> QED
  BY <1>1, <1>2, InitIInv, PTL DEF Spec

\* Under the same condition an interrupt routine signals a semaphore that does
\* not exist only after failed turns have used up the pool.
THEOREM InterruptsSafe ==
  ASSUME PoolSuffices
  PROVE  Spec => []InterruptsFindSemaphores
<1>1. IInv => InterruptsFindSemaphores
  BY DEF IInv, Found, Exhausted, InterruptsFindSemaphores
<1>2. IInv /\ [Next]_vars => IInv'
  BY StepIInv
<1> QED
  BY <1>1, <1>2, InitIInv, PTL DEF Spec

-----------------------------------------------------------------------------
\* Where the loop is does not depend on the pool, and a failure is not forgotten.
LEMMA ProgressStep ==
  ASSUME Progress, [Next]_vars
  PROVE  Progress' /\ (failed => failed')
<1> USE Lists DEF Progress
<1>1. CASE DisableInterrupts
  BY <1>1 DEF DisableInterrupts, progress
<1>2. CASE Packet_Init
  <2>1. pc = "packet" /\ UNCHANGED <<next, hasInitialized, failed>>
    BY <1>2 DEF Packet_Init
  <2>2. IF "packet" \in hasInitialized
        THEN InitSuccess' = FALSE /\ pc' = "leds"
        ELSE InitSuccess' = TRUE /\ pc' = "uart"
    BY <1>2 DEF Packet_Init, FirstCall
  <2>3. next = 1
    BY <2>1
  <2>4. CASE failed
    BY <2>1, <2>2, <2>3, <2>4
  <2>5. CASE ~ failed
    <3>1. hasInitialized = {}
      BY <2>1, <2>5
    <3>2. InitSuccess' = TRUE /\ pc' = "uart" /\ hasInitialized' = {} /\ ~ failed'
      BY <2>1, <2>2, <2>5, <3>1
    <3> QED
      BY <2>1, <2>3, <2>5, <3>1, <3>2
  <2> QED
    BY <2>4, <2>5
<1>3. CASE UART_Create
  BY <1>3 DEF UART_Create, UARTs, progress
<1>4. CASE UART_Enable
  BY <1>4 DEF UART_Enable
<1>5. CASE LEDs_Init
  BY <1>5 DEF LEDs_Init, Reported, FirstCall
<1>6. CASE PIT_Create \/ PIT_Start \/ Delete
  <2>1. /\ UNCHANGED <<next, InitSuccess, hasInitialized, failed>>
        /\ \/ pc = "pit" /\ pc' = "pitOn"
           \/ pc = "pitOn" /\ pc' = "analog"
           \/ pc = "delete" /\ pc' = "deleted"
    BY <1>6 DEF PIT_Create, PIT_Start, Delete, progress
  <2>2. next = 1
    BY <2>1
  <2> QED
    BY <2>1, <2>2
<1>7. ASSUME NEW result \in BOOLEAN, Analog_Init(result)
      PROVE  Progress' /\ (failed => failed')
  BY <1>7 DEF Analog_Init, Reported
<1>8. CASE Main_Create
  <2>1. /\ UNCHANGED <<InitSuccess, hasInitialized, failed>>
        /\ pc = "create"
        /\ \/ next < Mains /\ next' = next + 1 /\ pc' = "create"
           \/ ~ (next < Mains) /\ next' = 1 /\ pc' = "delete"
    BY <1>8 DEF Main_Create, Mains, progress
  <2>2. next \in 1 .. Mains
    BY <2>1
  <2> QED
    BY <2>1, <2>2
<1>9. CASE \E s \in Interrupts : Interrupt(s) \/ ThreadWaits(s)
  <2>1. UNCHANGED <<pc, next, InitSuccess, hasInitialized, failed>>
    BY <1>9 DEF Interrupt, ThreadWaits, progress
  <2> QED
    BY <2>1
<1>10. CASE UNCHANGED vars
  BY <1>10 DEF vars, progress
<1> QED
  BY <1>1, <1>2, <1>3, <1>4, <1>5, <1>6, <1>7, <1>8, <1>9, <1>10 DEF Next, InitModulesThread

\* One module that fails once keeps the program in the loop for ever, with any
\* pool: the modules that have been initialised fail in every later turn.
THEOREM RetryNeverEnds ==
  Spec => [](failed => [](failed /\ pc \notin {"create", "delete", "deleted"}))
<1>1. Init => Progress
  BY InitIInv DEF IInv
<1>2. Progress /\ [Next]_vars => Progress' /\ (failed => failed')
  BY ProgressStep
<1>3. Progress /\ failed => pc \notin {"create", "delete", "deleted"}
  BY DEF Progress
<1> QED
  BY <1>1, <1>2, <1>3, PTL DEF Spec

-----------------------------------------------------------------------------
\* A pool that is too small: the first turn takes what there is, and nothing is
\* left for the last semaphore.
RunsShort ==
    /\ Blocks
    /\ count \in [Interrupts -> 0 .. MaxCount] /\ lost \in BOOLEAN
    /\ ~ failed => created \in {Taken, OS_MAX_EVENTS}
    /\ pc \in {"delete", "deleted"} => block[MainSemaphores[Mains]] = NULL

\* A step of the first turn that creates a semaphore takes one block more, if
\* there is one.
LEMMA RunsShortCreate ==
  ASSUME ~ PoolSuffices, Progress, RunsShort,
         Packet_Init \/ UART_Create \/ PIT_Create \/ Main_Create
  PROVE  RunsShort'
<1> USE Lists
<1>1. PICK s \in Semaphores :
        /\ OS_SemaphoreCreate(s)
        /\ Main_Create => s = MainSemaphores[next]
  <2>1. UART_Create => next \in 1 .. UARTs
    BY DEF UART_Create, Progress
  <2>2. Main_Create => next \in 1 .. Mains
    BY DEF Main_Create, Progress
  <2>3. Packet_Init \/ PIT_Create => ~ Main_Create
    BY DEF Packet_Init, PIT_Create, Main_Create
  <2>4. UART_Create => ~ Main_Create
    BY DEF UART_Create, Main_Create
  <2> QED
    BY <2>1, <2>2, <2>3, <2>4 DEF Packet_Init, UART_Create, PIT_Create, Main_Create
<1>2. /\ Blocks'
      /\ \/ created < OS_MAX_EVENTS /\ created' = created + 1
         \/ created = OS_MAX_EVENTS /\ created' = created
      /\ count' \in [Interrupts -> 0 .. MaxCount] /\ lost' \in BOOLEAN
  BY <1>1, CreateEffect DEF RunsShort
<1>3. /\ failed' = failed
      /\ pc = "packet" \/ pc = "uart" \/ pc = "pit" \/ pc = "create"
      /\ pc' \in {"delete", "deleted"} => Main_Create /\ next = Mains
  <2>1. CASE Packet_Init \/ UART_Create \/ PIT_Create
    BY <2>1 DEF Packet_Init, UART_Create, PIT_Create, progress
  <2>2. CASE Main_Create
    BY <2>2 DEF Main_Create, Mains, progress, Progress
  <2> QED
    BY <2>1, <2>2
<1>4. ~ failed => Taken' = Taken + 1
  <2> SUFFICES ASSUME ~ failed PROVE Taken' = Taken + 1
    OBVIOUS
  <2>1. CASE Packet_Init
    <3>1. hasInitialized = {} /\ next = 1
      BY <2>1 DEF Progress, Packet_Init
    <3> QED
      BY <2>1, <3>1 DEF Packet_Init, Taken
  <2>2. CASE UART_Create
    <3>1. /\ pc = "uart" /\ next \in 1 .. UARTs
          /\ \/ next < UARTs /\ next' = next + 1 /\ pc' = "uart"
             \/ next = UARTs /\ pc' = "uartOn"
      BY <2>2 DEF UART_Create, Progress, UARTs
    <3> QED
      BY <3>1 DEF Taken
  <2>3. CASE PIT_Create
    BY <2>3 DEF PIT_Create, Taken
  <2>4. CASE Main_Create
    <3>1. /\ pc = "create" /\ next \in 1 .. Mains
          /\ \/ next < Mains /\ next' = next + 1 /\ pc' = "create"
             \/ next = Mains /\ pc' = "delete"
      BY <2>4 DEF Main_Create, Progress, Mains
    <3> QED
      BY <3>1 DEF Taken
  <2> QED
    BY <2>1, <2>2, <2>3, <2>4
<1>5. ~ failed' => created' \in {Taken', OS_MAX_EVENTS}
  BY <1>2, <1>3, <1>4, BlockAssumption DEF RunsShort
<1>6. pc' \in {"delete", "deleted"} => block'[MainSemaphores[Mains]] = NULL
  <2> SUFFICES ASSUME Main_Create, next = Mains PROVE block'[MainSemaphores[Mains]] = NULL
    BY <1>3
  <2>1. pc = "create" /\ ~ failed
    BY DEF Main_Create, Progress
  <2>2. created \in {1 + UARTs + Mains, OS_MAX_EVENTS} /\ created \in 0 .. OS_MAX_EVENTS
    BY <2>1 DEF RunsShort, Taken, Blocks
  <2>3. ~ (created < OS_MAX_EVENTS)
    BY <2>2, BlockAssumption DEF PoolSuffices
  <2>4. block' = [block EXCEPT ![MainSemaphores[Mains]] = NULL]
    BY <1>1, <2>3 DEF OS_SemaphoreCreate
  <2>5. MainSemaphores[Mains] \in Semaphores
    OBVIOUS
  <2> QED
    BY <2>4, <2>5 DEF RunsShort, Blocks
<1> QED
  BY <1>2, <1>5, <1>6 DEF RunsShort

\* The other steps leave the pool as it is.
LEMMA RunsShortQuiet ==
  ASSUME Progress, RunsShort, [Next]_vars,
         ~ (Packet_Init \/ UART_Create \/ PIT_Create \/ Main_Create)
  PROVE  RunsShort'
<1> USE Lists
<1>1. CASE \/ DisableInterrupts \/ UART_Enable \/ LEDs_Init \/ PIT_Start
           \/ (\E result \in BOOLEAN : Analog_Init(result)) \/ Delete
  <2>1. /\ UNCHANGED <<created, block, count, lost, next>>
        /\ failed => failed'
    BY <1>1 DEF DisableInterrupts, UART_Enable, LEDs_Init, PIT_Start, Analog_Init, Delete,
           semaphores, progress, Progress
  <2>2. next = 1
    BY <1>1 DEF DisableInterrupts, UART_Enable, LEDs_Init, PIT_Start, Analog_Init, Delete,
           Progress
  <2>3. ~ failed' => Taken' = Taken
    <3>1. CASE DisableInterrupts \/ UART_Enable \/ LEDs_Init \/ PIT_Start \/ Delete
      BY <3>1 DEF DisableInterrupts, UART_Enable, LEDs_Init, PIT_Start, Delete, Taken
    <3>2. ASSUME NEW result \in BOOLEAN, Analog_Init(result), ~ failed'
          PROVE  Taken' = Taken
      <4>1. ~ failed /\ result /\ pc = "analog" /\ InitSuccess
        BY <3>2 DEF Analog_Init, Progress
      <4>2. pc' = "create"
        BY <3>2, <4>1 DEF Analog_Init, Reported
      <4> QED
        BY <2>1, <2>2, <4>1, <4>2 DEF Taken
    <3> QED
      BY <1>1, <3>1, <3>2
  <2>4. pc' \in {"delete", "deleted"} => pc = "delete"
    BY <1>1 DEF DisableInterrupts, UART_Enable, LEDs_Init, PIT_Start, Analog_Init, Delete
  <2> QED
    BY <2>1, <2>3, <2>4 DEF RunsShort, Blocks
<1>2. ASSUME NEW s \in Interrupts, Interrupt(s) \/ ThreadWaits(s)
      PROVE  RunsShort'
  <2>1. UNCHANGED <<pc, next, failed, created, block, lost>>
    BY <1>2 DEF Interrupt, ThreadWaits, progress
  <2>2. /\ count \in [Interrupts -> 0 .. MaxCount]
        /\ \/ count' = count
           \/ count[s] < MaxCount /\ count' = [count EXCEPT ![s] = @ + 1]
           \/ count[s] > 0 /\ count' = [count EXCEPT ![s] = @ - 1]
    BY <1>2 DEF Interrupt, ThreadWaits, OS_SemaphoreSignal, RunsShort
  <2>3. count' \in [Interrupts -> 0 .. MaxCount]
    BY <2>2, CountAssumption
  <2> QED
    BY <2>1, <2>3 DEF RunsShort, Blocks, Taken
<1>3. CASE UNCHANGED vars
  BY <1>3 DEF vars, semaphores, progress, RunsShort, Blocks, Taken
<1> QED
  BY <1>1, <1>2, <1>3 DEF Next, InitModulesThread

\* PoolSuffices asks for no block too many: with a smaller pool the threads begin
\* to run without the last semaphore, whose creator does not look at the result.
THEOREM PoolIsNeeded ==
  ASSUME ~ PoolSuffices
  PROVE  Spec => [](pc = "deleted" => ~ ThreadsFindSemaphores)
<1>1. Init => Progress /\ RunsShort
  <2>1. Init => IInv /\ created = 0 /\ pc = "disable"
    BY InitIInv DEF Init
  <2> QED
    BY <2>1 DEF IInv, Signals, RunsShort, Taken
<1>2. Progress /\ RunsShort /\ [Next]_vars => Progress' /\ RunsShort'
  BY ProgressStep, RunsShortCreate, RunsShortQuiet
<1>3. RunsShort => (pc = "deleted" => ~ ThreadsFindSemaphores)
  <2>1. MainSemaphores[Mains] \in Semaphores
    BY Lists
  <2> QED
    BY <2>1 DEF RunsShort, ThreadsFindSemaphores
<1> QED
  BY <1>1, <1>2, <1>3, PTL DEF Spec

\* Which is seventeen blocks for the three channels of the program.
LEMMA ProgramPool ==
  ASSUME NB_ANALOG_CHANNELS = 3
  PROVE  PoolSuffices <=> OS_MAX_EVENTS >= 17
BY Lists, BlockAssumption DEF PoolSuffices
=============================================================================
