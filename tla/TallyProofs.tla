---------------------------- MODULE TallyProofs -----------------------------
(***************************************************************************)
(* Proofs about the counts in flash, for every size of the data block and  *)
(* every limit of the count beyond it.                                     *)
(***************************************************************************)
EXTENDS Tally, TLAPS

Registers == [command : {"none", "erase", "program"}, address : Phrases, data : Phrase]

\* What the division and the remainders come to.
LEMMA Sizes ==
  /\ FLASH_SIZE_BYTES \in Nat /\ FLASH_SIZE_BYTES >= 2 /\ FLASH_SIZE_BYTES % 2 = 0
  /\ HalfWords = 0 .. FLASH_SIZE_BYTES \div 2 - 1
  /\ FLASH_SIZE_BYTES \div 2 \in Nat \ {0}
  /\ 0 \in HalfWords
  /\ \A a \in 0 .. FLASH_SIZE_BYTES - 1 : a \div 2 \in HalfWords
BY SizeAssumption DEF HalfWords

\* A remainder is smaller than the divisor.
LEMMA Remainder ==
  ASSUME NEW a \in Nat, NEW b \in Nat \ {0}
  PROVE  a % b \in 0 .. b - 1 /\ (a < b => a % b = a)
OBVIOUS

\* Phrases and commands have their types.
LEMMA CommandTypes ==
  /\ Blank \in Phrase /\ Garbage \in Phrase /\ NoCommand \in Registers
  /\ \A r \in Registers, name \in {"erase", "program"} : Launched(name, r) \in Registers
<1>1. Blank \in Phrase /\ Garbage \in Phrase
  BY CountAssumption, Sizes DEF Blank, Garbage, Erased, Unknown, Phrase, Contents
<1> QED
  BY <1>1 DEF NoCommand, Command, Registers, Phrases, Launched

\* So has the command that replaces one half-word of a phrase.
LEMMA ReplacedType ==
  ASSUME TypeOK, NEW p \in Phrases, NEW h \in HalfWords, NEW v \in Contents
  PROVE  /\ Replaced(p, h, v) \in Registers
         /\ Replaced(p, h, v).address = p
         /\ Replaced(p, h, v).data = [memory[p] EXCEPT ![h] = v]
BY DEF TypeOK, Replaced, Command, Registers, Phrase

\* The write of a half-word that SignalOutput_Thread begins, or does not.
LEMMA Write16Effect ==
  ASSUME TypeOK, NEW pointer \in Pointer, NEW v \in 0 .. CountLimit - 1,
         outputPc = "awake", Flash_Write16(pointer, v)
  PROVE  /\ outputCall' \in Registers /\ stored' \in Phrase
         /\ outputPc' \in {"awake", "erase"}
         /\ pointer \in 0 .. FLASH_SIZE_BYTES - 1 =>
              stored' = IF pointer % 2 = 0 THEN [stored EXCEPT ![pointer \div 2] = v]
                                           ELSE stored
         /\ outputPc' = "awake" => stored' = stored
         /\ outputPc' = "erase" /\ outputCall'.address = "null" => stored' = stored
         /\ outputPc' = "erase" /\ outputCall'.address = "block" =>
              \E h \in HalfWords :
                /\ stored' = [stored EXCEPT ![h] = v]
                /\ outputCall'.data = [memory["block"] EXCEPT ![h] = v]
<1>1. v \in Contents /\ stored \in Phrase /\ outputCall \in Registers
  BY CountAssumption DEF TypeOK, Contents, Registers
<1>2. CASE pointer % 2 # 0
  BY <1>1, <1>2 DEF Flash_Write16, output
<1>3. CASE pointer % 2 = 0 /\ pointer = NULL
  <2>1. /\ outputCall' = Replaced("null", 0, v) /\ outputPc' = "erase" /\ stored' = stored
    BY <1>3 DEF Flash_Write16
  <2>2. outputCall' \in Registers /\ outputCall'.address = "null"
    BY <1>1, <2>1, ReplacedType, Sizes DEF Phrases
  <2> QED
    BY <1>1, <1>3, <2>1, <2>2, Sizes DEF NULL
<1>4. CASE pointer % 2 = 0 /\ pointer # NULL
  <2> DEFINE h == pointer \div 2
  <2>1. pointer \in 0 .. FLASH_SIZE_BYTES - 1 /\ h \in HalfWords
    BY <1>4, Sizes DEF Pointer, NULL
  <2>2. /\ outputCall' = Replaced("block", h, v) /\ outputPc' = "erase"
        /\ stored' = [stored EXCEPT ![h] = v]
    BY <1>4 DEF Flash_Write16
  <2>3. /\ outputCall' \in Registers /\ outputCall'.address = "block"
        /\ outputCall'.data = [memory["block"] EXCEPT ![h] = v]
    BY <1>1, <2>1, <2>2, ReplacedType DEF Phrases
  <2>4. stored' \in Phrase
    BY <1>1, <2>1, <2>2 DEF Phrase
  <2> QED
    BY <1>4, <2>1, <2>2, <2>3, <2>4
<1> QED
  BY <1>2, <1>3, <1>4

\* The place that Flash_AllocateVar gives is one of the data block, or none.
LEMMA AllocatedType ==
  ASSUME used \in Pointer, NEW p \in Pointer
  PROVE  /\ Allocated(p) \in Pointer
         /\ used < FLASH_SIZE_BYTES => Allocated(p) = used
         /\ used + 1 \in Nat
         /\ Flash_AllocateVar => used' \in Pointer
BY Sizes DEF Pointer, Allocated, Flash_AllocateVar

\* Every step keeps the types.
LEMMA TypeStep ==
  ASSUME TypeOK, [Next]_vars
  PROVE  TypeOK'
<1>0. /\ FCCOB \in Registers /\ outputCall \in Registers /\ packetCall \in Registers
      /\ FCCOB.address \in Phrases /\ FCCOB.data \in Phrase
      /\ used \in Pointer /\ NbRaises \in Pointer /\ NbLowers \in Pointer
      /\ NbRaisesCount \in 0 .. CountLimit - 1 /\ packetIndex \in HalfWords
      /\ memory \in [Phrases -> Phrase]
  BY DEF TypeOK, Registers
<1>1. CASE Completes
  <2>1. FCCOB.address \in Phrases /\ FCCOB.data \in Phrase
    BY <1>0
  <2>2. ASSUME NEW f \in Phrase
        PROVE  [h \in HalfWords |-> Programmed(f[h], FCCOB.data[h])] \in Phrase
    <3>1. ASSUME NEW h \in HalfWords
          PROVE  Programmed(f[h], FCCOB.data[h]) \in Contents
      <4>1. f[h] \in Contents /\ FCCOB.data[h] \in Contents /\ Unknown \in Contents
        <5>1. f[h] \in Contents /\ FCCOB.data[h] \in Contents
          BY <2>1, <2>2, <3>1 DEF Phrase
        <5>2. Unknown \in Contents
          BY CountAssumption, Sizes DEF Unknown, Contents
        <5> QED
          BY <5>1, <5>2
      <4>2. Programmed(f[h], FCCOB.data[h]) \in {f[h], FCCOB.data[h], Unknown}
        BY DEF Programmed
      <4> QED
        BY <4>1, <4>2
    <3> QED
      BY <3>1 DEF Phrase
  <2>3. memory' \in [Phrases -> Phrase]
    BY <1>0, <1>1, <2>1, <2>2, CommandTypes DEF Completes
  <2> QED
    BY <1>1, <2>3 DEF TypeOK, Completes, counts, output, packet
<1>2. CASE Wakes
  BY <1>2 DEF TypeOK, Wakes, flash, counts, packet
<1>3. CASE Sleeps
  BY <1>3 DEF TypeOK, Sleeps, flash, counts, packet
<1>4. CASE CountRaise
  <2>1. NbRaises' \in Pointer /\ used' \in Pointer
    BY <1>0, <1>4, AllocatedType DEF CountRaise
  <2>2. NbRaisesCount' \in 0 .. CountLimit - 1
    <3>1. NbRaisesCount + 1 \in Nat /\ CountLimit \in Nat \ {0}
      BY <1>0, CountAssumption, Sizes
    <3> QED
      BY <1>4, <3>1, Remainder DEF CountRaise
  <2>3. outputCall' \in Registers /\ stored' \in Phrase /\ outputPc' \in {"awake", "erase"}
    BY <1>4, <2>1, <2>2, Write16Effect DEF CountRaise
  <2>4. UNCHANGED <<memory, FCCOB, CCIF, NbLowers, packetPc, packetIndex, packetCall, torn>>
    BY <1>4 DEF CountRaise, flash, packet
  <2> QED
    BY <2>1, <2>2, <2>3, <2>4 DEF TypeOK, Registers
<1>5. CASE CountLower
  <2>1. NbLowers' \in Pointer /\ used' \in Pointer
    BY <1>0, <1>5, AllocatedType DEF CountLower
  <2>2. NbLowers' % NULL \in 0 .. CountLimit - 1
    <3>1. NbLowers' \in Nat /\ NULL \in Nat \ {0} /\ NULL < CountLimit
      <4>1. NbLowers' \in Nat
        BY <2>1, Sizes DEF Pointer
      <4>2. NULL \in Nat \ {0} /\ NULL < CountLimit
        BY CountAssumption, Sizes DEF NULL
      <4> QED
        BY <4>1, <4>2
    <3> DEFINE x == NbLowers' % NULL
    <3>2. x \in 0 .. NULL - 1
      BY <3>1, Remainder
    <3> HIDE DEF x
    <3>3. x \in 0 .. CountLimit - 1
      BY <3>1, <3>2, CountAssumption
    <3> QED
      BY <3>3 DEF x
  <2>3. outputCall' \in Registers /\ stored' \in Phrase /\ outputPc' \in {"awake", "erase"}
    BY <1>5, <2>1, <2>2, Write16Effect DEF CountLower
  <2>4. UNCHANGED <<memory, FCCOB, CCIF, NbRaises, NbRaisesCount,
                    packetPc, packetIndex, packetCall, torn>>
    BY <1>5 DEF CountLower, flash, packet
  <2> QED
    BY <2>1, <2>2, <2>3, <2>4 DEF TypeOK, Registers
<1>6. ASSUME NEW name \in {"erase", "program"}, LaunchCommand(name)
      PROVE  TypeOK'
  <2>1. FCCOB' \in Registers /\ outputPc' \in {"erasing", "programming"}
    BY <1>0, <1>6, CommandTypes DEF LaunchCommand
  <2> QED
    BY <1>6, <2>1 DEF TypeOK, LaunchCommand, counts, packet, Registers
<1>7. CASE LaunchReturns
  <2>1. outputCall' \in Registers /\ outputPc' \in {"awake", "program"}
    BY <1>0, <1>7, CommandTypes DEF LaunchReturns
  <2> QED
    BY <1>7, <2>1 DEF TypeOK, LaunchReturns, flash, counts, packet, Registers
<1>8. CASE Packet_Reset
  <2>1. Replaced("null", 0, 0) \in Registers
    <3>1. 0 \in Contents
      BY CountAssumption, Sizes DEF Contents
    <3> QED
      BY <3>1, ReplacedType, Sizes DEF Phrases
  <2> QED
    BY <1>8, <2>1 DEF TypeOK, Packet_Reset, flash, counts, output, Registers
<1>9. CASE Packet_Ready
  BY <1>9 DEF TypeOK, Packet_Ready, flash, counts, output
<1>10. CASE Packet_FillCommand
  <2>1. FCCOB' \in Registers
    BY <1>0, <1>10 DEF Packet_FillCommand, Registers
  <2> QED
    BY <1>10, <2>1 DEF TypeOK, Packet_FillCommand, Registers, counts, output
<1>11. CASE Packet_FillAddress
  <2>1. FCCOB' \in Registers
    BY <1>0, <1>11 DEF Packet_FillAddress, Registers
  <2> QED
    BY <1>11, <2>1 DEF TypeOK, Packet_FillAddress, Registers, counts, output
<1>12. CASE Packet_FillData
  <2>1. PacketCommand.data \in Phrase
    <3>1. packetCall.data \in Phrase
      BY <1>0 DEF Registers
    <3> QED
      BY <3>1, CommandTypes DEF PacketCommand, Launched, Command
  <2>2. FCCOB' \in Registers
    <3>1. PacketCommand.data[packetIndex] \in Contents
      BY <1>0, <2>1 DEF Phrase
    <3> HIDE DEF PacketCommand
    <3> QED
      BY <1>0, <1>12, <3>1 DEF Packet_FillData, Registers, Phrase
  <2>3. packetIndex' \in HalfWords
    <3>1. packetIndex + 1 \in Nat
      BY <1>0, Sizes
    <3> QED
      BY <1>12, <3>1, Sizes, Remainder DEF Packet_FillData
  <2>4. /\ packetPc' \in {"launch", "data"}
        /\ UNCHANGED <<memory, CCIF, used, NbRaises, NbLowers, NbRaisesCount, stored,
                       outputPc, outputCall, packetCall, torn>>
    BY <1>12 DEF Packet_FillData, counts, output
  <2> QED
    BY <2>2, <2>3, <2>4 DEF TypeOK, Registers
<1>13. CASE Packet_Launch
  <2>1. torn' \in BOOLEAN
    BY <1>13, Zenon DEF TypeOK, Packet_Launch
  <2> QED
    BY <1>13, <2>1 DEF TypeOK, Packet_Launch, counts, output
<1>14. CASE Packet_Return
  <2>1. packetCall' \in Registers /\ packetPc' \in {"ready", "idle"}
    BY <1>0, <1>14, CommandTypes DEF Packet_Return, Registers
  <2> QED
    BY <1>14, <2>1 DEF TypeOK, Packet_Return, flash, counts, output, Registers
<1>15. CASE UNCHANGED vars
  BY <1>15 DEF TypeOK, vars, flash, counts, output, packet
<1> QED
  BY <1>1, <1>2, <1>3, <1>4, <1>5, <1>6, <1>7, <1>8, <1>9, <1>10, <1>11, <1>12,
     <1>13, <1>14, <1>15 DEF Next, SignalOutput_Thread, PacketThread

\* Both threads stay within their steps and the registers within their values,
\* whatever they write and allocate.
THEOREM TypeCorrect == Spec => []TypeOK
<1>1. Init => TypeOK
  <2> SUFFICES ASSUME Init PROVE TypeOK
    OBVIOUS
  <2>1. NULL \in Pointer /\ 0 \in Pointer /\ 0 \in 0 .. CountLimit - 1
    BY CountAssumption, Sizes DEF Pointer, NULL
  <2>2. memory \in [Phrases -> Phrase]
    BY CommandTypes DEF Init
  <2> QED
    BY <2>1, <2>2, CommandTypes, Sizes DEF Init, TypeOK, Registers
<1>2. TypeOK /\ [Next]_vars => TypeOK'
  BY TypeStep
<1> QED
  BY <1>1, <1>2, PTL DEF Spec

Filling == packetPc \in {"command", "address", "data", "launch"}
Waiting == outputPc \in {"erasing", "programming"}

\* Between its first wait and its launch the packet thread has the flash for
\* itself, unless SignalOutput_Thread has preempted it and waits for a command
\* of its own; the command it then waits for is whole.
Exclusive ==
    /\ Filling /\ ~ Waiting => CCIF
    /\ OutputCommandsAreWhole
    /\ packetCall.address = "null"

\* Every step keeps the packet thread out of the commands of SignalOutput_Thread.
LEMMA ExclusiveStep ==
  ASSUME TypeOK, Exclusive, [Next]_vars
  PROVE  Exclusive'
<1> USE DEF Exclusive, OutputCommandsAreWhole, Filling, Waiting, Launched, Command
<1>1. CASE Completes
  BY <1>1 DEF Completes, output, packet
<1>2. CASE Wakes
  BY <1>2 DEF Wakes, flash, packet
<1>3. CASE Sleeps
  BY <1>3 DEF Sleeps, flash, packet
<1>4. CASE CountRaise \/ CountLower
  <2>1. outputPc = "awake" /\ outputPc' \in {"awake", "erase"}
    BY <1>4 DEF CountRaise, CountLower, Flash_Write16, output
  <2>2. UNCHANGED <<FCCOB, CCIF, packetPc, packetCall>>
    BY <1>4 DEF CountRaise, CountLower, flash, packet
  <2> QED
    BY <2>1, <2>2
<1>5. CASE LaunchCommand("erase")
  BY <1>5 DEF LaunchCommand, packet
<1>6. CASE LaunchCommand("program")
  BY <1>6 DEF LaunchCommand, packet
<1>7. CASE LaunchReturns
  BY <1>7 DEF LaunchReturns, flash, packet
<1>8. CASE Packet_Reset
  <2>1. packetCall'.address = "null" /\ packetPc' = "ready"
    BY <1>8 DEF Packet_Reset, Replaced
  <2> QED
    BY <1>8, <2>1 DEF Packet_Reset, PacketRuns, flash, output
<1>9. CASE Packet_Ready
  BY <1>9 DEF Packet_Ready, PacketRuns, flash, output
<1>10. CASE Packet_FillCommand \/ Packet_FillAddress \/ Packet_FillData
  <2>1. /\ Filling /\ CCIF' = CCIF /\ outputPc = "asleep"
        /\ UNCHANGED <<outputPc, outputCall, packetCall>>
    BY <1>10 DEF Packet_FillCommand, Packet_FillAddress, Packet_FillData, PacketRuns, output
  <2> QED
    BY <2>1
<1>11. CASE Packet_Launch
  BY <1>11 DEF Packet_Launch, PacketRuns, output
<1>12. CASE Packet_Return
  <2>1. packetCall \in Registers
    BY DEF TypeOK, Registers
  <2>2. packetCall'.address = "null" /\ packetPc' \in {"ready", "idle"}
    BY <1>12, <2>1 DEF Packet_Return, NoCommand, Registers
  <2> QED
    BY <1>12, <2>2 DEF Packet_Return, PacketRuns, flash, output
<1>13. CASE UNCHANGED vars
  BY <1>13 DEF vars, flash, output, packet
<1> QED
  BY <1>1, <1>2, <1>3, <1>4, <1>5, <1>6, <1>7, <1>8, <1>9, <1>10, <1>11, <1>12,
     <1>13 DEF Next, SignalOutput_Thread, PacketThread

\* The invariant about the registers holds in every state.
LEMMA ExclusiveHolds == Spec => []Exclusive
<1>1. Init => Exclusive
  BY DEF Init, Exclusive, OutputCommandsAreWhole, Filling, Waiting, NoCommand, Command
<1>2. TypeOK /\ Exclusive /\ [Next]_vars => Exclusive'
  BY ExclusiveStep
<1> QED
  BY <1>1, <1>2, TypeCorrect, PTL DEF Spec

\* What SignalOutput_Thread launches is what it was called for, although the
\* packet thread may be half-way through filling the same registers.
THEOREM OutputCommandsAreWholeHolds == Spec => []OutputCommandsAreWhole
<1>1. Exclusive => OutputCommandsAreWhole
  BY DEF Exclusive
<1> QED
  BY <1>1, ExclusiveHolds, PTL

\* Neither thread touches the registers, or launches, while a command is under
\* way.
THEOREM RegistersAreFreeHolds == Spec => RegistersAreFree
<1>1. ASSUME TypeOK, Exclusive, [Next]_vars, FCCOB' # FCCOB \/ Launching
      PROVE  CCIF
  <2>1. CASE Packet_FillCommand \/ Packet_FillAddress \/ Packet_FillData \/ Packet_Launch
    <3>1. Filling /\ outputPc = "asleep"
      BY <2>1 DEF Packet_FillCommand, Packet_FillAddress, Packet_FillData, Packet_Launch,
                  PacketRuns, Filling
    <3> QED
      BY <1>1, <3>1 DEF Exclusive, Waiting
  <2>2. CASE LaunchCommand("erase") \/ LaunchCommand("program")
    BY <2>2 DEF LaunchCommand
  <2>3. CASE CountRaise \/ CountLower
    <3>1. FCCOB' = FCCOB /\ packetPc' = packetPc
      BY <2>3 DEF CountRaise, CountLower, flash, packet
    <3>2. outputPc' \in {"awake", "erase"}
      BY <2>3 DEF CountRaise, CountLower, Flash_Write16, output
    <3> QED
      BY <1>1, <3>1, <3>2 DEF Launching
  <2>4. CASE Completes \/ Wakes \/ Sleeps \/ LaunchReturns
    BY <1>1, <2>4 DEF Completes, Wakes, Sleeps, LaunchReturns, Launching,
                      flash, output, packet
  <2>5. CASE Packet_Reset \/ Packet_Ready \/ Packet_Return
    BY <1>1, <2>5 DEF Packet_Reset, Packet_Ready, Packet_Return, Launching, flash, output
  <2>6. CASE UNCHANGED vars
    BY <1>1, <2>6 DEF vars, flash, output, packet, Launching
  <2> QED
    BY <1>1, <2>1, <2>2, <2>3, <2>4, <2>5, <2>6
       DEF Next, SignalOutput_Thread, PacketThread
<1>2. TypeOK /\ Exclusive /\ [Next]_vars => [FCCOB' # FCCOB \/ Launching => CCIF]_vars
  BY <1>1
<1> QED
  BY <1>2, TypeCorrect, ExclusiveHolds, PTL DEF Spec, RegistersAreFree

-----------------------------------------------------------------------------
\* SignalOutput_Thread is writing to the data block.
Writing == outputPc \notin {"asleep", "awake"} /\ outputCall.address = "block"

\* Until a torn command is launched, the block holds what was written or, while
\* a write is under way, what the write has got to.
StoreInv ==
  ~ torn =>
    /\ ~ CCIF /\ ~ Waiting => FCCOB.address = "null"
    /\ ~ Writing => memory["block"] = stored
    /\ Writing =>
        /\ stored = outputCall.data
        /\ outputPc = "program" => memory["block"] = Blank
        /\ outputPc = "erasing" /\ CCIF => memory["block"] = Blank
        /\ outputPc = "programming" /\ ~ CCIF => memory["block"] = Blank
        /\ outputPc = "programming" /\ CCIF => memory["block"] = stored

\* A phrase that has been erased is programmed with what it should hold.
LEMMA ProgramBlank ==
  ASSUME NEW x \in Phrase
  PROVE  [h \in HalfWords |-> Programmed(Blank[h], x[h])] = x
BY DEF Programmed, Blank, Phrase

\* The flash finishes a command.
LEMMA CompletesStores ==
  ASSUME TypeOK, Exclusive, StoreInv, Completes
  PROVE  StoreInv'
<1>1. /\ ~ CCIF /\ CCIF' /\ UNCHANGED <<FCCOB, stored, outputPc, outputCall, torn>>
      /\ FCCOB.address \in Phrases /\ outputCall.address \in Phrases
      /\ outputCall.data \in Phrase /\ memory \in [Phrases -> Phrase]
  BY DEF Completes, counts, output, TypeOK
<1>2. CASE torn
  BY <1>1, <1>2 DEF StoreInv
<1>3. CASE ~ torn /\ FCCOB.address # "block"
  <2>1. memory'["block"] = memory["block"]
    BY <1>1, <1>3 DEF Completes, Phrases
  <2>2. ~ (Waiting /\ Writing)
    BY <1>1, <1>3 DEF Exclusive, OutputCommandsAreWhole, Waiting, Writing, Launched, Command
  <2> QED
    BY <1>1, <1>3, <2>1, <2>2 DEF StoreInv, Waiting, Writing
<1>4. CASE ~ torn /\ FCCOB.address = "block"
  <2>1. Waiting
    BY <1>1, <1>4 DEF StoreInv
  <2>2. CASE outputPc = "erasing"
    <3>1. FCCOB.command = "erase" /\ outputCall.address = "block"
      BY <1>1, <1>4, <2>2 DEF Exclusive, OutputCommandsAreWhole, Launched, Command
    <3>2. memory'["block"] = Blank
      BY <1>1, <1>4, <3>1 DEF Completes, Phrases
    <3> QED
      BY <1>1, <1>4, <2>2, <3>1, <3>2 DEF StoreInv, Waiting, Writing
  <2>3. CASE outputPc = "programming"
    <3>1. /\ FCCOB.command = "program" /\ FCCOB.data = outputCall.data
          /\ outputCall.address = "block"
      BY <1>1, <1>4, <2>3 DEF Exclusive, OutputCommandsAreWhole, Launched, Command
    <3>2. memory["block"] = Blank /\ stored = outputCall.data
      BY <1>1, <1>4, <2>3, <3>1 DEF StoreInv, Writing
    <3>3. memory'["block"]
            = [h \in HalfWords |-> Programmed(memory["block"][h], FCCOB.data[h])]
      BY <1>1, <1>4, <3>1 DEF Completes, Phrases
    <3>4. memory'["block"] = stored
      BY <1>1, <3>1, <3>2, <3>3, ProgramBlank
    <3> QED
      BY <1>1, <1>4, <2>3, <3>1, <3>2, <3>4 DEF StoreInv, Waiting, Writing
  <2> QED
    BY <2>1, <2>2, <2>3 DEF Waiting
<1> QED
  BY <1>2, <1>3, <1>4, <1>1

\* SignalOutput_Thread begins a write, or does not because of the address.
LEMMA WriteStores ==
  ASSUME TypeOK, StoreInv, NEW pointer \in Pointer, NEW v \in 0 .. CountLimit - 1,
         outputPc = "awake", Flash_Write16(pointer, v),
         UNCHANGED <<memory, FCCOB, CCIF, torn>>
  PROVE  StoreInv'
<1>1. CASE outputPc' = "awake"
  <2>1. stored' = stored
    BY <1>1, Write16Effect
  <2> QED
    BY <1>1, <2>1 DEF StoreInv, Waiting, Writing
<1>2. CASE outputPc' = "erase" /\ outputCall'.address = "null"
  <2>1. stored' = stored
    BY <1>2, Write16Effect
  <2> QED
    BY <1>2, <2>1 DEF StoreInv, Waiting, Writing
<1>3. CASE outputPc' = "erase" /\ outputCall'.address = "block"
  <2>1. PICK h \in HalfWords :
          /\ stored' = [stored EXCEPT ![h] = v]
          /\ outputCall'.data = [memory["block"] EXCEPT ![h] = v]
    BY <1>3, Write16Effect
  <2>2. ~ torn => stored' = outputCall'.data
    BY <2>1 DEF StoreInv, Writing
  <2> QED
    BY <1>3, <2>2 DEF StoreInv, Waiting, Writing
<1>4. outputCall'.address \in {"null", "block"} /\ outputPc' \in {"awake", "erase"}
  <2>1. outputCall' \in Registers /\ outputPc' \in {"awake", "erase"}
    BY Write16Effect
  <2> QED
    BY <2>1 DEF Registers, Phrases
<1> QED
  BY <1>1, <1>2, <1>3, <1>4

\* What CountRaise and CountLower write is a value of the half-words.
LEMMA CountWrites ==
  ASSUME TypeOK, CountRaise \/ CountLower
  PROVE  \E pointer \in Pointer, v \in 0 .. CountLimit - 1 :
           Flash_Write16(pointer, v)
<1>1. [Next]_vars
  BY DEF Next, SignalOutput_Thread
<1>2. TypeOK'
  BY <1>1, TypeStep
<1>3. NbRaises' \in Pointer /\ NbRaisesCount' \in 0 .. CountLimit - 1 /\ NbLowers' \in Pointer
  BY <1>2 DEF TypeOK
<1>4. NbLowers' % NULL \in 0 .. CountLimit - 1
  <2>1. NbLowers' \in Nat /\ NULL \in Nat \ {0} /\ NULL < CountLimit
    <3>1. NbLowers' \in Nat
      BY <1>3, Sizes DEF Pointer
    <3>2. NULL \in Nat \ {0} /\ NULL < CountLimit
      BY CountAssumption, Sizes DEF NULL
    <3> QED
      BY <3>1, <3>2
  <2> DEFINE x == NbLowers' % NULL
  <2>2. x \in 0 .. NULL - 1
    BY <2>1, Remainder
  <2> HIDE DEF x
  <2>3. x \in 0 .. CountLimit - 1
    BY <2>1, <2>2, CountAssumption
  <2> QED
    BY <2>3 DEF x
<1>5. CASE CountRaise
  BY <1>3, <1>5 DEF CountRaise
<1>6. CASE CountLower
  BY <1>3, <1>4, <1>6 DEF CountLower
<1> QED
  BY <1>5, <1>6

\* Every step keeps the block in step with what was written.
LEMMA StoreStep ==
  ASSUME TypeOK, Exclusive, StoreInv, [Next]_vars
  PROVE  StoreInv'
<1> USE DEF StoreInv, Waiting, Writing
<1>1. CASE Completes
  BY <1>1, CompletesStores
<1>2. CASE Wakes
  BY <1>2 DEF Wakes, flash, counts
<1>3. CASE Sleeps
  BY <1>3 DEF Sleeps, flash, counts
<1>4. CASE CountRaise \/ CountLower
  <2>1. outputPc = "awake" /\ UNCHANGED <<memory, FCCOB, CCIF, torn>>
    BY <1>4 DEF CountRaise, CountLower, flash
  <2> QED
    BY <1>4, <2>1, CountWrites, WriteStores
<1>5. CASE LaunchCommand("erase") \/ LaunchCommand("program")
  <2>1. /\ \/ outputPc = "erase" /\ outputPc' = "erasing"
           \/ outputPc = "program" /\ outputPc' = "programming"
        /\ ~ CCIF' /\ UNCHANGED <<memory, stored, outputCall, torn>>
    BY <1>5 DEF LaunchCommand, counts
  <2> QED
    BY <2>1
<1>6. CASE LaunchReturns
  <2>1. CCIF /\ UNCHANGED <<memory, CCIF, stored, torn>>
    BY <1>6 DEF LaunchReturns, flash, counts
  <2>2. CASE outputPc = "erasing"
    BY <1>6, <2>1, <2>2 DEF LaunchReturns
  <2>3. CASE outputPc = "programming"
    BY <1>6, <2>1, <2>3 DEF LaunchReturns
  <2> QED
    BY <1>6, <2>2, <2>3 DEF LaunchReturns
<1>7. CASE Packet_Reset \/ Packet_Ready \/ Packet_Return
  BY <1>7 DEF Packet_Reset, Packet_Ready, Packet_Return, flash, counts, output
<1>8. CASE Packet_FillCommand \/ Packet_FillAddress \/ Packet_FillData
  <2>1. /\ Filling /\ outputPc = "asleep"
        /\ UNCHANGED <<memory, CCIF, stored, outputPc, outputCall, torn>>
    BY <1>8 DEF Packet_FillCommand, Packet_FillAddress, Packet_FillData, PacketRuns,
                Filling, counts, output
  <2>2. CCIF
    BY <2>1 DEF Exclusive
  <2> QED
    BY <2>1, <2>2
<1>9. CASE Packet_Launch
  <2>1. /\ outputPc = "asleep"
        /\ UNCHANGED <<memory, FCCOB, stored, outputPc, outputCall>>
        /\ ~ torn' => ~ torn /\ Effect(FCCOB) = Effect(PacketCommand)
    BY <1>9 DEF Packet_Launch, PacketRuns, counts, output, TypeOK
  <2>2. Effect(FCCOB) = Effect(PacketCommand) => FCCOB.address = "null"
    <3>1. FCCOB \in Registers /\ packetCall \in Registers /\ PacketCommand \in Registers
      <4>1. FCCOB \in Registers /\ packetCall \in Registers
        BY DEF TypeOK, Registers
      <4>2. PacketCommand.data \in Phrase
        BY <4>1, CommandTypes DEF PacketCommand, Launched, Command, Registers
      <4> QED
        BY <4>1, <4>2, CommandTypes DEF PacketCommand, Launched, Command, Registers
    <3>2. PacketCommand.address = "null"
      BY DEF Exclusive, PacketCommand, Launched, Command
    <3>3. \A r \in Registers : Effect(r).address = r.address
      BY DEF Effect, Registers
    <3> QED
      BY <3>1, <3>2, <3>3
  <2> QED
    BY <2>1, <2>2
<1>10. CASE UNCHANGED vars
  BY <1>10 DEF vars, flash, counts, output
<1> QED
  BY <1>1, <1>2, <1>3, <1>4, <1>5, <1>6, <1>7, <1>8, <1>9, <1>10
     DEF Next, SignalOutput_Thread, PacketThread

\* The invariant about the block holds in every state.
LEMMA StoreHolds == Spec => []StoreInv
<1>1. Init => StoreInv
  BY DEF Init, StoreInv, Writing, Waiting, Phrases, NoCommand, Command
<1>2. TypeOK /\ Exclusive /\ StoreInv /\ [Next]_vars => StoreInv'
  BY StoreStep
<1> QED
  BY <1>1, <1>2, TypeCorrect, ExclusiveHolds, PTL DEF Spec

\* As long as no command has been torn, the block holds every half-word ever
\* written to it whenever SignalOutput_Thread does not write.
THEOREM BlockHoldsStoredHolds == Spec => []BlockHoldsStored
<1>1. StoreInv => BlockHoldsStored
  BY DEF StoreInv, Writing, BlockHoldsStored
<1> QED
  BY <1>1, StoreHolds, PTL

-----------------------------------------------------------------------------
\* As long as every variable was allocated for a raise, the number of them is
\* the count, and the latest half-word written has it, or the one before.
RaisesInv ==
  NbLowers = NULL /\ used < FLASH_SIZE_BYTES =>
    /\ NbRaisesCount = used
    /\ used > 0 =>
         stored[(used - 1) \div 2] = IF used % 2 = 1 THEN used ELSE used - 1

\* Every step keeps the half-word written last in step with the count.
LEMMA RaisesStep ==
  ASSUME TypeOK, RaisesInv, [Next]_vars
  PROVE  RaisesInv'
<1>0. /\ used \in 0 .. FLASH_SIZE_BYTES /\ stored \in [HalfWords -> Contents]
      /\ FLASH_SIZE_BYTES \in Nat /\ CountLimit \in Nat /\ CountLimit > FLASH_SIZE_BYTES
  BY CountAssumption, Sizes DEF TypeOK, Pointer, Phrase
<1>1. CASE CountRaise /\ used + 1 < FLASH_SIZE_BYTES
  <2>1. /\ used' = used + 1 /\ NbRaises' = used /\ NbLowers' = NbLowers
        /\ NbRaisesCount' = (NbRaisesCount + 1) % CountLimit
        /\ Flash_Write16(NbRaises', NbRaisesCount') /\ outputPc = "awake"
    BY <1>0, <1>1 DEF CountRaise, Flash_AllocateVar, Allocated
  <2>2. CASE NbLowers # NULL
    BY <2>1, <2>2 DEF RaisesInv
  <2>3. CASE NbLowers = NULL
    <3>1. NbRaisesCount = used
      BY <1>0, <1>1, <2>3 DEF RaisesInv
    <3>2. NbRaisesCount' = used + 1
      <4>1. used + 1 \in Nat /\ CountLimit \in Nat \ {0} /\ used + 1 < CountLimit
        BY <1>0, <1>1
      <4> QED
        BY <2>1, <3>1, <4>1, Remainder
    <3>3. used \in Pointer /\ used + 1 \in 0 .. CountLimit - 1
          /\ used \in 0 .. FLASH_SIZE_BYTES - 1
      BY <1>0, <1>1 DEF Pointer
    <3>4. stored' = IF used % 2 = 0 THEN [stored EXCEPT ![used \div 2] = used + 1]
                                    ELSE stored
      BY <2>1, <3>2, <3>3, Write16Effect
    <3>5. used \div 2 \in HalfWords /\ (used + 1) - 1 = used
      BY <3>3, Sizes
    <3>6. CASE used % 2 = 0
      <4>1. stored'[used \div 2] = used + 1
        BY <1>0, <3>4, <3>5, <3>6
      <4>2. (used + 1) % 2 = 1
        BY <1>0, <3>6
      <4> QED
        BY <2>1, <3>2, <3>5, <4>1, <4>2 DEF RaisesInv
    <3>7. CASE used % 2 # 0
      <4>1. used % 2 = 1 /\ (used + 1) % 2 = 0 /\ used > 0
            /\ used \div 2 = (used - 1) \div 2
        BY <1>0, <3>7
      <4>2. stored[(used - 1) \div 2] = used
        BY <1>0, <1>1, <2>3, <4>1 DEF RaisesInv
      <4>3. stored'[used \div 2] = used
        BY <3>4, <3>7, <4>1, <4>2
      <4> QED
        BY <2>1, <3>2, <3>5, <4>1, <4>3 DEF RaisesInv
    <3> QED
      BY <3>6, <3>7
  <2> QED
    BY <2>2, <2>3
<1>2. CASE CountRaise /\ ~ (used + 1 < FLASH_SIZE_BYTES)
  <2>1. ~ (used' < FLASH_SIZE_BYTES)
    BY <1>0, <1>2 DEF CountRaise, Flash_AllocateVar
  <2> QED
    BY <2>1 DEF RaisesInv
<1>3. CASE CountLower
  <2>1. used' < FLASH_SIZE_BYTES => NbLowers' # NULL
    BY <1>0, <1>3 DEF CountLower, Flash_AllocateVar, Allocated, NULL
  <2> QED
    BY <2>1 DEF RaisesInv
<1>4. CASE UNCHANGED counts
  BY <1>4 DEF counts, RaisesInv
<1>5. CountRaise \/ CountLower \/ UNCHANGED counts
  BY DEF Next, SignalOutput_Thread, PacketThread, Completes, Wakes, Sleeps, LaunchCommand,
         LaunchReturns, Packet_Reset, Packet_Ready, Packet_FillCommand, Packet_FillAddress,
         Packet_FillData, Packet_Launch, Packet_Return, vars
<1> QED
  BY <1>1, <1>2, <1>3, <1>4, <1>5

\* The count of the raises survives in the block to within one as long as the
\* block has room: it cannot wrap before.
THEOREM RaisesKnown == Spec => []RaisesKnownToWithinOne
<1>1. Init => RaisesInv
  BY DEF Init, RaisesInv
<1>2. TypeOK /\ RaisesInv /\ [Next]_vars => RaisesInv'
  BY RaisesStep
<1>3. TypeOK /\ StoreInv /\ RaisesInv => RaisesKnownToWithinOne
  <2> SUFFICES ASSUME TypeOK, StoreInv, RaisesInv, outputPc = "asleep", ~ torn,
                      NbLowers = NULL, used \in 1 .. FLASH_SIZE_BYTES - 1
               PROVE  memory["block"][(used - 1) \div 2]
                        \in {NbRaisesCount - 1, NbRaisesCount}
    BY DEF RaisesKnownToWithinOne
  <2>1. memory["block"] = stored
    BY DEF StoreInv, Writing
  <2>2. used < FLASH_SIZE_BYTES /\ used > 0
    BY Sizes
  <2>3. NbRaisesCount = used /\ stored[(used - 1) \div 2] \in {used, used - 1}
    BY <2>2 DEF RaisesInv
  <2> QED
    BY <2>1, <2>3
<1> QED
  BY <1>1, <1>2, <1>3, TypeCorrect, StoreHolds, PTL DEF Spec
=============================================================================
