------------------------------- MODULE Tally --------------------------------
(***************************************************************************)
(* The counts that main.c keeps in flash, and the two threads that write   *)
(* there.  For every raise or lower request it shows, SignalOutput_Thread  *)
(* allocates a byte, counts, and writes a half-word; for a reset packet    *)
(* the packet thread, which is less urgent, writes through a pointer that  *)
(* is never assigned.  Each write is two commands, which LaunchCommand     *)
(* puts into the one set of FCCOB registers; it waits for the flash before *)
(* and after, but nothing keeps the two threads apart.                     *)
(*                                                                         *)
(* The program's data block and the phrase at address 0 are the phrases    *)
(* here; module Flash has how a write of a half-word becomes the erasure   *)
(* and the programming of its phrase.  More urgent threads do not use the  *)
(* flash; they decide only when there is a request.                        *)
(***************************************************************************)
EXTENDS Integers

CONSTANTS
    FLASH_SIZE_BYTES,   \* the size of the data block and of a phrase, 8
    CountLimit          \* NbRaisesCount wraps to 0 here, 256 in the program

ASSUME SizeAssumption == FLASH_SIZE_BYTES \in {n \in Nat \ {0} : n % 2 = 0}
ASSUME CountAssumption == CountLimit \in Nat /\ CountLimit > FLASH_SIZE_BYTES

HalfWords == 0 .. FLASH_SIZE_BYTES \div 2 - 1
NULL == FLASH_SIZE_BYTES
Pointer == 0 .. FLASH_SIZE_BYTES    \* an offset in the data block, or NULL

Erased == -1                        \* a half-word after its erasure
Unknown == -2                       \* one that nobody can foresee
Contents == -2 .. CountLimit - 1
Phrase == [HalfWords -> Contents]
Phrases == {"block", "null"}

VARIABLES
    memory,         \* the two phrases
    FCCOB,          \* the command, address and data registers
    CCIF,           \* no command is under way
    used,           \* how many bytes of UsedFlashMap are used: the first ones,
                    \* because only single bytes are allocated
    NbRaises, NbLowers, \* where SignalOutput_Thread writes next
    NbRaisesCount,
    outputPc,       \* SignalOutput_Thread
    outputCall,     \* the arguments of its ModifyPhrase
    packetPc,       \* the packet thread: its next step in LaunchCommand
    packetIndex,    \* the next data register it fills
    packetCall,     \* the arguments of its LaunchCommand
    stored,         \* history: the half-words of the block, as written
    torn            \* history: a command that nobody asked for was launched

flash == <<memory, FCCOB, CCIF>>
counts == <<used, NbRaises, NbLowers, NbRaisesCount, stored>>
output == <<outputPc, outputCall>>
packet == <<packetPc, packetIndex, packetCall>>
vars == <<flash, counts, output, packet, torn>>

Blank == [h \in HalfWords |-> Erased]
Garbage == [h \in HalfWords |-> Unknown]
Command(name, phrase, data) == [command |-> name, address |-> phrase, data |-> data]
NoCommand == Command("none", "null", Garbage)

Init ==
    /\ memory = [p \in Phrases |-> Blank]
    /\ FCCOB = NoCommand
    /\ CCIF = TRUE
    /\ used = 0
    /\ NbRaises = NULL /\ NbLowers = NULL
    /\ NbRaisesCount = 0
    /\ outputPc = "asleep" /\ outputCall = NoCommand
    /\ packetPc = "idle" /\ packetIndex = 0
    /\ packetCall = NoCommand
    /\ stored = Blank
    /\ torn = FALSE

-----------------------------------------------------------------------------
\* The flash.  Programming clears bits and cannot set them.
Programmed(old, new) ==
    CASE old = Erased -> new
      [] new = Erased \/ new = old -> old
      [] OTHER -> Unknown

\* The command in the registers comes to its end.
Completes ==
    /\ ~ CCIF
    /\ CCIF' = TRUE
    /\ memory' = [memory EXCEPT ![FCCOB.address] =
        IF FCCOB.command = "erase"
        THEN Blank
        ELSE [h \in HalfWords |-> Programmed(@[h], FCCOB.data[h])]]
    /\ UNCHANGED <<FCCOB, counts, output, packet, torn>>

\* MUTANT of Replaced: the other half-words are not copied.
ReplacedAlone(p, h, value) == Command("erase", p, [Blank EXCEPT ![h] = value])

\* The phrase at p with half-word h replaced, as Flash_Write16 and 32 make it.
Replaced(p, h, value) == Command("erase", p, [memory[p] EXCEPT ![h] = value])

\* The command of EraseSector, whose data nobody sets, or of WritePhrase.
Launched(name, call) ==
    Command(name, call.address, IF name = "erase" THEN Garbage ELSE call.data)

-----------------------------------------------------------------------------
\* SignalOutput_Thread.
Wakes ==
    /\ outputPc = "asleep"
    /\ outputPc' = "awake"
    /\ UNCHANGED <<flash, counts, outputCall, packet, torn>>

Sleeps ==
    /\ outputPc = "awake"
    /\ outputPc' = "asleep"
    /\ UNCHANGED <<flash, counts, outputCall, packet, torn>>

\* Flash_AllocateVar(&pointer, 1): the pointer stays when no byte is free.
Allocated(pointer) == IF used < FLASH_SIZE_BYTES THEN used ELSE pointer

\* MUTANT of Flash_AllocateVar: there is always another byte.
AllocateForEver == used' = used + 1

Flash_AllocateVar == used' = IF used < FLASH_SIZE_BYTES THEN used + 1 ELSE used

\* MUTANT of Flash_Write16: the test of Flash_Write32 for the address.
Write16AtWords(pointer, value) ==
    LET p == IF pointer = NULL THEN "null" ELSE "block"
        h == IF pointer = NULL THEN 0 ELSE pointer \div 2
    IN
    IF pointer % 4 = 0
    THEN /\ outputCall' = Replaced(p, h, value)
         /\ outputPc' = "erase"
         /\ stored' = IF pointer = NULL THEN stored ELSE [stored EXCEPT ![h] = value]
    ELSE UNCHANGED <<output, stored>>

\* Flash_Write16(pointer, value): an odd address is refused, NULL is not.
Flash_Write16(pointer, value) ==
    LET p == IF pointer = NULL THEN "null" ELSE "block"
        h == IF pointer = NULL THEN 0 ELSE pointer \div 2
    IN
    IF pointer % 2 = 0
    THEN /\ outputCall' = Replaced(p, h, value)
         /\ outputPc' = "erase"
         /\ stored' = IF pointer = NULL THEN stored ELSE [stored EXCEPT ![h] = value]
    ELSE UNCHANGED <<output, stored>>

\* A raise request is shown.
CountRaise ==
    /\ outputPc = "awake"
    /\ Flash_AllocateVar
    /\ NbRaises' = Allocated(NbRaises)
    /\ NbRaisesCount' = (NbRaisesCount + 1) % CountLimit
    /\ Flash_Write16(NbRaises', NbRaisesCount')
    /\ UNCHANGED <<flash, NbLowers, packet, torn>>

\* A lower request is shown: what is written is the pointer itself, of which a
\* half-word holds the offset.
CountLower ==
    /\ outputPc = "awake"
    /\ Flash_AllocateVar
    /\ NbLowers' = Allocated(NbLowers)
    /\ Flash_Write16(NbLowers', NbLowers' % NULL)
    /\ UNCHANGED <<flash, NbRaises, NbRaisesCount, packet, torn>>

\* LaunchCommand up to its second wait, called by EraseSector or WritePhrase.
\* Nobody else who uses the flash can run meanwhile.
LaunchCommand(name) ==
    /\ outputPc = name
    /\ CCIF
    /\ FCCOB' = Launched(name, outputCall)
    /\ CCIF' = FALSE
    /\ outputPc' = IF name = "erase" THEN "erasing" ELSE "programming"
    /\ UNCHANGED <<memory, counts, outputCall, packet, torn>>

\* MUTANT of LaunchReturns: there is no second wait.
LaunchReturnsAtOnce ==
    /\ outputPc \in {"erasing", "programming"}
    /\ IF outputPc = "erasing"
       THEN outputPc' = "program" /\ UNCHANGED outputCall
       ELSE outputPc' = "awake" /\ outputCall' = NoCommand
    /\ UNCHANGED <<flash, counts, packet, torn>>

\* The second wait is over.
LaunchReturns ==
    /\ outputPc \in {"erasing", "programming"}
    /\ CCIF
    /\ IF outputPc = "erasing"
       THEN outputPc' = "program" /\ UNCHANGED outputCall
       ELSE outputPc' = "awake" /\ outputCall' = NoCommand
    /\ UNCHANGED <<flash, counts, packet, torn>>

SignalOutput_Thread ==
    Sleeps \/ CountRaise \/ CountLower
        \/ LaunchCommand("erase") \/ LaunchCommand("program") \/ LaunchReturns

-----------------------------------------------------------------------------
\* MUTANT of PacketRuns: the threads take turns.
PacketRunsAnytime == TRUE

\* The packet thread runs when the more urgent thread sleeps.
PacketRuns == outputPc = "asleep"

\* HandleNbRaisesCommand or HandleNbLowersCommand calls Flash_Write16(NULL, 0).
Packet_Reset ==
    /\ PacketRuns
    /\ packetPc = "idle"
    /\ packetCall' = Replaced("null", 0, 0)
    /\ packetPc' = "ready"
    /\ UNCHANGED <<flash, counts, output, packetIndex, torn>>

\* MUTANT of Packet_Ready: it waits for the flag to be clear.
ReadyWhenBusy ==
    /\ PacketRuns
    /\ packetPc = "ready" /\ ~ CCIF
    /\ packetPc' = "command"
    /\ UNCHANGED <<flash, counts, output, packetIndex, packetCall, torn>>

\* LaunchCommand waits until no command is under way.
Packet_Ready ==
    /\ PacketRuns
    /\ packetPc = "ready" /\ CCIF
    /\ packetPc' = "command"
    /\ UNCHANGED <<flash, counts, output, packetIndex, packetCall, torn>>

\* It fills the registers one after the other.
Packet_FillCommand ==
    /\ PacketRuns
    /\ packetPc = "command"
    /\ FCCOB' = [FCCOB EXCEPT !.command = packetCall.command]
    /\ packetPc' = "address"
    /\ UNCHANGED <<memory, CCIF, counts, output, packetIndex, packetCall, torn>>

Packet_FillAddress ==
    /\ PacketRuns
    /\ packetPc = "address"
    /\ FCCOB' = [FCCOB EXCEPT !.address = packetCall.address]
    /\ packetPc' = "data"
    /\ UNCHANGED <<memory, CCIF, counts, output, packetIndex, packetCall, torn>>

PacketCommand == Launched(packetCall.command, packetCall)

Packet_FillData ==
    /\ PacketRuns
    /\ packetPc = "data"
    /\ FCCOB' = [FCCOB EXCEPT !.data[packetIndex] = PacketCommand.data[packetIndex]]
    /\ packetIndex' = (packetIndex + 1) % (FLASH_SIZE_BYTES \div 2)
    /\ packetPc' = IF packetIndex' = 0 THEN "launch" ELSE "data"
    /\ UNCHANGED <<memory, CCIF, counts, output, packetCall, torn>>

\* What a command does; an erasure has no data.
Effect(c) == IF c.command = "erase" THEN [c EXCEPT !.data = Garbage] ELSE c

\* It launches what the registers hold.
Packet_Launch ==
    /\ PacketRuns
    /\ packetPc = "launch"
    /\ CCIF' = FALSE
    /\ torn' = (torn \/ Effect(FCCOB) # Effect(PacketCommand))
    /\ packetPc' = "wait"
    /\ UNCHANGED <<memory, FCCOB, counts, output, packetIndex, packetCall>>

\* It waits for the end of the command; ModifyPhrase programs after it has
\* erased.
Packet_Return ==
    /\ PacketRuns
    /\ packetPc = "wait" /\ CCIF
    /\ IF packetCall.command = "erase"
       THEN packetPc' = "ready" /\ packetCall' = [packetCall EXCEPT !.command = "program"]
       ELSE packetPc' = "idle" /\ packetCall' = NoCommand
    /\ UNCHANGED <<flash, counts, output, packetIndex, torn>>

PacketThread ==
    \/ Packet_Ready
    \/ Packet_FillCommand
    \/ Packet_FillAddress
    \/ Packet_FillData
    \/ Packet_Launch
    \/ Packet_Return

Next == Completes \/ Wakes \/ SignalOutput_Thread \/ Packet_Reset \/ PacketThread

Spec == Init /\ [][Next]_vars

\* The flash comes to an end with every command, and the packet thread gets to run
\* if the more urgent thread sleeps again and again.  That it does is not assumed:
\* each pass of RMS_CalcThread leaves several signals of SignalOutputSemaphore.
Fairness ==
    /\ WF_vars(Completes)
    /\ WF_vars(SignalOutput_Thread)
    /\ SF_vars(PacketThread)

FairSpec == Spec /\ Fairness

-----------------------------------------------------------------------------
\* The type invariant.
TypeOK ==
    /\ memory \in [Phrases -> Phrase] /\ stored \in Phrase
    /\ {FCCOB, outputCall, packetCall} \subseteq
        [command : {"none", "erase", "program"}, address : Phrases, data : Phrase]
    /\ CCIF \in BOOLEAN /\ torn \in BOOLEAN
    /\ used \in Pointer /\ NbRaises \in Pointer /\ NbLowers \in Pointer
    /\ NbRaisesCount \in 0 .. CountLimit - 1
    /\ outputPc \in {"asleep", "awake", "erase", "erasing", "program", "programming"}
    /\ packetPc \in {"idle", "ready", "command", "address", "data", "launch", "wait"}
    /\ packetIndex \in HalfWords

Launching ==
    \/ packetPc # "wait" /\ packetPc' = "wait"
    \/ outputPc' # outputPc /\ outputPc' \in {"erasing", "programming"}

\* No thread writes a register of the flash, or launches, while a command is
\* under way, although the test for it and the writes are apart and the other
\* thread may use the flash in between.
RegistersAreFree == [][FCCOB' # FCCOB \/ Launching => CCIF]_vars

\* The packet thread never has a part in a command of SignalOutput_Thread.
OutputCommandsAreWhole ==
    /\ outputPc = "erasing" /\ ~ CCIF => FCCOB = Launched("erase", outputCall)
    /\ outputPc = "programming" /\ ~ CCIF => FCCOB = Launched("program", outputCall)

\* Whenever SignalOutput_Thread does not write, the block holds every half-word
\* it has ever written there, each write having erased and copied the others;
\* unless the packet thread has launched a command that is none of its own.
BlockHoldsStored ==
    outputPc \in {"asleep", "awake"} /\ ~ torn => memory["block"] = stored

\* As long as all requests were to raise and the block has room, the half-word
\* written last tells how many there were, or one less: the count never wraps
\* before the block is used up.
RaisesKnownToWithinOne ==
    outputPc = "asleep" /\ ~ torn /\ NbLowers = NULL /\ used \in 1 .. FLASH_SIZE_BYTES - 1 =>
        memory["block"][(used - 1) \div 2] \in {NbRaisesCount - 1, NbRaisesCount}

\* A write of SignalOutput_Thread comes to an end, although it waits for commands
\* that the packet thread may have launched, torn ones among them; and so does one
\* of the packet thread, as long as SignalOutput_Thread does not stay awake for ever.
WritesReturn ==
    /\ outputPc = "erase" ~> outputPc = "awake"
    /\ []<>(outputPc = "asleep") => (packetPc # "idle" ~> packetPc = "idle")
=============================================================================
