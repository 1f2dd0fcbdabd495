-------------------------------- MODULE Flash -------------------------------
(***************************************************************************)
(* Flash.c: variables in non-volatile memory, for one caller at a time.    *)
(* Flash_AllocateVar hands out the bytes of the data block; a write of 8,  *)
(* 16 or 32 bits is widened to the phrase of 8 bytes round it, the sector  *)
(* is erased and the phrase programmed, each by a command that takes its   *)
(* time.  A reset may come at any moment: the memory keeps what it holds   *)
(* and Flash_Init clears the map of used bytes.                            *)
(*                                                                         *)
(* Addresses are scaled: the program's data block of 8 bytes at 0x80000 is *)
(* the second phrase here, the first one stands for the phrase at address  *)
(* 0, and each phrase for its own sector.  A byte is the set of its bits   *)
(* that are 1: erasing sets bits and programming can only clear them.      *)
(***************************************************************************)
EXTENDS Integers, FiniteSets

CONSTANTS
    Bits,           \* the bits of a byte
    Values,         \* the bytes that are written
    Targets,        \* the addresses that are written
    Sizes           \* the sizes of variables that are allocated

FLASH_SIZE_BYTES == 8
FLASH_DATA_START == 8
FLASH_DATA_END == 15
Address == 0 .. FLASH_DATA_END
Offset == 0 .. FLASH_SIZE_BYTES - 1
Byte == SUBSET Bits
Erased == Bits

ASSUME ValueAssumption == Values \subseteq Byte
ASSUME TargetAssumption == Targets \subseteq Address
ASSUME SizeAssumption == Sizes \subseteq {1, 2, 4}

VARIABLES
    memory,         \* the contents of the flash
    UsedFlashMap,   \* UsedFlashMap[i]: offset i of the data block is used
    pc,             \* the command that ModifyPhrase launches next
    address,        \* the arguments of ModifyPhrase: where the phrase starts
    phrase,         \* and its bytes
    before,         \* history: the bytes there when ModifyPhrase was called
    allocated       \* history: the variables allocated since the reset

write == <<pc, address, phrase, before>>
vars == <<memory, UsedFlashMap, allocated, write>>

Blank == [k \in 0 .. 7 |-> Erased]

\* ModifyPhrase returns: its arguments are gone.
Return ==
    pc' = "idle" /\ address' = FLASH_DATA_START /\ phrase' = Blank /\ before' = Blank

Init ==
    /\ memory = [a \in Address |-> Erased]
    /\ UsedFlashMap = [i \in Offset |-> FALSE]
    /\ allocated = {}
    /\ pc = "idle" /\ address = FLASH_DATA_START /\ phrase = Blank /\ before = Blank

-----------------------------------------------------------------------------
Fits(i, size) ==
    /\ i % size = 0
    /\ \A k \in 0 .. size - 1 : ~ UsedFlashMap[i + k]

\* MUTANT of Flash_AllocateVar: the bytes after the first are not marked used.
AllocateMarksFirstByte(size) ==
    /\ pc = "idle"
    /\ \E i \in Offset :
        /\ Fits(i, size)
        /\ \A j \in 0 .. i - 1 : ~ Fits(j, size)
        /\ UsedFlashMap' = [UsedFlashMap EXCEPT ![i] = TRUE]
        /\ allocated' = allocated \cup {[first |-> FLASH_DATA_START + i, size |-> size]}
    /\ UNCHANGED <<memory, write>>

\* Flash_AllocateVar: the first place that fits.  When there is none it
\* returns false and changes nothing.
Flash_AllocateVar(size) ==
    /\ pc = "idle"
    /\ \E i \in Offset :
        /\ Fits(i, size)
        /\ \A j \in 0 .. i - 1 : ~ Fits(j, size)
        /\ UsedFlashMap' = [j \in Offset |-> UsedFlashMap[j] \/ j \in i .. i + size - 1]
        /\ allocated' = allocated \cup {[first |-> FLASH_DATA_START + i, size |-> size]}
    /\ UNCHANGED <<memory, write>>

-----------------------------------------------------------------------------
\* The test for an address outside the data block, which is never true.
OutOfBlock(a) == a < FLASH_DATA_START /\ a > FLASH_DATA_END

Aligned(a, n) == a - (a % n)
Sector(a) == Aligned(a, 8) .. Aligned(a, 8) + 7
Read(a, n) == [k \in 0 .. n - 1 |-> memory[a + k]]

\* The union of two halves of n bytes, the lower addresses first.
Joined(n, lo, hi) == [k \in 0 .. 2 * n - 1 |-> IF k < n THEN lo[k] ELSE hi[k - n]]

\* MUTANT of Widened: below an odd multiple of n the bytes that are being
\* replaced are read.
WidenedWithItself(a, n, x) ==
    IF a % (2 * n) = 0 THEN Joined(n, x, Read(a + n, n)) ELSE Joined(n, Read(a, n), x)

\* The n bytes x for address a, with the n bytes that make up 2 * n aligned
\* ones with them: the neighbour above for an even multiple of n, below for an
\* odd one.
Widened(a, n, x) ==
    IF a % (2 * n) = 0 THEN Joined(n, x, Read(a + n, n)) ELSE Joined(n, Read(a - n, n), x)

\* MUTANT of Flash_Write32: the address is not that of the phrase.
Write32KeepsAddress(a, word) ==
    /\ pc = "idle"
    /\ ~ OutOfBlock(a)
    /\ a % 4 = 0
    /\ address' = a
    /\ phrase' = Widened(a, 4, word)
    /\ pc' = "erase"
    /\ before' = Read(Aligned(a, 8), 8)
    /\ UNCHANGED <<memory, UsedFlashMap, allocated>>

\* Flash_Write32, which calls ModifyPhrase; a call with an address that is not
\* a multiple of 4 returns false and changes nothing.  newPhrase.s.Hi goes to
\* FCCOB4 to 7, which is the first word of the phrase.
Flash_Write32(a, word) ==
    /\ pc = "idle"
    /\ ~ OutOfBlock(a)
    /\ a % 4 = 0
    /\ address' = Aligned(a, 8)
    /\ phrase' = Widened(a, 4, word)
    /\ pc' = "erase"
    /\ before' = Read(Aligned(a, 8), 8)
    /\ UNCHANGED <<memory, UsedFlashMap, allocated>>

Flash_Write16(a, halfWord) ==
    /\ ~ OutOfBlock(a)
    /\ a % 2 = 0
    /\ Flash_Write32(Aligned(a, 4), Widened(a, 2, halfWord))

Flash_Write8(a, byte) ==
    /\ ~ OutOfBlock(a)
    /\ Flash_Write16(Aligned(a, 2), Widened(a, 1, byte))

Erasing(a) == memory' = [i \in Address |-> IF i \in Sector(a) THEN Erased ELSE memory[i]]

\* EraseSector, the first command of ModifyPhrase.
EraseSector ==
    /\ pc = "erase"
    /\ Erasing(address)
    /\ pc' = "program"
    /\ UNCHANGED <<UsedFlashMap, allocated, address, phrase, before>>

\* WritePhrase, the second one.
WritePhrase ==
    /\ pc = "program"
    /\ memory' = [i \in Address |->
        IF i \in Sector(address) THEN memory[i] \cap phrase[i - address] ELSE memory[i]]
    /\ Return
    /\ UNCHANGED <<UsedFlashMap, allocated>>

Flash_Erase ==
    /\ pc = "idle"
    /\ Erasing(FLASH_DATA_START)
    /\ UNCHANGED <<UsedFlashMap, allocated, write>>

\* A reset, and Flash_Init.
Reset ==
    /\ UsedFlashMap' = [i \in Offset |-> FALSE]
    /\ allocated' = {}
    /\ Return
    /\ UNCHANGED memory

Next ==
    \/ \E size \in Sizes : Flash_AllocateVar(size)
    \/ \E a \in Targets :
        \/ \E byte \in [0 .. 0 -> Values] : Flash_Write8(a, byte)
        \/ \E halfWord \in [0 .. 1 -> Values] : Flash_Write16(a, halfWord)
        \/ \E word \in [0 .. 3 -> Values] : Flash_Write32(a, word)
    \/ EraseSector
    \/ WritePhrase
    \/ Flash_Erase
    \/ Reset

Spec == Init /\ [][Next]_vars

-----------------------------------------------------------------------------
\* The type invariant.
TypeOK ==
    /\ memory \in [Address -> Byte]
    /\ UsedFlashMap \in [Offset -> BOOLEAN]
    /\ pc \in {"idle", "erase", "program"}
    /\ address \in {0, FLASH_DATA_START}
    /\ phrase \in [0 .. 7 -> Byte]
    /\ before \in [0 .. 7 -> Byte]
    /\ \A v \in allocated : v.first \in Address /\ v.size \in Sizes

Place(v) == v.first .. v.first + v.size - 1

\* Whatever sizes are allocated in whatever order, the variables lie in the data
\* block, do not overlap, and are aligned to their size, so that each can be
\* written with the function for its size.
AllocationsDisjoint ==
    \A v \in allocated :
        /\ v.first % v.size = 0
        /\ Place(v) \subseteq FLASH_DATA_START .. FLASH_DATA_END
        /\ \A w \in allocated : v # w => Place(v) \cap Place(w) = {}

\* The refinement mapping: until the phrase is programmed the write has not
\* happened, although its sector is erased already.
Memory ==
    [a \in Address |->
        IF pc = "program" /\ a \in Sector(address) THEN before[a - address] ELSE memory[a]]

AfterWrite ==
    [a \in Address |->
        IF pc # "idle" /\ a \in Sector(address) THEN phrase[a - address] ELSE memory[a]]

Abstract ==
    INSTANCE NonVolatile WITH mem <- Memory, next <- AfterWrite, writing <- pc # "idle"

\* Reading the neighbours, erasing and programming a phrase changes exactly the
\* bytes that Flash_Write8, 16 or 32 was called for; only a reset between the
\* two commands loses the neighbours.
ImplementsNonVolatile == Abstract!Spec
=============================================================================
