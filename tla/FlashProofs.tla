----------------------------- MODULE FlashProofs ----------------------------
(***************************************************************************)
(* Proofs about Flash.c: the variables that Flash_AllocateVar hands out.   *)
(***************************************************************************)
EXTENDS Flash, TLAPS

\* The map of used bytes is one, and a variable has marked every byte of its
\* place: what the invariant needs besides, because the next variable only
\* looks at the map.
Marked ==
    /\ UsedFlashMap \in [Offset -> BOOLEAN]
    /\ \A v \in allocated :
        /\ v.first \in FLASH_DATA_START .. FLASH_DATA_END
        /\ v.size \in {1, 2, 4}
        /\ \A a \in Place(v) : UsedFlashMap[a - FLASH_DATA_START]

MapInv == Marked /\ AllocationsDisjoint

\* An aligned place of one of the three sizes that starts in the map ends in it.
LEMMA PlaceInMap ==
    ASSUME NEW i \in Offset, NEW size \in {1, 2, 4}, i % size = 0
    PROVE  /\ i + size - 1 \in Offset
           /\ (FLASH_DATA_START + i) % size = 0
BY DEF Offset, FLASH_SIZE_BYTES, FLASH_DATA_START

\* Flash_AllocateVar keeps the variables disjoint: the place it takes was not
\* marked by any of them.
LEMMA AllocateStep ==
    ASSUME MapInv, NEW size \in Sizes, Flash_AllocateVar(size)
    PROVE  MapInv'
<1>1. size \in {1, 2, 4}
  BY SizeAssumption
<1>2. PICK i \in Offset :
        /\ Fits(i, size)
        /\ UsedFlashMap' = [j \in Offset |-> UsedFlashMap[j] \/ j \in i .. i + size - 1]
        /\ allocated' = allocated \cup {[first |-> FLASH_DATA_START + i, size |-> size]}
  BY DEF Flash_AllocateVar
<1> DEFINE new == [first |-> FLASH_DATA_START + i, size |-> size]
<1>3. i % size = 0 /\ \A k \in 0 .. size - 1 : ~ UsedFlashMap[i + k]
  BY <1>2 DEF Fits
<1>4. i + size - 1 \in Offset /\ (FLASH_DATA_START + i) % size = 0
  BY <1>1, <1>3, PlaceInMap
<1>5. /\ new.first = 8 + i
      /\ new.size = size
      /\ Place(new) = 8 + i .. 8 + i + size - 1
  BY DEF Place, FLASH_DATA_START
<1>6. \A v \in allocated : Place(v) \subseteq 8 .. 15 /\ \A a \in Place(v) : UsedFlashMap[a - 8]
  BY DEF MapInv, Marked, AllocationsDisjoint, FLASH_DATA_START, FLASH_DATA_END
<1>7. \A v \in allocated : Place(v) \cap Place(new) = {}
  <2> SUFFICES ASSUME NEW v \in allocated, NEW a \in Place(v), a \in Place(new)
               PROVE  FALSE
    OBVIOUS
  <2>1. a \in 8 .. 15 /\ UsedFlashMap[a - 8]
    BY <1>6
  <2>2. a - 8 - i \in 0 .. size - 1
    BY <1>1, <1>5, <2>1 DEF Offset, FLASH_SIZE_BYTES
  <2>3. ~ UsedFlashMap[i + (a - 8 - i)]
    BY <1>3, <2>2
  <2> QED
    BY <2>1, <2>3 DEF Offset, FLASH_SIZE_BYTES
<1>8. Place(new) \subseteq 8 .. 15
  BY <1>1, <1>4, <1>5 DEF Offset, FLASH_SIZE_BYTES
<1>9. Marked'
  <2>1. UsedFlashMap' \in [Offset -> BOOLEAN]
    BY <1>2 DEF MapInv, Marked
  <2>2. \A v \in allocated :
          /\ v.first \in 8 .. 15 /\ v.size \in {1, 2, 4}
          /\ \A a \in Place(v) : UsedFlashMap'[a - 8]
    <3> SUFFICES ASSUME NEW v \in allocated, NEW a \in Place(v)
                 PROVE  UsedFlashMap'[a - 8]
      BY DEF MapInv, Marked, FLASH_DATA_START, FLASH_DATA_END
    <3>1. a - 8 \in Offset /\ UsedFlashMap[a - 8]
      BY <1>6 DEF Offset, FLASH_SIZE_BYTES
    <3> QED
      BY <1>2, <3>1
  <2>3. \A a \in Place(new) : UsedFlashMap'[a - 8]
    <3> SUFFICES ASSUME NEW a \in Place(new)
                 PROVE  UsedFlashMap'[a - 8]
      OBVIOUS
    <3>1. a - 8 \in Offset /\ a - 8 \in i .. i + size - 1
      BY <1>1, <1>4, <1>5 DEF Offset, FLASH_SIZE_BYTES
    <3> HIDE DEF new
    <3> QED
      BY <1>2, <3>1
  <2>4. new.first \in 8 .. 15 /\ new.size \in {1, 2, 4}
    BY <1>1, <1>5 DEF Offset, FLASH_SIZE_BYTES
  <2> QED
    BY <1>2, <2>1, <2>2, <2>3, <2>4 DEF Marked, Place, FLASH_DATA_START, FLASH_DATA_END
<1>10. AllocationsDisjoint'
  <2>1. \A v \in allocated' :
          v.first % v.size = 0 /\ Place(v) \subseteq 8 .. 15
    BY <1>2, <1>4, <1>5, <1>8
       DEF MapInv, AllocationsDisjoint, FLASH_DATA_START, FLASH_DATA_END
  <2>2. \A v, w \in allocated' : v # w => Place(v) \cap Place(w) = {}
    BY <1>2, <1>7 DEF MapInv, AllocationsDisjoint
  <2> QED
    BY <2>1, <2>2 DEF AllocationsDisjoint, Place, FLASH_DATA_START, FLASH_DATA_END
<1> QED
  BY <1>9, <1>10 DEF MapInv

\* No call and no reset breaks the agreement of the map and the variables.
LEMMA MapInvHolds == Spec => []MapInv
<1>1. Init => MapInv
  BY DEF Init, MapInv, Marked, AllocationsDisjoint
<1>2. MapInv /\ [Next]_vars => MapInv'
  <2> SUFFICES ASSUME MapInv, [Next]_vars
               PROVE  MapInv'
    OBVIOUS
  <2>1. CASE \E size \in Sizes : Flash_AllocateVar(size)
    BY <2>1, AllocateStep
  <2>2. CASE UNCHANGED <<UsedFlashMap, allocated>>
    BY <2>2 DEF MapInv, Marked, AllocationsDisjoint, Place
  <2>3. CASE Reset
    BY <2>3 DEF Reset, MapInv, Marked, AllocationsDisjoint
  <2> QED
    BY <2>1, <2>2, <2>3 DEF Next, Flash_Write8, Flash_Write16, Flash_Write32, EraseSector,
                            WritePhrase, Flash_Erase, vars
<1> QED
  BY <1>1, <1>2, PTL DEF Spec

\* Flash_AllocateVar hands out disjoint, aligned places of the data block,
\* whatever sizes it is asked for and in whatever order, between two resets.
THEOREM AllocationsDisjointHolds == Spec => []AllocationsDisjoint
<1>1. MapInv => AllocationsDisjoint
  BY DEF MapInv
<1> QED
  BY <1>1, MapInvHolds, PTL

-----------------------------------------------------------------------------
\* w is the m bytes at address b as a write of the n bytes x at address a leaves
\* them.
Patched(b, m, a, n, x, w) ==
    /\ w \in [0 .. m - 1 -> Byte]
    /\ \A k \in 0 .. m - 1 :
        w[k] = IF b + k \in a .. a + n - 1 THEN x[b + k - a] ELSE memory[b + k]

\* Widening n bytes to 2 * n aligned ones adds what the memory holds beside them.
LEMMA WidenedEffect ==
    ASSUME NEW n \in {1, 2, 4}, NEW a \in Address, NEW x \in [0 .. n - 1 -> Byte],
           memory \in [Address -> Byte], a % n = 0
    PROVE  /\ Aligned(a, 2 * n) \in Address
           /\ Aligned(a, 2 * n) % (2 * n) = 0
           /\ Patched(Aligned(a, 2 * n), 2 * n, a, n, x, Widened(a, n, x))
<1>1. a \in 0 .. 15 /\ Address = 0 .. 15
  BY DEF Address, FLASH_DATA_END
<1>2. CASE a % (2 * n) = 0
  <2>1. /\ Aligned(a, 2 * n) = a
        /\ a + n .. a + n + n - 1 \subseteq Address
    <3>1. CASE n = 1
      BY <1>1, <1>2, <3>1 DEF Aligned
    <3>2. CASE n = 2
      BY <1>1, <1>2, <3>2 DEF Aligned
    <3>3. CASE n = 4
      BY <1>1, <1>2, <3>3 DEF Aligned
    <3> QED
      BY <3>1, <3>2, <3>3
  <2>2. Widened(a, n, x) =
          [k \in 0 .. 2 * n - 1 |-> IF k < n THEN x[k] ELSE memory[a + k]]
    <3>1. \A k \in 0 .. 2 * n - 1 : k >= n => Read(a + n, n)[k - n] = memory[a + k]
      BY <1>1 DEF Read
    <3> QED
      BY <1>2, <3>1 DEF Widened, Joined
  <2>3. ASSUME NEW k \in 0 .. 2 * n - 1
        PROVE  /\ Widened(a, n, x)[k] = IF a + k \in a .. a + n - 1 THEN x[k] ELSE memory[a + k]
               /\ Widened(a, n, x)[k] \in Byte
    <3>1. CASE k < n
      BY <1>1, <2>2, <3>1
    <3>2. CASE k >= n
      <4>1. a + k \in a + n .. a + n + n - 1
        BY <1>1, <3>2
      <4>2. a + k \in Address
        BY <2>1, <4>1
      <4> QED
        BY <1>1, <2>2, <3>2, <4>2
    <3> QED
      BY <3>1, <3>2
  <2>4. Widened(a, n, x) \in [0 .. 2 * n - 1 -> Byte]
    BY <2>2, <2>3
  <2>5. \A k \in 0 .. 2 * n - 1 : a + k - a = k
    BY <1>1
  <2> QED
    BY <1>2, <2>1, <2>3, <2>4, <2>5 DEF Patched
<1>3. CASE a % (2 * n) # 0
  <2>1. /\ Aligned(a, 2 * n) = a - n
        /\ (a - n) % (2 * n) = 0
        /\ a - n .. a - 1 \subseteq Address
        /\ a - n \in Address
    <3>1. CASE n = 1
      BY <1>1, <1>3, <3>1 DEF Aligned
    <3>2. CASE n = 2
      BY <1>1, <1>3, <3>2 DEF Aligned
    <3>3. CASE n = 4
      BY <1>1, <1>3, <3>3 DEF Aligned
    <3> QED
      BY <3>1, <3>2, <3>3
  <2>2. Widened(a, n, x) =
          [k \in 0 .. 2 * n - 1 |-> IF k < n THEN memory[a - n + k] ELSE x[k - n]]
    BY <1>3 DEF Widened, Joined, Read
  <2>3. ASSUME NEW k \in 0 .. 2 * n - 1
        PROVE  /\ Widened(a, n, x)[k] =
                    IF a - n + k \in a .. a + n - 1 THEN x[k - n] ELSE memory[a - n + k]
               /\ Widened(a, n, x)[k] \in Byte
    <3>1. CASE k < n
      <4>1. a - n + k \in a - n .. a - 1
        BY <1>1, <3>1
      <4>2. a - n + k \in Address
        BY <2>1, <4>1
      <4> QED
        BY <1>1, <2>2, <3>1, <4>2
    <3>2. CASE k >= n
      BY <1>1, <2>2, <3>2
    <3> QED
      BY <3>1, <3>2
  <2>4. Widened(a, n, x) \in [0 .. 2 * n - 1 -> Byte]
    BY <2>2, <2>3
  <2>5. \A k \in 0 .. 2 * n - 1 : a - n + k - a = k - n
    BY <1>1
  <2> QED
    BY <2>1, <2>3, <2>4, <2>5 DEF Patched
<1> QED
  BY <1>2, <1>3

\* One step of the chain from Flash_Write8 to Flash_Write16 to Flash_Write32 to
\* ModifyPhrase: widening keeps the bytes written and what lies beside them.
LEMMA WidenedPatched ==
    ASSUME NEW m \in {1, 2, 4}, NEW b \in Address,
           NEW n \in {1, 2, 4}, NEW a \in Address, NEW x, NEW w,
           memory \in [Address -> Byte], b % m = 0,
           a .. a + n - 1 \subseteq b .. b + m - 1, Patched(b, m, a, n, x, w)
    PROVE  /\ Aligned(b, 2 * m) \in Address
           /\ Aligned(b, 2 * m) % (2 * m) = 0
           /\ b .. b + m - 1 \subseteq Aligned(b, 2 * m) .. Aligned(b, 2 * m) + 2 * m - 1
           /\ Patched(Aligned(b, 2 * m), 2 * m, a, n, x, Widened(b, m, w))
<1> DEFINE c == Aligned(b, 2 * m)
           v == Widened(b, m, w)
<1>1. /\ c \in Address
      /\ c % (2 * m) = 0
      /\ v \in [0 .. 2 * m - 1 -> Byte]
      /\ \A k \in 0 .. 2 * m - 1 :
            v[k] = IF c + k \in b .. b + m - 1 THEN w[c + k - b] ELSE memory[c + k]
  <2>1. w \in [0 .. m - 1 -> Byte]
    BY DEF Patched
  <2>2. c \in Address /\ c % (2 * m) = 0 /\ Patched(c, 2 * m, b, m, w, v)
    BY <2>1, WidenedEffect
  <2> HIDE DEF c, v
  <2> QED
    BY <2>2 DEF Patched
<1>2. a \in 0 .. 15 /\ b \in 0 .. 15 /\ c \in 0 .. 15
  BY <1>1 DEF Address, FLASH_DATA_END
<1>3. c = b \/ c = b - m
  <2>1. CASE m = 1
    BY <1>2, <2>1 DEF Aligned
  <2>2. CASE m = 2
    BY <1>2, <2>2 DEF Aligned
  <2>3. CASE m = 4
    BY <1>2, <2>3 DEF Aligned
  <2> QED
    BY <2>1, <2>2, <2>3
<1> HIDE DEF c, v
<1>4. ASSUME NEW k \in 0 .. 2 * m - 1
      PROVE  v[k] = IF c + k \in a .. a + n - 1 THEN x[c + k - a] ELSE memory[c + k]
  <2>1. CASE c + k \in b .. b + m - 1
    <3>1. c + k - b \in 0 .. m - 1 /\ b + (c + k - b) = c + k
      BY <1>2, <2>1
    <3>2. v[k] = w[c + k - b]
      BY <1>1, <2>1
    <3>3. w[c + k - b] =
            IF b + (c + k - b) \in a .. a + n - 1
            THEN x[b + (c + k - b) - a]
            ELSE memory[b + (c + k - b)]
      BY <3>1 DEF Patched
    <3> QED
      <4> DEFINE j == c + k - b
      <4>1. /\ v[k] = w[j]
            /\ b + j = c + k
            /\ b + j - a = c + k - a
        BY <1>2, <3>1, <3>2
      <4>2. w[j] = IF b + j \in a .. a + n - 1 THEN x[b + j - a] ELSE memory[b + j]
        BY <3>3
      <4> HIDE DEF j
      <4> QED
        BY <4>1, <4>2
  <2>2. CASE c + k \notin b .. b + m - 1
    BY <1>1, <2>2
  <2> QED
    BY <2>1, <2>2
<1>5. b .. b + m - 1 \subseteq c .. c + 2 * m - 1
  BY <1>2, <1>3
<1> QED
  BY <1>1, <1>4, <1>5 DEF Patched, c, v

-----------------------------------------------------------------------------
\* Until ModifyPhrase erases it, the phrase still holds what it held when the
\* call began, and from then on it is blank: programming it can set any byte.
WriteInv ==
    /\ memory \in [Address -> Byte]
    /\ pc \in {"idle", "erase", "program"}
    /\ address \in Address /\ address % 8 = 0
    /\ phrase \in [0 .. 7 -> Byte]
    /\ before \in [0 .. 7 -> Byte]
    /\ pc = "erase" => \A i \in Sector(address) : before[i - address] = memory[i]
    /\ pc = "program" => \A i \in Sector(address) : memory[i] = Erased

\* The addresses of a phrase.
LEMMA PhraseIsSector ==
    ASSUME NEW a \in Address, a % 8 = 0
    PROVE  /\ Sector(a) = a .. a + 7
           /\ Sector(a) \subseteq Address
           /\ \A k \in 0 .. 7 : a + k \in Address
           /\ \A i \in Sector(a) : i - a \in 0 .. 7 /\ a + (i - a) = i
           /\ \A i \in Sector(a), b \in Address : a + (i - a) - b = i - b
<1>1. Address = 0 .. 15
  BY DEF Address, FLASH_DATA_END
<1>2. a = 0 \/ a = 8
  BY <1>1
<1> QED
  BY <1>1, <1>2 DEF Sector, Aligned

\* What a call of a write function does before its commands are launched: it
\* begins an abstract write of the same bytes.
LEMMA BeginStep ==
    ASSUME WriteInv, pc = "idle",
           NEW n \in {1, 2, 4}, NEW a \in Address, a % n = 0, NEW x \in [0 .. n - 1 -> Byte],
           pc' = "erase", address' \in Address, address' % 8 = 0,
           a .. a + n - 1 \subseteq address' .. address' + 7,
           Patched(address', 8, a, n, x, phrase'),
           before' = Read(address', 8), UNCHANGED memory
    PROVE  WriteInv' /\ Abstract!Begin
<1>1. /\ Sector(address)' = address' .. address' + 7
      /\ Sector(address)' \subseteq Address
      /\ \A k \in 0 .. 7 : address' + k \in Address
      /\ \A i \in Sector(address)' : i - address' \in 0 .. 7 /\ address' + (i - address') = i
      /\ \A i \in Sector(address)' : address' + (i - address') - a = i - a
  BY PhraseIsSector DEF Sector, Aligned
<1>2. /\ before' \in [0 .. 7 -> Byte]
      /\ \A i \in Sector(address)' : before'[i - address'] = memory[i]
  <2>1. before' = [k \in 0 .. 7 |-> memory[address' + k]]
    BY DEF Read
  <2>3. before' \in [0 .. 7 -> Byte]
    BY <1>1, <2>1 DEF WriteInv
  <2>4. \A i \in Sector(address)' : before'[i - address'] = memory[i]
    BY <1>1, <2>1
  <2> QED
    BY <2>3, <2>4
<1>3. phrase' \in [0 .. 7 -> Byte]
  BY DEF Patched
<1>4. WriteInv'
  BY <1>2, <1>3 DEF WriteInv
<1>5. Memory = memory /\ Memory' = memory
  BY DEF WriteInv, Memory
<1>6. AfterWrite' = [i \in Address |-> IF i \in a .. a + n - 1 THEN x[i - a] ELSE memory[i]]
  <2>1. AfterWrite' =
          [i \in Address |-> IF i \in Sector(address)' THEN phrase'[i - address'] ELSE memory[i]]
    BY DEF AfterWrite
  <2>2. ASSUME NEW i \in Sector(address)'
        PROVE  phrase'[i - address'] = IF i \in a .. a + n - 1 THEN x[i - a] ELSE memory[i]
    <3> DEFINE k == i - address'
    <3>1. k \in 0 .. 7 /\ address' + k = i /\ address' + k - a = i - a
      BY <1>1
    <3>2. phrase'[k] =
            IF address' + k \in a .. a + n - 1 THEN x[address' + k - a] ELSE memory[address' + k]
      BY <3>1 DEF Patched
    <3> HIDE DEF k
    <3>3. phrase'[k] = IF i \in a .. a + n - 1 THEN x[i - a] ELSE memory[i]
      BY <3>1, <3>2
    <3> QED
      BY <3>3 DEF k
  <2>3. \A i \in Address : i \notin Sector(address)' => i \notin a .. a + n - 1
    BY <1>1
  <2> QED
    BY <2>1, <2>2, <2>3
<1>7. AfterWrite' = Abstract!Overwritten(a, n, x)
  BY <1>5, <1>6 DEF Abstract!Overwritten
<1> QED
  BY <1>4, <1>5, <1>7 DEF Abstract!Begin

\* Flash_Write32, called with a word that a narrower write has made up, begins
\* that narrower write.
LEMMA Write32Step ==
    ASSUME WriteInv,
           NEW n \in {1, 2, 4}, NEW a \in Address, a % n = 0, NEW x \in [0 .. n - 1 -> Byte],
           NEW b \in Address, a .. a + n - 1 \subseteq b .. b + 3,
           NEW w, Patched(b, 4, a, n, x, w),
           Flash_Write32(b, w)
    PROVE  WriteInv' /\ Abstract!Begin
<1> DEFINE c == Aligned(b, 8)
           v == Widened(b, 4, w)
<1>1. /\ pc = "idle" /\ b % 4 = 0
      /\ address' = c /\ phrase' = v /\ pc' = "erase"
      /\ before' = Read(c, 8) /\ UNCHANGED memory
  BY DEF Flash_Write32
<1>2. /\ c \in Address /\ c % 8 = 0
      /\ b .. b + 3 \subseteq c .. c + 7
      /\ Patched(c, 8, a, n, x, v)
  <2>1. memory \in [Address -> Byte]
    BY DEF WriteInv
  <2>2. /\ Aligned(b, 2 * 4) \in Address
        /\ Aligned(b, 2 * 4) % (2 * 4) = 0
        /\ b .. b + 4 - 1 \subseteq Aligned(b, 2 * 4) .. Aligned(b, 2 * 4) + 2 * 4 - 1
        /\ Patched(Aligned(b, 2 * 4), 2 * 4, a, n, x, Widened(b, 4, w))
    BY <1>1, <2>1, 4 - 1 = 3, WidenedPatched
  <2>3. b .. b + 4 - 1 = b .. b + 3
    BY DEF Address, FLASH_DATA_END
  <2>4. \A i \in Address : i + 2 * 4 - 1 = i + 7
    BY DEF Address, FLASH_DATA_END
  <2>5. 2 * 4 = 8
    OBVIOUS
  <2> QED
    BY <2>2, <2>3, <2>4, <2>5
<1> HIDE DEF c, v
<1>3. a .. a + n - 1 \subseteq c .. c + 7
  BY <1>2
<1> QED
  BY <1>1, <1>2, <1>3, BeginStep

\* The same of Flash_Write16.
LEMMA Write16Step ==
    ASSUME WriteInv,
           NEW n \in {1, 2, 4}, NEW a \in Address, a % n = 0, NEW x \in [0 .. n - 1 -> Byte],
           NEW b \in Address, a .. a + n - 1 \subseteq b .. b + 1,
           NEW w, Patched(b, 2, a, n, x, w),
           Flash_Write16(b, w)
    PROVE  WriteInv' /\ Abstract!Begin
<1> DEFINE c == Aligned(b, 4)
           v == Widened(b, 2, w)
<1>1. b % 2 = 0 /\ Flash_Write32(c, v)
  BY DEF Flash_Write16
<1>2. /\ c \in Address
      /\ b .. b + 1 \subseteq c .. c + 3
      /\ Patched(c, 4, a, n, x, v)
  <2>1. memory \in [Address -> Byte]
    BY DEF WriteInv
  <2>2. /\ Aligned(b, 2 * 2) \in Address
        /\ b .. b + 2 - 1 \subseteq Aligned(b, 2 * 2) .. Aligned(b, 2 * 2) + 2 * 2 - 1
        /\ Patched(Aligned(b, 2 * 2), 2 * 2, a, n, x, Widened(b, 2, w))
    BY <1>1, <2>1, 2 - 1 = 1, WidenedPatched
  <2>3. b .. b + 2 - 1 = b .. b + 1
    BY DEF Address, FLASH_DATA_END
  <2>4. \A i \in Address : i + 2 * 2 - 1 = i + 3
    BY DEF Address, FLASH_DATA_END
  <2>5. 2 * 2 = 4
    OBVIOUS
  <2> QED
    BY <2>2, <2>3, <2>4, <2>5
<1> HIDE DEF c, v
<1>3. a .. a + n - 1 \subseteq c .. c + 3
  BY <1>2
<1> QED
  BY <1>1, <1>2, <1>3, Write32Step

\* Bytes that are written as they are.
LEMMA PatchedWithItself ==
    ASSUME NEW n \in {1, 2, 4}, NEW a \in Address, NEW x \in [0 .. n - 1 -> Byte]
    PROVE  Patched(a, n, a, n, x, x)
<1>1. a \in Int
  BY DEF Address, FLASH_DATA_END
<1>2. \A k \in 0 .. n - 1 : a + k \in a .. a + n - 1 /\ a + k - a = k
  BY <1>1
<1> QED
  BY <1>2 DEF Patched

\* Each of the three write functions begins the write it was called for.
LEMMA CallsBegin ==
    ASSUME WriteInv, NEW a \in Address
    PROVE  /\ \A x \in [0 .. 0 -> Byte] : Flash_Write8(a, x) => WriteInv' /\ Abstract!Begin
           /\ \A x \in [0 .. 1 -> Byte] : Flash_Write16(a, x) => WriteInv' /\ Abstract!Begin
           /\ \A x \in [0 .. 3 -> Byte] : Flash_Write32(a, x) => WriteInv' /\ Abstract!Begin
<1>1. memory \in [Address -> Byte] /\ a % 1 = 0
  BY DEF WriteInv, Address, FLASH_DATA_END
<1>2. /\ a .. a + 1 - 1 = a .. a
      /\ a .. a + 2 - 1 = a .. a + 1
      /\ a .. a + 4 - 1 = a .. a + 3
  BY DEF Address, FLASH_DATA_END
<1>3. ASSUME NEW x \in [0 .. 0 -> Byte], Flash_Write8(a, x)
      PROVE  WriteInv' /\ Abstract!Begin
  <2> DEFINE b == Aligned(a, 2)
             w == Widened(a, 1, x)
  <2>1. Flash_Write16(b, w)
    BY <1>3 DEF Flash_Write8
  <2>2. x \in [0 .. 1 - 1 -> Byte]
    BY <1>3, 1 - 1 = 0
  <2>3. Patched(a, 1, a, 1, x, x)
    BY <2>2, PatchedWithItself
  <2>4. /\ Aligned(a, 2 * 1) \in Address
        /\ a .. a + 1 - 1 \subseteq Aligned(a, 2 * 1) .. Aligned(a, 2 * 1) + 2 * 1 - 1
        /\ Patched(Aligned(a, 2 * 1), 2 * 1, a, 1, x, Widened(a, 1, x))
    BY <1>1, <2>3, WidenedPatched
  <2>5. 2 * 1 = 2 /\ \A i \in Address : i + 2 * 1 - 1 = i + 1
    BY DEF Address, FLASH_DATA_END
  <2>6. b \in Address /\ a .. a + 1 - 1 \subseteq b .. b + 1 /\ Patched(b, 2, a, 1, x, w)
    BY <2>4, <2>5
  <2> HIDE DEF b, w
  <2> QED
    BY <1>1, <2>1, <2>2, <2>6, Write16Step
<1>4. ASSUME NEW x \in [0 .. 1 -> Byte], Flash_Write16(a, x)
      PROVE  WriteInv' /\ Abstract!Begin
  <2>1. x \in [0 .. 2 - 1 -> Byte] /\ a % 2 = 0
    BY <1>4, 2 - 1 = 1 DEF Flash_Write16
  <2>2. Patched(a, 2, a, 2, x, x)
    BY <2>1, PatchedWithItself
  <2> QED
    BY <1>2, <1>4, <2>1, <2>2, Write16Step
<1>5. ASSUME NEW x \in [0 .. 3 -> Byte], Flash_Write32(a, x)
      PROVE  WriteInv' /\ Abstract!Begin
  <2>1. x \in [0 .. 4 - 1 -> Byte] /\ a % 4 = 0
    BY <1>5, 4 - 1 = 3 DEF Flash_Write32
  <2>2. Patched(a, 4, a, 4, x, x)
    BY <2>1, PatchedWithItself
  <2> QED
    BY <1>2, <1>5, <2>1, <2>2, Write32Step
<1> QED
  BY <1>3, <1>4, <1>5

\* Erasing the sector is a stutter: the mapping still shows what it held.
LEMMA EraseSectorStutters ==
    ASSUME WriteInv, EraseSector
    PROVE  WriteInv' /\ UNCHANGED Abstract!vars
<1>1. /\ pc = "erase" /\ pc' = "program"
      /\ memory' = [i \in Address |-> IF i \in Sector(address) THEN Erased ELSE memory[i]]
      /\ UNCHANGED <<address, phrase, before>>
  BY DEF EraseSector, Erasing
<1>2. \A i \in Sector(address) : before[i - address] = memory[i]
  BY <1>1 DEF WriteInv
<1>3. Sector(address)' = Sector(address) /\ Sector(address) \subseteq Address
  BY <1>1, PhraseIsSector DEF WriteInv, Sector, Aligned
<1>4. Memory' = Memory
  <2>1. Memory' = [a \in Address |->
                    IF a \in Sector(address) THEN before[a - address] ELSE memory'[a]]
    BY <1>1, <1>3 DEF Memory
  <2>2. Memory = [a \in Address |-> memory[a]]
    BY <1>1 DEF Memory
  <2> QED
    BY <1>1, <1>2, <2>1, <2>2
<1>5. AfterWrite' = AfterWrite
  <2>1. AfterWrite' = [a \in Address |->
                        IF a \in Sector(address) THEN phrase[a - address] ELSE memory'[a]]
    BY <1>1, <1>3 DEF AfterWrite
  <2>2. AfterWrite = [a \in Address |->
                        IF a \in Sector(address) THEN phrase[a - address] ELSE memory[a]]
    BY <1>1 DEF AfterWrite
  <2> QED
    BY <1>1, <2>1, <2>2
<1>6. WriteInv'
  <2>1. memory' \in [Address -> Byte]
    BY <1>1 DEF WriteInv, Byte, Erased
  <2>2. \A i \in Sector(address)' : memory'[i] = Erased
    BY <1>1, <1>3
  <2> QED
    BY <1>1, <2>1, <2>2 DEF WriteInv
<1> QED
  BY <1>1, <1>4, <1>5, <1>6 DEF Abstract!vars

\* Programming the phrase commits the write: its sector is blank, so that
\* clearing bits can make any byte.
LEMMA WritePhraseCommits ==
    ASSUME WriteInv, WritePhrase
    PROVE  WriteInv' /\ Abstract!Commit
<1>1. /\ pc = "program" /\ pc' = "idle"
      /\ memory' = [i \in Address |->
            IF i \in Sector(address) THEN memory[i] \cap phrase[i - address] ELSE memory[i]]
      /\ address' = 8 /\ phrase' = Blank /\ before' = Blank
  BY DEF WritePhrase, Return, FLASH_DATA_START
<1>2. ASSUME NEW i \in Sector(address)
      PROVE  memory[i] \cap phrase[i - address] = phrase[i - address] /\ phrase[i - address] \in Byte
  <2>1. i - address \in 0 .. 7
    BY PhraseIsSector DEF WriteInv
  <2>2. memory[i] = Bits /\ phrase[i - address] \in SUBSET Bits
    BY <1>1, <2>1 DEF WriteInv, Erased, Byte
  <2> QED
    BY <2>2 DEF Byte
<1>3. memory' = [i \in Address |->
        IF i \in Sector(address) THEN phrase[i - address] ELSE memory[i]]
  BY <1>1, <1>2
<1>4. memory' \in [Address -> Byte]
  BY <1>2, <1>3 DEF WriteInv
<1>5. Memory' = memory' /\ AfterWrite' = memory'
  BY <1>1, <1>4 DEF Memory, AfterWrite
<1>6. AfterWrite = memory'
  BY <1>1, <1>3 DEF AfterWrite
<1>7. Blank \in [0 .. 7 -> Byte] /\ 8 \in Address /\ 8 % 8 = 0
  BY DEF Blank, Erased, Byte, Address, FLASH_DATA_END
<1>8. WriteInv'
  BY <1>1, <1>4, <1>7 DEF WriteInv
<1> QED
  BY <1>1, <1>5, <1>6, <1>8 DEF Abstract!Commit

\* A reset before the erasure leaves the write undone; after it, the sector is
\* erased.
LEMMA ResetStep ==
    ASSUME WriteInv, Reset
    PROVE  WriteInv' /\ (Abstract!Reset \/ UNCHANGED Abstract!vars)
<1>1. /\ pc' = "idle" /\ memory' = memory
      /\ address' = 8 /\ phrase' = Blank /\ before' = Blank
  BY DEF Reset, Return, FLASH_DATA_START
<1>2. Blank \in [0 .. 7 -> Byte] /\ 8 \in Address /\ 8 % 8 = 0
  BY DEF Blank, Erased, Byte, Address, FLASH_DATA_END
<1>3. WriteInv'
  BY <1>1, <1>2 DEF WriteInv
<1>4. memory = [i \in Address |-> memory[i]]
  BY DEF WriteInv
<1>5. Memory' = memory /\ AfterWrite' = memory
  BY <1>1, <1>4 DEF Memory, AfterWrite
<1>6. CASE pc = "idle"
  <2>1. Memory = memory /\ AfterWrite = memory
    BY <1>4, <1>6 DEF Memory, AfterWrite
  <2> QED
    BY <1>1, <1>3, <1>5, <1>6, <2>1 DEF Abstract!vars
<1>7. CASE pc = "erase"
  <2>1. Memory = memory
    BY <1>4, <1>7 DEF Memory
  <2> QED
    BY <1>1, <1>3, <1>5, <1>7, <2>1 DEF Abstract!Reset
<1>8. CASE pc = "program"
  <2>1. Abstract!WithoutSector(address) =
          [i \in Address |-> IF i \in Sector(address) THEN Erased ELSE Memory[i]]
    BY DEF Abstract!WithoutSector
  <2>2. \A i \in Address : i \notin Sector(address) => Memory[i] = memory[i]
    BY DEF Memory
  <2>3. \A i \in Sector(address) : memory[i] = Erased
    BY <1>8 DEF WriteInv
  <2>4. Memory' = Abstract!WithoutSector(address)
    BY <1>4, <1>5, <2>1, <2>2, <2>3
  <2>5. address \in Address
    BY DEF WriteInv
  <2>6. \A i \in Address \ Sector(address) : AfterWrite[i] = Memory[i]
    BY <2>2 DEF AfterWrite
  <2> QED
    BY <1>1, <1>3, <1>5, <1>8, <2>4, <2>5, <2>6 DEF Abstract!Reset
<1> QED
  BY <1>6, <1>7, <1>8 DEF WriteInv

\* Flash_Erase erases the data block at once.
LEMMA EraseStep ==
    ASSUME WriteInv, Flash_Erase
    PROVE  WriteInv' /\ Abstract!Erase
<1>1. /\ pc = "idle" /\ pc' = "idle"
      /\ memory' = [i \in Address |-> IF i \in Sector(8) THEN Erased ELSE memory[i]]
      /\ UNCHANGED <<address, phrase, before>>
  BY DEF Flash_Erase, Erasing, write, FLASH_DATA_START
<1>2. memory' \in [Address -> Byte]
  BY <1>1 DEF WriteInv, Byte, Erased
<1>3. WriteInv'
  BY <1>1, <1>2 DEF WriteInv
<1>4. Memory = memory /\ Memory' = memory' /\ AfterWrite' = memory'
  BY <1>1, <1>2 DEF WriteInv, Memory, AfterWrite
<1>5. memory' = Abstract!WithoutSector(8)
  BY <1>1, <1>4 DEF Abstract!WithoutSector
<1>6. 8 \in Address
  BY DEF Address, FLASH_DATA_END
<1> QED
  BY <1>1, <1>3, <1>4, <1>5, <1>6 DEF Abstract!Erase

\* The invariant holds at the start, when no write is under way.
LEMMA WriteInit == Init => WriteInv /\ Abstract!Init
<1> SUFFICES ASSUME Init
             PROVE  WriteInv /\ Abstract!Init
  OBVIOUS
<1>1. /\ memory \in [Address -> Byte] /\ pc = "idle"
      /\ address = 8 /\ phrase = Blank /\ before = Blank
  BY DEF Init, Byte, Erased, FLASH_DATA_START
<1>2. Blank \in [0 .. 7 -> Byte] /\ 8 \in Address /\ 8 % 8 = 0
  BY DEF Blank, Erased, Byte, Address, FLASH_DATA_END
<1>3. Memory = memory /\ AfterWrite = memory
  BY <1>1 DEF Memory, AfterWrite
<1> QED
  BY <1>1, <1>2, <1>3 DEF WriteInv, Abstract!Init

\* Every step keeps the invariant and is a step of the promise or a stutter.
LEMMA WriteStep == WriteInv /\ [Next]_vars => WriteInv' /\ [Abstract!Next]_(Abstract!vars)
<1> SUFFICES ASSUME WriteInv, [Next]_vars
             PROVE  WriteInv' /\ (Abstract!Next \/ UNCHANGED Abstract!vars)
  OBVIOUS
<1>1. ASSUME UNCHANGED <<memory, write>>
      PROVE  WriteInv' /\ UNCHANGED Abstract!vars
  <2>1. UNCHANGED <<memory, pc, address, phrase, before>>
    BY <1>1 DEF write
  <2> QED
    BY <2>1 DEF WriteInv, Abstract!vars, Memory, AfterWrite, Sector, Aligned
<1>2. CASE \E size \in Sizes : Flash_AllocateVar(size)
  BY <1>1, <1>2 DEF Flash_AllocateVar
<1>3. CASE \E a \in Targets : \E x \in [0 .. 0 -> Values] : Flash_Write8(a, x)
  <2>1. PICK a \in Targets, x \in [0 .. 0 -> Values] : Flash_Write8(a, x)
    BY <1>3
  <2>2. a \in Address /\ x \in [0 .. 0 -> Byte]
    BY TargetAssumption, ValueAssumption
  <2> QED
    BY <2>1, <2>2, CallsBegin DEF Abstract!Next
<1>4. CASE \E a \in Targets : \E x \in [0 .. 1 -> Values] : Flash_Write16(a, x)
  <2>1. PICK a \in Targets, x \in [0 .. 1 -> Values] : Flash_Write16(a, x)
    BY <1>4
  <2>2. a \in Address /\ x \in [0 .. 1 -> Byte]
    BY TargetAssumption, ValueAssumption
  <2> QED
    BY <2>1, <2>2, CallsBegin DEF Abstract!Next
<1>5. CASE \E a \in Targets : \E x \in [0 .. 3 -> Values] : Flash_Write32(a, x)
  <2>1. PICK a \in Targets, x \in [0 .. 3 -> Values] : Flash_Write32(a, x)
    BY <1>5
  <2>2. a \in Address /\ x \in [0 .. 3 -> Byte]
    BY TargetAssumption, ValueAssumption
  <2> QED
    BY <2>1, <2>2, CallsBegin DEF Abstract!Next
<1>6. CASE EraseSector
  BY <1>6, EraseSectorStutters
<1>7. CASE WritePhrase
  BY <1>7, WritePhraseCommits DEF Abstract!Next
<1>8. CASE Flash_Erase
  BY <1>8, EraseStep DEF Abstract!Next
<1>9. CASE Reset
  BY <1>9, ResetStep DEF Abstract!Next
<1>10. CASE UNCHANGED vars
  BY <1>1, <1>10 DEF vars
<1> QED
  BY <1>2, <1>3, <1>4, <1>5, <1>6, <1>7, <1>8, <1>9, <1>10 DEF Next

\* Flash.c implements a memory in which a write changes exactly the bytes it was
\* called for, for every width of a byte and every sequence of calls and resets;
\* a reset loses at most the write under way, or with it the sector.
THEOREM FlashImplementsNonVolatile == Spec => ImplementsNonVolatile
BY WriteInit, WriteStep, PTL DEF Spec, ImplementsNonVolatile, Abstract!Spec

\* The flash holds bytes, a write under way is for one of the two phrases, and
\* every variable has a size that was asked for and a place in the flash.
THEOREM TypeCorrect == Spec => []TypeOK
<1> DEFINE Asked == \A v \in allocated : v.size \in Sizes
<1>1. Init => Asked
  BY DEF Init
<1>2. Asked /\ [Next]_vars => Asked'
  BY DEF Next, Flash_AllocateVar, Flash_Write8, Flash_Write16, Flash_Write32, EraseSector,
         WritePhrase, Flash_Erase, Reset, vars
<1>3. Asked /\ MapInv /\ WriteInv => TypeOK
  <2> SUFFICES ASSUME Asked, MapInv, WriteInv PROVE TypeOK
    OBVIOUS
  <2>1. address \in {0, FLASH_DATA_START}
    BY DEF WriteInv, Address, FLASH_DATA_START, FLASH_DATA_END
  <2>2. \A v \in allocated : v.first \in Address /\ v.size \in Sizes
    BY DEF MapInv, Marked, Address, FLASH_DATA_START, FLASH_DATA_END
  <2> QED
    BY <2>1, <2>2 DEF MapInv, Marked, WriteInv, TypeOK
<1> HIDE DEF Asked
<1> QED
  BY <1>1, <1>2, <1>3, MapInvHolds, WriteInit, WriteStep, PTL DEF Spec

-----------------------------------------------------------------------------
\* "the start" and "the end of the Flash block we are using for data storage"
\* (Flash.h:22-25) do not confine a write: the test at the top of the write
\* functions asks for an address below the one and above the other at once, so
\* it refuses nothing, and a write in front of the block, such as the one to
\* address 0 that handle.c:140 asks for with a pointer nobody assigns, goes on to
\* erase and program the sector it finds there, none of it in the block.
THEOREM OutOfBlockWrites ==
    /\ \A a \in Int : ~ OutOfBlock(a)
    /\ \A a \in 0 .. FLASH_DATA_START - 1 :
         (\/ \E byte \in [0 .. 0 -> Byte] : Flash_Write8(a, byte)
          \/ \E halfWord \in [0 .. 1 -> Byte] : Flash_Write16(a, halfWord)
          \/ \E word \in [0 .. 3 -> Byte] : Flash_Write32(a, word))
         => /\ pc' = "erase"
            /\ Sector(address)' \cap FLASH_DATA_START .. FLASH_DATA_END = {}
<1>1. \A a \in Int : ~ OutOfBlock(a)
  BY DEF OutOfBlock, FLASH_DATA_START, FLASH_DATA_END
<1>2. ASSUME NEW a \in 0 .. 7, NEW word, Flash_Write32(a, word)
      PROVE  pc' = "erase" /\ Sector(address)' \cap 8 .. 15 = {}
  <2>1. pc' = "erase" /\ address' = Aligned(a, 8)
    BY <1>2 DEF Flash_Write32
  <2>2. Aligned(a, 8) = 0
    BY DEF Aligned
  <2> QED
    BY <2>1, <2>2 DEF Sector, Aligned
<1>3. ASSUME NEW a \in 0 .. 7, NEW halfWord, Flash_Write16(a, halfWord)
      PROVE  pc' = "erase" /\ Sector(address)' \cap 8 .. 15 = {}
  <2>1. Aligned(a, 4) \in 0 .. 7
    BY DEF Aligned
  <2>2. Flash_Write32(Aligned(a, 4), Widened(a, 2, halfWord))
    BY <1>3 DEF Flash_Write16
  <2> QED
    BY <1>2, <2>1, <2>2
<1>4. ASSUME NEW a \in 0 .. 7, NEW byte, Flash_Write8(a, byte)
      PROVE  pc' = "erase" /\ Sector(address)' \cap 8 .. 15 = {}
  <2>1. Aligned(a, 2) \in 0 .. 7
    BY DEF Aligned
  <2>2. Flash_Write16(Aligned(a, 2), Widened(a, 1, byte))
    BY <1>4 DEF Flash_Write8
  <2> QED
    BY <1>3, <2>1, <2>2
<1> QED
  BY <1>1, <1>2, <1>3, <1>4 DEF FLASH_DATA_START, FLASH_DATA_END
=============================================================================
