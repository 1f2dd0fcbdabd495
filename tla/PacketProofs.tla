---------------------------- MODULE PacketProofs ----------------------------
(***************************************************************************)
(* Proofs about the packets, for all bytes the PC may send and for every   *)
(* way the line may fail.                                                  *)
(***************************************************************************)
EXTENDS Packet, SequenceTheorems, TLAPS

\* Five bytes in a row are a function, as Packet is.
LEMMA FiveBytes ==
  ASSUME NEW a \in Byte, NEW b \in Byte, NEW c \in Byte, NEW d \in Byte, NEW e \in Byte
  PROVE  /\ <<a, b, c, d, e>> \in [1 .. 5 -> Byte]
         /\ <<a, b, c, d, e>> \in Seq(Byte)
OBVIOUS

\* The exclusive or of two bytes is a byte.
LEMMA XorByte ==
  ASSUME NEW a \in Byte, NEW b \in Byte
  PROVE  Xor(a, b) \in Byte
BY DEF Xor, Byte

\* What Packet_Put sends is five bytes.
LEMMA FramedBytes ==
  ASSUME NEW c \in Byte, NEW p1 \in Byte, NEW p2 \in Byte, NEW p3 \in Byte
  PROVE  Framed(c, p1, p2, p3) \in [1 .. 5 -> Byte]
<1>1. Xor(Xor(Xor(c, p1), p2), p3) \in Byte
  BY XorByte
<1> QED
  BY <1>1, FiveBytes DEF Framed

\* So is a request of the PC.
LEMMA RequestBytes ==
  ASSUME NEW r \in Requests
  PROVE  /\ r \in [1 .. 5 -> Byte]
         /\ r[5] = Xor(Xor(Xor(r[1], r[2]), r[3]), r[4])
<1>1. PICK c \in Commands, p1 \in Parameters1, p2 \in Parameters2, p3 \in Parameters3 :
        r = Framed(c, p1, p2, p3)
  BY DEF Requests
<1>2. c \in Byte /\ p1 \in Byte /\ p2 \in Byte /\ p3 \in Byte
  BY CommandAssumption, ParameterAssumption
<1> QED
  BY <1>1, <1>2, FramedBytes DEF Framed

\* If the checksum is right, the test that compares it with the first byte
\* holds: either the two are equal, and the others cancel out, or they are not,
\* and the others do not.
LEMMA ValidIsAccepted ==
  ASSUME NEW p, Valid(p)
  PROVE  Accepts(p)
<1>1. CASE p[4] = p[0]
  <2>1. Xor(Xor(p[1], p[2]), p[3]) = {}
    BY <1>1 DEF Valid, Xor
  <2>2. Xor(Xor(Xor(One, p[1]), p[2]), p[3]) = One
    BY <2>1 DEF Xor
  <2> QED
    BY <1>1, <2>2 DEF Accepts, Truth, One, Zero
<1>2. CASE p[4] # p[0]
  <2>1. Xor(Xor(Xor(Zero, p[1]), p[2]), p[3]) # Zero
    BY <1>2 DEF Valid, Xor, Zero
  <2> QED
    BY <1>2, <2>1 DEF Accepts, Truth
<1> QED
  BY <1>1, <1>2

\* Which wrong packets are handled, against handle.c, which says of HandlePacket
\* "Attempts to read in Packets and initiate packet commands if packet is valid":
\* unless the three parameters cancel out, any byte at all may arrive as the
\* checksum and the test passes, with one exception, the first byte, if the
\* parameters add up to 1.
THEOREM WrongChecksumPasses ==
  ASSUME NEW p \in [0 .. 4 -> Byte], NEW b \in Byte,
         Xor(Xor(p[1], p[2]), p[3]) # Zero,
         b = p[0] => Xor(Xor(p[1], p[2]), p[3]) # One
  PROVE  Accepts([p EXCEPT ![4] = b])
<1> DEFINE q == [p EXCEPT ![4] = b]
           parameters == Xor(Xor(p[1], p[2]), p[3])
<1>1. q[0] = p[0] /\ q[1] = p[1] /\ q[2] = p[2] /\ q[3] = p[3] /\ q[4] = b
  OBVIOUS
<1>2. Xor(Xor(Xor(Truth(b = p[0]), p[1]), p[2]), p[3]) = Xor(Truth(b = p[0]), parameters)
  BY DEF Xor
<1>3. Truth(b = p[0]) = IF b = p[0] THEN One ELSE Zero
  BY DEF Truth
<1>4. parameters # Truth(b = p[0])
  BY <1>3
<1> HIDE DEF parameters
<1>5. \A t, u : Xor(t, u) = {} => t = u
  BY DEF Xor
<1>6. Xor(Truth(b = p[0]), parameters) # Zero
  BY <1>4, <1>5 DEF Zero
<1> QED
  BY <1>1, <1>2, <1>6 DEF Accepts

\* What Append does to the bytes received.
LEMMA AppendByte ==
  ASSUME NEW s \in Seq(Byte), NEW b \in Byte
  PROVE  /\ Append(s, b) \in Seq(Byte)
         /\ Len(Append(s, b)) = Len(s) + 1
         /\ Append(s, b)[Len(s) + 1] = b
         /\ \A i \in 1 .. Len(s) : Append(s, b)[i] = s[i]
OBVIOUS

\* The latest five bytes, when the oldest is dropped and another one comes.
LEMMA WindowMoves ==
  ASSUME NEW S, NEW s \in Seq(S), Len(s) = 4, NEW b \in S
  PROVE  /\ Append(Tail(s), b) \in Seq(S)
         /\ Len(Append(Tail(s), b)) = 4
         /\ Append(Tail(s), b)[4] = b
         /\ \A i \in 1 .. 3 : Append(Tail(s), b)[i] = s[i + 1]
<1>1. s # <<>>
  OBVIOUS
<1>2. /\ Tail(s) \in Seq(S)
      /\ Len(Tail(s)) = 4 - 1
      /\ \A i \in 1 .. Len(Tail(s)) : Tail(s)[i] = s[i + 1]
  BY <1>1, HeadTailProperties
<1>3. 4 - 1 = 3 /\ 3 + 1 = 4
  OBVIOUS
<1>4. /\ Append(Tail(s), b) \in Seq(S)
      /\ Len(Append(Tail(s), b)) = Len(Tail(s)) + 1
      /\ Append(Tail(s), b)[Len(Tail(s)) + 1] = b
      /\ \A i \in 1 .. Len(Tail(s)) : Append(Tail(s), b)[i] = Tail(s)[i]
  <2> DEFINE t == Tail(s)
  <2>1. t \in Seq(S)
    BY <1>2
  <2> HIDE DEF t
  <2>2. /\ Append(t, b) \in Seq(S)
        /\ Len(Append(t, b)) = Len(t) + 1
        /\ Append(t, b)[Len(t) + 1] = b
        /\ \A i \in 1 .. Len(t) : Append(t, b)[i] = t[i]
    BY <2>1, AppendProperties
  <2> QED
    BY <2>2 DEF t
<1>5. Len(Tail(s)) = 3
  BY <1>2, <1>3
<1>6. \A i \in 1 .. 3 : Tail(s)[i] = s[i + 1]
  BY <1>2, <1>5
<1>7. \A i \in 1 .. 3 : Append(Tail(s), b)[i] = Tail(s)[i]
  BY <1>4, <1>5
<1>8. Append(Tail(s), b)[4] = b /\ Len(Append(Tail(s), b)) = 4
  BY <1>3, <1>4, <1>5
<1> QED
  BY <1>4, <1>6, <1>7, <1>8

\* Every byte that Packet_Get receives is a byte.
LEMMA ReceivedBytes ==
  ASSUME TypeOK, NEW b \in Byte
  PROVE  Received(b) \in [0 .. 4 -> Byte]
BY DEF TypeOK, Received

\* The three ways a byte is taken keep the types and the window.
LEMMA GetStep ==
  ASSUME TypeOK, PacketsAreWindows, NEW b \in Byte, Packet_Get(b)
  PROVE  /\ packet' \in [0 .. 4 -> Byte] /\ count' \in 0 .. 4
         /\ Packet' \in [1 .. 5 -> Byte]
         /\ pc' \in {"get", "handle"}
         /\ last' \in Seq(Byte)
         /\ UNCHANGED <<Mode, written, answers>>
         /\ PacketsAreWindows'
<1> DEFINE p == Received(b)
<1>1. p \in [0 .. 4 -> Byte] /\ p[count] = b
  BY ReceivedBytes DEF Received, TypeOK
<1>2. \A i \in 1 .. count : packet[i - 1] = last[i]
  BY DEF Packet_Get, PacketsAreWindows
<1>0. pc = "get" /\ Len(last) = count /\ last \in Seq(Byte)
  BY DEF Packet_Get, PacketsAreWindows, TypeOK
<1>a. /\ Append(last, b) \in Seq(Byte)
      /\ Len(Append(last, b)) = count + 1
      /\ Append(last, b)[count + 1] = b
      /\ \A i \in 1 .. count : Append(last, b)[i] = last[i]
  BY <1>0, AppendByte
<1>3. CASE Fill(b)
  <2>1. /\ count \in 0 .. 3 /\ count' = count + 1 /\ packet' = p
        /\ last' = Append(last, b)
        /\ UNCHANGED <<Packet, Mode, written, answers, pc>>
    BY <1>3 DEF Fill, TypeOK, effects
  <2>2. last' \in Seq(Byte) /\ Len(last') = count' /\ last'[count'] = b
    BY <2>1, <1>a
  <2>3. ASSUME NEW i \in 1 .. count'
        PROVE  packet'[i - 1] = last'[i]
    <3>1. CASE i = count'
      <4>1. i - 1 = count
        BY <2>1, <3>1
      <4> QED
        BY <1>1, <2>1, <2>2, <3>1, <4>1
    <3>2. CASE i # count'
      <4>1. i \in 1 .. count /\ i - 1 # count /\ i - 1 \in 0 .. 4
        BY <2>1, <3>2
      <4>2. packet'[i - 1] = packet[i - 1]
        BY <2>1, <4>1 DEF Received, TypeOK
      <4>3. last'[i] = last[i]
        BY <2>1, <4>1, <1>a
      <4> QED
        BY <1>2, <4>1, <4>2, <4>3
    <3> QED
      BY <3>1, <3>2
  <2>4. PacketsAreWindows'
    BY <1>0, <2>1, <2>2, <2>3 DEF PacketsAreWindows
  <2> QED
    BY <1>1, <2>1, <2>2, <2>4 DEF TypeOK
<1>4. CASE Complete(b)
  <2>1. /\ count = 4 /\ count' = 0 /\ packet' = p
        /\ Packet' = [i \in 1 .. 5 |-> p[i - 1]]
        /\ pc' = "handle" /\ last' = Append(last, b)
        /\ UNCHANGED <<Mode, written, answers>>
    BY <1>4 DEF Complete
  <2>2. last' \in Seq(Byte) /\ Len(last') = 5 /\ last'[5] = b
    BY <2>1, <1>a
  <2>3. Packet' \in [1 .. 5 -> Byte]
    BY <1>1, <2>1
  <2>4. ASSUME NEW i \in 1 .. 5
        PROVE  Packet'[i] = last'[i]
    <3>1. CASE i = 5
      BY <1>1, <2>1, <2>2, <3>1
    <3>2. CASE i # 5
      <4>1. i \in 1 .. 4 /\ i - 1 # 4 /\ i - 1 \in 0 .. 4
        BY <3>2
      <4>2. Packet'[i] = packet[i - 1]
        BY <2>1, <4>1 DEF Received, TypeOK
      <4>3. last'[i] = last[i]
        BY <2>1, <4>1, <1>a
      <4> QED
        BY <1>2, <2>1, <4>1, <4>2, <4>3
    <3> QED
      BY <3>1, <3>2
  <2>5. Packet' = last'
    BY <2>2, <2>3, <2>4
  <2>6. PacketsAreWindows'
    BY <2>1, <2>5 DEF PacketsAreWindows
  <2> QED
    BY <1>1, <2>1, <2>2, <2>3, <2>6
<1>5. CASE Drop(b)
  <2>1. /\ count = 4 /\ count' = 4
        /\ packet' = [i \in 0 .. 4 |-> IF i < 4 THEN p[i + 1] ELSE b]
        /\ last' = Append(Tail(last), b)
        /\ UNCHANGED <<Packet, Mode, written, answers, pc>>
    BY <1>5 DEF Drop, effects
  <2>2. Len(last) = 4
    BY <1>0, <2>1
  <2>3. last' \in Seq(Byte) /\ Len(last') = 4 /\ last'[4] = b
    BY <1>0, <2>1, <2>2, WindowMoves
  <2>4. packet' \in [0 .. 4 -> Byte]
    BY <1>1, <2>1
  <2>5. ASSUME NEW i \in 1 .. 4
        PROVE  packet'[i - 1] = last'[i]
    <3>1. packet'[i - 1] = p[i]
      BY <2>1
    <3>2. CASE i = 4
      BY <1>1, <2>1, <2>3, <3>1, <3>2
    <3>3. CASE i # 4
      <4>1. i \in 1 .. 3 /\ i + 1 \in 1 .. 4
        BY <3>3
      <4>2. p[i] = packet[i]
        BY <2>1, <4>1 DEF Received, TypeOK
      <4>3. last'[i] = last[i + 1]
        BY <1>0, <2>1, <2>2, <4>1, WindowMoves
      <4>4. packet[(i + 1) - 1] = last[i + 1]
        BY <1>2, <2>1, <4>1
      <4> QED
        BY <3>1, <4>1, <4>2, <4>3, <4>4
    <3> QED
      BY <3>2, <3>3
  <2>6. PacketsAreWindows'
    BY <1>0, <2>1, <2>3, <2>5 DEF PacketsAreWindows
  <2> QED
    BY <1>0, <2>1, <2>3, <2>4, <2>6 DEF TypeOK
<1> QED
  BY <1>3, <1>4, <1>5 DEF Packet_Get

\* A packet that is put in answer.
Answer == [1 .. 5 -> Byte]

\* The constants of the protocol are bytes, and 0, 1 and 2 are not the same.
LEMMA ConstantBytes ==
  /\ Zero \in Byte /\ One \in Byte /\ Two \in Byte
  /\ COMMAND_TIMING_MODE \in Byte /\ COMMAND_NB_RAISES \in Byte /\ COMMAND_NB_LOWERS \in Byte
  /\ One # Zero /\ Two # Zero /\ One # Two
<1>1. Zero \in Byte /\ One \in Byte /\ Two \in Byte
  BY DEF Byte, Zero, One, Two
<1>2. /\ COMMAND_TIMING_MODE \in Byte /\ COMMAND_NB_RAISES \in Byte
      /\ COMMAND_NB_LOWERS \in Byte
  BY DEF Byte, COMMAND_TIMING_MODE, COMMAND_NB_RAISES, COMMAND_NB_LOWERS
<1>3. 0 \in One /\ 0 \notin Zero /\ 0 \notin Two /\ 1 \in Two /\ 1 \notin Zero
  BY DEF Zero, One, Two
<1> QED
  BY <1>1, <1>2, <1>3

\* The packets that a command may put are packets of bytes.
LEMMA PutBytes ==
  /\ <<>> \in Seq(Answer)
  /\ SendTimingModePacket \in Seq(Answer)
  /\ SendNbRaisesPacket \in Seq(Answer)
  /\ SendNbLowersPacket \in Seq(Answer)
<1>1. ModeByte \in Byte /\ RaisesNb \in Byte /\ LowersNb \in Byte
  BY ConstantBytes DEF ModeByte, RaisesNb, LowersNb
<1>2. /\ Framed(COMMAND_TIMING_MODE, Zero, ModeByte, Zero) \in Answer
      /\ Framed(COMMAND_NB_RAISES, Zero, RaisesNb, Zero) \in Answer
      /\ Framed(COMMAND_NB_LOWERS, Zero, LowersNb, Zero) \in Answer
  BY <1>1, ConstantBytes, FramedBytes DEF Answer
<1>3. \A a \in Answer : <<a>> \in Seq(Answer)
  OBVIOUS
<1>4. <<>> \in Seq(Answer)
  OBVIOUS
<1> QED
  BY <1>2, <1>3, <1>4 DEF SendTimingModePacket, SendNbRaisesPacket, SendNbLowersPacket

\* The end of HandlePacket leaves packets of bytes.
LEMMA AcknowledgeBytes ==
  ASSUME TypeOK, NEW puts \in Seq(Answer), NEW success, Acknowledge(puts, success)
  PROVE  Packet' \in Answer /\ answers' \in Seq(Answer)
<1>1. Packet \in Answer
  BY DEF TypeOK, Answer
<1>2. CASE AckRequested
  <2> DEFINE c == IF success THEN Packet[1] ELSE Command
  <2>1. c \in Byte
    BY <1>1 DEF Command, Byte, Answer
  <2>2. /\ Packet' = [Packet EXCEPT ![1] = c]
        /\ answers' = Append(puts, Framed(c, Packet[2], Packet[3], Packet[4]))
    BY <1>2 DEF Acknowledge
  <2>3. Framed(c, Packet[2], Packet[3], Packet[4]) \in Answer
    BY <1>1, <2>1, FramedBytes DEF Answer
  <2> HIDE DEF c
  <2>4. Packet' \in Answer
    BY <1>1, <2>1, <2>2 DEF Answer
  <2>5. answers' \in Seq(Answer)
    BY <2>2, <2>3, AppendProperties
  <2> QED
    BY <2>4, <2>5
<1>3. CASE ~ AckRequested
  BY <1>1, <1>3 DEF Acknowledge
<1> QED
  BY <1>2, <1>3

\* HandlePacket keeps the types.
LEMMA HandleStep ==
  ASSUME TypeOK, HandlePacket
  PROVE  TypeOK'
<1> USE PutBytes
<1>1. PICK success \in BOOLEAN :
        \/ HandleTimingCommand(success)
        \/ HandleCountCommand(success, COMMAND_NB_RAISES, RaisesNb, SendNbRaisesPacket)
        \/ HandleCountCommand(success, COMMAND_NB_LOWERS, LowersNb, SendNbLowersPacket)
        \/ HandleOtherCommand(success)
  BY DEF HandlePacket
<1>2. /\ Packet' \in Answer /\ answers' \in Seq(Answer)
      /\ Mode' \in {"DEFINITE", "INVERSE"}
      /\ written' \subseteq {RaisesNb, LowersNb}
  <2>1. CASE HandleTimingCommand(success)
    <3>1. \E puts \in Seq(Answer) : Acknowledge(puts, success)
      BY <2>1 DEF HandleTimingCommand
    <3>2. Packet' \in Answer /\ answers' \in Seq(Answer)
      BY <3>1, AcknowledgeBytes
    <3> QED
      BY <2>1, <3>2 DEF HandleTimingCommand, TypeOK
  <2>2. CASE HandleCountCommand(success, COMMAND_NB_RAISES, RaisesNb, SendNbRaisesPacket)
    <3>1. \E puts \in Seq(Answer) : Acknowledge(puts, success)
      BY <2>2 DEF HandleCountCommand
    <3>2. Packet' \in Answer /\ answers' \in Seq(Answer)
      BY <3>1, AcknowledgeBytes
    <3> QED
      BY <2>2, <3>2 DEF HandleCountCommand, TypeOK
  <2>3. CASE HandleCountCommand(success, COMMAND_NB_LOWERS, LowersNb, SendNbLowersPacket)
    <3>1. \E puts \in Seq(Answer) : Acknowledge(puts, success)
      BY <2>3 DEF HandleCountCommand
    <3>2. Packet' \in Answer /\ answers' \in Seq(Answer)
      BY <3>1, AcknowledgeBytes
    <3> QED
      BY <2>3, <3>2 DEF HandleCountCommand, TypeOK
  <2>4. CASE HandleOtherCommand(success)
    <3>1. \E puts \in Seq(Answer) : Acknowledge(puts, success)
      BY <2>4 DEF HandleOtherCommand
    <3>2. Packet' \in Answer /\ answers' \in Seq(Answer)
      BY <3>1, AcknowledgeBytes
    <3> QED
      BY <2>4, <3>2 DEF HandleOtherCommand, TypeOK
  <2> QED
    BY <1>1, <2>1, <2>2, <2>3, <2>4
<1>3. /\ pc' = "get" /\ last' = <<>>
      /\ UNCHANGED <<packet, count, request, position, noise, wanted>>
  BY DEF HandlePacket, decoder, line
<1>4. last' \in Seq(Byte)
  BY <1>3
<1> QED
  BY <1>2, <1>3, <1>4 DEF TypeOK, Answer

\* A byte of a request is sent: the PC goes on to the next one.
LEMMA SentStep ==
  ASSUME TypeOK, NEW r \in Requests, Sent(r)
  PROVE  /\ request' \in Requests /\ position' \in 0 .. 4
         /\ wanted' \in {"DEFINITE", "INVERSE"}
         /\ r[position + 1] \in Byte
<1>1. position \in 0 .. 4 /\ position' = (position + 1) % 5
  BY DEF TypeOK, Sent
<1>2. position' \in 0 .. 4 /\ position + 1 \in 1 .. 5
  BY <1>1
<1>3. r[position + 1] \in Byte
  BY <1>2, RequestBytes
<1>4. wanted' \in {"DEFINITE", "INVERSE"}
  BY DEF Sent, Asked, TypeOK
<1> QED
  BY <1>2, <1>3, <1>4 DEF Sent

\* What every step of the PC and the line comes to.
LEMMA TypeStep ==
  ASSUME TypeOK, PacketsAreWindows, [Next]_vars
  PROVE  TypeOK' /\ PacketsAreWindows'
<1>1. ASSUME NEW b \in Byte, Packet_Get(b),
             request' \in Requests, position' \in 0 .. 4, noise' \in 0 .. MaxNoise,
             wanted' \in {"DEFINITE", "INVERSE"}
      PROVE  TypeOK' /\ PacketsAreWindows'
  BY <1>1, GetStep DEF TypeOK
<1>2. ASSUME Failing
      PROVE  noise' \in 0 .. MaxNoise
  BY <1>2, NoiseAssumption DEF Failing, TypeOK
<1>3. ASSUME NEW r \in Requests, Arrives(r)
      PROVE  TypeOK' /\ PacketsAreWindows'
  BY <1>1, <1>3, SentStep DEF Arrives, TypeOK
<1>4. ASSUME NEW r \in Requests, Lost(r)
      PROVE  TypeOK' /\ PacketsAreWindows'
  <2>1. UNCHANGED <<packet, count, Packet, Mode, written, answers, pc, last>>
    BY <1>4 DEF Lost, decoder, effects
  <2> QED
    BY <1>2, <1>4, <2>1, SentStep DEF Lost, TypeOK, PacketsAreWindows
<1>5. ASSUME NEW r \in Requests, NEW b \in NoiseBytes, Changed(r, b)
      PROVE  TypeOK' /\ PacketsAreWindows'
  BY <1>1, <1>2, <1>5, SentStep, NoiseAssumption DEF Changed
<1>6. ASSUME NEW b \in NoiseBytes, Stray(b)
      PROVE  TypeOK' /\ PacketsAreWindows'
  BY <1>1, <1>2, <1>6, NoiseAssumption DEF Stray, TypeOK
<1>7. CASE HandlePacket
  <2>1. /\ pc' = "get" /\ last' = <<>> /\ count' = 0
    BY <1>7 DEF HandlePacket, decoder, PacketsAreWindows
  <2>2. PacketsAreWindows'
    BY <2>1 DEF PacketsAreWindows
  <2> QED
    BY <1>7, <2>2, HandleStep
<1>8. CASE UNCHANGED vars
  BY <1>8 DEF vars, decoder, effects, line, TypeOK, PacketsAreWindows
<1> QED
  BY <1>3, <1>4, <1>5, <1>6, <1>7, <1>8 DEF Next

\* Every packet is five bytes that were received in a row, each in no other
\* packet: all of the bytes, noise and window moves, for ever.
THEOREM PacketsAreWindowsHolds == Spec => [](TypeOK /\ PacketsAreWindows)
<1>1. Init => TypeOK /\ PacketsAreWindows
  <2> SUFFICES ASSUME Init PROVE TypeOK /\ PacketsAreWindows
    OBVIOUS
  <2>1. /\ <<Zero, Zero, Zero, Zero, Zero>> \in [1 .. 5 -> Byte]
        /\ Zero \in Byte
    BY ConstantBytes, FiveBytes
  <2>2. /\ packet \in [0 .. 4 -> Byte] /\ count = 0 /\ Packet \in [1 .. 5 -> Byte]
        /\ Mode = "DEFINITE" /\ wanted = "DEFINITE" /\ written = {}
        /\ pc = "get" /\ request \in Requests /\ position = 0
        /\ noise = 0 /\ last = <<>> /\ answers = <<>>
    BY <2>1 DEF Init
  <2>3. last \in Seq(Byte) /\ answers \in Seq([1 .. 5 -> Byte]) /\ Len(last) = 0
    BY <2>2
  <2>4. TypeOK
    BY <2>2, <2>3, NoiseAssumption DEF TypeOK
  <2> QED
    BY <2>2, <2>3, <2>4 DEF PacketsAreWindows
<1>2. TypeOK /\ PacketsAreWindows /\ [Next]_vars => (TypeOK /\ PacketsAreWindows)'
  BY TypeStep
<1> QED
  BY <1>1, <1>2, PTL DEF Spec

\* The window of Packet_Get stays in its array, and everything else has its
\* type.
THEOREM TypeCorrect == Spec => []TypeOK
BY PacketsAreWindowsHolds, PTL

\* Packet_Get never turns down a correct packet, for all bytes.
THEOREM ValidNeverRejectedHolds == Spec => ValidNeverRejected
<1>1. ASSUME TypeOK, PacketsAreWindows, [Next]_vars,
             pc = "get", count = 4, last' # last,
             Valid([packet EXCEPT ![4] = last'[Len(last')]])
      PROVE  pc' = "handle"
  <2>1. PICK b \in Byte : Packet_Get(b)
    <3>1. ASSUME NEW r \in Requests
          PROVE  r[position + 1] \in Byte
      BY <1>1, RequestBytes DEF TypeOK
    <3> QED
      BY <1>1, <3>1, NoiseAssumption
         DEF Next, vars, Arrives, Lost, Changed, Stray, HandlePacket
  <2>2. Len(last) = 4 /\ last \in Seq(Byte)
    BY <1>1 DEF PacketsAreWindows, TypeOK
  <2>3. CASE Complete(b)
    BY <2>3 DEF Complete
  <2>4. CASE Drop(b)
    <3>1. last' = Append(Tail(last), b)
      BY <2>4 DEF Drop
    <3>2. last'[Len(last')] = b
      BY <2>2, <3>1, WindowMoves
    <3>3. Valid(Received(b))
      BY <1>1, <3>2 DEF Received
    <3> QED
      BY <2>4, <3>3, ValidIsAccepted DEF Drop
  <2> QED
    BY <1>1, <2>1, <2>3, <2>4 DEF Packet_Get, Fill
<1>2. TypeOK /\ PacketsAreWindows /\ [Next]_vars
        => [pc = "get" /\ count = 4 /\ last' # last
              /\ Valid([packet EXCEPT ![4] = last'[Len(last')]])
            => pc' = "handle"]_vars
  BY <1>1
<1> QED
  BY <1>2, PacketsAreWindowsHolds, PTL DEF Spec, ValidNeverRejected

-----------------------------------------------------------------------------
\* Packet_Get counts the bytes of the packets as the PC does: its window is the
\* beginning of the packet being sent.
InStep ==
    /\ pc = "get" => /\ position = count
                     /\ \A i \in 1 .. count : packet[i - 1] = request[i]
    /\ pc = "handle" => position = 0 /\ Packet = request

\* HandlesWhatWasSent says that this is so before the line has failed.
LEMMA SentIsInStep == HandlesWhatWasSent <=> (noise = 0 => InStep)
BY DEF HandlesWhatWasSent, InStep

\* The byte that arrives next as it was sent, whatever came before.
LEMMA ArrivalStep ==
  ASSUME TypeOK, PacketsAreWindows, InStep, NEW r \in Requests, Arrives(r)
  PROVE  /\ InStep'
         /\ pc' = "handle" <=> position = 4
<1>1. /\ pc = "get" /\ position = count /\ position \in 0 .. 4 /\ count \in 0 .. 4
      /\ \A i \in 1 .. count : packet[i - 1] = request[i]
      /\ request' = r /\ position' = (position + 1) % 5
      /\ (position # 0 => r = request)
  BY DEF Arrives, Sent, Sending, Packet_Get, InStep, TypeOK
<1> DEFINE b == r[position + 1]
           p == Received(b)
<1>2. b \in Byte /\ r \in [1 .. 5 -> Byte]
  BY <1>1, RequestBytes
<1>3. p \in [0 .. 4 -> Byte]
  BY <1>2, ReceivedBytes
<1>4. ASSUME NEW i \in 1 .. position + 1
      PROVE  p[i - 1] = r[i]
  <2>1. CASE i = position + 1
    BY <1>1, <1>2, <2>1 DEF Received, TypeOK
  <2>2. CASE i # position + 1
    <3>1. i \in 1 .. count /\ i - 1 # count /\ i - 1 \in 0 .. 4 /\ position # 0
      BY <1>1, <2>2
    <3>2. p[i - 1] = packet[i - 1]
      BY <3>1 DEF Received, TypeOK
    <3> QED
      BY <1>1, <3>1, <3>2
  <2> QED
    BY <2>1, <2>2
<1>5. CASE Fill(b)
  <2>1. /\ count < 4 /\ count' = count + 1 /\ packet' = p /\ pc' = "get"
    BY <1>1, <1>5 DEF Fill
  <2>2. position' = count'
    BY <1>1, <2>1
  <2>3. \A i \in 1 .. count' : packet'[i - 1] = request'[i]
    BY <1>1, <1>4, <2>1
  <2> QED
    BY <1>1, <2>1, <2>2, <2>3 DEF InStep
<1>6. CASE Complete(b)
  <2>1. /\ count = 4 /\ pc' = "handle" /\ Packet' = [i \in 1 .. 5 |-> p[i - 1]]
    BY <1>6 DEF Complete
  <2>2. position' = 0
    BY <1>1, <2>1
  <2>3. \A i \in 1 .. 5 : Packet'[i] = r[i]
    BY <1>1, <1>4, <2>1
  <2>4. Packet' = r
    BY <1>2, <2>1, <2>3
  <2> QED
    BY <1>1, <2>1, <2>2, <2>4 DEF InStep
<1>7. CASE Drop(b)
  <2>1. count = 4
    BY <1>7 DEF Drop
  <2>2. p[0] = r[1] /\ p[1] = r[2] /\ p[2] = r[3] /\ p[3] = r[4] /\ p[4] = r[5]
    BY <1>1, <1>4, <2>1
  <2>3. r[5] = Xor(Xor(Xor(r[1], r[2]), r[3]), r[4])
    BY RequestBytes
  <2>4. Valid(p)
    BY <2>2, <2>3 DEF Valid
  <2> QED
    BY <1>7, <2>4, ValidIsAccepted DEF Drop
<1> QED
  BY <1>1, <1>5, <1>6, <1>7 DEF Arrives, Packet_Get

\* Every step without a failure of the line keeps Packet_Get in step.
LEMMA StepInStep ==
  ASSUME TypeOK, PacketsAreWindows, InStep, [Next]_vars, noise' = noise
  PROVE  InStep'
<1>1. CASE \E r \in Requests : Arrives(r)
  BY <1>1, ArrivalStep
<1>2. ~ Failing
  BY DEF Failing, TypeOK
<1>3. CASE HandlePacket
  <2>1. /\ pc = "handle" /\ pc' = "get" /\ count' = count /\ count = 0
        /\ position' = position
    BY <1>3 DEF HandlePacket, decoder, line, PacketsAreWindows
  <2> QED
    BY <2>1 DEF InStep
<1>4. CASE UNCHANGED vars
  BY <1>4 DEF vars, decoder, effects, line, InStep
<1> QED
  BY <1>1, <1>2, <1>3, <1>4 DEF Next, Lost, Changed, Stray

\* The line fails no more than it has failed.
LEMMA NoiseGrows ==
  ASSUME TypeOK, [Next]_vars
  PROVE  noise' = noise \/ noise' = noise + 1
BY DEF Next, vars, line, Failing, Arrives, Lost, Changed, Stray, HandlePacket

\* Every step keeps what arrives in step with what was sent.
LEMMA SentStays ==
  ASSUME TypeOK, PacketsAreWindows, HandlesWhatWasSent, [Next]_vars
  PROVE  HandlesWhatWasSent'
<1>1. noise' = 0 => noise = 0
  BY NoiseGrows DEF TypeOK
<1> QED
  BY <1>1, StepInStep, SentIsInStep DEF InStep, HandlesWhatWasSent

\* On a line that has not failed the packets handled are those that were sent,
\* for all bytes the PC may send.
THEOREM HandlesWhatWasSentHolds == Spec => []HandlesWhatWasSent
<1>1. Init => HandlesWhatWasSent
  BY DEF Init, HandlesWhatWasSent
<1>2. TypeOK /\ PacketsAreWindows /\ HandlesWhatWasSent /\ [Next]_vars
        => HandlesWhatWasSent'
  BY SentStays
<1> QED
  BY <1>1, <1>2, PacketsAreWindowsHolds, PTL DEF Spec

\* After any number of failures, once Packet_Get is in step again with the PC it
\* stays so, and handles every packet as it was sent, until the line fails again.
THEOREM StaysInStep ==
  ASSUME NEW n \in Nat
  PROVE  Spec => [](noise = n /\ InStep => [](noise = n => InStep))
<1> DEFINE J == noise >= n /\ (noise = n => InStep)
<1>1. TypeOK /\ noise = n /\ InStep => J
  OBVIOUS
<1>2. TypeOK /\ PacketsAreWindows /\ J /\ [Next]_vars => J'
  <2> SUFFICES ASSUME TypeOK, PacketsAreWindows, J, [Next]_vars PROVE J'
    OBVIOUS
  <2>1. noise \in Nat /\ (noise' = noise \/ noise' = noise + 1)
    BY NoiseGrows, NoiseAssumption DEF TypeOK
  <2>2. noise' = n => noise = n /\ noise' = noise
    BY <2>1
  <2> QED
    BY <2>1, <2>2, StepInStep
<1>3. J => (noise = n => InStep)
  OBVIOUS
<1> HIDE DEF J
<1> QED
  BY <1>1, <1>2, <1>3, PacketsAreWindowsHolds, PTL DEF Spec

\* How many bytes Packet_Get is behind the PC, up to whole packets.
Behind == (position - count) % 5

\* The turn of the loop that drops the oldest byte.
TurnsDown == pc = "get" /\ count = 4 /\ pc' = "get" /\ position' # position

\* Nothing but a window that is turned down brings Packet_Get back: as long as the
\* windows pass the test it stays as many bytes behind as the last failure of the
\* line has left it, each window turned down moves it on by one byte, and no
\* window is turned down unless its three parameters add up to 0 or 1.
THEOREM OnlyRejectionsRealign ==
  Spec => [][noise' = noise =>
              IF TurnsDown
              THEN /\ Behind' = (Behind + 1) % 5
                   /\ Xor(Xor(packet[1], packet[2]), packet[3]) \in {Zero, One}
              ELSE Behind' = Behind]_vars
<1>1. ASSUME TypeOK, PacketsAreWindows, [Next]_vars, noise' = noise
      PROVE  IF TurnsDown
             THEN /\ Behind' = (Behind + 1) % 5
                  /\ Xor(Xor(packet[1], packet[2]), packet[3]) \in {Zero, One}
             ELSE Behind' = Behind
  <2> USE <1>1
  <2>1. position \in 0 .. 4 /\ count \in 0 .. 4 /\ noise \in Nat
    BY NoiseAssumption DEF TypeOK
  <2>2. ASSUME NEW r \in Requests, Arrives(r)
        PROVE  IF TurnsDown
               THEN /\ Behind' = (Behind + 1) % 5
                    /\ Xor(Xor(packet[1], packet[2]), packet[3]) \in {Zero, One}
               ELSE Behind' = Behind
    <3> DEFINE b == r[position + 1]
    <3>1. pc = "get" /\ position' = (position + 1) % 5
      BY <2>2 DEF Arrives, Sent, Packet_Get
    <3>2. CASE Fill(b)
      <4>1. count < 4 /\ count' = count + 1
        BY <3>2 DEF Fill
      <4>2. ~ TurnsDown
        BY <4>1 DEF TurnsDown
      <4> QED
        BY <2>1, <3>1, <4>1, <4>2 DEF Behind
    <3>3. CASE Complete(b)
      <4>1. count = 4 /\ count' = 0 /\ pc' = "handle"
        BY <3>3 DEF Complete
      <4>2. ~ TurnsDown
        BY <4>1 DEF TurnsDown
      <4> QED
        BY <2>1, <3>1, <4>1, <4>2 DEF Behind
    <3>4. CASE Drop(b)
      <4>1. count = 4 /\ count' = 4 /\ ~ Accepts(Received(b))
        BY <3>4 DEF Drop
      <4>2. Behind' = (Behind + 1) % 5
        BY <2>1, <3>1, <4>1 DEF Behind
      <4>3. /\ Received(b)[1] = packet[1] /\ Received(b)[2] = packet[2]
            /\ Received(b)[3] = packet[3]
        BY <4>1 DEF Received, TypeOK
      <4>4. Xor(Xor(packet[1], packet[2]), packet[3]) \in {Zero, One}
        <5> DEFINE truth == Truth(Received(b)[4] = Received(b)[0])
        <5>1. Xor(Xor(Xor(truth, packet[1]), packet[2]), packet[3]) = {}
          BY <4>1, <4>3 DEF Accepts, Zero
        <5>2. truth \in {Zero, One}
          BY DEF Truth
        <5> HIDE DEF truth
        <5>3. Xor(Xor(packet[1], packet[2]), packet[3]) = truth
          BY <5>1 DEF Xor
        <5> QED
          BY <5>2, <5>3
      <4>5. TurnsDown
        <5>1. pc' = "get" /\ position' # position
          BY <2>1, <3>1, <3>4 DEF Drop, effects
        <5> QED
          BY <3>1, <4>1, <5>1 DEF TurnsDown
      <4> QED
        BY <4>2, <4>4, <4>5
    <3> QED
      BY <2>2, <3>2, <3>3, <3>4 DEF Arrives, Packet_Get
  <2>3. ~ Failing
    BY <2>1 DEF Failing
  <2>4. CASE HandlePacket
    BY <2>4 DEF HandlePacket, decoder, line, Behind, TurnsDown
  <2>5. CASE UNCHANGED vars
    BY <2>5 DEF vars, decoder, line, Behind, TurnsDown
  <2> QED
    BY <2>2, <2>3, <2>4, <2>5 DEF Next, Lost, Changed, Stray
<1> QED
  BY <1>1, PacketsAreWindowsHolds, PTL DEF Spec

\* The mode that packet p sets, when the mode is m.
SetBy(p, m) ==
  IF p[1] \ PACKET_ACK_MASK = COMMAND_TIMING_MODE /\ p[2] = One THEN "DEFINITE"
  ELSE IF p[1] \ PACKET_ACK_MASK = COMMAND_TIMING_MODE /\ p[2] = Two THEN "INVERSE"
  ELSE m

\* While a packet is being handled, the mode asked for is the one that the
\* packet is going to set.
ModeInv ==
  noise = 0 =>
    /\ pc = "get" => Mode = wanted
    /\ pc = "handle" => wanted = SetBy(request, Mode)

\* What the PC asks for with a packet is what the packet sets.
LEMMA AskedIsSet ==
  ASSUME NEW r
  PROVE  Asked(r) = SetBy(r, wanted)
BY ConstantBytes DEF Asked, SetBy

\* What HandlePacket does to the mode.
LEMMA HandleSetsMode ==
  ASSUME TypeOK, HandlePacket
  PROVE  Mode' = SetBy(Packet, Mode)
<1>1. PICK success \in BOOLEAN :
        \/ HandleTimingCommand(success)
        \/ HandleCountCommand(success, COMMAND_NB_RAISES, RaisesNb, SendNbRaisesPacket)
        \/ HandleCountCommand(success, COMMAND_NB_LOWERS, LowersNb, SendNbLowersPacket)
        \/ HandleOtherCommand(success)
  BY DEF HandlePacket
<1>2. CASE HandleTimingCommand(success)
  <2>1. CASE IsGet
    BY <1>2, <2>1, ConstantBytes DEF HandleTimingCommand, SetBy, Command, IsGet
  <2>2. CASE ~ IsGet
    BY <1>2, <2>2, ConstantBytes DEF HandleTimingCommand, SetBy, Command
  <2> QED
    BY <2>1, <2>2
<1>3. CASE Command # COMMAND_TIMING_MODE /\ Mode' = Mode
  BY <1>3 DEF SetBy, Command
<1>4. /\ COMMAND_NB_RAISES # COMMAND_TIMING_MODE
      /\ COMMAND_NB_LOWERS # COMMAND_TIMING_MODE
  <2>1. 0 \in COMMAND_NB_RAISES /\ 0 \notin COMMAND_TIMING_MODE /\ 1 \in COMMAND_NB_LOWERS
        /\ 1 \notin COMMAND_TIMING_MODE
    BY DEF COMMAND_NB_RAISES, COMMAND_NB_LOWERS, COMMAND_TIMING_MODE
  <2> QED
    BY <2>1
<1> QED
  BY <1>1, <1>2, <1>3, <1>4 DEF HandleCountCommand, HandleOtherCommand

\* Every step keeps the mode in step with what the PC has asked for.
LEMMA ModeStep ==
  ASSUME TypeOK, PacketsAreWindows, HandlesWhatWasSent, ModeInv, [Next]_vars
  PROVE  ModeInv'
<1>1. ASSUME noise = 0, NEW r \in Requests, Arrives(r)
      PROVE  ModeInv'
  <2>1. pc' = "handle" <=> position = 4
    BY <1>1, ArrivalStep, SentIsInStep
  <2>2. /\ pc = "get" /\ Mode' = Mode /\ Mode = wanted
        /\ request' = r /\ wanted' = IF position = 4 THEN Asked(r) ELSE wanted
    <3>1. r[position + 1] \in Byte
      BY <1>1, SentStep DEF Arrives
    <3> QED
      BY <1>1, <3>1, GetStep DEF Arrives, Sent, Packet_Get, ModeInv
  <2>3. CASE position = 4
    BY <2>1, <2>2, <2>3, AskedIsSet DEF ModeInv, SetBy
  <2>4. CASE position # 4
    BY <2>1, <2>2, <2>4 DEF ModeInv
  <2> QED
    BY <2>3, <2>4
<1>2. CASE noise # 0 /\ \E r \in Requests : Arrives(r)
  BY <1>2 DEF Arrives, ModeInv
<1>3. CASE Failing
  BY <1>3 DEF Failing, ModeInv, TypeOK
<1>4. CASE HandlePacket
  <2>1. /\ pc = "handle" /\ pc' = "get" /\ noise' = noise /\ wanted' = wanted
    BY <1>4 DEF HandlePacket, line
  <2>2. noise = 0 => Packet = request
    BY <2>1 DEF HandlesWhatWasSent
  <2> QED
    BY <1>4, <2>1, <2>2, HandleSetsMode DEF ModeInv
<1>5. CASE UNCHANGED vars
  BY <1>5 DEF vars, decoder, effects, line, ModeInv, SetBy
<1> QED
  BY <1>1, <1>2, <1>3, <1>4, <1>5 DEF Next, Lost, Changed, Stray

\* The invariant about the mode holds in every state.
LEMMA ModeInvHolds == Spec => []ModeInv
<1>1. Init => ModeInv
  BY DEF Init, ModeInv
<1>2. TypeOK /\ PacketsAreWindows /\ HandlesWhatWasSent /\ ModeInv /\ [Next]_vars
        => ModeInv'
  BY ModeStep
<1> QED
  BY <1>1, <1>2, PacketsAreWindowsHolds, HandlesWhatWasSentHolds, PTL DEF Spec

\* On a line that has not failed the mode between two packets is the one the PC
\* asked for last.
THEOREM ModeIsAsWantedHolds == Spec => []ModeIsAsWanted
<1>1. ModeInv => ModeIsAsWanted
  BY DEF ModeInv, ModeIsAsWanted
<1> QED
  BY <1>1, ModeInvHolds, PTL

\* The commands are different ones.
LEMMA DifferentCommands ==
  /\ COMMAND_TIMING_MODE \notin Counts
  /\ COMMAND_NB_RAISES # COMMAND_NB_LOWERS
  /\ {COMMAND_FREQUENCY, COMMAND_VOLTAGE, COMMAND_SPECTRUM}
       \cap (Counts \cup {COMMAND_TIMING_MODE}) = {}
<1> USE DEF Counts, COMMAND_TIMING_MODE, COMMAND_NB_RAISES, COMMAND_NB_LOWERS,
            COMMAND_FREQUENCY, COMMAND_VOLTAGE, COMMAND_SPECTRUM
<1>1. /\ 0 \in COMMAND_NB_RAISES /\ 0 \notin COMMAND_NB_LOWERS /\ 1 \in COMMAND_NB_LOWERS
      /\ 0 \notin COMMAND_TIMING_MODE /\ 1 \notin COMMAND_TIMING_MODE
  OBVIOUS
<1>2. \A c \in {COMMAND_FREQUENCY, COMMAND_VOLTAGE, COMMAND_SPECTRUM} :
        3 \in c \/ 2 \in c
  OBVIOUS
<1>3. \A c \in Counts \cup {COMMAND_TIMING_MODE} : 3 \notin c /\ 2 \notin c
  OBVIOUS
<1> HIDE DEF Counts, COMMAND_TIMING_MODE, COMMAND_NB_RAISES, COMMAND_NB_LOWERS,
            COMMAND_FREQUENCY, COMMAND_VOLTAGE, COMMAND_SPECTRUM
<1>4. COMMAND_TIMING_MODE \notin Counts
  BY <1>1 DEF Counts
<1> QED
  BY <1>1, <1>2, <1>3, <1>4

\* A command puts the value that it reads, and what it returns is settled unless
\* it returns nothing.
LEMMA HandlePuts ==
  ASSUME HandlePacket, wanted = Mode \/ ~ IsGet \/ Command # COMMAND_TIMING_MODE
  PROVE  \E success \in BOOLEAN :
           /\ Acknowledge(Values(Packet), success)
           /\ ReturnsNothing(Packet) \/ (success <=> Executes(Packet))
<1>1. PICK success \in BOOLEAN :
        \/ HandleTimingCommand(success)
        \/ HandleCountCommand(success, COMMAND_NB_RAISES, RaisesNb, SendNbRaisesPacket)
        \/ HandleCountCommand(success, COMMAND_NB_LOWERS, LowersNb, SendNbLowersPacket)
        \/ HandleOtherCommand(success)
  BY DEF HandlePacket
<1>2. CommandOf(Packet) = Command /\ (Reads(Packet) <=> IsGet)
  BY DEF CommandOf, Command, Reads, IsGet
<1>3. /\ ~ IsGet => Values(Packet) = <<>>
      /\ Command \notin Counts \cup {COMMAND_TIMING_MODE} => Values(Packet) = <<>>
      /\ IsGet /\ Command \in Counts => Values(Packet) = <<Framed(Command, Zero, Zero, Zero)>>
  BY <1>2, DifferentCommands DEF Values
<1>4. CASE HandleTimingCommand(success)
  <2>1. Command = COMMAND_TIMING_MODE /\ Executes(Packet)
    BY <1>2, <1>4 DEF HandleTimingCommand, Executes
  <2>2. CASE IsGet
    <3>1. Acknowledge(SendTimingModePacket, success) /\ success
      BY <1>4, <2>2 DEF HandleTimingCommand
    <3>2. Values(Packet)
            = <<Framed(Command, Zero, IF wanted = "DEFINITE" THEN Zero ELSE One, Zero)>>
      BY <1>2, <2>1, <2>2, DifferentCommands DEF Values
    <3>3. Values(Packet) = SendTimingModePacket
      BY <2>1, <2>2, <3>2 DEF SendTimingModePacket, ModeByte
    <3> QED
      BY <2>1, <3>1, <3>3
  <2>3. CASE ~ IsGet
    <3>1. Acknowledge(<<>>, success) /\ ReturnsNothing(Packet)
      BY <1>2, <1>4, <2>1, <2>3 DEF HandleTimingCommand, ReturnsNothing
    <3> QED
      BY <1>3, <2>3, <3>1
  <2> QED
    BY <2>2, <2>3
<1>5. ASSUME NEW command \in Counts, NEW pointer,
             HandleCountCommand(success, command, pointer, <<Framed(command, Zero, Zero, Zero)>>)
      PROVE  /\ Acknowledge(Values(Packet), success)
             /\ ReturnsNothing(Packet) \/ (success <=> Executes(Packet))
  <2>1. Command = command /\ Executes(Packet)
    BY <1>2, <1>5 DEF HandleCountCommand, Executes
  <2>2. CASE IsGet
    BY <1>3, <1>5, <2>1, <2>2 DEF HandleCountCommand, IsGet
  <2>3. CASE ~ IsGet /\ Packet[2] = Zero
    BY <1>3, <1>5, <2>1, <2>3 DEF HandleCountCommand
  <2>4. CASE Packet[2] # Zero
    <3>1. ReturnsNothing(Packet) /\ ~ IsGet
      BY <1>2, <2>1, <2>4 DEF ReturnsNothing, IsGet
    <3> QED
      BY <1>3, <1>5, <2>4, <3>1 DEF HandleCountCommand
  <2> QED
    BY <2>2, <2>3, <2>4
<1>6. CASE HandleCountCommand(success, COMMAND_NB_RAISES, RaisesNb, SendNbRaisesPacket)
  <2>1. SendNbRaisesPacket = <<Framed(COMMAND_NB_RAISES, Zero, Zero, Zero)>>
    BY DEF SendNbRaisesPacket, RaisesNb
  <2> QED
    BY <1>5, <1>6, <2>1 DEF Counts
<1>7. CASE HandleCountCommand(success, COMMAND_NB_LOWERS, LowersNb, SendNbLowersPacket)
  <2>1. SendNbLowersPacket = <<Framed(COMMAND_NB_LOWERS, Zero, Zero, Zero)>>
    BY DEF SendNbLowersPacket, LowersNb
  <2> QED
    BY <1>5, <1>7, <2>1 DEF Counts
<1>8. CASE HandleOtherCommand(success)
  <2>1. /\ Command \notin Counts \cup {COMMAND_TIMING_MODE}
        /\ Acknowledge(<<>>, success)
        /\ success = (Command \in {COMMAND_FREQUENCY, COMMAND_VOLTAGE, COMMAND_SPECTRUM})
    BY <1>8 DEF HandleOtherCommand, Counts
  <2>2. success <=> Executes(Packet)
    BY <1>2, <2>1 DEF Executes
  <2> QED
    BY <1>3, <2>1, <2>2
<1> QED
  BY <1>1, <1>4, <1>6, <1>7, <1>8

\* On a line that has not failed every request gets its own answers and no others,
\* for all bytes the PC may send.
THEOREM RequestIsAnsweredHolds == Spec => RequestIsAnswered
<1> DEFINE Answered ==
             IF PACKET_ACK_MASK \subseteq request[1]
             THEN \E c \in Confirmations(request) :
                     answers' = Append(Values(request),
                                       Framed(c, request[2], request[3], request[4]))
             ELSE answers' = Values(request)
<1>1. ASSUME TypeOK, HandlesWhatWasSent, ModeInv, [Next]_vars,
             noise = 0, pc = "handle", pc' = "get"
      PROVE  Answered
  <2>1. HandlePacket
    BY <1>1 DEF Next, vars, Arrives, Lost, Changed, Stray, Packet_Get
  <2>2. Packet = request /\ wanted = SetBy(request, Mode)
    BY <1>1 DEF HandlesWhatWasSent, ModeInv
  <2>3. wanted = Mode \/ ~ IsGet
    BY <2>2, ConstantBytes DEF SetBy, IsGet
  <2>4. PICK success \in BOOLEAN :
          /\ Acknowledge(Values(request), success)
          /\ ReturnsNothing(request) \/ (success <=> Executes(request))
    BY <2>1, <2>2, <2>3, HandlePuts
  <2>5. CASE AckRequested
    <3> DEFINE c == IF success THEN Packet[1] ELSE Command
    <3>1. answers' = Append(Values(request), Framed(c, request[2], request[3], request[4]))
      BY <2>2, <2>4, <2>5 DEF Acknowledge
    <3>2. c \in {request[1], CommandOf(request)} /\ (c = request[1] <=> success)
      BY <2>2, <2>5 DEF Command, CommandOf, AckRequested, PACKET_ACK_MASK
    <3>3. c \in Confirmations(request)
      BY <2>4, <3>2 DEF Confirmations
    <3>4. PACKET_ACK_MASK \subseteq request[1]
      BY <2>2, <2>5 DEF AckRequested
    <3> QED
      BY <3>1, <3>3, <3>4
  <2>6. CASE ~ AckRequested
    BY <2>2, <2>4, <2>6 DEF Acknowledge, AckRequested
  <2> QED
    BY <2>5, <2>6
<1>2. TypeOK /\ HandlesWhatWasSent /\ ModeInv /\ [Next]_vars
        => [noise = 0 /\ pc = "handle" /\ pc' = "get" => Answered]_vars
  BY <1>1
<1> QED
  BY <1>2, PacketsAreWindowsHolds, HandlesWhatWasSentHolds, ModeInvHolds, PTL
     DEF Spec, RequestIsAnswered
=============================================================================
