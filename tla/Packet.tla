------------------------------- MODULE Packet -------------------------------
(***************************************************************************)
(* packet.c and handle.c: how the packet thread makes packets of five      *)
(* bytes out of what the serial line brings, and what each command does.   *)
(* The PC sends packets one after the other; the line may lose a byte,     *)
(* change one, or add one that was never sent.  The UART, RxFIFO and the   *)
(* wait for Packet_ByteReady, which only delay the bytes, are the subject  *)
(* of module Serial: here a byte that arrives is the next one UART_InChar  *)
(* returns.                                                                *)
(*                                                                         *)
(* A byte is the set of its bits that are 1.                               *)
(***************************************************************************)
EXTENDS Integers, Sequences

CONSTANTS
    Commands,       \* the command bytes the PC sends
    Parameters1,    \* its first parameters
    Parameters2,    \* its second parameters
    Parameters3,    \* its third parameters
    NoiseBytes,     \* the bytes that noise may bring
    MaxNoise        \* how many times the line fails

Byte == SUBSET (0 .. 7)

ASSUME CommandAssumption == Commands \subseteq Byte /\ Commands # {}
ASSUME ParameterAssumption ==
    /\ Parameters1 \subseteq Byte /\ Parameters1 # {}
    /\ Parameters2 \subseteq Byte /\ Parameters2 # {}
    /\ Parameters3 \subseteq Byte /\ Parameters3 # {}
ASSUME NoiseAssumption == NoiseBytes \subseteq Byte /\ MaxNoise \in Nat

Xor(a, b) == (a \ b) \cup (b \ a)

\* The five bytes that Packet_Put sends for a command and its parameters.
Framed(c, p1, p2, p3) == <<c, p1, p2, p3, Xor(Xor(Xor(c, p1), p2), p3)>>

Requests ==
    {Framed(c, p1, p2, p3) :
        c \in Commands, p1 \in Parameters1, p2 \in Parameters2, p3 \in Parameters3}

PACKET_ACK_MASK == {7}
COMMAND_TIMING_MODE == {4}
COMMAND_NB_RAISES == {0, 4}
COMMAND_NB_LOWERS == {1, 4}
COMMAND_FREQUENCY == {0, 1, 2, 4}
COMMAND_VOLTAGE == {3, 4}
COMMAND_SPECTRUM == {0, 3, 4}

\* The byte values 0 to 2, and the pointers that nobody ever assigns.
Zero == {}
One == {0}
Two == {1}
RaisesNb == Zero
LowersNb == Zero

VARIABLES
    packet, count,  \* the statics of Packet_Get
    Packet,         \* the global packet: its five bytes
    Mode,           \* the timing mode
    written,        \* the addresses that Flash_Write16 was called with
    pc,             \* the packet thread: in Packet_Get, or in HandlePacket
    request,        \* the packet the PC is sending
    position,       \* how many bytes of it are sent
    noise,          \* how many times the line has failed
    last,           \* history: the bytes received since the latest packet, at
                    \* most the five that Packet_Get looks at
    answers,        \* history: the packets put for the latest packet
    wanted          \* history: the mode that the PC has asked for

decoder == <<packet, count>>
line == <<request, position, noise>>
effects == <<Packet, Mode, written, answers>>
vars == <<decoder, effects, pc, line, last, wanted>>

Init ==
    /\ packet = [i \in 0 .. 4 |-> Zero] /\ count = 0
    /\ Packet = <<Zero, Zero, Zero, Zero, Zero>>
    /\ Mode = "DEFINITE"
    /\ written = {}
    /\ pc = "get"
    /\ request \in Requests /\ position = 0
    /\ noise = 0
    /\ last = <<>> /\ answers = <<>> /\ wanted = "DEFINITE"

-----------------------------------------------------------------------------
\* The value of a comparison: 1 or 0.
Truth(condition) == IF condition THEN One ELSE Zero

\* A packet as it should be: the checksum is the exclusive or of the others.
Valid(p) == p[4] = Xor(Xor(Xor(p[0], p[1]), p[2]), p[3])

\* MUTANT of Accepts: the sum over all five bytes, with the sense of the code.
AcceptsNonzeroSum(p) ==
    Xor(Xor(Xor(Xor(p[4], p[0]), p[1]), p[2]), p[3]) # Zero

\* The test of Packet_Get.  In C the comparison binds more tightly than the
\* exclusive or.
Accepts(p) == Xor(Xor(Xor(Truth(p[4] = p[0]), p[1]), p[2]), p[3]) # Zero

\* packet after UART_InChar(&packet[count]) has received b.
Received(b) == [packet EXCEPT ![count] = b]

\* One of the first four bytes.
Fill(b) ==
    /\ count < 4
    /\ packet' = Received(b) /\ count' = count + 1
    /\ last' = Append(last, b)
    /\ UNCHANGED <<effects, pc>>

\* MUTANT of Complete: count is not reset.
CompleteKeepsCount(b) ==
    /\ count = 4 /\ Accepts(Received(b))
    /\ packet' = Received(b) /\ UNCHANGED count
    /\ Packet' = [i \in 1 .. 5 |-> packet'[i - 1]]
    /\ pc' = "handle"
    /\ last' = Append(last, b)
    /\ UNCHANGED <<Mode, written, answers>>

\* The fifth byte, and the test holds: Packet_Get returns.
Complete(b) ==
    /\ count = 4 /\ Accepts(Received(b))
    /\ packet' = Received(b) /\ count' = 0
    /\ Packet' = [i \in 1 .. 5 |-> packet'[i - 1]]
    /\ pc' = "handle"
    /\ last' = Append(last, b)
    /\ UNCHANGED <<Mode, written, answers>>

\* MUTANT of Drop: count-- is forgotten, and count++ leads past the array.
DropCountsOn(b) ==
    /\ count = 4 /\ ~ Accepts(Received(b))
    /\ packet' = [i \in 0 .. 4 |-> IF i < 4 THEN Received(b)[i + 1] ELSE b]
    /\ count' = count + 1
    /\ last' = Append(Tail(last), b)
    /\ UNCHANGED <<effects, pc>>

\* The fifth byte, and the test fails: the oldest byte is dropped.  count-- and
\* count++ leave count as it is.
Drop(b) ==
    /\ count = 4 /\ ~ Accepts(Received(b))
    /\ packet' = [i \in 0 .. 4 |-> IF i < 4 THEN Received(b)[i + 1] ELSE b]
    /\ last' = Append(Tail(last), b)
    /\ UNCHANGED <<count, effects, pc>>

\* One turn of the loop of Packet_Get.
Packet_Get(b) == pc = "get" /\ (Fill(b) \/ Complete(b) \/ Drop(b))

-----------------------------------------------------------------------------
\* The PC sends the bytes of one request after the other.
Sending(r) == IF position = 0 THEN r \in Requests ELSE r = request

\* The mode asked for by a request.
Asked(r) ==
    CASE r[1] \ PACKET_ACK_MASK = COMMAND_TIMING_MODE /\ r[2] = One -> "DEFINITE"
      [] r[1] \ PACKET_ACK_MASK = COMMAND_TIMING_MODE /\ r[2] = Two -> "INVERSE"
      [] OTHER -> wanted

Sent(r) ==
    /\ Sending(r)
    /\ request' = r
    /\ position' = (position + 1) % 5
    /\ wanted' = IF position = 4 THEN Asked(r) ELSE wanted

\* The next byte arrives as it was sent.
Arrives(r) ==
    /\ Sent(r)
    /\ Packet_Get(r[position + 1])
    /\ UNCHANGED noise

Failing == noise < MaxNoise /\ noise' = noise + 1

\* The next byte is lost.
Lost(r) ==
    /\ Failing
    /\ pc = "get"
    /\ Sent(r)
    /\ UNCHANGED <<decoder, effects, pc, last>>

\* The next byte arrives as another one.
Changed(r, b) == Failing /\ Sent(r) /\ Packet_Get(b)

\* A byte arrives that was not sent.
Stray(b) == Failing /\ Packet_Get(b) /\ UNCHANGED <<request, position, wanted>>

-----------------------------------------------------------------------------
\* HandlePacket, for the packet in the global Packet.
AckRequested == PACKET_ACK_MASK \subseteq Packet[1]
Command == Packet[1] \ PACKET_ACK_MASK
IsGet == Packet[2] = Zero /\ Packet[3] = Zero /\ Packet[4] = Zero

\* MUTANT of Acknowledge: a command that failed is not acknowledged at all.
AcknowledgeSuccessOnly(puts, success) ==
    IF AckRequested /\ success
    THEN LET c == IF success THEN Packet[1] ELSE Command IN
         /\ Packet' = [Packet EXCEPT ![1] = c]
         /\ answers' = Append(puts, Framed(c, Packet[2], Packet[3], Packet[4]))
    ELSE answers' = puts /\ UNCHANGED Packet

\* The end of HandlePacket, after the command has put the packets puts: if an
\* acknowledgement was asked for, the packet goes back, with the acknowledge
\* bit when the command succeeded and without it when it failed.
Acknowledge(puts, success) ==
    IF AckRequested
    THEN LET c == IF success THEN Packet[1] ELSE Command IN
         /\ Packet' = [Packet EXCEPT ![1] = c]
         /\ answers' = Append(puts, Framed(c, Packet[2], Packet[3], Packet[4]))
    ELSE answers' = puts /\ UNCHANGED Packet

ModeByte == IF Mode = "DEFINITE" THEN Zero ELSE One

SendTimingModePacket == <<Framed(COMMAND_TIMING_MODE, Zero, ModeByte, Zero)>>
SendNbRaisesPacket == <<Framed(COMMAND_NB_RAISES, Zero, RaisesNb, Zero)>>
SendNbLowersPacket == <<Framed(COMMAND_NB_LOWERS, Zero, LowersNb, Zero)>>

\* MUTANT of HandleTimingCommand: the case of the definite mode falls through.
TimingFallsThrough(success) ==
    /\ Command = COMMAND_TIMING_MODE
    /\ \/ /\ IsGet /\ success
          /\ Acknowledge(SendTimingModePacket, success)
          /\ UNCHANGED Mode
       \/ /\ ~ IsGet
          /\ Mode' = IF Packet[2] \in {One, Two} THEN "INVERSE" ELSE Mode
          /\ Acknowledge(<<>>, success)
    /\ UNCHANGED written

\* The function returns a value for a request to get the mode only: otherwise
\* packetSuccess is whatever the caller finds.
HandleTimingCommand(success) ==
    /\ Command = COMMAND_TIMING_MODE
    /\ \/ /\ IsGet /\ success
          /\ Acknowledge(SendTimingModePacket, success)
          /\ UNCHANGED Mode
       \/ /\ ~ IsGet
          /\ Mode' = CASE Packet[2] = One -> "DEFINITE"
                       [] Packet[2] = Two -> "INVERSE"
                       [] OTHER -> Mode
          /\ Acknowledge(<<>>, success)
    /\ UNCHANGED written

\* HandleNbRaisesCommand and HandleNbLowersCommand.  A first parameter of 0,
\* which is PARAMETER2_NB_RAISES_RESET, resets the count; any other leaves
\* packetSuccess open.
HandleCountCommand(success, command, pointer, puts) ==
    /\ Command = command
    /\ \/ /\ IsGet /\ success
          /\ Acknowledge(puts, success)
          /\ UNCHANGED written
       \/ /\ ~ IsGet /\ Packet[2] = Zero /\ success
          /\ Acknowledge(<<>>, success)
          /\ written' = written \cup {pointer}
       \/ /\ Packet[2] # Zero
          /\ Acknowledge(<<>>, success)
          /\ UNCHANGED written
    /\ UNCHANGED Mode

\* The three commands that do nothing, and the commands that there are not.
HandleOtherCommand(success) ==
    /\ Command \notin {COMMAND_TIMING_MODE, COMMAND_NB_RAISES, COMMAND_NB_LOWERS}
    /\ success = (Command \in {COMMAND_FREQUENCY, COMMAND_VOLTAGE, COMMAND_SPECTRUM})
    /\ Acknowledge(<<>>, success)
    /\ UNCHANGED <<Mode, written>>

HandlePacket ==
    /\ pc = "handle"
    /\ \E success \in BOOLEAN :
        \/ HandleTimingCommand(success)
        \/ HandleCountCommand(success, COMMAND_NB_RAISES, RaisesNb, SendNbRaisesPacket)
        \/ HandleCountCommand(success, COMMAND_NB_LOWERS, LowersNb, SendNbLowersPacket)
        \/ HandleOtherCommand(success)
    /\ pc' = "get"
    /\ last' = <<>>
    /\ UNCHANGED <<decoder, line, wanted>>

Next ==
    \/ \E r \in Requests :
        \/ Arrives(r)
        \/ Lost(r)
        \/ \E b \in NoiseBytes : Changed(r, b)
    \/ \E b \in NoiseBytes : Stray(b)
    \/ HandlePacket

Spec == Init /\ [][Next]_vars

-----------------------------------------------------------------------------
\* The type invariant.
TypeOK ==
    /\ packet \in [0 .. 4 -> Byte] /\ count \in 0 .. 4
    /\ Packet \in [1 .. 5 -> Byte]
    /\ Mode \in {"DEFINITE", "INVERSE"} /\ wanted \in {"DEFINITE", "INVERSE"}
    /\ written \subseteq {RaisesNb, LowersNb}
    /\ pc \in {"get", "handle"}
    /\ request \in Requests /\ position \in 0 .. 4
    /\ noise \in 0 .. MaxNoise
    /\ last \in Seq(Byte)
    /\ answers \in Seq([1 .. 5 -> Byte])

\* A packet is five bytes that were received one after the other, each of which
\* belongs to no other packet, however often the window has moved on over bytes
\* that failed the test.
PacketsAreWindows ==
    /\ pc = "get" => /\ count = Len(last)
                     /\ \A i \in 1 .. count : packet[i - 1] = last[i]
    /\ pc = "handle" => count = 0 /\ Packet = last

\* The odd test of Packet_Get never turns down five bytes that are a correct
\* packet, wherever the window stands.
ValidNeverRejected ==
    [][pc = "get" /\ count = 4 /\ last' # last /\ Valid([packet EXCEPT ![4] = last'[Len(last')]])
        => pc' = "handle"]_vars

\* As long as the line has not failed, what is handled is what was sent, once
\* and in order.
HandlesWhatWasSent ==
    noise = 0 =>
        /\ pc = "get" => /\ position = count
                         /\ \A i \in 1 .. count : packet[i - 1] = request[i]
        /\ pc = "handle" => position = 0 /\ Packet = request

\* As long as the line has not failed, the mode between two packets is the one
\* that the PC asked for last.
ModeIsAsWanted == noise = 0 /\ pc = "get" => Mode = wanted

\* What the PC may expect of a request: for a read of the mode or of a count a
\* packet with the value, ...
CommandOf(r) == r[1] \ PACKET_ACK_MASK
Reads(r) == r[2] = Zero /\ r[3] = Zero /\ r[4] = Zero
Counts == {COMMAND_NB_RAISES, COMMAND_NB_LOWERS}

Values(r) ==
    CASE Reads(r) /\ CommandOf(r) = COMMAND_TIMING_MODE ->
            <<Framed(CommandOf(r), Zero, IF wanted = "DEFINITE" THEN Zero ELSE One, Zero)>>
      [] Reads(r) /\ CommandOf(r) \in Counts -> <<Framed(CommandOf(r), Zero, Zero, Zero)>>
      [] OTHER -> <<>>

\* ... and in a confirmation the acknowledge bit, if the command is one that there
\* is.  When the mode is set, or a count command has another first parameter than
\* 0, the functions of handle.c return nothing, and the bit is open.
Executes(r) ==
    CommandOf(r) \in Counts
        \cup {COMMAND_TIMING_MODE, COMMAND_FREQUENCY, COMMAND_VOLTAGE, COMMAND_SPECTRUM}

ReturnsNothing(r) ==
    \/ CommandOf(r) = COMMAND_TIMING_MODE /\ ~ Reads(r)
    \/ CommandOf(r) \in Counts /\ r[2] # Zero

Confirmations(r) ==
    {c \in {r[1], CommandOf(r)} : ReturnsNothing(r) \/ (c = r[1] <=> Executes(r))}

\* As long as the line has not failed, a request gets its own answers and no
\* others, in this order: the value it reads, the mode being the one that the PC
\* asked for last; and, if it asks for one, a confirmation of success or failure
\* with its own command and parameters, which is open where HandleTimingCommand
\* and the count commands return nothing.
RequestIsAnswered ==
    [][noise = 0 /\ pc = "handle" /\ pc' = "get" =>
        IF PACKET_ACK_MASK \subseteq request[1]
        THEN \E c \in Confirmations(request) :
                answers' = Append(Values(request), Framed(c, request[2], request[3], request[4]))
        ELSE answers' = Values(request)]_vars
=============================================================================
