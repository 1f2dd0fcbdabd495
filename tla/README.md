# The voltage regulating relay in TLA+

The program is the firmware of a voltage regulating relay on a Freescale K70
tower board: three analog channels are sampled by a periodic timer, the RMS
voltage of each is compared with a band of 2 V to 3 V, and a channel out of band
raises an alarm and, after a time, a request to raise or lower the voltage on
the output lines. A PC sets the timing mode by packets over a serial port. The
threads run under a small binary RTOS with strict priorities. There are no
tests; the program's own code is `src/Sources`, the kernel and the converters
are binary libraries with headers in `src/Library`.

## Inventory

| component | state | operations | talks to |
|---|---|---|---|
| RTOS kernel (`Library/OS.h`, `libOS.a`) | count and wait list of each semaphore, ready list | OS_SemaphoreCreate/Wait/Signal, OS_ThreadCreate/Delete, OS_ISREnter/Exit | everything below |
| FIFO (`FIFO.c`) | Start, End, Buffer, two semaphores | FIFO_Init, FIFO_Put, FIFO_Get | UART threads and packet thread |
| UART (`UART.c`) | RxFIFO, TxFIFO, RxByte, ByteReceived, TransmitReady, the interrupt enables | UART_ISR, receive thread (priority 1), transmit thread (7), UART_InChar, UART_OutChar | interrupt, FIFO, Packet_ByteReady |
| packets (`packet.c`) | the bytes of the packet being received, their count | Packet_Get, Packet_Put | UART |
| packet handler (`handle.c`) | timing Mode, pointers to the counts in flash | packet thread (9), one function per command | packets, Mode, Flash |
| sampling (`main.c`) | sampleArray, sampleCount | Sample_Thread (2) | PIT_ISR by semaphore, RMS thread, alarm threads |
| RMS and limits (`main.c`, `RMS.c`, `VRR.c`) | RMS and flags of each channel | RMS_CalcThread (3) | output lines, alarm and output threads |
| alarm timing (`main.c`) | raiseRequest, lowerRequest, voltageAlarm | three Alarm_Threads (4, 5, 6) | Mode, RMS, output lines |
| outputs (`main.c`) | output lines, counts of raises and lowers | SignalOutput_Thread (8) | Analog, Flash |
| Flash (`Flash.c`) | map of used bytes, the flash phrase, the FCCOB registers | AllocateVar, Write8/16/32, Erase | output thread, packet handler |
| initialisation (`main.c`) | InitSuccess, the `hasInitialized` flags | InitModulesThread (0) | all modules |
| PIT (`PIT.c`) | timer registers | PIT_ISR, PIT_Init, PIT_Set | PITSemaphore |
| LEDs, frequency, spectrum | none that matters | register writes, a sign test, empty functions | - |
| Analog (`libAnalog.a`) | SPI bus | Analog_Get, Analog_Put | sampling, RMS, alarm and output threads |
| start-up, vectors, IO map | - | generated or vendored | - |

What is hard in it: every thread may be preempted anywhere by a more urgent one
or by an interrupt; the threads share the records of the channels, Mode, the
output lines and the device registers without locks; semaphores keep signals
that came early, so a woken thread may find the state of an earlier moment;
buffers and counters reach their limits; the flash is erased before it is
written. `PROJECT.json` lists each hazard at its line with the properties that
would catch it.

## Modules

    CountingSemaphore      what a semaphore promises         (abstract)
      ^ implemented by
    OS                     the kernel                         MCOS, OSProofs
      ^ instantiated by                   ByteQueue           (abstract)
      |                                     ^ implemented by
    Regulator  Serial --- both FIFOs are -> FIFO              FIFOProofs
    RegulatorProofs, SerialProofs
                 |
                 + implements               ByteLine            (abstract)

    NonVolatile            what the flash promises           (abstract)
      ^ implemented by
    Flash                  Flash.c, one caller                FlashProofs
    Tally                  its registers, two callers         TallyProofs

    Packet                 packet.c and handle.c              PacketProofs
    Startup                InitModulesThread                  StartupProofs

**OS.** A thread is its priority number. `OS_SemaphoreWait(t, s)` and
`OS_SemaphoreSignal(s)` are one step each, since the kernel runs them with
interrupts disabled; only the most urgent ready thread may wait. A signal has
three outcomes, as in the library: it is refused at the limit of the count,
added to the count, or handed to the most urgent waiter. The kernel has no
sources; the order of its tests was read from the library's code. `Next` is the
most general client.

**FIFO.** `FIFO_Put` and `FIFO_Get` are three steps each: wait, access, signal.
`queue` is a history variable, the bytes stored and not yet fetched.
`ByteQueue` is what the code keeps to: FIFO_SIZE - 1 bytes come out in order;
one more is let in, and then the next Get may return anything. That is less
than `FIFO.h` says, and the difference is the run `fifo_start`: `FreeSpace`
starts at FIFO_SIZE while the indices have FIFO_SIZE - 1 values, so the last
byte that is let in replaces the oldest one, and `Start` is no longer the
position of the oldest.

**Regulator.** The threads of `main.c`. `pc[t]` names the next step of thread
`t`; a step is as large as no preempting thread can tell. The two cases of the
`switch (Mode)` of `Alarm_Thread` run the same tests, so they share their
actions and `branch[c]` remembers which case it is; the definite case falls
through into the inverse one, as in the code. The loop conditions compare
with `5e-9` and with a quotient that truncates to 0, so the definite loop runs
once and the inverse loop only for a deviation of zero. RMS_Calculate adds to an
uninitialised variable: any reading of the constant `Readings` may come out.
The flags that the threads write and nobody reads, the LEDs, and the flash
bookkeeping of the output thread (module Tally) are left out.

**Serial.** `UART.c` with the packet thread as reader of RxFIFO and writer of
TxFIFO. The registers are `RDRF`, `RxData`, `TDRE`, `TIE`; the interrupt routine
works on the copy of them it took on entry, and no thread runs until it is
done, but the line may deliver or take a byte meanwhile. A device interrupt may
be delayed while a thread goes on, which includes the stretch at the start of
`Packet_Put` in which interrupts are disabled. `FIFO_Put`/`FIFO_Get` are
inlined at their callers and shown to be the steps of module FIFO by
refinement.

`Init` is the moment at which `UART_Init` enables the interrupts (`UART.c:83`).
`InitModulesThread`, the most urgent of all, goes on until it deletes itself
(`main.c:212`); until then bytes may arrive in any number, and each replaces
the one in `RxByte`, while the receive thread cannot run. After it, the line
leaves the receive thread, which nothing else can preempt, the time to go back
to sleep before the next byte. A byte that then arrives while RxFIFO is full and
that thread sleeps in `FIFO_Put` replaces the one in `RxByte` too: a byte is
lost, and the one that came later is stored once more in its place.

`ByteLine` is what the receive path as a whole keeps to. A byte that comes after the
initialisation (`started`) is got once and in order as long as no more than
FIFO_SIZE - 1 bytes wait; when more do, those that are not in RxFIFO yet may turn
into copies of the newest one. One that comes earlier, or finds the receiver
still holding one that did (`early`), may replace the byte before it.
The mapping joins the four places where a byte may be (`Outstanding`): RxFIFO,
the hands of `FIFO_Put`, `RxByte` as often as it is going to be put, and the
receiver.

**Packet.** The contents of packets, which Serial leaves out. A byte is the set of
its bits that are 1, so the checksum is a symmetric difference and the mask of
the acknowledgement a set difference. The PC sends packets of five bytes one
after the other; the line may lose a byte, change one, or add one, `MaxNoise`
times. `Packet_Get` fills its window of five and moves it on by one after a
failed test; the test is the code's, in which `==` binds tighter than `^`.
`HandlePacket` has one definition per command, and the answers it puts are kept
as history. Where a function of `handle.c` reaches its end without a return, the
value its caller reads is open, and with it the acknowledge bit of the answer.

**Flash.** The map of used bytes, and a write as the code does it: `Flash_Write8`
widens to a half-word and calls `Flash_Write16`, which widens to a word and calls
`Flash_Write32`, which widens to a phrase and calls ModifyPhrase; that launches two
commands, `EraseSector` and `WritePhrase`, with `pc` between them. A byte is the
set of its bits that are 1, erasing sets all of them and programming intersects:
a phrase programmed without having been erased would come out wrong. `Reset`
comes between any two commands; a reset in the middle of a command, which leaves
undefined contents, is left out. A call that returns false changes nothing and is
no step. There is one caller at a time. Addresses are scaled: the data block at
0x80000 is the second of two phrases, the first stands for address 0, each in
a sector of its own.

`NonVolatile` is the promise: `Begin` fixes the memory as it will be after the write,
`Commit` makes it so at once, and a `Reset` in between leaves the write undone
or its sector erased. The mapping shows the old contents of a sector that
is erased and not yet programmed (the history variable `before`); nobody reads
the flash in between, because the call has not returned.

**Tally.** What module Flash leaves out: two callers. `SignalOutput_Thread` (8)
counts each request it shows, allocates one more byte for it and writes a
half-word there; the packet thread (9) resets a count through a pointer that is
never assigned. Both end in `LaunchCommand`, which waits for the flash, fills
the one set of FCCOB registers and launches. The output thread is the more
urgent of the two, so its steps from the first register to the launch are one,
while the packet thread may be preempted between any two registers. The same
registers then belong to two commands: what the packet thread launches may be
a mixture (`torn`). `stored` is the history of what the output thread wrote.
The block and the phrase at address 0 are each one phrase of half-words.

**Startup.** `InitModulesThread`, one step for each call that creates a
semaphore, enables an interrupt or may fail, and the two interrupts that arrive
meanwhile. `block[s]` is the event control block of a semaphore or NULL,
`hasInitialized` the static flags. Interrupts are disabled at its beginning,
but `UART_Init` enables them again. Whatever module fails in the first turn of
the loop, the later turns cannot succeed, because Packet_Init and LEDs_Init
return false after their first call; each turn takes more event control blocks,
until the pool is empty. The properties say what holds on that path too.

## Runs

| run | bounds | shows |
|---|---|---|
| `kernel` | 3 threads, 2 semaphores, counts up to 2 | TypeOK, NoSignalLost, OneHome, ImplementsCountingSemaphore |
| `fifo` | FIFO_SIZE 4, 3 byte values, fair | TypeOK, Accounting, ImplementsByteQueue, BlockedPutReturns |
| `fifo_start` | FIFO_SIZE 4, 3 byte values | **violated**: StartIsOldest |
| `regulator_two` | 2 channels, 2 readings, 1 sample per RMS voltage | AlarmOnlyWhenOut, RestingOutputsShowFlags, ChecksAreAnswered |
| `regulator_live` | 1 channel, 4 readings, 2 samples per RMS voltage, fair | TypeOK, RecoveryClears, RequestIsMade |
| `regulator_inverse` | 1 channel, a reading with deviation zero, fair | **violated**: InverseTimingGoesOn |
| `serial` | FIFO_SIZE 3, 1 byte value, packets of 2 bytes with up to 2 answers, counts up to 3, fair | TypeOK, NoTransmitOverrun, NoTransmitStall, TxImplementsFIFO, HeadIsSent |
| `serial_receive` | FIFO_SIZE 4, 2 byte values, packets of 2 bytes without answers, counts up to 4 | ReceivesInOrder, RxImplementsFIFO |
| `flash` | one bit per byte, writes at 2 addresses of the block, variables of 1, 2 and 4 bytes | TypeOK, AllocationsDisjoint, ImplementsNonVolatile |
| `packet` | 5 commands, 6 pairs of parameters, 2 noise bytes, 1 failure of the line | TypeOK, PacketsAreWindows, HandlesWhatWasSent, ModeIsAsWanted, ValidNeverRejected, RequestIsAnswered |
| `tally` | a block of 4 bytes, counts that wrap at 5, fair | TypeOK, OutputCommandsAreWhole, BlockHoldsStored, RaisesKnownToWithinOne, RegistersAreFree, WritesReturn |
| `startup` | 3 channels, 32 event control blocks, counts up to 2, fair | TypeOK, ThreadsFindSemaphores, InterruptsFindSemaphores, ThreadsStart |

Why the bounds suffice.

* *Kernel*: three threads give a wait list of two with a third one signalling.
* *FIFO*: the interesting cases are empty, full, one below full, and the wrap of
  either index; FIFO_SIZE 4 reaches them all with the putter or the getter
  asleep.
* *Regulator*: the code only compares a reading with the two limits and asks
  whether its deviation is zero, so one reading of a class stands for all of
  it: 6553 is below 6554 = 2 V, 7000 inside, 8192 inside with deviation zero,
  9832 above 9831 = 3 V. `MaxCount` 1 lets a semaphore keep a signal that came
  early and then saturate, where the program's would go on counting: more kept
  signals only repeat a pass. Two channels let alarm threads preempt each
  other. `Load` is "normal" in the runs: the PIT fires when the sampling and
  the RMS thread sleep, as it does while the passes are short against 1.25 ms;
  the theorems hold for "heavy" too, where it fires at any time.
* *Serial*: in `serial` a FIFO of two usable slots, packets of two bytes and up to
  two answers (`MaxAnswers`) fill both FIFOs and make every thread sleep at each
  of its waits. The data is one value there: TxFIFO carries what is put, and
  none of its properties asks which byte that is. `serial_receive` asks exactly
  that of the other direction, so it has two values of a byte, which tell a
  byte from a stale, repeated or later one, a FIFO of three usable slots, so
  that order and the wrap of the indices show, and packets that need no
  answer: the packet thread then never stops reading for ever, and the two
  directions share nothing but the interrupt routine. ReceivesInOrderHolds is
  proved for every set of bytes and any answers.
* *Flash*: the program's own eight bytes of data. The addresses 11 and 12 take
  every branch of the three write functions, upper and lower neighbour at each
  width. One bit per byte tells written, kept and erased bytes apart.
* *Packet*: the five commands are the timing mode, both counts, the voltage, and
  one that is unknown, with a request for an acknowledgement and without. The
  parameters ask for reading, setting and resetting, and for values that none of
  these have. One failure of the line puts the window out of step
  with the sender, from where it must find its way back.
* *Tally*: four bytes give two half-words, so that a write must copy its
  neighbour, with even and odd allocations, and the block is used up while
  both threads go on; the program's eight bytes and wrap at 256 only repeat it.
  The count wraps after the block is used up in both, which is the assumption
  CountAssumption.
* *Startup*: the program's own numbers. Failing turns use up the 32 blocks.

The violation runs are disagreements between the code and its own comments:

* `fifo_start`: `FIFO.h:25` calls `Start` "the index of the position of the oldest
  data in the FIFO", `FIFO.h:26` calls `End` that of "the next available empty
  position", and `FIFO.h:27` says that `FreeSpace` indicates "the amount of free
  space". FreeSpace starts at FIFO_SIZE for FIFO_SIZE - 1 slots: the last byte it
  admits is stored at `End = Start`, over the oldest, which is lost, and the next
  FIFO_Get returns the newest byte in its place.
* `regulator_inverse`: `main.c:203` says PITCountSemaphore signals the timer for
  definite and inverse timing. Nothing signals it, so an alarm thread that comes
  to wait for it (which takes a voltage that is in the middle of the band when the
  thread computes the deviation and out of it when it tests the limits) sleeps
  for ever. InverseTimingNeverGoesOn proves it for every reading and schedule.

Three more have no run of their own, because a theorem says more than a
counterexample would, or because the code leaves a value open:

* `handle.c:186` says that commands are initiated "if packet is valid". The test at
  `packet.c:52` is `checksum == a ^ b ^ c ^ d`, which compares the checksum with
  the first byte only and then takes the exclusive or with the others; it is
  nearly always true. ValidNeverRejected is the half of the promise that is kept.
  WrongChecksumPasses says which wrong packets pass: all whose three parameters
  do not cancel out, but for one checksum at most.
* `Flash.h:23` and `Flash.h:25` give the start and the end of the block used for
  data. The test for an address outside it (`Flash.c:245` and twice more) asks for
  below the start *and* above the end. OutOfBlockWrites: it refuses no address,
  and a write in front of the block, such as the one to address 0 where the
  packet handler's unassigned pointers lead (`handle.c:140`), erases and
  programs there.
* `handle.c:258` speaks of a "confirmation of success or failure". When the mode is
  set, or a count command has a first parameter other than 0, the functions
  return nothing (`handle.c:117`, `142`, `167`), and the acknowledge bit is
  whatever a register holds. RequestIsAnswered fixes the bit everywhere else
  and says of these cases that there is a confirmation.

## Fairness

Safety properties need none. `regulator_live` and `regulator_inverse` assume that
the PIT goes on firing (it is periodic and nothing disables it) and strong
fairness of each thread: a thread that is the most urgent ready one again and
again runs. Strong and not weak, because a thread is preempted again and again
while it has a step to take; justified, because the sampling period of 1.25 ms
is long against the passes of the more urgent threads. No packet need arrive.
RequestIsMade has one exception, in both timing modes: the channel whose alarm
thread has once met a deviation of zero (8192 is among the readings) waits for
PITCountSemaphore for ever, as `regulator_inverse` shows, and a voltage that
leaves the band later is never answered.
`serial` assumes that the transmitter sends what it is given, that the
interrupt routine runs, that the initialisation ends, and the same of the
threads as above; no byte need arrive. `serial_receive` has safety properties
only. `fifo`
assumes that a call that was made goes on and that the getter calls again.
`tally` assumes that the flash completes its commands, that the output thread
goes on while it is awake (weak: the only thread below it cannot disable its
steps, and those above do not use the flash), and strong fairness of the packet
thread, which runs while the other one sleeps. That the output thread sleeps
again and again is not assumed: every pass of RMS_CalcThread may leave it several
signals, and each of its passes may erase and program. WritesReturn says it as
a condition of its second half, the return of the packet thread's write; the
return of the output thread's own write needs no condition. `startup` assumes that the most urgent thread of all
goes on; it does not assume that a module succeeds.

## Proofs

Every safety property of a passing run, and every implementation of an abstract
specification, is also a theorem, for every value of the constants that
satisfies the named assumptions of the modules: threads are finitely many
naturals, counts start within their limit (OS); FIFO_SIZE is at least 2 (FIFO);
FIFO_SIZE at least 2, packets of at least one byte, and a limit of the counts
of at least FIFO_SIZE (Serial); one to three
channels and readings of type int16_t (Regulator); values, targets and sizes
are bytes, addresses and 1, 2 or 4 (Flash); bytes are sets of bits 0 to 7
(Packet); the block has an even number of bytes, fewer than the count has values
(Tally); one to three channels (Startup).

* `OSProofs`: TypeCorrect, OneHomeHolds, NoSignalLostHolds (the last from the
  invariant TypeOK, OneHome and NoSignalLost together) and
  KernelImplementsCountingSemaphore, which Regulator and Serial inherit (below). For the last one the abstract permits are
  the count less the number of waiters; two lemmas say how the cardinality of a
  wait list changes.
* `FIFOProofs`: TypeCorrect; AccountingHolds with TypeOK and the credit equations
  Credits, Items and Blocked as the inductive invariant (either equation alone
  says nothing of what a blocked thread is owed); NeverBothBlocked from it, that
  a putter and a getter are never blocked at the same time;
  RingHolds, that the buffer holds the queue but for the byte a full one has
  lost, for which the accounting bounds the length of the queue at each access;
  FIFOImplementsByteQueue from both.
* `SerialProofs`: TypeCorrect, NeverOverrun, NeverReceiveStall, NeverTransmitStall,
  RxIsFIFO, TxIsFIFO and, with the theorems of FIFOProofs under the refinement
  mapping, RxIsByteQueue and TxIsByteQueue. The inductive invariant has a part
  for each thing that must not go wrong between a test and its use: who sleeps
  for which semaphore (Sleeping), the two FIFOs with their credits (Pipes), the
  registers (Device), and for the hand-over of a byte to the device that the
  transmit thread has seen TDRE (SawEmpty), that a byte in RxByte has been
  announced (Announced), and that an interrupt is enabled again or on its way
  for every byte that waits (Rearmed, Due).
  ReceivesInOrderHolds, that the receive path implements ByteLine, takes each step
  to a step of ByteLine or to none (ReceiveMoves says what a step can do to the
  bytes under way). It rests on three more invariants: the interrupt routine
  only reads a byte that it has seen (Seen); a byte in the receiver while the
  initialisation runs came early (Early); and once it is over and no such byte
  is left (Started), a byte in the receiver that will replace another finds all
  the space of RxFIFO in use (Crowded). It rests on
  RingHolds for the byte that comes out of the buffer; and on lemmas about
  sequences joined end to end.
* `RegulatorProofs`: AlarmOnlyWhenOutHolds, TypeCorrect, OutputsShowFlags. The
  invariant must speak of the middle of a pass: of the channels RMS_CalcThread
  has already dealt with while it may only be preempted by the sampling thread,
  and of an alarm thread that has replaced the RMS voltage of its channel
  (PassInv). For the outputs it follows every flag of the last channel, which
  is announced by a signal, ahead of the output thread in its pass, just being
  shown, or already on its line (RestInv), and says who may wait for which
  semaphore (Sleeping). ChecksAreAnsweredHolds, that an alarm thread which sleeps
  until its channel is found out of band again has made the request the latest
  RMS voltage asks for, needs one more invariant (AnswerInv): a channel the RMS
  thread is done with in this pass (Done) and whose voltage it has found (Known)
  is attended to, by a signal that is kept, by an alarm thread that has yet to
  make the test which matters, or by the request itself. The two requests are
  made one after the other, so the thread may be past the one and ahead of the
  other (AmidTests). InverseTimingNeverGoesOn: nobody ever signals PITCountSemaphore, so a
  thread that waits for it stays there.
* *The kernel under its clients.* RegulatorRunsKernel and SerialRunsKernel show
  that every step of these modules is a step of OS or leaves its state alone, so
  the theorems of OSProofs hold of their semaphores: RegulatorSemaphoresCount and
  SerialSemaphoresCount are KernelImplementsCountingSemaphore under that
  substitution. What Regulator and Serial say of a semaphore is what the kernel
  promises, not a second version of it.
* `FlashProofs`: TypeCorrect; AllocationsDisjointHolds, with the invariant that every
  variable has marked all its bytes, since the next allocation only looks at
  the map; FlashImplementsNonVolatile. For the last, WidenedEffect says what one
  widening adds, WidenedPatched carries the bytes of the original call through
  the chain of three, and the invariant says that the phrase is still what it
  was before the erasure and blank after it, so that programming can set any
  byte. OutOfBlockWrites, of the range test, needs no invariant.
* `PacketProofs`: TypeCorrect, PacketsAreWindowsHolds, ValidNeverRejectedHolds,
  HandlesWhatWasSentHolds, ModeIsAsWantedHolds, RequestIsAnsweredHolds,
  WrongChecksumPasses. The window
  is the last bytes received, and while the line has not failed those are a
  prefix of the request; that a correct packet always passes the odd test is
  a lemma about the exclusive or. The invariant of HandlesWhatWasSent (InStep) does
  not mention how often the line has failed: StaysInStep takes it up after any
  number of failures, from the moment the window is at a packet's start again.
  OnlyRejectionsRealign is the other side: out of step (Behind), nothing but
  a window that is turned down moves it, by one byte, and that takes parameters
  which add up to 0 or 1. A PC that sends other parameters is misread
  until it does.
* `TallyProofs`: TypeCorrect, OutputCommandsAreWholeHolds, RegistersAreFreeHolds,
  BlockHoldsStoredHolds, RaisesKnown. The invariant says what the registers and
  the block hold at each place of the output thread, wherever the packet thread
  stands, as long as no torn command was launched.
* `StartupProofs`: TypeCorrect, SemaphoresFound, InterruptsSafe, the last two under
  PoolSuffices: the pool has a block for every semaphore of the program (17 for
  three channels; it has 32). The invariant says how far the creation has come,
  that blocks are given out once, and that an enabled interrupt has its
  semaphore unless failed turns have emptied the pool. PoolIsNeeded shows that
  the condition is exact: with a smaller pool every start that reaches the
  threads finds a semaphore missing. RetryNeverEnds, without any condition: once
  a module has failed, the initialisation never ends.

The theorems that state no property of a run are NeverBothBlocked,
RingHolds, NeverReceiveStall, InverseTimingNeverGoesOn, StaysInStep,
OnlyRejectionsRealign, WrongChecksumPasses, OutOfBlockWrites, RetryNeverEnds, PoolIsNeeded, those of
the kernel under its clients, and the two implementations of ByteQueue by the FIFOs
of UART.c. They carry the results of the runs from one module to another, or say when
a behaviour that a run shows can occur at all.

Only model-checked: liveness (BlockedPutReturns, RecoveryClears, RequestIsMade,
HeadIsSent, WritesReturn, ThreadsStart), because liveness under fairness is out of
the prover's reach, and the violation run `fifo_start`.

## Limits the properties are stated around

The code does these things, and the properties of the passing runs allow exactly
them. The first two are what becomes of the disagreement with `FIFO.h` that
`fifo_start` shows; of the others no document says that they should not be:

* a full FIFO replaces its oldest byte (ByteQueue);
* a byte that comes while RxFIFO is full is lost, or the one behind it comes out
  twice (Overrun in ByteLine); so is one that comes while the initialisation is
  still running and has another behind it; none is lost otherwise
  (ReceivesInOrder);
* when a voltage jumps from one side of the band to the other, the request of
  the old side stays until a reading inside the band clears it, so both may be
  shown at once: ChecksAreAnswered asks only for the one that is due;
* after a failure of the line, Packet_Get may read across packets for as long as
  no window is turned down (OnlyRejectionsRealign);
* a reset packet that the output thread preempts may launch a mixed flash
  command (`torn` in BlockHoldsStored and RaisesKnownToWithinOne);
* the counts of raises and lowers are written to a new byte each time, at every
  second one only, until the block is used up (RaisesKnownToWithinOne);
* after one failed module the initialisation never ends (ThreadsStart,
  RetryNeverEnds).

## Not modelled

* `Generated_Code`, `Static_Code` and the start-up code: generated or vendored;
  declarations of registers and types, the vector table, the clock set-up. They
  are nine tenths of the lines of the tree and have no behaviour of their own
  that the application's threads could disturb.
* `libAnalog.a`: a binary library. Its readings, its outputs and its failure at
  start appear in Regulator and Startup; what an SPI transfer does that a more
  urgent thread interrupts cannot be seen in this repository.
* The arithmetic on voltages beyond the comparisons: the value of an RMS
  voltage (its sum is not initialised, so any value may come out), the length of
  the inverse time (its test is always the same, see Regulator), and the
  length of the definite time, about which no document says what it should be.
* Frequency and spectrum: empty functions and a sign test that nobody calls; the
  LED functions, PIT_Set and PIT_Enable: register writes that keep no state;
  UART_Poll and VRR_CheckLimits, which nobody calls.
* Reading the counts back from flash after a restart: no statement does it.
* Timeouts of OS_SemaphoreWait and OS_TimeDelay, which the application does not
  use.
