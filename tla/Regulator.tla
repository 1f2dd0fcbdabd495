----------------------------- MODULE Regulator ------------------------------
(***************************************************************************)
(* The voltage regulating relay of main.c: the threads that sample the     *)
(* channels, compute their RMS voltage, time an alarm and drive the output *)
(* lines, under the kernel of module OS and interrupted by the PIT.        *)
(*                                                                         *)
(* A thread is its priority number.  Its pc names the step it takes when   *)
(* the kernel runs it; a step is what cannot be told apart by whoever may  *)
(* preempt the thread, so two reads of a variable that a more urgent       *)
(* thread writes are two steps.                                            *)
(*                                                                         *)
(* Left out: the sample values (RMS_Calculate adds them to an              *)
(* uninitialised sum, so any reading may come out of it), the LEDs, the    *)
(* fields that are written and never used (inverseTimerDelay, TimerDelay,  *)
(* outofRange, the local RMS of Alarm_Thread), and the bookkeeping in      *)
(* Flash that SignalOutput_Thread does for every request it shows.         *)
(***************************************************************************)
EXTENDS Integers, FiniteSets

CONSTANTS
    NB_ANALOG_CHANNELS, \* 3 in the program
    MAX_SAMPLE_SIZE,    \* samples per RMS value, 16 in the program
    Readings,           \* the values RMS_Calculate may return, of type int16_t
    MaxCount,           \* the largest count of a semaphore
    Load                \* when the PIT may fire again: "normal", when
                        \* Sample_Thread and RMS_CalcThread sleep; "heavy",
                        \* at any time

ASSUME ChannelAssumption == NB_ANALOG_CHANNELS \in 1 .. 3
ASSUME SampleAssumption == MAX_SAMPLE_SIZE \in Nat \ {0}
ASSUME ReadingAssumption == Readings # {} /\ Readings \subseteq -32768 .. 32767
ASSUME CountAssumption == MaxCount \in Nat \ {0}
ASSUME LoadAssumption == Load \in {"normal", "heavy"}

Channels == 0 .. NB_ANALOG_CHANNELS - 1

\* The thread priorities.
Sample == 2
RMSCalc == 3
Alarm(c) == 4 + c
SignalOutput == 8
Threads == {Sample, RMSCalc, SignalOutput} \cup {Alarm(c) : c \in Channels}

\* The semaphores that the initialisation thread and PIT_Init create.
PITSemaphore == <<"PIT", 0>>
RMSCalcSemaphore == <<"RMSCalc", 0>>
SignalOutputSemaphore == <<"SignalOutput", 0>>
PITCountSemaphore == <<"PITCount", 0>>
voltageCheck(c) == <<"voltageCheck", c>>
timeCount(c) == <<"timeCount", c>>
Semaphores ==
    {PITSemaphore, RMSCalcSemaphore, SignalOutputSemaphore, PITCountSemaphore}
        \cup {voltageCheck(c) : c \in Channels} \cup {timeCount(c) : c \in Channels}

VARIABLES
    count, waitList, readyList, \* the kernel
    pc,             \* pc[t]: the next step of thread t
    channelNb,      \* channelNb[t]: the loop variable of thread t
    sampleCount,    \* the static sampleCount of Sample_Thread
    RMS,            \* AlarmThreadData[c].RMS
    voltageAlarm,   \* AlarmThreadData[c].voltageAlarm
    raiseRequest,   \* AlarmThreadData[c].raiseRequest
    lowerRequest,   \* AlarmThreadData[c].lowerRequest
    Mode,           \* the timing mode set by the packet handler
    branch,         \* branch[c]: the case of switch(Mode) Alarm_Thread c is in
    dac,            \* dac[l]: whether analog output l is at 5 V
    line, shown     \* SignalOutput_Thread: the output it is at, the flag it read

kernel == <<count, waitList, readyList>>
flags == <<voltageAlarm, raiseRequest, lowerRequest>>
output == <<line, shown>>
vars == <<kernel, pc, channelNb, sampleCount, RMS, flags, Mode, branch, dac, output>>

Kernel ==
    INSTANCE OS WITH Thread <- Threads, Semaphore <- Semaphores,
                     InitialCount <- [s \in Semaphores |-> 0]

\* Voltages as raw readings, the macro VOLT.
VOLT(x) == 3277 * x
Low(v) == v < VOLT(2)
High(v) == v > VOLT(3)
OutOfBand(v) == Low(v) \/ High(v)

\* VRR_CalcDeviation truncates the distance to 8191.75 to an integer; the
\* inverse wait time, 8.19E-6 divided by it, is 0 unless the deviation is 0.
ZeroDeviation(v) == v \in {8191, 8192}

At(t, label) == Kernel!Running(t) /\ pc[t] = label
Goto(t, label) == pc' = [pc EXCEPT ![t] = label]
Wait(t, s) == Kernel!OS_SemaphoreWait(t, s)
Signal(s) == Kernel!OS_SemaphoreSignal(s)

\* The end of the body of "for (channelNb ...)" in thread t.
NextChannel(t, body, after) ==
    IF channelNb[t] + 1 < NB_ANALOG_CHANNELS
    THEN /\ channelNb' = [channelNb EXCEPT ![t] = @ + 1]
         /\ Goto(t, body)
    ELSE /\ channelNb' = [channelNb EXCEPT ![t] = 0]
         /\ Goto(t, after)

Init ==
    /\ Kernel!Init
    /\ pc = [t \in Threads |-> "wait"]
    /\ channelNb = [t \in Threads |-> 0]
    /\ sampleCount = 0
    /\ RMS = [c \in Channels |-> 0]
    /\ voltageAlarm = [c \in Channels |-> FALSE]
    /\ raiseRequest = [c \in Channels |-> FALSE]
    /\ lowerRequest = [c \in Channels |-> FALSE]
    /\ Mode = "DEFINITE"
    /\ branch = [c \in Channels |-> "DEFINITE"]
    /\ dac = [l \in 0 .. 2 |-> FALSE]
    /\ line = 2
    /\ shown = FALSE

-----------------------------------------------------------------------------
\* PIT_ISR.
PIT_ISR ==
    /\ Load = "normal" => Sample \notin readyList /\ RMSCalc \notin readyList
    /\ Signal(PITSemaphore)
    /\ UNCHANGED <<pc, channelNb, sampleCount, RMS, flags, Mode, branch, dac, output>>

\* HandleTimingCommand, in the least urgent thread.
SetMode ==
    /\ readyList = {}
    /\ Mode' \in {"DEFINITE", "INVERSE"}
    /\ UNCHANGED <<kernel, pc, channelNb, sampleCount, RMS, flags, branch, dac, output>>

-----------------------------------------------------------------------------
\* Sample_Thread.
Sample_Wait ==
    /\ pc[Sample] = "wait"
    /\ Wait(Sample, PITSemaphore)
    /\ Goto(Sample, "get")
    /\ UNCHANGED <<channelNb, sampleCount, RMS, flags, Mode, branch, dac, output>>

\* MUTANT of Sample_Get: one sample too many before sampleCount is reset.
GetOneTooMany ==
    /\ At(Sample, "get")
    /\ IF sampleCount + 1 > MAX_SAMPLE_SIZE
       THEN sampleCount' = 0 /\ Goto(Sample, "signal")
       ELSE sampleCount' = sampleCount + 1 /\ Goto(Sample, "time")
    /\ UNCHANGED <<kernel, channelNb, RMS, flags, Mode, branch, dac, output>>

Sample_Get ==
    /\ At(Sample, "get")
    /\ IF sampleCount + 1 > MAX_SAMPLE_SIZE - 1
       THEN sampleCount' = 0 /\ Goto(Sample, "signal")
       ELSE sampleCount' = sampleCount + 1 /\ Goto(Sample, "time")
    /\ UNCHANGED <<kernel, channelNb, RMS, flags, Mode, branch, dac, output>>

Sample_SignalRMS ==
    /\ At(Sample, "signal")
    /\ Signal(RMSCalcSemaphore)
    /\ Goto(Sample, "time")
    /\ UNCHANGED <<channelNb, sampleCount, RMS, flags, Mode, branch, dac, output>>

Sample_SignalTime ==
    /\ At(Sample, "time")
    /\ Signal(timeCount(channelNb[Sample]))
    /\ NextChannel(Sample, "time", "wait")
    /\ UNCHANGED <<sampleCount, RMS, flags, Mode, branch, dac, output>>

SampleThread ==
    Sample_Wait \/ Sample_Get \/ Sample_SignalRMS \/ Sample_SignalTime

-----------------------------------------------------------------------------
\* RMS_CalcThread.  Only Sample_Thread can preempt it, so its local RMSTest and
\* AlarmThreadData[c].RMS agree until it waits again.
RMS_Wait ==
    /\ pc[RMSCalc] = "wait"
    /\ Wait(RMSCalc, RMSCalcSemaphore)
    /\ Goto(RMSCalc, "calculate")
    /\ UNCHANGED <<channelNb, sampleCount, RMS, flags, Mode, branch, dac, output>>

RMS_Calculate ==
    /\ At(RMSCalc, "calculate")
    /\ RMS' \in [Channels -> Readings]
    /\ Goto(RMSCalc, "check")
    /\ UNCHANGED <<kernel, channelNb, sampleCount, flags, Mode, branch, dac, output>>

RMS_SetAlarm(c) ==
    /\ At(RMSCalc, "check")
    /\ c = channelNb[RMSCalc]
    /\ OutOfBand(RMS[c])
    /\ voltageAlarm' = [voltageAlarm EXCEPT ![c] = TRUE]
    /\ Signal(SignalOutputSemaphore)
    /\ Goto(RMSCalc, "alarm")
    /\ UNCHANGED <<channelNb, sampleCount, RMS, raiseRequest, lowerRequest,
                   Mode, branch, dac, output>>

RMS_SignalAlarm(c) ==
    /\ At(RMSCalc, "alarm")
    /\ c = channelNb[RMSCalc]
    /\ dac' = [dac EXCEPT ![2] = TRUE]
    /\ Signal(voltageCheck(c))
    /\ NextChannel(RMSCalc, "check", "wait")
    /\ UNCHANGED <<sampleCount, RMS, flags, Mode, branch, output>>

\* MUTANT of RMS_ClearAlarm: the alarm is left on when the voltage recovers.
ClearRequestsOnly(c) ==
    /\ At(RMSCalc, "check")
    /\ c = channelNb[RMSCalc]
    /\ ~ OutOfBand(RMS[c])
    /\ dac' = [l \in 0 .. 2 |-> FALSE]
    /\ lowerRequest' = [lowerRequest EXCEPT ![c] = FALSE]
    /\ raiseRequest' = [raiseRequest EXCEPT ![c] = FALSE]
    /\ Signal(SignalOutputSemaphore)
    /\ NextChannel(RMSCalc, "check", "wait")
    /\ UNCHANGED <<sampleCount, RMS, voltageAlarm, Mode, branch, output>>

\* MUTANT of RMS_ClearAlarm: the requests are left on when the voltage recovers.
ClearAlarmOnly(c) ==
    /\ At(RMSCalc, "check")
    /\ c = channelNb[RMSCalc]
    /\ ~ OutOfBand(RMS[c])
    /\ dac' = [l \in 0 .. 2 |-> FALSE]
    /\ voltageAlarm' = [voltageAlarm EXCEPT ![c] = FALSE]
    /\ Signal(SignalOutputSemaphore)
    /\ NextChannel(RMSCalc, "check", "wait")
    /\ UNCHANGED <<sampleCount, RMS, raiseRequest, lowerRequest, Mode, branch, output>>

RMS_ClearAlarm(c) ==
    /\ At(RMSCalc, "check")
    /\ c = channelNb[RMSCalc]
    /\ ~ OutOfBand(RMS[c])
    /\ dac' = [l \in 0 .. 2 |-> FALSE]
    /\ voltageAlarm' = [voltageAlarm EXCEPT ![c] = FALSE]
    /\ lowerRequest' = [lowerRequest EXCEPT ![c] = FALSE]
    /\ raiseRequest' = [raiseRequest EXCEPT ![c] = FALSE]
    /\ Signal(SignalOutputSemaphore)
    /\ NextChannel(RMSCalc, "check", "wait")
    /\ UNCHANGED <<sampleCount, RMS, Mode, branch, output>>

RMS_CalcThread ==
    \/ RMS_Wait
    \/ RMS_Calculate
    \/ \E c \in Channels : RMS_SetAlarm(c) \/ RMS_SignalAlarm(c) \/ RMS_ClearAlarm(c)

-----------------------------------------------------------------------------
\* Alarm_Thread of channel c.  The two cases of switch(Mode) run the same
\* tests; branch[c] says which of them, and so what a voltage that is still out
\* of band leads to.  The DEFINITE case falls through into the INVERSE one.
Alarm_Wait(c) ==
    /\ pc[Alarm(c)] = "wait"
    /\ Wait(Alarm(c), voltageCheck(c))
    /\ Goto(Alarm(c), "switch")
    /\ UNCHANGED <<channelNb, sampleCount, RMS, flags, Mode, branch, dac, output>>

Alarm_Switch(c) ==
    /\ At(Alarm(c), "switch")
    /\ branch' = [branch EXCEPT ![c] = Mode]
    /\ Goto(Alarm(c), IF Mode = "DEFINITE" THEN "readHigh" ELSE "deviation")
    /\ UNCHANGED <<kernel, channelNb, sampleCount, RMS, flags, Mode, dac, output>>

\* The head of the INVERSE loop: it has a body only if the deviation is 0.
Alarm_Deviation(c) ==
    /\ At(Alarm(c), "deviation")
    /\ branch' = [branch EXCEPT ![c] = "INVERSE"]
    /\ Goto(Alarm(c), IF ZeroDeviation(RMS[c]) THEN "readHigh" ELSE "readRaise")
    /\ UNCHANGED <<kernel, channelNb, sampleCount, RMS, flags, Mode, dac, output>>

\* RMS <= VOLT(3) && RMS >= VOLT(2), two reads of AlarmThreadData[c].RMS.
Alarm_ReadHigh(c) ==
    /\ At(Alarm(c), "readHigh")
    /\ Goto(Alarm(c), IF High(RMS[c]) THEN "out" ELSE "readLow")
    /\ UNCHANGED <<kernel, channelNb, sampleCount, RMS, flags, Mode, branch, dac, output>>

Alarm_ReadLow(c) ==
    /\ At(Alarm(c), "readLow")
    /\ Goto(Alarm(c), IF Low(RMS[c]) THEN "out" ELSE "clear")
    /\ UNCHANGED <<kernel, channelNb, sampleCount, RMS, flags, Mode, branch, dac, output>>

Alarm_Clear(c) ==
    /\ At(Alarm(c), "clear")
    /\ lowerRequest' = [lowerRequest EXCEPT ![c] = FALSE]
    /\ voltageAlarm' = [voltageAlarm EXCEPT ![c] = FALSE]
    /\ raiseRequest' = [raiseRequest EXCEPT ![c] = FALSE]
    /\ Goto(Alarm(c), "readRaise")
    /\ UNCHANGED <<kernel, channelNb, sampleCount, RMS, Mode, branch, dac, output>>

\* MUTANT of Alarm_DefiniteWait: the definite time waits for the semaphore of
\* the inverse time.
DefiniteWaitsForPIT(c) ==
    /\ pc[Alarm(c)] = "out"
    /\ branch[c] = "DEFINITE"
    /\ Wait(Alarm(c), PITCountSemaphore)
    /\ Goto(Alarm(c), "readRaise")
    /\ UNCHANGED <<channelNb, sampleCount, RMS, flags, Mode, branch, dac, output>>

\* MUTANT of Alarm_DefiniteWait: the thread goes back to the head of its loop
\* after the definite time.
DefiniteStartsAgain(c) ==
    /\ pc[Alarm(c)] = "out"
    /\ branch[c] = "DEFINITE"
    /\ Wait(Alarm(c), timeCount(c))
    /\ Goto(Alarm(c), "wait")
    /\ UNCHANGED <<channelNb, sampleCount, RMS, flags, Mode, branch, dac, output>>

\* The definite time: one tick of the sampling clock.
Alarm_DefiniteWait(c) ==
    /\ pc[Alarm(c)] = "out"
    /\ branch[c] = "DEFINITE"
    /\ Wait(Alarm(c), timeCount(c))
    /\ Goto(Alarm(c), "readRaise")
    /\ UNCHANGED <<channelNb, sampleCount, RMS, flags, Mode, branch, dac, output>>

Alarm_Recalculate(c) ==
    /\ At(Alarm(c), "out")
    /\ branch[c] = "INVERSE"
    /\ \E v \in Readings : RMS' = [RMS EXCEPT ![c] = v]
    /\ Goto(Alarm(c), "inverseWait")
    /\ UNCHANGED <<kernel, channelNb, sampleCount, flags, Mode, branch, dac, output>>

\* Nobody signals PITCountSemaphore: the rest of the loop is never reached.
Alarm_InverseWait(c) ==
    /\ pc[Alarm(c)] = "inverseWait"
    /\ Wait(Alarm(c), PITCountSemaphore)
    /\ Goto(Alarm(c), "inverseLoop")
    /\ UNCHANGED <<channelNb, sampleCount, RMS, flags, Mode, branch, dac, output>>

Alarm_ReadRaise(c) ==
    /\ At(Alarm(c), "readRaise")
    /\ Goto(Alarm(c), IF Low(RMS[c]) THEN "raise" ELSE "readLower")
    /\ UNCHANGED <<kernel, channelNb, sampleCount, RMS, flags, Mode, branch, dac, output>>

Alarm_Raise(c) ==
    /\ At(Alarm(c), "raise")
    /\ raiseRequest' = [raiseRequest EXCEPT ![c] = TRUE]
    /\ Goto(Alarm(c), "raiseSignal")
    /\ UNCHANGED <<kernel, channelNb, sampleCount, RMS, voltageAlarm, lowerRequest,
                   Mode, branch, dac, output>>

Alarm_RaiseSignal(c) ==
    /\ At(Alarm(c), "raiseSignal")
    /\ dac' = [dac EXCEPT ![0] = TRUE]
    /\ Signal(SignalOutputSemaphore)
    /\ Goto(Alarm(c), "readLower")
    /\ UNCHANGED <<channelNb, sampleCount, RMS, flags, Mode, branch, output>>

\* The label after the tests of the case branch[c].
AfterTests(c) == IF branch[c] = "DEFINITE" THEN "deviation" ELSE "wait"

Alarm_ReadLower(c) ==
    /\ At(Alarm(c), "readLower")
    /\ Goto(Alarm(c), IF High(RMS[c]) THEN "lower" ELSE AfterTests(c))
    /\ UNCHANGED <<kernel, channelNb, sampleCount, RMS, flags, Mode, branch, dac, output>>

Alarm_Lower(c) ==
    /\ At(Alarm(c), "lower")
    /\ lowerRequest' = [lowerRequest EXCEPT ![c] = TRUE]
    /\ Goto(Alarm(c), "lowerSignal")
    /\ UNCHANGED <<kernel, channelNb, sampleCount, RMS, voltageAlarm, raiseRequest,
                   Mode, branch, dac, output>>

Alarm_LowerSignal(c) ==
    /\ At(Alarm(c), "lowerSignal")
    /\ dac' = [dac EXCEPT ![1] = TRUE]
    /\ Signal(SignalOutputSemaphore)
    /\ Goto(Alarm(c), AfterTests(c))
    /\ UNCHANGED <<channelNb, sampleCount, RMS, flags, Mode, branch, output>>

Alarm_Thread(c) ==
    \/ Alarm_Wait(c)
    \/ Alarm_Switch(c)
    \/ Alarm_Deviation(c)
    \/ Alarm_ReadHigh(c)
    \/ Alarm_ReadLow(c)
    \/ Alarm_Clear(c)
    \/ Alarm_DefiniteWait(c)
    \/ Alarm_Recalculate(c)
    \/ Alarm_InverseWait(c)
    \/ Alarm_ReadRaise(c)
    \/ Alarm_Raise(c)
    \/ Alarm_RaiseSignal(c)
    \/ Alarm_ReadLower(c)
    \/ Alarm_Lower(c)
    \/ Alarm_LowerSignal(c)

-----------------------------------------------------------------------------
\* SignalOutput_Thread: for each channel it copies voltageAlarm to output 2,
\* raiseRequest to output 1 and lowerRequest to output 0.
SignalOutput_Wait ==
    /\ pc[SignalOutput] = "wait"
    /\ Wait(SignalOutput, SignalOutputSemaphore)
    /\ Goto(SignalOutput, "read")
    /\ UNCHANGED <<channelNb, sampleCount, RMS, flags, Mode, branch, dac, output>>

Flag(c, l) ==
    CASE l = 2 -> voltageAlarm[c]
      [] l = 1 -> raiseRequest[c]
      [] l = 0 -> lowerRequest[c]

SignalOutput_Read ==
    /\ At(SignalOutput, "read")
    /\ shown' = Flag(channelNb[SignalOutput], line)
    /\ Goto(SignalOutput, "put")
    /\ UNCHANGED <<kernel, channelNb, sampleCount, RMS, flags, Mode, branch, dac, line>>

\* MUTANT of SignalOutput_Put: the loop over the outputs ends before output 0.
PutSkipsOutput0 ==
    /\ At(SignalOutput, "put")
    /\ dac' = [dac EXCEPT ![line] = shown]
    /\ IF line > 1
       THEN line' = line - 1 /\ Goto(SignalOutput, "read") /\ UNCHANGED channelNb
       ELSE line' = 2 /\ NextChannel(SignalOutput, "read", "wait")
    /\ shown' = FALSE
    /\ UNCHANGED <<kernel, sampleCount, RMS, flags, Mode, branch>>

SignalOutput_Put ==
    /\ At(SignalOutput, "put")
    /\ dac' = [dac EXCEPT ![line] = shown]
    /\ IF line > 0
       THEN line' = line - 1 /\ Goto(SignalOutput, "read") /\ UNCHANGED channelNb
       ELSE line' = 2 /\ NextChannel(SignalOutput, "read", "wait")
    /\ shown' = FALSE
    /\ UNCHANGED <<kernel, sampleCount, RMS, flags, Mode, branch>>

SignalOutput_Thread == SignalOutput_Wait \/ SignalOutput_Read \/ SignalOutput_Put

-----------------------------------------------------------------------------
Next ==
    \/ PIT_ISR
    \/ SetMode
    \/ SampleThread
    \/ RMS_CalcThread
    \/ \E c \in Channels : Alarm_Thread(c)
    \/ SignalOutput_Thread

Spec == Init /\ [][Next]_vars

\* The PIT keeps firing and a thread that is the most urgent ready one again
\* and again gets to run; the packets that change the mode need not come.
Fairness ==
    /\ WF_vars(PIT_ISR)
    /\ SF_vars(SampleThread)
    /\ SF_vars(RMS_CalcThread)
    /\ \A c \in Channels : SF_vars(Alarm_Thread(c))
    /\ SF_vars(SignalOutput_Thread)

FairSpec == Spec /\ Fairness

-----------------------------------------------------------------------------
Labels ==
    {"wait", "get", "signal", "time", "calculate", "check", "alarm", "switch",
     "deviation", "readHigh", "readLow", "clear", "out", "inverseWait",
     "inverseLoop", "readRaise", "raise", "raiseSignal", "readLower", "lower",
     "lowerSignal", "read", "put"}

\* The type invariant.
TypeOK ==
    /\ Kernel!TypeOK
    /\ pc \in [Threads -> Labels]
    /\ channelNb \in [Threads -> Channels]
    /\ sampleCount \in 0 .. MAX_SAMPLE_SIZE - 1
    /\ RMS \in [Channels -> Readings \cup {0}]
    /\ voltageAlarm \in [Channels -> BOOLEAN]
    /\ raiseRequest \in [Channels -> BOOLEAN]
    /\ lowerRequest \in [Channels -> BOOLEAN]
    /\ Mode \in {"DEFINITE", "INVERSE"}
    /\ branch \in [Channels -> {"DEFINITE", "INVERSE"}]
    /\ dac \in [0 .. 2 -> BOOLEAN]
    /\ line \in 0 .. 2
    /\ shown \in BOOLEAN

\* Alarm_Thread c waits for the inverse time or is about to, and has replaced
\* its RMS voltage.
Stuck(c) == pc[Alarm(c)] \in {"inverseWait", "inverseLoop"}

\* Between two passes of RMS_CalcThread a channel is in alarm only while its
\* RMS voltage is out of band, although Alarm_Thread clears the alarm too and
\* every thread may be preempted anywhere; the exception is the channel whose
\* Alarm_Thread has got stuck in the inverse timing.
AlarmOnlyWhenOut ==
    pc[RMSCalc] \in {"wait", "calculate"} =>
        \A c \in Channels : voltageAlarm[c] => OutOfBand(RMS[c]) \/ Stuck(c)

Last == NB_ANALOG_CHANNELS - 1

\* Whenever every thread sleeps, an alarm or a request of the last channel is on
\* its output: no order of the passes that set flags, of those that drive the
\* outputs directly and of the thread that copies the flags loses one.  (The
\* outputs show the other channels only until the last one is copied.)
RestingOutputsShowFlags ==
    readyList = {} => \A l \in 0 .. 2 : Flag(Last, l) => dac[l]

RaiseMade(c) == Low(RMS[c]) => raiseRequest[c]
LowerMade(c) == High(RMS[c]) => lowerRequest[c]

\* When Alarm_Thread sleeps until its channel is found out of band again, it has
\* made the request that the latest RMS voltage asks for, although the voltage
\* may have changed at any moment while it waited or read the limits: no signal
\* of voltageCheckSemaphore is lost on it.  (RMS is 0 before the first pass.)
ChecksAreAnswered ==
    pc[RMSCalc] \in {"wait", "calculate"} =>
        \A c \in Channels :
            Alarm(c) \in waitList[voltageCheck(c)] /\ (voltageAlarm[c] \/ RMS[c] # 0)
                => RaiseMade(c) /\ LowerMade(c)

\* A channel whose voltage stays in band ends up without alarm and requests,
\* whatever Alarm_Thread was doing when the voltage recovered.
RecoveryClears ==
    \A c \in Channels :
        <>[](~ OutOfBand(RMS[c]))
            => <>[](~ voltageAlarm[c] /\ ~ raiseRequest[c] /\ ~ lowerRequest[c])

\* A channel whose voltage stays too low gets a request to raise it, one whose
\* voltage stays too high a request to lower it.  The exception, in both timing
\* modes, is the channel whose Alarm_Thread has once found a deviation of zero
\* and is stuck for good: a voltage that leaves the band after that is never
\* answered.
RequestIsMade ==
    \A c \in Channels :
        /\ <>[]Low(RMS[c]) => <>[]raiseRequest[c] \/ <>[]Stuck(c)
        /\ <>[]High(RMS[c]) => <>[]lowerRequest[c] \/ <>[]Stuck(c)

\* main.c, of PITCountSemaphore: "Signals Timer for definite and inverse
\* timing": a thread that waits for it goes on.
InverseTimingGoesOn ==
    \A c \in Channels :
        Alarm(c) \in waitList[PITCountSemaphore]
            ~> Alarm(c) \notin waitList[PITCountSemaphore]
=============================================================================
