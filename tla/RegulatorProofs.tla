-------------------------- MODULE RegulatorProofs ---------------------------
(***************************************************************************)
(* Proofs about the regulator, for any number of channels up to the three  *)
(* of the program, any readings, any sampling period and any load.  The    *)
(* first part is about the passes of RMS_CalcThread over the alarms, the   *)
(* second about the kernel's queues and the flags that are on their way to *)
(* the outputs.                                                            *)
(***************************************************************************)
EXTENDS Regulator, FiniteSetTheorems, TLAPS

\* The part of the type invariant that the argument needs.
Typing ==
    /\ pc \in [Threads -> Labels]
    /\ channelNb \in [Threads -> Channels]
    /\ RMS \in [Channels -> Int]
    /\ voltageAlarm \in [Channels -> BOOLEAN]

Justified(c) == voltageAlarm[c] => OutOfBand(RMS[c]) \/ Stuck(c)

\* How far RMS_CalcThread has got in its pass over the channels.
PassInv ==
    /\ pc[RMSCalc] \in {"wait", "calculate", "check", "alarm"}
    /\ pc[RMSCalc] \in {"wait", "calculate"} =>
          /\ channelNb[RMSCalc] = 0
          /\ \A c \in Channels : Justified(c)
    /\ \A c \in Channels : c < channelNb[RMSCalc] => Justified(c)
    /\ pc[RMSCalc] = "alarm" =>
          \/ OutOfBand(RMS[channelNb[RMSCalc]])
          \/ Stuck(channelNb[RMSCalc])

\* The threads have different priorities.
LEMMA ThreadsDiffer ==
  /\ Sample \in Threads /\ RMSCalc \in Threads /\ SignalOutput \in Threads
  /\ Sample # RMSCalc /\ SignalOutput # RMSCalc /\ SignalOutput # Sample
  /\ \A c \in Channels :
        /\ Alarm(c) \in Threads
        /\ Alarm(c) # RMSCalc /\ Alarm(c) # Sample /\ Alarm(c) # SignalOutput
        /\ \A d \in Channels : Alarm(c) = Alarm(d) => c = d
  /\ 0 \in Channels
  /\ Channels \subseteq Int
BY ChannelAssumption
   DEF Threads, Sample, RMSCalc, SignalOutput, Alarm, Channels

\* A step that RMS_CalcThread does not take, that computes no voltage, sets no
\* alarm and lets no stuck thread go keeps the invariant.
LEMMA QuietStep ==
  ASSUME PassInv,
         pc'[RMSCalc] = pc[RMSCalc], channelNb'[RMSCalc] = channelNb[RMSCalc],
         RMS' = RMS,
         \A c \in Channels : voltageAlarm'[c] => voltageAlarm[c],
         \A c \in Channels : Stuck(c) => Stuck(c)',
         channelNb[RMSCalc] \in Channels
  PROVE  PassInv'
<1>1. \A c \in Channels : Justified(c) => Justified(c)'
  BY DEF Justified
<1> QED
  BY <1>1 DEF PassInv

\* What Goto and NextChannel do to the program counters.
LEMMA GotoEffect ==
  ASSUME Typing, NEW t \in Threads, NEW label \in Labels, Goto(t, label)
  PROVE  /\ pc' \in [Threads -> Labels]
         /\ pc'[t] = label
         /\ \A u \in Threads : u # t => pc'[u] = pc[u]
BY DEF Goto, Typing

\* At the end of a turn a loop goes on with the next channel, or ends.
LEMMA NextChannelEffect ==
  ASSUME Typing, NEW t \in Threads, NEW body \in Labels, NEW after \in Labels,
         NextChannel(t, body, after)
  PROVE  /\ pc' \in [Threads -> Labels]
         /\ channelNb' \in [Threads -> Channels]
         /\ \A u \in Threads : u # t =>
              pc'[u] = pc[u] /\ channelNb'[u] = channelNb[u]
         /\ \/ /\ channelNb[t] + 1 < NB_ANALOG_CHANNELS
               /\ channelNb'[t] = channelNb[t] + 1
               /\ pc'[t] = body
            \/ /\ channelNb[t] + 1 >= NB_ANALOG_CHANNELS
               /\ channelNb'[t] = 0
               /\ pc'[t] = after
<1>1. CASE channelNb[t] + 1 < NB_ANALOG_CHANNELS
  <2>1. channelNb[t] + 1 \in Channels
    BY <1>1, ChannelAssumption DEF Typing, Channels
  <2> QED
    BY <1>1, <2>1 DEF NextChannel, Goto, Typing
<1>2. CASE ~ (channelNb[t] + 1 < NB_ANALOG_CHANNELS)
  <2>1. channelNb[t] + 1 >= NB_ANALOG_CHANNELS
    BY <1>2, ChannelAssumption DEF Typing, Channels
  <2> QED
    BY <1>2, <2>1, ThreadsDiffer DEF NextChannel, Goto, Typing
<1> QED
  BY <1>1, <1>2

\* The steps of the PIT, of the packet handler, of Sample_Thread and of
\* SignalOutput_Thread.
LEMMA OtherSteps ==
  ASSUME Typing,
         PIT_ISR \/ SetMode \/ SampleThread \/ SignalOutput_Thread
  PROVE  /\ Typing'
         /\ RMS' = RMS /\ voltageAlarm' = voltageAlarm
         /\ pc'[RMSCalc] = pc[RMSCalc] /\ channelNb'[RMSCalc] = channelNb[RMSCalc]
         /\ \A c \in Channels : pc'[Alarm(c)] = pc[Alarm(c)]
<1> USE ThreadsDiffer
<1>1. /\ RMS' = RMS /\ voltageAlarm' = voltageAlarm
  BY DEF PIT_ISR, SetMode, SampleThread, Sample_Wait, Sample_Get, Sample_SignalRMS,
         Sample_SignalTime, SignalOutput_Thread, SignalOutput_Wait,
         SignalOutput_Read, SignalOutput_Put, flags
<1>2. CASE UNCHANGED <<pc, channelNb>>
  BY <1>1, <1>2 DEF Typing
<1>3. ASSUME NEW t \in {Sample, SignalOutput}, NEW label \in Labels,
             Goto(t, label), UNCHANGED channelNb
      PROVE  /\ pc' \in [Threads -> Labels] /\ channelNb' = channelNb
             /\ pc'[RMSCalc] = pc[RMSCalc]
             /\ \A c \in Channels : pc'[Alarm(c)] = pc[Alarm(c)]
  BY <1>3, GotoEffect
<1>4. ASSUME NEW t \in {Sample, SignalOutput}, NEW body \in Labels, NEW after \in Labels,
             NextChannel(t, body, after)
      PROVE  /\ pc' \in [Threads -> Labels] /\ channelNb' \in [Threads -> Channels]
             /\ pc'[RMSCalc] = pc[RMSCalc] /\ channelNb'[RMSCalc] = channelNb[RMSCalc]
             /\ \A c \in Channels : pc'[Alarm(c)] = pc[Alarm(c)]
  <2>1. t \in Threads /\ t # RMSCalc /\ \A c \in Channels : Alarm(c) # t
    BY <1>4
  <2> QED
    BY <1>4, <2>1, NextChannelEffect
<1>5. \/ UNCHANGED <<pc, channelNb>>
      \/ \E t \in {Sample, SignalOutput}, label \in Labels :
            Goto(t, label) /\ UNCHANGED channelNb
      \/ \E t \in {Sample, SignalOutput}, body, after \in Labels :
            NextChannel(t, body, after)
  <2>1. CASE PIT_ISR \/ SetMode
    BY <2>1 DEF PIT_ISR, SetMode
  <2>2. CASE SampleThread
    <3>1. CASE Sample_SignalTime
      <4>1. NextChannel(Sample, "time", "wait")
        BY <3>1 DEF Sample_SignalTime
      <4> QED
        BY <4>1 DEF Labels
    <3>2. CASE Sample_Wait \/ Sample_Get \/ Sample_SignalRMS
      <4>1. /\ UNCHANGED channelNb
            /\ \E label \in {"get", "signal", "time"} : Goto(Sample, label)
        BY <3>2 DEF Sample_Wait, Sample_Get, Sample_SignalRMS
      <4> QED
        BY <4>1 DEF Labels
    <3> QED
      BY <2>2, <3>1, <3>2 DEF SampleThread
  <2>3. CASE SignalOutput_Thread
    <3>1. CASE SignalOutput_Put /\ line > 0
      <4>1. /\ UNCHANGED channelNb
            /\ Goto(SignalOutput, "read")
        BY <3>1 DEF SignalOutput_Put
      <4> QED
        BY <4>1 DEF Labels
    <3>2. CASE SignalOutput_Put /\ ~ (line > 0)
      <4>1. NextChannel(SignalOutput, "read", "wait")
        BY <3>2 DEF SignalOutput_Put
      <4> QED
        BY <4>1 DEF Labels
    <3>3. CASE SignalOutput_Wait \/ SignalOutput_Read
      <4>1. /\ UNCHANGED channelNb
            /\ \E label \in {"read", "put"} : Goto(SignalOutput, label)
        BY <3>3 DEF SignalOutput_Wait, SignalOutput_Read
      <4> QED
        BY <4>1 DEF Labels
    <3> QED
      BY <2>3, <3>1, <3>2, <3>3 DEF SignalOutput_Thread
  <2> QED
    BY <2>1, <2>2, <2>3
<1> QED
  BY <1>1, <1>2, <1>3, <1>4, <1>5 DEF Typing

\* The steps of Alarm_Thread but the one that replaces the RMS voltage.
LEMMA AlarmSteps ==
  ASSUME Typing, NEW c \in Channels, Alarm_Thread(c), ~ Alarm_Recalculate(c)
  PROVE  /\ Typing'
         /\ RMS' = RMS
         /\ pc'[RMSCalc] = pc[RMSCalc] /\ channelNb' = channelNb
         /\ \A d \in Channels : voltageAlarm'[d] => voltageAlarm[d]
         /\ \A d \in Channels : Stuck(d) => Stuck(d)'
<1> USE ThreadsDiffer
<1>1. ASSUME NEW label \in Labels, Goto(Alarm(c), label),
             pc[Alarm(c)] \in {"inverseWait", "inverseLoop"} => label = "inverseLoop"
      PROVE  /\ pc' \in [Threads -> Labels]
             /\ pc'[RMSCalc] = pc[RMSCalc]
             /\ \A d \in Channels : Stuck(d) => Stuck(d)'
  <2>1. /\ pc' \in [Threads -> Labels]
        /\ pc'[Alarm(c)] = label
        /\ \A u \in Threads : u # Alarm(c) => pc'[u] = pc[u]
    BY <1>1, GotoEffect
  <2>2. \A d \in Channels : Stuck(d) => Stuck(d)'
    <3> TAKE d \in Channels
    <3>1. CASE d = c
      BY <1>1, <2>1, <3>1 DEF Stuck
    <3>2. CASE d # c
      BY <2>1, <3>2 DEF Stuck
    <3> QED
      BY <3>1, <3>2
  <2> QED
    BY <2>1, <2>2
<1>2. \E label \in Labels :
         /\ Goto(Alarm(c), label)
         /\ pc[Alarm(c)] \in {"inverseWait", "inverseLoop"} => label = "inverseLoop"
  BY DEF Alarm_Thread, Alarm_Wait, Alarm_Switch, Alarm_Deviation, Alarm_ReadHigh,
         Alarm_ReadLow, Alarm_Clear, Alarm_DefiniteWait, Alarm_InverseWait,
         Alarm_ReadRaise, Alarm_Raise, Alarm_RaiseSignal, Alarm_ReadLower,
         Alarm_Lower, Alarm_LowerSignal, AfterTests, At, Labels
<1>3. /\ RMS' = RMS
      /\ channelNb' = channelNb
      /\ \/ voltageAlarm' = voltageAlarm
         \/ voltageAlarm' = [voltageAlarm EXCEPT ![c] = FALSE]
  BY DEF Alarm_Thread, Alarm_Wait, Alarm_Switch, Alarm_Deviation, Alarm_ReadHigh,
         Alarm_ReadLow, Alarm_Clear, Alarm_DefiniteWait, Alarm_InverseWait,
         Alarm_ReadRaise, Alarm_Raise, Alarm_RaiseSignal, Alarm_ReadLower,
         Alarm_Lower, Alarm_LowerSignal, flags
<1>4. /\ voltageAlarm' \in [Channels -> BOOLEAN]
      /\ \A d \in Channels : voltageAlarm'[d] => voltageAlarm[d]
  BY <1>3, Zenon DEF Typing
<1> QED
  BY <1>1, <1>2, <1>3, <1>4 DEF Typing

\* The step of Alarm_Thread that replaces the RMS voltage, after which the
\* thread is stuck.
LEMMA RecalculateStep ==
  ASSUME Typing, PassInv, NEW c \in Channels, Alarm_Recalculate(c)
  PROVE  Typing' /\ PassInv'
<1> USE ThreadsDiffer
<1>1. /\ Goto(Alarm(c), "inverseWait")
      /\ channelNb' = channelNb /\ voltageAlarm' = voltageAlarm
      /\ pc[Alarm(c)] = "out"
  BY DEF Alarm_Recalculate, At, flags
<1>2. PICK v \in Readings : RMS' = [RMS EXCEPT ![c] = v]
  BY DEF Alarm_Recalculate
<1>3. /\ pc' \in [Threads -> Labels]
      /\ pc'[Alarm(c)] = "inverseWait"
      /\ \A u \in Threads : u # Alarm(c) => pc'[u] = pc[u]
  BY <1>1, GotoEffect DEF Labels
<1>4. RMS' \in [Channels -> Int] /\ \A d \in Channels : d # c => RMS'[d] = RMS[d]
  <2>1. v \in Int
    BY ReadingAssumption
  <2> QED
    BY <1>2, <2>1 DEF Typing
<1>5. Typing'
  BY <1>1, <1>3, <1>4 DEF Typing
<1>6. Stuck(c)'
  BY <1>3 DEF Stuck
<1>7. ASSUME NEW d \in Channels, d # c
      PROVE  (Stuck(d)' <=> Stuck(d)) /\ (Justified(d)' <=> Justified(d))
  <2>1. Stuck(d)' <=> Stuck(d)
    BY <1>3, <1>7 DEF Stuck
  <2> QED
    BY <1>1, <1>4, <1>7, <2>1 DEF Justified
<1>8. \A d \in Channels : Justified(d) => Justified(d)'
  BY <1>6, <1>7 DEF Justified
<1>9. pc'[RMSCalc] = pc[RMSCalc]
  BY <1>3
<1>10. channelNb[RMSCalc] \in Channels
  BY DEF Typing
<1>11. pc'[RMSCalc] = "alarm" =>
          \/ OutOfBand(RMS'[channelNb'[RMSCalc]])
          \/ Stuck(channelNb[RMSCalc])'
  <2>1. CASE channelNb[RMSCalc] = c
    BY <1>1, <1>6, <2>1 DEF Stuck
  <2>2. CASE channelNb[RMSCalc] # c
    <3>1. /\ RMS'[channelNb'[RMSCalc]] = RMS[channelNb[RMSCalc]]
          /\ Stuck(channelNb[RMSCalc])' <=> Stuck(channelNb[RMSCalc])
      BY <1>1, <1>4, <1>7, <1>10, <2>2
    <3> QED
      BY <1>9, <3>1 DEF PassInv
  <2> QED
    BY <2>1, <2>2
<1>12. PassInv'
  <2>1. /\ pc'[RMSCalc] \in {"wait", "calculate"} => channelNb'[RMSCalc] = 0
        /\ pc'[RMSCalc] \in {"wait", "calculate", "check", "alarm"}
    BY <1>1, <1>9 DEF PassInv
  <2>2. /\ pc'[RMSCalc] \in {"wait", "calculate"} => \A d \in Channels : Justified(d)'
        /\ \A d \in Channels : d < channelNb'[RMSCalc] => Justified(d)'
    BY <1>1, <1>8, <1>9 DEF PassInv
  <2>3. pc'[RMSCalc] = "alarm" =>
           OutOfBand(RMS[channelNb[RMSCalc]])' \/ Stuck(channelNb[RMSCalc])'
    BY <1>11 DEF OutOfBand, Low, High
  <2> QED
    BY <2>1, <2>2, <2>3 DEF PassInv
<1> QED
  BY <1>5, <1>12

\* The steps of RMS_CalcThread: the channels below its loop variable have been
\* checked against the voltages of this pass.
LEMMA RMSSteps ==
  ASSUME Typing, PassInv, RMS_CalcThread
  PROVE  Typing' /\ PassInv'
<1> USE ThreadsDiffer
<1>0. channelNb[RMSCalc] \in Channels
  BY DEF Typing
<1>1. CASE RMS_Wait
  <2>1. /\ Goto(RMSCalc, "calculate") /\ pc[RMSCalc] = "wait"
        /\ UNCHANGED <<channelNb, RMS, voltageAlarm>>
    BY <1>1 DEF RMS_Wait, flags
  <2>2. /\ pc' \in [Threads -> Labels]
        /\ pc'[RMSCalc] = "calculate"
        /\ \A u \in Threads : u # RMSCalc => pc'[u] = pc[u]
    BY <2>1, GotoEffect DEF Labels
  <2>3. \A c \in Channels : Justified(c) => Justified(c)'
    BY <2>1, <2>2 DEF Justified, Stuck
  <2>4. Typing'
    BY <2>1, <2>2 DEF Typing
  <2>5. PassInv'
    BY <2>1, <2>2, <2>3 DEF PassInv
  <2> QED
    BY <2>4, <2>5
<1>2. CASE RMS_Calculate
  <2>1. /\ Goto(RMSCalc, "check") /\ pc[RMSCalc] = "calculate"
        /\ UNCHANGED <<channelNb, voltageAlarm>>
        /\ RMS' \in [Channels -> Readings]
    BY <1>2 DEF RMS_Calculate, At, flags
  <2>2. /\ pc' \in [Threads -> Labels]
        /\ pc'[RMSCalc] = "check"
    BY <2>1, GotoEffect DEF Labels
  <2>3. RMS' \in [Channels -> Int]
    <3>1. Readings \subseteq Int
      BY ReadingAssumption
    <3> QED
      BY <2>1, <3>1
  <2>4. channelNb'[RMSCalc] = 0 /\ \A c \in Channels : ~ (c < 0)
    BY <2>1 DEF PassInv, Channels
  <2> QED
    BY <2>1, <2>2, <2>3, <2>4 DEF PassInv, Typing
<1>3. ASSUME NEW c \in Channels, RMS_SetAlarm(c)
      PROVE  Typing' /\ PassInv'
  <2>1. /\ Goto(RMSCalc, "alarm") /\ pc[RMSCalc] = "check"
        /\ c = channelNb[RMSCalc]
        /\ UNCHANGED <<channelNb, RMS>>
        /\ voltageAlarm' = [voltageAlarm EXCEPT ![c] = TRUE]
        /\ OutOfBand(RMS[c])
    BY <1>3 DEF RMS_SetAlarm, At
  <2>2. /\ pc' \in [Threads -> Labels]
        /\ pc'[RMSCalc] = "alarm"
        /\ \A u \in Threads : u # RMSCalc => pc'[u] = pc[u]
    BY <2>1, GotoEffect DEF Labels
  <2>3. /\ voltageAlarm' \in [Channels -> BOOLEAN]
        /\ \A d \in Channels : d # c => voltageAlarm'[d] = voltageAlarm[d]
    BY <2>1, Zenon DEF Typing
  <2>4. \A d \in Channels : Justified(d) => Justified(d)'
    BY <2>1, <2>2, <2>3 DEF Justified, Stuck
  <2>5. Typing'
    BY <2>1, <2>2, <2>3 DEF Typing
  <2>6. OutOfBand(RMS[channelNb[RMSCalc]])'
    BY <2>1
  <2>7. PassInv'
    BY <2>1, <2>2, <2>4, <2>6 DEF PassInv
  <2> QED
    BY <2>5, <2>7
<1>4. ASSUME NEW c \in Channels, RMS_SignalAlarm(c) \/ RMS_ClearAlarm(c)
      PROVE  Typing' /\ PassInv'
  <2>1. /\ NextChannel(RMSCalc, "check", "wait")
        /\ c = channelNb[RMSCalc]
        /\ RMS' = RMS
        /\ \/ voltageAlarm' = voltageAlarm
           \/ voltageAlarm' = [voltageAlarm EXCEPT ![c] = FALSE]
    BY <1>4 DEF RMS_SignalAlarm, RMS_ClearAlarm, flags
  <2>2. /\ voltageAlarm' \in [Channels -> BOOLEAN]
        /\ \A d \in Channels : voltageAlarm'[d] => voltageAlarm[d]
    BY <2>1, Zenon DEF Typing
  <2>3. "check" \in Labels /\ "wait" \in Labels
    BY DEF Labels
  <2>4. /\ pc' \in [Threads -> Labels]
        /\ channelNb' \in [Threads -> Channels]
        /\ \A u \in Threads : u # RMSCalc => pc'[u] = pc[u]
        /\ \/ channelNb'[RMSCalc] = c + 1 /\ pc'[RMSCalc] = "check"
           \/ /\ c + 1 >= NB_ANALOG_CHANNELS
              /\ channelNb'[RMSCalc] = 0 /\ pc'[RMSCalc] = "wait"
    BY <2>1, <2>3, NextChannelEffect
  <2>5. \A d \in Channels : Justified(d) => Justified(d)'
    BY <2>1, <2>2, <2>4 DEF Justified, Stuck
  <2>6. Justified(c)'
    <3>1. CASE RMS_SignalAlarm(c)
      <4>1. pc[RMSCalc] = "alarm"
        BY <3>1 DEF RMS_SignalAlarm, At
      <4>2. OutOfBand(RMS[c]) \/ Stuck(c)
        BY <2>1, <4>1 DEF PassInv
      <4> QED
        BY <2>5, <4>2 DEF Justified
    <3>2. CASE RMS_ClearAlarm(c)
      <4>1. voltageAlarm' = [voltageAlarm EXCEPT ![c] = FALSE]
        BY <3>2 DEF RMS_ClearAlarm
      <4>2. ~ voltageAlarm'[c]
        BY <4>1, Zenon DEF Typing
      <4> QED
        BY <4>2 DEF Justified
    <3> QED
      BY <1>4, <3>1, <3>2
  <2>7. \A d \in Channels : d < c + 1 => Justified(d)'
    <3> TAKE d \in Channels
    <3>1. d < c + 1 => d < c \/ d = c
      BY DEF Channels
    <3> QED
      BY <2>1, <2>5, <2>6, <3>1 DEF PassInv
  <2>8. CASE channelNb'[RMSCalc] = c + 1 /\ pc'[RMSCalc] = "check"
    BY <2>1, <2>2, <2>4, <2>7, <2>8 DEF PassInv, Typing
  <2>9. CASE /\ c + 1 >= NB_ANALOG_CHANNELS
             /\ channelNb'[RMSCalc] = 0 /\ pc'[RMSCalc] = "wait"
    <3>1. \A d \in Channels : d < c + 1
      BY <2>9, ChannelAssumption DEF Channels
    <3>2. \A d \in Channels : Justified(d)'
      BY <2>7, <3>1
    <3> QED
      BY <2>1, <2>2, <2>4, <2>9, <3>2 DEF PassInv, Typing
  <2> QED
    BY <2>4, <2>8, <2>9
<1> QED
  BY <1>1, <1>2, <1>3, <1>4 DEF RMS_CalcThread

\* The invariant of the passes holds at the start.
LEMMA PassInit == Init => Typing /\ PassInv
BY ThreadsDiffer DEF Init, Typing, PassInv, Justified, Labels

\* Every step of every thread keeps the invariant of the passes.
LEMMA PassStep == Typing /\ PassInv /\ [Next]_vars => (Typing /\ PassInv)'
<1> SUFFICES ASSUME Typing, PassInv, [Next]_vars PROVE Typing' /\ PassInv'
  OBVIOUS
<1>0. channelNb[RMSCalc] \in Channels
  BY ThreadsDiffer DEF Typing
<1>1. CASE PIT_ISR \/ SetMode \/ SampleThread \/ SignalOutput_Thread
  <2>1. \A c \in Channels : Stuck(c) => Stuck(c)'
    BY <1>1, OtherSteps DEF Stuck
  <2> QED
    BY <1>0, <1>1, <2>1, OtherSteps, QuietStep
<1>2. CASE RMS_CalcThread
  BY <1>2, RMSSteps
<1>3. ASSUME NEW c \in Channels, Alarm_Thread(c)
      PROVE  Typing' /\ PassInv'
  <2>1. CASE Alarm_Recalculate(c)
    BY <2>1, RecalculateStep
  <2>2. CASE ~ Alarm_Recalculate(c)
    BY <1>0, <1>3, <2>2, AlarmSteps, QuietStep
  <2> QED
    BY <2>1, <2>2
<1>4. CASE UNCHANGED vars
  BY <1>4 DEF vars, flags, Typing, PassInv, Justified, Stuck
<1> QED
  BY <1>1, <1>2, <1>3, <1>4 DEF Next

\* Between two passes of RMS_CalcThread every alarm that is on belongs to a
\* channel out of band or to one whose Alarm_Thread is stuck, whatever the load
\* and the order in which the threads preempt each other.
THEOREM AlarmOnlyWhenOutHolds == Spec => []AlarmOnlyWhenOut
<1>1. PassInv => AlarmOnlyWhenOut
  BY DEF PassInv, AlarmOnlyWhenOut, Justified
<1> QED
  BY PassInit, PassStep, <1>1, PTL DEF Spec

-----------------------------------------------------------------------------
\* The semaphores are different ones.
LEMMA SemaphoresDiffer ==
  /\ PITSemaphore \in Semaphores /\ RMSCalcSemaphore \in Semaphores
  /\ SignalOutputSemaphore \in Semaphores /\ PITCountSemaphore \in Semaphores
  /\ SignalOutputSemaphore \notin {PITSemaphore, RMSCalcSemaphore, PITCountSemaphore}
  /\ PITCountSemaphore \notin {PITSemaphore, RMSCalcSemaphore}
  /\ PITSemaphore # RMSCalcSemaphore
  /\ \A c \in Channels :
        /\ voltageCheck(c) \in Semaphores /\ timeCount(c) \in Semaphores
        /\ {voltageCheck(c), timeCount(c)} \cap
             {SignalOutputSemaphore, PITCountSemaphore, PITSemaphore, RMSCalcSemaphore} = {}
        /\ \A d \in Channels :
              /\ voltageCheck(c) # timeCount(d)
              /\ voltageCheck(c) = voltageCheck(d) => c = d
              /\ timeCount(c) = timeCount(d) => c = d
BY DEF Semaphores, PITSemaphore, RMSCalcSemaphore, SignalOutputSemaphore, PITCountSemaphore,
       voltageCheck, timeCount

\* The thread that waits for each semaphore, and what it does next; only for
\* PITCountSemaphore several threads may wait.
Waits(t, s, label) ==
    \/ t = Sample /\ s = PITSemaphore /\ label = "get"
    \/ t = RMSCalc /\ s = RMSCalcSemaphore /\ label = "calculate"
    \/ t = SignalOutput /\ s = SignalOutputSemaphore /\ label = "read"
    \/ \E c \in Channels :
        /\ t = Alarm(c)
        /\ \/ s = voltageCheck(c) /\ label = "switch"
           \/ s = timeCount(c) /\ label = "readRaise"
           \/ s = PITCountSemaphore /\ label = "inverseLoop"

\* A semaphore has one waiter, PITCountSemaphore apart.
LEMMA OneWaiter ==
  ASSUME NEW t \in Threads, NEW u \in Threads, NEW s \in Semaphores,
         NEW at, NEW label, s # PITCountSemaphore,
         Waits(t, s, at), Waits(u, s, label)
  PROVE  t = u
<1>1. CASE s \in {PITSemaphore, RMSCalcSemaphore, SignalOutputSemaphore}
  <2>1. \A c \in Channels : s # voltageCheck(c) /\ s # timeCount(c)
    BY <1>1, SemaphoresDiffer
  <2> QED
    BY <1>1, <2>1, SemaphoresDiffer DEF Waits
<1>2. CASE s \notin {PITSemaphore, RMSCalcSemaphore, SignalOutputSemaphore}
  <2>1. PICK c \in Channels : t = Alarm(c) /\ s \in {voltageCheck(c), timeCount(c)}
    BY <1>2 DEF Waits
  <2>2. PICK d \in Channels : u = Alarm(d) /\ s \in {voltageCheck(d), timeCount(d)}
    BY <1>2 DEF Waits
  <2>3. c = d
    BY <2>1, <2>2, SemaphoresDiffer, Zenon
  <2> QED
    BY <2>1, <2>2, <2>3
<1> QED
  BY <1>1, <1>2

\* What a thread does next says what it waits for.
LEMMA OneSemaphore ==
  ASSUME NEW t \in Threads, NEW r, NEW s, NEW label,
         Waits(t, r, label), Waits(t, s, label)
  PROVE  r = s
<1>1. CASE t \in {Sample, RMSCalc, SignalOutput}
  BY <1>1, ThreadsDiffer DEF Waits
<1>2. CASE t \notin {Sample, RMSCalc, SignalOutput}
  <2>1. PICK c \in Channels :
          /\ t = Alarm(c)
          /\ \/ r = voltageCheck(c) /\ label = "switch"
             \/ r = timeCount(c) /\ label = "readRaise"
             \/ r = PITCountSemaphore /\ label = "inverseLoop"
    BY <1>2 DEF Waits
  <2>2. PICK d \in Channels :
          /\ t = Alarm(d)
          /\ \/ s = voltageCheck(d) /\ label = "switch"
             \/ s = timeCount(d) /\ label = "readRaise"
             \/ s = PITCountSemaphore /\ label = "inverseLoop"
    BY <1>2 DEF Waits
  <2>3. c = d
    BY <2>1, <2>2, ThreadsDiffer
  <2> QED
    BY <2>1, <2>2, <2>3
<1> QED
  BY <1>1, <1>2

\* The threads and the kernel: a thread is ready, or waits for a semaphore that
\* has no count.
Sleeping ==
    /\ Kernel!TypeOK
    /\ pc \in [Threads -> Labels]
    /\ \A s \in Semaphores : count[s] > 0 => waitList[s] = {}
    /\ \A t \in Threads, s \in Semaphores :
        t \in waitList[s] => t \notin readyList /\ Waits(t, s, pc[t])
    /\ \A t \in Threads : t \in readyList \/ \E s \in Semaphores : t \in waitList[s]

\* A thread waits.
LEMMA WaitStep ==
  ASSUME Sleeping, NEW t \in Threads, NEW s \in Semaphores, NEW label \in Labels,
         Wait(t, s), Goto(t, label), Waits(t, s, label)
  PROVE  /\ Sleeping'
         /\ \A r \in Semaphores : t \notin waitList[r]
         /\ pc'[t] = label /\ \A u \in Threads : u # t => pc'[u] = pc[u]
         /\ \A r \in Semaphores : r # s => count'[r] = count[r] /\ waitList'[r] = waitList[r]
         /\ \/ count[s] > 0 /\ waitList'[s] = waitList[s]
            \/ count[s] = 0 /\ count'[s] = 0 /\ t \in waitList'[s]
<1> USE CountAssumption DEF Sleeping, Kernel!TypeOK
<1>1. /\ t \in readyList
      /\ \A r \in Semaphores : t \notin waitList[r]
  BY DEF Wait, Kernel!OS_SemaphoreWait, Kernel!Running, Kernel!Highest
<1>2. pc' = [pc EXCEPT ![t] = label]
  BY DEF Goto
<1>3. CASE /\ count[s] > 0
           /\ count' = [count EXCEPT ![s] = @ - 1]
           /\ UNCHANGED <<waitList, readyList>>
  BY <1>1, <1>2, <1>3
<1>4. CASE /\ count[s] = 0
           /\ waitList' = [waitList EXCEPT ![s] = @ \cup {t}]
           /\ readyList' = readyList \ {t}
           /\ UNCHANGED count
  BY <1>1, <1>2, <1>4
<1> QED
  BY <1>3, <1>4 DEF Wait, Kernel!OS_SemaphoreWait

\* A semaphore is signalled, and a thread that does not sleep may go on.
LEMMA SignalStep ==
  ASSUME Sleeping, NEW s \in Semaphores, s # PITCountSemaphore, Signal(s),
         pc' \in [Threads -> Labels],
         \A u \in Threads \ readyList : pc'[u] = pc[u]
  PROVE  /\ Sleeping'
         /\ \A r \in Semaphores : r # s => count'[r] = count[r] /\ waitList'[r] = waitList[r]
         /\ \/ count'[s] > 0
            \/ waitList'[s] = {} /\ \E u \in Threads : u \in waitList[s]
<1> USE CountAssumption DEF Sleeping, Kernel!TypeOK
<1>1. CASE Kernel!SignalOverflows(s)
  BY <1>1 DEF Kernel!SignalOverflows, Kernel!vars
<1>2. CASE Kernel!SignalCounts(s)
  BY <1>2 DEF Kernel!SignalCounts
<1>3. CASE Kernel!SignalHandsOver(s)
  <2>1. PICK u \in waitList[s] :
          /\ waitList' = [waitList EXCEPT ![s] = @ \ {u}]
          /\ readyList' = readyList \cup {u}
          /\ count' = count
    BY <1>3 DEF Kernel!SignalHandsOver
  <2>2. u \in Threads /\ Waits(u, s, pc[u]) /\ u \notin readyList
    BY <2>1
  <2>3. waitList[s] = {u}
    <3> SUFFICES ASSUME NEW v \in waitList[s] PROVE v = u
      BY <2>1
    <3> QED
      BY <2>2, OneWaiter
  <2>4. \A r \in Semaphores : u \in waitList[r] => r = s
    BY <2>2, OneSemaphore
  <2>5. \A r \in Semaphores : waitList'[r] = IF r = s THEN {} ELSE waitList[r]
    BY <2>1, <2>3
  <2>6. \A r \in Semaphores : u \notin waitList'[r]
    BY <2>4, <2>5
  <2>7. Sleeping'
    <3>1. /\ waitList' \in [Semaphores -> SUBSET Threads]
          /\ readyList' \in SUBSET Threads
          /\ \A r \in Semaphores : count'[r] > 0 => waitList'[r] = {}
      BY <2>1, <2>2, <2>5
    <3>2. \A t \in Threads, r \in Semaphores :
            t \in waitList'[r] => t \notin readyList' /\ Waits(t, r, pc'[t])
      BY <2>1, <2>5, <2>6
    <3>3. \A t \in Threads : t \in readyList' \/ \E r \in Semaphores : t \in waitList'[r]
      BY <2>1, <2>3, <2>5
    <3> QED
      BY <2>1, <3>1, <3>2, <3>3
  <2> QED
    BY <2>1, <2>2, <2>5, <2>7
<1> QED
  BY <1>1, <1>2, <1>3 DEF Signal, Kernel!OS_SemaphoreSignal

\* The thread that runs is ready and sleeps nowhere.
LEMMA RunningStep ==
  ASSUME Sleeping, NEW t \in Threads, NEW at, At(t, at)
  PROVE  pc[t] = at /\ t \in readyList /\ \A s \in Semaphores : t \notin waitList[s]
BY DEF Sleeping, At, Kernel!Running, Kernel!Highest

\* Only the thread that runs moves: the others keep their place.
LEMMA OthersStay ==
  ASSUME Sleeping, NEW t \in Threads, NEW at, At(t, at),
         \A u \in Threads : u # t => pc'[u] = pc[u]
  PROVE  \A u \in Threads \ readyList : pc'[u] = pc[u]
BY RunningStep

\* A step that leaves the kernel alone.
LEMMA QuietKernel ==
  ASSUME Sleeping, UNCHANGED kernel, pc' \in [Threads -> Labels],
         \A u \in Threads \ readyList : pc'[u] = pc[u]
  PROVE  Sleeping'
<1>1. count' = count /\ waitList' = waitList /\ readyList' = readyList
  BY DEF kernel
<1>2. Kernel!TypeOK'
  BY <1>1 DEF Sleeping, Kernel!TypeOK
<1>3. \A t \in Threads, s \in Semaphores :
        t \in waitList'[s] => t \notin readyList' /\ Waits(t, s, pc'[t])
  BY <1>1 DEF Sleeping
<1> QED
  BY <1>1, <1>2, <1>3 DEF Sleeping

-----------------------------------------------------------------------------
\* The Alarm_Thread of the last channel has set the flag of output l and is about
\* to signal SignalOutput_Thread.
Leaving(l) ==
    \/ l = 1 /\ pc[Alarm(Last)] = "raiseSignal"
    \/ l = 0 /\ pc[Alarm(Last)] = "lowerSignal"

\* A pass over the outputs is still to come, or SignalOutput_Thread is to be
\* signalled for one.
Announced(l) == count[SignalOutputSemaphore] > 0 \/ Leaving(l)

\* SignalOutput_Thread is in a pass that is still to read the flag of output l.
Ahead(l) ==
    /\ pc[SignalOutput] \in {"read", "put"}
    /\ SignalOutput \notin waitList[SignalOutputSemaphore]
    /\ \/ channelNb[SignalOutput] < Last
       \/ line > l
       \/ line = l /\ pc[SignalOutput] = "read"

\* It has read the flag of output l.
AtIt(l) ==
    /\ pc[SignalOutput] = "put"
    /\ channelNb[SignalOutput] = Last
    /\ line = l

OutputTyping ==
    /\ dac \in [0 .. 2 -> BOOLEAN]
    /\ line \in 0 .. 2
    /\ shown \in BOOLEAN
    /\ raiseRequest \in [Channels -> BOOLEAN]
    /\ lowerRequest \in [Channels -> BOOLEAN]

RestInv ==
    /\ pc[SignalOutput] \in {"wait", "read", "put"}
    /\ pc[SignalOutput] = "wait" \/ SignalOutput \in waitList[SignalOutputSemaphore] =>
          channelNb[SignalOutput] = 0 /\ line = 2
    /\ \A l \in 0 .. 2 :
          Flag(Last, l) =>
              \/ Announced(l)
              \/ Ahead(l)
              \/ AtIt(l) /\ shown
              \/ dac[l] /\ ~ AtIt(l)

\* SignalOutput_Thread stays where it is.
OutputStays ==
    /\ pc'[SignalOutput] = pc[SignalOutput]
    /\ channelNb'[SignalOutput] = channelNb[SignalOutput]
    /\ UNCHANGED output

\* A step of another thread that sets no flag without announcing it, clears no
\* output and does not touch SignalOutputSemaphore.
LEMMA RestByOther ==
  ASSUME RestInv, OutputStays,
         waitList'[SignalOutputSemaphore] = waitList[SignalOutputSemaphore],
         \A l \in 0 .. 2 : Flag(Last, l)' => Flag(Last, l) \/ Announced(l)',
         \A l \in 0 .. 2 : Announced(l) => Announced(l)',
         \A l \in 0 .. 2 : dac[l] => dac'[l]
  PROVE  RestInv'
<1>1. line' = line /\ shown' = shown
  BY DEF OutputStays, output
<1>2. ASSUME NEW l \in 0 .. 2
      PROVE  (Ahead(l)' <=> Ahead(l)) /\ (AtIt(l)' <=> AtIt(l))
  BY <1>1 DEF Ahead, AtIt, OutputStays, Last
<1>3. ASSUME NEW l \in 0 .. 2, Flag(Last, l)', ~ Announced(l)'
      PROVE  Ahead(l)' \/ (AtIt(l)' /\ shown') \/ (dac'[l] /\ ~ AtIt(l)')
  <2>1. Flag(Last, l) /\ ~ Announced(l)
    BY <1>3
  <2> QED
    BY <1>1, <1>2, <2>1 DEF RestInv
<1>4. \A l \in 0 .. 2 :
        Flag(Last, l)' => Announced(l)' \/ Ahead(l)' \/ (AtIt(l)' /\ shown') \/ (dac'[l] /\ ~ AtIt(l)')
  BY <1>3
<1>5. /\ pc'[SignalOutput] \in {"wait", "read", "put"}
      /\ pc'[SignalOutput] = "wait" \/ SignalOutput \in waitList'[SignalOutputSemaphore] =>
            channelNb'[SignalOutput] = 0 /\ line' = 2
  BY <1>1 DEF RestInv, OutputStays
<1> QED
  BY <1>4, <1>5 DEF RestInv

\* A signal to SignalOutput_Thread announces a pass over every output.
LEMMA RestBySignal ==
  ASSUME Sleeping, RestInv, OutputStays, Signal(SignalOutputSemaphore), Sleeping',
         pc' \in [Threads -> Labels],
         \A u \in Threads \ readyList : pc'[u] = pc[u]
  PROVE  RestInv'
<1>1. line' = line /\ shown' = shown
  BY DEF OutputStays, output
<1>2. /\ pc'[SignalOutput] \in {"wait", "read", "put"}
      /\ pc'[SignalOutput] = pc[SignalOutput]
      /\ channelNb'[SignalOutput] = channelNb[SignalOutput]
  BY DEF RestInv, OutputStays
<1>3. CASE count'[SignalOutputSemaphore] > 0
  <2>1. waitList'[SignalOutputSemaphore] = {}
    BY <1>3, SemaphoresDiffer DEF Sleeping
  <2>2. \A l \in 0 .. 2 : Announced(l)'
    BY <1>3 DEF Announced
  <2> QED
    BY <1>1, <1>2, <2>1, <2>2 DEF RestInv
<1>4. CASE /\ waitList'[SignalOutputSemaphore] = {}
           /\ \E u \in Threads : u \in waitList[SignalOutputSemaphore]
  <2>1. PICK u \in Threads : u \in waitList[SignalOutputSemaphore]
    BY <1>4
  <2>2. Waits(u, SignalOutputSemaphore, pc[u])
    BY <2>1, SemaphoresDiffer DEF Sleeping
  <2>3. u = SignalOutput /\ pc[u] = "read"
    <3>1. \A c \in Channels :
            SignalOutputSemaphore # voltageCheck(c) /\ SignalOutputSemaphore # timeCount(c)
      BY SemaphoresDiffer
    <3> QED
      BY <2>2, <3>1, SemaphoresDiffer DEF Waits
  <2>4. line = 2
    BY <2>1, <2>3 DEF RestInv
  <2>5. \A l \in 0 .. 2 : Ahead(l)'
    BY <1>1, <1>2, <1>4, <2>3, <2>4 DEF Ahead
  <2> QED
    BY <1>1, <1>2, <1>4, <2>3, <2>5 DEF RestInv
<1> QED
  BY <1>3, <1>4, SignalStep, SemaphoresDiffer

\* The flags by their outputs.
LEMMA FlagValues ==
  ASSUME NEW c
  PROVE  /\ Flag(c, 2) = voltageAlarm[c]
         /\ Flag(c, 1) = raiseRequest[c]
         /\ Flag(c, 0) = lowerRequest[c]
         /\ Flag(c, 2)' = voltageAlarm'[c]
         /\ Flag(c, 1)' = raiseRequest'[c]
         /\ Flag(c, 0)' = lowerRequest'[c]
BY DEF Flag

\* SignalOutput_Thread waits: it takes a count, and a pass begins, or it sleeps
\* when no pass is due.
LEMMA OutputWaits ==
  ASSUME Typing, OutputTyping, Sleeping, RestInv, SignalOutput_Wait
  PROVE  Sleeping' /\ OutputTyping' /\ RestInv'
<1> USE ThreadsDiffer, SemaphoresDiffer
<1>1. /\ pc[SignalOutput] = "wait"
      /\ Wait(SignalOutput, SignalOutputSemaphore)
      /\ Goto(SignalOutput, "read")
      /\ UNCHANGED <<channelNb, RMS, voltageAlarm, raiseRequest, lowerRequest, dac, line, shown>>
  BY DEF SignalOutput_Wait, flags, output
<1>2. Waits(SignalOutput, SignalOutputSemaphore, "read") /\ "read" \in Labels
  BY DEF Waits, Labels
<1>3. /\ Sleeping'
      /\ SignalOutput \notin waitList[SignalOutputSemaphore]
      /\ pc'[SignalOutput] = "read"
      /\ \A u \in Threads : u # SignalOutput => pc'[u] = pc[u]
      /\ \/ /\ count[SignalOutputSemaphore] > 0
            /\ waitList'[SignalOutputSemaphore] = waitList[SignalOutputSemaphore]
         \/ /\ count[SignalOutputSemaphore] = 0 /\ count'[SignalOutputSemaphore] = 0
  BY <1>1, <1>2, WaitStep
<1>4. channelNb[SignalOutput] = 0 /\ line = 2
  BY <1>1 DEF RestInv
<1>5. OutputTyping'
  BY <1>1 DEF OutputTyping
<1>6. CASE /\ count[SignalOutputSemaphore] > 0
           /\ waitList'[SignalOutputSemaphore] = waitList[SignalOutputSemaphore]
  <2>1. \A l \in 0 .. 2 : Ahead(l)'
    BY <1>1, <1>3, <1>4, <1>6 DEF Ahead
  <2> QED
    BY <1>1, <1>3, <1>4, <1>5, <2>1 DEF RestInv
<1>7. CASE count[SignalOutputSemaphore] = 0 /\ count'[SignalOutputSemaphore] = 0
  <2>1. Last \in Channels
    BY ChannelAssumption DEF Last, Channels
  <2>2. \A l \in 0 .. 2 : Announced(l) => Announced(l)'
    BY <1>3, <1>7, <2>1 DEF Announced, Leaving, Last
  <2>3. \A l \in 0 .. 2 : ~ Ahead(l) /\ ~ AtIt(l) /\ ~ AtIt(l)'
    BY <1>1, <1>3 DEF Ahead, AtIt
  <2>4. \A l \in 0 .. 2 : Flag(Last, l)' <=> Flag(Last, l)
    BY <1>1 DEF Flag, Last
  <2>5. \A l \in 0 .. 2 : Flag(Last, l)' => Announced(l)' \/ (dac'[l] /\ ~ AtIt(l)')
    BY <1>1, <2>2, <2>3, <2>4 DEF RestInv
  <2> QED
    BY <1>1, <1>3, <1>4, <1>5, <2>5 DEF RestInv
<1> QED
  BY <1>3, <1>6, <1>7

\* It reads the flag of the output it is at, which need not be the one it had when
\* the pass was announced.
LEMMA OutputReads ==
  ASSUME Typing, OutputTyping, Sleeping, RestInv, SignalOutput_Read
  PROVE  Sleeping' /\ OutputTyping' /\ RestInv'
<1> USE ThreadsDiffer, SemaphoresDiffer
<1>1. /\ At(SignalOutput, "read")
      /\ shown' = Flag(channelNb[SignalOutput], line)
      /\ Goto(SignalOutput, "put")
      /\ UNCHANGED <<kernel, channelNb, RMS, voltageAlarm, raiseRequest, lowerRequest, dac, line>>
  BY DEF SignalOutput_Read, flags
<1>2. /\ pc[SignalOutput] = "read"
      /\ SignalOutput \notin waitList[SignalOutputSemaphore]
  BY <1>1, RunningStep
<1>3. /\ pc' \in [Threads -> Labels]
      /\ pc'[SignalOutput] = "put"
      /\ \A u \in Threads : u # SignalOutput => pc'[u] = pc[u]
  BY <1>1, GotoEffect DEF Labels
<1>4. Sleeping'
  BY <1>1, <1>3, OthersStay, QuietKernel
<1>5. count' = count /\ waitList' = waitList
  BY <1>1 DEF kernel
<1>6. channelNb[SignalOutput] \in Channels
  BY DEF Typing
<1>7. OutputTyping'
  <2>1. Flag(channelNb[SignalOutput], line) \in BOOLEAN
    BY <1>6 DEF Flag, OutputTyping, Typing
  <2> QED
    BY <1>1, <2>1 DEF OutputTyping
<1>8. ASSUME NEW l \in 0 .. 2, Flag(Last, l)'
      PROVE  Announced(l)' \/ Ahead(l)' \/ (AtIt(l)' /\ shown') \/ (dac'[l] /\ ~ AtIt(l)')
  <2>1. Flag(Last, l)
    BY <1>1, <1>8 DEF Flag, Last
  <2>2. Last \in Channels
    BY ChannelAssumption DEF Last, Channels
  <2>3. CASE AtIt(l)'
    <3>1. channelNb[SignalOutput] = Last /\ line = l
      BY <1>1, <2>3 DEF AtIt, Last
    <3> QED
      BY <1>1, <2>1, <2>3, <3>1
  <2>4. CASE ~ AtIt(l)'
    <3>1. Announced(l) => Announced(l)'
      BY <1>3, <1>5, <2>2 DEF Announced, Leaving, Last
    <3>2. Ahead(l) => Ahead(l)'
      <4>1. channelNb[SignalOutput] < Last \/ channelNb[SignalOutput] = Last
        BY <1>6, ChannelAssumption DEF Last, Channels
      <4> QED
        BY <1>1, <1>2, <1>3, <1>5, <2>4, <4>1 DEF Ahead, AtIt, Last
    <3>3. ~ AtIt(l)
      BY <1>2 DEF AtIt
    <3> QED
      BY <1>1, <2>1, <2>4, <3>1, <3>2, <3>3 DEF RestInv
  <2> QED
    BY <2>3, <2>4
<1>9. RestInv'
  BY <1>2, <1>3, <1>5, <1>8 DEF RestInv
<1> QED
  BY <1>4, <1>7, <1>9

\* It drives the output with what it read and goes on to the next one.
LEMMA OutputPuts ==
  ASSUME Typing, OutputTyping, Sleeping, RestInv, SignalOutput_Put
  PROVE  Sleeping' /\ OutputTyping' /\ RestInv'
<1> USE ThreadsDiffer, SemaphoresDiffer
<1>1. /\ At(SignalOutput, "put")
      /\ dac' = [dac EXCEPT ![line] = shown]
      /\ \/ line > 0 /\ line' = line - 1 /\ Goto(SignalOutput, "read") /\ UNCHANGED channelNb
         \/ line = 0 /\ line' = 2 /\ NextChannel(SignalOutput, "read", "wait")
      /\ shown' = FALSE
      /\ UNCHANGED <<kernel, RMS, voltageAlarm, raiseRequest, lowerRequest>>
  BY DEF SignalOutput_Put, flags, OutputTyping
<1>2. /\ pc[SignalOutput] = "put"
      /\ SignalOutput \notin waitList[SignalOutputSemaphore]
  BY <1>1, RunningStep
<1>3. channelNb[SignalOutput] \in Channels /\ Last \in Channels
  BY ChannelAssumption DEF Typing, Last, Channels
<1>4. /\ pc' \in [Threads -> Labels]
      /\ \A u \in Threads : u # SignalOutput => pc'[u] = pc[u]
      /\ \/ /\ line > 0 /\ line' = line - 1
            /\ pc'[SignalOutput] = "read" /\ channelNb' = channelNb
         \/ /\ line = 0 /\ line' = 2
            /\ pc'[SignalOutput] = "read"
            /\ channelNb[SignalOutput] + 1 < NB_ANALOG_CHANNELS
            /\ channelNb'[SignalOutput] = channelNb[SignalOutput] + 1
         \/ /\ line = 0 /\ line' = 2
            /\ pc'[SignalOutput] = "wait"
            /\ channelNb[SignalOutput] + 1 >= NB_ANALOG_CHANNELS
            /\ channelNb'[SignalOutput] = 0
  <2>1. CASE line > 0 /\ line' = line - 1 /\ Goto(SignalOutput, "read") /\ UNCHANGED channelNb
    BY <2>1, GotoEffect DEF Labels
  <2>2. CASE line = 0 /\ line' = 2 /\ NextChannel(SignalOutput, "read", "wait")
    <3>1. "read" \in Labels /\ "wait" \in Labels
      BY DEF Labels
    <3> QED
      BY <2>2, <3>1, NextChannelEffect
  <2> QED
    BY <1>1, <2>1, <2>2
<1>5. Sleeping'
  BY <1>1, <1>4, OthersStay, QuietKernel
<1>6. count' = count /\ waitList' = waitList
  BY <1>1 DEF kernel
<1>7. OutputTyping'
  <2>1. dac' \in [0 .. 2 -> BOOLEAN]
    BY <1>1, Zenon DEF OutputTyping
  <2>2. line' \in 0 .. 2
    BY <1>4 DEF OutputTyping
  <2>3. raiseRequest' = raiseRequest /\ lowerRequest' = lowerRequest /\ shown' = FALSE
    BY <1>1
  <2> QED
    BY <2>1, <2>2, <2>3 DEF OutputTyping
<1>8. /\ dac'[line] = shown
      /\ \A l \in 0 .. 2 : l # line => dac'[l] = dac[l]
  BY <1>1, Zenon DEF OutputTyping
<1>9. \A l \in 0 .. 2 : ~ AtIt(l)'
  BY <1>4 DEF AtIt
<1>10. ASSUME NEW l \in 0 .. 2, Flag(Last, l)'
       PROVE  Announced(l)' \/ Ahead(l)' \/ dac'[l]
  <2>1. Flag(Last, l)
    BY <1>1, <1>10 DEF Flag, Last
  <2>2. Announced(l) => Announced(l)'
    BY <1>3, <1>4, <1>6 DEF Announced, Leaving, Last
  <2>3. Ahead(l) => Ahead(l)'
    BY <1>2, <1>3, <1>4, <1>6, ChannelAssumption DEF Ahead, Last, Channels, OutputTyping
  <2>4. CASE AtIt(l) /\ shown
    BY <1>8, <2>4 DEF AtIt
  <2>5. CASE dac[l] /\ ~ AtIt(l)
    <3>1. CASE l = line
      <4>1. channelNb[SignalOutput] < Last
        BY <1>2, <1>3, <2>5, <3>1, ChannelAssumption DEF AtIt, Last, Channels
      <4>2. Ahead(l)
        BY <1>2, <4>1 DEF Ahead
      <4> QED
        BY <2>3, <4>2
    <3>2. CASE l # line
      BY <1>8, <2>5, <3>2
    <3> QED
      BY <3>1, <3>2
  <2> QED
    BY <2>1, <2>2, <2>3, <2>4, <2>5 DEF RestInv
<1>11. RestInv'
  BY <1>2, <1>4, <1>6, <1>9, <1>10 DEF RestInv
<1> QED
  BY <1>5, <1>7, <1>11

\* The steps of the PIT, of the packet handler and of Sample_Thread touch
\* neither flags nor outputs.
LEMMA SampleRests ==
  ASSUME Typing, OutputTyping, Sleeping, RestInv, PIT_ISR \/ SetMode \/ SampleThread
  PROVE  Sleeping' /\ OutputTyping' /\ RestInv'
<1> USE ThreadsDiffer, SemaphoresDiffer
<1>1. UNCHANGED <<voltageAlarm, raiseRequest, lowerRequest, dac, line, shown>>
  BY DEF PIT_ISR, SetMode, SampleThread, Sample_Wait, Sample_Get, Sample_SignalRMS,
         Sample_SignalTime, flags, output
<1>2. Last \in Channels
  BY ChannelAssumption DEF Last, Channels
<1>3. ASSUME Sleeping',
             \A u \in Threads : u # Sample =>
                pc'[u] = pc[u] /\ channelNb'[u] = channelNb[u],
             count'[SignalOutputSemaphore] = count[SignalOutputSemaphore],
             waitList'[SignalOutputSemaphore] = waitList[SignalOutputSemaphore]
      PROVE  RestInv'
  <2>1. OutputStays
    BY <1>1, <1>3 DEF OutputStays, output
  <2>2. \A l \in 0 .. 2 : Announced(l) => Announced(l)'
    BY <1>2, <1>3 DEF Announced, Leaving, Last
  <2>3. \A l \in 0 .. 2 : Flag(Last, l)' <=> Flag(Last, l)
    BY <1>1 DEF Flag, Last
  <2> QED
    BY <1>1, <1>3, <2>1, <2>2, <2>3, RestByOther
<1>4. OutputTyping'
  BY <1>1 DEF OutputTyping
<1>5. CASE PIT_ISR
  <2>1. Signal(PITSemaphore) /\ UNCHANGED <<pc, channelNb>>
    BY <1>5 DEF PIT_ISR
  <2>2. pc' \in [Threads -> Labels] /\ \A u \in Threads : pc'[u] = pc[u]
    BY <2>1 DEF Sleeping
  <2>3. /\ Sleeping'
        /\ count'[SignalOutputSemaphore] = count[SignalOutputSemaphore]
        /\ waitList'[SignalOutputSemaphore] = waitList[SignalOutputSemaphore]
    BY <2>1, <2>2, SignalStep
  <2> QED
    BY <1>3, <1>4, <2>1, <2>3
<1>6. CASE SetMode
  <2>1. UNCHANGED <<kernel, pc, channelNb>>
    BY <1>6 DEF SetMode
  <2>2. pc' \in [Threads -> Labels] /\ \A u \in Threads : pc'[u] = pc[u]
    BY <2>1 DEF Sleeping
  <2>3. Sleeping' /\ count' = count /\ waitList' = waitList
    BY <2>1, <2>2, QuietKernel DEF kernel
  <2> QED
    BY <1>3, <1>4, <2>1, <2>3
<1>7. CASE Sample_Wait
  <2>1. /\ Wait(Sample, PITSemaphore) /\ Goto(Sample, "get") /\ UNCHANGED channelNb
    BY <1>7 DEF Sample_Wait
  <2>2. Waits(Sample, PITSemaphore, "get") /\ "get" \in Labels
    BY DEF Waits, Labels
  <2>3. /\ Sleeping'
        /\ \A u \in Threads : u # Sample => pc'[u] = pc[u]
        /\ count'[SignalOutputSemaphore] = count[SignalOutputSemaphore]
        /\ waitList'[SignalOutputSemaphore] = waitList[SignalOutputSemaphore]
    BY <2>1, <2>2, WaitStep
  <2> QED
    BY <1>3, <1>4, <2>1, <2>3
<1>8. CASE Sample_Get
  <2>1. /\ At(Sample, "get") /\ UNCHANGED <<kernel, channelNb>>
        /\ \E label \in {"signal", "time"} : Goto(Sample, label)
    BY <1>8 DEF Sample_Get
  <2>2. /\ pc' \in [Threads -> Labels]
        /\ \A u \in Threads : u # Sample => pc'[u] = pc[u]
    BY <2>1, GotoEffect DEF Labels
  <2>3. Sleeping' /\ count' = count /\ waitList' = waitList
    BY <2>1, <2>2, OthersStay, QuietKernel DEF kernel
  <2> QED
    BY <1>3, <1>4, <2>1, <2>2, <2>3
<1>9. CASE Sample_SignalRMS
  <2>1. /\ At(Sample, "signal") /\ UNCHANGED channelNb
        /\ Signal(RMSCalcSemaphore) /\ Goto(Sample, "time")
    BY <1>9 DEF Sample_SignalRMS
  <2>2. /\ pc' \in [Threads -> Labels]
        /\ \A u \in Threads : u # Sample => pc'[u] = pc[u]
    BY <2>1, GotoEffect DEF Labels
  <2>3. \A u \in Threads \ readyList : pc'[u] = pc[u]
    BY <2>1, <2>2, OthersStay
  <2>4. /\ Sleeping'
        /\ count'[SignalOutputSemaphore] = count[SignalOutputSemaphore]
        /\ waitList'[SignalOutputSemaphore] = waitList[SignalOutputSemaphore]
    BY <2>1, <2>2, <2>3, SignalStep
  <2> QED
    BY <1>3, <1>4, <2>1, <2>2, <2>4
<1>10. CASE Sample_SignalTime
  <2>1. /\ At(Sample, "time")
        /\ Signal(timeCount(channelNb[Sample]))
        /\ NextChannel(Sample, "time", "wait")
    BY <1>10 DEF Sample_SignalTime
  <2>2. "time" \in Labels /\ "wait" \in Labels
    BY DEF Labels
  <2>3. /\ pc' \in [Threads -> Labels]
        /\ \A u \in Threads : u # Sample =>
             pc'[u] = pc[u] /\ channelNb'[u] = channelNb[u]
    BY <2>1, <2>2, NextChannelEffect
  <2>4. \A u \in Threads \ readyList : pc'[u] = pc[u]
    BY <2>1, <2>3, OthersStay
  <2>5. /\ timeCount(channelNb[Sample]) \in Semaphores
        /\ timeCount(channelNb[Sample]) \notin {SignalOutputSemaphore, PITCountSemaphore}
    <3>1. channelNb[Sample] \in Channels
      BY DEF Typing
    <3> QED
      BY <3>1
  <2>6. /\ Sleeping'
        /\ count'[SignalOutputSemaphore] = count[SignalOutputSemaphore]
        /\ waitList'[SignalOutputSemaphore] = waitList[SignalOutputSemaphore]
    BY <2>1, <2>3, <2>4, <2>5, SignalStep
  <2> QED
    BY <1>3, <1>4, <2>3, <2>6
<1> QED
  BY <1>5, <1>6, <1>7, <1>8, <1>9, <1>10 DEF SampleThread

\* The steps of RMS_CalcThread: every step that sets or clears flags signals
\* SignalOutput_Thread.
LEMMA RMSRests ==
  ASSUME Typing, OutputTyping, Sleeping, RestInv, RMS_CalcThread
  PROVE  Sleeping' /\ OutputTyping' /\ RestInv'
<1> USE ThreadsDiffer, SemaphoresDiffer
<1>1. Last \in Channels
  BY ChannelAssumption DEF Last, Channels
<1>2. UNCHANGED <<line, shown>>
  BY DEF RMS_CalcThread, RMS_Wait, RMS_Calculate, RMS_SetAlarm, RMS_SignalAlarm,
         RMS_ClearAlarm, output
<1>3. ASSUME \A u \in Threads : u # RMSCalc =>
                pc'[u] = pc[u] /\ channelNb'[u] = channelNb[u]
      PROVE  OutputStays
  BY <1>2, <1>3 DEF OutputStays, output
<1>4. ASSUME \A u \in Threads : u # RMSCalc =>
                pc'[u] = pc[u] /\ channelNb'[u] = channelNb[u],
             count'[SignalOutputSemaphore] = count[SignalOutputSemaphore],
             waitList'[SignalOutputSemaphore] = waitList[SignalOutputSemaphore],
             UNCHANGED <<voltageAlarm, raiseRequest, lowerRequest>>,
             \A l \in 0 .. 2 : dac[l] => dac'[l]
      PROVE  RestInv'
  <2>1. \A l \in 0 .. 2 : Announced(l) => Announced(l)'
    BY <1>1, <1>4 DEF Announced, Leaving, Last
  <2>2. \A l \in 0 .. 2 : Flag(Last, l)' <=> Flag(Last, l)
    BY <1>4 DEF Flag, Last
  <2> QED
    BY <1>3, <1>4, <2>1, <2>2, RestByOther
<1>5. CASE RMS_Wait
  <2>1. /\ Wait(RMSCalc, RMSCalcSemaphore) /\ Goto(RMSCalc, "calculate")
        /\ UNCHANGED <<channelNb, voltageAlarm, raiseRequest, lowerRequest, dac>>
    BY <1>5 DEF RMS_Wait, flags
  <2>2. Waits(RMSCalc, RMSCalcSemaphore, "calculate") /\ "calculate" \in Labels
    BY DEF Waits, Labels
  <2>3. /\ Sleeping'
        /\ \A u \in Threads : u # RMSCalc => pc'[u] = pc[u]
        /\ count'[SignalOutputSemaphore] = count[SignalOutputSemaphore]
        /\ waitList'[SignalOutputSemaphore] = waitList[SignalOutputSemaphore]
    BY <2>1, <2>2, WaitStep
  <2>4. OutputTyping'
    BY <1>2, <2>1 DEF OutputTyping
  <2> QED
    BY <1>4, <2>1, <2>3, <2>4
<1>6. CASE RMS_Calculate
  <2>1. /\ At(RMSCalc, "calculate") /\ Goto(RMSCalc, "check")
        /\ UNCHANGED <<kernel, channelNb, voltageAlarm, raiseRequest, lowerRequest, dac>>
    BY <1>6 DEF RMS_Calculate, flags
  <2>2. /\ pc' \in [Threads -> Labels]
        /\ \A u \in Threads : u # RMSCalc => pc'[u] = pc[u]
    BY <2>1, GotoEffect DEF Labels
  <2>3. Sleeping' /\ count' = count /\ waitList' = waitList
    BY <2>1, <2>2, OthersStay, QuietKernel DEF kernel
  <2>4. OutputTyping'
    BY <1>2, <2>1 DEF OutputTyping
  <2> QED
    BY <1>4, <2>1, <2>2, <2>3, <2>4
<1>7. ASSUME NEW c \in Channels, RMS_SetAlarm(c)
      PROVE  Sleeping' /\ OutputTyping' /\ RestInv'
  <2>1. /\ At(RMSCalc, "check") /\ Signal(SignalOutputSemaphore) /\ Goto(RMSCalc, "alarm")
        /\ voltageAlarm' = [voltageAlarm EXCEPT ![c] = TRUE]
        /\ UNCHANGED <<channelNb, raiseRequest, lowerRequest, dac>>
    BY <1>7 DEF RMS_SetAlarm
  <2>2. /\ pc' \in [Threads -> Labels]
        /\ \A u \in Threads : u # RMSCalc => pc'[u] = pc[u]
    BY <2>1, GotoEffect DEF Labels
  <2>3. \A u \in Threads \ readyList : pc'[u] = pc[u]
    BY <2>1, <2>2, OthersStay
  <2>4. Sleeping'
    BY <2>1, <2>2, <2>3, SignalStep
  <2>5. OutputTyping'
    BY <1>2, <2>1 DEF OutputTyping
  <2>6. OutputStays
    BY <1>3, <2>1, <2>2
  <2> QED
    BY <2>1, <2>2, <2>3, <2>4, <2>5, <2>6, RestBySignal
<1>8. ASSUME NEW c \in Channels, RMS_SignalAlarm(c)
      PROVE  Sleeping' /\ OutputTyping' /\ RestInv'
  <2>1. /\ At(RMSCalc, "alarm") /\ Signal(voltageCheck(c))
        /\ NextChannel(RMSCalc, "check", "wait")
        /\ dac' = [dac EXCEPT ![2] = TRUE]
        /\ UNCHANGED <<voltageAlarm, raiseRequest, lowerRequest>>
    BY <1>8 DEF RMS_SignalAlarm, flags
  <2>2. "check" \in Labels /\ "wait" \in Labels
    BY DEF Labels
  <2>3. /\ pc' \in [Threads -> Labels]
        /\ \A u \in Threads : u # RMSCalc =>
             pc'[u] = pc[u] /\ channelNb'[u] = channelNb[u]
    BY <2>1, <2>2, NextChannelEffect
  <2>4. \A u \in Threads \ readyList : pc'[u] = pc[u]
    BY <2>1, <2>3, OthersStay
  <2>5. /\ Sleeping'
        /\ count'[SignalOutputSemaphore] = count[SignalOutputSemaphore]
        /\ waitList'[SignalOutputSemaphore] = waitList[SignalOutputSemaphore]
    <3>1. /\ voltageCheck(c) \in Semaphores
          /\ voltageCheck(c) \notin {SignalOutputSemaphore, PITCountSemaphore}
      OBVIOUS
    <3> QED
      BY <2>1, <2>3, <2>4, <3>1, SignalStep
  <2>6. dac' \in [0 .. 2 -> BOOLEAN] /\ \A l \in 0 .. 2 : dac[l] => dac'[l]
    <3>1. 2 \in 0 .. 2
      OBVIOUS
    <3>2. dac' \in [0 .. 2 -> BOOLEAN]
      BY <2>1, Zenon DEF OutputTyping
    <3>3. dac'[2] = TRUE /\ \A l \in 0 .. 2 : l # 2 => dac'[l] = dac[l]
      BY <2>1, <3>1, Zenon DEF OutputTyping
    <3> QED
      BY <3>2, <3>3
  <2>7. OutputTyping'
    BY <1>2, <2>1, <2>6 DEF OutputTyping
  <2> QED
    BY <1>4, <2>1, <2>3, <2>5, <2>6, <2>7
<1>9. ASSUME NEW c \in Channels, RMS_ClearAlarm(c)
      PROVE  Sleeping' /\ OutputTyping' /\ RestInv'
  <2>1. /\ At(RMSCalc, "check") /\ Signal(SignalOutputSemaphore)
        /\ NextChannel(RMSCalc, "check", "wait")
        /\ dac' = [l \in 0 .. 2 |-> FALSE]
        /\ raiseRequest' = [raiseRequest EXCEPT ![c] = FALSE]
        /\ lowerRequest' = [lowerRequest EXCEPT ![c] = FALSE]
    BY <1>9 DEF RMS_ClearAlarm
  <2>2. "check" \in Labels /\ "wait" \in Labels
    BY DEF Labels
  <2>3. /\ pc' \in [Threads -> Labels]
        /\ \A u \in Threads : u # RMSCalc =>
             pc'[u] = pc[u] /\ channelNb'[u] = channelNb[u]
    BY <2>1, <2>2, NextChannelEffect
  <2>4. \A u \in Threads \ readyList : pc'[u] = pc[u]
    BY <2>1, <2>3, OthersStay
  <2>5. Sleeping'
    BY <2>1, <2>3, <2>4, SignalStep
  <2>6. OutputTyping'
    <3>1. /\ raiseRequest' \in [Channels -> BOOLEAN]
          /\ lowerRequest' \in [Channels -> BOOLEAN]
      BY <2>1, Zenon DEF OutputTyping
    <3>2. dac' \in [0 .. 2 -> BOOLEAN]
      BY <2>1
    <3> QED
      BY <1>2, <3>1, <3>2 DEF OutputTyping
  <2>7. OutputStays
    BY <1>3, <2>3
  <2> QED
    BY <2>1, <2>3, <2>4, <2>5, <2>6, <2>7, RestBySignal
<1> QED
  BY <1>5, <1>6, <1>7, <1>8, <1>9 DEF RMS_CalcThread

\* The steps of Alarm_Thread: a request that is set is announced until
\* SignalOutput_Thread is signalled.
LEMMA AlarmRests ==
  ASSUME Typing, OutputTyping, Sleeping, RestInv, NEW c \in Channels, Alarm_Thread(c)
  PROVE  Sleeping' /\ OutputTyping' /\ RestInv'
<1> USE ThreadsDiffer, SemaphoresDiffer
<1>1. Last \in Channels
  BY ChannelAssumption DEF Last, Channels
<1>2. UNCHANGED <<channelNb, line, shown>>
  BY DEF Alarm_Thread, Alarm_Wait, Alarm_Switch, Alarm_Deviation, Alarm_ReadHigh,
         Alarm_ReadLow, Alarm_Clear, Alarm_DefiniteWait, Alarm_Recalculate,
         Alarm_InverseWait, Alarm_ReadRaise, Alarm_Raise, Alarm_RaiseSignal,
         Alarm_ReadLower, Alarm_Lower, Alarm_LowerSignal, output
<1>3. ASSUME \A u \in Threads : u # Alarm(c) => pc'[u] = pc[u]
      PROVE  /\ OutputStays
             /\ c # Last => pc'[Alarm(Last)] = pc[Alarm(Last)]
  BY <1>1, <1>2, <1>3 DEF OutputStays, output
<1>4. ASSUME NEW at, pc[Alarm(c)] = at, at \notin {"raiseSignal", "lowerSignal"},
             \A u \in Threads : u # Alarm(c) => pc'[u] = pc[u],
             count'[SignalOutputSemaphore] = count[SignalOutputSemaphore]
      PROVE  \A l \in 0 .. 2 : Announced(l) => Announced(l)'
  <2>1. CASE c = Last
    BY <1>4, <2>1 DEF Announced, Leaving, Last
  <2>2. CASE c # Last
    BY <1>3, <1>4, <2>2 DEF Announced, Leaving, Last
  <2> QED
    BY <2>1, <2>2
<1>5. ASSUME NEW at, pc[Alarm(c)] = at, at \notin {"raiseSignal", "lowerSignal"},
             \A u \in Threads : u # Alarm(c) => pc'[u] = pc[u],
             count'[SignalOutputSemaphore] = count[SignalOutputSemaphore],
             waitList'[SignalOutputSemaphore] = waitList[SignalOutputSemaphore],
             UNCHANGED <<voltageAlarm, raiseRequest, lowerRequest, dac>>
      PROVE  RestInv' /\ OutputTyping'
  <2>1. \A l \in 0 .. 2 : Announced(l) => Announced(l)'
    BY <1>4, <1>5
  <2>2. \A l \in 0 .. 2 : Flag(Last, l)' <=> Flag(Last, l)
    BY <1>5 DEF Flag, Last
  <2>3. OutputTyping'
    BY <1>2, <1>5 DEF OutputTyping
  <2> QED
    BY <1>3, <1>5, <2>1, <2>2, <2>3, RestByOther
<1>6. ASSUME NEW s \in {voltageCheck(c), timeCount(c), PITCountSemaphore}, NEW at, NEW label,
             at \in {"wait", "out", "inverseWait"},
             pc[Alarm(c)] = at, Wait(Alarm(c), s), Goto(Alarm(c), label),
             \/ s = voltageCheck(c) /\ label = "switch"
             \/ s = timeCount(c) /\ label = "readRaise"
             \/ s = PITCountSemaphore /\ label = "inverseLoop",
             UNCHANGED <<voltageAlarm, raiseRequest, lowerRequest, dac>>
      PROVE  Sleeping' /\ OutputTyping' /\ RestInv'
  <2>1. Waits(Alarm(c), s, label) /\ label \in Labels
    BY <1>6 DEF Waits, Labels
  <2>2. s \in Semaphores /\ s # SignalOutputSemaphore
    BY <1>6
  <2>3. /\ Sleeping'
        /\ \A u \in Threads : u # Alarm(c) => pc'[u] = pc[u]
        /\ count'[SignalOutputSemaphore] = count[SignalOutputSemaphore]
        /\ waitList'[SignalOutputSemaphore] = waitList[SignalOutputSemaphore]
    BY <1>6, <2>1, <2>2, WaitStep
  <2> QED
    BY <1>5, <1>6, <2>3
<1>7. ASSUME NEW at, NEW label \in Labels, At(Alarm(c), at), Goto(Alarm(c), label),
             UNCHANGED kernel
      PROVE  /\ Sleeping' /\ pc[Alarm(c)] = at /\ pc'[Alarm(c)] = label
             /\ \A u \in Threads : u # Alarm(c) => pc'[u] = pc[u]
             /\ count' = count /\ waitList' = waitList
  <2>1. /\ pc' \in [Threads -> Labels] /\ pc'[Alarm(c)] = label
        /\ \A u \in Threads : u # Alarm(c) => pc'[u] = pc[u]
    BY <1>7, GotoEffect
  <2> QED
    BY <1>7, <2>1, OthersStay, QuietKernel, RunningStep DEF kernel
<1>8. CASE Alarm_Wait(c) \/ Alarm_DefiniteWait(c) \/ Alarm_InverseWait(c)
  BY <1>6, <1>8 DEF Alarm_Wait, Alarm_DefiniteWait, Alarm_InverseWait, flags
<1>9. CASE \/ Alarm_Switch(c) \/ Alarm_Deviation(c) \/ Alarm_ReadHigh(c) \/ Alarm_ReadLow(c)
           \/ Alarm_Recalculate(c) \/ Alarm_ReadRaise(c) \/ Alarm_ReadLower(c)
  <2>1. /\ UNCHANGED <<kernel, voltageAlarm, raiseRequest, lowerRequest, dac>>
        /\ \E at \in Labels \ {"raiseSignal", "lowerSignal"}, label \in Labels :
              At(Alarm(c), at) /\ Goto(Alarm(c), label)
    BY <1>9 DEF Alarm_Switch, Alarm_Deviation, Alarm_ReadHigh, Alarm_ReadLow,
       Alarm_Recalculate, Alarm_ReadRaise, Alarm_ReadLower, AfterTests, flags, Labels
  <2>2. PICK at \in Labels \ {"raiseSignal", "lowerSignal"}, label \in Labels :
          At(Alarm(c), at) /\ Goto(Alarm(c), label)
    BY <2>1
  <2>3. /\ Sleeping' /\ pc[Alarm(c)] = at
        /\ \A u \in Threads : u # Alarm(c) => pc'[u] = pc[u]
        /\ count' = count /\ waitList' = waitList
    BY <1>7, <2>1, <2>2
  <2> QED
    BY <1>5, <2>1, <2>3
<1>10. CASE Alarm_Clear(c)
  <2>1. /\ At(Alarm(c), "clear") /\ Goto(Alarm(c), "readRaise")
        /\ UNCHANGED <<kernel, dac>>
        /\ voltageAlarm' = [voltageAlarm EXCEPT ![c] = FALSE]
        /\ raiseRequest' = [raiseRequest EXCEPT ![c] = FALSE]
        /\ lowerRequest' = [lowerRequest EXCEPT ![c] = FALSE]
    BY <1>10 DEF Alarm_Clear
  <2>2. "readRaise" \in Labels
    BY DEF Labels
  <2>3. /\ Sleeping' /\ pc[Alarm(c)] = "clear"
        /\ \A u \in Threads : u # Alarm(c) => pc'[u] = pc[u]
        /\ count' = count /\ waitList' = waitList
    BY <1>7, <2>1, <2>2
  <2>4. /\ raiseRequest' \in [Channels -> BOOLEAN]
        /\ lowerRequest' \in [Channels -> BOOLEAN]
        /\ voltageAlarm'[Last] => voltageAlarm[Last]
        /\ raiseRequest'[Last] => raiseRequest[Last]
        /\ lowerRequest'[Last] => lowerRequest[Last]
    BY <1>1, <2>1, Zenon DEF OutputTyping, Typing
  <2>5. \A l \in 0 .. 2 : Flag(Last, l)' => Flag(Last, l)
    BY <1>1, <2>4, FlagValues
  <2>6. \A l \in 0 .. 2 : Announced(l) => Announced(l)'
    BY <1>4, <2>3
  <2>7. OutputTyping'
    BY <1>2, <2>1, <2>4 DEF OutputTyping
  <2> QED
    BY <1>3, <2>1, <2>3, <2>5, <2>6, <2>7, RestByOther
<1>11. CASE Alarm_Raise(c)
  <2>1. /\ At(Alarm(c), "raise") /\ Goto(Alarm(c), "raiseSignal")
        /\ UNCHANGED <<kernel, dac, voltageAlarm, lowerRequest>>
        /\ raiseRequest' = [raiseRequest EXCEPT ![c] = TRUE]
    BY <1>11 DEF Alarm_Raise
  <2>2. "raiseSignal" \in Labels
    BY DEF Labels
  <2>3. /\ Sleeping' /\ pc[Alarm(c)] = "raise" /\ pc'[Alarm(c)] = "raiseSignal"
        /\ \A u \in Threads : u # Alarm(c) => pc'[u] = pc[u]
        /\ count' = count /\ waitList' = waitList
    BY <1>7, <2>1, <2>2
  <2>4. /\ raiseRequest' \in [Channels -> BOOLEAN]
        /\ c # Last => raiseRequest'[Last] = raiseRequest[Last]
    BY <1>1, <2>1, Zenon DEF OutputTyping
  <2>5. \A l \in 0 .. 2 : Flag(Last, l)' => Flag(Last, l) \/ Announced(l)'
    <3>1. Flag(Last, 2)' => Flag(Last, 2)
      BY <2>1, FlagValues
    <3>2. Flag(Last, 1)' => Flag(Last, 1) \/ Announced(1)'
      BY <2>1, <2>3, <2>4, FlagValues DEF Announced, Leaving, Last
    <3>3. Flag(Last, 0)' => Flag(Last, 0) \/ Announced(0)'
      BY <2>1, <2>3, <2>4, FlagValues DEF Announced, Leaving, Last
    <3> QED
      BY <3>1, <3>2, <3>3
  <2>6. \A l \in 0 .. 2 : Announced(l) => Announced(l)'
    BY <1>4, <2>3
  <2>7. OutputTyping'
    BY <1>2, <2>1, <2>4 DEF OutputTyping
  <2> QED
    BY <1>3, <2>1, <2>3, <2>5, <2>6, <2>7, RestByOther
<1>12. CASE Alarm_Lower(c)
  <2>1. /\ At(Alarm(c), "lower") /\ Goto(Alarm(c), "lowerSignal")
        /\ UNCHANGED <<kernel, dac, voltageAlarm, raiseRequest>>
        /\ lowerRequest' = [lowerRequest EXCEPT ![c] = TRUE]
    BY <1>12 DEF Alarm_Lower
  <2>2. "lowerSignal" \in Labels
    BY DEF Labels
  <2>3. /\ Sleeping' /\ pc[Alarm(c)] = "lower" /\ pc'[Alarm(c)] = "lowerSignal"
        /\ \A u \in Threads : u # Alarm(c) => pc'[u] = pc[u]
        /\ count' = count /\ waitList' = waitList
    BY <1>7, <2>1, <2>2
  <2>4. /\ lowerRequest' \in [Channels -> BOOLEAN]
        /\ c # Last => lowerRequest'[Last] = lowerRequest[Last]
    BY <1>1, <2>1, Zenon DEF OutputTyping
  <2>5. \A l \in 0 .. 2 : Flag(Last, l)' => Flag(Last, l) \/ Announced(l)'
    <3>1. Flag(Last, 2)' => Flag(Last, 2)
      BY <2>1, FlagValues
    <3>2. Flag(Last, 1)' => Flag(Last, 1) \/ Announced(1)'
      BY <2>1, <2>3, <2>4, FlagValues DEF Announced, Leaving, Last
    <3>3. Flag(Last, 0)' => Flag(Last, 0) \/ Announced(0)'
      BY <2>1, <2>3, <2>4, FlagValues DEF Announced, Leaving, Last
    <3> QED
      BY <3>1, <3>2, <3>3
  <2>6. \A l \in 0 .. 2 : Announced(l) => Announced(l)'
    BY <1>4, <2>3
  <2>7. OutputTyping'
    BY <1>2, <2>1, <2>4 DEF OutputTyping
  <2> QED
    BY <1>3, <2>1, <2>3, <2>5, <2>6, <2>7, RestByOther
<1>13. CASE Alarm_RaiseSignal(c) \/ Alarm_LowerSignal(c)
  <2>1. /\ \E at \in Labels, label \in Labels : At(Alarm(c), at) /\ Goto(Alarm(c), label)
        /\ Signal(SignalOutputSemaphore)
        /\ \E l \in 0 .. 2 : dac' = [dac EXCEPT ![l] = TRUE]
        /\ UNCHANGED <<raiseRequest, lowerRequest>>
    BY <1>13 DEF Alarm_RaiseSignal, Alarm_LowerSignal, AfterTests, Labels, flags
  <2>2. /\ pc' \in [Threads -> Labels]
        /\ \A u \in Threads : u # Alarm(c) => pc'[u] = pc[u]
        /\ \A u \in Threads \ readyList : pc'[u] = pc[u]
    <3>1. PICK at \in Labels, label \in Labels : At(Alarm(c), at) /\ Goto(Alarm(c), label)
      BY <2>1
    <3>2. /\ pc' \in [Threads -> Labels]
          /\ \A u \in Threads : u # Alarm(c) => pc'[u] = pc[u]
      BY <3>1, GotoEffect
    <3> QED
      BY <3>1, <3>2, OthersStay
  <2>3. Sleeping'
    BY <2>1, <2>2, SignalStep
  <2>4. OutputTyping'
    <3>1. dac' \in [0 .. 2 -> BOOLEAN]
      BY <2>1, Zenon DEF OutputTyping
    <3> QED
      BY <1>2, <2>1, <3>1 DEF OutputTyping
  <2> QED
    BY <1>3, <2>1, <2>2, <2>3, <2>4, RestBySignal
<1> QED
  BY <1>8, <1>9, <1>10, <1>11, <1>12, <1>13 DEF Alarm_Thread

-----------------------------------------------------------------------------
\* The rest of the type invariant.
RestOfType ==
    /\ sampleCount \in 0 .. MAX_SAMPLE_SIZE - 1
    /\ RMS \in [Channels -> Readings \cup {0}]
    /\ Mode \in {"DEFINITE", "INVERSE"}
    /\ branch \in [Channels -> {"DEFINITE", "INVERSE"}]

\* Every step of every thread keeps it.
LEMMA RestOfTypeStep ==
  ASSUME RestOfType, [Next]_vars
  PROVE  RestOfType'
<1> USE DEF RestOfType
<1>1. CASE PIT_ISR \/ SetMode \/ SampleThread \/ SignalOutput_Thread
  <2>1. UNCHANGED <<RMS, branch>>
    BY <1>1 DEF PIT_ISR, SetMode, SampleThread, Sample_Wait, Sample_Get, Sample_SignalRMS,
       Sample_SignalTime, SignalOutput_Thread, SignalOutput_Wait, SignalOutput_Read,
       SignalOutput_Put
  <2>2. Mode' \in {"DEFINITE", "INVERSE"}
    BY <1>1 DEF PIT_ISR, SetMode, SampleThread, Sample_Wait, Sample_Get, Sample_SignalRMS,
       Sample_SignalTime, SignalOutput_Thread, SignalOutput_Wait, SignalOutput_Read,
       SignalOutput_Put
  <2>3. sampleCount' \in 0 .. MAX_SAMPLE_SIZE - 1
    BY <1>1, SampleAssumption
       DEF PIT_ISR, SetMode, SampleThread, Sample_Wait, Sample_Get, Sample_SignalRMS,
       Sample_SignalTime, SignalOutput_Thread, SignalOutput_Wait, SignalOutput_Read,
       SignalOutput_Put
  <2> QED
    BY <2>1, <2>2, <2>3
<1>2. CASE RMS_CalcThread
  <2>1. /\ UNCHANGED <<sampleCount, Mode, branch>>
        /\ RMS' = RMS \/ RMS' \in [Channels -> Readings]
    BY <1>2 DEF RMS_CalcThread, RMS_Wait, RMS_Calculate, RMS_SetAlarm, RMS_SignalAlarm,
       RMS_ClearAlarm
  <2> QED
    BY <2>1
<1>3. ASSUME NEW c \in Channels, Alarm_Thread(c)
      PROVE  RestOfType'
  <2>1. /\ UNCHANGED <<sampleCount, Mode>>
        /\ \/ RMS' = RMS
           \/ \E v \in Readings : RMS' = [RMS EXCEPT ![c] = v]
        /\ \/ branch' = branch
           \/ \E b \in {"DEFINITE", "INVERSE"} : branch' = [branch EXCEPT ![c] = b]
    BY <1>3 DEF Alarm_Thread, Alarm_Wait, Alarm_Switch, Alarm_Deviation, Alarm_ReadHigh,
       Alarm_ReadLow, Alarm_Clear, Alarm_DefiniteWait, Alarm_Recalculate,
       Alarm_InverseWait, Alarm_ReadRaise, Alarm_Raise, Alarm_RaiseSignal,
       Alarm_ReadLower, Alarm_Lower, Alarm_LowerSignal
  <2> QED
    BY <2>1
<1>4. CASE UNCHANGED vars
  BY <1>4 DEF vars
<1> QED
  BY <1>1, <1>2, <1>3, <1>4 DEF Next

\* The inductive invariant: who sleeps where, and what becomes of every flag of
\* the last channel.
IInv == Typing /\ PassInv /\ OutputTyping /\ Sleeping /\ RestInv /\ RestOfType

\* The inductive invariant holds when all threads have been created.
LEMMA InitIInv == Init => IInv
<1> SUFFICES ASSUME Init PROVE IInv
  OBVIOUS
<1> USE ThreadsDiffer DEF Init
<1>1. Typing /\ PassInv
  BY PassInit
<1>2. OutputTyping /\ RestOfType
  <2>1. sampleCount \in 0 .. MAX_SAMPLE_SIZE - 1
    BY SampleAssumption
  <2>2. OutputTyping
    <3>1. /\ dac \in [0 .. 2 -> BOOLEAN]
          /\ raiseRequest \in [Channels -> BOOLEAN]
          /\ lowerRequest \in [Channels -> BOOLEAN]
          /\ shown \in BOOLEAN
      BY Zenon
    <3>2. line \in 0 .. 2
      OBVIOUS
    <3> QED
      BY <3>1, <3>2 DEF OutputTyping
  <2> QED
    BY <2>1, <2>2 DEF RestOfType
<1>3. Sleeping
  BY CountAssumption DEF Sleeping, Kernel!Init, Kernel!TypeOK, Labels
<1>4. Last \in Channels
  BY ChannelAssumption DEF Last, Channels
<1>5. \A l \in 0 .. 2 : ~ Flag(Last, l)
  <2>1. ~ Flag(Last, 2) /\ ~ Flag(Last, 1) /\ ~ Flag(Last, 0)
    BY <1>4, FlagValues
  <2> QED
    BY <2>1
<1>6. RestInv
  BY <1>5 DEF RestInv
<1> QED
  BY <1>1, <1>2, <1>3, <1>6 DEF IInv

\* Every step of every thread and interrupt keeps the inductive invariant.
LEMMA StepIInv == IInv /\ [Next]_vars => IInv'
<1> SUFFICES ASSUME IInv, [Next]_vars PROVE IInv'
  OBVIOUS
<1>1. Typing /\ OutputTyping /\ Sleeping /\ RestInv
  BY DEF IInv
<1>2. Typing' /\ PassInv' /\ RestOfType'
  BY PassStep, RestOfTypeStep DEF IInv
<1>3. Sleeping' /\ OutputTyping' /\ RestInv'
  <2>1. CASE PIT_ISR \/ SetMode \/ SampleThread
    BY <1>1, <2>1, SampleRests
  <2>2. CASE RMS_CalcThread
    BY <1>1, <2>2, RMSRests
  <2>3. ASSUME NEW c \in Channels, Alarm_Thread(c)
        PROVE  Sleeping' /\ OutputTyping' /\ RestInv'
    BY <1>1, <2>3, AlarmRests
  <2>4. CASE SignalOutput_Thread
    BY <1>1, <2>4, OutputWaits, OutputReads, OutputPuts DEF SignalOutput_Thread
  <2>5. CASE UNCHANGED vars
    <3>1. UNCHANGED <<kernel, pc, channelNb, dac, line, shown,
                      voltageAlarm, raiseRequest, lowerRequest>>
      BY <2>5 DEF vars, flags, output
    <3>2. Sleeping'
      BY <1>1, <3>1, QuietKernel DEF Sleeping
    <3>3. OutputTyping'
      BY <1>1, <3>1 DEF OutputTyping
    <3>4. count' = count /\ waitList' = waitList
      BY <3>1 DEF kernel
    <3>5. \A l \in 0 .. 2 : Flag(Last, l)' <=> Flag(Last, l)
      BY <3>1 DEF Flag, Last
    <3>6. \A l \in 0 .. 2 : Announced(l)' <=> Announced(l)
      BY <3>1, <3>4 DEF Announced, Leaving, Last
    <3>7. OutputStays
      BY <3>1 DEF OutputStays, output
    <3> QED
      BY <1>1, <3>1, <3>2, <3>3, <3>4, <3>5, <3>6, <3>7, RestByOther
  <2> QED
    BY <2>1, <2>2, <2>3, <2>4, <2>5 DEF Next
<1> QED
  BY <1>2, <1>3 DEF IInv

\* Every variable of the regulator keeps its type.
THEOREM TypeCorrect == Spec => []TypeOK
<1>1. IInv => TypeOK
  <2> SUFFICES ASSUME IInv PROVE TypeOK
    OBVIOUS
  <2>1. Kernel!TypeOK /\ pc \in [Threads -> Labels] /\ channelNb \in [Threads -> Channels]
    BY DEF IInv, Sleeping, Typing
  <2> QED
    BY <2>1 DEF IInv, Typing, OutputTyping, RestOfType, TypeOK
<1> QED
  BY <1>1, InitIInv, StepIInv, PTL DEF Spec

\* Whenever every thread sleeps, what the last channel asks for is on the
\* outputs: no signal of SignalOutputSemaphore is lost.
THEOREM OutputsShowFlags == Spec => []RestingOutputsShowFlags
<1>1. IInv => RestingOutputsShowFlags
  <2> SUFFICES ASSUME IInv, readyList = {}, NEW l \in 0 .. 2, Flag(Last, l)
               PROVE  dac[l]
    BY DEF RestingOutputsShowFlags
  <2> USE ThreadsDiffer, SemaphoresDiffer
  <2>1. Sleeping /\ RestInv /\ Last \in Channels
    BY ChannelAssumption DEF IInv, Last, Channels
  <2>2. \A t \in Threads : \E s \in Semaphores : t \in waitList[s] /\ Waits(t, s, pc[t])
    BY <2>1 DEF Sleeping
  <2>3. SignalOutput \in waitList[SignalOutputSemaphore] /\ pc[SignalOutput] = "read"
    BY <2>2 DEF Waits
  <2>4. count[SignalOutputSemaphore] = 0
    BY <2>1, <2>3 DEF Sleeping, Kernel!TypeOK
  <2>5. pc[Alarm(Last)] \notin {"raiseSignal", "lowerSignal"}
    BY <2>1, <2>2 DEF Waits
  <2>6. ~ Announced(l) /\ ~ Ahead(l) /\ ~ AtIt(l)
    BY <2>3, <2>4, <2>5 DEF Announced, Leaving, Ahead, AtIt
  <2> QED
    BY <2>1, <2>6 DEF RestInv
<1> QED
  BY <1>1, InitIInv, StepIInv, PTL DEF Spec

-----------------------------------------------------------------------------
\* A signal changes the list and the count of one semaphore, for whoever waits.
LEMMA SignalFrame ==
  ASSUME Kernel!TypeOK, NEW s \in Semaphores, Signal(s)
  PROVE  \A r \in Semaphores : r # s => count'[r] = count[r] /\ waitList'[r] = waitList[r]
BY DEF Signal, Kernel!TypeOK, Kernel!OS_SemaphoreSignal, Kernel!SignalOverflows,
       Kernel!SignalCounts, Kernel!SignalHandsOver, Kernel!vars

\* So does a wait.
LEMMA WaitFrame ==
  ASSUME Kernel!TypeOK, NEW t \in Threads, NEW s \in Semaphores, Wait(t, s)
  PROVE  \A r \in Semaphores : r # s => count'[r] = count[r] /\ waitList'[r] = waitList[r]
BY DEF Wait, Kernel!TypeOK, Kernel!OS_SemaphoreWait

\* RMS_CalcThread has dealt with channel c in its latest pass.
Done(c) == pc[RMSCalc] \in {"wait", "calculate"} \/ c < channelNb[RMSCalc]

\* A pass has computed the RMS voltage of channel c, or found it in alarm.
Known(c) == voltageAlarm[c] \/ RMS[c] # 0

\* Alarm_Thread has yet to compare the RMS voltage of its channel with the lower
\* limit, or is stuck in the inverse timing.
BeforeTests(c) ==
    \/ pc[Alarm(c)] = "switch" /\ Alarm(c) \notin waitList[voltageCheck(c)]
    \/ pc[Alarm(c)] \in {"deviation", "readHigh", "readLow", "clear", "out",
                         "inverseWait", "inverseLoop", "readRaise", "raise"}

\* It has yet to compare it with the upper limit.
AmidTests(c) == pc[Alarm(c)] \in {"raiseSignal", "readLower", "lower"} /\ RaiseMade(c)

\* What becomes of the request for channel c: a signal is kept that makes
\* Alarm_Thread look again, it is about to look, or the request is made.
Attended(c) ==
    \/ count[voltageCheck(c)] > 0
    \/ BeforeTests(c)
    \/ AmidTests(c)
    \/ RaiseMade(c) /\ LowerMade(c)

AnswerInv == \A c \in Channels : Done(c) /\ Known(c) => Attended(c)

\* A step that does not concern channel c.
Untouched(c) ==
    /\ pc'[Alarm(c)] = pc[Alarm(c)]
    /\ count'[voltageCheck(c)] = count[voltageCheck(c)]
    /\ waitList'[voltageCheck(c)] = waitList[voltageCheck(c)]
    /\ RMS'[c] = RMS[c]
    /\ raiseRequest'[c] = raiseRequest[c] /\ lowerRequest'[c] = lowerRequest[c]

\* Such a step leaves the channel attended to.
LEMMA UntouchedStays ==
  ASSUME NEW c \in Channels, Untouched(c), Attended(c)
  PROVE  Attended(c)'
BY DEF Untouched, Attended, BeforeTests, AmidTests, RaiseMade, LowerMade, Low, High

\* The steps of the PIT, of the packet handler, of Sample_Thread and of
\* SignalOutput_Thread do not concern any channel.
LEMMA OthersAnswer ==
  ASSUME IInv, AnswerInv, PIT_ISR \/ SetMode \/ SampleThread \/ SignalOutput_Thread
  PROVE  AnswerInv'
<1> USE ThreadsDiffer, SemaphoresDiffer
<1>1. Typing /\ Kernel!TypeOK
  BY DEF IInv, Sleeping
<1>2. /\ RMS' = RMS /\ voltageAlarm' = voltageAlarm
      /\ pc'[RMSCalc] = pc[RMSCalc] /\ channelNb'[RMSCalc] = channelNb[RMSCalc]
      /\ \A c \in Channels : pc'[Alarm(c)] = pc[Alarm(c)]
  BY <1>1, OtherSteps
<1>3. raiseRequest' = raiseRequest /\ lowerRequest' = lowerRequest
  BY DEF PIT_ISR, SetMode, SampleThread, Sample_Wait, Sample_Get, Sample_SignalRMS,
         Sample_SignalTime, SignalOutput_Thread, SignalOutput_Wait,
         SignalOutput_Read, SignalOutput_Put, flags
<1>4. ASSUME NEW c \in Channels
      PROVE  /\ count'[voltageCheck(c)] = count[voltageCheck(c)]
             /\ waitList'[voltageCheck(c)] = waitList[voltageCheck(c)]
  <2>1. channelNb[Sample] \in Channels
    BY <1>1 DEF Typing
  <2>2. \/ UNCHANGED kernel
        \/ \E s \in Semaphores : s # voltageCheck(c) /\ Signal(s)
        \/ \E t \in Threads, s \in Semaphores : s # voltageCheck(c) /\ Wait(t, s)
    <3>1. CASE PIT_ISR \/ SetMode
      BY <3>1 DEF PIT_ISR, SetMode
    <3>2. CASE Sample_Wait \/ Sample_Get \/ Sample_SignalRMS
      BY <3>2 DEF Sample_Wait, Sample_Get, Sample_SignalRMS
    <3>3. CASE Sample_SignalTime
      BY <2>1, <3>3 DEF Sample_SignalTime
    <3>4. CASE SignalOutput_Thread
      BY <3>4 DEF SignalOutput_Thread, SignalOutput_Wait, SignalOutput_Read, SignalOutput_Put
    <3> QED
      BY <3>1, <3>2, <3>3, <3>4 DEF SampleThread
  <2> QED
    BY <1>1, <2>2, SignalFrame, WaitFrame DEF kernel
<1>5. ASSUME NEW c \in Channels, Done(c)', Known(c)'
      PROVE  Attended(c)'
  <2>1. Done(c) /\ Known(c)
    BY <1>2, <1>5 DEF Done, Known
  <2>2. Untouched(c)
    BY <1>2, <1>3, <1>4 DEF Untouched
  <2> QED
    BY <2>1, <2>2, UntouchedStays DEF AnswerInv
<1> QED
  BY <1>5 DEF AnswerInv

\* RMS_CalcThread signals the Alarm_Thread of every channel whose new voltage is
\* out of band.
LEMMA RMSAnswers ==
  ASSUME IInv, AnswerInv, RMS_CalcThread
  PROVE  AnswerInv'
<1> USE ThreadsDiffer, SemaphoresDiffer
<1>1. Typing /\ PassInv /\ Kernel!TypeOK /\ Sleeping /\ channelNb[RMSCalc] \in Channels
  BY DEF IInv, Sleeping, Typing
<1>2. CASE RMS_Wait
  <2>1. /\ pc[RMSCalc] = "wait" /\ Wait(RMSCalc, RMSCalcSemaphore) /\ Goto(RMSCalc, "calculate")
        /\ UNCHANGED <<channelNb, RMS, voltageAlarm, raiseRequest, lowerRequest>>
    BY <1>2 DEF RMS_Wait, flags
  <2>2. /\ pc'[RMSCalc] = "calculate"
        /\ \A u \in Threads : u # RMSCalc => pc'[u] = pc[u]
    BY <1>1, <2>1, GotoEffect DEF Labels
  <2>3. \A c \in Channels : Untouched(c) /\ Done(c) /\ (Known(c)' <=> Known(c))
    BY <1>1, <2>1, <2>2, WaitFrame DEF Untouched, Done, Known
  <2> QED
    BY <2>3, UntouchedStays DEF AnswerInv
<1>3. CASE RMS_Calculate
  <2>1. /\ pc[RMSCalc] = "calculate" /\ Goto(RMSCalc, "check") /\ UNCHANGED channelNb
    BY <1>3 DEF RMS_Calculate, At
  <2>2. pc'[RMSCalc] = "check" /\ channelNb'[RMSCalc] = 0
    BY <1>1, <2>1, GotoEffect DEF Labels, PassInv
  <2>3. \A c \in Channels : ~ Done(c)'
    BY <2>2, ChannelAssumption DEF Done, Channels
  <2> QED
    BY <2>3 DEF AnswerInv
<1>4. ASSUME NEW d \in Channels, RMS_SetAlarm(d)
      PROVE  AnswerInv'
  <2>1. /\ pc[RMSCalc] = "check" /\ d = channelNb[RMSCalc]
        /\ Signal(SignalOutputSemaphore) /\ Goto(RMSCalc, "alarm")
        /\ voltageAlarm' = [voltageAlarm EXCEPT ![d] = TRUE]
        /\ UNCHANGED <<channelNb, RMS, raiseRequest, lowerRequest>>
    BY <1>4 DEF RMS_SetAlarm, At
  <2>2. /\ pc'[RMSCalc] = "alarm"
        /\ \A u \in Threads : u # RMSCalc => pc'[u] = pc[u]
    BY <1>1, <2>1, GotoEffect DEF Labels
  <2>3. \A c \in Channels : c # d => voltageAlarm'[c] = voltageAlarm[c]
    BY <1>1, <2>1, Zenon DEF Typing
  <2>4. ASSUME NEW c \in Channels, Done(c)', Known(c)'
        PROVE  Attended(c)'
    <3>1. c < channelNb[RMSCalc] /\ c # d
      BY <1>1, <2>1, <2>2, <2>4, ChannelAssumption DEF Done, Channels
    <3>2. Done(c) /\ Known(c)
      BY <2>1, <2>3, <2>4, <3>1 DEF Done, Known
    <3>3. Untouched(c)
      BY <1>1, <2>1, <2>2, SignalFrame DEF Untouched
    <3> QED
      BY <3>2, <3>3, UntouchedStays DEF AnswerInv
  <2> QED
    BY <2>4 DEF AnswerInv
<1>5. ASSUME NEW d \in Channels, RMS_SignalAlarm(d) \/ RMS_ClearAlarm(d)
      PROVE  AnswerInv'
  <2>1. /\ pc[RMSCalc] \in {"check", "alarm"} /\ d = channelNb[RMSCalc]
        /\ NextChannel(RMSCalc, "check", "wait")
        /\ UNCHANGED RMS
    BY <1>5 DEF RMS_SignalAlarm, RMS_ClearAlarm, At
  <2>2. /\ pc' \in [Threads -> Labels]
        /\ \A u \in Threads : u # RMSCalc => pc'[u] = pc[u]
        /\ \/ channelNb[RMSCalc] + 1 < NB_ANALOG_CHANNELS
              /\ channelNb'[RMSCalc] = channelNb[RMSCalc] + 1 /\ pc'[RMSCalc] = "check"
           \/ channelNb[RMSCalc] + 1 >= NB_ANALOG_CHANNELS
    BY <1>1, <2>1, NextChannelEffect DEF Labels
  <2>3. ASSUME NEW c \in Channels, Done(c)', c # d
        PROVE  Done(c)
    BY <1>1, <2>1, <2>2, <2>3, ChannelAssumption DEF Done, Channels
  <2>4. ASSUME NEW c \in Channels, c # d
        PROVE  Untouched(c) /\ voltageAlarm'[c] = voltageAlarm[c]
    <3>1. CASE RMS_SignalAlarm(d)
      <4>1. /\ Signal(voltageCheck(d))
            /\ UNCHANGED <<voltageAlarm, raiseRequest, lowerRequest>>
        BY <3>1 DEF RMS_SignalAlarm, flags
      <4>2. voltageCheck(c) # voltageCheck(d)
        BY <2>4
      <4>3. /\ count'[voltageCheck(c)] = count[voltageCheck(c)]
            /\ waitList'[voltageCheck(c)] = waitList[voltageCheck(c)]
        BY <1>1, <4>1, <4>2, SignalFrame
      <4> QED
        BY <2>1, <2>2, <4>1, <4>3 DEF Untouched
    <3>2. CASE RMS_ClearAlarm(d)
      <4>1. /\ Signal(SignalOutputSemaphore)
            /\ voltageAlarm' = [voltageAlarm EXCEPT ![d] = FALSE]
            /\ raiseRequest' = [raiseRequest EXCEPT ![d] = FALSE]
            /\ lowerRequest' = [lowerRequest EXCEPT ![d] = FALSE]
        BY <3>2 DEF RMS_ClearAlarm
      <4>2. /\ voltageAlarm'[c] = voltageAlarm[c] /\ raiseRequest'[c] = raiseRequest[c]
            /\ lowerRequest'[c] = lowerRequest[c]
        BY <2>4, <4>1, Zenon DEF IInv, Typing, OutputTyping
      <4>3. /\ count'[voltageCheck(c)] = count[voltageCheck(c)]
            /\ waitList'[voltageCheck(c)] = waitList[voltageCheck(c)]
        BY <1>1, <4>1, SignalFrame
      <4> QED
        BY <2>1, <2>2, <4>2, <4>3 DEF Untouched
    <3> QED
      BY <1>5, <3>1, <3>2
  <2>5. Attended(d)'
    <3>1. CASE RMS_SignalAlarm(d)
      <4>1. Signal(voltageCheck(d)) /\ At(RMSCalc, "alarm")
        BY <3>1 DEF RMS_SignalAlarm
      <4>2. \A u \in Threads \ readyList : pc'[u] = pc[u]
        BY <1>1, <2>2, <4>1, OthersStay
      <4>3. \/ count'[voltageCheck(d)] > 0
            \/ waitList'[voltageCheck(d)] = {} /\ \E u \in Threads : u \in waitList[voltageCheck(d)]
        BY <1>1, <2>2, <4>1, <4>2, SignalStep
      <4>4. ASSUME NEW u \in Threads, u \in waitList[voltageCheck(d)]
            PROVE  u = Alarm(d) /\ pc'[u] = "switch"
        <5>1. Waits(u, voltageCheck(d), pc[u]) /\ u \notin readyList
          BY <1>1, <4>4 DEF Sleeping
        <5>2. u = Alarm(d) /\ pc[u] = "switch"
          BY <5>1 DEF Waits
        <5> QED
          BY <4>2, <5>1, <5>2
      <4> QED
        BY <4>3, <4>4 DEF Attended, BeforeTests
    <3>2. CASE RMS_ClearAlarm(d)
      <4>1. ~ OutOfBand(RMS[d])
        BY <3>2 DEF RMS_ClearAlarm
      <4>2. (RaiseMade(d) /\ LowerMade(d))'
        BY <2>1, <4>1 DEF RaiseMade, LowerMade, OutOfBand, Low, High
      <4> QED
        BY <4>2 DEF Attended
    <3> QED
      BY <1>5, <3>1, <3>2
  <2>6. ASSUME NEW c \in Channels, c # d, Done(c)', Known(c)'
        PROVE  Attended(c)'
    <3>1. Known(c)
      BY <2>1, <2>4, <2>6 DEF Known
    <3> QED
      BY <2>3, <2>4, <2>6, <3>1, UntouchedStays DEF AnswerInv
  <2> QED
    BY <2>5, <2>6 DEF AnswerInv
<1> QED
  BY <1>2, <1>3, <1>4, <1>5 DEF RMS_CalcThread

\* The Alarm_Thread of another channel.
LEMMA OtherAlarmAnswers ==
  ASSUME IInv, NEW d \in Channels, Alarm_Thread(d), NEW c \in Channels, c # d
  PROVE  Untouched(c) /\ voltageAlarm'[c] = voltageAlarm[c]
<1> USE ThreadsDiffer, SemaphoresDiffer
<1>1. Typing /\ OutputTyping /\ Kernel!TypeOK
  BY DEF IInv, Sleeping
<1>2. \E label \in Labels : Goto(Alarm(d), label)
  BY DEF Alarm_Thread, Alarm_Wait, Alarm_Switch, Alarm_Deviation, Alarm_ReadHigh,
         Alarm_ReadLow, Alarm_Clear, Alarm_DefiniteWait, Alarm_Recalculate,
         Alarm_InverseWait, Alarm_ReadRaise, Alarm_Raise, Alarm_RaiseSignal,
         Alarm_ReadLower, Alarm_Lower, Alarm_LowerSignal, AfterTests, Labels
<1>3. pc'[Alarm(c)] = pc[Alarm(c)]
  <2>1. Alarm(c) # Alarm(d) /\ Alarm(c) \in Threads /\ Alarm(d) \in Threads
    OBVIOUS
  <2> QED
    BY <1>1, <1>2, <2>1, GotoEffect
<1>4. /\ RMS' = RMS \/ \E v \in Readings : RMS' = [RMS EXCEPT ![d] = v]
      /\ voltageAlarm' = voltageAlarm \/ voltageAlarm' = [voltageAlarm EXCEPT ![d] = FALSE]
      /\ \/ raiseRequest' = raiseRequest
         \/ \E b \in BOOLEAN : raiseRequest' = [raiseRequest EXCEPT ![d] = b]
      /\ \/ lowerRequest' = lowerRequest
         \/ \E b \in BOOLEAN : lowerRequest' = [lowerRequest EXCEPT ![d] = b]
  BY DEF Alarm_Thread, Alarm_Wait, Alarm_Switch, Alarm_Deviation, Alarm_ReadHigh,
         Alarm_ReadLow, Alarm_Clear, Alarm_DefiniteWait, Alarm_Recalculate,
         Alarm_InverseWait, Alarm_ReadRaise, Alarm_Raise, Alarm_RaiseSignal,
         Alarm_ReadLower, Alarm_Lower, Alarm_LowerSignal, flags
<1>5. /\ RMS'[c] = RMS[c]
      /\ raiseRequest'[c] = raiseRequest[c] /\ lowerRequest'[c] = lowerRequest[c]
      /\ voltageAlarm'[c] = voltageAlarm[c]
  BY <1>1, <1>4, Zenon DEF Typing, OutputTyping
<1>6. \/ UNCHANGED kernel
      \/ Signal(SignalOutputSemaphore)
      \/ \E s \in {voltageCheck(d), timeCount(d), PITCountSemaphore} : Wait(Alarm(d), s)
  BY DEF Alarm_Thread, Alarm_Wait, Alarm_Switch, Alarm_Deviation, Alarm_ReadHigh,
         Alarm_ReadLow, Alarm_Clear, Alarm_DefiniteWait, Alarm_Recalculate,
         Alarm_InverseWait, Alarm_ReadRaise, Alarm_Raise, Alarm_RaiseSignal,
         Alarm_ReadLower, Alarm_Lower, Alarm_LowerSignal
<1>7. /\ count'[voltageCheck(c)] = count[voltageCheck(c)]
      /\ waitList'[voltageCheck(c)] = waitList[voltageCheck(c)]
  <2>1. CASE UNCHANGED kernel
    BY <2>1 DEF kernel
  <2>2. CASE Signal(SignalOutputSemaphore)
    BY <1>1, <2>2, SignalFrame
  <2>3. ASSUME NEW s \in {voltageCheck(d), timeCount(d), PITCountSemaphore}, Wait(Alarm(d), s)
        PROVE  /\ count'[voltageCheck(c)] = count[voltageCheck(c)]
               /\ waitList'[voltageCheck(c)] = waitList[voltageCheck(c)]
    <3>1. s \in Semaphores /\ voltageCheck(c) # s
      BY <2>3
    <3> QED
      BY <1>1, <2>3, <3>1, WaitFrame
  <2> QED
    BY <1>6, <2>1, <2>2, <2>3
<1> QED
  BY <1>3, <1>5, <1>7 DEF Untouched

\* Alarm_Thread compares the voltage with both limits after every signal.
LEMMA OwnAlarmAnswers ==
  ASSUME IInv, NEW c \in Channels, Alarm_Thread(c), Known(c) => Attended(c), Known(c)'
  PROVE  Attended(c)'
<1> USE ThreadsDiffer, SemaphoresDiffer DEF Labels
<1>1. Typing /\ OutputTyping /\ Kernel!TypeOK /\ Sleeping
  BY DEF IInv, Sleeping
<1>2. ASSUME NEW label \in Labels, Goto(Alarm(c), label)
      PROVE  pc'[Alarm(c)] = label
  BY <1>1, <1>2, GotoEffect
<1>3. ASSUME NEW label \in {"deviation", "readHigh", "readLow", "clear", "out",
                            "inverseWait", "inverseLoop", "readRaise", "raise"},
             Goto(Alarm(c), label)
      PROVE  Attended(c)'
  BY <1>2, <1>3 DEF Attended, BeforeTests
<1>4. CASE Alarm_Wait(c)
  <2>1. /\ pc[Alarm(c)] = "wait" /\ Wait(Alarm(c), voltageCheck(c)) /\ Goto(Alarm(c), "switch")
        /\ UNCHANGED <<RMS, voltageAlarm, raiseRequest, lowerRequest>>
    BY <1>4 DEF Alarm_Wait, flags
  <2>2. pc'[Alarm(c)] = "switch" /\ Waits(Alarm(c), voltageCheck(c), "switch")
    BY <1>2, <2>1 DEF Waits
  <2>3. /\ \A r \in Semaphores : Alarm(c) \notin waitList[r]
        /\ \/ count[voltageCheck(c)] > 0 /\ waitList'[voltageCheck(c)] = waitList[voltageCheck(c)]
           \/ count[voltageCheck(c)] = 0
    BY <1>1, <2>1, <2>2, WaitStep
  <2>4. CASE count[voltageCheck(c)] > 0 /\ waitList'[voltageCheck(c)] = waitList[voltageCheck(c)]
    BY <2>2, <2>3, <2>4 DEF Attended, BeforeTests
  <2>5. CASE count[voltageCheck(c)] = 0
    <3>1. Attended(c)
      BY <2>1 DEF Known
    <3>2. RaiseMade(c) /\ LowerMade(c)
      BY <2>1, <2>5, <3>1 DEF Attended, BeforeTests, AmidTests
    <3> QED
      BY <2>1, <3>2 DEF Attended, RaiseMade, LowerMade, Low, High
  <2> QED
    BY <2>3, <2>4, <2>5
<1>5. CASE \/ Alarm_Switch(c) \/ Alarm_Deviation(c) \/ Alarm_ReadHigh(c) \/ Alarm_ReadLow(c)
           \/ Alarm_Clear(c) \/ Alarm_DefiniteWait(c) \/ Alarm_Recalculate(c)
           \/ Alarm_InverseWait(c)
  BY <1>3, <1>5
     DEF Alarm_Switch, Alarm_Deviation, Alarm_ReadHigh, Alarm_ReadLow, Alarm_Clear,
         Alarm_DefiniteWait, Alarm_Recalculate, Alarm_InverseWait
<1>6. CASE Alarm_ReadRaise(c)
  <2>1. /\ Goto(Alarm(c), IF Low(RMS[c]) THEN "raise" ELSE "readLower") /\ RMS' = RMS
    BY <1>6 DEF Alarm_ReadRaise
  <2>2. CASE Low(RMS[c])
    BY <1>3, <2>1, <2>2
  <2>3. CASE ~ Low(RMS[c])
    <3>1. pc'[Alarm(c)] = "readLower"
      BY <1>2, <2>1, <2>3
    <3> QED
      BY <2>1, <2>3, <3>1 DEF Attended, AmidTests, RaiseMade, Low
  <2> QED
    BY <2>2, <2>3
<1>7. CASE Alarm_Raise(c)
  <2>1. /\ Goto(Alarm(c), "raiseSignal")
        /\ raiseRequest' = [raiseRequest EXCEPT ![c] = TRUE]
    BY <1>7 DEF Alarm_Raise
  <2>2. raiseRequest'[c]
    BY <1>1, <2>1, Zenon DEF OutputTyping
  <2>3. pc'[Alarm(c)] = "raiseSignal"
    BY <1>2, <2>1
  <2> QED
    BY <2>2, <2>3 DEF Attended, AmidTests, RaiseMade
<1>8. CASE Alarm_RaiseSignal(c)
  <2>1. /\ pc[Alarm(c)] = "raiseSignal" /\ Goto(Alarm(c), "readLower")
        /\ Signal(SignalOutputSemaphore)
        /\ UNCHANGED <<RMS, voltageAlarm, raiseRequest, lowerRequest>>
    BY <1>8 DEF Alarm_RaiseSignal, At, flags
  <2>2. pc'[Alarm(c)] = "readLower" /\ count'[voltageCheck(c)] = count[voltageCheck(c)]
    BY <1>1, <1>2, <2>1, SignalFrame
  <2>3. Attended(c)
    BY <2>1 DEF Known
  <2> QED
    BY <2>1, <2>2, <2>3 DEF Attended, BeforeTests, AmidTests, RaiseMade, LowerMade, Low, High
<1>9. CASE Alarm_ReadLower(c)
  <2>1. /\ pc[Alarm(c)] = "readLower"
        /\ Goto(Alarm(c), IF High(RMS[c]) THEN "lower" ELSE AfterTests(c))
        /\ UNCHANGED <<count, RMS, voltageAlarm, raiseRequest, lowerRequest>>
    BY <1>9 DEF Alarm_ReadLower, At, flags, kernel
  <2>2. Attended(c)
    BY <2>1 DEF Known
  <2>3. count[voltageCheck(c)] > 0 \/ RaiseMade(c)
    BY <2>1, <2>2 DEF Attended, BeforeTests, AmidTests
  <2>4. CASE High(RMS[c])
    <3>1. pc'[Alarm(c)] = "lower"
      BY <1>2, <2>1, <2>4
    <3> QED
      BY <2>1, <2>3, <3>1 DEF Attended, AmidTests, RaiseMade, Low
  <2>5. CASE ~ High(RMS[c])
    BY <2>1, <2>3, <2>5 DEF Attended, RaiseMade, LowerMade, Low, High
  <2> QED
    BY <2>4, <2>5
<1>10. CASE Alarm_Lower(c)
  <2>1. /\ pc[Alarm(c)] = "lower"
        /\ lowerRequest' = [lowerRequest EXCEPT ![c] = TRUE]
        /\ UNCHANGED <<count, RMS, voltageAlarm, raiseRequest>>
    BY <1>10 DEF Alarm_Lower, At, kernel
  <2>2. lowerRequest'[c]
    BY <1>1, <2>1, Zenon DEF OutputTyping
  <2>3. count[voltageCheck(c)] > 0 \/ RaiseMade(c)
    BY <2>1 DEF Known, Attended, BeforeTests, AmidTests
  <2> QED
    BY <2>1, <2>2, <2>3 DEF Attended, RaiseMade, LowerMade, Low, High
<1>11. CASE Alarm_LowerSignal(c)
  <2>1. /\ pc[Alarm(c)] = "lowerSignal" /\ Signal(SignalOutputSemaphore)
        /\ UNCHANGED <<RMS, voltageAlarm, raiseRequest, lowerRequest>>
    BY <1>11 DEF Alarm_LowerSignal, At, flags
  <2>2. count'[voltageCheck(c)] = count[voltageCheck(c)]
    BY <1>1, <2>1, SignalFrame
  <2>3. count[voltageCheck(c)] > 0 \/ (RaiseMade(c) /\ LowerMade(c))
    BY <2>1 DEF Known, Attended, BeforeTests, AmidTests
  <2> QED
    BY <2>1, <2>2, <2>3 DEF Attended, RaiseMade, LowerMade, Low, High
<1> QED
  BY <1>4, <1>5, <1>6, <1>7, <1>8, <1>9, <1>10, <1>11 DEF Alarm_Thread

\* Every step keeps every channel attended to.
LEMMA AnswerStep == IInv /\ AnswerInv /\ [Next]_vars => AnswerInv'
<1> SUFFICES ASSUME IInv, AnswerInv, [Next]_vars PROVE AnswerInv'
  OBVIOUS
<1>1. ASSUME NEW d \in Channels, Alarm_Thread(d)
      PROVE  AnswerInv'
  <2>1. pc'[RMSCalc] = pc[RMSCalc] /\ channelNb' = channelNb
    <3>1. Typing /\ PassInv
      BY DEF IInv
    <3>2. CASE Alarm_Recalculate(d)
      <4>1. Goto(Alarm(d), "inverseWait") /\ channelNb' = channelNb
        BY <3>2 DEF Alarm_Recalculate
      <4> QED
        BY <3>1, <4>1, GotoEffect, ThreadsDiffer DEF Labels
    <3> QED
      BY <1>1, <3>1, <3>2, AlarmSteps
  <2>2. \A c \in Channels : Done(c)' <=> Done(c)
    BY <2>1 DEF Done
  <2>3. ASSUME NEW c \in Channels, Done(c)', Known(c)'
        PROVE  Attended(c)'
    <3>1. CASE c = d
      BY <1>1, <2>2, <2>3, <3>1, OwnAlarmAnswers DEF AnswerInv
    <3>2. CASE c # d
      <4>1. Untouched(c) /\ voltageAlarm'[c] = voltageAlarm[c]
        BY <1>1, <3>2, OtherAlarmAnswers
      <4>2. Known(c)
        BY <2>3, <4>1 DEF Known, Untouched
      <4> QED
        BY <2>2, <2>3, <4>1, <4>2, UntouchedStays DEF AnswerInv
    <3> QED
      BY <3>1, <3>2
  <2> QED
    BY <2>3 DEF AnswerInv
<1>2. CASE UNCHANGED vars
  BY <1>2 DEF vars, kernel, flags, AnswerInv, Done, Known, Attended, BeforeTests, AmidTests,
              RaiseMade, LowerMade, Low, High
<1> QED
  BY <1>1, <1>2, OthersAnswer, RMSAnswers DEF Next

\* When Alarm_Thread sleeps until its channel is found out of band again, it has
\* made the request that the latest RMS voltage asks for.
THEOREM ChecksAreAnsweredHolds == Spec => []ChecksAreAnswered
<1>1. Init => AnswerInv
  <2> SUFFICES ASSUME Init, NEW c \in Channels PROVE ~ Known(c)
    BY DEF AnswerInv
  <2> QED
    BY DEF Init, Known
<1>2. IInv /\ AnswerInv => ChecksAreAnswered
  <2> SUFFICES ASSUME IInv, AnswerInv, pc[RMSCalc] \in {"wait", "calculate"}, NEW c \in Channels,
                      Alarm(c) \in waitList[voltageCheck(c)], voltageAlarm[c] \/ RMS[c] # 0
               PROVE  RaiseMade(c) /\ LowerMade(c)
    BY DEF ChecksAreAnswered
  <2> USE ThreadsDiffer, SemaphoresDiffer
  <2>1. Waits(Alarm(c), voltageCheck(c), pc[Alarm(c)]) /\ ~ (count[voltageCheck(c)] > 0)
    BY DEF IInv, Sleeping
  <2>2. pc[Alarm(c)] = "switch"
    BY <2>1 DEF Waits
  <2>3. Attended(c)
    BY DEF AnswerInv, Done, Known
  <2> QED
    BY <2>1, <2>2, <2>3 DEF Attended, BeforeTests, AmidTests
<1> QED
  BY <1>1, <1>2, InitIInv, StepIInv, AnswerStep, PTL DEF Spec

-----------------------------------------------------------------------------
\* What any step does to the kernel: nothing, or one call of it; nobody ever
\* signals PITCountSemaphore.
LEMMA KernelStep ==
  ASSUME Typing, [Next]_vars
  PROVE  \/ UNCHANGED kernel
         \/ \E t \in Threads, s \in Semaphores : Wait(t, s)
         \/ \E s \in Semaphores \ {PITCountSemaphore} : Signal(s)
<1> USE ThreadsDiffer, SemaphoresDiffer
<1>1. CASE PIT_ISR \/ SetMode \/ SampleThread
  <2>1. channelNb[Sample] \in Channels
    BY DEF Typing
  <2> QED
    BY <1>1, <2>1 DEF PIT_ISR, SetMode, SampleThread, Sample_Wait, Sample_Get,
       Sample_SignalRMS, Sample_SignalTime
<1>2. CASE RMS_CalcThread
  BY <1>2 DEF RMS_CalcThread, RMS_Wait, RMS_Calculate, RMS_SetAlarm, RMS_SignalAlarm,
              RMS_ClearAlarm
<1>3. ASSUME NEW c \in Channels, Alarm_Thread(c)
      PROVE  \/ UNCHANGED kernel
             \/ \E t \in Threads, s \in Semaphores : Wait(t, s)
             \/ \E s \in Semaphores \ {PITCountSemaphore} : Signal(s)
  BY <1>3 DEF Alarm_Thread, Alarm_Wait, Alarm_Switch, Alarm_Deviation, Alarm_ReadHigh,
       Alarm_ReadLow, Alarm_Clear, Alarm_DefiniteWait, Alarm_Recalculate,
       Alarm_InverseWait, Alarm_ReadRaise, Alarm_Raise, Alarm_RaiseSignal,
       Alarm_ReadLower, Alarm_Lower, Alarm_LowerSignal
<1>4. CASE SignalOutput_Thread
  BY <1>4 DEF SignalOutput_Thread, SignalOutput_Wait, SignalOutput_Read, SignalOutput_Put
<1>5. CASE UNCHANGED vars
  BY <1>5 DEF vars
<1> QED
  BY <1>1, <1>2, <1>3, <1>4, <1>5 DEF Next

\* An Alarm_Thread that waits for the inverse time never gets on: that the run
\* of InverseTimingGoesOn finds it asleep for ever is no matter of its readings
\* or of the scheduling.
THEOREM InverseTimingNeverGoesOn ==
  ASSUME NEW c \in Channels
  PROVE  Spec => [](Alarm(c) \in waitList[PITCountSemaphore]
                      => [](Alarm(c) \in waitList[PITCountSemaphore]))
<1>1. IInv /\ Alarm(c) \in waitList[PITCountSemaphore] /\ [Next]_vars
        => (Alarm(c) \in waitList[PITCountSemaphore])'
  <2> SUFFICES ASSUME IInv, Alarm(c) \in waitList[PITCountSemaphore], [Next]_vars
               PROVE  Alarm(c) \in waitList'[PITCountSemaphore]
    OBVIOUS
  <2>1. Typing /\ Kernel!TypeOK /\ PITCountSemaphore \in Semaphores
    BY SemaphoresDiffer DEF IInv, Sleeping
  <2>2. CASE UNCHANGED kernel
    BY <2>2 DEF kernel
  <2>3. ASSUME NEW t \in Threads, NEW s \in Semaphores, Wait(t, s)
        PROVE  Alarm(c) \in waitList'[PITCountSemaphore]
    BY <2>1, <2>3 DEF Wait, Kernel!OS_SemaphoreWait, Kernel!TypeOK
  <2>4. ASSUME NEW s \in Semaphores \ {PITCountSemaphore}, Signal(s)
        PROVE  Alarm(c) \in waitList'[PITCountSemaphore]
    BY <2>1, <2>4, SignalFrame
  <2> QED
    BY <2>1, <2>2, <2>3, <2>4, KernelStep
<1> QED
  BY <1>1, InitIInv, StepIInv, PTL DEF Spec

KernelProofs ==
    INSTANCE OSProofs WITH Thread <- Threads, Semaphore <- Semaphores,
                           InitialCount <- [s \in Semaphores |-> 0]

\* The threads of the regulator use the kernel as its clients may.
THEOREM RegulatorRunsKernel == Spec => Kernel!Spec
<1>1. Init => Kernel!Init
  BY DEF Init
<1>2. Typing /\ [Next]_vars => [Kernel!Next]_(Kernel!vars)
  <2> SUFFICES ASSUME Typing, [Next]_vars PROVE [Kernel!Next]_(Kernel!vars)
    OBVIOUS
  <2>1. CASE UNCHANGED kernel
    BY <2>1 DEF kernel, Kernel!vars
  <2>2. CASE \E t \in Threads, s \in Semaphores : Wait(t, s)
    BY <2>2 DEF Wait, Kernel!Next
  <2>3. CASE \E s \in Semaphores \ {PITCountSemaphore} : Signal(s)
    BY <2>3 DEF Signal, Kernel!Next
  <2> QED
    BY <2>1, <2>2, <2>3, KernelStep
<1> QED
  BY <1>1, <1>2, PassInit, PassStep, PTL DEF Spec, Kernel!Spec

LEMMA KernelAssumptions ==
  /\ Threads \subseteq Nat /\ KernelProofs!IsFiniteSet(Threads)
  /\ MaxCount \in Nat \ {0}
  /\ [s \in Semaphores |-> 0] \in [Semaphores -> 0 .. MaxCount]
<1>1. Threads \subseteq 2 .. 8
  BY ChannelAssumption DEF Threads, Channels, Sample, RMSCalc, SignalOutput, Alarm
<1>2. IsFiniteSet(2 .. 8)
  <2>1. 2 \in Int /\ 8 \in Int
    OBVIOUS
  <2> QED
    BY <2>1, FS_Interval, Zenon
<1>3. IsFiniteSet(Threads)
  BY <1>1, <1>2, FS_Subset, Zenon
<1>4. KernelProofs!IsFiniteSet(Threads)
  BY <1>3 DEF IsFiniteSet, KernelProofs!IsFiniteSet
<1> QED
  BY <1>1, <1>4, CountAssumption

\* So its semaphores are counting semaphores, whatever the threads and the PIT do:
\* no permit is gained or lost between a sample and the outputs.
THEOREM RegulatorSemaphoresCount == Spec => KernelProofs!ImplementsCountingSemaphore
<1>1. KernelProofs!Spec => KernelProofs!ImplementsCountingSemaphore
  BY KernelAssumptions, KernelProofs!KernelImplementsCountingSemaphore
<1>2. Kernel!Init => KernelProofs!Init
  BY DEF Kernel!Init, KernelProofs!Init
<1>3. [Kernel!Next]_(Kernel!vars) => [KernelProofs!Next]_(KernelProofs!vars)
  <2>1. KernelProofs!vars = Kernel!vars /\ KernelProofs!vars' = Kernel!vars'
    BY DEF Kernel!vars, KernelProofs!vars
  <2>2. Kernel!Next => KernelProofs!Next
    BY DEF Kernel!Next, Kernel!OS_SemaphoreWait, Kernel!OS_SemaphoreSignal,
           Kernel!OS_ThreadDelete, Kernel!SignalOverflows, Kernel!SignalCounts,
           Kernel!SignalHandsOver, Kernel!Running, Kernel!Highest, Kernel!vars,
           KernelProofs!Next, KernelProofs!OS_SemaphoreWait, KernelProofs!OS_SemaphoreSignal,
           KernelProofs!OS_ThreadDelete, KernelProofs!SignalOverflows,
           KernelProofs!SignalCounts, KernelProofs!SignalHandsOver,
           KernelProofs!Running, KernelProofs!Highest, KernelProofs!vars
  <2> QED
    BY <2>1, <2>2
<1> QED
  BY <1>1, <1>2, <1>3, RegulatorRunsKernel, PTL DEF Kernel!Spec, KernelProofs!Spec
=============================================================================
