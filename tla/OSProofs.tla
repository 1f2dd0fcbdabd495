------------------------------ MODULE OSProofs ------------------------------
(***************************************************************************)
(* Proofs about the kernel, for any finite set of threads, any semaphores, *)
(* any width of the count and any initial counts.                          *)
(***************************************************************************)
EXTENDS OS, FiniteSetTheorems, TLAPS

\* What every list and count of the kernel stays within, whoever calls: the
\* type invariant holds in every reachable state.
THEOREM TypeCorrect == Spec => []TypeOK
<1>1. Init => TypeOK
  BY CountAssumption DEF Init, TypeOK
<1>2. TypeOK /\ [Next]_vars => TypeOK'
  <2> SUFFICES ASSUME TypeOK, [Next]_vars PROVE TypeOK'
    OBVIOUS
  <2> USE CountAssumption DEF TypeOK
  <2>1. ASSUME NEW t \in Thread, NEW s \in Semaphore, OS_SemaphoreWait(t, s)
        PROVE  TypeOK'
    BY <2>1 DEF OS_SemaphoreWait, Running, Highest
  <2>2. ASSUME NEW s \in Semaphore, OS_SemaphoreSignal(s)
        PROVE  TypeOK'
    <3>1. CASE SignalOverflows(s)
      BY <3>1 DEF SignalOverflows, vars
    <3>2. CASE SignalCounts(s)
      BY <3>2 DEF SignalCounts
    <3>3. CASE SignalHandsOver(s)
      <4>1. PICK t \in waitList[s] :
              /\ waitList' = [waitList EXCEPT ![s] = @ \ {t}]
              /\ readyList' = readyList \cup {t}
        BY <3>3 DEF SignalHandsOver
      <4>2. t \in Thread
        OBVIOUS
      <4> QED
        BY <3>3, <4>1, <4>2 DEF SignalHandsOver
    <3> QED
      BY <2>2, <3>1, <3>2, <3>3 DEF OS_SemaphoreSignal
  <2>3. ASSUME NEW t \in Thread, OS_ThreadDelete(t)
        PROVE  TypeOK'
    BY <2>3 DEF OS_ThreadDelete
  <2>4. CASE UNCHANGED vars
    BY <2>4 DEF vars
  <2> QED
    BY <2>1, <2>2, <2>3, <2>4 DEF Next
<1> QED
  BY <1>1, <1>2, PTL DEF Spec

\* A thread the kernel has put to sleep is in one wait list and not ready,
\* whichever thread waits, is signalled or is deleted.
THEOREM OneHomeHolds == Spec => []OneHome
<1>1. Init => OneHome
  BY DEF Init, OneHome
<1>2. TypeOK /\ OneHome /\ [Next]_vars => OneHome'
  <2> SUFFICES ASSUME TypeOK, OneHome, [Next]_vars PROVE OneHome'
    OBVIOUS
  <2> USE DEF TypeOK, OneHome
  <2>1. ASSUME NEW t \in Thread, NEW s \in Semaphore, OS_SemaphoreWait(t, s)
        PROVE  OneHome'
    <3>1. t \in readyList
      BY <2>1 DEF OS_SemaphoreWait, Running, Highest
    <3> QED
      BY <2>1, <3>1 DEF OS_SemaphoreWait
  <2>2. ASSUME NEW s \in Semaphore, OS_SemaphoreSignal(s)
        PROVE  OneHome'
    <3>1. CASE SignalOverflows(s) \/ SignalCounts(s)
      BY <3>1 DEF SignalOverflows, SignalCounts, vars
    <3>2. CASE SignalHandsOver(s)
      <4>1. PICK t \in waitList[s] :
              /\ waitList' = [waitList EXCEPT ![s] = @ \ {t}]
              /\ readyList' = readyList \cup {t}
        BY <3>2 DEF SignalHandsOver
      <4>2. \A r \in Semaphore : t \notin waitList'[r]
        BY <4>1
      <4>3. \A r \in Semaphore : waitList'[r] \subseteq waitList[r]
        BY <4>1
      <4> QED
        BY <4>1, <4>2, <4>3
    <3> QED
      BY <2>2, <3>1, <3>2 DEF OS_SemaphoreSignal
  <2>3. ASSUME NEW t \in Thread, OS_ThreadDelete(t)
        PROVE  OneHome'
    BY <2>3 DEF OS_ThreadDelete
  <2>4. CASE UNCHANGED vars
    BY <2>4 DEF vars
  <2> QED
    BY <2>1, <2>2, <2>3, <2>4 DEF Next
<1> QED
  BY <1>1, <1>2, TypeCorrect, PTL DEF Spec

\* No thread sleeps on a semaphore that holds a count, in any reachable state
\* of the kernel.
THEOREM NoSignalLostHolds == Spec => []NoSignalLost
<1>1. Init => NoSignalLost
  BY DEF Init, NoSignalLost
<1>2. TypeOK /\ NoSignalLost /\ [Next]_vars => NoSignalLost'
  <2> SUFFICES ASSUME TypeOK, NoSignalLost, [Next]_vars PROVE NoSignalLost'
    OBVIOUS
  <2> USE CountAssumption DEF TypeOK, NoSignalLost
  <2>1. ASSUME NEW t \in Thread, NEW s \in Semaphore, OS_SemaphoreWait(t, s)
        PROVE  NoSignalLost'
    BY <2>1 DEF OS_SemaphoreWait
  <2>2. ASSUME NEW s \in Semaphore, OS_SemaphoreSignal(s)
        PROVE  NoSignalLost'
    <3>1. CASE SignalOverflows(s)
      BY <3>1 DEF SignalOverflows, vars
    <3>2. CASE SignalCounts(s)
      BY <3>2 DEF SignalCounts
    <3>3. CASE SignalHandsOver(s)
      <4>1. PICK t \in waitList[s] :
              waitList' = [waitList EXCEPT ![s] = @ \ {t}]
        BY <3>3 DEF SignalHandsOver
      <4>2. \A r \in Semaphore : waitList'[r] \subseteq waitList[r]
        BY <4>1
      <4> QED
        BY <3>3, <4>2 DEF SignalHandsOver
    <3> QED
      BY <2>2, <3>1, <3>2, <3>3 DEF OS_SemaphoreSignal
  <2>3. ASSUME NEW t \in Thread, OS_ThreadDelete(t)
        PROVE  NoSignalLost'
    BY <2>3 DEF OS_ThreadDelete
  <2>4. CASE UNCHANGED vars
    BY <2>4 DEF vars
  <2> QED
    BY <2>1, <2>2, <2>3, <2>4 DEF Next
<1> QED
  BY <1>1, <1>2, TypeCorrect, PTL DEF Spec

\* The wait lists are finite, so they have a cardinality that grows and shrinks
\* by one.
LEMMA WaitListSizes ==
  ASSUME TypeOK, NEW s \in Semaphore, NEW t \in Thread
  PROVE  /\ IsFiniteSet(waitList[s])
         /\ Cardinality(waitList[s]) \in Nat
         /\ t \notin waitList[s] =>
              Cardinality(waitList[s] \cup {t}) = Cardinality(waitList[s]) + 1
         /\ t \in waitList[s] =>
              /\ Cardinality(waitList[s] \ {t}) = Cardinality(waitList[s]) - 1
              /\ Cardinality(waitList[s]) > 0
<1>1. IsFiniteSet(waitList[s])
  <2>1. waitList[s] \subseteq Thread
    BY DEF TypeOK
  <2> QED
    BY <2>1, ThreadAssumption, FS_Subset
<1>2. Cardinality(waitList[s]) \in Nat
  BY <1>1, FS_CardinalityType
<1>3. ASSUME t \notin waitList[s]
      PROVE  Cardinality(waitList[s] \cup {t}) = Cardinality(waitList[s]) + 1
  BY <1>1, <1>3, FS_AddElement
<1>4. ASSUME t \in waitList[s]
      PROVE  /\ Cardinality(waitList[s] \ {t}) = Cardinality(waitList[s]) - 1
             /\ Cardinality(waitList[s]) > 0
  <2>1. Cardinality(waitList[s] \ {t}) = Cardinality(waitList[s]) - 1
    BY <1>1, <1>4, FS_RemoveElement
  <2>2. Cardinality(waitList[s]) # 0
    BY <1>1, <1>4, FS_EmptySet
  <2> QED
    BY <1>2, <2>1, <2>2
<1> QED
  BY <1>1, <1>2, <1>3, <1>4

\* An operation on one semaphore changes the permits of that one only.
LEMMA PermitsChange ==
  ASSUME NEW s \in Semaphore, NEW x,
         \A r \in Semaphore \ {s} :
            count'[r] = count[r] /\ waitList'[r] = waitList[r],
         count'[s] - Cardinality(waitList'[s]) = x
  PROVE  Permits' = [Permits EXCEPT ![s] = x]
<1>1. \A r \in Semaphore \ {s} : Permits'[r] = Permits[r]
  BY DEF Permits
<1>2. Permits'[s] = x
  BY DEF Permits
<1>3. Permits' = [r \in Semaphore |-> Permits'[r]]
  BY DEF Permits
<1>4. [Permits EXCEPT ![s] = x] = [r \in Semaphore |-> IF r = s THEN x ELSE Permits[r]]
  BY DEF Permits
<1> QED
  BY <1>1, <1>2, <1>3, <1>4

\* The kernel's semaphores implement counting semaphores: the hand-over of a
\* signal to the most urgent waiter and the two branches of OS_SemaphoreWait
\* keep the permits exact.  NoSignalLost makes the permits positive only when
\* nobody sleeps, OneHome makes a waiter's wait list grow by one.
THEOREM KernelImplementsCountingSemaphore == Spec => ImplementsCountingSemaphore
<1>1. Init => Abstract!Init
  <2> SUFFICES ASSUME Init PROVE Abstract!Init
    OBVIOUS
  <2>1. \A s \in Semaphore : Permits[s] = InitialCount[s]
    BY FS_EmptySet, CountAssumption DEF Init, Permits
  <2>2. Permits = InitialCount
    BY <2>1, CountAssumption DEF Permits
  <2> QED
    BY <2>2 DEF Init, Abstract!Init
<1>2. TypeOK /\ OneHome /\ NoSignalLost /\ [Next]_vars
        => [Abstract!Next]_(Abstract!vars)
  <2> SUFFICES ASSUME TypeOK, OneHome, NoSignalLost, [Next]_vars
               PROVE  Abstract!Next \/ (UNCHANGED <<count, waitList>>)
    BY DEF Abstract!vars, Permits
  <2> USE CountAssumption DEF Permits
  <2>1. ASSUME NEW t \in Thread, NEW s \in Semaphore, OS_SemaphoreWait(t, s)
        PROVE  Abstract!Acquire(t, s)
    <3>1. \A r \in Semaphore : t \notin waitList[r]
      BY <2>1 DEF OS_SemaphoreWait, Running, Highest, OneHome
    <3>2. CASE count[s] > 0
      <4>1. waitList[s] = {} /\ Cardinality(waitList[s]) = 0
        BY <3>2, FS_EmptySet DEF NoSignalLost
      <4>2. /\ count' = [count EXCEPT ![s] = @ - 1]
            /\ waitList' = waitList
        BY <2>1, <3>2 DEF OS_SemaphoreWait
      <4>3. Permits' = [Permits EXCEPT ![s] = @ - 1]
        <5>1. count'[s] - Cardinality(waitList'[s]) = Permits[s] - 1
          BY <4>1, <4>2 DEF TypeOK
        <5>2. \A r \in Semaphore \ {s} :
                 count'[r] = count[r] /\ waitList'[r] = waitList[r]
          BY <4>2 DEF TypeOK
        <5> QED
          BY <5>1, <5>2, PermitsChange
      <4>4. Permits[s] > 0
        BY <3>2, <4>1 DEF TypeOK
      <4> QED
        BY <3>1, <4>2, <4>3, <4>4 DEF Abstract!Acquire
    <3>3. CASE count[s] = 0
      <4>1. /\ count' = count
            /\ waitList' = [waitList EXCEPT ![s] = @ \cup {t}]
        BY <2>1, <3>3 DEF OS_SemaphoreWait
      <4>2. /\ Cardinality(waitList[s]) \in Nat
            /\ Cardinality(waitList[s] \cup {t}) = Cardinality(waitList[s]) + 1
        BY <3>1, WaitListSizes
      <4>3. /\ waitList'[s] = waitList[s] \cup {t}
            /\ \A r \in Semaphore \ {s} : waitList'[r] = waitList[r]
        BY <4>1 DEF TypeOK
      <4>4. Permits' = [Permits EXCEPT ![s] = @ - 1]
        <5>1. count'[s] - Cardinality(waitList'[s]) = Permits[s] - 1
          BY <3>3, <4>1, <4>2, <4>3
        <5> QED
          BY <4>1, <4>3, <5>1, PermitsChange
      <4>5. Permits[s] <= 0
        BY <3>3, <4>2
      <4> QED
        BY <3>1, <4>1, <4>4, <4>5 DEF Abstract!Acquire
    <3> QED
      BY <2>1, <3>2, <3>3 DEF OS_SemaphoreWait
  <2>2. ASSUME NEW s \in Semaphore, OS_SemaphoreSignal(s)
        PROVE  Abstract!Release(s) \/ (UNCHANGED <<count, waitList>>)
    <3>1. CASE SignalOverflows(s)
      BY <3>1 DEF SignalOverflows, vars
    <3>2. CASE SignalCounts(s)
      <4>1. Cardinality(waitList[s]) = 0
        BY <3>2, FS_EmptySet DEF SignalCounts
      <4>2. /\ count' = [count EXCEPT ![s] = @ + 1]
            /\ waitList' = waitList
            /\ count[s] # MaxCount
        BY <3>2 DEF SignalCounts
      <4>3. Permits' = [Permits EXCEPT ![s] = @ + 1]
        <5>1. count'[s] - Cardinality(waitList'[s]) = Permits[s] + 1
          BY <4>1, <4>2 DEF TypeOK
        <5>2. \A r \in Semaphore \ {s} :
                 count'[r] = count[r] /\ waitList'[r] = waitList[r]
          BY <4>2 DEF TypeOK
        <5> QED
          BY <5>1, <5>2, PermitsChange
      <4>4. Permits[s] >= 0 /\ Permits[s] < MaxCount
        BY <4>1, <4>2 DEF TypeOK
      <4> QED
        BY <4>2, <4>3, <4>4 DEF Abstract!Release
    <3>3. CASE SignalHandsOver(s)
      <4>1. PICK t \in waitList[s] :
              waitList' = [waitList EXCEPT ![s] = @ \ {t}]
        BY <3>3 DEF SignalHandsOver
      <4>2. count[s] = 0 /\ count' = count
        BY <3>3, <4>1 DEF SignalHandsOver, NoSignalLost, TypeOK
      <4>3. t \in Thread
        BY DEF TypeOK
      <4>4. /\ Cardinality(waitList[s]) \in Nat
            /\ Cardinality(waitList[s]) > 0
            /\ Cardinality(waitList[s] \ {t}) = Cardinality(waitList[s]) - 1
        BY <4>3, WaitListSizes
      <4>5. /\ waitList'[s] = waitList[s] \ {t}
            /\ \A r \in Semaphore \ {s} : waitList'[r] = waitList[r]
        BY <4>1 DEF TypeOK
      <4>6. Permits' = [Permits EXCEPT ![s] = @ + 1]
        <5>1. count'[s] - Cardinality(waitList'[s]) = Permits[s] + 1
          BY <4>2, <4>4, <4>5
        <5> QED
          BY <4>2, <4>5, <5>1, PermitsChange
      <4>7. Permits[s] < 0 /\ Permits[s] < MaxCount
        BY <4>2, <4>4
      <4> QED
        BY <4>1, <4>6, <4>7 DEF Abstract!Release
    <3> QED
      BY <2>2, <3>1, <3>2, <3>3 DEF OS_SemaphoreSignal
  <2>3. ASSUME NEW t \in Thread, OS_ThreadDelete(t)
        PROVE  UNCHANGED <<count, waitList>>
    BY <2>3 DEF OS_ThreadDelete
  <2>4. CASE UNCHANGED vars
    BY <2>4 DEF vars
  <2> QED
    BY <2>1, <2>2, <2>3, <2>4 DEF Next, Abstract!Next
<1> QED
  BY <1>1, <1>2, TypeCorrect, OneHomeHolds, NoSignalLostHolds, PTL
     DEF Spec, ImplementsCountingSemaphore, Abstract!Spec
=============================================================================
