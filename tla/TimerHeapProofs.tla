--------------------------- MODULE TimerHeapProofs ---------------------------
(***************************************************************************)
(* TimerInv is an invariant of TimerHeap, for any number of timers, any    *)
(* delays and any length of time.                                          *)
(***************************************************************************)
EXTENDS TimerHeap, TLAPS

USE MaxTimersAssumption, DelaysAssumption, MaxTimeAssumption, NoneAssumption

(* What IsTop is used for: the top expires first ... *)
LEMMA TopIsFirst ==
    ASSUME NEW h \in SUBSET Timers, expireAt \in [Timers -> Nat],
           NEW i \in h, IsTop(i, h)
    PROVE  \A j \in h : expireAt[i] <= expireAt[j]
  <1> TAKE j \in h
  <1>1. CASE j = i
    BY <1>1 DEF Timers
  <1>2. CASE j # i
    BY <1>2 DEF IsTop, HeapLess, Timers
  <1> QED BY <1>1, <1>2

(* ... and a timer that is not the top has one before it. *)
LEMMA NotTop ==
    ASSUME NEW h \in SUBSET Timers, expireAt \in [Timers -> Nat],
           NEW i \in Timers, ~IsTop(i, h \cup {i})
    PROVE  \E j \in h : expireAt[j] <= expireAt[i]
  BY DEF IsTop, HeapLess, Timers

(* Resetting the system timer for the top covers the whole heap. *)
LEMMA Follows ==
    ASSUME NEW h \in SUBSET Timers, expireAt \in [Timers -> Nat], followTop(h)
    PROVE  /\ armed' \in Nat \cup {None} /\ tick' = FALSE
           /\ h = {} => armed' = None
           /\ h # {} => armed' # None /\ \A i \in h : armed' <= expireAt[i]
  <1>1. CASE h = {}
    BY <1>1 DEF followTop, stopSysTimer
  <1>2. CASE h # {}
    <2>1. PICK j \in h : IsTop(j, h) /\ armed' = expireAt[j] /\ tick' = FALSE
      BY <1>2 DEF followTop, resetSysTimer
    <2>2. \A i \in h : expireAt[j] <= expireAt[i]
      BY <2>1, TopIsFirst
    <2>3. expireAt[j] \in Nat
      OBVIOUS
    <2> QED BY <1>2, <2>1, <2>2, <2>3
  <1> QED BY <1>1, <1>2

-----------------------------------------------------------------------------
LEMMA DelayIsNat == \A d \in Delays \cup {0} : d \in Nat
  OBVIOUS

LEMMA TimerInit == Init => TimerInv
  <1> SUFFICES ASSUME Init PROVE TimerInv
    OBVIOUS
  <1>1. 0 \in 0 .. MaxTime /\ 0 \in 0 .. MaxTimers
    OBVIOUS
  <1>2. TypeOK
    BY <1>1 DEF Init, TypeOK
  <1>3. IdsAreFresh /\ SysTimerCovers /\ StoppedIsSilent
    BY DEF Init, IdsAreFresh, SysTimerCovers, StoppedIsSilent
  <1> QED BY <1>2, <1>3 DEF TimerInv

LEMMA NewTimerKeeps ==
    ASSUME TimerInv, NEW d \in Delays, NEW p \in BOOLEAN, NewTimer(d, p)
    PROVE  TimerInv'
  <1>1. idGen \in Nat /\ idGen + 1 \in Timers /\ now + d \in Nat
    <2>1. d \in Nat /\ now \in Nat
      BY DelayIsNat DEF TimerInv, TypeOK
    <2> QED BY <2>1 DEF NewTimer, TimerInv, TypeOK, Timers
  <1>2. idGen + 1 \notin heap
    BY <1>1 DEF TimerInv, TypeOK, IdsAreFresh
  <1>3. TypeOK'
    <2>1. /\ phase' \in [Timers -> {"none", "new", "started", "refused"}]
          /\ expireAt' \in [Timers -> Nat]
          /\ delay' \in [Timers -> Delays \cup {0}]
          /\ periodic' \in [Timers -> BOOLEAN]
      BY <1>1 DEF NewTimer, TimerInv, TypeOK
    <2>2. heap' \subseteq {i \in Timers : phase'[i] = "started"}
      BY <1>1, <1>2 DEF NewTimer, TimerInv, TypeOK
    <2>3. idGen' \in 0 .. MaxTimers
      BY DEF NewTimer, TimerInv, TypeOK
    <2> QED BY <2>1, <2>2, <2>3 DEF NewTimer, TimerInv, TypeOK, loop
  <1>4. IdsAreFresh'
    BY <1>1 DEF NewTimer, TimerInv, TypeOK, IdsAreFresh, Timers
  <1>5. \A i \in heap : expireAt'[i] = expireAt[i]
    BY <1>2 DEF NewTimer, TimerInv, TypeOK
  <1> QED BY <1>3, <1>4, <1>5 DEF NewTimer, TimerInv, SysTimerCovers, StoppedIsSilent, loop

LEMMA StartTimerKeeps ==
    ASSUME TimerInv, NEW i \in Timers, StartTimer(i)
    PROVE  TimerInv'
  <1> USE DEF TimerInv, TypeOK, loop
  <1>1. TypeOK'
    <2>1. expireAt[i] \in Nat
      OBVIOUS
    <2>2. phase' \in [Timers -> {"none", "new", "started", "refused"}]
      BY DEF StartTimer
    <2>3. heap' \subseteq {j \in Timers : phase'[j] = "started"}
      <3>1. CASE stopped
        BY <3>1 DEF StartTimer, StoppedIsSilent
      <3>2. CASE ~stopped
        BY <3>2 DEF StartTimer
      <3> QED BY <3>1, <3>2
    <2>4. armed' \in Nat \cup {None} /\ tick' \in BOOLEAN
      BY <2>1 DEF StartTimer, resetSysTimer
    <2> QED BY <2>2, <2>3, <2>4 DEF StartTimer
  <1>2. SysTimerCovers'
    <2>1. CASE stopped
      BY <2>1 DEF StartTimer, SysTimerCovers
    <2>2. CASE ~stopped /\ IsTop(i, heap \cup {i})
      <3>1. \A j \in heap \cup {i} : expireAt[i] <= expireAt[j]
        BY <2>2, heap \cup {i} \in SUBSET Timers, TopIsFirst
      <3>2. expireAt[i] \in Nat
        OBVIOUS
      <3> QED BY <3>2, <2>2, <3>1 DEF StartTimer, SysTimerCovers, resetSysTimer
    <2>3. CASE ~stopped /\ ~IsTop(i, heap \cup {i})
      <3>1. PICK j \in heap : expireAt[j] <= expireAt[i]
        BY <2>3, NotTop
      <3> QED BY <2>3, <3>1 DEF StartTimer, SysTimerCovers
    <2> QED BY <2>1, <2>2, <2>3
  <1>3. StoppedIsSilent'
    BY DEF StartTimer, StoppedIsSilent, resetSysTimer
  <1>4. IdsAreFresh'
    <2>1. idGen \in Nat
      OBVIOUS
    <2> QED BY <2>1 DEF StartTimer, IdsAreFresh, Timers
  <1> QED BY <1>1, <1>2, <1>3, <1>4

LEMMA StopTimerKeeps ==
    ASSUME TimerInv, NEW i \in Timers, StopTimer(i)
    PROVE  TimerInv'
  <1> USE DEF TimerInv, TypeOK, IdsAreFresh, fields, loop
  <1>1. ~stopped
    BY DEF StopTimer, StoppedIsSilent
  <1>2. CASE IsTop(i, heap)
    <2>1. followTop(heap \ {i}) /\ heap' = heap \ {i}
      BY <1>2 DEF StopTimer
    <2>2. /\ armed' \in Nat \cup {None} /\ tick' = FALSE
          /\ heap' # {} => armed' # None /\ \A j \in heap' : armed' <= expireAt[j]
      BY <2>1, Follows
    <2> QED BY <1>1, <2>1, <2>2 DEF StopTimer, SysTimerCovers, StoppedIsSilent
  <1>3. CASE ~IsTop(i, heap)
    BY <1>1, <1>3 DEF StopTimer, SysTimerCovers, StoppedIsSilent
  <1> QED BY <1>2, <1>3

LEMMA UpdateEndsKeeps ==
    ASSUME TimerInv, UpdateEnds
    PROVE  TimerInv'
  <1> USE DEF TimerInv, TypeOK, IdsAreFresh, fields
  <1>1. CASE heap = {}
    BY <1>1 DEF UpdateEnds, SysTimerCovers, StoppedIsSilent
  <1>2. CASE heap # {}
    <2>1. followTop(heap)
      BY <1>2 DEF UpdateEnds
    <2>2. /\ armed' \in Nat \cup {None} /\ tick' = FALSE
          /\ armed' # None /\ \A j \in heap : armed' <= expireAt[j]
      BY <1>2, <2>1, Follows
    <2> QED BY <2>2 DEF UpdateEnds, SysTimerCovers, StoppedIsSilent
  <1> QED BY <1>1, <1>2

LEMMA UpdateExpiresKeeps ==
    ASSUME TimerInv, UpdateExpires
    PROVE  TimerInv'
  <1> USE DEF TimerInv, TypeOK, IdsAreFresh, fields
  <1>1. PICK i \in heap :
            IF periodic[i]
            THEN expireAt' = [expireAt EXCEPT ![i] = @ + delay[i]] /\ UNCHANGED heap
            ELSE heap' = heap \ {i} /\ UNCHANGED expireAt
    BY DEF UpdateExpires
  <1>2. expireAt[i] + delay[i] \in Nat /\ i \in Timers
    <2>1. i \in Timers
      OBVIOUS
    <2>2. expireAt[i] \in Nat
      BY <2>1
    <2>3. delay[i] \in Delays \cup {0}
      BY <2>1
    <2>4. delay[i] \in Nat
      BY ONLY <2>3, DelayIsNat
    <2> QED BY <2>1, <2>2, <2>4
  <1> QED BY <1>1, <1>2 DEF UpdateExpires, SysTimerCovers, StoppedIsSilent

(* The other steps leave the heap and its timers alone. *)
LEMMA OtherStepsKeep ==
    ASSUME TimerInv,
           \/ Tick \/ SysTimerExpires \/ Stop \/ Receive \/ LoopReturns \/ ReadNow
           \/ UpdateNil \/ Callback \/ UNCHANGED vars
    PROVE  TimerInv'
  <1> USE DEF TimerInv, TypeOK, IdsAreFresh, SysTimerCovers, StoppedIsSilent, fields, loop
  <1>1. CASE Tick
    BY <1>1 DEF Tick
  <1>2. CASE SysTimerExpires
    BY <1>2 DEF SysTimerExpires
  <1>3. CASE Stop
    BY <1>3 DEF Stop, stopSysTimer
  <1>4. CASE Receive
    BY <1>4 DEF Receive
  <1>5. CASE LoopReturns
    BY <1>5 DEF LoopReturns
  <1>6. CASE ReadNow
    BY <1>6 DEF ReadNow
  <1>7. CASE UpdateNil
    BY <1>7 DEF UpdateNil
  <1>8. CASE Callback
    BY <1>8 DEF Callback
  <1>9. CASE UNCHANGED vars
    BY <1>9 DEF vars
  <1> QED BY <1>1, <1>2, <1>3, <1>4, <1>5, <1>6, <1>7, <1>8, <1>9

LEMMA TimerNext == TimerInv /\ [Next]_vars => TimerInv'
  <1> SUFFICES ASSUME TimerInv, [Next]_vars PROVE TimerInv'
    OBVIOUS
  <1>1. CASE \E d \in Delays, p \in BOOLEAN : NewTimer(d, p)
    BY <1>1, NewTimerKeeps
  <1>2. CASE \E i \in Timers : StartTimer(i)
    BY <1>2, StartTimerKeeps
  <1>3. CASE \E i \in Timers : StopTimer(i)
    BY <1>3, StopTimerKeeps
  <1>4. CASE UpdateEnds
    BY <1>4, UpdateEndsKeeps
  <1>5. CASE UpdateExpires
    BY <1>5, UpdateExpiresKeeps
  <1> QED BY <1>1, <1>2, <1>3, <1>4, <1>5, OtherStepsKeep DEF Next, LoopStep

-----------------------------------------------------------------------------
(* TimerInv holds in every state of StartTimer, StopTimer, Stop, update    *)
(* and the system timer.                                                   *)
THEOREM TimerInvariance == Spec => []TimerInv
  BY TimerInit, TimerNext, PTL DEF Spec

(* The types: a timer is in the heap only when StartTimer has added it.    *)
THEOREM TimerTypeCorrect == Spec => []TypeOK
  <1>1. TimerInv => TypeOK
    BY DEF TimerInv
  <1> QED BY <1>1, TimerInvariance, PTL

(* No timer of the heap is ever left without a wakeup: while loop sleeps,  *)
(* the system timer is set no later than the first of them.                *)
THEOREM NoTimerForgotten == Spec => []SysTimerCovers
  <1>1. TimerInv => SysTimerCovers
    BY DEF TimerInv
  <1> QED BY <1>1, TimerInvariance, PTL

(* After TimerHeap.Stop nothing is left that could go off.                 *)
THEOREM StopSilences == Spec => []StoppedIsSilent
  <1>1. TimerInv => StoppedIsSilent
    BY DEF TimerInv
  <1> QED BY <1>1, TimerInvariance, PTL

-----------------------------------------------------------------------------
LEMMA MapsInit == Init => TimerSys!Init
  BY DEF Init, TimerSys!Init

(* What update does to the heap is a Fire of the abstract system, since no *)
(* callback runs when it looks; every other step of loop but the return of *)
(* the callback is invisible.                                              *)
LEMMA MapsLoop ==
    ASSUME TimerInv, LoopStep
    PROVE  TimerSys!Next \/ UNCHANGED TimerSys!vars
  <1> USE DEF TimerSys!vars
  <1>1. CASE Receive
    BY <1>1 DEF Receive
  <1>2. CASE LoopReturns
    BY <1>2 DEF LoopReturns
  <1>3. CASE ReadNow
    BY <1>3 DEF ReadNow
  <1>4. CASE UpdateNil
    BY <1>4 DEF UpdateNil
  <1>5. CASE UpdateEnds
    BY <1>5 DEF UpdateEnds
  <1>6. CASE UpdateExpires
    <2>1. PICK i \in heap : heap' \in {heap, heap \ {i}}
      BY <1>6 DEF UpdateExpires
    <2>2. i \in Timers
      BY <2>1 DEF TimerInv, TypeOK
    <2>3. TimerSys!Fire(i)
      BY <1>6, <2>1 DEF UpdateExpires, TimerSys!Fire
    <2> QED BY <2>2, <2>3 DEF TimerSys!Next
  <1>7. CASE Callback
    BY <1>7 DEF Callback, TimerSys!Return, TimerSys!Next
  <1> QED BY <1>1, <1>2, <1>3, <1>4, <1>5, <1>6, <1>7 DEF LoopStep

LEMMA MapsNext == TimerInv /\ [Next]_vars => [TimerSys!Next]_(TimerSys!vars)
  <1> SUFFICES ASSUME TimerInv, [Next]_vars
               PROVE  TimerSys!Next \/ UNCHANGED TimerSys!vars
    OBVIOUS
  <1> USE DEF loop
  <1>1. CASE Tick \/ SysTimerExpires \/ UNCHANGED vars
    BY <1>1 DEF Tick, SysTimerExpires, vars, TimerSys!vars
  <1>2. CASE \E d \in Delays, p \in BOOLEAN : NewTimer(d, p)
    BY <1>2 DEF NewTimer, TimerSys!vars
  <1>3. ASSUME NEW i \in Timers, StartTimer(i)
        PROVE  TimerSys!Next \/ UNCHANGED TimerSys!vars
    <2>1. CASE stopped
      BY <1>3, <2>1 DEF StartTimer, TimerSys!vars
    <2>2. CASE ~stopped
      <3>1. TimerSys!Start(i)
        BY <1>3, <2>2 DEF StartTimer, TimerSys!Start
      <3> QED BY <3>1 DEF TimerSys!Next
    <2> QED BY <2>1, <2>2
  <1>4. ASSUME NEW i \in Timers, StopTimer(i)
        PROVE  TimerSys!Next
    <2>1. TimerSys!Stop(i)
      BY <1>4 DEF StopTimer, TimerSys!Stop
    <2> QED BY <2>1 DEF TimerSys!Next
  <1>5. CASE Stop
    BY <1>5 DEF Stop, TimerSys!StopAll, TimerSys!Next
  <1>6. CASE LoopStep
    BY <1>6, MapsLoop
  <1> QED BY <1>1, <1>2, <1>3, <1>4, <1>5, <1>6 DEF Next

(* TimerHeap implements TimerSystem: only a timer that StartTimer has added *)
(* and that neither StopTimer nor update has taken out fires, one callback  *)
(* of update runs at a time, and after Stop there are no timers.            *)
THEOREM HeapIsATimerSystem == Spec => ImplementsTimerSystem
  <1>1. Init => TimerSys!Init
    BY MapsInit
  <1>2. TimerInv /\ [Next]_vars => [TimerSys!Next]_(TimerSys!vars)
    BY MapsNext
  <1> QED BY <1>1, <1>2, TimerInvariance, PTL DEF Spec, ImplementsTimerSystem, TimerSys!Spec
=============================================================================
