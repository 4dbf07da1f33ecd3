------------------------------ MODULE TimerHeap ------------------------------
(***************************************************************************)
(* The timer system of net/timer_heap.go: many timers on one system timer. *)
(* A heap orders the timers by expiry, the system timer is set for its top, *)
(* and a goroutine that hears the system timer runs the callbacks of all   *)
(* that is due, without the mutex.  Timers are started and stopped by any  *)
(* goroutine, from callbacks as well, and the whole may be stopped.         *)
(*                                                                         *)
(* A step is a section under TimerHeap.mtx, a read of the clock outside of *)
(* it, a callback, or a step of the system timer (time.Timer, Go 1.23: a   *)
(* timer that is stopped or reset leaves nothing in its channel).  A timer *)
(* is its id; the heap is a set, its order HeapLess.                       *)
(*                                                                         *)
(* Name_Variant is a wrong version of the action Name.                     *)
(***************************************************************************)
EXTENDS Integers

CONSTANTS MaxTimers,   \* how many timers are started
          Delays,      \* their delays
          MaxTime,     \* where the clock stops
          None

Timers == 1 .. MaxTimers

ASSUME MaxTimersAssumption == MaxTimers \in Nat
ASSUME DelaysAssumption == Delays \subseteq Nat \ {0}
ASSUME MaxTimeAssumption == MaxTime \in Nat
ASSUME NoneAssumption == None \notin Int

VARIABLES
    now,        \* the clock
    idGen,      \* timerIdGen
    phase,      \* phase[i]: how far StartTimer of timer i has come
    expireAt,   \* expireAt[i], delay[i], periodic[i]: fields of timer i
    delay,
    periodic,
    heap,       \* timerHeap and timerMap
    armed,      \* what the system timer is set to
    tick,       \* is there a value in sysTimer.C?
    stopped,
    loopPc,     \* where the goroutine of loop is
    loopNow     \* the time update has read

vars == <<now, idGen, phase, expireAt, delay, periodic, heap, armed, tick,
          stopped, loopPc, loopNow>>
fields == <<phase, delay, periodic>>
loop == <<loopPc, loopNow>>

TypeOK ==
    /\ now \in 0 .. MaxTime
    /\ idGen \in 0 .. MaxTimers
    /\ phase \in [Timers -> {"none", "new", "started", "refused"}]
    /\ expireAt \in [Timers -> Nat]
    /\ delay \in [Timers -> Delays \cup {0}]
    /\ periodic \in [Timers -> BOOLEAN]
    /\ heap \subseteq {i \in Timers : phase[i] = "started"}
    /\ armed \in Nat \cup {None}
    /\ tick \in BOOLEAN
    /\ stopped \in BOOLEAN
    /\ loopPc \in {"select", "update", "lock", "callback", "done", "panic"}
    /\ loopNow \in 0 .. MaxTime

(* NewTimerHeap: the system timer starts with a delay of 0. *)
Init ==
    /\ now = 0
    /\ idGen = 0
    /\ phase = [i \in Timers |-> "none"]
    /\ expireAt = [i \in Timers |-> 0]
    /\ delay = [i \in Timers |-> 0]
    /\ periodic = [i \in Timers |-> FALSE]
    /\ heap = {}
    /\ armed = 0
    /\ tick = FALSE
    /\ stopped = FALSE
    /\ loopPc = "select"
    /\ loopNow = 0

-----------------------------------------------------------------------------
HeapLess(i, j) == \/ expireAt[i] < expireAt[j]
                  \/ expireAt[i] = expireAt[j] /\ i < j

IsTop(i, h) == i \in h /\ \A j \in h \ {i} : HeapLess(i, j)

resetSysTimer(t) == armed' = t /\ tick' = FALSE
stopSysTimer == armed' = None /\ tick' = FALSE

(* The system timer follows the top of the heap h. *)
followTop(h) == IF h = {} THEN stopSysTimer
                ELSE \E j \in h : IsTop(j, h) /\ resetSysTimer(expireAt[j])

-----------------------------------------------------------------------------
(* Time, and the system timer. *)

Tick == /\ now < MaxTime
        /\ now' = now + 1
        /\ UNCHANGED <<idGen, fields, expireAt, heap, armed, tick, stopped, loop>>

SysTimerExpires ==
    /\ armed # None /\ armed <= now
    /\ armed' = None
    /\ tick' = TRUE
    /\ UNCHANGED <<now, idGen, fields, expireAt, heap, stopped, loop>>

-----------------------------------------------------------------------------
(* StartTimer: the timer is made without the lock ... *)
NewTimer(d, p) ==
    /\ idGen < MaxTimers
    /\ idGen' = idGen + 1
    /\ phase' = [phase EXCEPT ![idGen + 1] = "new"]
    /\ expireAt' = [expireAt EXCEPT ![idGen + 1] = now + d]
    /\ delay' = [delay EXCEPT ![idGen + 1] = d]
    /\ periodic' = [periodic EXCEPT ![idGen + 1] = p]
    /\ UNCHANGED <<now, heap, armed, tick, stopped, loop>>

(* Variant: the timer is added before it is known whether it may be. *)
StartTimer_AddFirst(i) ==
    /\ phase[i] = "new"
    /\ heap' = heap \cup {i}
    /\ IF stopped
       THEN phase' = [phase EXCEPT ![i] = "refused"] /\ UNCHANGED <<armed, tick>>
       ELSE /\ phase' = [phase EXCEPT ![i] = "started"]
            /\ IF IsTop(i, heap \cup {i}) THEN resetSysTimer(expireAt[i])
                                          ELSE UNCHANGED <<armed, tick>>
    /\ UNCHANGED <<now, idGen, expireAt, delay, periodic, stopped, loop>>

(* ... and added under it. *)
StartTimer(i) ==
    /\ phase[i] = "new"
    /\ IF stopped
       THEN phase' = [phase EXCEPT ![i] = "refused"] /\ UNCHANGED <<heap, armed, tick>>
       ELSE /\ phase' = [phase EXCEPT ![i] = "started"]
            /\ heap' = heap \cup {i}
            /\ IF IsTop(i, heap \cup {i}) THEN resetSysTimer(expireAt[i])
                                          ELSE UNCHANGED <<armed, tick>>
    /\ UNCHANGED <<now, idGen, expireAt, delay, periodic, stopped, loop>>

(* Variant: the system timer goes off with the top, whatever is left. *)
StopTimer_NoRearm(i) ==
    /\ i \in heap
    /\ heap' = heap \ {i}
    /\ IF IsTop(i, heap) THEN stopSysTimer ELSE UNCHANGED <<armed, tick>>
    /\ UNCHANGED <<now, idGen, fields, expireAt, stopped, loop>>

(* A timer that is no longer there, or a heap that is stopped: no effect. *)
StopTimer(i) ==
    /\ i \in heap
    /\ heap' = heap \ {i}
    /\ IF IsTop(i, heap) THEN followTop(heap \ {i}) ELSE UNCHANGED <<armed, tick>>
    /\ UNCHANGED <<now, idGen, fields, expireAt, stopped, loop>>

Stop == /\ ~stopped
        /\ stopped' = TRUE
        /\ heap' = {}
        /\ stopSysTimer
        /\ UNCHANGED <<now, idGen, fields, expireAt, loop>>

-----------------------------------------------------------------------------
(* loop and update *)

Receive == /\ loopPc = "select" /\ tick
           /\ tick' = FALSE
           /\ loopPc' = "update"
           /\ UNCHANGED <<now, idGen, fields, expireAt, heap, armed, stopped, loopNow>>

LoopReturns == /\ loopPc = "select" /\ stopped
               /\ loopPc' = "done"
               /\ UNCHANGED <<now, idGen, fields, expireAt, heap, armed, tick,
                              stopped, loopNow>>

(* The clock is read before the lock is taken. *)
ReadNow == /\ loopPc = "update"
           /\ loopNow' = now
           /\ loopPc' = "lock"
           /\ UNCHANGED <<now, idGen, fields, expireAt, heap, armed, tick, stopped>>

(* Stop has set timerHeap to nil, and update looks at it all the same. *)
UpdateNil == /\ loopPc = "lock" /\ stopped
             /\ loopPc' = "panic"
             /\ UNCHANGED <<now, idGen, fields, expireAt, heap, armed, tick,
                            stopped, loopNow>>

(* Variant: the system timer is not set again. *)
UpdateEnds_NoReset ==
    /\ loopPc = "lock" /\ ~stopped
    /\ \A i \in heap : expireAt[i] > loopNow
    /\ loopPc' = "select"
    /\ UNCHANGED <<now, idGen, fields, expireAt, heap, armed, tick, stopped, loopNow>>

(* Nothing is due: the system timer is set for the top, if there is one. *)
UpdateEnds ==
    /\ loopPc = "lock" /\ ~stopped
    /\ \A i \in heap : expireAt[i] > loopNow
    /\ IF heap = {} THEN UNCHANGED <<armed, tick>> ELSE followTop(heap)
    /\ loopPc' = "select"
    /\ UNCHANGED <<now, idGen, fields, expireAt, heap, stopped, loopNow>>

(* The top is due: its callback will be called. *)
UpdateExpires ==
    /\ loopPc = "lock" /\ ~stopped
    /\ \E i \in heap :
          /\ IsTop(i, heap) /\ expireAt[i] <= loopNow
          /\ IF periodic[i]
             THEN /\ expireAt' = [expireAt EXCEPT ![i] = @ + delay[i]]
                  /\ UNCHANGED heap
             ELSE heap' = heap \ {i} /\ UNCHANGED expireAt
    /\ loopPc' = "callback"
    /\ UNCHANGED <<now, idGen, fields, armed, tick, stopped, loopNow>>

(* The callback returns; what it does is among the other steps. *)
Callback == /\ loopPc = "callback"
            /\ loopPc' = "update"
            /\ UNCHANGED <<now, idGen, fields, expireAt, heap, armed, tick,
                           stopped, loopNow>>

-----------------------------------------------------------------------------
LoopStep == Receive \/ LoopReturns \/ ReadNow \/ UpdateNil \/ UpdateEnds
            \/ UpdateExpires \/ Callback

Next == \/ Tick \/ SysTimerExpires
        \/ \E d \in Delays, p \in BOOLEAN : NewTimer(d, p)
        \/ \E i \in Timers : StartTimer(i) \/ StopTimer(i)
        \/ Stop
        \/ LoopStep

(* Time goes on, the system timer goes off, the goroutine is scheduled and *)
(* callbacks return.                                                       *)
Fairness == WF_vars(Tick) /\ WF_vars(SysTimerExpires) /\ WF_vars(LoopStep)

Spec == Init /\ [][Next]_vars /\ Fairness

-----------------------------------------------------------------------------
(* Properties *)

(* While the goroutine sleeps, the system timer has gone off already or is *)
(* set early enough for every timer: no start, stop, expiry or clock that  *)
(* was read too early leaves a timer without a wakeup.                     *)
SysTimerCovers ==
    loopPc = "select" /\ heap # {} =>
        tick \/ (armed # None /\ \A i \in heap : armed <= expireAt[i])

(* Once stopped, nothing is left that could go off. *)
StoppedIsSilent == stopped => heap = {} /\ armed = None /\ ~tick

(* The ids that have not been given out are those of no timer. *)
IdsAreFresh == \A i \in Timers : i > idGen => phase[i] = "none"

(* The inductive invariant. *)
TimerInv == TypeOK /\ IdsAreFresh /\ SysTimerCovers /\ StoppedIsSilent

(* A timer that is due fires, unless it is stopped: it leaves the heap, or *)
(* its expiry moves on by its period.                                      *)
DueTimersFire ==
    \A i \in Timers, t \in 0 .. MaxTime :
        i \in heap /\ expireAt[i] = t ~> i \notin heap \/ expireAt[i] # t

(* "停止 TimerHeap" (timer_heap.go:101): after Stop the goroutine of the    *)
(* timers ends.                                                            *)
StopEndsLoop == stopped ~> loopPc = "done"

(* What those who start timers rely on (TimerSystem): only a timer that    *)
(* has been started, and neither stopped nor fired for the last time,      *)
(* fires; one callback runs at a time; a heap that is stopped takes no     *)
(* timer, even one whose StartTimer was under way.                         *)
TimerSys == INSTANCE TimerSystem WITH live <- heap, busy <- loopPc = "callback"
ImplementsTimerSystem == TimerSys!Spec
=============================================================================
