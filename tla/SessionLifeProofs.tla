-------------------------- MODULE SessionLifeProofs --------------------------
(***************************************************************************)
(* Proofs about SessionLife, for any number of nodes and of sessions with  *)
(* each of them, and any room in cTickSessions.                            *)
(***************************************************************************)
EXTENDS SessionLife, SequenceTheorems, TLAPS

USE CapacityAssumption, NoneAssumption

-----------------------------------------------------------------------------
(* The invariant *)

(* Before its core has been started only the connector knows a session. *)
Early == {"none", "timer", "noTimer", "core"}

(* How far the connector has come, and who may have closed the session. *)
StateInv ==
    \A s \in Sessions :
        /\ est[s] = "none" => state[s] = "none"
        /\ est[s] \in {"timer", "noTimer"} => state[s] = "init"
        /\ est[s] = "core" => state[s] = "started"
        /\ est[s] \in Early => core[s] = "none" /\ mutex[s] # "reader"
        /\ est[s] \notin Early => state[s] \in {"started", "closed"}
        /\ state[s] = "closed" <=> pc[s] # "open"
        /\ released[s] = IF pc[s] = "open" THEN 0 ELSE 1

(* What Service.Close can reach has been published. *)
MapInv ==
    /\ \A n \in Nodes : sessions[n] # None => est[sessions[n]] = "done"
    /\ target # None => est[target] = "done"

(* While the service runs, a session that has started keeps its timer and  *)
(* the id of it until whoever closes it stops the timer.                   *)
TimerInv ==
    svcState = "started" =>
        \A s \in Sessions :
            /\ est[s] # "noTimer"
            /\ est[s] \notin {"none", "timer"} /\ pc[s] \in {"open", "ticker", "stop"} =>
                  tickTimerId[s] = s /\ s \in timers
            /\ pc[s] \in {"notify", "done"} => s \notin timers

LifeInv == TypeOK /\ StateInv /\ MapInv /\ TimerInv

-----------------------------------------------------------------------------
LEMMA NoneIsNoSession == None \notin Sessions /\ None \notin Closers
  BY DEF Sessions

LEMMA LifeInit == Init => LifeInv
  <1> SUFFICES ASSUME Init PROVE LifeInv
    OBVIOUS
  <1>1. TypeOK
    <2>1. cTickSessions \in Seq(Nodes) /\ Len(cTickSessions) <= ExpectedConcurrentSessions
      BY EmptySeq DEF Init
    <2> QED BY <2>1 DEF Init, TypeOK
  <1>2. StateInv
    BY NoneIsNoSession DEF Init, StateInv, Early, Closers
  <1>3. MapInv /\ TimerInv
    BY DEF Init, MapInv, TimerInv
  <1> QED BY <1>1, <1>2, <1>3 DEF LifeInv

-----------------------------------------------------------------------------
(* closeBaseLocked *)

(* Whoever wins the CompareAndSwap closes a session that has started. *)
LEMMA CloseFirstKeeps ==
    ASSUME LifeInv, NEW s \in Sessions, NEW c \in Closers,
           est[s] \notin Early, closeFirst(s, c),
           mutex' \in {mutex, [mutex EXCEPT ![s] = None]}, UNCHANGED service
    PROVE  LifeInv'
  <1> USE DEF LifeInv, closeFirst, service, loopVars
  <1>1. TypeOK'
    BY DEF TypeOK
  <1>2. StateInv'
    BY NoneIsNoSession DEF TypeOK, StateInv, Early, Closers
  <1>3. MapInv'
    BY DEF MapInv
  <1>4. TimerInv'
    BY DEF TypeOK, StateInv, TimerInv, Early
  <1> QED BY <1>1, <1>2, <1>3, <1>4

LEMMA CloseRestKeeps ==
    ASSUME LifeInv, NEW s \in Sessions, closeRest(s)
    PROVE  LifeInv'
  <1> USE DEF LifeInv, At, service, connector, loopVars
  <1>1. CASE stopSessionTicker(s)
    <2>1. TypeOK'
      <3>1. TypeOK
        OBVIOUS
      <3> HIDE DEF LifeInv
      <3>2. \E p \in {"stop", "notify"} : pc' = [pc EXCEPT ![s] = p]
        BY <1>1 DEF stopSessionTicker
      <3>3. \/ tickTimerId' = tickTimerId
            \/ tickTimerId' = [tickTimerId EXCEPT ![s] = None]
        BY <1>1 DEF stopSessionTicker
      <3>4. UNCHANGED <<service, sessions, connector, state, core, released, by, timers,
                        loopVars>>
        BY <1>1 DEF stopSessionTicker
      <3>5. pc' \in [Sessions -> {"open", "ticker", "stop", "notify", "done"}]
        BY <3>1, <3>2 DEF TypeOK
      <3>6. tickTimerId' \in [Sessions -> Sessions \cup {None}]
        BY <3>1, <3>3 DEF TypeOK
      <3> QED BY <3>1, <3>4, <3>5, <3>6 DEF TypeOK
    <2>2. StateInv'
      BY <1>1 DEF stopSessionTicker, TypeOK, StateInv
    <2>3. MapInv' /\ TimerInv'
      BY <1>1 DEF stopSessionTicker, TypeOK, MapInv, TimerInv
    <2> QED BY <2>1, <2>2, <2>3
  <1>2. CASE stopTimer(s)
    <2>1. timers' = timers \ {tickTimerId[s]}
      BY <1>2 DEF stopTimer, TimerSys!Stop
    <2>2. TypeOK'
      BY <1>2, <2>1 DEF stopTimer, TypeOK
    <2>3. StateInv'
      BY <1>2 DEF stopTimer, TypeOK, StateInv
    <2>4. MapInv'
      BY <1>2 DEF stopTimer, MapInv
    <2>5. TimerInv'
      <3>1. svcState = "started" => tickTimerId[s] = s
        BY <1>2 DEF stopTimer, TimerInv, StateInv, Early
      <3> QED BY <1>2, <2>1, <3>1 DEF stopTimer, TypeOK, TimerInv
    <2> QED BY <2>2, <2>3, <2>4, <2>5
  <1>3. CASE onSessionClosed(s)
    <2>1. TypeOK'
      BY <1>3 DEF onSessionClosed, TypeOK
    <2>2. StateInv'
      BY <1>3 DEF onSessionClosed, TypeOK, StateInv
    <2>3. MapInv' /\ TimerInv'
      BY <1>3 DEF onSessionClosed, TypeOK, MapInv, TimerInv
    <2> QED BY <2>1, <2>2, <2>3
  <1> QED BY <1>1, <1>2, <1>3 DEF closeRest

-----------------------------------------------------------------------------
(* The connector: until the core is started nobody else sees the session. *)

LEMMA StartKeeps ==
    ASSUME LifeInv, NEW s \in Sessions, newSession(s) \/ startTicker(s)
    PROVE  LifeInv'
  <1> USE DEF LifeInv, Est, service, closed, loopVars
  <1>1. CASE newSession(s)
    <2>1. TypeOK'
      BY <1>1 DEF newSession, TypeOK
    <2>2. StateInv'
      BY <1>1, NoneIsNoSession DEF newSession, TypeOK, StateInv, Early, Closers
    <2>3. MapInv' /\ TimerInv'
      BY <1>1 DEF newSession, TypeOK, StateInv, MapInv, TimerInv
    <2> QED BY <2>1, <2>2, <2>3
  <1>2. CASE startTicker(s)
    <2>1. \/ /\ est[s] = "timer" /\ timers' = timers \cup {s}
             /\ tickTimerId' = [tickTimerId EXCEPT ![s] = s]
          \/ est[s] = "noTimer" /\ UNCHANGED <<timers, tickTimerId>>
      BY <1>2 DEF startTicker, TimerSys!Start
    <2>2. est' = [est EXCEPT ![s] = "core"] /\ est[s] \in {"timer", "noTimer"}
      BY <1>2 DEF startTicker
    <2>3. TypeOK'
      <3>1. timers' \subseteq Sessions /\ tickTimerId' \in [Sessions -> Sessions \cup {None}]
        BY <2>1 DEF TypeOK
      <3> QED BY <1>2, <2>2, <3>1 DEF startTicker, TypeOK
    <2>4. StateInv'
      BY <1>2, <2>2 DEF startTicker, TypeOK, StateInv, Early
    <2>5. MapInv'
      BY <1>2, <2>2 DEF startTicker, TypeOK, MapInv
    <2>6. TimerInv'
      BY <1>2, <2>1, <2>2 DEF startTicker, TypeOK, StateInv, TimerInv
    <2> QED BY <2>3, <2>4, <2>5, <2>6
  <1> QED BY <1>1, <1>2

(* From core.Start to the publication. *)
LEMMA PublishKeeps ==
    ASSUME LifeInv, NEW s \in Sessions,
           \/ startCore(s) \/ startFails(s) \/ startReturns(s)
           \/ lockStarted(s) \/ publish(s) \/ refused(s)
    PROVE  LifeInv'
  <1> USE DEF LifeInv, Est, service, closed, ofSession, loopVars
  <1>1. PICK e \in {"lock", "startFails", "publish", "done", "refused", "failed"} :
           /\ est[s] \notin {"none", "timer", "noTimer", "done"}
           /\ est' = [est EXCEPT ![s] = e]
    BY DEF startCore, startFails, startReturns, lockStarted, publish, refused
  <1>2. mutex' \in {mutex, [mutex EXCEPT ![s] = None], [mutex EXCEPT ![s] = "connector"]}
    BY DEF startCore, startFails, startReturns, lockStarted, publish, refused
  <1>3. sessions' = sessions \/ (sessions' = [sessions EXCEPT ![node(s)] = s] /\ e = "done")
    <2>1. CASE publish(s)
      <3>1. "done" # "refused" /\ est'[s] = e
        BY <1>1 DEF TypeOK
      <3> QED BY <2>1, <3>1 DEF publish, TypeOK
    <2>2. CASE ~publish(s)
      BY <2>2 DEF startCore, startFails, startReturns, lockStarted, refused
    <2> QED BY <2>1, <2>2
  <1>4. core' = core \/ core' = [core EXCEPT ![s] = "running"]
    BY DEF startCore, startFails, startReturns, lockStarted, publish, refused
  <1>5. UNCHANGED <<service, state, tickTimerId, released, pc, by, timers, loopVars>>
    BY DEF startCore, startFails, startReturns, lockStarted, publish, refused
  <1>6. TypeOK'
    <2>1. sessions' \in [Nodes -> Sessions \cup {None}]
      BY <1>3, ZenonT(30) DEF TypeOK
    <2>2. est' \in [Sessions -> {"none", "timer", "noTimer", "core", "lock", "publish",
                                 "startFails", "refused", "done", "failed"}]
      BY <1>1 DEF TypeOK
    <2>3. /\ mutex' \in [Sessions -> {None, "connector", "reader"}]
          /\ core' \in [Sessions -> {"none", "running", "closed"}]
      BY <1>2, <1>4, ZenonT(30) DEF TypeOK
    <2> QED BY <1>5, <2>1, <2>2, <2>3 DEF TypeOK
  <1>7. StateInv'
    BY <1>1, <1>2, <1>4, <1>5, NoneIsNoSession DEF TypeOK, StateInv, Early, Closers
  <1>8. MapInv'
    <2>1. \A t \in Sessions : est[t] = "done" => est'[t] = "done"
      BY <1>1 DEF TypeOK
    <2>2. target' # None => est'[target'] = "done"
      BY <1>5, <2>1 DEF TypeOK, MapInv
    <2>3. ASSUME NEW n \in Nodes, sessions'[n] # None
          PROVE  est'[sessions'[n]] = "done"
      <3>1. CASE sessions'[n] = sessions[n]
        BY <2>1, <2>3, <3>1 DEF TypeOK, MapInv
      <3>2. CASE sessions'[n] # sessions[n]
        <4>1. sessions'[n] = s /\ e = "done"
          BY <1>3, <3>2 DEF TypeOK
        <4> QED BY <1>1, <4>1 DEF TypeOK
      <3> QED BY <3>1, <3>2
    <2> QED BY <2>2, <2>3 DEF MapInv
  <1>9. TimerInv'
    BY <1>1, <1>5 DEF TypeOK, TimerInv
  <1> QED BY <1>6, <1>7, <1>8, <1>9

-----------------------------------------------------------------------------
(* All who close *)

LEMMA ClosersKeep ==
    ASSUME LifeInv, NEW s \in Sessions,
           connectorCloses(s) \/ SessionOnClosed(s) \/ readerCloses(s) \/ serviceCloses(s)
    PROVE  LifeInv'
  <1>1. est[s] \notin Early
    BY NoneIsNoSession DEF connectorCloses, SessionOnClosed, readerCloses, serviceCloses,
           LifeInv, StateInv, MapInv, Early
  <1>2. \E c \in Closers : closeFirst(s, c)
    BY DEF connectorCloses, SessionOnClosed, readerCloses, serviceCloses, Closers
  <1>3. mutex' \in {mutex, [mutex EXCEPT ![s] = None]} /\ UNCHANGED service
    BY DEF connectorCloses, SessionOnClosed, readerCloses, serviceCloses, service
  <1> QED BY <1>1, <1>2, <1>3, CloseFirstKeeps

LEMMA ReaderKeeps ==
    ASSUME LifeInv, NEW s \in Sessions, sessionHandleCloseReq(s)
    PROVE  LifeInv'
  <1> USE DEF LifeInv, sessionHandleCloseReq, service, closed, loopVars
  <1>1. TypeOK'
    BY DEF TypeOK
  <1>2. StateInv'
    BY DEF TypeOK, StateInv, Early
  <1>3. MapInv' /\ TimerInv'
    BY DEF MapInv, TimerInv
  <1> QED BY <1>1, <1>2, <1>3

LEMMA ServiceKeeps ==
    ASSUME LifeInv,
           \/ CloseState \/ CloseSignal \/ CloseReturns
           \/ \E n \in Nodes : CloseVisit(n)
           \/ \E s \in Sessions : CloseDelete(s)
    PROVE  LifeInv'
  <1> USE DEF LifeInv, ofSession, loopVars
  <1>1. UNCHANGED <<est, ofSession, timers, loopVars>> /\ svcState' \in {svcState, "closed"}
    BY DEF CloseState, CloseSignal, CloseReturns, CloseVisit, CloseDelete
  <1>2. TypeOK'
    <2>1. CASE CloseState \/ CloseSignal \/ CloseReturns
      BY <1>1, <2>1 DEF TypeOK, CloseState, CloseSignal, CloseReturns
    <2>2. ASSUME NEW n \in Nodes, CloseVisit(n)
          PROVE  TypeOK'
      BY <1>1, <2>2 DEF TypeOK, CloseVisit
    <2>3. ASSUME NEW s \in Sessions, CloseDelete(s)
          PROVE  TypeOK'
      <3>1. sessions' \in [Nodes -> Sessions \cup {None}]
        BY <2>3 DEF TypeOK, CloseDelete
      <3> QED BY <1>1, <2>3, <3>1 DEF TypeOK, CloseDelete
    <2> QED BY <2>1, <2>2, <2>3
  <1>3. StateInv'
    BY <1>1 DEF StateInv
  <1>4. MapInv'
    BY <1>1 DEF TypeOK, MapInv, CloseState, CloseSignal, CloseReturns, CloseVisit, CloseDelete
  <1>5. TimerInv'
    BY <1>1 DEF TimerInv
  <1> QED BY <1>2, <1>3, <1>4, <1>5

-----------------------------------------------------------------------------
(* Ticks *)

LEMMA TickKeeps ==
    ASSUME LifeInv,
           (\E s \in Sessions : TimerFires(s)) \/ onSessionTicker \/ loop
    PROVE  LifeInv'
  <1> USE DEF LifeInv, service, ofSession
  <1>1. UNCHANGED <<service, sessions, est, ofSession, timers>>
    BY DEF TimerFires, onSessionTicker, loop, loopReceive, loopReturns
  <1>2. ringing' \in Nodes \cup {None} /\ loopDone' \in BOOLEAN
    BY DEF TimerFires, onSessionTicker, loop, loopReceive, loopReturns, TypeOK, Sessions, node
  <1>3. cTickSessions' \in Seq(Nodes) /\ Len(cTickSessions') <= ExpectedConcurrentSessions
    <2>1. CASE UNCHANGED cTickSessions
      BY <2>1 DEF TypeOK
    <2>2. CASE onSessionTicker /\ cTickSessions' = Append(cTickSessions, ringing)
               /\ Len(cTickSessions) < ExpectedConcurrentSessions
      <3>1. ringing \in Nodes
        BY <2>2 DEF onSessionTicker, TypeOK
      <3> QED BY <2>2, <3>1, AppendProperties, LenProperties DEF TypeOK
    <2>3. CASE loopReceive
      <3>1. Tail(cTickSessions) \in Seq(Nodes) /\ Len(Tail(cTickSessions)) = Len(cTickSessions) - 1
            /\ Len(cTickSessions) \in Nat
        BY <2>3, HeadTailProperties, EmptySeq, LenProperties DEF loopReceive, TypeOK
      <3> QED BY <2>3, <3>1 DEF loopReceive, TypeOK
    <2> QED BY <2>1, <2>2, <2>3 DEF TimerFires, onSessionTicker, loop, loopReturns
  <1>4. TypeOK'
    BY <1>1, <1>2, <1>3 DEF TypeOK
  <1>5. StateInv' /\ MapInv' /\ TimerInv'
    BY <1>1 DEF StateInv, MapInv, TimerInv
  <1> QED BY <1>4, <1>5

-----------------------------------------------------------------------------
LEMMA LifeNext == LifeInv /\ [Next]_vars => LifeInv'
  <1> SUFFICES ASSUME LifeInv, [Next]_vars
               PROVE  LifeInv'
    OBVIOUS
  <1>1. CASE \E s \in Sessions : newSession(s)
    BY <1>1, StartKeeps
  <1>2. CASE \E s \in Sessions : Connect(s)
    BY <1>2, StartKeeps, PublishKeeps, ClosersKeep DEF Connect
  <1>3. CASE \E s \in Sessions : closeRest(s)
    BY <1>3, CloseRestKeeps
  <1>4. CASE \E s \in Sessions : SessionOnClosed(s) \/ readerCloses(s)
    BY <1>4, ClosersKeep
  <1>5. CASE \E s \in Sessions : sessionHandleCloseReq(s)
    BY <1>5, ReaderKeeps
  <1>6. CASE CloseState \/ Close
    BY <1>6, ServiceKeeps, ClosersKeep DEF Close
  <1>7. CASE (\E s \in Sessions : TimerFires(s)) \/ onSessionTicker \/ loop
    BY <1>7, TickKeeps
  <1>8. CASE UNCHANGED vars
    BY <1>8 DEF vars, service, ofSession, loopVars, LifeInv, TypeOK, StateInv, MapInv, TimerInv
  <1> QED BY <1>1, <1>2, <1>3, <1>4, <1>5, <1>6, <1>7, <1>8 DEF Next

(* Type correctness, the states of a session, what is published and the    *)
(* timers of live sessions hold in every state of newSession, start, close *)
(* and the ticker.                                                         *)
THEOREM LifeInvariance == Spec => []LifeInv
  BY LifeInit, LifeNext, PTL DEF Spec

(* The types: cTickSessions never holds more than it has room for.         *)
THEOREM LifeTypeCorrect == Spec => []TypeOK
  <1>1. LifeInv => TypeOK
    BY DEF LifeInv
  <1> QED BY <1>1, LifeInvariance, PTL

(* closeBaseLocked gets past its CompareAndSwap once in the life of a      *)
(* session, whoever calls it and how often, and not before core.Start:     *)
(* chClose is closed once.                                                 *)
THEOREM ChCloseIsClosedOnce == Spec => []ReleasedOnce
  <1>1. LifeInv => ReleasedOnce
    BY DEF LifeInv, StateInv, Early, ReleasedOnce
  <1> QED BY <1>1, LifeInvariance, PTL

(* While the service runs, startSessionTicker has left a live session a    *)
(* timer, and stopSessionTicker none to one that has been closed.          *)
THEOREM TimersFollow == Spec => []TimersFollowSessions
  <1>1. LifeInv => TimersFollowSessions
    <2> SUFFICES ASSUME LifeInv, svcState = "started", NEW s \in Sessions
                 PROVE  /\ state[s] = "started" => s \in timers
                        /\ pc[s] = "done" => s \notin timers
      BY DEF TimersFollowSessions
    <2>1. state[s] = "started" => pc[s] = "open" /\ est[s] \notin {"none", "timer"}
      BY DEF LifeInv, TypeOK, StateInv, TimerInv
    <2> QED BY <2>1 DEF LifeInv, TimerInv
  <1> QED BY <1>1, LifeInvariance, PTL

-----------------------------------------------------------------------------
(* The timers of the sessions *)

LEMMA TimersInit == Init => TimerSys!Init
  BY DEF Init, TimerSys!Init

LEMMA TimersNext == TypeOK /\ [Next]_vars => [TimerSys!Next]_(TimerSys!vars)
  <1> SUFFICES ASSUME TypeOK, [Next]_vars
               PROVE  TimerSys!Next \/ UNCHANGED TimerSys!vars
    OBVIOUS
  <1> USE DEF loopVars
  <1>1. ASSUME NEW s \in Sessions, startTicker(s)
        PROVE  TimerSys!Next \/ UNCHANGED TimerSys!vars
    <2>1. TimerSys!Start(s) \/ UNCHANGED TimerSys!vars
      BY <1>1 DEF startTicker, TimerSys!vars
    <2> QED BY <2>1 DEF TimerSys!Next
  <1>2. ASSUME NEW s \in Sessions, stopTimer(s)
        PROVE  TimerSys!Next \/ UNCHANGED TimerSys!vars
    <2>1. TimerSys!Stop(tickTimerId[s])
      BY <1>2 DEF stopTimer
    <2>2. CASE tickTimerId[s] \in Sessions
      BY <2>1, <2>2 DEF TimerSys!Next
    <2>3. CASE tickTimerId[s] = None
      BY <1>2, <2>1, <2>3, NoneIsNoSession DEF TypeOK, stopTimer, TimerSys!Stop, TimerSys!vars
    <2> QED BY <2>2, <2>3 DEF TypeOK
  <1>3. ASSUME NEW s \in Sessions, TimerFires(s)
        PROVE  TimerSys!Next
    BY <1>3 DEF TimerFires, TimerSys!Next
  <1>4. CASE onSessionTicker
    BY <1>4 DEF onSessionTicker, TimerSys!Next
  <1>5. ASSUME NEW s \in Sessions,
               \/ newSession(s) \/ startCore(s) \/ startFails(s) \/ startReturns(s)
               \/ lockStarted(s) \/ publish(s) \/ refused(s) \/ connectorCloses(s)
               \/ stopSessionTicker(s) \/ onSessionClosed(s) \/ SessionOnClosed(s)
               \/ sessionHandleCloseReq(s) \/ readerCloses(s) \/ serviceCloses(s)
               \/ CloseDelete(s)
        PROVE  UNCHANGED TimerSys!vars
    BY <1>5 DEF newSession, startCore, startFails, startReturns, lockStarted, publish, refused,
                connectorCloses, stopSessionTicker, onSessionClosed, SessionOnClosed,
                sessionHandleCloseReq, readerCloses, serviceCloses, CloseDelete, closeFirst,
                TimerSys!vars
  <1>6. CASE CloseState \/ CloseSignal \/ CloseReturns \/ loop \/ UNCHANGED vars
             \/ \E n \in Nodes : CloseVisit(n)
    BY <1>6 DEF CloseState, CloseSignal, CloseReturns, CloseVisit, loop, loopReceive, loopReturns,
                vars, TimerSys!vars
  <1> QED BY <1>1, <1>2, <1>3, <1>4, <1>5, <1>6 DEF Next, Connect, closeRest, Close

(* The sessions and the service keep to the operations of a TimerSystem    *)
(* that is not stopped: what startSessionTicker, stopSessionTicker and     *)
(* onSessionTicker do to the timers are steps of it, so that what is shown *)
(* here of the ticks rests on HeapIsATimerSystem of TimerHeap.             *)
THEOREM TicksComeFromATimerSystem == Spec => TimerSys!Spec
  <1>1. Init => TimerSys!Init
    BY TimersInit
  <1>2. TypeOK /\ [Next]_vars => [TimerSys!Next]_(TimerSys!vars)
    BY TimersNext
  <1> QED BY <1>1, <1>2, LifeTypeCorrect, PTL DEF Spec, TimerSys!Spec
=============================================================================
