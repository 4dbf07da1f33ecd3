----------------------------- MODULE SessionLife -----------------------------
(***************************************************************************)
(* The sessions of one service from newSession to onSessionClosed, with    *)
(* their tick timers (net/session.go, net/service.go).                     *)
(*                                                                         *)
(* A session is started and published by the goroutine that ends its       *)
(* establishment (the connector) and closed by whoever is first: its core, *)
(* the reader that handles a close request, Service.Close, the connector.  *)
(* Each session has a periodic timer.  The callbacks of all timers run on  *)
(* one goroutine and hand the node over to the loop of the service through *)
(* cTickSessions, a channel with room for ExpectedConcurrentSessions.      *)
(*                                                                         *)
(* A section under Service.mutex is one step; a section under session.mutex *)
(* is not, because close does not take it.  Which packets a session        *)
(* exchanges, and what a tick sends, is in SessionSend and KeepAlive.      *)
(*                                                                         *)
(* Name_Variant is a wrong version of the definition Name.                 *)
(***************************************************************************)
EXTENDS Naturals, Sequences

CONSTANTS Nodes,
          MaxSessions,   \* how many sessions there are with one node
          ExpectedConcurrentSessions,
          None

ASSUME CapacityAssumption == /\ MaxSessions \in Nat
                             /\ ExpectedConcurrentSessions \in Nat \ {0}
Sessions == Nodes \X (1 .. MaxSessions)
node(s) == s[1]

Closers == {"core", "reader", "service", "connector"}

ASSUME NoneAssumption == None \notin Nodes \cup Nodes \X Nat \cup Closers

VARIABLES
    svcState,      \* Service.state
    cClosed,       \* is Service.cClosed closed?
    closing,       \* where Service.Close is
    visited,       \* nodes that its Range has come by
    target,        \* the session it is at
    sessions,      \* Service.sessions: a session or None for every node
    est,           \* est[s]: how far the connector of s has come
    state,         \* state[s], mutex[s], tickTimerId[s]: fields of the session
    mutex,
    tickTimerId,
    core,          \* core[s]: the gnet session
    released,      \* released[s]: how often chClose has been closed
    pc,            \* pc[s]: where the one that closes s is in closeBaseLocked
    by,            \* by[s]: who that is
    timers,        \* the timers in the TimerSystem; the timer of s is s
    ringing,       \* the node of the callback that runs on its goroutine
    cTickSessions,
    loopDone       \* has loop returned?

connector == <<est, mutex>>
ofSession == <<state, mutex, tickTimerId, core, released, pc, by>>
closed == <<released, core, pc, by>>
service == <<svcState, cClosed, closing, visited, target>>
loopVars == <<ringing, cTickSessions, loopDone>>
vars == <<service, sessions, est, ofSession, timers, loopVars>>

TimerSys == INSTANCE TimerSystem WITH Timers <- Sessions, live <- timers,
                                      busy <- ringing # None, stopped <- FALSE

TypeOK ==
    /\ svcState \in {"started", "closed"}
    /\ cClosed \in BOOLEAN
    /\ closing \in {"before", "closed", "range", "done"}
    /\ visited \subseteq Nodes
    /\ target \in Sessions \cup {None}
    /\ sessions \in [Nodes -> Sessions \cup {None}]
    /\ est \in [Sessions -> {"none", "timer", "noTimer", "core", "lock", "publish",
                             "startFails", "refused", "done", "failed"}]
    /\ state \in [Sessions -> {"none", "init", "started", "closed"}]
    /\ mutex \in [Sessions -> {None, "connector", "reader"}]
    /\ tickTimerId \in [Sessions -> Sessions \cup {None}]
    /\ core \in [Sessions -> {"none", "running", "closed"}]
    /\ released \in [Sessions -> Nat]
    /\ pc \in [Sessions -> {"open", "ticker", "stop", "notify", "done"}]
    /\ by \in [Sessions -> Closers \cup {None}]
    /\ timers \subseteq Sessions
    /\ ringing \in Nodes \cup {None}
    /\ cTickSessions \in Seq(Nodes) /\ Len(cTickSessions) <= ExpectedConcurrentSessions
    /\ loopDone \in BOOLEAN

(* The service has been started. *)
Init ==
    /\ svcState = "started" /\ cClosed = FALSE
    /\ closing = "before" /\ visited = {} /\ target = None
    /\ sessions = [n \in Nodes |-> None]
    /\ est = [s \in Sessions |-> "none"]
    /\ state = [s \in Sessions |-> "none"]
    /\ mutex = [s \in Sessions |-> None]
    /\ tickTimerId = [s \in Sessions |-> None]
    /\ core = [s \in Sessions |-> "none"]
    /\ released = [s \in Sessions |-> 0]
    /\ pc = [s \in Sessions |-> "open"]
    /\ by = [s \in Sessions |-> None]
    /\ timers = {}
    /\ ringing = None
    /\ cTickSessions = <<>>
    /\ loopDone = FALSE

Est(s, from, to) == est[s] = from /\ est' = [est EXCEPT ![s] = to]

-----------------------------------------------------------------------------
(* closeBaseLocked *)

(* Variant: the state is stored, whatever it has become. *)
closeFirst_Store(s, c) ==
    /\ state' = [state EXCEPT ![s] = "closed"]
    /\ released' = [released EXCEPT ![s] = @ + 1]
    /\ core' = [core EXCEPT ![s] = "closed"]
    /\ pc' = [pc EXCEPT ![s] = "ticker"]
    /\ by' = [by EXCEPT ![s] = c]
    /\ UNCHANGED <<sessions, est, tickTimerId, timers, loopVars>>

(* Variant: who has not locked the session waits for the lock. *)
closeFirst_Lock(s, c) ==
    /\ state[s] # "closed"
    /\ mutex[s] = IF c = "reader" THEN c ELSE None
    /\ state' = [state EXCEPT ![s] = "closed"]
    /\ released' = [released EXCEPT ![s] = @ + 1]
    /\ core' = [core EXCEPT ![s] = "closed"]
    /\ pc' = [pc EXCEPT ![s] = "ticker"]
    /\ by' = [by EXCEPT ![s] = c]
    /\ UNCHANGED <<sessions, est, tickTimerId, timers, loopVars>>

(* The one whose CompareAndSwap succeeds closes chClose, the core and the  *)
(* queue; all others return at once.  Nobody asks for session.mutex.       *)
closeFirst(s, c) ==
    /\ state[s] # "closed"
    /\ state' = [state EXCEPT ![s] = "closed"]
    /\ released' = [released EXCEPT ![s] = @ + 1]
    /\ core' = [core EXCEPT ![s] = "closed"]
    /\ pc' = [pc EXCEPT ![s] = "ticker"]
    /\ by' = [by EXCEPT ![s] = c]
    /\ UNCHANGED <<sessions, est, tickTimerId, timers, loopVars>>

(* Closer c has been in closeBaseLocked, and is back. *)
Returned(s, c) == state[s] = "closed" /\ (by[s] = c => pc[s] = "done")

At(s, from, to) == pc[s] = from /\ pc' = [pc EXCEPT ![s] = to]

(* stopSessionTicker: the state of the service.  When that has closed, the *)
(* timer stays, and only its id is forgotten ...                           *)
stopSessionTicker(s) ==
    /\ \/ /\ svcState = "started" /\ At(s, "ticker", "stop")
          /\ UNCHANGED tickTimerId
       \/ /\ svcState = "closed" /\ At(s, "ticker", "notify")
          /\ tickTimerId' = [tickTimerId EXCEPT ![s] = None]
    /\ UNCHANGED <<service, sessions, connector, state, core, released, by, timers, loopVars>>

(* Variant: the timer id is forgotten first. *)
stopTimer_Forgotten(s) ==
    /\ At(s, "stop", "notify")
    /\ tickTimerId' = [tickTimerId EXCEPT ![s] = None]
    /\ UNCHANGED loopVars
    /\ TimerSys!Stop(tickTimerId'[s])
    /\ UNCHANGED <<service, sessions, connector, state, core, released, by>>

(* ... and otherwise the timer, and then its id. *)
stopTimer(s) ==
    /\ At(s, "stop", "notify")
    /\ tickTimerId' = [tickTimerId EXCEPT ![s] = None]
    /\ UNCHANGED loopVars
    /\ TimerSys!Stop(tickTimerId[s])
    /\ UNCHANGED <<service, sessions, connector, state, core, released, by>>

(* Variant: whatever session the node has is deleted. *)
onSessionClosed_Delete(s) ==
    /\ At(s, "notify", "done")
    /\ sessions' = [sessions EXCEPT ![node(s)] = None]
    /\ UNCHANGED <<service, connector, state, tickTimerId, core, released, by, timers, loopVars>>

onSessionClosed(s) ==
    /\ At(s, "notify", "done")
    /\ sessions' = [sessions EXCEPT ![node(s)] = IF @ = s THEN None ELSE @]
    /\ UNCHANGED <<service, connector, state, tickTimerId, core, released, by, timers, loopVars>>

closeRest(s) == stopSessionTicker(s) \/ stopTimer(s) \/ onSessionClosed(s)

-----------------------------------------------------------------------------
(* The connector: establishEndCreateSession *)

(* newSession and, in start, the lock and the check of startSessionTicker. *)
(* One establishment at a time, begun when there was no live session; it   *)
(* may end after the service has closed ...                                *)
newSession(s) ==
    LET n == node(s) IN
    /\ Est(s, "none", IF svcState = "started" THEN "timer" ELSE "noTimer")
    /\ \A i \in 1 .. s[2] - 1 : est[<<n, i>>] \in {"done", "failed"}
    /\ sessions[n] # None => state[sessions[n]] # "started"
    /\ state' = [state EXCEPT ![s] = "init"]
    /\ mutex' = [mutex EXCEPT ![s] = "connector"]
    /\ UNCHANGED <<service, sessions, tickTimerId, closed, timers, loopVars>>

(* ... the timer and the state ... *)
startTicker(s) ==
    /\ UNCHANGED loopVars
    /\ \/ /\ Est(s, "timer", "core")
          /\ tickTimerId' = [tickTimerId EXCEPT ![s] = s]
          /\ TimerSys!Start(s)
       \/ /\ Est(s, "noTimer", "core")
          /\ UNCHANGED <<tickTimerId, timers>>
    /\ state' = [state EXCEPT ![s] = "started"]
    /\ UNCHANGED <<service, sessions, mutex, closed>>

(* ... and core.Start, after which the core has goroutines of its own.  The *)
(* lock is released when start returns, after close when it fails.         *)
startCore(s) ==
    /\ core' = [core EXCEPT ![s] = "running"]
    /\ Est(s, "core", "lock")
    /\ mutex' = [mutex EXCEPT ![s] = None]
    /\ UNCHANGED <<service, sessions, state, tickTimerId, released, pc, by, timers, loopVars>>

startFails(s) ==
    /\ Est(s, "core", "startFails")
    /\ UNCHANGED <<service, sessions, ofSession, timers, loopVars>>

startReturns(s) ==
    /\ Returned(s, "connector") /\ Est(s, "startFails", "failed")
    /\ mutex' = [mutex EXCEPT ![s] = None]
    /\ UNCHANGED <<service, sessions, state, tickTimerId, closed, timers, loopVars>>

(* session.lockState: by now the session may have been closed. *)
lockStarted(s) ==
    /\ mutex[s] = None
    /\ IF state[s] = "started"
       THEN Est(s, "lock", "publish") /\ mutex' = [mutex EXCEPT ![s] = "connector"]
       ELSE Est(s, "lock", "failed") /\ UNCHANGED mutex
    /\ UNCHANGED <<service, sessions, state, tickTimerId, closed, timers, loopVars>>

(* Variant: the state of the service is not looked at again. *)
publish_Unchecked(s) ==
    /\ mutex' = [mutex EXCEPT ![s] = None]
    /\ Est(s, "publish", "done")
    /\ sessions' = [sessions EXCEPT ![node(s)] = s]
    /\ UNCHANGED <<service, state, tickTimerId, closed, timers, loopVars>>

(* Under the lock of the service: published, or else closed again. *)
publish(s) ==
    /\ mutex' = [mutex EXCEPT ![s] = None]
    /\ IF svcState = "started"
       THEN Est(s, "publish", "done") /\ sessions' = [sessions EXCEPT ![node(s)] = s]
       ELSE Est(s, "publish", "refused") /\ UNCHANGED sessions
    /\ UNCHANGED <<service, state, tickTimerId, closed, timers, loopVars>>

refused(s) ==
    /\ Returned(s, "connector") /\ Est(s, "refused", "failed")
    /\ UNCHANGED <<service, sessions, ofSession, timers, loopVars>>

connectorCloses(s) ==
    /\ est[s] \in {"startFails", "refused"}
    /\ closeFirst(s, "connector")
    /\ UNCHANGED <<service, mutex>>

Connect(s) == \/ startTicker(s) \/ startCore(s) \/ startFails(s) \/ startReturns(s)
              \/ lockStarted(s) \/ publish(s) \/ refused(s) \/ connectorCloses(s)

-----------------------------------------------------------------------------
(* The core and its reader *)

(* A read or a write has failed, or the other end has closed. *)
SessionOnClosed(s) ==
    /\ core[s] = "running"
    /\ closeFirst(s, "core")
    /\ UNCHANGED <<service, mutex>>

(* sessionHandleCloseReq takes the lock, and finds the session not used    *)
(* for InactiveTimeout, which is longer than publishing takes ...          *)
sessionHandleCloseReq(s) ==
    /\ core[s] = "running" /\ state[s] = "started"
    /\ est[s] \in {"done", "failed"}
    /\ mutex[s] = None
    /\ mutex' = [mutex EXCEPT ![s] = "reader"]
    /\ UNCHANGED <<service, sessions, est, state, tickTimerId, closed, timers, loopVars>>

(* ... and closes, after which the lock is released; it stays locked when  *)
(* another has been first.                                                 *)
readerCloses(s) ==
    /\ mutex[s] = "reader"
    /\ closeFirst(s, "reader")
    /\ mutex' = [mutex EXCEPT ![s] = None]
    /\ UNCHANGED service

-----------------------------------------------------------------------------
(* Service.Close *)

CloseState ==
    /\ closing = "before"
    /\ svcState' = "closed"
    /\ closing' = "closed"
    /\ UNCHANGED <<cClosed, visited, target, sessions, est, ofSession, timers, loopVars>>

CloseSignal ==
    /\ closing = "closed"
    /\ cClosed' = TRUE
    /\ closing' = "range"
    /\ UNCHANGED <<svcState, visited, target, sessions, est, ofSession, timers, loopVars>>

(* sessionMap.close: every session that is there when Range comes by. *)
CloseVisit(n) ==
    /\ closing = "range" /\ target = None /\ n \notin visited
    /\ visited' = visited \cup {n}
    /\ target' = sessions[n]
    /\ UNCHANGED <<svcState, cClosed, closing, sessions, est, ofSession, timers, loopVars>>

serviceCloses(s) ==
    /\ target = s
    /\ closeFirst(s, "service")
    /\ UNCHANGED <<service, mutex>>

CloseDelete(s) ==
    /\ target = s /\ Returned(s, "service")
    /\ target' = None
    /\ sessions' = [sessions EXCEPT ![node(s)] = IF @ = s THEN None ELSE @]
    /\ UNCHANGED <<svcState, cClosed, closing, visited, est, ofSession, timers, loopVars>>

CloseReturns ==
    /\ closing = "range" /\ target = None /\ visited = Nodes
    /\ closing' = "done"
    /\ UNCHANGED <<svcState, cClosed, visited, target, sessions, est, ofSession, timers, loopVars>>

Close == \/ CloseSignal \/ CloseReturns
         \/ \E n \in Nodes : CloseVisit(n)
         \/ \E s \in Sessions : serviceCloses(s) \/ CloseDelete(s)

-----------------------------------------------------------------------------
(* Ticks *)

(* The timer of s fires: onSessionTicker gets the node of s.  It returns    *)
(* at once when it finds the service closed.                                *)
TimerFires(s) ==
    /\ svcState = "started"
    /\ ringing' = node(s) /\ timers' = timers
    /\ TimerSys!Fire(s)
    /\ UNCHANGED <<service, sessions, est, ofSession, cTickSessions, loopDone>>

(* Variant: there is room for one more. *)
onSessionTicker_OneMore ==
    /\ ringing # None
    /\ Len(cTickSessions) <= ExpectedConcurrentSessions
    /\ cTickSessions' = Append(cTickSessions, ringing)
    /\ ringing' = None /\ timers' = timers
    /\ TimerSys!Return
    /\ UNCHANGED <<service, sessions, est, ofSession, loopDone>>

(* Variant: waits for room in the channel only. *)
onSessionTicker_WaitsForRoom ==
    /\ ringing # None
    /\ Len(cTickSessions) < ExpectedConcurrentSessions
    /\ cTickSessions' = Append(cTickSessions, ringing)
    /\ ringing' = None /\ timers' = timers
    /\ TimerSys!Return
    /\ UNCHANGED <<service, sessions, est, ofSession, loopDone>>

(* Otherwise it waits for room in the channel or for the end of the        *)
(* service, and takes either when both are there.                          *)
onSessionTicker ==
    /\ ringing # None
    /\ \/ /\ Len(cTickSessions) < ExpectedConcurrentSessions
          /\ cTickSessions' = Append(cTickSessions, ringing)
       \/ /\ cClosed
          /\ UNCHANGED cTickSessions
    /\ ringing' = None /\ timers' = timers
    /\ TimerSys!Return
    /\ UNCHANGED <<service, sessions, est, ofSession, loopDone>>

(* loop: the tick of the session that the node now has, if any.            *)
loopReceive ==
    /\ ~loopDone /\ cTickSessions # <<>>
    /\ cTickSessions' = Tail(cTickSessions)
    /\ UNCHANGED <<service, sessions, est, ofSession, timers, ringing, loopDone>>

loopReturns ==
    /\ ~loopDone /\ cClosed
    /\ loopDone' = TRUE
    /\ UNCHANGED <<service, sessions, est, ofSession, timers, ringing, cTickSessions>>

loop == loopReceive \/ loopReturns

Ticks(s) == loopReceive /\ sessions[Head(cTickSessions)] = s

-----------------------------------------------------------------------------
Next == \/ \E s \in Sessions : \/ newSession(s) \/ Connect(s) \/ closeRest(s)
                               \/ SessionOnClosed(s) \/ sessionHandleCloseReq(s)
                               \/ readerCloses(s) \/ TimerFires(s)
        \/ CloseState \/ Close \/ onSessionTicker \/ loop

(* Goroutines are scheduled, and a periodic timer fires again and again    *)
(* (DueTimersFire of TimerHeap), as often as its goroutine is free.        *)
Fairness == /\ WF_vars(\E s \in Sessions : Connect(s) \/ closeRest(s) \/ readerCloses(s))
            /\ WF_vars(Close) /\ WF_vars(onSessionTicker) /\ WF_vars(loop)
            /\ \A s \in Sessions : SF_vars(TimerFires(s))

Spec == Init /\ [][Next]_vars /\ Fairness

-----------------------------------------------------------------------------
(* Properties *)

(* Whoever comes to close a session, and however late, its chClose is      *)
(* closed once (a second time would panic), and not before its connector   *)
(* has come to core.Start, with timer and state in place.                  *)
ReleasedOnce ==
    \A s \in Sessions :
        /\ released[s] <= 1
        /\ released[s] = 1 => est[s] \notin {"none", "timer", "noTimer", "core"}

(* While the service runs, a live session has its timer and one that has   *)
(* been closed has none.                                                   *)
TimersFollowSessions ==
    svcState = "started" =>
        \A s \in Sessions : /\ state[s] = "started" => s \in timers
                            /\ pc[s] = "done" => s \notin timers

(* A session that has been closed has no timer ("停止 Session Tick 定时器", *)
(* service.go:345).                                                        *)
EndedHasNoTimer == \A s \in Sessions : pc[s] = "done" => s \notin timers

Live(s) == svcState = "started" /\ est[s] = "done" /\ state[s] = "started"

(* A live session is ticked again and again, however full the channel and  *)
(* whatever becomes of an older session with the same node.                *)
LiveIsTicked == \A s \in Sessions : <>[]Live(s) => []<><<Ticks(s)>>_vars

(* A callback does not keep the goroutine of all timers for ever.          *)
CallbackEnds == ringing # None ~> ringing = None

(* The connector of a session never waits for a session.mutex that nobody  *)
(* will unlock, although a reader may leave it locked.                     *)
ConnectorEnds == \A s \in Sessions : est[s] # "none" ~> est[s] \in {"done", "failed"}

(* When the service closes, Close returns, its loop ends and all sessions  *)
(* are closed, those included that are about to be published.              *)
CloseEndsAll ==
    svcState = "closed" ~>
        /\ closing = "done" /\ loopDone
        /\ \A n \in Nodes : sessions[n] = None
        /\ \A s \in Sessions : state[s] = "closed" \/ est[s] = "none"
=============================================================================
