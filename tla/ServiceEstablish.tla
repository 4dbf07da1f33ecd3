-------------------------- MODULE ServiceEstablish --------------------------
(***************************************************************************)
(* One Service and one remote node (net/service.go,                        *)
(* net/service_establish.go): Connect calls and passive connections race   *)
(* to establish the one session between the two nodes, against sessions    *)
(* that die and against Service.Close.                                     *)
(*                                                                         *)
(* A thread is one Connect call (Callers) or one accepted connection with  *)
(* its onPassiveConn goroutine (Conns); each runs once.  What a thread     *)
(* allocates is named after it: es[t] is the establishment thread t        *)
(* stored, conn[t] the connection t dialled or accepted, sess[t] the       *)
(* session made of conn[t].  The remote node is every answer the network   *)
(* may give to an I/O step, errors and timeouts included.                  *)
(*                                                                         *)
(* Steps end where another goroutine can see the state: at each section    *)
(* under establishment.mutex, at each section under Service.mutex, at each *)
(* access of the sync.Maps outside of them, and at I/O.  Service.mutex is  *)
(* never held across a step; establishment.mutex is (establishEnd), so it  *)
(* is the variable esMutex.                                                *)
(*                                                                         *)
(* Name_Variant is a wrong version of the action Name: what it breaks      *)
(* tells what the code of Name is there for.                               *)
(***************************************************************************)
EXTENDS Establishing, FiniteSets

CONSTANTS Callers,       \* Connect calls
          Conns,         \* connections the listener accepts
          Times,         \* start times an attempt may carry
          LocalIsLess    \* is the local node id the smaller one?

Threads == Callers \cup Conns

ASSUME ThreadsAssumption == Callers \cap Conns = {} /\ None \notin Threads
ASSUME TimesAssumption == Times \subseteq Int
ASSUME LocalIsLessAssumption == LocalIsLess \in BOOLEAN

VARIABLES
    svcState,          \* Service.state
    closePc,           \* progress of Service.Close
    closeRef,          \* the session its Range is at
    sessions,          \* Service.sessions at the remote node id
    establishments,    \* Service.establishments at the remote node id
    es,                \* es[t]: the establishment thread t created
    esMutex,           \* esMutex[t]: the thread that holds es[t].mutex
    pc,                \* pc[t]: where thread t is
    ref,               \* ref[t]: the establishment thread t works on
    got,               \* got[t]: the session thread t builds, found or returns
    conn,              \* conn[t]: state of the connection of thread t
    sess,              \* sess[t]: state of the session made of conn[t]
    closing,           \* sessions whose close() has not reached onSessionClosed
    found              \* history: establishments ended by EndExisting, that is
                       \* because a session was found; no step looks at it

vars == <<svcState, closePc, closeRef, sessions, establishments, es, esMutex,
          pc, ref, got, conn, sess, closing, found>>

(* What the steps of threads leave alone, the history among it. *)
service == <<svcState, closePc, closeRef, found>>
maps    == <<sessions, establishments>>
links   == <<conn, sess, closing>>

-----------------------------------------------------------------------------
stateInit    == 0
stateStarted == 1
stateClosed  == 2

(* Where a thread that holds establishment.mutex across steps may be. *)
Building == {"create", "lockSession", "publish", "finish", "fail", "remove"}

PCs == {"idle", "getEstablishment", "start", "recheck", "endExisting",
        "dial", "startHandshake", "handshake", "aboutSuccess", "complete",
        "success", "attemptFail", "passiveConn", "passiveHandshake",
        "wait", "lastLook", "done"} \cup Building

TypeOK ==
    /\ svcState \in stateInit .. stateClosed
    /\ closePc \in {"none", "range", "close", "delete", "done"}
    /\ closeRef \in Threads \cup {None}
    /\ sessions \in Threads \cup {None}
    /\ establishments \in Threads \cup {None}
    /\ es \in [Threads -> Establishment(Threads, Times)]
    /\ esMutex \in [Threads -> Threads \cup {None}]
    /\ pc \in [Threads -> PCs]
    /\ ref \in [Threads -> Threads \cup {None}]
    /\ got \in [Threads -> Threads \cup {None}]
    /\ conn \in [Threads -> {"none", "open", "closed"}]
    /\ sess \in [Threads -> stateInit .. stateClosed]
    /\ closing \subseteq Threads
    /\ found \subseteq Threads

Init ==
    /\ svcState = stateInit
    /\ closePc = "none"
    /\ closeRef = None
    /\ sessions = None
    /\ establishments = None
    /\ es = [t \in Threads |-> NewEstablishment]
    /\ esMutex = [t \in Threads |-> None]
    /\ pc = [t \in Threads |-> "idle"]
    /\ ref = [t \in Threads |-> None]
    /\ got = [t \in Threads |-> None]
    /\ conn = [t \in Threads |-> "none"]
    /\ sess = [t \in Threads |-> stateInit]
    /\ closing = {}
    /\ found = {}

-----------------------------------------------------------------------------
Live(k) == sess[k] = stateStarted

(* Service.getSession: a session of the map that keepActive() accepts. *)
getSession == IF sessions # None /\ Live(sessions) THEN sessions ELSE None

(* Service.GetSession: nothing unless the service is started. *)
GetSession == IF svcState = stateStarted THEN getSession ELSE None

Goto(t, l) == pc' = [pc EXCEPT ![t] = l]

EsFree(t) == esMutex[ref[t]] = None

SetEs(t, e) == es' = [es EXCEPT ![ref[t]] = e]

Release(t) == esMutex' = [esMutex EXCEPT ![ref[t]] = None]

(* The part of session.close that runs once: the state, the connection. *)
CloseSession(k) ==
    IF sess[k] = stateClosed
    THEN UNCHANGED links
    ELSE /\ sess' = [sess EXCEPT ![k] = stateClosed]
         /\ conn' = [conn EXCEPT ![k] = "closed"]
         /\ closing' = closing \cup {k}

CloseConn(k) == /\ conn' = [conn EXCEPT ![k] = "closed"]
                /\ UNCHANGED <<sess, closing>>

(* getOrCreateEstablishment, for a thread that next goes to l. *)
getOrCreateEstablishment(t, l) ==
    /\ Goto(t, l)
    /\ IF establishments # None
       THEN /\ ref' = [ref EXCEPT ![t] = establishments]
            /\ UNCHANGED establishments
       ELSE /\ ref' = [ref EXCEPT ![t] = t]
            /\ establishments' = t

-----------------------------------------------------------------------------
(* Service.Start and Service.Close *)

Start == /\ svcState = stateInit
         /\ svcState' = stateStarted
         /\ UNCHANGED <<closePc, closeRef, found, maps, es, esMutex, pc, ref, got, links>>

Close == /\ svcState = stateStarted
         /\ svcState' = stateClosed
         /\ closePc' = "range"
         /\ UNCHANGED <<closeRef, found, maps, es, esMutex, pc, ref, got, links>>

(* sessionMap.close: Range finds the entry and closes the session; the     *)
(* close returns at once when another has closed it ...                    *)
CloseRange == /\ closePc = "range"
              /\ closeRef' = sessions
              /\ IF sessions = None
                 THEN closePc' = "done" /\ UNCHANGED links
                 ELSE /\ closePc' = IF sess[sessions] = stateClosed
                                    THEN "delete" ELSE "close"
                      /\ CloseSession(sessions)
              /\ UNCHANGED <<svcState, found, maps, es, esMutex, pc, ref, got>>

(* ... and when it has returned, the entry is deleted. *)
CloseDelete == /\ \/ closePc = "delete"
                  \/ closePc = "close" /\ closeRef \notin closing
               /\ closePc' = "done"
               /\ sessions' = IF sessions = closeRef THEN None ELSE sessions
               /\ UNCHANGED <<svcState, closeRef, found, establishments, es, esMutex,
                              pc, ref, got, links>>

-----------------------------------------------------------------------------
(* Connect *)

(* The first GetSession, without any lock held afterwards. *)
Connect(c) ==
    /\ pc[c] = "idle"
    /\ got' = [got EXCEPT ![c] = GetSession]
    /\ Goto(c, IF GetSession # None THEN "done" ELSE "getEstablishment")
    /\ UNCHANGED <<service, maps, es, esMutex, ref, links>>

(* lockState(stateStarted, read) ... unlockState. *)
ConnectGetEstablishment(c) ==
    /\ pc[c] = "getEstablishment"
    /\ IF svcState # stateStarted
       THEN Goto(c, "done") /\ UNCHANGED <<establishments, ref>>
       ELSE getOrCreateEstablishment(c, "start")
    /\ UNCHANGED <<service, sessions, es, esMutex, got, links>>

(* startActiveEstablish, up to the first unlock. *)
StartActiveEstablish(c) ==
    /\ c \in Callers /\ pc[c] = "start" /\ EsFree(c)
    /\ \E now \in Times : SetEs(c, startActive(es[ref[c]], now))
    /\ Goto(c, IF canStartActive(es[ref[c]]) THEN "recheck" ELSE "wait")
    /\ UNCHANGED <<service, maps, esMutex, ref, got, links>>

(* Variant: no second look for a session. *)
Recheck_NoLook(t) ==
    /\ pc[t] = "recheck"
    /\ Goto(t, IF t \in Callers THEN "dial" ELSE "passiveHandshake")
    /\ UNCHANGED <<service, maps, es, esMutex, ref, got, links>>

(* The GetSession of startActiveEstablish and startPassiveEstablish. *)
Recheck(t) ==
    /\ pc[t] = "recheck"
    /\ got' = [got EXCEPT ![t] = GetSession]
    /\ Goto(t, IF GetSession # None THEN "endExisting"
               ELSE IF t \in Callers THEN "dial" ELSE "passiveHandshake")
    /\ UNCHANGED <<service, maps, es, esMutex, ref, links>>

(* es.end(session, nil); the map entry stays. *)
EndExisting(t) ==
    /\ pc[t] = "endExisting" /\ EsFree(t)
    /\ SetEs(t, end(es[ref[t]], got[t]))
    /\ found' = IF isEnd(es[ref[t]]) THEN found ELSE found \cup {ref[t]}
    /\ Goto(t, "wait")
    /\ UNCHANGED <<svcState, closePc, closeRef, maps, esMutex, ref, got, links>>

(* activeEstablishConnect: the Dialer. *)
ActiveEstablishConnect(c) ==
    /\ pc[c] = "dial"
    /\ \/ Goto(c, "startHandshake") /\ conn' = [conn EXCEPT ![c] = "open"]
       \/ Goto(c, "attemptFail") /\ UNCHANGED conn
    /\ UNCHANGED <<service, maps, es, esMutex, ref, got, sess, closing>>

(* activeEstablishHandshake: the section under the mutex. *)
StartActiveHandshake(c) ==
    /\ pc[c] = "startHandshake" /\ EsFree(c)
    /\ SetEs(c, startActiveHandshake(es[ref[c]]))
    /\ Goto(c, IF canStartActiveHandshake(es[ref[c]]) THEN "handshake" ELSE "wait")
    /\ UNCHANGED <<service, maps, esMutex, ref, got, links>>

(* activeEstablishHandshake: apply is written, the answer read and judged. *)
ActiveEstablishHandshake(c) ==
    /\ pc[c] = "handshake"
    /\ \/ Goto(c, "aboutSuccess") /\ UNCHANGED links
       \/ Goto(c, "attemptFail") /\ CloseConn(c)
    /\ UNCHANGED <<service, maps, es, esMutex, ref, got>>

(* activeEstablishAboutSuccess: the section under the mutex ... *)
ActiveEstablishAboutSuccess(c) ==
    /\ pc[c] = "aboutSuccess" /\ EsFree(c)
    /\ SetEs(c, activeAboutSuccess(es[ref[c]]))
    /\ Goto(c, "complete")
    /\ UNCHANGED <<service, maps, esMutex, ref, got, links>>

(* ... and the exchange of completed and its ack. *)
ActiveComplete(c) ==
    /\ pc[c] = "complete"
    /\ \/ Goto(c, "success") /\ UNCHANGED links
       \/ Goto(c, "attemptFail") /\ CloseConn(c)
    /\ UNCHANGED <<service, maps, es, esMutex, ref, got>>

-----------------------------------------------------------------------------
(* Passive connections *)

(* listen: Accept, until Close has closed the listener, on its way from    *)
(* the new state of the service to the session map.                        *)
Accept(p) ==
    /\ pc[p] = "idle"
    /\ \/ svcState = stateStarted
       \/ svcState = stateClosed /\ closePc = "range"
    /\ conn' = [conn EXCEPT ![p] = "open"]
    /\ Goto(p, "passiveConn")
    /\ UNCHANGED <<service, maps, es, esMutex, ref, got, sess, closing>>

(* onPassiveConn: no valid apply is read, or the token is wrong. *)
OnPassiveConnRefuse(p) ==
    /\ pc[p] = "passiveConn"
    /\ CloseConn(p)
    /\ Goto(p, "done")
    /\ UNCHANGED <<service, maps, es, esMutex, ref, got>>

(* Variant: a connection is taken up although there is a session. *)
OnPassiveConn_NoLook(p) ==
    /\ pc[p] = "passiveConn"
    /\ IF svcState # stateStarted
       THEN Goto(p, "done") /\ CloseConn(p) /\ UNCHANGED <<establishments, ref>>
       ELSE getOrCreateEstablishment(p, "start") /\ UNCHANGED links
    /\ UNCHANGED <<service, sessions, es, esMutex, got>>

(* onPassiveConn: a valid apply; the section under Service.mutex. *)
OnPassiveConn(p) ==
    /\ pc[p] = "passiveConn"
    /\ IF svcState # stateStarted \/ getSession # None
       THEN Goto(p, "done") /\ CloseConn(p) /\ UNCHANGED <<establishments, ref>>
       ELSE getOrCreateEstablishment(p, "start") /\ UNCHANGED links
    /\ UNCHANGED <<service, sessions, es, esMutex, got>>

(* startPassiveEstablish, up to the first unlock; refused: rejected, closed. *)
StartPassiveEstablish(p) ==
    /\ p \in Conns /\ pc[p] = "start" /\ EsFree(p)
    /\ \E applyTime \in Times : SetEs(p, startPassive(es[ref[p]], applyTime))
    /\ IF canStartPassive(es[ref[p]])
       THEN Goto(p, "recheck") /\ UNCHANGED links
       ELSE Goto(p, "done") /\ CloseConn(p)
    /\ UNCHANGED <<service, maps, esMutex, ref, got>>

(* passiveEstablishHandshake: accepted, completed and completedAck. *)
PassiveEstablishHandshake(p) ==
    /\ pc[p] = "passiveHandshake"
    /\ \/ Goto(p, "success") /\ UNCHANGED links
       \/ Goto(p, "attemptFail") /\ CloseConn(p)
    /\ UNCHANGED <<service, maps, es, esMutex, ref, got>>

-----------------------------------------------------------------------------
(* The end of an attempt, and of the establishment *)

(* establishEnd, entered under the mutex with the establishment e: it      *)
(* closes the connection that is not kept and goes on to make a session of *)
(* the one that is, or to fail.                                            *)
establishEnd(t, e) ==
    IF isEnd(e)
    THEN Goto(t, "wait") /\ UNCHANGED <<esMutex, got, conn>>
    ELSE LET kept    == keptConn(e, LocalIsLess)
             dropped == droppedConn(e, LocalIsLess)
         IN  /\ esMutex' = [esMutex EXCEPT ![ref[t]] = t]
             /\ got' = [got EXCEPT ![t] = kept]
             /\ Goto(t, IF kept = None THEN "fail" ELSE "create")
             /\ conn' = [k \in Threads |-> IF k = dropped THEN "closed" ELSE conn[k]]

(* Variant: whichever attempt is over first ends the establishment. *)
attemptOver_Eager(t, e, other) == SetEs(t, e) /\ establishEnd(t, e)

(* Variant: an attempt leaves the end to one that is over already. *)
attemptOver_Lazy(t, e, other) ==
    /\ SetEs(t, e)
    /\ IF isStarted(other)
       THEN Goto(t, "wait") /\ UNCHANGED <<esMutex, got, conn>>
       ELSE establishEnd(t, e)

(* An attempt that is over leaves the end to the other one if that runs. *)
attemptOver(t, e, other) ==
    /\ SetEs(t, e)
    /\ IF isEstablishing(other)
       THEN Goto(t, "wait") /\ UNCHANGED <<esMutex, got, conn>>
       ELSE establishEnd(t, e)

ActiveEstablishSuccess(c) ==
    /\ c \in Callers /\ pc[c] = "success" /\ EsFree(c)
    /\ IF canActiveSuccess(es[ref[c]])
       THEN LET e == activeSuccess(es[ref[c]], c) IN attemptOver(c, e, e.passive)
       ELSE /\ Goto(c, "wait")
            /\ conn' = [conn EXCEPT ![c] = "closed"]
            /\ UNCHANGED <<es, esMutex, got>>
    /\ UNCHANGED <<service, maps, ref, sess, closing>>

PassiveEstablishSuccess(p) ==
    /\ p \in Conns /\ pc[p] = "success" /\ EsFree(p)
    /\ IF canPassiveSuccess(es[ref[p]])
       THEN LET e == passiveSuccess(es[ref[p]], p) IN attemptOver(p, e, e.active)
       ELSE Goto(p, "wait") /\ UNCHANGED <<es, esMutex, got, conn>>
    /\ UNCHANGED <<service, maps, ref, sess, closing>>

ActiveEstablishFail(c) ==
    /\ c \in Callers /\ pc[c] = "attemptFail" /\ EsFree(c)
    /\ IF canActiveFail(es[ref[c]])
       THEN LET e == activeFail(es[ref[c]]) IN attemptOver(c, e, e.passive)
       ELSE Goto(c, "wait") /\ UNCHANGED <<es, esMutex, got, conn>>
    /\ UNCHANGED <<service, maps, ref, sess, closing>>

PassiveEstablishFail(p) ==
    /\ p \in Conns /\ pc[p] = "attemptFail" /\ EsFree(p)
    /\ IF canPassiveFail(es[ref[p]])
       THEN LET e == passiveFail(es[ref[p]]) IN attemptOver(p, e, e.active)
       ELSE Goto(p, "wait") /\ UNCHANGED <<es, esMutex, got, conn>>
    /\ UNCHANGED <<service, maps, ref, sess, closing>>

(* establishEndCreateSession: session.start; the core may refuse to start. *)
CreateSession(t) ==
    /\ pc[t] = "create"
    /\ \/ Goto(t, "lockSession") /\ sess' = [sess EXCEPT ![got[t]] = stateStarted]
          /\ UNCHANGED <<conn, closing>>
       \/ Goto(t, "fail") /\ CloseSession(got[t])
    /\ UNCHANGED <<service, maps, es, esMutex, ref, got>>

(* session.lockState(stateStarted): the session may be dead already. *)
LockSession(t) ==
    /\ pc[t] = "lockSession"
    /\ Goto(t, IF Live(got[t]) THEN "publish" ELSE "fail")
    /\ UNCHANGED <<service, maps, es, esMutex, ref, got, links>>

(* Variant: a closed service still takes the session. *)
Publish_AnyState(t) ==
    /\ pc[t] = "publish"
    /\ Goto(t, "finish")
    /\ sessions' = got[t]
    /\ establishments' = IF establishments = ref[t] THEN None ELSE establishments
    /\ UNCHANGED <<service, es, esMutex, ref, got, links>>

(* Service.lockState(stateStarted) to unlockState: both maps change, or    *)
(* the service is closed and the session is closed with it.                *)
Publish(t) ==
    /\ pc[t] = "publish"
    /\ IF svcState = stateStarted
       THEN /\ Goto(t, "finish")
            /\ sessions' = got[t]
            /\ establishments' = IF establishments = ref[t] THEN None ELSE establishments
            /\ UNCHANGED links
       ELSE Goto(t, "fail") /\ CloseSession(got[t]) /\ UNCHANGED maps
    /\ UNCHANGED <<service, es, esMutex, ref, got>>

(* es.end(session, nil), and the deferred unlock. *)
Finish(t) ==
    /\ pc[t] = "finish"
    /\ SetEs(t, end(es[ref[t]], got[t]))
    /\ Release(t)
    /\ Goto(t, "wait")
    /\ UNCHANGED <<service, maps, ref, got, links>>

(* establishEndFailed: es.end(nil, err) ... *)
EstablishEndFailed(t) ==
    /\ pc[t] = "fail"
    /\ SetEs(t, end(es[ref[t]], None))
    /\ Goto(t, "remove")
    /\ UNCHANGED <<service, maps, esMutex, ref, got, links>>

(* ... CompareAndDelete, and the deferred unlock. *)
RemoveEstablishment(t) ==
    /\ pc[t] = "remove"
    /\ establishments' = IF establishments = ref[t] THEN None ELSE establishments
    /\ Release(t)
    /\ Goto(t, "wait")
    /\ UNCHANGED <<service, sessions, es, ref, got, links>>

(* establishment.wait: chEnd is closed. *)
Wait(t) ==
    /\ pc[t] = "wait"
    /\ isEnd(es[ref[t]])
    /\ got' = [got EXCEPT ![t] = es[ref[t]].session]
    /\ Goto(t, IF t \in Callers /\ es[ref[t]].session = None THEN "lastLook" ELSE "done")
    /\ UNCHANGED <<service, maps, es, esMutex, ref, links>>

(* Connect: a last GetSession after a failure. *)
LastLook(c) ==
    /\ pc[c] = "lastLook"
    /\ got' = [got EXCEPT ![c] = GetSession]
    /\ Goto(c, "done")
    /\ UNCHANGED <<service, maps, es, esMutex, ref, links>>

-----------------------------------------------------------------------------
(* Sessions die at any time: SessionOnClosed of the core calls close ... *)
SessionOnClosed(k) ==
    /\ Live(k)
    /\ CloseSession(k)
    /\ UNCHANGED <<service, maps, es, esMutex, pc, ref, got>>

(* Variant: the entry is deleted whatever session it holds. *)
onSessionClosed_AnyEntry(k) ==
    /\ k \in closing
    /\ closing' = closing \ {k}
    /\ sessions' = None
    /\ UNCHANGED <<service, establishments, es, esMutex, pc, ref, got, conn, sess>>

(* ... which ends in onSessionClosed: compareAndDelete of the map entry. *)
onSessionClosed(k) ==
    /\ k \in closing
    /\ closing' = closing \ {k}
    /\ sessions' = IF sessions = k THEN None ELSE sessions
    /\ UNCHANGED <<service, establishments, es, esMutex, pc, ref, got, conn, sess>>

-----------------------------------------------------------------------------
(* The steps a thread takes by itself once it has begun. *)
CallerStep(c) ==
    \/ ConnectGetEstablishment(c) \/ StartActiveEstablish(c)
    \/ ActiveEstablishConnect(c) \/ StartActiveHandshake(c)
    \/ ActiveEstablishHandshake(c) \/ ActiveEstablishAboutSuccess(c)
    \/ ActiveComplete(c) \/ ActiveEstablishSuccess(c) \/ ActiveEstablishFail(c)
    \/ LastLook(c)

ConnStep(p) ==
    \/ OnPassiveConnRefuse(p) \/ OnPassiveConn(p) \/ StartPassiveEstablish(p)
    \/ PassiveEstablishHandshake(p)
    \/ PassiveEstablishSuccess(p) \/ PassiveEstablishFail(p)

CommonStep(t) ==
    \/ Recheck(t) \/ EndExisting(t)
    \/ CreateSession(t) \/ LockSession(t) \/ Publish(t) \/ Finish(t)
    \/ EstablishEndFailed(t) \/ RemoveEstablishment(t) \/ Wait(t)

Next ==
    \/ Start \/ Close \/ CloseRange \/ CloseDelete
    \/ \E c \in Callers : Connect(c) \/ CallerStep(c)
    \/ \E p \in Conns : Accept(p) \/ ConnStep(p)
    \/ \E t \in Threads : CommonStep(t)
    \/ \E k \in Threads : SessionOnClosed(k) \/ onSessionClosed(k)

(* I/O ends by its deadline, and goroutines and mutexes are scheduled      *)
(* fairly; whether calls are made, connections arrive or sessions die is   *)
(* up to the environment.                                                  *)
Fairness ==
    /\ WF_vars(CloseRange) /\ WF_vars(CloseDelete)
    /\ \A c \in Callers : WF_vars(CallerStep(c))
    /\ \A p \in Conns : WF_vars(ConnStep(p))
    /\ \A t \in Threads : WF_vars(CommonStep(t)) /\ WF_vars(onSessionClosed(t))

Spec == Init /\ [][Next]_vars /\ Fairness

-----------------------------------------------------------------------------
(* Properties *)

(* The thread that builds session k and holds the mutex of its establishment. *)
Builds(t, k) == pc[t] \in {"lockSession", "publish"} /\ got[t] = k

(* While the service runs there is at most one live session with the       *)
(* remote node, whatever Connect calls, passive connections and dying      *)
(* sessions interleave ("only one Session exists at a time",               *)
(* service_establish.go:13-15).                                            *)
AtMostOneLive ==
    svcState # stateClosed => \A j, k \in Threads : Live(j) /\ Live(k) => j = k

(* A live session can be reached: it is the map entry, or establishEnd is  *)
(* still building it.  No publication overwrites a live session, and no    *)
(* late onSessionClosed of an old session deletes a new one.               *)
LiveReachable ==
    \A k \in Threads : Live(k) => sessions = k \/ \E t \in Threads : Builds(t, k)

(* When Service.Close has been through the session map, the only sessions  *)
(* left alive are those whose publication will be refused.                 *)
CloseLeavesNothing ==
    closePc = "done" => \A k \in Threads : Live(k) => \E t \in Threads : Builds(t, k)

(* The second look of startPassiveEstablish never finds a session:         *)
(* onPassiveConn looked under the lock under which it took the             *)
(* establishment.  (If it could, the connection would never be closed.)    *)
PassiveRecheckFindsNothing == \A p \in Conns : pc[p] # "endExisting"

(* Where a Connect call runs the active attempt of its establishment. *)
ActiveRunning == {"recheck", "endExisting", "dial", "startHandshake", "handshake",
                  "aboutSuccess", "complete", "success", "attemptFail"}

(* An establishment that has ended is the work of no active attempt any    *)
(* more, so that startActiveHandshake never drops the connection it has    *)
(* dialled (service_establish.go:184); and it has ended when both of its   *)
(* attempts were over, by whichever was the last.  The one exception is an *)
(* end because startActiveEstablish found a session (:149), which a        *)
(* passive attempt may outlive.                                            *)
SettledAtEnd ==
    \A u \in Threads :
        isEnd(es[u]) =>
            /\ \A c \in Callers : ref[c] = u => pc[c] \notin ActiveRunning
            /\ u \notin found =>
                   ~isEstablishing(es[u].active) /\ ~isEstablishing(es[u].passive)

(* The attempt connection k belongs to, in its establishment e. *)
AttemptOf(e, k) == IF k \in Callers THEN e.active ELSE e.passive

(* An open connection is that of a thread still at work on it, or of an    *)
(* attempt that has succeeded and waits for the end of its establishment,  *)
(* or of a live session.  The code leaks one kind of connection, and the   *)
(* property excepts no other: a passive one whose handshake succeeds on an *)
(* establishment that EndExisting ends or has ended                        *)
(* (service_establish.go:149, 439-441).                                    *)
ConnOwned ==
    \A k \in Threads :
        conn[k] = "open" =>
            \/ pc[k] \in {"passiveConn", "start", "recheck", "endExisting", "dial",
                          "startHandshake", "handshake", "aboutSuccess", "complete",
                          "passiveHandshake", "success"}
            \/ /\ isSuccess(AttemptOf(es[ref[k]], k)) /\ AttemptOf(es[ref[k]], k).conn = k
               /\ isEnd(es[ref[k]]) => k \in Conns /\ ref[k] \in found
            \/ Live(k)

(* The service's establishments hold what is being established            *)
(* ("正在建立的 Session", service.go:95): one that has ended leaves.       *)
EndedLeavesMap ==
    \A t \in Threads : establishments = t /\ isEnd(es[t]) ~> establishments # t

(* Every Connect call that has begun returns, and every passive connection *)
(* is settled, so that its goroutine ends: whichever attempt is over first *)
(* and leaves the end to the other one, nobody waits for ever for chEnd or *)
(* the mutex of an establishment.                                          *)
EveryCallReturns == \A t \in Threads : pc[t] # "idle" ~> pc[t] = "done"
=============================================================================
