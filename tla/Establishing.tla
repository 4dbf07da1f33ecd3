---------------------------- MODULE Establishing ----------------------------
(***************************************************************************)
(* The establishing context of net/service_establish.go: the two attempts  *)
(* to reach a remote node (active: this node dialled; passive: the remote  *)
(* node dialled) and the establishment that joins them.  Every method is   *)
(* an operator from a record to a record; a method that also reports       *)
(* success has a "can" operator for the reported value.                    *)
(*                                                                         *)
(* A nil *establishing pointer is the attempt of state 0: the code makes   *)
(* the pointer and moves its state off 0 in the same critical section.     *)
(* Errors are abstracted to their presence: an establishment that ended    *)
(* without a session ended with an error.                                  *)
(*                                                                         *)
(* Name_Variant is a wrong version of Name: what it breaks tells what the  *)
(* code of Name is there for.                                              *)
(***************************************************************************)
EXTENDS Integers

CONSTANT None          \* Go's nil, for connections, sessions and map entries

-----------------------------------------------------------------------------
(* establishing: one attempt *)

establishConnect      == 1
establishHandshake    == 2
establishAboutSuccess == 3
establishSuccess      == 4
establishFail         == 5

Attempt(Conn, Time) ==
    [state : 0 .. establishFail, startTime : Time \cup {0}, conn : Conn \cup {None}]

NoAttempt == [state |-> 0, startTime |-> 0, conn |-> None]

(* changeState, of an establishing and of an establishment alike. *)
canChangeState(a, s) == s > a.state

changeState(a, s) == IF canChangeState(a, s) THEN [a EXCEPT !.state = s] ELSE a

isStarted(a) == a.state > 0
isSuccess(a) == a.state = establishSuccess
isFail(a)    == a.state = establishFail

attemptIsEnd(a) == a.state > establishAboutSuccess

isEstablishing(a) == isStarted(a) /\ ~attemptIsEnd(a)

success(a, c) == IF canChangeState(a, establishSuccess)
                 THEN [changeState(a, establishSuccess) EXCEPT !.conn = c]
                 ELSE a

(* Variant: the failure state is counted past the last one. *)
fail_PastEnd(a) == changeState(a, establishFail + 1)

fail(a) == changeState(a, establishFail)

-----------------------------------------------------------------------------
(* establishment: the two attempts at one remote node *)

establishmentStarted == 1
establishmentEnd     == 2

Establishment(Conn, Time) ==
    [state : 0 .. establishmentEnd, active : Attempt(Conn, Time),
     passive : Attempt(Conn, Time), session : Conn \cup {None}]

NewEstablishment ==
    [state |-> 0, active |-> NoAttempt, passive |-> NoAttempt, session |-> None]

isEnd(e) == e.state = establishmentEnd

end(e, s) == IF isEnd(e) THEN e
             ELSE [changeState(e, establishmentEnd) EXCEPT !.session = s]

canStartActive(e) == /\ ~isEnd(e)
                     /\ ~isStarted(e.passive)
                     /\ canChangeState(e.active, establishConnect)

startActive(e, t) ==
    IF canStartActive(e)
    THEN [changeState(e, establishmentStarted) EXCEPT
             !.active = [changeState(@, establishConnect) EXCEPT !.startTime = t]]
    ELSE e

canStartActiveHandshake(e) == /\ ~isEnd(e)
                              /\ isStarted(e.active)
                              /\ canChangeState(e.active, establishHandshake)

startActiveHandshake(e) ==
    IF canStartActiveHandshake(e)
    THEN [e EXCEPT !.active = changeState(@, establishHandshake)]
    ELSE e

activeAboutSuccess(e) ==
    IF isStarted(e.active)
    THEN [e EXCEPT !.active = changeState(@, establishAboutSuccess)]
    ELSE e

canActiveSuccess(e) == isStarted(e.active) /\ canChangeState(e.active, establishSuccess)

activeSuccess(e, c) == IF isStarted(e.active)
                       THEN [e EXCEPT !.active = success(@, c)] ELSE e

canActiveFail(e) == isStarted(e.active) /\ canChangeState(e.active, establishFail)

activeFail(e) == IF isStarted(e.active) THEN [e EXCEPT !.active = fail(@)] ELSE e

canStartPassive(e) == /\ ~isEnd(e)
                      /\ canChangeState(e.passive, establishHandshake)

startPassive(e, t) ==
    IF canStartPassive(e)
    THEN [changeState(e, establishmentStarted) EXCEPT
             !.passive = [changeState(@, establishHandshake) EXCEPT !.startTime = t]]
    ELSE e

canPassiveSuccess(e) == isStarted(e.passive) /\ canChangeState(e.passive, establishSuccess)

passiveSuccess(e, c) == IF isStarted(e.passive)
                        THEN [e EXCEPT !.passive = success(@, c)] ELSE e

canPassiveFail(e) == isStarted(e.passive) /\ canChangeState(e.passive, establishFail)

passiveFail(e) == IF isStarted(e.passive) THEN [e EXCEPT !.passive = fail(@)] ELSE e

-----------------------------------------------------------------------------
(* The decision of establishEnd.  sameTime breaks a tie of start times:    *)
(* the caller passes "my node id is the smaller one".                      *)

(* Variant: equal start times are not told apart by the node ids. *)
whichStartEarlier_NoTieBreak(e, sameTime) ==
    IF isStarted(e.active) /\ isStarted(e.passive)
    THEN IF e.active.startTime < e.passive.startTime THEN 1 ELSE 2
    ELSE IF isStarted(e.active) THEN 1
    ELSE IF isStarted(e.passive) THEN 2
    ELSE 0

whichStartEarlier(e, sameTime) ==
    IF isStarted(e.active) /\ isStarted(e.passive)
    THEN IF \/ e.active.startTime < e.passive.startTime
            \/ e.active.startTime = e.passive.startTime /\ sameTime
         THEN 1 ELSE 2
    ELSE IF isStarted(e.active) THEN 1
    ELSE IF isStarted(e.passive) THEN 2
    ELSE 0

keepsActive(e, sameTime) ==
    /\ isSuccess(e.active)
    /\ \/ ~isStarted(e.passive)
       \/ isFail(e.passive)
       \/ isSuccess(e.passive) /\ whichStartEarlier(e, sameTime) = 1

keepsPassive(e, sameTime) ==
    /\ isSuccess(e.passive)
    /\ \/ ~isStarted(e.active)
       \/ isFail(e.active)
       \/ isSuccess(e.active) /\ whichStartEarlier(e, sameTime) # 1

(* The connection establishEnd makes a session of, None when it fails. *)
keptConn(e, sameTime) == IF keepsActive(e, sameTime) THEN e.active.conn
                         ELSE IF keepsPassive(e, sameTime) THEN e.passive.conn
                         ELSE None

(* Variant: the connection that is not kept is forgotten. *)
droppedConn_Forgotten(e, sameTime) == None

(* The connection establishEnd closes because the other one was kept. *)
droppedConn(e, sameTime) ==
    IF ~(isSuccess(e.active) /\ isSuccess(e.passive)) THEN None
    ELSE IF keepsActive(e, sameTime) THEN e.passive.conn
    ELSE e.active.conn
=============================================================================
