----------------------- MODULE ServiceEstablishProofs -----------------------
(***************************************************************************)
(* Proofs about ServiceEstablish, for any number of Connect calls and      *)
(* passive connections: its inductive invariant, and what follows from it. *)
(***************************************************************************)
EXTENDS ServiceEstablishInv, TLAPS

Est == Establishment(Threads, Times)
Att == Attempt(Threads, Times)

-----------------------------------------------------------------------------
(* Lemmas about the records *)

LEMMA EstFields ==
    ASSUME NEW e \in Est
    PROVE  /\ e.active \in Att /\ e.passive \in Att
           /\ e.state \in 0 .. 2
           /\ e.session \in Threads \cup {None}
  BY DEF Est, Att, Establishment, establishmentEnd

LEMMA AttFields ==
    ASSUME NEW a \in Att
    PROVE  /\ a.state \in 0 .. 5
           /\ a.conn \in Threads \cup {None}
  BY DEF Att, Attempt, establishFail

LEMMA AttChange ==
    ASSUME NEW a \in Att, NEW s \in 0 .. 5
    PROVE  /\ changeState(a, s) \in Att
           /\ changeState(a, s).conn = a.conn
           /\ changeState(a, s).state = IF s > a.state THEN s ELSE a.state
  BY DEF Att, Attempt, establishFail, changeState, canChangeState

LEMMA AttSetTime ==
    ASSUME NEW a \in Att, NEW t \in Times
    PROVE  /\ [a EXCEPT !.startTime = t] \in Att
           /\ [a EXCEPT !.startTime = t].conn = a.conn
           /\ [a EXCEPT !.startTime = t].state = a.state
  BY DEF Att, Attempt, establishFail

LEMMA AttSetConn ==
    ASSUME NEW a \in Att, NEW c \in Threads
    PROVE  /\ [a EXCEPT !.conn = c] \in Att
           /\ [a EXCEPT !.conn = c].conn = c
           /\ [a EXCEPT !.conn = c].state = a.state
  BY DEF Att, Attempt, establishFail

LEMMA EstChange ==
    ASSUME NEW e \in Est, NEW s \in 0 .. 2
    PROVE  /\ changeState(e, s) \in Est
           /\ changeState(e, s).active = e.active
           /\ changeState(e, s).passive = e.passive
           /\ changeState(e, s).state = IF s > e.state THEN s ELSE e.state
  BY DEF Est, Establishment, establishmentEnd, changeState, canChangeState

LEMMA EstSetActive ==
    ASSUME NEW e \in Est, NEW a \in Att
    PROVE  /\ [e EXCEPT !.active = a] \in Est
           /\ [e EXCEPT !.active = a].active = a
           /\ [e EXCEPT !.active = a].passive = e.passive
           /\ [e EXCEPT !.active = a].state = e.state
  BY DEF Est, Att, Establishment, establishmentEnd

LEMMA EstSetPassive ==
    ASSUME NEW e \in Est, NEW a \in Att
    PROVE  /\ [e EXCEPT !.passive = a] \in Est
           /\ [e EXCEPT !.passive = a].active = e.active
           /\ [e EXCEPT !.passive = a].passive = a
           /\ [e EXCEPT !.passive = a].state = e.state
  BY DEF Est, Att, Establishment, establishmentEnd

LEMMA EstSetSession ==
    ASSUME NEW e \in Est, NEW s \in Threads \cup {None}
    PROVE  /\ [e EXCEPT !.session = s] \in Est
           /\ [e EXCEPT !.session = s].active = e.active
           /\ [e EXCEPT !.session = s].passive = e.passive
           /\ [e EXCEPT !.session = s].state = e.state
  BY DEF Est, Att, Establishment, establishmentEnd

(* The end of an attempt. *)
LEMMA AttOver ==
    ASSUME NEW a \in Att, NEW c \in Threads
    PROVE  /\ success(a, c) \in Att
           /\ success(a, c).conn \in {a.conn, c}
           /\ ~isEstablishing(success(a, c))
           /\ fail(a) \in Att
           /\ fail(a).conn = a.conn
           /\ ~isEstablishing(fail(a))
  <1> DEFINE b == changeState(a, establishSuccess)
  <1>1. a.state \in 0 .. 5
    BY AttFields
  <1>2. b \in Att /\ b.conn = a.conn /\ b.state \in 4 .. 5
    BY <1>1, AttChange DEF establishSuccess
  <1>3. [b EXCEPT !.conn = c] \in Att /\ [b EXCEPT !.conn = c].conn = c
        /\ [b EXCEPT !.conn = c].state = b.state
    BY <1>2, AttSetConn
  <1>4. success(a, c) = IF canChangeState(a, establishSuccess)
                        THEN [b EXCEPT !.conn = c] ELSE a
    BY DEF success
  <1> HIDE DEF b
  <1>5. success(a, c) \in Att /\ success(a, c).conn \in {a.conn, c}
        /\ success(a, c).state \in 4 .. 5
    BY <1>1, <1>2, <1>3, <1>4 DEF canChangeState, establishSuccess
  <1>6. fail(a) \in Att /\ fail(a).conn = a.conn /\ fail(a).state = 5
    BY <1>1, AttChange DEF fail, establishFail
  <1> QED
    BY <1>5, <1>6 DEF isEstablishing, attemptIsEnd, establishAboutSuccess

(* What the methods of an establishment return, and what they leave alone. *)
LEMMA StartActiveOp ==
    ASSUME NEW e \in Est, NEW t \in Times, canStartActive(e)
    PROVE  /\ startActive(e, t) \in Est
           /\ startActive(e, t).passive = e.passive
           /\ startActive(e, t).active.conn = e.active.conn
           /\ ~isEnd(startActive(e, t)) /\ ~isEnd(e)
           /\ ~isEstablishing(e.active)
           /\ isEstablishing(startActive(e, t).active)
  <1> DEFINE f == changeState(e, establishmentStarted)
             a == changeState(f.active, establishConnect)
             b == [a EXCEPT !.startTime = t]
  <1>1. e.active \in Att /\ e.state \in 0 .. 2 /\ e.active.state \in 0 .. 5
    BY EstFields, AttFields
  <1>2. /\ f \in Est /\ f.active = e.active /\ f.passive = e.passive
        /\ f.state = IF 1 > e.state THEN 1 ELSE e.state
    BY EstChange DEF establishmentStarted
  <1>3. a \in Att /\ a.conn = e.active.conn /\ a.state = IF 1 > e.active.state THEN 1 ELSE e.active.state
    BY <1>1, <1>2, AttChange DEF establishConnect
  <1>4. b \in Att /\ b.conn = a.conn /\ b.state = a.state
    BY <1>3, AttSetTime
  <1>5. startActive(e, t) = [f EXCEPT !.active = b]
    BY DEF startActive
  <1> HIDE DEF f, a, b
  <1>6. /\ startActive(e, t) \in Est /\ startActive(e, t).active = b
        /\ startActive(e, t).passive = e.passive /\ startActive(e, t).state = f.state
    BY <1>2, <1>4, <1>5, EstSetActive
  <1>7. e.state # 2 /\ e.active.state = 0
    BY <1>1 DEF canStartActive, isEnd, canChangeState, establishConnect, establishmentEnd
  <1> QED
    BY <1>1, <1>2, <1>3, <1>4, <1>6, <1>7
    DEF isEnd, isEstablishing, isStarted, attemptIsEnd, establishAboutSuccess, establishmentEnd

LEMMA StartPassiveOp ==
    ASSUME NEW e \in Est, NEW t \in Times, canStartPassive(e)
    PROVE  /\ startPassive(e, t) \in Est
           /\ startPassive(e, t).active = e.active
           /\ startPassive(e, t).passive.conn = e.passive.conn
           /\ ~isEnd(startPassive(e, t)) /\ ~isEnd(e)
           /\ e.passive.state < 2
           /\ startPassive(e, t).passive.state = establishHandshake
  <1> DEFINE f == changeState(e, establishmentStarted)
             a == changeState(f.passive, establishHandshake)
             b == [a EXCEPT !.startTime = t]
  <1>1. e.passive \in Att /\ e.state \in 0 .. 2 /\ e.passive.state \in 0 .. 5
    BY EstFields, AttFields
  <1>2. /\ f \in Est /\ f.active = e.active /\ f.passive = e.passive
        /\ f.state = IF 1 > e.state THEN 1 ELSE e.state
    BY EstChange DEF establishmentStarted
  <1>3. a \in Att /\ a.conn = e.passive.conn
        /\ a.state = IF 2 > e.passive.state THEN 2 ELSE e.passive.state
    BY <1>1, <1>2, AttChange DEF establishHandshake
  <1>4. b \in Att /\ b.conn = a.conn /\ b.state = a.state
    BY <1>3, AttSetTime
  <1>5. startPassive(e, t) = [f EXCEPT !.passive = b]
    BY DEF startPassive
  <1> HIDE DEF f, a, b
  <1>6. /\ startPassive(e, t) \in Est /\ startPassive(e, t).passive = b
        /\ startPassive(e, t).active = e.active /\ startPassive(e, t).state = f.state
    BY <1>2, <1>4, <1>5, EstSetPassive
  <1>7. e.state # 2 /\ e.passive.state < 2
    BY <1>1 DEF canStartPassive, isEnd, canChangeState, establishHandshake, establishmentEnd
  <1> QED
    BY <1>1, <1>2, <1>3, <1>4, <1>6, <1>7
    DEF isEnd, establishHandshake, establishmentEnd

LEMMA HandshakeOp ==
    ASSUME NEW e \in Est
    PROVE  /\ startActiveHandshake(e) \in Est
           /\ startActiveHandshake(e).passive = e.passive
           /\ startActiveHandshake(e).active.conn = e.active.conn
           /\ startActiveHandshake(e).state = e.state
           /\ isEstablishing(startActiveHandshake(e).active) <=> isEstablishing(e.active)
  <1> DEFINE a == changeState(e.active, establishHandshake)
  <1>1. e.active \in Att /\ e.active.state \in 0 .. 5
    BY EstFields, AttFields
  <1>2. a \in Att /\ a.conn = e.active.conn
        /\ a.state = IF 2 > e.active.state THEN 2 ELSE e.active.state
    BY <1>1, AttChange DEF establishHandshake
  <1>3. startActiveHandshake(e) = IF canStartActiveHandshake(e)
                                  THEN [e EXCEPT !.active = a] ELSE e
    BY DEF startActiveHandshake
  <1>4. canStartActiveHandshake(e) => e.active.state > 0
    BY DEF canStartActiveHandshake, isStarted
  <1> HIDE DEF a
  <1>5. [e EXCEPT !.active = a] \in Est /\ [e EXCEPT !.active = a].active = a
        /\ [e EXCEPT !.active = a].passive = e.passive /\ [e EXCEPT !.active = a].state = e.state
    BY <1>2, EstSetActive
  <1> QED
    BY <1>1, <1>2, <1>3, <1>4, <1>5
    DEF isEstablishing, isStarted, attemptIsEnd, establishAboutSuccess

LEMMA AboutSuccessOp ==
    ASSUME NEW e \in Est
    PROVE  /\ activeAboutSuccess(e) \in Est
           /\ activeAboutSuccess(e).passive = e.passive
           /\ activeAboutSuccess(e).active.conn = e.active.conn
           /\ activeAboutSuccess(e).state = e.state
           /\ isEstablishing(activeAboutSuccess(e).active) <=> isEstablishing(e.active)
  <1> DEFINE a == changeState(e.active, establishAboutSuccess)
  <1>1. e.active \in Att /\ e.active.state \in 0 .. 5
    BY EstFields, AttFields
  <1>2. a \in Att /\ a.conn = e.active.conn
        /\ a.state = IF 3 > e.active.state THEN 3 ELSE e.active.state
    BY <1>1, AttChange DEF establishAboutSuccess
  <1>3. activeAboutSuccess(e) = IF isStarted(e.active)
                                THEN [e EXCEPT !.active = a] ELSE e
    BY DEF activeAboutSuccess
  <1> HIDE DEF a
  <1>5. [e EXCEPT !.active = a] \in Est /\ [e EXCEPT !.active = a].active = a
        /\ [e EXCEPT !.active = a].passive = e.passive /\ [e EXCEPT !.active = a].state = e.state
    BY <1>2, EstSetActive
  <1> QED
    BY <1>1, <1>2, <1>3, <1>5
    DEF isEstablishing, isStarted, attemptIsEnd, establishAboutSuccess

(* An attempt of e is over in f: nothing but that attempt differs. *)
Over(e, f, t) ==
    /\ f \in Est
    /\ f.state = e.state
    /\ f.active.conn \in {e.active.conn, t}
    /\ f.passive.conn \in {e.passive.conn, t}
    /\ \/ ~isEstablishing(f.active) /\ f.passive = e.passive
       \/ ~isEstablishing(f.passive) /\ f.active = e.active

LEMMA OverOps ==
    ASSUME NEW e \in Est, NEW c \in Threads
    PROVE  /\ canActiveSuccess(e) => /\ Over(e, activeSuccess(e, c), c)
                                     /\ ~isEstablishing(activeSuccess(e, c).active)
                                     /\ activeSuccess(e, c).passive = e.passive
           /\ canActiveFail(e) => /\ Over(e, activeFail(e), c)
                                  /\ ~isEstablishing(activeFail(e).active)
                                  /\ activeFail(e).passive = e.passive
           /\ canPassiveSuccess(e) => /\ Over(e, passiveSuccess(e, c), c)
                                      /\ ~isEstablishing(passiveSuccess(e, c).passive)
                                      /\ passiveSuccess(e, c).active = e.active
           /\ canPassiveFail(e) => /\ Over(e, passiveFail(e), c)
                                   /\ ~isEstablishing(passiveFail(e).passive)
                                   /\ passiveFail(e).active = e.active
  <1>1. e.active \in Att /\ e.passive \in Att
    BY EstFields
  <1>2. canActiveSuccess(e) => activeSuccess(e, c) = [e EXCEPT !.active = success(e.active, c)]
    BY DEF canActiveSuccess, activeSuccess
  <1>3. canActiveFail(e) => activeFail(e) = [e EXCEPT !.active = fail(e.active)]
    BY DEF canActiveFail, activeFail
  <1>4. canPassiveSuccess(e) => passiveSuccess(e, c) = [e EXCEPT !.passive = success(e.passive, c)]
    BY DEF canPassiveSuccess, passiveSuccess
  <1>5. canPassiveFail(e) => passiveFail(e) = [e EXCEPT !.passive = fail(e.passive)]
    BY DEF canPassiveFail, passiveFail
  <1>6. canActiveSuccess(e) => /\ Over(e, activeSuccess(e, c), c)
                 /\ ~isEstablishing(activeSuccess(e, c).active)
                 /\ activeSuccess(e, c).passive = e.passive
    <2> DEFINE a == success(e.active, c)
    <2>1. a \in Att /\ a.conn \in {e.active.conn, c} /\ ~isEstablishing(a)
      BY <1>1, AttOver
    <2>2. canActiveSuccess(e) => activeSuccess(e, c) = [e EXCEPT !.active = a]
      BY <1>2
    <2> HIDE DEF a
    <2>3. /\ [e EXCEPT !.active = a] \in Est /\ [e EXCEPT !.active = a].active = a
          /\ [e EXCEPT !.active = a].passive = e.passive /\ [e EXCEPT !.active = a].state = e.state
      BY <2>1, EstSetActive
    <2> QED
      BY <2>1, <2>2, <2>3 DEF Over
  <1>7. canActiveFail(e) => /\ Over(e, activeFail(e), c)
                 /\ ~isEstablishing(activeFail(e).active)
                 /\ activeFail(e).passive = e.passive
    <2> DEFINE a == fail(e.active)
    <2>1. a \in Att /\ a.conn \in {e.active.conn, c} /\ ~isEstablishing(a)
      BY <1>1, AttOver
    <2>2. canActiveFail(e) => activeFail(e) = [e EXCEPT !.active = a]
      BY <1>3
    <2> HIDE DEF a
    <2>3. /\ [e EXCEPT !.active = a] \in Est /\ [e EXCEPT !.active = a].active = a
          /\ [e EXCEPT !.active = a].passive = e.passive /\ [e EXCEPT !.active = a].state = e.state
      BY <2>1, EstSetActive
    <2> QED
      BY <2>1, <2>2, <2>3 DEF Over
  <1>8. canPassiveSuccess(e) => /\ Over(e, passiveSuccess(e, c), c)
                 /\ ~isEstablishing(passiveSuccess(e, c).passive)
                 /\ passiveSuccess(e, c).active = e.active
    <2> DEFINE a == success(e.passive, c)
    <2>1. a \in Att /\ a.conn \in {e.passive.conn, c} /\ ~isEstablishing(a)
      BY <1>1, AttOver
    <2>2. canPassiveSuccess(e) => passiveSuccess(e, c) = [e EXCEPT !.passive = a]
      BY <1>4
    <2> HIDE DEF a
    <2>3. /\ [e EXCEPT !.passive = a] \in Est /\ [e EXCEPT !.passive = a].passive = a
          /\ [e EXCEPT !.passive = a].active = e.active /\ [e EXCEPT !.passive = a].state = e.state
      BY <2>1, EstSetPassive
    <2> QED
      BY <2>1, <2>2, <2>3 DEF Over
  <1>9. canPassiveFail(e) => /\ Over(e, passiveFail(e), c)
                 /\ ~isEstablishing(passiveFail(e).passive)
                 /\ passiveFail(e).active = e.active
    <2> DEFINE a == fail(e.passive)
    <2>1. a \in Att /\ a.conn \in {e.passive.conn, c} /\ ~isEstablishing(a)
      BY <1>1, AttOver
    <2>2. canPassiveFail(e) => passiveFail(e) = [e EXCEPT !.passive = a]
      BY <1>5
    <2> HIDE DEF a
    <2>3. /\ [e EXCEPT !.passive = a] \in Est /\ [e EXCEPT !.passive = a].passive = a
          /\ [e EXCEPT !.passive = a].active = e.active /\ [e EXCEPT !.passive = a].state = e.state
      BY <2>1, EstSetPassive
    <2> QED
      BY <2>1, <2>2, <2>3 DEF Over
  <1> QED
    BY <1>6, <1>7, <1>8, <1>9

LEMMA EndOp ==
    ASSUME NEW e \in Est, NEW s \in Threads \cup {None}
    PROVE  /\ end(e, s) \in Est
           /\ isEnd(end(e, s))
           /\ end(e, s).active = e.active
           /\ end(e, s).passive = e.passive
  <1> DEFINE f == changeState(e, establishmentEnd)
  <1>1. /\ f \in Est /\ f.active = e.active /\ f.passive = e.passive /\ f.state = 2
    BY EstChange, EstFields DEF establishmentEnd
  <1>2. end(e, s) = IF isEnd(e) THEN e ELSE [f EXCEPT !.session = s]
    BY DEF end
  <1> HIDE DEF f
  <1> QED
    BY <1>1, <1>2, EstSetSession DEF isEnd, establishmentEnd

(* The connection that is kept is one of the two. *)
LEMMA KeptOp ==
    ASSUME NEW e \in Est, NEW b \in BOOLEAN
    PROVE  /\ keptConn(e, b) \in {e.active.conn, e.passive.conn, None}
           /\ keptConn(e, b) \in Threads \cup {None}
  BY EstFields, AttFields DEF keptConn

-----------------------------------------------------------------------------
(* Steps by their effect.  First: thread t moves on, to a label where it   *)
(* holds no mutex, and changes nothing that is shared.                     *)
LEMMA Move ==
    ASSUME IInv, NEW t \in Threads, NEW l \in PCs \ Building,
           pc[t] \notin Building,
           pc' = [pc EXCEPT ![t] = l],
           got' \in [Threads -> Threads \cup {None}],
           \A u \in Threads \ {t} : got'[u] = got[u],
           conn' \in [Threads -> {"none", "open", "closed"}],
           UNCHANGED <<svcState, closePc, closeRef, found, sessions, establishments, es,
                       esMutex, ref, sess, closing>>,
           svcState = stateInit => l \in {"idle", "getEstablishment", "done"},
           l \in Early => pc[t] \in Early,
           pc[t] \in Early \cup {"done", "lastLook"} =>
               l \in Early \cup {"done", "lastLook"},
           t \in Callers /\ l \in ActiveRunning => pc[t] \in ActiveRunning,
           t \in Conns /\ l \in PassiveRunning => pc[t] \in PassiveRunning,
           t \in Callers => l \notin {"passiveConn", "passiveHandshake"},
           t \in Conns => l \notin ActiveRunning \ PassiveRunning,
           l \in PastRecheck /\ svcState # stateClosed /\ ~isEnd(es[ref[t]]) =>
               pc[t] \in PastRecheck \/ \A k \in Threads : ~Live(k)
    PROVE  IInv'
  <1> USE DEF IInv
  <1>1. TypeOK'
    BY DEF TypeOK
  <1>2. NotStarted'
    BY DEF TypeOK, NotStarted
  <1>3. RefInv'
    BY DEF TypeOK, RefInv
  <1>4. MutexInv'
    BY DEF TypeOK, MutexInv
  <1>5. OwnActive'
    BY DEF TypeOK, OwnActive, Threads
  <1>6. OwnPassive'
    BY DEF TypeOK, OwnPassive, Threads
  <1>7. Kinds'
    BY DEF TypeOK, Kinds, Threads
  <1>8. EndInv'
    BY DEF TypeOK, EndInv, EsHeld, Building
  <1>9. UnendedInMap'
    BY DEF TypeOK, UnendedInMap, Building
  <1>10. ConnInv'
    BY DEF TypeOK, ConnInv
  <1>11. KeptInv'
    BY DEF TypeOK, KeptInv, Building
  <1>12. FreshInv'
    BY DEF TypeOK, FreshInv, EsHeld, Building
  <1>13. ClosedInv'
    BY DEF TypeOK, ClosedInv
  <1>14. NoLive'
    BY DEF TypeOK, NoLive, Live
  <1>15. BuildsOnly'
    BY DEF TypeOK, BuildsOnly, Live, Building
  <1>16. LiveReachable'
    BY DEF TypeOK, LiveReachable, Live, Builds, Building
  <1> QED
    BY <1>1, <1>2, <1>3, <1>4, <1>5, <1>6, <1>7, <1>8, <1>9, <1>10, <1>11, <1>12,
       <1>13, <1>14, <1>15, <1>16

(* Second: thread t also makes the establishment it works on into f, under *)
(* the mutex that it takes and releases.                                   *)
LEMMA MoveEs ==
    ASSUME IInv, NEW t \in Threads, NEW l \in PCs \ (Building \cup Early),
           NEW f \in Est,
           pc[t] \notin Building \cup Early \cup {"done", "lastLook"},
           EsFree(t),
           pc' = [pc EXCEPT ![t] = l],
           es' = [es EXCEPT ![ref[t]] = f],
           conn' \in [Threads -> {"none", "open", "closed"}],
           found' = found \/ found' = found \cup {ref[t]},
           UNCHANGED <<svcState, closePc, closeRef, sessions, establishments, esMutex,
                       ref, got, sess, closing>>,
           isEnd(es[ref[t]]) => isEnd(f),
           f.active.conn \in {es[ref[t]].active.conn, t},
           f.passive.conn \in {es[ref[t]].passive.conn, t},
           \/ isEstablishing(es[ref[t]].active) => isEstablishing(f.active)
           \/ t \in Callers /\ pc[t] \in ActiveRunning,
           \/ es[ref[t]].passive.state = 2 => f.passive.state = 2
           \/ t \in Conns /\ pc[t] \in PassiveRunning,
           t \in Callers /\ l \in ActiveRunning =>
               /\ isEstablishing(f.active)
               /\ pc[t] \in ActiveRunning \/ ~isEstablishing(es[ref[t]].active),
           t \in Conns /\ l \in PassiveRunning =>
               /\ f.passive.state = 2
               /\ pc[t] \in PassiveRunning \/ es[ref[t]].passive.state # 2,
           t \in Callers => l # "passiveHandshake",
           t \in Conns => l \notin ActiveRunning \ PassiveRunning,
           l \in PastRecheck => pc[t] \in PastRecheck
    PROVE  IInv'
  <1> USE DEF IInv
  <1>a. ref[t] \in Threads /\ svcState # stateInit
    BY DEF RefInv, NotStarted, Early, TypeOK
  <1>b. \A u \in Threads : es'[u] = IF u = ref[t] THEN f ELSE es[u]
    BY <1>a DEF TypeOK
  <1>c. \A b \in Threads : pc[b] \in Building => ref[b] # ref[t]
    BY <1>a, ThreadsAssumption DEF MutexInv, EsFree, TypeOK
  <1>1. TypeOK'
    BY <1>a, <1>b DEF TypeOK, Est, EsFree
  <1>2. NotStarted'
    BY <1>a, <1>b DEF TypeOK, NotStarted
  <1>3. RefInv'
    BY <1>a, <1>b DEF TypeOK, RefInv
  <1>4. MutexInv'
    BY <1>a, <1>b DEF TypeOK, MutexInv
  <1>5. OwnActive'
    BY <1>a, <1>b DEF TypeOK, OwnActive, Threads, RefInv, Early, ActiveRunning
  <1>6. OwnPassive'
    BY <1>a, <1>b DEF TypeOK, OwnPassive, Threads, RefInv, Early, PassiveRunning,
       establishHandshake
  <1>7. Kinds'
    BY <1>a DEF TypeOK, Kinds, Threads, Early
  <1>8. EndInv'
    BY <1>a, <1>b, <1>c DEF TypeOK, EndInv, EsHeld, Building, RefInv, Early
  <1>9. UnendedInMap'
    BY <1>a, <1>b DEF TypeOK, UnendedInMap, Building
  <1>10. ConnInv'
    BY <1>a, <1>b, ThreadsAssumption DEF TypeOK, ConnInv
  <1>11. KeptInv'
    BY <1>a, <1>b DEF TypeOK, KeptInv, Building
  <1>12. FreshInv'
    BY <1>a, <1>b DEF TypeOK, FreshInv, EsHeld, Building
  <1>13. ClosedInv'
    BY <1>a, <1>b DEF TypeOK, ClosedInv
  <1>14. NoLive'
    BY <1>a, <1>b DEF TypeOK, NoLive, Live
  <1>15. BuildsOnly'
    BY <1>a, <1>b DEF TypeOK, BuildsOnly, Live, Building
  <1>16. LiveReachable'
    BY <1>a, <1>b DEF TypeOK, LiveReachable, Live, Builds, Building
  <1> QED
    BY <1>1, <1>2, <1>3, <1>4, <1>5, <1>6, <1>7, <1>8, <1>9, <1>10,
       <1>11, <1>12, <1>13, <1>14, <1>15, <1>16

(* Third: the attempt of t is the last one that is over, and t goes on in  *)
(* establishEnd, which keeps the connection kept.                          *)
LEMMA MoveEnd ==
    ASSUME IInv, NEW t \in Threads, NEW f \in Est, NEW kept \in Threads \cup {None},
           pc[t] \in {"success", "attemptFail"},
           EsFree(t),
           pc' = [pc EXCEPT ![t] = IF kept = None THEN "fail" ELSE "create"],
           es' = [es EXCEPT ![ref[t]] = f],
           esMutex' = [esMutex EXCEPT ![ref[t]] = t],
           got' = [got EXCEPT ![t] = kept],
           conn' \in [Threads -> {"none", "open", "closed"}],
           UNCHANGED <<svcState, closePc, closeRef, found, sessions, establishments,
                       ref, sess, closing>>,
           ~isEnd(es[ref[t]]), ~isEnd(f),
           f.active.conn \in {es[ref[t]].active.conn, t},
           f.passive.conn \in {es[ref[t]].passive.conn, t},
           kept \in {f.active.conn, f.passive.conn, None},
           ~isEstablishing(f.active), ~isEstablishing(f.passive),
           isEstablishing(es[ref[t]].active) => t \in Callers,
           es[ref[t]].passive.state = 2 => t \in Conns
    PROVE  IInv'
  <1> USE DEF IInv
  <1>a. ref[t] \in Threads /\ svcState # stateInit
    BY DEF RefInv, NotStarted, Early, TypeOK
  <1>b. \A u \in Threads : es'[u] = IF u = ref[t] THEN f ELSE es[u]
    BY <1>a DEF TypeOK
  <1>c. \A b \in Threads : pc[b] \in Building => ref[b] # ref[t]
    BY <1>a, ThreadsAssumption DEF MutexInv, EsFree, TypeOK
  <1>1. TypeOK'
    BY <1>a DEF TypeOK, Est, PCs, Building
  <1>2. NotStarted'
    BY <1>a, <1>b, <1>c DEF TypeOK, NotStarted
  <1>3. RefInv'
    BY <1>a DEF TypeOK, RefInv, Early
  <1>4. MutexInv'
    BY <1>a, <1>c, ThreadsAssumption DEF TypeOK, MutexInv, EsFree, Building
  <1>5. OwnActive'
    BY <1>a, <1>b, <1>c DEF TypeOK, OwnActive, Threads, RefInv, Early, ActiveRunning
  <1>6. OwnPassive'
    BY <1>a, <1>b, <1>c DEF TypeOK, OwnPassive, Threads, RefInv, Early, PassiveRunning,
       establishHandshake
  <1>7. Kinds'
    BY <1>a DEF TypeOK, Kinds, Threads, ActiveRunning, PassiveRunning
  <1>8. EndInv'
    BY <1>a, <1>b, <1>c DEF TypeOK, EndInv, EsHeld, Building, RefInv, Early
  <1>9. UnendedInMap'
    BY <1>a, <1>b, <1>c DEF TypeOK, UnendedInMap, Building
  <1>10. ConnInv'
    BY <1>a, <1>b, <1>c, ThreadsAssumption DEF TypeOK, ConnInv
  <1>11. KeptInv'
    BY <1>a, <1>b, <1>c DEF TypeOK, KeptInv, Building, ConnInv
  <1>12. FreshInv'
    BY <1>a, <1>b, <1>c DEF TypeOK, FreshInv, EsHeld, Building
  <1>13. ClosedInv'
    BY <1>a, <1>b, <1>c DEF TypeOK, ClosedInv
  <1>14. NoLive'
    BY <1>a, <1>b, <1>c DEF TypeOK, NoLive, Live, PastRecheck
  <1>15. BuildsOnly'
    BY <1>a, <1>b, <1>c DEF TypeOK, BuildsOnly, Live, Building
  <1>16. LiveReachable'
    BY <1>a, <1>b, <1>c DEF TypeOK, LiveReachable, Live, Builds, Building
  <1> QED
    BY <1>1, <1>2, <1>3, <1>4, <1>5, <1>6, <1>7, <1>8, <1>9, <1>10,
       <1>11, <1>12, <1>13, <1>14, <1>15, <1>16

-----------------------------------------------------------------------------
(* The steps of the thread that ends an establishment *)

(* While a thread makes its session, no other thread is on the way to one: *)
(* both establishments would be the map entry.                             *)
LEMMA OneBuilder ==
    ASSUME IInv, NEW t \in Threads, NEW u \in Threads,
           pc[t] \in {"create", "lockSession", "publish"},
           pc[u] \in ActiveRunning \cup PassiveRunning
                        \cup {"create", "lockSession", "publish"},
           ~isEnd(es[ref[u]])
    PROVE  u = t
  <1> USE DEF IInv
  <1>1. ref[t] \in Threads /\ ref[u] \in Threads
    BY DEF RefInv, Early, ActiveRunning, PassiveRunning
  <1>2. \A a, b \in Threads : pc[a] \in Building /\ pc[b] \in Building
                               /\ ref[b] = ref[a] /\ ref[a] \in Threads => b = a
    BY DEF MutexInv, TypeOK
  <1>3. \A b \in Threads : EsHeld(b) /\ ref[b] = ref[u] =>
            pc[u] \in {"create", "lockSession", "publish"}
    <2> SUFFICES ASSUME NEW b \in Threads, EsHeld(b), ref[b] = ref[u],
                        pc[u] \notin {"create", "lockSession", "publish"}
                 PROVE  FALSE
      OBVIOUS
    <2>1. ~isEstablishing(es[ref[u]].active) /\ ~isEstablishing(es[ref[u]].passive)
      BY DEF EndInv
    <2>2. CASE u \in Callers
      BY <2>1, <2>2 DEF OwnActive, PassiveRunning, ActiveRunning, Kinds
    <2>3. CASE u \in Conns
      BY <2>1, <2>3 DEF OwnPassive, Kinds, PassiveRunning, ActiveRunning, isEstablishing,
         isStarted, attemptIsEnd, establishHandshake, establishAboutSuccess
    <2> QED
      BY <2>2, <2>3 DEF Threads
  <1>4. ~isEnd(es[ref[t]]) /\ EsHeld(t)
    BY DEF EndInv, EsHeld, Building
  <1>5. establishments = ref[t]
    BY <1>1, <1>2, <1>4 DEF UnendedInMap, Building
  <1>6. CASE establishments = ref[u]
    BY <1>1, <1>2, <1>3, <1>4, <1>5, <1>6 DEF Building
  <1>7. CASE \E b \in Threads : pc[b] = "finish" /\ ref[b] = ref[u]
    BY <1>1, <1>2, <1>3, <1>7 DEF Building, EsHeld
  <1> QED
    BY <1>1, <1>6, <1>7 DEF UnendedInMap

(* session.start: no session is alive, and this one has never been. *)
LEMMA CreateSessionStep ==
    ASSUME IInv, NEW t \in Threads, CreateSession(t)
    PROVE  IInv'
  <1> USE DEF IInv, TypeOK, CreateSession, Goto, CloseSession, service, maps, stateInit,
     stateStarted, stateClosed
  <1>a. pc[t] \in Building /\ ref[t] \in Threads /\ svcState # stateInit
    BY DEF RefInv, NotStarted, Early, Building
  <1>b. \A b \in Threads : pc[b] \in Building /\ ref[b] = ref[t] => b = t
    BY <1>a DEF MutexInv
  <1>c. got[t] \in Threads /\ ref[got[t]] = ref[t] /\ ~isEnd(es[ref[t]])
    BY DEF KeptInv, EndInv, EsHeld, Building
  <1>d. sess[got[t]] = stateInit
    BY <1>a, <1>b, <1>c DEF FreshInv, EsHeld
  <1>e. svcState # stateClosed => \A k \in Threads : ~Live(k)
    BY <1>a, <1>c DEF NoLive, PastRecheck
  <1>f. \A u \in Threads : pc[u] \in PastRecheck \cup {"lockSession", "publish"}
                             /\ ~isEnd(es[ref[u]]) => u = t
    BY OneBuilder DEF PastRecheck, ActiveRunning, PassiveRunning
  <1>g. \A u \in Threads : pc[u] \in {"lockSession", "publish"} => ~isEnd(es[ref[u]])
    BY DEF EndInv, EsHeld, Building
  <1>1. TypeOK'
    BY <1>a, <1>b, <1>c, <1>d, <1>e DEF PCs, Building
  <1>2. NotStarted'
    BY DEF NotStarted
  <1>3. RefInv'
    BY DEF RefInv, Early
  <1>4. MutexInv'
    BY DEF MutexInv, Building
  <1>5. OwnActive'
    BY DEF OwnActive, Threads, ActiveRunning
  <1>6. OwnPassive'
    BY DEF OwnPassive, Threads, PassiveRunning
  <1>7. Kinds'
    BY DEF Kinds, Threads, ActiveRunning, PassiveRunning
  <1>8. EndInv'
    BY DEF EndInv, EsHeld, Building
  <1>9. UnendedInMap'
    BY DEF UnendedInMap, Building
  <1>10. ConnInv'
    BY DEF ConnInv
  <1>11. KeptInv'
    BY <1>a, <1>b, <1>c, <1>d, <1>e DEF KeptInv
  <1>12. FreshInv'
    BY <1>a, <1>b, <1>c, <1>d, <1>e DEF FreshInv, EsHeld, Building
  <1>13. ClosedInv'
    BY <1>a, <1>b, <1>c, <1>d, <1>e DEF ClosedInv
  <1>14. NoLive'
    BY <1>a, <1>c, <1>e, <1>f DEF NoLive, Live, PastRecheck
  <1>15. BuildsOnly'
    BY <1>a, <1>c, <1>e, <1>f, <1>g DEF BuildsOnly, Live
  <1>16. LiveReachable'
    BY <1>a, <1>b, <1>c, <1>d, <1>e DEF LiveReachable, Live, Builds
  <1> QED
    BY <1>1, <1>2, <1>3, <1>4, <1>5, <1>6, <1>7, <1>8, <1>9, <1>10,
       <1>11, <1>12, <1>13, <1>14, <1>15, <1>16

(* session.lockState. *)
LEMMA LockSessionStep ==
    ASSUME IInv, NEW t \in Threads, LockSession(t)
    PROVE  IInv'
  <1> USE DEF IInv, TypeOK, LockSession, Goto, service, maps, links
  <1>a. pc[t] \in Building /\ ref[t] \in Threads /\ svcState # stateInit
    BY DEF RefInv, NotStarted, Early, Building
  <1>b. \A b \in Threads : pc[b] \in Building /\ ref[b] = ref[t] => b = t
    BY <1>a DEF MutexInv
  <1>1. TypeOK'
    BY DEF PCs, Building
  <1>2. NotStarted'
    BY DEF NotStarted
  <1>3. RefInv'
    BY DEF RefInv, Early
  <1>4. MutexInv'
    BY DEF MutexInv, Building
  <1>5. OwnActive'
    BY DEF OwnActive, Threads, ActiveRunning
  <1>6. OwnPassive'
    BY DEF OwnPassive, Threads, PassiveRunning
  <1>7. Kinds'
    BY DEF Kinds, Threads, ActiveRunning, PassiveRunning
  <1>8. EndInv'
    BY DEF EndInv, EsHeld, Building
  <1>9. UnendedInMap'
    BY DEF UnendedInMap, Building
  <1>10. ConnInv'
    BY DEF ConnInv
  <1>11. KeptInv'
    BY DEF KeptInv
  <1>12. FreshInv'
    BY DEF FreshInv, EsHeld, Building
  <1>13. ClosedInv'
    BY DEF ClosedInv
  <1>14. NoLive'
    BY DEF NoLive, Live, PastRecheck
  <1>15. BuildsOnly'
    BY DEF BuildsOnly, Live
  <1>16. LiveReachable'
    BY DEF LiveReachable, Live, Builds
  <1> QED
    BY <1>1, <1>2, <1>3, <1>4, <1>5, <1>6, <1>7, <1>8, <1>9, <1>10,
       <1>11, <1>12, <1>13, <1>14, <1>15, <1>16

(* The maps change, or the session is closed again. *)
LEMMA PublishStep ==
    ASSUME IInv, NEW t \in Threads, Publish(t)
    PROVE  IInv'
  <1> USE DEF IInv, TypeOK, Publish, Goto, CloseSession, service, links, maps, stateInit,
     stateStarted, stateClosed
  <1>a. pc[t] \in Building /\ ref[t] \in Threads /\ svcState # stateInit
    BY DEF RefInv, NotStarted, Early, Building
  <1>b. \A b \in Threads : pc[b] \in Building /\ ref[b] = ref[t] => b = t
    BY <1>a DEF MutexInv
  <1>c. got[t] \in Threads /\ ref[got[t]] = ref[t] /\ ~isEnd(es[ref[t]])
    BY DEF KeptInv, EndInv, EsHeld, Building
  <1>d. svcState # stateClosed => \A k \in Threads : Live(k) => k = got[t]
    BY <1>a DEF BuildsOnly
  <1>e. \A u \in Threads : ref[u] \in Threads /\ ~isEnd(es[ref[u]]) =>
            \/ establishments = ref[u]
            \/ \E b \in Threads : pc[b] = "finish" /\ ref[b] = ref[u]
    BY DEF UnendedInMap
  <1>f. establishments = ref[t]
    BY <1>a, <1>b, <1>c, <1>e DEF Building
  <1>1. TypeOK'
    BY <1>a, <1>b, <1>c, <1>d, <1>e, <1>f DEF PCs, Building
  <1>2. NotStarted'
    BY DEF NotStarted
  <1>3. RefInv'
    BY DEF RefInv, Early
  <1>4. MutexInv'
    BY DEF MutexInv, Building
  <1>5. OwnActive'
    BY DEF OwnActive, Threads, ActiveRunning
  <1>6. OwnPassive'
    BY DEF OwnPassive, Threads, PassiveRunning
  <1>7. Kinds'
    BY DEF Kinds, Threads, ActiveRunning, PassiveRunning
  <1>8. EndInv'
    BY DEF EndInv, EsHeld, Building
  <1>9. UnendedInMap'
    BY DEF UnendedInMap, Building
  <1>10. ConnInv'
    BY DEF ConnInv
  <1>11. KeptInv'
    BY DEF KeptInv
  <1>12. FreshInv'
    BY <1>a, <1>b, <1>c, <1>d, <1>e, <1>f DEF FreshInv, EsHeld, Building
  <1>13. ClosedInv'
    BY DEF ClosedInv, KeptInv
  <1>14. NoLive'
    BY DEF NoLive, Live, PastRecheck
  <1>15. BuildsOnly'
    BY DEF BuildsOnly, Live
  <1>16. LiveReachable'
    BY <1>a, <1>b, <1>c, <1>d, <1>e, <1>f DEF LiveReachable, Live, Builds
  <1> QED
    BY <1>1, <1>2, <1>3, <1>4, <1>5, <1>6, <1>7, <1>8, <1>9, <1>10,
       <1>11, <1>12, <1>13, <1>14, <1>15, <1>16

(* es.end with the session that was published. *)
LEMMA FinishStep ==
    ASSUME IInv, NEW t \in Threads, Finish(t)
    PROVE  IInv'
  <1> USE DEF IInv, TypeOK, Finish, Goto, Release, service, maps, links
  <1>a. pc[t] \in Building /\ ref[t] \in Threads /\ svcState # stateInit
    BY DEF RefInv, NotStarted, Early, Building
  <1>b. \A b \in Threads : pc[b] \in Building /\ ref[b] = ref[t] => b = t
    BY <1>a DEF MutexInv
  <1>c. es[ref[t]] \in Est /\ got[t] \in Threads \cup {None}
    BY <1>a DEF Est
  <1> DEFINE f == end(es[ref[t]], got[t])
  <1>d. f \in Est /\ isEnd(f) /\ f.active = es[ref[t]].active /\ f.passive = es[ref[t]].passive
    BY <1>c, EndOp
  <1>e. es' = [es EXCEPT ![ref[t]] = f]
    BY DEF SetEs
  <1> HIDE DEF f
  <1>f. es' \in [Threads -> Est]
    BY <1>a, <1>d, <1>e DEF Est
  <1>g. isEnd(es'[ref[t]])
    BY <1>a, <1>d, <1>e
  <1>h. \A u \in Threads : /\ u # ref[t] => es'[u] = es[u]
                          /\ es'[u].active = es[u].active
                          /\ es'[u].passive = es[u].passive
    BY <1>a, <1>d, <1>e
  <1>1. TypeOK'
    BY <1>a, <1>f DEF PCs, Building, Est
  <1>2. NotStarted'
    BY DEF NotStarted
  <1>3. RefInv'
    BY DEF RefInv, Early
  <1>4. MutexInv'
    BY ThreadsAssumption DEF MutexInv, Building
  <1>5. OwnActive'
    BY <1>a, <1>b, <1>g, <1>h DEF OwnActive, RefInv, Early, Threads, ActiveRunning
  <1>6. OwnPassive'
    BY <1>a, <1>b, <1>g, <1>h DEF OwnPassive, RefInv, Early, Threads, PassiveRunning
  <1>7. Kinds'
    BY DEF Kinds, Threads, ActiveRunning, PassiveRunning
  <1>8. EndInv'
    BY <1>a, <1>b, <1>g, <1>h DEF EndInv, EsHeld, RefInv, Early, Building
  <1>9. UnendedInMap'
    BY <1>a, <1>b, <1>g, <1>h DEF UnendedInMap, Building
  <1>10. ConnInv'
    BY <1>a, <1>b, <1>g, <1>h DEF ConnInv
  <1>11. KeptInv'
    BY DEF KeptInv
  <1>12. FreshInv'
    BY <1>a, <1>b, <1>g, <1>h DEF FreshInv, EsHeld, Building
  <1>13. ClosedInv'
    BY DEF ClosedInv
  <1>14. NoLive'
    BY <1>a, <1>b, <1>g, <1>h DEF NoLive, RefInv, Early, Live, PastRecheck
  <1>15. BuildsOnly'
    BY DEF BuildsOnly, Live
  <1>16. LiveReachable'
    BY DEF LiveReachable, Live, Builds
  <1> QED
    BY <1>1, <1>2, <1>3, <1>4, <1>5, <1>6, <1>7, <1>8, <1>9, <1>10,
       <1>11, <1>12, <1>13, <1>14, <1>15, <1>16

(* es.end with an error. *)
LEMMA EstablishEndFailedStep ==
    ASSUME IInv, NEW t \in Threads, EstablishEndFailed(t)
    PROVE  IInv'
  <1> USE DEF IInv, TypeOK, EstablishEndFailed, Goto, service, maps, links
  <1>a. pc[t] \in Building /\ ref[t] \in Threads /\ svcState # stateInit
    BY DEF RefInv, NotStarted, Early, Building
  <1>b. \A b \in Threads : pc[b] \in Building /\ ref[b] = ref[t] => b = t
    BY <1>a DEF MutexInv
  <1>c. es[ref[t]] \in Est /\ None \in Threads \cup {None}
    BY <1>a DEF Est
  <1> DEFINE f == end(es[ref[t]], None)
  <1>d. f \in Est /\ isEnd(f) /\ f.active = es[ref[t]].active /\ f.passive = es[ref[t]].passive
    BY <1>c, EndOp
  <1>e. es' = [es EXCEPT ![ref[t]] = f]
    BY DEF SetEs
  <1> HIDE DEF f
  <1>f. es' \in [Threads -> Est]
    BY <1>a, <1>d, <1>e DEF Est
  <1>g. isEnd(es'[ref[t]])
    BY <1>a, <1>d, <1>e
  <1>h. \A u \in Threads : /\ u # ref[t] => es'[u] = es[u]
                          /\ es'[u].active = es[u].active
                          /\ es'[u].passive = es[u].passive
    BY <1>a, <1>d, <1>e
  <1>1. TypeOK'
    BY <1>a, <1>f DEF PCs, Building, Est
  <1>2. NotStarted'
    BY DEF NotStarted
  <1>3. RefInv'
    BY DEF RefInv, Early
  <1>4. MutexInv'
    BY ThreadsAssumption DEF MutexInv, Building
  <1>5. OwnActive'
    BY <1>a, <1>b, <1>g, <1>h DEF OwnActive, RefInv, Early, Threads, ActiveRunning
  <1>6. OwnPassive'
    BY <1>a, <1>b, <1>g, <1>h DEF OwnPassive, RefInv, Early, Threads, PassiveRunning
  <1>7. Kinds'
    BY DEF Kinds, Threads, ActiveRunning, PassiveRunning
  <1>8. EndInv'
    BY <1>a, <1>b, <1>g, <1>h DEF EndInv, EsHeld, RefInv, Early, Building
  <1>9. UnendedInMap'
    BY <1>a, <1>b, <1>g, <1>h DEF UnendedInMap, Building
  <1>10. ConnInv'
    BY <1>a, <1>b, <1>g, <1>h DEF ConnInv
  <1>11. KeptInv'
    BY DEF KeptInv
  <1>12. FreshInv'
    BY <1>a, <1>b, <1>g, <1>h DEF FreshInv, EsHeld, Building
  <1>13. ClosedInv'
    BY DEF ClosedInv
  <1>14. NoLive'
    BY <1>a, <1>b, <1>g, <1>h DEF NoLive, RefInv, Early, Live, PastRecheck
  <1>15. BuildsOnly'
    BY DEF BuildsOnly, Live
  <1>16. LiveReachable'
    BY DEF LiveReachable, Live, Builds
  <1> QED
    BY <1>1, <1>2, <1>3, <1>4, <1>5, <1>6, <1>7, <1>8, <1>9, <1>10,
       <1>11, <1>12, <1>13, <1>14, <1>15, <1>16

(* CompareAndDelete of the establishment that has failed. *)
LEMMA RemoveEstablishmentStep ==
    ASSUME IInv, NEW t \in Threads, RemoveEstablishment(t)
    PROVE  IInv'
  <1> USE DEF IInv, TypeOK, RemoveEstablishment, Goto, Release, service, links
  <1>a. pc[t] \in Building /\ ref[t] \in Threads /\ svcState # stateInit
    BY DEF RefInv, NotStarted, Early, Building
  <1>b. \A b \in Threads : pc[b] \in Building /\ ref[b] = ref[t] => b = t
    BY <1>a DEF MutexInv
  <1>c. isEnd(es[ref[t]])
    BY DEF EndInv
  <1>1. TypeOK'
    BY DEF PCs, Building
  <1>2. NotStarted'
    BY DEF NotStarted
  <1>3. RefInv'
    BY DEF RefInv, Early
  <1>4. MutexInv'
    BY ThreadsAssumption DEF MutexInv, Building
  <1>5. OwnActive'
    BY DEF OwnActive, Threads, ActiveRunning
  <1>6. OwnPassive'
    BY DEF OwnPassive, Threads, PassiveRunning
  <1>7. Kinds'
    BY DEF Kinds, Threads, ActiveRunning, PassiveRunning
  <1>8. EndInv'
    BY DEF EndInv, EsHeld, Building
  <1>9. UnendedInMap'
    BY <1>a, <1>b, <1>c DEF UnendedInMap, Building
  <1>10. ConnInv'
    BY DEF ConnInv
  <1>11. KeptInv'
    BY DEF KeptInv
  <1>12. FreshInv'
    BY DEF FreshInv, EsHeld, Building
  <1>13. ClosedInv'
    BY DEF ClosedInv
  <1>14. NoLive'
    BY DEF NoLive, Live, PastRecheck
  <1>15. BuildsOnly'
    BY DEF BuildsOnly, Live
  <1>16. LiveReachable'
    BY DEF LiveReachable, Live, Builds
  <1> QED
    BY <1>1, <1>2, <1>3, <1>4, <1>5, <1>6, <1>7, <1>8, <1>9, <1>10,
       <1>11, <1>12, <1>13, <1>14, <1>15, <1>16

(* A thread finds the establishment of the map, or stores its own. *)
LEMMA GetEstablishmentStep ==
    ASSUME IInv, NEW t \in Threads,
           pc[t] \in {"getEstablishment", "passiveConn"},
           svcState = stateStarted,
           getOrCreateEstablishment(t, "start"),
           UNCHANGED <<svcState, closePc, closeRef, found, sessions, es, esMutex, got,
                       conn, sess, closing>>
    PROVE  IInv'
  <1> USE DEF IInv, TypeOK, Goto, stateInit, stateStarted
  <1>a. ref[t] = None /\ None \notin Threads
    BY ThreadsAssumption DEF RefInv, Early
  <1>b. ref' = [ref EXCEPT ![t] = IF establishments = None THEN t ELSE establishments]
        /\ establishments' = (IF establishments = None THEN t ELSE establishments)
        /\ pc' = [pc EXCEPT ![t] = "start"]
    BY DEF getOrCreateEstablishment
  <1>1. TypeOK'
    BY <1>a, <1>b DEF PCs, Building
  <1>2. NotStarted'
    BY DEF NotStarted
  <1>3. RefInv'
    BY <1>a, <1>b DEF RefInv, Early
  <1>4. MutexInv'
    BY <1>a, <1>b DEF MutexInv, Building
  <1>5. OwnActive'
    BY <1>a, <1>b DEF OwnActive, Threads, ActiveRunning
  <1>6. OwnPassive'
    BY <1>a, <1>b DEF OwnPassive, Threads, PassiveRunning
  <1>7. Kinds'
    BY <1>a, <1>b DEF Kinds, Threads, ActiveRunning, PassiveRunning
  <1>8. EndInv'
    BY <1>a, <1>b DEF EndInv, EsHeld, Building
  <1>9. UnendedInMap'
    BY <1>a, <1>b DEF UnendedInMap, Early
  <1>10. ConnInv'
    BY <1>a, <1>b DEF ConnInv
  <1>11. KeptInv'
    BY <1>a, <1>b DEF KeptInv, RefInv, Early
  <1>12. FreshInv'
    BY <1>a, <1>b DEF FreshInv, EsHeld, Building
  <1>13. ClosedInv'
    BY DEF ClosedInv
  <1>14. NoLive'
    BY <1>a, <1>b DEF NoLive, Live, PastRecheck
  <1>15. BuildsOnly'
    BY <1>a, <1>b DEF BuildsOnly, Live
  <1>16. LiveReachable'
    BY <1>a, <1>b DEF LiveReachable, Live, Builds
  <1> QED
    BY <1>1, <1>2, <1>3, <1>4, <1>5, <1>6, <1>7, <1>8, <1>9, <1>10,
       <1>11, <1>12, <1>13, <1>14, <1>15, <1>16

-----------------------------------------------------------------------------
(* Service.Start, Service.Close, and the death of sessions *)

(* Only the state of the service changes. *)
LEMMA StartStep ==
    ASSUME IInv, Start
    PROVE  IInv'
  <1> USE DEF IInv, TypeOK, Start, maps, links, stateInit, stateStarted, stateClosed
  <1>1. TypeOK'
    BY DEF PCs, Building
  <1>2. NotStarted'
    BY DEF NotStarted
  <1>3. RefInv'
    BY DEF RefInv, Early
  <1>4. MutexInv'
    BY DEF MutexInv, Building
  <1>5. OwnActive'
    BY DEF OwnActive, Threads, ActiveRunning
  <1>6. OwnPassive'
    BY DEF OwnPassive, Threads, PassiveRunning
  <1>7. Kinds'
    BY DEF Kinds, Threads, ActiveRunning, PassiveRunning
  <1>8. EndInv'
    BY DEF EndInv, EsHeld, Building
  <1>9. UnendedInMap'
    BY DEF UnendedInMap, Building
  <1>10. ConnInv'
    BY DEF ConnInv
  <1>11. KeptInv'
    BY DEF KeptInv
  <1>12. FreshInv'
    BY DEF FreshInv, EsHeld, Building, ClosedInv
  <1>13. ClosedInv'
    BY DEF ClosedInv
  <1>14. NoLive'
    BY DEF NoLive, Live, PastRecheck
  <1>15. BuildsOnly'
    BY DEF BuildsOnly, Live
  <1>16. LiveReachable'
    BY DEF LiveReachable, Live, Builds, ClosedInv
  <1> QED
    BY <1>1, <1>2, <1>3, <1>4, <1>5, <1>6, <1>7, <1>8, <1>9, <1>10,
       <1>11, <1>12, <1>13, <1>14, <1>15, <1>16

(* Only the state of the service changes. *)
LEMMA CloseStep ==
    ASSUME IInv, Close
    PROVE  IInv'
  <1> USE DEF IInv, TypeOK, Close, maps, links, stateInit, stateStarted, stateClosed
  <1>1. TypeOK'
    BY DEF PCs, Building
  <1>2. NotStarted'
    BY DEF NotStarted
  <1>3. RefInv'
    BY DEF RefInv, Early
  <1>4. MutexInv'
    BY DEF MutexInv, Building
  <1>5. OwnActive'
    BY DEF OwnActive, Threads, ActiveRunning
  <1>6. OwnPassive'
    BY DEF OwnPassive, Threads, PassiveRunning
  <1>7. Kinds'
    BY DEF Kinds, Threads, ActiveRunning, PassiveRunning
  <1>8. EndInv'
    BY DEF EndInv, EsHeld, Building
  <1>9. UnendedInMap'
    BY DEF UnendedInMap, Building
  <1>10. ConnInv'
    BY DEF ConnInv
  <1>11. KeptInv'
    BY DEF KeptInv
  <1>12. FreshInv'
    BY DEF FreshInv, EsHeld, Building, ClosedInv
  <1>13. ClosedInv'
    BY DEF ClosedInv
  <1>14. NoLive'
    BY DEF NoLive, Live, PastRecheck
  <1>15. BuildsOnly'
    BY DEF BuildsOnly, Live
  <1>16. LiveReachable'
    BY DEF LiveReachable, Live, Builds, ClosedInv
  <1> QED
    BY <1>1, <1>2, <1>3, <1>4, <1>5, <1>6, <1>7, <1>8, <1>9, <1>10,
       <1>11, <1>12, <1>13, <1>14, <1>15, <1>16

(* The session of the map is closed ... *)
LEMMA CloseRangeStep ==
    ASSUME IInv, CloseRange
    PROVE  IInv'
  <1> USE DEF IInv, TypeOK, CloseRange, CloseSession, maps, links, stateInit,
     stateStarted, stateClosed
  <1>1. TypeOK'
    BY DEF PCs, Building
  <1>2. NotStarted'
    BY DEF NotStarted
  <1>3. RefInv'
    BY DEF RefInv, Early
  <1>4. MutexInv'
    BY DEF MutexInv, Building
  <1>5. OwnActive'
    BY DEF OwnActive, Threads, ActiveRunning
  <1>6. OwnPassive'
    BY DEF OwnPassive, Threads, PassiveRunning
  <1>7. Kinds'
    BY DEF Kinds, Threads, ActiveRunning, PassiveRunning
  <1>8. EndInv'
    BY DEF EndInv, EsHeld, Building
  <1>9. UnendedInMap'
    BY DEF UnendedInMap, Building
  <1>10. ConnInv'
    BY DEF ConnInv
  <1>11. KeptInv'
    BY DEF KeptInv
  <1>12. FreshInv'
    BY DEF FreshInv, EsHeld, Building, ClosedInv
  <1>13. ClosedInv'
    BY DEF ClosedInv
  <1>14. NoLive'
    BY DEF NoLive, Live, PastRecheck
  <1>15. BuildsOnly'
    BY DEF BuildsOnly, Live
  <1>16. LiveReachable'
    BY DEF LiveReachable, Live, Builds, ClosedInv
  <1> QED
    BY <1>1, <1>2, <1>3, <1>4, <1>5, <1>6, <1>7, <1>8, <1>9, <1>10,
       <1>11, <1>12, <1>13, <1>14, <1>15, <1>16

(* ... and deleted; it is not alive. *)
LEMMA CloseDeleteStep ==
    ASSUME IInv, CloseDelete
    PROVE  IInv'
  <1> USE DEF IInv, TypeOK, CloseDelete, links, stateStarted, stateClosed
  <1>1. TypeOK'
    BY DEF PCs, Building
  <1>2. NotStarted'
    BY DEF NotStarted
  <1>3. RefInv'
    BY DEF RefInv, Early
  <1>4. MutexInv'
    BY DEF MutexInv, Building
  <1>5. OwnActive'
    BY DEF OwnActive, Threads, ActiveRunning
  <1>6. OwnPassive'
    BY DEF OwnPassive, Threads, PassiveRunning
  <1>7. Kinds'
    BY DEF Kinds, Threads, ActiveRunning, PassiveRunning
  <1>8. EndInv'
    BY DEF EndInv, EsHeld, Building
  <1>9. UnendedInMap'
    BY DEF UnendedInMap, Building
  <1>10. ConnInv'
    BY DEF ConnInv
  <1>11. KeptInv'
    BY DEF KeptInv
  <1>12. FreshInv'
    BY DEF FreshInv, EsHeld, Building, ClosedInv
  <1>13. ClosedInv'
    BY DEF ClosedInv
  <1>14. NoLive'
    BY DEF NoLive, Live, PastRecheck
  <1>15. BuildsOnly'
    BY DEF BuildsOnly, Live
  <1>16. LiveReachable'
    BY DEF LiveReachable, Live, Builds, ClosedInv
  <1> QED
    BY <1>1, <1>2, <1>3, <1>4, <1>5, <1>6, <1>7, <1>8, <1>9, <1>10,
       <1>11, <1>12, <1>13, <1>14, <1>15, <1>16

(* A session dies. *)
LEMMA SessionOnClosedStep ==
    ASSUME IInv, NEW k \in Threads, SessionOnClosed(k)
    PROVE  IInv'
  <1> USE DEF IInv, TypeOK, SessionOnClosed, Live, CloseSession, links, service, maps,
     stateInit, stateStarted, stateClosed
  <1>1. TypeOK'
    BY DEF PCs, Building
  <1>2. NotStarted'
    BY DEF NotStarted
  <1>3. RefInv'
    BY DEF RefInv, Early
  <1>4. MutexInv'
    BY DEF MutexInv, Building
  <1>5. OwnActive'
    BY DEF OwnActive, Threads, ActiveRunning
  <1>6. OwnPassive'
    BY DEF OwnPassive, Threads, PassiveRunning
  <1>7. Kinds'
    BY DEF Kinds, Threads, ActiveRunning, PassiveRunning
  <1>8. EndInv'
    BY DEF EndInv, EsHeld, Building
  <1>9. UnendedInMap'
    BY DEF UnendedInMap, Building
  <1>10. ConnInv'
    BY DEF ConnInv
  <1>11. KeptInv'
    BY DEF KeptInv
  <1>12. FreshInv'
    BY DEF FreshInv, EsHeld, Building, Live
  <1>13. ClosedInv'
    BY DEF ClosedInv
  <1>14. NoLive'
    BY DEF NoLive, Live, PastRecheck
  <1>15. BuildsOnly'
    BY DEF BuildsOnly, Live
  <1>16. LiveReachable'
    BY DEF LiveReachable, Live, Builds
  <1> QED
    BY <1>1, <1>2, <1>3, <1>4, <1>5, <1>6, <1>7, <1>8, <1>9, <1>10,
       <1>11, <1>12, <1>13, <1>14, <1>15, <1>16

(* A dead session leaves the map. *)
LEMMA onSessionClosedStep ==
    ASSUME IInv, NEW k \in Threads, onSessionClosed(k)
    PROVE  IInv'
  <1> USE DEF IInv, TypeOK, onSessionClosed, service, stateStarted, stateClosed
  <1>1. TypeOK'
    BY DEF PCs, Building
  <1>2. NotStarted'
    BY DEF NotStarted
  <1>3. RefInv'
    BY DEF RefInv, Early
  <1>4. MutexInv'
    BY DEF MutexInv, Building
  <1>5. OwnActive'
    BY DEF OwnActive, Threads, ActiveRunning
  <1>6. OwnPassive'
    BY DEF OwnPassive, Threads, PassiveRunning
  <1>7. Kinds'
    BY DEF Kinds, Threads, ActiveRunning, PassiveRunning
  <1>8. EndInv'
    BY DEF EndInv, EsHeld, Building
  <1>9. UnendedInMap'
    BY DEF UnendedInMap, Building
  <1>10. ConnInv'
    BY DEF ConnInv
  <1>11. KeptInv'
    BY DEF KeptInv
  <1>12. FreshInv'
    BY DEF FreshInv, EsHeld, Building
  <1>13. ClosedInv'
    BY DEF ClosedInv
  <1>14. NoLive'
    BY DEF NoLive, Live, PastRecheck
  <1>15. BuildsOnly'
    BY DEF BuildsOnly, Live
  <1>16. LiveReachable'
    BY DEF LiveReachable, Live, Builds, ClosedInv
  <1> QED
    BY <1>1, <1>2, <1>3, <1>4, <1>5, <1>6, <1>7, <1>8, <1>9, <1>10,
       <1>11, <1>12, <1>13, <1>14, <1>15, <1>16

-----------------------------------------------------------------------------
(* The steps of Connect calls and passive connections *)

(* A thread that finds no session at its second look is alone: a session   *)
(* that is not in the map yet would be made of the same establishment.     *)
LEMMA RecheckAlone ==
    ASSUME IInv, NEW t \in Threads, pc[t] = "recheck", ~isEnd(es[ref[t]]),
           svcState # stateClosed, GetSession = None
    PROVE  \A k \in Threads : ~Live(k)
  <1> SUFFICES ASSUME NEW k \in Threads, Live(k) PROVE FALSE
    OBVIOUS
  <1>1. svcState = stateStarted
    BY DEF IInv, NotStarted, TypeOK, stateInit, stateStarted, stateClosed
  <1>2. sessions # k
    BY <1>1, ThreadsAssumption DEF GetSession, getSession
  <1>3. PICK b \in Threads : Builds(b, k)
    BY <1>2 DEF IInv, LiveReachable
  <1>4. t = b
    BY <1>3, OneBuilder DEF Builds, ActiveRunning
  <1> QED
    BY <1>3, <1>4 DEF Builds

LEMMA RecheckStep ==
    ASSUME IInv, NEW t \in Threads, Recheck(t)
    PROVE  IInv'
  <1> DEFINE l == IF GetSession # None THEN "endExisting"
                  ELSE IF t \in Callers THEN "dial" ELSE "passiveHandshake"
  <1>1. /\ pc[t] = "recheck"
        /\ pc' = [pc EXCEPT ![t] = l]
        /\ got' = [got EXCEPT ![t] = GetSession]
        /\ UNCHANGED <<svcState, closePc, closeRef, found, sessions, establishments, es,
                       esMutex, ref, conn, sess, closing>>
    BY DEF Recheck, Goto, service, maps, links
  <1>2. GetSession \in Threads \cup {None}
    BY DEF IInv, TypeOK, GetSession, getSession
  <1>3. got' \in [Threads -> Threads \cup {None}] /\ conn' \in [Threads -> {"none", "open", "closed"}]
        /\ \A u \in Threads \ {t} : got'[u] = got[u]
    BY <1>1, <1>2 DEF IInv, TypeOK
  <1>4. svcState # stateInit
    BY <1>1 DEF IInv, NotStarted
  <1>5. l \in PastRecheck /\ svcState # stateClosed /\ ~isEnd(es[ref[t]]) =>
            \A k \in Threads : ~Live(k)
    BY <1>1, RecheckAlone DEF PastRecheck
  <1>6. l \in {"endExisting", "dial", "passiveHandshake"}
        /\ (t \in Callers => l # "passiveHandshake") /\ (t \in Conns => l # "dial")
    BY ThreadsAssumption
  <1> HIDE DEF l
  <1>7. l \in PCs \ Building /\ l \notin Early /\ l \notin {"done", "lastLook", "passiveConn"}
    BY <1>6 DEF PCs, Building, Early
  <1> QED
    BY <1>1, <1>3, <1>4, <1>5, <1>6, <1>7, Move
    DEF Building, Early, ActiveRunning, PassiveRunning

(* The steps that only move on. *)
LEMMA MoveSteps ==
    ASSUME IInv, NEW t \in Threads,
           \/ t \in Callers /\ \/ Connect(t) \/ ActiveEstablishConnect(t)
                               \/ ActiveEstablishHandshake(t) \/ ActiveComplete(t)
                               \/ LastLook(t)
           \/ t \in Conns /\ \/ Accept(t) \/ OnPassiveConnRefuse(t)
                             \/ PassiveEstablishHandshake(t)
           \/ Wait(t)
    PROVE  IInv'
  <1>0. t \in Callers => t \notin Conns
    BY ThreadsAssumption
  <1>1. GetSession \in Threads \cup {None}
    BY DEF IInv, TypeOK, GetSession, getSession
  <1>a. \A k \in {"open", "closed"} :
            [conn EXCEPT ![t] = k] \in [Threads -> {"none", "open", "closed"}]
    BY DEF IInv, TypeOK
  <1>b. \A g \in Threads \cup {None} :
            /\ [got EXCEPT ![t] = g] \in [Threads -> Threads \cup {None}]
            /\ \A u \in Threads \ {t} : [got EXCEPT ![t] = g][u] = got[u]
    BY DEF IInv, TypeOK
  <1>c. conn \in [Threads -> {"none", "open", "closed"}] /\ got \in [Threads -> Threads \cup {None}]
    BY DEF IInv, TypeOK
  <1>d. svcState = stateInit => pc[t] \in {"idle", "getEstablishment", "done"}
    BY DEF IInv, NotStarted
  <1> USE DEF Goto, CloseConn, service, maps, links, PCs, Building, Early, ActiveRunning,
              PassiveRunning, PastRecheck
  <1>2. CASE t \in Callers /\ Connect(t)
    BY <1>0, <1>1, <1>b, <1>c, <1>2, Move DEF Connect
  <1>3. CASE t \in Callers /\ ActiveEstablishConnect(t)
    BY <1>0, <1>a, <1>c, <1>d, <1>3, Move DEF ActiveEstablishConnect
  <1>4. CASE t \in Callers /\ ActiveEstablishHandshake(t)
    BY <1>0, <1>a, <1>c, <1>d, <1>4, Move DEF ActiveEstablishHandshake
  <1>5. CASE t \in Callers /\ ActiveComplete(t)
    BY <1>0, <1>a, <1>c, <1>d, <1>5, Move DEF ActiveComplete
  <1>6. CASE t \in Callers /\ LastLook(t)
    BY <1>0, <1>1, <1>b, <1>c, <1>d, <1>6, Move DEF LastLook
  <1>7. CASE t \in Conns /\ Accept(t)
    <2>1. svcState # stateInit
      BY <1>7 DEF Accept, stateInit, stateStarted, stateClosed
    <2> QED
      BY <1>0, <1>a, <1>c, <1>7, <2>1, Move DEF Accept
  <1>8. CASE t \in Conns /\ OnPassiveConnRefuse(t)
    BY <1>0, <1>a, <1>c, <1>d, <1>8, Move DEF OnPassiveConnRefuse
  <1>9. CASE t \in Conns /\ PassiveEstablishHandshake(t)
    BY <1>0, <1>a, <1>c, <1>d, <1>9, Move DEF PassiveEstablishHandshake
  <1>10. CASE Wait(t)
    <2>1. ref[t] \in Threads
      BY <1>10 DEF Wait, IInv, RefInv
    <2>2. es[ref[t]].session \in Threads \cup {None}
      BY <2>1, EstFields DEF IInv, TypeOK, Est
    <2> QED
      BY <1>0, <1>b, <1>c, <1>d, <1>10, <2>2, Move DEF Wait
  <1> QED
    BY <1>2, <1>3, <1>4, <1>5, <1>6, <1>7, <1>8, <1>9, <1>10

LEMMA GetSteps ==
    ASSUME IInv, NEW t \in Threads,
           \/ t \in Callers /\ ConnectGetEstablishment(t)
           \/ t \in Conns /\ OnPassiveConn(t)
    PROVE  IInv'
  <1>0. t \in Callers => t \notin Conns
    BY ThreadsAssumption
  <1>1. CASE t \in Callers /\ ConnectGetEstablishment(t) /\ svcState = stateStarted
    BY <1>1, GetEstablishmentStep DEF ConnectGetEstablishment, service, links
  <1>2. CASE t \in Conns /\ OnPassiveConn(t) /\ svcState = stateStarted /\ getSession = None
    BY <1>2, GetEstablishmentStep DEF OnPassiveConn, service, links
  <1>3. [conn EXCEPT ![t] = "closed"] \in [Threads -> {"none", "open", "closed"}]
        /\ conn \in [Threads -> {"none", "open", "closed"}]
        /\ got \in [Threads -> Threads \cup {None}]
    BY DEF IInv, TypeOK
  <1> USE DEF Goto, CloseConn, service, maps, links, PCs, Building, Early, ActiveRunning,
              PassiveRunning, PastRecheck
  <1>4. CASE t \in Callers /\ ConnectGetEstablishment(t) /\ svcState # stateStarted
    BY <1>0, <1>3, <1>4, Move DEF ConnectGetEstablishment
  <1>5. CASE t \in Conns /\ OnPassiveConn(t) /\ ~(svcState = stateStarted /\ getSession = None)
    BY <1>0, <1>3, <1>5, Move DEF OnPassiveConn
  <1> QED
    BY <1>1, <1>2, <1>4, <1>5

(* The steps that start an attempt or bring it further. *)
LEMMA StartSteps ==
    ASSUME IInv, NEW t \in Threads,
           StartActiveEstablish(t) \/ StartPassiveEstablish(t)
    PROVE  IInv'
  <1>0. t \in Callers => t \notin Conns
    BY ThreadsAssumption
  <1>1. pc[t] = "start" /\ EsFree(t)
    BY DEF StartActiveEstablish, StartPassiveEstablish
  <1>2. ref[t] \in Threads
    BY <1>1 DEF IInv, RefInv, Early
  <1>3. es[ref[t]] \in Est /\ [es EXCEPT ![ref[t]] = es[ref[t]]] = es
    BY <1>2 DEF IInv, TypeOK, Est
  <1>a. [conn EXCEPT ![t] = "closed"] \in [Threads -> {"none", "open", "closed"}]
        /\ conn \in [Threads -> {"none", "open", "closed"}]
    BY DEF IInv, TypeOK
  <1>b. /\ es[ref[t]].active.conn = es[ref[t]].active.conn
        /\ es[ref[t]].passive.conn = es[ref[t]].passive.conn
    OBVIOUS
  <1>4. CASE StartActiveEstablish(t)
    <2>1. PICK now \in Times : es' = [es EXCEPT ![ref[t]] = startActive(es[ref[t]], now)]
      BY <1>4 DEF StartActiveEstablish, SetEs
    <2> DEFINE f == startActive(es[ref[t]], now)
    <2>2. t \in Callers /\ conn' = conn
          /\ pc' = [pc EXCEPT ![t] = IF canStartActive(es[ref[t]]) THEN "recheck" ELSE "wait"]
          /\ UNCHANGED <<svcState, closePc, closeRef, found, sessions, establishments, esMutex,
                         ref, got, sess, closing>>
      BY <1>4 DEF StartActiveEstablish, Goto, service, maps, links
    <2>3. CASE canStartActive(es[ref[t]])
      <3>1. /\ f \in Est /\ f.passive = es[ref[t]].passive
            /\ f.active.conn = es[ref[t]].active.conn
            /\ ~isEnd(es[ref[t]])
            /\ ~isEstablishing(es[ref[t]].active) /\ isEstablishing(f.active)
        BY <1>3, <2>3, StartActiveOp
      <3> HIDE DEF f
      <3> QED
        BY <1>0, <1>1, <1>a, <2>1, <2>2, <2>3, <3>1, MoveEs
        DEF f, PCs, Building, Early, PastRecheck, PassiveRunning
    <2>4. CASE ~canStartActive(es[ref[t]])
      <3>1. f = es[ref[t]]
        BY <2>4 DEF startActive
      <3> QED
        BY <1>0, <1>1, <1>3, <1>a, <2>1, <2>2, <2>4, <3>1, MoveEs
        DEF PCs, Building, Early, PastRecheck, PassiveRunning, ActiveRunning
    <2> QED
      BY <2>3, <2>4
  <1>5. CASE StartPassiveEstablish(t)
    <2>1. PICK now \in Times : es' = [es EXCEPT ![ref[t]] = startPassive(es[ref[t]], now)]
      BY <1>5 DEF StartPassiveEstablish, SetEs
    <2> DEFINE f == startPassive(es[ref[t]], now)
    <2>2. t \in Conns /\ conn' \in [Threads -> {"none", "open", "closed"}]
          /\ pc' = [pc EXCEPT ![t] = IF canStartPassive(es[ref[t]]) THEN "recheck" ELSE "done"]
          /\ UNCHANGED <<svcState, closePc, closeRef, found, sessions, establishments, esMutex,
                         ref, got, sess, closing>>
      BY <1>5, <1>a DEF StartPassiveEstablish, Goto, CloseConn, service, maps, links
    <2>3. CASE canStartPassive(es[ref[t]])
      <3>1. /\ f \in Est /\ f.active = es[ref[t]].active
            /\ f.passive.conn = es[ref[t]].passive.conn
            /\ ~isEnd(es[ref[t]])
            /\ es[ref[t]].passive.state # 2 /\ f.passive.state = 2
        BY <1>3, <2>3, StartPassiveOp, EstFields, AttFields DEF establishHandshake
      <3> HIDE DEF f
      <3> QED
        BY <1>0, <1>1, <1>a, <2>1, <2>2, <2>3, <3>1, MoveEs
        DEF f, PCs, Building, Early, PastRecheck, PassiveRunning, ActiveRunning
    <2>4. CASE ~canStartPassive(es[ref[t]])
      <3>1. f = es[ref[t]]
        BY <2>4 DEF startPassive
      <3> QED
        BY <1>0, <1>1, <1>3, <1>a, <2>1, <2>2, <2>4, <3>1, MoveEs
        DEF PCs, Building, Early, PastRecheck, PassiveRunning, ActiveRunning
    <2> QED
      BY <2>3, <2>4
  <1> QED
    BY <1>4, <1>5

LEMMA HandshakeSteps ==
    ASSUME IInv, NEW t \in Threads,
           \/ t \in Callers /\ StartActiveHandshake(t)
           \/ t \in Callers /\ ActiveEstablishAboutSuccess(t)
           \/ EndExisting(t)
    PROVE  IInv'
  <1>0. t \in Callers => t \notin Conns
    BY ThreadsAssumption
  <1>1. /\ pc[t] \in {"startHandshake", "aboutSuccess", "endExisting"}
        /\ EsFree(t)
    BY DEF StartActiveHandshake, ActiveEstablishAboutSuccess, EndExisting
  <1>2. ref[t] \in Threads
    BY <1>1 DEF IInv, RefInv, Early
  <1>3. es[ref[t]] \in Est /\ got[t] \in Threads \cup {None}
        /\ conn \in [Threads -> {"none", "open", "closed"}]
    BY <1>2 DEF IInv, TypeOK, Est
  <1> DEFINE e == es[ref[t]]
  <1>4. CASE t \in Callers /\ StartActiveHandshake(t)
    <2> DEFINE f == startActiveHandshake(e)
    <2>1. /\ f \in Est /\ f.passive = e.passive /\ f.active.conn = e.active.conn
          /\ f.state = e.state /\ isEstablishing(f.active) <=> isEstablishing(e.active)
      BY <1>3, HandshakeOp
    <2>2. /\ pc[t] = "startHandshake"
          /\ pc' = [pc EXCEPT ![t] = IF canStartActiveHandshake(e) THEN "handshake" ELSE "wait"]
          /\ es' = [es EXCEPT ![ref[t]] = f] /\ conn' = conn
          /\ UNCHANGED <<svcState, closePc, closeRef, found, sessions, establishments, esMutex,
                         ref, got, sess, closing>>
      BY <1>4 DEF StartActiveHandshake, SetEs, Goto, service, maps, links
    <2>3. isEstablishing(e.active)
      BY <1>4, <2>2 DEF IInv, OwnActive, ActiveRunning
    <2> HIDE DEF f
    <2> QED
      BY <1>0, <1>1, <1>3, <1>4, <2>1, <2>2, <2>3, MoveEs
      DEF PCs, Building, Early, PastRecheck, PassiveRunning, ActiveRunning, isEnd
  <1>5. CASE t \in Callers /\ ActiveEstablishAboutSuccess(t)
    <2> DEFINE f == activeAboutSuccess(e)
    <2>1. /\ f \in Est /\ f.passive = e.passive /\ f.active.conn = e.active.conn
          /\ f.state = e.state /\ isEstablishing(f.active) <=> isEstablishing(e.active)
      BY <1>3, AboutSuccessOp
    <2>2. /\ pc[t] = "aboutSuccess"
          /\ pc' = [pc EXCEPT ![t] = "complete"]
          /\ es' = [es EXCEPT ![ref[t]] = f] /\ conn' = conn
          /\ UNCHANGED <<svcState, closePc, closeRef, found, sessions, establishments, esMutex,
                         ref, got, sess, closing>>
      BY <1>5 DEF ActiveEstablishAboutSuccess, SetEs, Goto, service, maps, links
    <2>3. isEstablishing(e.active)
      BY <1>5, <2>2 DEF IInv, OwnActive, ActiveRunning
    <2> HIDE DEF f
    <2> QED
      BY <1>0, <1>1, <1>3, <1>5, <2>1, <2>2, <2>3, MoveEs
      DEF PCs, Building, Early, PastRecheck, PassiveRunning, ActiveRunning, isEnd
  <1>6. CASE EndExisting(t)
    <2> DEFINE f == end(e, got[t])
    <2>1. f \in Est /\ f.passive = e.passive /\ f.active = e.active /\ isEnd(f)
      BY <1>3, EndOp
    <2>2. /\ pc[t] = "endExisting"
          /\ pc' = [pc EXCEPT ![t] = "wait"]
          /\ es' = [es EXCEPT ![ref[t]] = f] /\ conn' = conn
          /\ found' = found \/ found' = found \cup {ref[t]}
          /\ UNCHANGED <<svcState, closePc, closeRef, sessions, establishments, esMutex,
                         ref, got, sess, closing>>
      BY <1>6 DEF EndExisting, SetEs, Goto, service, maps, links
    <2> HIDE DEF f
    <2> QED
      BY <1>0, <1>1, <1>3, <2>1, <2>2, MoveEs
      DEF PCs, Building, Early, PastRecheck, PassiveRunning, ActiveRunning
  <1> QED
    BY <1>4, <1>5, <1>6

(* An attempt that is over: the thread waits, or ends the establishment. *)
LEMMA AttemptOverStep ==
    ASSUME IInv, NEW t \in Threads, NEW f \in Est, NEW other \in Att,
           pc[t] \in {"success", "attemptFail"},
           EsFree(t),
           Over(es[ref[t]], f, t),
           \/ /\ t \in Callers /\ ~isEstablishing(f.active)
              /\ f.passive = es[ref[t]].passive /\ other = f.passive
           \/ /\ t \in Conns /\ ~isEstablishing(f.passive)
              /\ f.active = es[ref[t]].active /\ other = f.active,
           attemptOver(t, f, other),
           UNCHANGED <<svcState, closePc, closeRef, found, sessions, establishments, ref,
                       sess, closing>>
    PROVE  IInv'
  <1> DEFINE e == es[ref[t]]
             kept == keptConn(f, LocalIsLess)
  <1>1. /\ t \in Callers => t \notin Conns
        /\ LocalIsLess \in BOOLEAN
    BY ThreadsAssumption, LocalIsLessAssumption
  <1>2. conn \in [Threads -> {"none", "open", "closed"}]
    BY DEF IInv, TypeOK
  <1>3. /\ f.state = e.state
        /\ f.active.conn \in {e.active.conn, t}
        /\ f.passive.conn \in {e.passive.conn, t}
    BY DEF Over
  <1>4. es' = [es EXCEPT ![ref[t]] = f]
    BY DEF attemptOver, SetEs
  <1>5. \A a : isEstablishing(a) <=> a.state > 0 /\ ~(a.state > 3)
    BY DEF isEstablishing, isStarted, attemptIsEnd, establishAboutSuccess
  <1>6. CASE isEstablishing(other) \/ isEnd(f)
    <2>1. pc' = [pc EXCEPT ![t] = "wait"] /\ UNCHANGED <<esMutex, got, conn>>
      BY <1>6 DEF attemptOver, establishEnd, Goto
    <2> QED
      BY <1>1, <1>2, <1>3, <1>4, <2>1, MoveEs
      DEF PCs, Building, Early, PastRecheck, PassiveRunning, ActiveRunning, isEnd
  <1>7. CASE ~isEstablishing(other) /\ ~isEnd(f)
    <2>1. /\ esMutex' = [esMutex EXCEPT ![ref[t]] = t]
          /\ got' = [got EXCEPT ![t] = kept]
          /\ pc' = [pc EXCEPT ![t] = IF kept = None THEN "fail" ELSE "create"]
          /\ conn' \in [Threads -> {"none", "open", "closed"}]
      BY <1>2, <1>7 DEF attemptOver, establishEnd, Goto
    <2>2. kept \in {f.active.conn, f.passive.conn, None} /\ kept \in Threads \cup {None}
      BY <1>1, KeptOp
    <2>3. /\ ~isEstablishing(f.active) /\ ~isEstablishing(f.passive)
          /\ isEstablishing(e.active) => t \in Callers
          /\ e.passive.state = 2 => t \in Conns
      BY <1>5, <1>7
    <2>4. ~isEnd(e)
      BY <1>3, <1>7 DEF isEnd
    <2> HIDE DEF kept
    <2> QED
      BY <1>3, <1>4, <1>7, <2>1, <2>2, <2>3, <2>4, MoveEnd
  <1> QED
    BY <1>6, <1>7

LEMMA OverSteps ==
    ASSUME IInv, NEW t \in Threads,
           \/ ActiveEstablishSuccess(t) \/ ActiveEstablishFail(t)
           \/ PassiveEstablishSuccess(t) \/ PassiveEstablishFail(t)
    PROVE  IInv'
  <1> DEFINE e == es[ref[t]]
  <1>1. pc[t] \in {"success", "attemptFail"} /\ EsFree(t)
        /\ UNCHANGED <<svcState, closePc, closeRef, found, sessions, establishments, ref,
                       sess, closing>>
    BY DEF ActiveEstablishSuccess, ActiveEstablishFail, PassiveEstablishSuccess,
           PassiveEstablishFail, service, maps
  <1>2. ref[t] \in Threads
    BY <1>1 DEF IInv, RefInv, Early
  <1>3. e \in Est
    BY <1>2 DEF IInv, TypeOK, Est
  <1>4. CASE ActiveEstablishSuccess(t) /\ canActiveSuccess(e)
    <2> DEFINE f == activeSuccess(e, t)
    <2>1. t \in Callers /\ attemptOver(t, f, f.passive)
      BY <1>4 DEF ActiveEstablishSuccess
    <2>2. Over(e, f, t) /\ ~isEstablishing(f.active) /\ f.passive = e.passive
      BY <1>3, <1>4, OverOps
    <2>3. f \in Est /\ f.passive \in Att
      BY <2>2, EstFields DEF Over
    <2> HIDE DEF f
    <2> QED
      BY <1>1, <2>1, <2>2, <2>3, AttemptOverStep
  <1>5. CASE ActiveEstablishFail(t) /\ canActiveFail(e)
    <2> DEFINE f == activeFail(e)
    <2>1. t \in Callers /\ attemptOver(t, f, f.passive)
      BY <1>5 DEF ActiveEstablishFail
    <2>2. Over(e, f, t) /\ ~isEstablishing(f.active) /\ f.passive = e.passive
      BY <1>3, <1>5, OverOps
    <2>3. f \in Est /\ f.passive \in Att
      BY <2>2, EstFields DEF Over
    <2> HIDE DEF f
    <2> QED
      BY <1>1, <2>1, <2>2, <2>3, AttemptOverStep
  <1>6. CASE PassiveEstablishSuccess(t) /\ canPassiveSuccess(e)
    <2> DEFINE f == passiveSuccess(e, t)
    <2>1. t \in Conns /\ attemptOver(t, f, f.active)
      BY <1>6 DEF PassiveEstablishSuccess
    <2>2. Over(e, f, t) /\ ~isEstablishing(f.passive) /\ f.active = e.active
      BY <1>3, <1>6, OverOps
    <2>3. f \in Est /\ f.active \in Att
      BY <2>2, EstFields DEF Over
    <2> HIDE DEF f
    <2> QED
      BY <1>1, <2>1, <2>2, <2>3, AttemptOverStep
  <1>7. CASE PassiveEstablishFail(t) /\ canPassiveFail(e)
    <2> DEFINE f == passiveFail(e)
    <2>1. t \in Conns /\ attemptOver(t, f, f.active)
      BY <1>7 DEF PassiveEstablishFail
    <2>2. Over(e, f, t) /\ ~isEstablishing(f.passive) /\ f.active = e.active
      BY <1>3, <1>7, OverOps
    <2>3. f \in Est /\ f.active \in Att
      BY <2>2, EstFields DEF Over
    <2> HIDE DEF f
    <2> QED
      BY <1>1, <2>1, <2>2, <2>3, AttemptOverStep
  <1>8. CASE /\ ~(ActiveEstablishSuccess(t) /\ canActiveSuccess(e))
             /\ ~(ActiveEstablishFail(t) /\ canActiveFail(e))
             /\ ~(PassiveEstablishSuccess(t) /\ canPassiveSuccess(e))
             /\ ~(PassiveEstablishFail(t) /\ canPassiveFail(e))
    <2>1. /\ pc' = [pc EXCEPT ![t] = "wait"]
          /\ UNCHANGED <<es, esMutex, got>>
          /\ conn' \in {conn, [conn EXCEPT ![t] = "closed"]}
      BY <1>8 DEF ActiveEstablishSuccess, ActiveEstablishFail, PassiveEstablishSuccess,
                  PassiveEstablishFail, Goto
    <2>2. /\ conn' \in [Threads -> {"none", "open", "closed"}]
          /\ got \in [Threads -> Threads \cup {None}]
      BY <2>1 DEF IInv, TypeOK
    <2>3. svcState # stateInit
      BY <1>1 DEF IInv, NotStarted
    <2> QED
      BY <1>1, <2>1, <2>2, <2>3, Move
      DEF PCs, Building, Early, PastRecheck, PassiveRunning, ActiveRunning
  <1> QED
    BY <1>4, <1>5, <1>6, <1>7, <1>8

-----------------------------------------------------------------------------
(* The theorems *)

LEMMA InitInv == Init => IInv
  <1> SUFFICES ASSUME Init PROVE IInv
    OBVIOUS
  <1> USE ThreadsAssumption DEF Init
  <1>1. NewEstablishment \in Establishment(Threads, Times)
    BY DEF NewEstablishment, Establishment, NoAttempt, Attempt, establishFail,
       establishmentEnd
  <1>2. TypeOK
    BY <1>1 DEF TypeOK, PCs, stateInit, stateStarted, stateClosed
  <1>3. /\ NotStarted /\ RefInv /\ MutexInv /\ KeptInv /\ FreshInv /\ ClosedInv
        /\ NoLive /\ BuildsOnly /\ LiveReachable /\ EndInv
    BY DEF NotStarted, RefInv, MutexInv, KeptInv, FreshInv, ClosedInv, NoLive, BuildsOnly,
           LiveReachable, EndInv, EsHeld, Building, Early, PastRecheck, Live, stateInit,
           stateStarted
  <1>4. OwnActive /\ OwnPassive /\ Kinds /\ UnendedInMap
    BY DEF OwnActive, OwnPassive, Kinds, UnendedInMap, Threads, ActiveRunning,
       PassiveRunning
  <1>5. ConnInv
    BY DEF ConnInv, NewEstablishment, NoAttempt
  <1> QED
    BY <1>2, <1>3, <1>4, <1>5 DEF IInv

LEMMA NextInv == IInv /\ [Next]_vars => IInv'
  <1> SUFFICES ASSUME IInv, [Next]_vars PROVE IInv'
    OBVIOUS
  <1>1. CASE Start \/ Close \/ CloseRange \/ CloseDelete
    BY <1>1, StartStep, CloseStep, CloseRangeStep, CloseDeleteStep
  <1>2. CASE \E c \in Callers : Connect(c) \/ CallerStep(c)
    <2>1. PICK c \in Callers : Connect(c) \/ CallerStep(c)
      BY <1>2
    <2>2. c \in Threads
      BY DEF Threads
    <2> QED
      BY <2>1, <2>2, MoveSteps, GetSteps, StartSteps, HandshakeSteps,
         OverSteps DEF CallerStep
  <1>3. CASE \E p \in Conns : Accept(p) \/ ConnStep(p)
    <2>1. PICK p \in Conns : Accept(p) \/ ConnStep(p)
      BY <1>3
    <2>2. p \in Threads
      BY DEF Threads
    <2> QED
      BY <2>1, <2>2, MoveSteps, GetSteps, StartSteps, OverSteps DEF ConnStep
  <1>4. CASE \E t \in Threads : CommonStep(t)
    BY <1>4, RecheckStep, HandshakeSteps, CreateSessionStep, LockSessionStep, PublishStep,
       FinishStep, EstablishEndFailedStep, RemoveEstablishmentStep, MoveSteps DEF CommonStep
  <1>5. CASE \E k \in Threads : SessionOnClosed(k) \/ onSessionClosed(k)
    BY <1>5, SessionOnClosedStep, onSessionClosedStep
  <1>6. CASE UNCHANGED vars
    BY <1>6 DEF vars, IInv, TypeOK, NotStarted, RefInv, MutexInv, OwnActive, OwnPassive,
       Kinds, EndInv, EsHeld, UnendedInMap, ConnInv, KeptInv, FreshInv, ClosedInv, NoLive,
       BuildsOnly, LiveReachable, Live, Builds
  <1> QED
    BY <1>1, <1>2, <1>3, <1>4, <1>5, <1>6 DEF Next

(* Every reachable state is in the inductive invariant. *)
THEOREM Invariance == Spec => []IInv
  BY InitInv, NextInv, PTL DEF Spec

(* The variables keep their types. *)
THEOREM TypeCorrect == Spec => []TypeOK
  <1>1. IInv => TypeOK
    BY DEF IInv
  <1> QED
    BY <1>1, Invariance, PTL

(* There is never more than one live session with the remote node while    *)
(* the service runs, for any number of Connect calls and connections.      *)
THEOREM OneLive == Spec => []AtMostOneLive
  <1>1. IInv => AtMostOneLive
    <2> SUFFICES ASSUME IInv, svcState # stateClosed,
                        NEW j \in Threads, NEW k \in Threads, Live(j), Live(k)
                 PROVE  j = k
      BY DEF AtMostOneLive
    <2>1. CASE sessions = j /\ sessions = k
      BY <2>1
    <2>2. CASE \E t \in Threads : Builds(t, j) \/ Builds(t, k)
      BY <2>2 DEF IInv, BuildsOnly, Builds
    <2> QED
      BY <2>1, <2>2 DEF IInv, LiveReachable
  <1> QED
    BY <1>1, Invariance, PTL

(* No live session is ever lost from the map, except while it is built. *)
THEOREM LiveIsReachable == Spec => []LiveReachable
  <1>1. IInv => LiveReachable
    BY DEF IInv
  <1> QED
    BY <1>1, Invariance, PTL
=============================================================================
