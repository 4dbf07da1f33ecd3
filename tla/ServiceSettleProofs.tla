------------------------- MODULE ServiceSettleProofs -------------------------
(***************************************************************************)
(* How things end, for any number of Connect calls and passive connections: *)
(* what Service.Close leaves alive, when an establishment ends, and who    *)
(* owns a connection that is open.                                         *)
(***************************************************************************)
EXTENDS ServiceEstablishProofs

-----------------------------------------------------------------------------
(* Service.Close against establishments that are under way *)

(* A step that neither publishes nor starts a session. *)
LEMMA NothingNew ==
    ASSUME IInv, CloseInv, UNCHANGED <<svcState, closePc>>,
           sessions' \in {sessions, None},
           \A k \in Threads : Live(k)' => Live(k)
    PROVE  CloseInv'
  BY DEF CloseInv, IInv, TypeOK, Live

(* Closing a session makes none alive. *)
LEMMA CloseMakesNone ==
    ASSUME IInv, NEW k \in Threads, CloseSession(k)
    PROVE  /\ \A j \in Threads : Live(j)' => Live(j)
           /\ ~Live(k)'
  <1>1. CASE sess[k] = stateClosed
    BY <1>1 DEF CloseSession, links, Live, stateStarted, stateClosed
  <1>2. CASE sess[k] # stateClosed
    BY <1>2 DEF CloseSession, Live, IInv, TypeOK, stateStarted, stateClosed
  <1> QED BY <1>1, <1>2

LEMMA ServiceStepsClose ==
    ASSUME IInv, CloseInv, Start \/ Close \/ CloseRange \/ CloseDelete
    PROVE  CloseInv'
  <1> USE DEF CloseInv, Live
  <1>1. CASE Start
    BY <1>1 DEF Start, links, maps, service, stateInit, stateClosed
  <1>2. CASE Close
    BY <1>2 DEF Close
  <1>3. CASE CloseRange
    <2>1. CASE sessions = None
      BY <1>3, <2>1 DEF CloseRange, maps
    <2>2. CASE sessions # None
      <3>1. PICK k \in Threads : k = sessions
        BY <2>2 DEF IInv, TypeOK
      <3>2. CloseSession(k)
        BY <1>3, <2>2, <3>1 DEF CloseRange
      <3>3. ~Live(k)'
        BY <3>2, CloseMakesNone
      <3> QED BY <1>3, <2>2, <3>1, <3>3 DEF CloseRange, maps
    <2> QED BY <2>1, <2>2
  <1>4. CASE CloseDelete
    BY <1>4 DEF CloseDelete, links
  <1> QED BY <1>1, <1>2, <1>3, <1>4

(* The session a thread makes is not the entry of the map: that one has    *)
(* been started before.                                                    *)
LEMMA CreateSessionCloses ==
    ASSUME IInv, CloseInv, NEW t \in Threads, CreateSession(t)
    PROVE  CloseInv'
  <1>1. got[t] \in Threads /\ ref[got[t]] = ref[t] /\ ref[t] \in Threads
    BY DEF CreateSession, IInv, KeptInv, RefInv, Early
  <1>2. CASE CloseSession(got[t])
    BY <1>1, <1>2, CloseMakesNone, NothingNew DEF CreateSession, service, maps
  <1>3. CASE sess' = [sess EXCEPT ![got[t]] = stateStarted]
    <2>1. sess[got[t]] = stateInit
      <3>1. ~isEnd(es[ref[t]])
        BY DEF CreateSession, IInv, EndInv, EsHeld, Building
      <3>2. \A b \in Threads : ref[b] = ref[t] /\ EsHeld(b) => b = t
        BY <1>1 DEF CreateSession, IInv, MutexInv, TypeOK, EsHeld, Building
      <3> QED BY <1>1, <3>1, <3>2 DEF CreateSession, IInv, FreshInv
    <2>2. sessions # None => sessions # got[t]
      BY <2>1 DEF IInv, ClosedInv
    <2> QED
      BY <1>1, <1>3, <2>2 DEF CreateSession, service, maps, CloseInv, Live, IInv, TypeOK
  <1> QED BY <1>2, <1>3 DEF CreateSession

LEMMA PublishCloses ==
    ASSUME IInv, CloseInv, NEW t \in Threads, Publish(t)
    PROVE  CloseInv'
  <1>1. CASE svcState = stateStarted
    BY <1>1 DEF Publish, service, CloseInv, stateStarted, stateClosed, IInv, TypeOK
  <1>2. CASE svcState # stateStarted
    <2>1. got[t] \in Threads
      BY DEF Publish, IInv, KeptInv
    <2> QED
      BY <1>2, <2>1, CloseMakesNone, NothingNew DEF Publish, service, maps
  <1> QED BY <1>1, <1>2

LEMMA SessionStepsClose ==
    ASSUME IInv, CloseInv, NEW k \in Threads, SessionOnClosed(k) \/ onSessionClosed(k)
    PROVE  CloseInv'
  <1>1. CASE SessionOnClosed(k)
    BY <1>1, CloseMakesNone, NothingNew DEF SessionOnClosed, service, maps
  <1>2. CASE onSessionClosed(k)
    BY <1>2, NothingNew DEF onSessionClosed, service, Live
  <1> QED BY <1>1, <1>2

(* Every other step of a thread leaves service, sessions and their states. *)
LEMMA OtherStepsClose ==
    ASSUME IInv, CloseInv, NEW t \in Threads,
           \/ Connect(t) \/ CallerStep(t) \/ Accept(t) \/ ConnStep(t)
           \/ CommonStep(t) /\ ~CreateSession(t) /\ ~Publish(t)
    PROVE  CloseInv'
  <1>1. CASE Connect(t) \/ CallerStep(t)
    <2>1. UNCHANGED <<svcState, closePc, sessions, sess>>
      BY <1>1 DEF CallerStep, Connect, ConnectGetEstablishment, StartActiveEstablish,
         ActiveEstablishConnect, StartActiveHandshake, ActiveEstablishHandshake,
         ActiveEstablishAboutSuccess, ActiveComplete, ActiveEstablishSuccess,
         ActiveEstablishFail, LastLook, service, maps, links, CloseConn
    <2> QED BY <2>1, NothingNew DEF Live
  <1>2. CASE Accept(t) \/ ConnStep(t)
    <2>1. UNCHANGED <<svcState, closePc, sessions, sess>>
      BY <1>2 DEF ConnStep, Accept, OnPassiveConnRefuse, OnPassiveConn,
         StartPassiveEstablish, PassiveEstablishHandshake, PassiveEstablishSuccess,
         PassiveEstablishFail, service, maps, links, CloseConn
    <2> QED BY <2>1, NothingNew DEF Live
  <1>3. CASE CommonStep(t) /\ ~CreateSession(t) /\ ~Publish(t)
    <2>1. UNCHANGED <<svcState, closePc, sessions, sess>>
      BY <1>3 DEF CommonStep, Recheck, EndExisting, LockSession, Finish,
         EstablishEndFailed, RemoveEstablishment, Wait, service, maps, links
    <2> QED BY <2>1, NothingNew DEF Live
  <1> QED BY <1>1, <1>2, <1>3

-----------------------------------------------------------------------------
LEMMA CloseInvNext == IInv /\ CloseInv /\ [Next]_vars => CloseInv'
  <1> SUFFICES ASSUME IInv, CloseInv, [Next]_vars PROVE CloseInv'
    OBVIOUS
  <1>1. CASE Start \/ Close \/ CloseRange \/ CloseDelete
    BY <1>1, ServiceStepsClose
  <1>0. Callers \subseteq Threads /\ Conns \subseteq Threads
    BY DEF Threads
  <1>2. CASE \E c \in Callers : Connect(c) \/ CallerStep(c)
    BY <1>0, <1>2, OtherStepsClose
  <1>3. CASE \E p \in Conns : Accept(p) \/ ConnStep(p)
    BY <1>0, <1>3, OtherStepsClose
  <1>4. CASE \E t \in Threads : CommonStep(t)
    BY <1>4, OtherStepsClose, CreateSessionCloses, PublishCloses
  <1>5. CASE \E k \in Threads : SessionOnClosed(k) \/ onSessionClosed(k)
    BY <1>5, SessionStepsClose
  <1>6. CASE UNCHANGED vars
    BY <1>6 DEF vars, service, maps, links, CloseInv, Live
  <1> QED BY <1>1, <1>2, <1>3, <1>4, <1>5, <1>6 DEF Next

(* When Service.Close has been through the session map, the only sessions  *)
(* left alive are being built, and their publication will be refused.      *)
THEOREM CloseIsThorough == Spec => []CloseLeavesNothing
  <1>1. Init => CloseInv
    BY DEF Init, CloseInv
  <1>2. IInv /\ CloseInv => CloseLeavesNothing
    BY ThreadsAssumption DEF IInv, CloseInv, CloseLeavesNothing, LiveReachable
  <1>3. IInv /\ CloseInv /\ [Next]_vars => CloseInv'
    BY CloseInvNext
  <1> QED BY <1>1, <1>2, <1>3, Invariance, PTL DEF Spec

-----------------------------------------------------------------------------
(* The end of an establishment *)

(* An attempt at establishConnect runs. *)
LEMMA RecheckRuns ==
    ASSUME NEW e, e.active.state = establishConnect
    PROVE  isEstablishing(e.active)
  BY DEF isEstablishing, isStarted, attemptIsEnd, establishConnect, establishAboutSuccess

LEMMA StartsConnecting ==
    ASSUME NEW e \in Est, NEW t \in Times, canStartActive(e)
    PROVE  startActive(e, t).active.state = establishConnect
  <1> DEFINE f == changeState(e, establishmentStarted)
             a == changeState(f.active, establishConnect)
             b == [a EXCEPT !.startTime = t]
  <1>1. e.active \in Att /\ e.active.state = 0
    BY EstFields, AttFields DEF canStartActive, canChangeState, establishConnect
  <1>2. f \in Est /\ f.active = e.active
    BY EstChange DEF establishmentStarted
  <1>3. a \in Att /\ a.state = 1
    BY <1>1, <1>2, AttChange DEF establishConnect
  <1>4. b \in Att /\ b.state = 1
    BY <1>3, AttSetTime
  <1>5. startActive(e, t) = [f EXCEPT !.active = b]
    BY DEF startActive
  <1> HIDE DEF f, a, b
  <1> QED BY <1>2, <1>4, <1>5, EstSetActive DEF establishConnect

(* Thread t moves on; nothing is published or ended. *)
LEMMA MoveSettles ==
    ASSUME IInv, SettleInv, NEW t \in Threads, NEW l \in PCs \ {"remove"},
           pc' = [pc EXCEPT ![t] = l],
           UNCHANGED <<svcState, establishments, es, ref>>,
           \A k \in Threads : Live(k)' => Live(k),
           EsHeld(t) => l \in Building,
           t \in Conns => l \notin {"endExisting", "recheck", "start"},
           t \in Callers /\ l \in ActiveRunning =>
               /\ ~isEnd(es[ref[t]])
               /\ l \in {"recheck", "endExisting", "dial", "startHandshake"} =>
                      es[ref[t]].active.state = establishConnect
    PROVE  SettleInv'
  <1> USE ThreadsAssumption DEF SettleInv, IInv, TypeOK
  <1>1. EndsWhenOver' /\ PassiveRecheckFindsNothing'
    BY DEF EndsWhenOver, EndedAtConnect, PassiveRecheckFindsNothing, Threads
  <1>2. RunsUnended'
    <2> SUFFICES ASSUME NEW c \in Callers, pc'[c] \in ActiveRunning
                 PROVE  /\ ~isEnd(es[ref[c]])
                        /\ pc'[c] \in {"recheck", "endExisting", "dial", "startHandshake"} =>
                               es[ref[c]].active.state = establishConnect
      BY DEF RunsUnended, ActiveRunning
    <2>1. c \in Threads
      BY DEF Threads
    <2>2. CASE c = t
      BY <2>1, <2>2
    <2>3. CASE c # t
      BY <2>1, <2>3 DEF RunsUnended
    <2> QED BY <2>2, <2>3
  <1>3. StaleStays'
    BY DEF StaleStays, EndedAtConnect
  <1>4. PassiveSeesNone'
    <2> SUFFICES ASSUME svcState # stateClosed, NEW p \in Conns, NEW k \in Threads, Live(k)
                 PROVE  /\ pc'[p] # "recheck"
                        /\ pc'[p] = "start" =>
                               \/ isEnd(es[ref[p]])
                               \/ \E b \in Threads : EsHeld(b)' /\ ref[b] = ref[p]
      BY DEF PassiveSeesNone
    <2>1. p \in Threads /\ pc'[p] \in {"recheck", "start"} => pc[p] = pc'[p]
      BY DEF Threads
    <2>2. \A b \in Threads : EsHeld(b) => EsHeld(b)'
      BY DEF EsHeld, Building
    <2> QED BY <2>1, <2>2 DEF PassiveSeesNone
  <1> QED BY <1>1, <1>2, <1>3, <1>4

(* Thread t makes the establishment it works on into f. *)
LEMMA EsSettles ==
    ASSUME IInv, SettleInv, NEW t \in Threads, NEW l \in PCs, NEW f \in Est,
           ref[t] \in Threads,
           pc' = [pc EXCEPT ![t] = l],
           es' = [es EXCEPT ![ref[t]] = f],
           UNCHANGED <<svcState, establishments, ref, sess>>,
           isEnd(es[ref[t]]) => isEnd(f),
           isEnd(f) => \/ EndedAtConnect(f)
                       \/ ~isEstablishing(f.active) /\ ~isEstablishing(f.passive),
           EndedAtConnect(f) => /\ establishments = ref[t] /\ l # "remove"
                                /\ \A b \in Threads : pc[b] = "remove" => ref[b] # ref[t],
           EsHeld(t) => isEnd(f) \/ l \in Building \ {"remove"},
           t \in Conns => l \notin {"endExisting", "start"},
           t \in Conns /\ l = "recheck" /\ svcState # stateClosed =>
               \A k \in Threads : ~Live(k),
           t \in Callers /\ l \in ActiveRunning =>
               /\ ~isEnd(f)
               /\ l \in {"recheck", "endExisting", "dial", "startHandshake"} =>
                      f.active.state = establishConnect,
           \A c \in Callers \ {t} :
               pc[c] \in ActiveRunning /\ ref[c] = ref[t] =>
                   ~isEnd(f) /\ f.active = es[ref[t]].active
    PROVE  SettleInv'
  <1> USE ThreadsAssumption DEF SettleInv, IInv, TypeOK
  <1>1. \A u \in Threads : es'[u] = IF u = ref[t] THEN f ELSE es[u]
    OBVIOUS
  <1>2. \A u \in Threads : pc'[u] = IF u = t THEN l ELSE pc[u]
    OBVIOUS
  <1>3. EndsWhenOver'
    BY <1>1 DEF EndsWhenOver, EndedAtConnect
  <1>4. PassiveRecheckFindsNothing'
    BY <1>2 DEF PassiveRecheckFindsNothing, Threads
  <1>5. RunsUnended'
    <2> SUFFICES ASSUME NEW c \in Callers, pc'[c] \in ActiveRunning
                 PROVE  /\ ~isEnd(es'[ref[c]])
                        /\ pc'[c] \in {"recheck", "endExisting", "dial", "startHandshake"} =>
                               es'[ref[c]].active.state = establishConnect
      BY DEF RunsUnended, ActiveRunning
    <2>1. c \in Threads
      BY DEF Threads
    <2>2. CASE c = t
      BY <1>1, <1>2, <2>1, <2>2
    <2>3. CASE c # t
      <3>1. pc[c] = pc'[c] /\ ref[c] \in Threads
        BY <1>2, <2>1, <2>3 DEF RefInv, ActiveRunning, Early
      <3>2. CASE ref[c] = ref[t]
        BY <1>1, <2>1, <2>3, <3>1, <3>2 DEF RunsUnended
      <3>3. CASE ref[c] # ref[t]
        BY <1>1, <2>1, <3>1, <3>3 DEF RunsUnended
      <3> QED BY <3>2, <3>3
    <2> QED BY <2>2, <2>3
  <1>6. StaleStays'
    <2>1. \A u \in Threads : EndedAtConnect(es[u])' => establishments' = u
      BY <1>1 DEF StaleStays, EndedAtConnect
    <2>2. ASSUME NEW b \in Threads, pc'[b] = "remove"
          PROVE  ~EndedAtConnect(es'[ref'[b]])
      <3>1. CASE b = t
        BY <1>1, <1>2, <2>2, <3>1
      <3>2. CASE b # t
        <4>1. pc[b] = "remove" /\ ref[b] \in Threads
          BY <1>2, <2>2, <3>2 DEF RefInv, Early
        <4> QED BY <1>1, <4>1 DEF StaleStays
      <3> QED BY <3>1, <3>2
    <2> QED BY <2>1, <2>2 DEF StaleStays, EndedAtConnect
  <1>7. PassiveSeesNone'
    <2> SUFFICES ASSUME svcState # stateClosed, NEW p \in Conns, NEW k \in Threads, Live(k)
                 PROVE  /\ pc'[p] # "recheck"
                        /\ pc'[p] = "start" =>
                               \/ isEnd(es'[ref[p]])
                               \/ \E b \in Threads : EsHeld(b)' /\ ref[b] = ref[p]
      BY DEF PassiveSeesNone, Live
    <2>1. p \in Threads
      BY DEF Threads
    <2>2. pc'[p] # "recheck"
      BY <1>2, <2>1 DEF PassiveSeesNone
    <2>3. ASSUME pc'[p] = "start"
          PROVE  isEnd(es'[ref[p]]) \/ \E b \in Threads : EsHeld(b)' /\ ref[b] = ref[p]
      <3>1. pc[p] = "start" /\ ref[p] \in Threads
        BY <1>2, <2>1, <2>3 DEF RefInv, Early
      <3>2. CASE isEnd(es[ref[p]])
        BY <1>1, <3>1, <3>2
      <3>3. ASSUME NEW b \in Threads, EsHeld(b), ref[b] = ref[p]
            PROVE  isEnd(es'[ref[p]]) \/ \E c \in Threads : EsHeld(c)' /\ ref[c] = ref[p]
        <4>1. CASE b # t
          BY <1>2, <3>3, <4>1 DEF EsHeld
        <4>2. CASE b = t
          BY <1>1, <1>2, <3>1, <3>3, <4>2 DEF EsHeld
        <4> QED BY <4>1, <4>2
      <3> QED BY <3>1, <3>2, <3>3 DEF PassiveSeesNone
    <2> QED BY <2>2, <2>3
  <1> QED BY <1>3, <1>4, <1>5, <1>6, <1>7

LEMMA MoveStepsSettle ==
    ASSUME IInv, SettleInv, NEW t \in Threads,
           \/ /\ t \in Callers
              /\ \/ Connect(t) \/ ActiveEstablishConnect(t) \/ ActiveEstablishHandshake(t)
                 \/ ActiveComplete(t) \/ LastLook(t)
           \/ /\ t \in Conns
              /\ Accept(t) \/ OnPassiveConnRefuse(t) \/ PassiveEstablishHandshake(t)
           \/ LockSession(t) \/ Wait(t)
    PROVE  SettleInv'
  <1>0. t \in Callers => t \notin Conns
    BY ThreadsAssumption
  <1>1. UNCHANGED <<svcState, establishments, es, ref, sess>>
    BY DEF Connect, ActiveEstablishConnect, ActiveEstablishHandshake, ActiveComplete,
           LastLook, Accept, OnPassiveConnRefuse, PassiveEstablishHandshake, LockSession,
           Wait, service, maps, links, CloseConn
  <1>2. \A k \in Threads : Live(k)' => Live(k)
    BY <1>1 DEF Live
  <1>3. CASE t \in Callers /\ ( \/ ActiveEstablishConnect(t) \/ ActiveEstablishHandshake(t)
                               \/ ActiveComplete(t) )
    <2>1. PICK l \in {"startHandshake", "attemptFail", "aboutSuccess", "success"} :
              /\ pc' = [pc EXCEPT ![t] = l]
              /\ l = "startHandshake" => pc[t] = "dial"
      BY <1>3 DEF ActiveEstablishConnect, ActiveEstablishHandshake, ActiveComplete, Goto
    <2>2. pc[t] \in {"dial", "handshake", "complete"}
      BY <1>3 DEF ActiveEstablishConnect, ActiveEstablishHandshake, ActiveComplete
    <2>3. ~isEnd(es[ref[t]]) /\ (pc[t] = "dial" => es[ref[t]].active.state = establishConnect)
      BY <1>3, <2>2 DEF SettleInv, RunsUnended, ActiveRunning
    <2> QED
      BY <1>0, <1>1, <1>2, <1>3, <2>1, <2>2, <2>3, MoveSettles DEF EsHeld, Building, PCs
  <1>4. CASE \/ t \in Callers /\ (Connect(t) \/ LastLook(t))
             \/ t \in Conns /\ (Accept(t) \/ OnPassiveConnRefuse(t))
             \/ Wait(t)
    <2>1. PICK l \in {"done", "getEstablishment", "passiveConn", "lastLook"} :
              pc' = [pc EXCEPT ![t] = l]
      BY <1>4 DEF Connect, LastLook, Accept, OnPassiveConnRefuse, Wait, Goto
    <2>2. ~EsHeld(t)
      BY <1>4 DEF Connect, LastLook, Accept, OnPassiveConnRefuse, Wait, EsHeld, Building
    <2> QED
      BY <1>1, <1>2, <2>1, <2>2, MoveSettles DEF PCs, ActiveRunning
  <1>5. CASE t \in Conns /\ PassiveEstablishHandshake(t)
    <2>1. PICK l \in {"success", "attemptFail"} : pc' = [pc EXCEPT ![t] = l]
      BY <1>5 DEF PassiveEstablishHandshake, Goto
    <2>2. ~EsHeld(t)
      BY <1>5 DEF PassiveEstablishHandshake, EsHeld, Building
    <2> QED
      BY <1>0, <1>1, <1>2, <1>5, <2>1, <2>2, MoveSettles DEF PCs
  <1>6. CASE LockSession(t)
    <2>1. PICK l \in {"publish", "fail"} : pc' = [pc EXCEPT ![t] = l]
      BY <1>6 DEF LockSession, Goto
    <2> QED
      BY <1>1, <1>2, <2>1, MoveSettles DEF PCs, Building, ActiveRunning
  <1> QED BY <1>3, <1>4, <1>5, <1>6

(* The second look for a session. *)
LEMMA RecheckSettles ==
    ASSUME IInv, SettleInv, NEW t \in Threads, Recheck(t)
    PROVE  SettleInv'
  <1>1. /\ UNCHANGED <<svcState, establishments, es, ref, sess>>
        /\ pc[t] = "recheck"
    BY DEF Recheck, service, maps, links
  <1>2. \A k \in Threads : Live(k)' => Live(k)
    BY <1>1 DEF Live
  <1>3. CASE t \in Callers
    <2>1. t \notin Conns
      BY <1>3, ThreadsAssumption
    <2>2. PICK l \in {"endExisting", "dial"} : pc' = [pc EXCEPT ![t] = l]
      BY <1>3 DEF Recheck, Goto
    <2>3. ~isEnd(es[ref[t]]) /\ es[ref[t]].active.state = establishConnect
      BY <1>1, <1>3 DEF SettleInv, RunsUnended, ActiveRunning
    <2> QED
      BY <1>1, <1>2, <2>1, <2>2, <2>3, MoveSettles DEF EsHeld, Building, PCs
  <1>4. CASE t \in Conns
    <2>1. t \notin Callers
      BY <1>4, ThreadsAssumption
    <2>2. GetSession = None
      <3>1. svcState # stateClosed => \A k \in Threads : ~Live(k)
        BY <1>1, <1>4 DEF SettleInv, PassiveSeesNone
      <3>2. sessions \in Threads \cup {None}
        BY DEF IInv, TypeOK
      <3> QED
        BY <3>1, <3>2 DEF GetSession, getSession, stateStarted, stateClosed
    <2>3. pc' = [pc EXCEPT ![t] = "passiveHandshake"]
      BY <2>1, <2>2 DEF Recheck, Goto
    <2> QED
      BY <1>1, <1>2, <2>1, <2>3, MoveSettles DEF EsHeld, Building, PCs
  <1> QED BY <1>3, <1>4 DEF Threads

(* No thread moves and no session comes alive. *)
LEMMA QuietSettles ==
    ASSUME SettleInv, UNCHANGED <<pc, es, ref, establishments>>,
           svcState = stateClosed => svcState' = stateClosed,
           \A k \in Threads : Live(k)' => Live(k)
    PROVE  SettleInv'
  BY DEF SettleInv, EndsWhenOver, EndedAtConnect, PassiveRecheckFindsNothing, RunsUnended,
         StaleStays, PassiveSeesNone, EsHeld

LEMMA ServiceStepsSettle ==
    ASSUME IInv, SettleInv,
           \/ Start \/ Close \/ CloseRange \/ CloseDelete
           \/ \E k \in Threads : SessionOnClosed(k) \/ onSessionClosed(k)
           \/ UNCHANGED vars
    PROVE  SettleInv'
  <1>1. CASE Start \/ Close \/ CloseDelete \/ UNCHANGED vars
    <2>1. UNCHANGED <<pc, es, ref, establishments, sess>>
      BY <1>1 DEF Start, Close, CloseDelete, vars, maps, links
    <2>2. svcState = stateClosed => svcState' = stateClosed
      BY <1>1 DEF Start, Close, CloseDelete, vars, stateInit, stateStarted, stateClosed
    <2> QED BY <2>1, <2>2, QuietSettles DEF Live
  <1>2. CASE CloseRange
    <2>1. UNCHANGED <<pc, es, ref, establishments, svcState>>
      BY <1>2 DEF CloseRange, maps
    <2>2. \A k \in Threads : Live(k)' => Live(k)
      BY <1>2, CloseMakesNone DEF CloseRange, links, Live, IInv, TypeOK
    <2> QED BY <2>1, <2>2, QuietSettles
  <1>3. CASE \E k \in Threads : SessionOnClosed(k) \/ onSessionClosed(k)
    <2>1. UNCHANGED <<pc, es, ref, establishments, svcState>>
      BY <1>3 DEF SessionOnClosed, onSessionClosed, service, maps
    <2>2. \A k \in Threads : Live(k)' => Live(k)
      BY <1>3, CloseMakesNone DEF SessionOnClosed, onSessionClosed, Live
    <2> QED BY <2>1, <2>2, QuietSettles
  <1> QED BY <1>1, <1>2, <1>3

-----------------------------------------------------------------------------
(* What the invariants say of the establishment e that thread t works on. *)
LEMMA AtEs ==
    ASSUME IInv, SettleInv, NEW t \in Threads, ref[t] \in Threads
    PROVE  LET e == es[ref[t]] IN
           /\ e \in Est
           /\ isEnd(e) => \/ EndedAtConnect(e)
                          \/ ~isEstablishing(e.active) /\ ~isEstablishing(e.passive)
           /\ EndedAtConnect(e) =>
                  /\ establishments = ref[t]
                  /\ \A b \in Threads : pc[b] = "remove" => ref[b] # ref[t]
           /\ EsFree(t) => \A b \in Threads : pc[b] \in Building => ref[b] # ref[t]
           /\ ~isEstablishing(e.active) =>
                  \A c \in Callers : pc[c] \in ActiveRunning => ref[c] # ref[t]
           /\ t \in Callers /\ pc[t] \in ActiveRunning =>
                  \A c \in Callers \ {t} : pc[c] \in ActiveRunning => ref[c] # ref[t]
  <1>1. es[ref[t]] \in Est
    BY DEF IInv, TypeOK, Est
  <1>2. isEnd(es[ref[t]]) =>
            \/ EndedAtConnect(es[ref[t]])
            \/ ~isEstablishing(es[ref[t]].active) /\ ~isEstablishing(es[ref[t]].passive)
    BY DEF SettleInv, EndsWhenOver
  <1>3. EndedAtConnect(es[ref[t]]) =>
            /\ establishments = ref[t]
            /\ \A b \in Threads : pc[b] = "remove" => ref[b] # ref[t]
    BY DEF SettleInv, StaleStays
  <1>4. EsFree(t) => \A b \in Threads : pc[b] \in Building => ref[b] # ref[t]
    BY ThreadsAssumption DEF EsFree, IInv, MutexInv
  <1>5. \A c \in Callers : pc[c] \in ActiveRunning => isEstablishing(es[ref[c]].active)
    BY DEF IInv, OwnActive
  <1>6. t \in Callers /\ pc[t] \in ActiveRunning =>
            \A c \in Callers \ {t} : pc[c] \in ActiveRunning => ref[c] # ref[t]
    BY DEF IInv, OwnActive
  <1> QED BY <1>1, <1>2, <1>3, <1>4, <1>5, <1>6

LEMMA StartActiveSettles ==
    ASSUME IInv, SettleInv, NEW t \in Threads, StartActiveEstablish(t)
    PROVE  SettleInv'
  <1> DEFINE e == es[ref[t]]
  <1>1. /\ t \in Callers /\ t \notin Conns /\ pc[t] = "start" /\ ~EsHeld(t)
        /\ UNCHANGED <<svcState, establishments, ref, sess>>
    BY ThreadsAssumption DEF StartActiveEstablish, service, maps, links, EsHeld, Building
  <1>2. ref[t] \in Threads
    BY <1>1 DEF IInv, RefInv, Early
  <1>3. PICK now \in Times : es' = [es EXCEPT ![ref[t]] = startActive(e, now)]
    BY DEF StartActiveEstablish, SetEs
  <1>4. CASE canStartActive(e)
    <2> DEFINE f == startActive(e, now)
    <2>1. /\ f \in Est /\ ~isEnd(f) /\ ~isEnd(e) /\ ~isEstablishing(e.active)
          /\ f.active.state = establishConnect
      BY <1>2, <1>4, AtEs, StartActiveOp, StartsConnecting
    <2>2. \A c \in Callers : pc[c] \in ActiveRunning => ref[c] # ref[t]
      BY <1>2, <2>1, AtEs
    <2>3. pc' = [pc EXCEPT ![t] = "recheck"]
      BY <1>4 DEF StartActiveEstablish, Goto
    <2>4. es' = [es EXCEPT ![ref[t]] = f]
      BY <1>3
    <2> HIDE DEF f
    <2> QED
      BY <1>1, <1>2, <2>1, <2>2, <2>3, <2>4, EsSettles DEF PCs, EndedAtConnect
  <1>5. CASE ~canStartActive(e)
    <2>1. es' = es
      BY <1>2, <1>3, <1>5 DEF startActive, IInv, TypeOK
    <2>2. pc' = [pc EXCEPT ![t] = "wait"]
      BY <1>5 DEF StartActiveEstablish, Goto
    <2> QED
      BY <1>1, <2>1, <2>2, MoveSettles DEF PCs, ActiveRunning, Live
  <1> QED BY <1>4, <1>5

(* Whoever starts a passive attempt finds no session alive. *)
LEMMA StartPassiveSettles ==
    ASSUME IInv, SettleInv, NEW t \in Threads, StartPassiveEstablish(t)
    PROVE  SettleInv'
  <1> DEFINE e == es[ref[t]]
  <1>1. /\ t \in Conns /\ t \notin Callers /\ pc[t] = "start" /\ ~EsHeld(t) /\ EsFree(t)
        /\ UNCHANGED <<svcState, establishments, ref, sess>>
    BY ThreadsAssumption
    DEF StartPassiveEstablish, service, maps, links, CloseConn, EsHeld, Building
  <1>2. ref[t] \in Threads
    BY <1>1 DEF IInv, RefInv, Early
  <1>3. PICK now \in Times : es' = [es EXCEPT ![ref[t]] = startPassive(e, now)]
    BY DEF StartPassiveEstablish, SetEs
  <1>4. CASE canStartPassive(e)
    <2> DEFINE f == startPassive(e, now)
    <2>1. f \in Est /\ ~isEnd(f) /\ ~isEnd(e) /\ f.active = e.active
      BY <1>2, <1>4, AtEs, StartPassiveOp
    <2>2. \A b \in Threads : EsHeld(b) => ref[b] # ref[t]
      BY <1>1, <1>2, AtEs DEF EsHeld
    <2>3. svcState # stateClosed => \A k \in Threads : ~Live(k)
      BY <1>1, <2>1, <2>2 DEF SettleInv, PassiveSeesNone
    <2>4. pc' = [pc EXCEPT ![t] = "recheck"]
      BY <1>4 DEF StartPassiveEstablish, Goto
    <2>5. es' = [es EXCEPT ![ref[t]] = f]
      BY <1>3
    <2> HIDE DEF f
    <2> QED
      BY <1>1, <1>2, <2>1, <2>3, <2>4, <2>5, EsSettles DEF PCs, EndedAtConnect
  <1>5. CASE ~canStartPassive(e)
    <2>1. es' = es
      BY <1>2, <1>3, <1>5 DEF startPassive, IInv, TypeOK
    <2>2. pc' = [pc EXCEPT ![t] = "done"]
      BY <1>5 DEF StartPassiveEstablish, Goto
    <2> QED
      BY <1>1, <2>1, <2>2, MoveSettles DEF PCs, Live
  <1> QED BY <1>4, <1>5

(* An active attempt that goes on has its establishment to itself. *)
LEMMA HandshakeSettles ==
    ASSUME IInv, SettleInv, NEW t \in Callers,
           StartActiveHandshake(t) \/ ActiveEstablishAboutSuccess(t)
    PROVE  SettleInv'
  <1> DEFINE e == es[ref[t]]
  <1>1. /\ t \in Threads /\ t \notin Conns /\ pc[t] \in {"startHandshake", "aboutSuccess"}
        /\ ~EsHeld(t)
        /\ UNCHANGED <<svcState, establishments, ref, sess>>
    BY ThreadsAssumption
    DEF StartActiveHandshake, ActiveEstablishAboutSuccess, service, maps, links, Threads,
        EsHeld, Building
  <1>2. ref[t] \in Threads /\ pc[t] \in ActiveRunning
    BY <1>1 DEF IInv, RefInv, Early, ActiveRunning
  <1>3. ~isEnd(e) /\ (pc[t] = "startHandshake" => e.active.state = establishConnect)
    BY <1>2 DEF SettleInv, RunsUnended
  <1>4. e \in Est
    BY <1>1, <1>2, AtEs
  <1>5. PICK f \in Est : es' = [es EXCEPT ![ref[t]] = f] /\ f.state = e.state
    BY <1>4, HandshakeOp, AboutSuccessOp
    DEF StartActiveHandshake, ActiveEstablishAboutSuccess, SetEs
  <1>6. PICK l \in {"handshake", "complete"} : pc' = [pc EXCEPT ![t] = l]
    <2>1. CASE StartActiveHandshake(t)
      <3>1. canStartActiveHandshake(e)
        BY <1>3, <2>1
        DEF StartActiveHandshake, canStartActiveHandshake, isStarted, canChangeState,
            establishConnect, establishHandshake
      <3> QED BY <2>1, <3>1 DEF StartActiveHandshake, Goto
    <2>2. CASE ActiveEstablishAboutSuccess(t)
      BY <2>2 DEF ActiveEstablishAboutSuccess, Goto
    <2> QED BY <2>1, <2>2
  <1>7. ~isEnd(f)
    BY <1>3, <1>5 DEF isEnd
  <1>8. \A c \in Callers \ {t} : pc[c] \in ActiveRunning => ref[c] # ref[t]
    BY <1>1, <1>2, AtEs
  <1> QED
    BY <1>1, <1>2, <1>3, <1>5, <1>6, <1>7, <1>8, EsSettles DEF PCs, EndedAtConnect

(* A session is found: the establishment ends, and stays in the map. *)
LEMMA EndExistingSettles ==
    ASSUME IInv, SettleInv, NEW t \in Threads, EndExisting(t)
    PROVE  SettleInv'
  <1> DEFINE e == es[ref[t]]
             f == end(e, got[t])
  <1>1. /\ pc[t] = "endExisting" /\ ~EsHeld(t) /\ EsFree(t)
        /\ UNCHANGED <<svcState, establishments, ref, sess>>
        /\ es' = [es EXCEPT ![ref[t]] = f]
        /\ pc' = [pc EXCEPT ![t] = "wait"]
    BY DEF EndExisting, SetEs, Goto, service, maps, links, EsHeld, Building
  <1>2. t \in Callers /\ t \notin Conns
    BY <1>1, ThreadsAssumption DEF SettleInv, PassiveRecheckFindsNothing, Threads
  <1>3. ref[t] \in Threads /\ pc[t] \in ActiveRunning
    BY <1>1 DEF IInv, RefInv, Early, ActiveRunning
  <1>4. ~isEnd(e) /\ e.active.state = establishConnect
    BY <1>1, <1>2, <1>3 DEF SettleInv, RunsUnended
  <1>5. f \in Est /\ isEnd(f) /\ f.active = e.active
    BY <1>3, AtEs, EndOp DEF IInv, TypeOK
  <1>6. EndedAtConnect(f)
    BY <1>4, <1>5 DEF EndedAtConnect
  <1>7. \A b \in Threads : pc[b] \in Building => ref[b] # ref[t]
    BY <1>1, <1>3, AtEs
  <1>8. establishments = ref[t] /\ \A b \in Threads : pc[b] = "remove" => ref[b] # ref[t]
    BY <1>3, <1>4, <1>7 DEF IInv, UnendedInMap, Building
  <1>9. \A c \in Callers \ {t} : pc[c] \in ActiveRunning => ref[c] # ref[t]
    BY <1>2, <1>3, AtEs
  <1> HIDE DEF f
  <1> QED
    BY <1>1, <1>2, <1>3, <1>5, <1>6, <1>8, <1>9, EsSettles DEF PCs, ActiveRunning

(* An attempt that is over: its thread waits, or ends the establishment. *)
LEMMA AttemptOverSettles ==
    ASSUME IInv, SettleInv, NEW t \in Threads, NEW f \in Est, NEW other,
           pc[t] \in {"success", "attemptFail"},
           EsFree(t),
           f.state = es[ref[t]].state,
           \/ t \in Callers /\ ~isEstablishing(f.active)
           \/ t \in Conns /\ f.active = es[ref[t]].active,
           attemptOver(t, f, other),
           UNCHANGED <<svcState, establishments, ref, sess>>
    PROVE  SettleInv'
  <1> DEFINE e == es[ref[t]]
  <1>1. ref[t] \in Threads /\ ~EsHeld(t) /\ pc[t] \in ActiveRunning \cap PassiveRunning
    BY DEF IInv, RefInv, Early, EsHeld, Building, ActiveRunning, PassiveRunning
  <1>2. es' = [es EXCEPT ![ref[t]] = f]
    BY DEF attemptOver, SetEs
  <1>3. PICK l \in {"wait", "fail", "create"} : pc' = [pc EXCEPT ![t] = l]
    BY DEF attemptOver, establishEnd, Goto
  <1>4. isEnd(e) <=> isEnd(f)
    BY DEF isEnd
  <1>5. isEnd(e) => /\ t \in Conns /\ f.active = e.active
                    /\ EndedAtConnect(e) /\ EndedAtConnect(f)
    <2> SUFFICES ASSUME isEnd(e)
                 PROVE  /\ t \in Conns /\ f.active = e.active
                        /\ EndedAtConnect(e) /\ EndedAtConnect(f)
      OBVIOUS
    <2>1. t \notin Callers
      BY <1>1 DEF SettleInv, RunsUnended
    <2>2. t \in Conns /\ f.active = e.active
      BY <2>1
    <2>3. e.passive.state = establishHandshake
      BY <1>1, <2>2 DEF IInv, OwnPassive
    <2>4. isEstablishing(e.passive)
      BY <2>3
      DEF isEstablishing, isStarted, attemptIsEnd, establishHandshake, establishAboutSuccess
    <2>5. EndedAtConnect(e)
      BY <1>1, <2>4, AtEs
    <2> QED BY <1>4, <2>2, <2>5 DEF EndedAtConnect
  <1>6. EndedAtConnect(f) =>
            /\ establishments = ref[t]
            /\ \A b \in Threads : pc[b] = "remove" => ref[b] # ref[t]
    BY <1>1, <1>4, <1>5, AtEs DEF EndedAtConnect
  <1>7. \A c \in Callers \ {t} :
            pc[c] \in ActiveRunning /\ ref[c] = ref[t] => ~isEnd(f) /\ f.active = e.active
    <2> SUFFICES ASSUME NEW c \in Callers \ {t}, pc[c] \in ActiveRunning, ref[c] = ref[t]
                 PROVE  ~isEnd(f) /\ f.active = e.active
      OBVIOUS
    <2>1. ~isEnd(f)
      BY <1>4 DEF SettleInv, RunsUnended
    <2>2. t \notin Callers
      BY <1>1, AtEs
    <2> QED BY <2>1, <2>2
  <1> QED
    BY <1>1, <1>2, <1>3, <1>4, <1>5, <1>6, <1>7, EsSettles
    DEF PCs, Building, ActiveRunning

LEMMA OverStepsSettle ==
    ASSUME IInv, SettleInv, NEW t \in Threads,
           \/ ActiveEstablishSuccess(t) \/ ActiveEstablishFail(t)
           \/ PassiveEstablishSuccess(t) \/ PassiveEstablishFail(t)
    PROVE  SettleInv'
  <1> DEFINE e == es[ref[t]]
  <1>1. /\ pc[t] \in {"success", "attemptFail"} /\ EsFree(t)
        /\ UNCHANGED <<svcState, establishments, ref, sess>>
    BY DEF ActiveEstablishSuccess, ActiveEstablishFail, PassiveEstablishSuccess,
           PassiveEstablishFail, service, maps
  <1>2. ref[t] \in Threads
    BY <1>1 DEF IInv, RefInv, Early
  <1>3. e \in Est
    BY <1>2, AtEs
  <1>4. CASE ActiveEstablishSuccess(t) /\ canActiveSuccess(e)
    <2> DEFINE f == activeSuccess(e, t)
    <2>1. t \in Callers /\ attemptOver(t, f, f.passive)
      BY <1>4 DEF ActiveEstablishSuccess
    <2>2. f \in Est /\ f.state = e.state /\ ~isEstablishing(f.active)
      BY <1>3, <1>4, OverOps DEF Over
    <2> HIDE DEF f
    <2> QED BY <1>1, <2>1, <2>2, AttemptOverSettles
  <1>5. CASE ActiveEstablishFail(t) /\ canActiveFail(e)
    <2> DEFINE f == activeFail(e)
    <2>1. t \in Callers /\ attemptOver(t, f, f.passive)
      BY <1>5 DEF ActiveEstablishFail
    <2>2. f \in Est /\ f.state = e.state /\ ~isEstablishing(f.active)
      BY <1>3, <1>5, OverOps DEF Over
    <2> HIDE DEF f
    <2> QED BY <1>1, <2>1, <2>2, AttemptOverSettles
  <1>6. CASE PassiveEstablishSuccess(t) /\ canPassiveSuccess(e)
    <2> DEFINE f == passiveSuccess(e, t)
    <2>1. t \in Conns /\ attemptOver(t, f, f.active)
      BY <1>6 DEF PassiveEstablishSuccess
    <2>2. f \in Est /\ f.state = e.state /\ f.active = e.active
      BY <1>3, <1>6, OverOps DEF Over
    <2> HIDE DEF f
    <2> QED BY <1>1, <2>1, <2>2, AttemptOverSettles
  <1>7. CASE PassiveEstablishFail(t) /\ canPassiveFail(e)
    <2> DEFINE f == passiveFail(e)
    <2>1. t \in Conns /\ attemptOver(t, f, f.active)
      BY <1>7 DEF PassiveEstablishFail
    <2>2. f \in Est /\ f.state = e.state /\ f.active = e.active
      BY <1>3, <1>7, OverOps DEF Over
    <2> HIDE DEF f
    <2> QED BY <1>1, <2>1, <2>2, AttemptOverSettles
  <1>8. CASE /\ ~(ActiveEstablishSuccess(t) /\ canActiveSuccess(e))
             /\ ~(ActiveEstablishFail(t) /\ canActiveFail(e))
             /\ ~(PassiveEstablishSuccess(t) /\ canPassiveSuccess(e))
             /\ ~(PassiveEstablishFail(t) /\ canPassiveFail(e))
    <2>1. pc' = [pc EXCEPT ![t] = "wait"] /\ es' = es
      BY <1>8 DEF ActiveEstablishSuccess, ActiveEstablishFail, PassiveEstablishSuccess,
                  PassiveEstablishFail, Goto
    <2> QED
      BY <1>1, <2>1, MoveSettles DEF PCs, ActiveRunning, Live, EsHeld, Building
  <1> QED BY <1>4, <1>5, <1>6, <1>7, <1>8

(* establishEnd ends what has no attempt running. *)
LEMMA EndSettles ==
    ASSUME IInv, SettleInv, NEW t \in Threads, Finish(t) \/ EstablishEndFailed(t)
    PROVE  SettleInv'
  <1> DEFINE e == es[ref[t]]
  <1>1. /\ EsHeld(t) /\ pc[t] \in Building /\ pc[t] \notin Early \cup {"done", "lastLook"}
        /\ UNCHANGED <<svcState, establishments, ref, sess>>
    BY DEF Finish, EstablishEndFailed, service, maps, links, EsHeld, Building, Early
  <1>2. ref[t] \in Threads
    BY <1>1 DEF IInv, RefInv
  <1>3. ~isEstablishing(e.active) /\ ~isEstablishing(e.passive)
    BY <1>1 DEF IInv, EndInv
  <1>4. PICK s \in Threads \cup {None} : es' = [es EXCEPT ![ref[t]] = end(e, s)]
    BY DEF Finish, EstablishEndFailed, SetEs, IInv, TypeOK
  <1> DEFINE f == end(e, s)
  <1>5. PICK l \in {"wait", "remove"} : pc' = [pc EXCEPT ![t] = l]
    BY DEF Finish, EstablishEndFailed, Goto
  <1>6. f \in Est /\ isEnd(f) /\ f.active = e.active /\ f.passive = e.passive
    BY <1>2, AtEs, EndOp
  <1>7. ~EndedAtConnect(f)
    BY <1>3, <1>6, RecheckRuns DEF EndedAtConnect
  <1>8. \A c \in Callers : pc[c] \in ActiveRunning => ref[c] # ref[t]
    BY <1>2, <1>3, AtEs
  <1>9. es' = [es EXCEPT ![ref[t]] = f]
    BY <1>4
  <1>10. ~isEstablishing(f.active) /\ ~isEstablishing(f.passive)
    BY <1>3, <1>6
  <1>11. l \in PCs /\ l \notin ActiveRunning /\ l \notin {"endExisting", "start", "recheck"}
    BY <1>5 DEF PCs, Building, ActiveRunning
  <1> HIDE DEF f
  <1> QED
    BY <1>1, <1>2, <1>5, <1>6, <1>7, <1>8, <1>9, <1>10, <1>11, EsSettles

(* Until it is published, an establishment that is ending is the map entry. *)
LEMMA HeldInMap ==
    ASSUME IInv, NEW t \in Threads, EsHeld(t), pc[t] # "finish"
    PROVE  /\ ref[t] \in Threads /\ ~isEnd(es[ref[t]])
           /\ establishments = ref[t]
  <1>1. ref[t] \in Threads /\ ~isEnd(es[ref[t]])
    BY DEF IInv, RefInv, EndInv, EsHeld, Building, Early
  <1>2. \A b \in Threads : pc[b] = "finish" => ref[b] # ref[t]
    BY <1>1 DEF IInv, MutexInv, EsHeld, Building
  <1> QED BY <1>1, <1>2 DEF IInv, UnendedInMap

LEMMA GetSettles ==
    ASSUME IInv, SettleInv, NEW t \in Threads,
           \/ t \in Callers /\ ConnectGetEstablishment(t)
           \/ t \in Conns /\ OnPassiveConn(t)
    PROVE  SettleInv'
  <1> USE ThreadsAssumption DEF SettleInv
  <1>1. /\ UNCHANGED <<svcState, sessions, es, sess>>
        /\ pc[t] \in {"getEstablishment", "passiveConn"}
    BY DEF ConnectGetEstablishment, OnPassiveConn, service, links, CloseConn
  <1>2. CASE pc' = [pc EXCEPT ![t] = "done"] /\ UNCHANGED <<establishments, ref>>
    BY <1>1, <1>2, MoveSettles DEF PCs, EsHeld, Building, ActiveRunning, Live
  <1>3. CASE getOrCreateEstablishment(t, "start")
    <2>0. pc \in [Threads -> PCs] /\ ref \in [Threads -> Threads \cup {None}]
      BY DEF IInv, TypeOK
    <2>1. \A u \in Threads : pc'[u] = IF u = t THEN "start" ELSE pc[u]
      BY <1>3, <2>0 DEF getOrCreateEstablishment, Goto
    <2>2. /\ \A u \in Threads \ {t} : ref'[u] = ref[u]
          /\ establishments' = ref'[t]
          /\ establishments' = IF establishments # None THEN establishments ELSE t
      BY <1>3, <2>0 DEF getOrCreateEstablishment
    <2>3. EndsWhenOver' /\ PassiveRecheckFindsNothing'
      BY <1>1, <2>1 DEF EndsWhenOver, EndedAtConnect, PassiveRecheckFindsNothing, Threads
    <2>4. RunsUnended'
      BY <1>1, <2>1, <2>2 DEF RunsUnended, Threads, ActiveRunning
    <2>5. StaleStays'
      BY <1>1, <2>1, <2>2 DEF StaleStays, EndedAtConnect
    <2>6. \A b \in Threads : EsHeld(b) => EsHeld(b)' /\ ref'[b] = ref[b]
      BY <1>1, <2>1, <2>2 DEF EsHeld, Building
    <2>7. PassiveSeesNone'
      <3> SUFFICES ASSUME svcState # stateClosed, NEW p \in Conns, NEW k \in Threads, Live(k)
                   PROVE  /\ pc'[p] # "recheck"
                          /\ pc'[p] = "start" =>
                                 \/ isEnd(es[ref'[p]])
                                 \/ \E b \in Threads : EsHeld(b)' /\ ref'[b] = ref'[p]
        BY <1>1 DEF PassiveSeesNone, Live
      <3>1. CASE p # t
        BY <2>1, <2>2, <2>6, <3>1 DEF PassiveSeesNone, Threads
      <3>2. CASE p = t
        <4>1. getSession = None
          BY <1>3, <2>0, <2>1, <3>2 DEF OnPassiveConn, Goto, Threads
        <4>2. PICK b \in Threads : Builds(b, k)
          BY <4>1 DEF IInv, LiveReachable, getSession
        <4>3. EsHeld(b) /\ establishments = ref[b] /\ ref[b] \in Threads
          BY <4>2, HeldInMap DEF Builds, EsHeld, Building
        <4> QED BY <2>1, <2>2, <2>6, <3>2, <4>3
      <3> QED BY <3>1, <3>2
    <2> QED BY <2>3, <2>4, <2>5, <2>7
  <1> QED BY <1>2, <1>3 DEF ConnectGetEstablishment, OnPassiveConn, Goto

LEMMA CreateSessionSettles ==
    ASSUME IInv, SettleInv, NEW t \in Threads, CreateSession(t)
    PROVE  SettleInv'
  <1> USE ThreadsAssumption DEF SettleInv
  <1>0. /\ UNCHANGED <<svcState, establishments, es, ref>>
        /\ pc[t] = "create" /\ EsHeld(t)
        /\ pc \in [Threads -> PCs] /\ sess \in [Threads -> 0 .. 2]
    BY DEF CreateSession, service, maps, EsHeld, Building, IInv, TypeOK, stateInit, stateClosed
  <1>1. got[t] \in Threads /\ ref[t] \in Threads /\ ~isEnd(es[ref[t]])
        /\ establishments = ref[t] /\ ~isEstablishing(es[ref[t]].passive)
    BY <1>0, HeldInMap DEF IInv, KeptInv, EndInv
  <1>2. CASE Goto(t, "fail") /\ CloseSession(got[t])
    BY <1>0, <1>1, <1>2, CloseMakesNone, MoveSettles DEF Goto, PCs, Building, ActiveRunning
  <1>3. CASE Goto(t, "lockSession") /\ sess' = [sess EXCEPT ![got[t]] = stateStarted]
    <2>1. \A u \in Threads : pc'[u] = IF u = t THEN "lockSession" ELSE pc[u]
      BY <1>0, <1>3 DEF Goto
    <2>2. EndsWhenOver' /\ PassiveRecheckFindsNothing'
      BY <1>0, <2>1 DEF EndsWhenOver, EndedAtConnect, PassiveRecheckFindsNothing, Threads
    <2>3. RunsUnended'
      BY <1>0, <2>1 DEF RunsUnended, Threads, ActiveRunning
    <2>4. StaleStays'
      BY <1>0, <2>1 DEF StaleStays, EndedAtConnect
    <2>5. PassiveSeesNone'
      <3> SUFFICES ASSUME NEW p \in Conns
                   PROVE  /\ pc'[p] # "recheck"
                          /\ pc'[p] = "start" =>
                                 \/ isEnd(es[ref[p]])
                                 \/ \E b \in Threads : EsHeld(b)' /\ ref[b] = ref[p]
        BY <1>0 DEF PassiveSeesNone
      <3>0. p \in Threads
        BY DEF Threads
      <3>1. \A b \in Threads : EsHeld(b) => EsHeld(b)'
        BY <2>1 DEF EsHeld, Building
      <3>2. ASSUME pc'[p] = "recheck" PROVE FALSE
        <4>1. pc[p] = "recheck" /\ ref[p] \in Threads
          BY <2>1, <3>0, <3>2 DEF IInv, RefInv, Early
        <4>2. es[ref[p]].passive.state = establishHandshake
          BY <4>1 DEF IInv, OwnPassive, PassiveRunning
        <4>3. isEstablishing(es[ref[p]].passive)
          BY <4>2
          DEF isEstablishing, isStarted, attemptIsEnd, establishHandshake,
              establishAboutSuccess
        <4>4. CASE isEnd(es[ref[p]])
          BY <1>1, <3>0, <4>1, <4>3, <4>4, AtEs
        <4>5. CASE ~isEnd(es[ref[p]])
          <5>1. \A b \in Threads : EsHeld(b) => ref[b] # ref[p]
            BY <4>3 DEF IInv, EndInv
          <5> QED
            BY <1>0, <1>1, <3>0, <4>1, <4>3, <4>5, <5>1
            DEF IInv, UnendedInMap, EsHeld, Building
        <4> QED BY <4>4, <4>5
      <3>3. ASSUME pc'[p] = "start", ~isEnd(es[ref[p]])
            PROVE  \E b \in Threads : EsHeld(b)' /\ ref[b] = ref[p]
        <4>1. pc[p] = "start" /\ ref[p] \in Threads
          BY <2>1, <3>0, <3>3 DEF IInv, RefInv, Early
        <4>2. \E b \in Threads : EsHeld(b) /\ ref[b] = ref[p]
          BY <1>0, <1>1, <3>0, <3>3, <4>1 DEF IInv, UnendedInMap, EsHeld, Building
        <4> QED BY <3>1, <4>2
      <3> QED BY <3>2, <3>3
    <2> QED BY <2>2, <2>3, <2>4, <2>5
  <1> QED BY <1>2, <1>3 DEF CreateSession

(* The establishment leaves the map when it is published or has failed. *)
LEMMA LeavesMapSettles ==
    ASSUME IInv, SettleInv, NEW t \in Threads, Publish(t) \/ RemoveEstablishment(t)
    PROVE  SettleInv'
  <1> USE ThreadsAssumption DEF SettleInv
  <1>0. UNCHANGED <<svcState, es, ref>> /\ pc \in [Threads -> PCs]
    BY DEF Publish, RemoveEstablishment, service, maps, IInv, TypeOK
  <1>1. CASE Publish(t) /\ svcState # stateStarted
    <2> HIDE DEF SettleInv
    <2>1. got[t] \in Threads /\ UNCHANGED establishments /\ CloseSession(got[t])
      BY <1>1 DEF IInv, KeptInv, Publish, maps
    <2>2. \A k \in Threads : Live(k)' => Live(k)
      BY <2>1, CloseMakesNone
    <2>3. PICK l \in {"fail"} : pc' = [pc EXCEPT ![t] = l]
      BY <1>1 DEF Publish, Goto
    <2> QED
      BY <1>0, <2>1, <2>2, <2>3, MoveSettles DEF PCs, Building, ActiveRunning
  <1>2. CASE RemoveEstablishment(t) \/ (Publish(t) /\ svcState = stateStarted)
    <2>1. /\ pc[t] \in {"publish", "remove"}
          /\ establishments' = IF establishments = ref[t] THEN None ELSE establishments
          /\ UNCHANGED sess
      BY <1>2 DEF Publish, RemoveEstablishment, links
    <2>2. PICK l \in {"finish", "wait"} :
              /\ \A u \in Threads : pc'[u] = IF u = t THEN l ELSE pc[u]
              /\ pc[t] = "publish" => l = "finish"
      BY <1>0, <1>2 DEF Publish, RemoveEstablishment, Goto
    <2>3. ref[t] \in Threads /\ ~EndedAtConnect(es[ref[t]])
      <3>1. CASE pc[t] = "publish"
        BY <3>1, HeldInMap DEF EsHeld, Building, EndedAtConnect
      <3>2. CASE pc[t] = "remove"
        BY <3>2 DEF IInv, RefInv, Early, StaleStays
      <3> QED BY <2>1, <3>1, <3>2
    <2>4. EndsWhenOver' /\ PassiveRecheckFindsNothing'
      BY <1>0, <2>2 DEF EndsWhenOver, EndedAtConnect, PassiveRecheckFindsNothing, Threads
    <2>5. RunsUnended'
      BY <1>0, <2>2 DEF RunsUnended, Threads, ActiveRunning
    <2>6. StaleStays'
      BY <1>0, <2>1, <2>2, <2>3 DEF StaleStays, EndedAtConnect
    <2>7. PassiveSeesNone'
      <3>1. \A b \in Threads : EsHeld(b) => EsHeld(b)'
        BY <2>1, <2>2 DEF EsHeld, Building
      <3> QED BY <1>0, <2>1, <2>2, <3>1 DEF PassiveSeesNone, Live, Threads
    <2> QED BY <2>4, <2>5, <2>6, <2>7
  <1> QED BY <1>1, <1>2

-----------------------------------------------------------------------------
LEMMA InitSettles == Init => SettleInv
  <1>1. ~isEnd(NewEstablishment)
    BY DEF isEnd, NewEstablishment, establishmentEnd
  <1>2. Init => EndsWhenOver /\ PassiveRecheckFindsNothing /\ RunsUnended
    BY <1>1 DEF Init, EndsWhenOver, PassiveRecheckFindsNothing, RunsUnended, Threads,
                ActiveRunning
  <1>3. Init => StaleStays /\ PassiveSeesNone
    BY <1>1 DEF Init, StaleStays, EndedAtConnect, PassiveSeesNone, Threads
  <1> QED BY <1>2, <1>3 DEF SettleInv

LEMMA SettleInvNext == IInv /\ SettleInv /\ [Next]_vars => SettleInv'
  <1> SUFFICES ASSUME IInv, SettleInv, [Next]_vars PROVE SettleInv'
    OBVIOUS
  <1>0. Callers \subseteq Threads /\ Conns \subseteq Threads
    BY DEF Threads
  <1>1. CASE \/ Start \/ Close \/ CloseRange \/ CloseDelete
             \/ \E k \in Threads : SessionOnClosed(k) \/ onSessionClosed(k)
             \/ UNCHANGED vars
    BY <1>1, ServiceStepsSettle
  <1>2. CASE \E c \in Callers : Connect(c) \/ CallerStep(c)
    BY <1>0, <1>2, MoveStepsSettle, GetSettles, StartActiveSettles, HandshakeSettles,
       OverStepsSettle DEF CallerStep
  <1>3. CASE \E p \in Conns : Accept(p) \/ ConnStep(p)
    BY <1>0, <1>3, MoveStepsSettle, GetSettles, StartPassiveSettles, OverStepsSettle
    DEF ConnStep
  <1>4. CASE \E t \in Threads : CommonStep(t)
    BY <1>4, RecheckSettles, EndExistingSettles, CreateSessionSettles, MoveStepsSettle,
       LeavesMapSettles, EndSettles DEF CommonStep
  <1> QED BY <1>1, <1>2, <1>3, <1>4 DEF Next

LEMMA SettleInvariance == Spec => []SettleInv
  BY InitSettles, SettleInvNext, Invariance, PTL DEF Spec

-----------------------------------------------------------------------------
(* The history: EndExisting alone ends an establishment at establishConnect *)

(* The establishment of thread t becomes f, and is recorded as f tells. *)
LEMMA EsRecorded ==
    ASSUME IInv, Recorded, NEW t \in Threads, NEW f, ref[t] \in Threads,
           es' = [es EXCEPT ![ref[t]] = f],
           EndedAtConnect(f) <=> ref[t] \in found',
           \A u \in Threads \ {ref[t]} : u \in found' <=> u \in found
    PROVE  Recorded'
  <1>1. \A u \in Threads : es'[u] = IF u = ref[t] THEN f ELSE es[u]
    BY DEF IInv, TypeOK
  <1> QED BY <1>1 DEF Recorded, EndedAtConnect

(* Starting an attempt, or going on with it, is for one that has not ended. *)
LEMMA GoOnRecorded ==
    ASSUME IInv, SettleInv, Recorded, NEW t \in Threads,
           \/ StartActiveEstablish(t) \/ StartPassiveEstablish(t)
           \/ t \in Callers /\ (StartActiveHandshake(t) \/ ActiveEstablishAboutSuccess(t))
    PROVE  Recorded'
  <1> DEFINE e == es[ref[t]]
  <1>1. pc[t] \in {"start", "startHandshake", "aboutSuccess"} /\ UNCHANGED found
    BY DEF StartActiveEstablish, StartPassiveEstablish, StartActiveHandshake,
           ActiveEstablishAboutSuccess, service
  <1>2. ref[t] \in Threads
    BY <1>1 DEF IInv, RefInv, Early
  <1>3. e \in Est
    BY <1>2, AtEs
  <1>4. CASE UNCHANGED es
    BY <1>1, <1>4 DEF Recorded, EndedAtConnect
  <1>5. ASSUME NEW f, es' = [es EXCEPT ![ref[t]] = f], ~isEnd(e), ~isEnd(f)
        PROVE  Recorded'
    BY <1>1, <1>2, <1>5, EsRecorded DEF Recorded, EndedAtConnect
  <1>6. CASE StartActiveEstablish(t)
    <2>1. PICK now \in Times : es' = [es EXCEPT ![ref[t]] = startActive(e, now)]
      BY <1>6 DEF StartActiveEstablish, SetEs
    <2>2. canStartActive(e) => ~isEnd(e) /\ ~isEnd(startActive(e, now))
      BY <1>3, StartActiveOp
    <2>3. ~canStartActive(e) => es' = es
      BY <1>2, <2>1 DEF startActive, IInv, TypeOK
    <2> QED BY <1>4, <1>5, <2>1, <2>2, <2>3
  <1>7. CASE StartPassiveEstablish(t)
    <2>1. PICK now \in Times : es' = [es EXCEPT ![ref[t]] = startPassive(e, now)]
      BY <1>7 DEF StartPassiveEstablish, SetEs
    <2>2. canStartPassive(e) => ~isEnd(e) /\ ~isEnd(startPassive(e, now))
      BY <1>3, StartPassiveOp
    <2>3. ~canStartPassive(e) => es' = es
      BY <1>2, <2>1 DEF startPassive, IInv, TypeOK
    <2> QED BY <1>4, <1>5, <2>1, <2>2, <2>3
  <1>8. CASE t \in Callers /\ (StartActiveHandshake(t) \/ ActiveEstablishAboutSuccess(t))
    <2>1. PICK f \in Est : es' = [es EXCEPT ![ref[t]] = f] /\ f.state = e.state
      BY <1>3, <1>8, HandshakeOp, AboutSuccessOp
      DEF StartActiveHandshake, ActiveEstablishAboutSuccess, SetEs
    <2>2. ~isEnd(e)
      BY <1>1, <1>8 DEF SettleInv, RunsUnended, ActiveRunning, StartActiveHandshake,
         ActiveEstablishAboutSuccess
    <2> QED BY <1>5, <2>1, <2>2 DEF isEnd
  <1> QED BY <1>6, <1>7, <1>8

(* An attempt that is over does not end its establishment in the same step. *)
LEMMA OverRecorded ==
    ASSUME IInv, SettleInv, Recorded, NEW t \in Threads,
           \/ ActiveEstablishSuccess(t) \/ ActiveEstablishFail(t)
           \/ PassiveEstablishSuccess(t) \/ PassiveEstablishFail(t)
    PROVE  Recorded'
  <1> DEFINE e == es[ref[t]]
  <1>1. pc[t] \in {"success", "attemptFail"} /\ UNCHANGED found
    BY DEF ActiveEstablishSuccess, ActiveEstablishFail, PassiveEstablishSuccess,
           PassiveEstablishFail, service
  <1>2. ref[t] \in Threads
    BY <1>1 DEF IInv, RefInv, Early
  <1>3. e \in Est
    BY <1>2, AtEs
  <1>4. CASE UNCHANGED es
    BY <1>1, <1>4 DEF Recorded, EndedAtConnect
  <1>5. ASSUME NEW f, es' = [es EXCEPT ![ref[t]] = f], f.state = e.state,
               ~isEnd(e) \/ f.active = e.active
        PROVE  Recorded'
    BY <1>1, <1>2, <1>5, EsRecorded DEF Recorded, EndedAtConnect, isEnd
  <1>6. CASE ActiveEstablishSuccess(t) \/ ActiveEstablishFail(t)
    <2>1. ~isEnd(e)
      BY <1>1, <1>6 DEF SettleInv, RunsUnended, ActiveRunning, ActiveEstablishSuccess,
         ActiveEstablishFail
    <2>2. CASE ActiveEstablishSuccess(t) /\ canActiveSuccess(e)
      BY <1>3, <1>5, <2>1, <2>2, OverOps DEF Over, ActiveEstablishSuccess, attemptOver, SetEs
    <2>3. CASE ActiveEstablishFail(t) /\ canActiveFail(e)
      BY <1>3, <1>5, <2>1, <2>3, OverOps DEF Over, ActiveEstablishFail, attemptOver, SetEs
    <2>4. CASE /\ ~(ActiveEstablishSuccess(t) /\ canActiveSuccess(e))
               /\ ~(ActiveEstablishFail(t) /\ canActiveFail(e))
      BY <1>4, <1>6, <2>4 DEF ActiveEstablishSuccess, ActiveEstablishFail
    <2> QED BY <2>2, <2>3, <2>4
  <1>7. CASE PassiveEstablishSuccess(t) /\ canPassiveSuccess(e)
    BY <1>3, <1>5, <1>7, OverOps DEF Over, PassiveEstablishSuccess, attemptOver, SetEs
  <1>8. CASE PassiveEstablishFail(t) /\ canPassiveFail(e)
    BY <1>3, <1>5, <1>8, OverOps DEF Over, PassiveEstablishFail, attemptOver, SetEs
  <1>9. CASE /\ PassiveEstablishSuccess(t) \/ PassiveEstablishFail(t)
             /\ ~(PassiveEstablishSuccess(t) /\ canPassiveSuccess(e))
             /\ ~(PassiveEstablishFail(t) /\ canPassiveFail(e))
    BY <1>4, <1>9 DEF PassiveEstablishSuccess, PassiveEstablishFail
  <1> QED BY <1>6, <1>7, <1>8, <1>9

(* establishEnd ends what has no attempt at establishConnect. *)
LEMMA EndRecorded ==
    ASSUME IInv, SettleInv, Recorded, NEW t \in Threads, Finish(t) \/ EstablishEndFailed(t)
    PROVE  Recorded'
  <1> DEFINE e == es[ref[t]]
  <1>1. EsHeld(t) /\ UNCHANGED found
    BY DEF Finish, EstablishEndFailed, service, EsHeld, Building
  <1>2. ref[t] \in Threads /\ ~isEnd(e) /\ ~isEstablishing(e.active)
    BY <1>1 DEF IInv, RefInv, EndInv, EsHeld, Building, Early
  <1>3. PICK s \in Threads \cup {None} : es' = [es EXCEPT ![ref[t]] = end(e, s)]
    BY DEF Finish, EstablishEndFailed, SetEs, IInv, TypeOK
  <1>4. end(e, s).active = e.active
    BY <1>2, AtEs, EndOp
  <1>5. ~EndedAtConnect(e) /\ ~EndedAtConnect(end(e, s))
    BY <1>2, <1>4, RecheckRuns DEF EndedAtConnect
  <1> QED BY <1>1, <1>2, <1>3, <1>5, EsRecorded DEF Recorded

(* A session is found: the establishment ends, and that is recorded. *)
LEMMA EndExistingRecorded ==
    ASSUME IInv, SettleInv, Recorded, NEW t \in Threads, EndExisting(t)
    PROVE  Recorded'
  <1> DEFINE e == es[ref[t]]
             f == end(e, got[t])
  <1>1. pc[t] = "endExisting" /\ es' = [es EXCEPT ![ref[t]] = f]
    BY DEF EndExisting, SetEs
  <1>2. t \in Callers /\ pc[t] \in ActiveRunning
    BY <1>1 DEF SettleInv, PassiveRecheckFindsNothing, Threads, ActiveRunning
  <1>3. ref[t] \in Threads
    BY <1>1 DEF IInv, RefInv, Early
  <1>4. ~isEnd(e) /\ e.active.state = establishConnect
    BY <1>1, <1>2 DEF SettleInv, RunsUnended
  <1>5. isEnd(f) /\ f.active = e.active
    BY <1>3, AtEs, EndOp DEF IInv, TypeOK
  <1>6. EndedAtConnect(f)
    BY <1>4, <1>5 DEF EndedAtConnect
  <1>7. found' = found \cup {ref[t]}
    BY <1>4 DEF EndExisting
  <1> HIDE DEF f
  <1> QED BY <1>1, <1>3, <1>6, <1>7, EsRecorded

LEMMA RecordedNext == IInv /\ SettleInv /\ Recorded /\ [Next]_vars => Recorded'
  <1> SUFFICES ASSUME IInv, SettleInv, Recorded, [Next]_vars PROVE Recorded'
    OBVIOUS
  <1>0. Callers \subseteq Threads /\ Conns \subseteq Threads
    BY DEF Threads
  <1>1. CASE UNCHANGED <<es, found>>
    BY <1>1 DEF Recorded, EndedAtConnect
  <1>2. CASE \/ Start \/ Close \/ CloseRange \/ CloseDelete
             \/ \E k \in Threads : SessionOnClosed(k) \/ onSessionClosed(k)
             \/ UNCHANGED vars
    BY <1>1, <1>2 DEF Start, Close, CloseRange, CloseDelete, SessionOnClosed,
       onSessionClosed, vars, service
  <1>3. ASSUME NEW c \in Callers, Connect(c) \/ CallerStep(c)
        PROVE  Recorded'
    <2>1. CASE \/ Connect(c) \/ ConnectGetEstablishment(c) \/ ActiveEstablishConnect(c)
               \/ ActiveEstablishHandshake(c) \/ ActiveComplete(c) \/ LastLook(c)
      BY <1>1, <2>1 DEF Connect, ConnectGetEstablishment, ActiveEstablishConnect,
         ActiveEstablishHandshake, ActiveComplete, LastLook, service
    <2> QED BY <1>0, <1>3, <2>1, GoOnRecorded, OverRecorded DEF CallerStep
  <1>4. ASSUME NEW p \in Conns, Accept(p) \/ ConnStep(p)
        PROVE  Recorded'
    <2>1. CASE \/ Accept(p) \/ OnPassiveConnRefuse(p) \/ OnPassiveConn(p)
               \/ PassiveEstablishHandshake(p)
      BY <1>1, <2>1 DEF Accept, OnPassiveConnRefuse, OnPassiveConn,
         PassiveEstablishHandshake, service
    <2> QED BY <1>0, <1>4, <2>1, GoOnRecorded, OverRecorded DEF ConnStep
  <1>5. ASSUME NEW t \in Threads, CommonStep(t)
        PROVE  Recorded'
    <2>1. CASE \/ Recheck(t) \/ CreateSession(t) \/ LockSession(t) \/ Publish(t)
               \/ RemoveEstablishment(t) \/ Wait(t)
      BY <1>1, <2>1 DEF Recheck, CreateSession, LockSession, Publish,
         RemoveEstablishment, Wait, service
    <2> QED BY <1>5, <2>1, EndExistingRecorded, EndRecorded DEF CommonStep
  <1> QED BY <1>2, <1>3, <1>4, <1>5 DEF Next

LEMMA RecordedInvariance == Spec => []Recorded
  <1>1. Init => Recorded
    BY DEF Init, Recorded, EndedAtConnect, isEnd, NewEstablishment, establishmentEnd
  <1> QED BY <1>1, RecordedNext, SettleInvariance, Invariance, PTL DEF Spec

(* An establishment that has ended is the work of no active attempt, and   *)
(* neither of its attempts runs any more, but for the passive one of an    *)
(* establishment that EndExisting has ended.                               *)
THEOREM EndsWhenBothAreOver == Spec => []SettledAtEnd
  <1>1. SettleInv /\ Recorded => SettledAtEnd
    <2> SUFFICES ASSUME SettleInv, Recorded, NEW u \in Threads, isEnd(es[u])
                 PROVE  /\ \A c \in Callers : ref[c] = u => pc[c] \notin ActiveRunning
                        /\ u \notin found => ~isEstablishing(es[u].active)
                                           /\ ~isEstablishing(es[u].passive)
      BY DEF SettledAtEnd
    <2>1. \A c \in Callers : ref[c] = u => pc[c] \notin ActiveRunning
      BY DEF SettleInv, RunsUnended
    <2>2. u \notin found => ~isEstablishing(es[u].active) /\ ~isEstablishing(es[u].passive)
      BY DEF SettleInv, EndsWhenOver, Recorded
    <2> QED BY <2>1, <2>2
  <1> QED BY <1>1, SettleInvariance, RecordedInvariance, PTL

(* startPassiveEstablish never finds a session when it looks again, so it  *)
(* never leaves a connection behind that nobody closes.                    *)
THEOREM PassiveSecondLookIsVain == Spec => []PassiveRecheckFindsNothing
  <1>1. SettleInv => PassiveRecheckFindsNothing
    BY DEF SettleInv
  <1> QED BY <1>1, SettleInvariance, PTL

-----------------------------------------------------------------------------
(* Who owns an open connection *)

(* An attempt that runs has not succeeded, so nothing waits with it. *)
LEMMA RunningIsNoSuccess ==
    ASSUME NEW a, isEstablishing(a) \/ a.state \in 0 .. 2
    PROVE  ~isSuccess(a)
  BY DEF isEstablishing, attemptIsEnd, isSuccess, establishAboutSuccess, establishSuccess

(* One attempt of e changes, from no success to no success. *)
LEMMA SameWaits ==
    ASSUME NEW e, NEW f, ~isEnd(e), ~isEnd(f),
           f.active = e.active \/ (~isSuccess(e.active) /\ ~isSuccess(f.active)),
           f.passive = e.passive \/ (~isSuccess(e.passive) /\ ~isSuccess(f.passive))
    PROVE  \A k \in Threads : WaitsIn(f, k) <=> WaitsIn(e, k)
  BY DEF WaitsIn, AttemptOf

(* What the end of an attempt makes of it. *)
LEMMA ActiveSuccessOp ==
    ASSUME NEW e \in Est, NEW c \in Threads, canActiveSuccess(e)
    PROVE  isSuccess(activeSuccess(e, c).active) /\ activeSuccess(e, c).active.conn = c
  <1> DEFINE b == changeState(e.active, establishSuccess)
             a == [b EXCEPT !.conn = c]
  <1>1. b \in Att /\ b.state = 4
    BY EstFields, AttFields, AttChange
    DEF canActiveSuccess, canChangeState, establishSuccess
  <1>2. a \in Att /\ a.state = 4 /\ a.conn = c
    BY <1>1, AttSetConn
  <1>3. activeSuccess(e, c) = [e EXCEPT !.active = a]
    BY DEF canActiveSuccess, activeSuccess, success
  <1> HIDE DEF a, b
  <1> QED BY <1>2, <1>3, EstSetActive DEF isSuccess, establishSuccess

LEMMA PassiveSuccessOp ==
    ASSUME NEW e \in Est, NEW c \in Threads, canPassiveSuccess(e)
    PROVE  isSuccess(passiveSuccess(e, c).passive) /\ passiveSuccess(e, c).passive.conn = c
  <1> DEFINE b == changeState(e.passive, establishSuccess)
             a == [b EXCEPT !.conn = c]
  <1>1. b \in Att /\ b.state = 4
    BY EstFields, AttFields, AttChange
    DEF canPassiveSuccess, canChangeState, establishSuccess
  <1>2. a \in Att /\ a.state = 4 /\ a.conn = c
    BY <1>1, AttSetConn
  <1>3. passiveSuccess(e, c) = [e EXCEPT !.passive = a]
    BY DEF canPassiveSuccess, passiveSuccess, success
  <1> HIDE DEF a, b
  <1> QED BY <1>2, <1>3, EstSetPassive DEF isSuccess, establishSuccess

LEMMA FailOps ==
    ASSUME NEW e \in Est
    PROVE  /\ canActiveFail(e) => ~isSuccess(activeFail(e).active)
           /\ canPassiveFail(e) => ~isSuccess(passiveFail(e).passive)
  <1> DEFINE a == fail(e.active)
             b == fail(e.passive)
  <1>1. a \in Att /\ a.state = 5 /\ b \in Att /\ b.state = 5
    BY EstFields, AttFields, AttChange DEF fail, establishFail
  <1>2. canActiveFail(e) => activeFail(e) = [e EXCEPT !.active = a]
    BY DEF canActiveFail, activeFail
  <1>3. canPassiveFail(e) => passiveFail(e) = [e EXCEPT !.passive = b]
    BY DEF canPassiveFail, passiveFail
  <1> HIDE DEF a, b
  <1>4. [e EXCEPT !.active = a].active = a /\ [e EXCEPT !.passive = b].passive = b
    BY <1>1, EstSetActive, EstSetPassive
  <1>5. canActiveFail(e) => activeFail(e).active = a
    BY <1>2, <1>4
  <1>6. canPassiveFail(e) => passiveFail(e).passive = b
    BY <1>3, <1>4
  <1> QED BY <1>1, <1>5, <1>6 DEF isSuccess, establishSuccess

(* When both attempts are over, a connection that has succeeded is the one *)
(* that is kept or the one that is dropped.                                *)
LEMMA KeptOrDropped ==
    ASSUME NEW e \in Est, NEW b \in BOOLEAN,
           ~isEstablishing(e.active), ~isEstablishing(e.passive)
    PROVE  /\ isSuccess(e.active) => e.active.conn \in {keptConn(e, b), droppedConn(e, b)}
           /\ isSuccess(e.passive) => e.passive.conn \in {keptConn(e, b), droppedConn(e, b)}
  <1>1. e.active.state \in 0 .. 5 /\ e.passive.state \in 0 .. 5
    BY EstFields, AttFields
  <1>2. \A a : a.state \in 0 .. 5 /\ ~isEstablishing(a) =>
                  ~isStarted(a) \/ isSuccess(a) \/ isFail(a)
    BY DEF isEstablishing, isStarted, attemptIsEnd, isSuccess, isFail,
           establishAboutSuccess, establishSuccess, establishFail
  <1>3. \/ ~isStarted(e.passive) \/ isSuccess(e.passive) \/ isFail(e.passive)
    BY <1>1, <1>2
  <1>4. \/ ~isStarted(e.active) \/ isSuccess(e.active) \/ isFail(e.active)
    BY <1>1, <1>2
  <1> QED
    BY <1>3, <1>4 DEF keptConn, droppedConn, keepsActive, keepsPassive

(* What a step does to the sessions: nothing that is closed keeps its      *)
(* connection, nothing that lives dies without losing it.                  *)
SessionsMove ==
    \A k \in Threads :
        /\ sess'[k] = stateClosed => conn'[k] = "closed"
        /\ Live(k) => Live(k)' \/ conn'[k] = "closed"
        /\ sess[k] # stateInit => sess'[k] # stateInit

LEMMA SameSessions ==
    ASSUME IInv, ConnsInv, UNCHANGED sess, \A k \in Threads : conn'[k] \in {conn[k], "closed"}
    PROVE  SessionsMove
  BY DEF SessionsMove, ConnsInv, OwnerInv, Live

LEMMA CloseSessionMoves ==
    ASSUME IInv, ConnsInv, NEW j \in Threads, CloseSession(j)
    PROVE  /\ SessionsMove
           /\ \A k \in Threads : conn'[k] \in {conn[k], "closed"}
           /\ conn'[j] = "closed"
  <1>0. sess \in [Threads -> 0 .. 2] /\ conn \in [Threads -> {"none", "open", "closed"}]
    BY DEF IInv, TypeOK, stateInit, stateClosed
  <1>1. CASE sess[j] = stateClosed
    BY <1>1, SameSessions DEF CloseSession, links, ConnsInv, OwnerInv
  <1>2. CASE sess[j] # stateClosed
    <2>1. /\ \A k \in Threads : sess'[k] = IF k = j THEN stateClosed ELSE sess[k]
          /\ \A k \in Threads : conn'[k] = IF k = j THEN "closed" ELSE conn[k]
      BY <1>0, <1>2 DEF CloseSession
    <2> QED
      BY <2>1 DEF SessionsMove, ConnsInv, OwnerInv, Live, stateInit, stateClosed
  <1> QED BY <1>1, <1>2

(* No thread moves. *)
LEMMA QuietConns ==
    ASSUME IInv, ConnsInv, UNCHANGED <<pc, es, ref, got>>, SessionsMove,
           \A k \in Threads : conn'[k] \in {conn[k], "closed"}
    PROVE  ConnsInv'
  <1>1. OwnerInv'
    BY DEF ConnsInv, OwnerInv, SessionsMove, Waiting, Live
  <1>2. KeepsOrCloses'
    BY DEF ConnsInv, KeepsOrCloses, SessionsMove, Waiting, EsHeld
  <1> QED BY <1>1, <1>2 DEF ConnsInv

(* Thread t moves to l; no establishment changes. *)
LEMMA MoveConns ==
    ASSUME IInv, ConnsInv, NEW t \in Threads, NEW l \in PCs,
           pc' = [pc EXCEPT ![t] = l],
           UNCHANGED <<es, ref>>, SessionsMove,
           \A k \in Threads \ {t} : conn'[k] \in {conn[k], "closed"},
           \/ conn'[t] \in {conn[t], "closed"}
           \/ l \in OwnsConn \ NoConnYet /\ ~Waiting(t),
           conn'[t] = "open" /\ l \notin OwnsConn => pc[t] \notin OwnsConn,
           t \in Callers /\ l \in NoConnYet => pc[t] \in NoConnYet,
           \A b \in Threads \ {t} : got'[b] = got[b],
           l \in Building \ {"remove"} => EsHeld(t) /\ got'[t] = got[t],
           l = "fail" => \A k \in Threads :
                             Waiting(k) /\ ref[k] = ref[t] => conn'[k] # "open",
           l # "fail" /\ EsHeld(t) => pc[t] # "fail",
           l = "finish" => got[t] \in Threads /\ sess[got[t]] # stateInit
    PROVE  ConnsInv'
  <1>1. \A u \in Threads : pc'[u] = IF u = t THEN l ELSE pc[u]
    BY DEF IInv, TypeOK
  <1>2. \A k \in Threads : Waiting(k)' <=> Waiting(k)
    BY DEF Waiting
  <1>3. OwnerInv'
    <2> SUFFICES ASSUME NEW k \in Threads
                 PROVE  /\ sess'[k] = stateClosed => conn'[k] = "closed"
                        /\ k \in Callers /\ pc'[k] \in NoConnYet => conn'[k] # "open"
                        /\ conn'[k] = "open" =>
                               \/ pc'[k] \in OwnsConn
                               \/ Waiting(k)'
                               \/ Live(k)'
      BY DEF OwnerInv, NoConnYet, OwnsConn
    <2>1. sess'[k] = stateClosed => conn'[k] = "closed"
      BY DEF SessionsMove
    <2>2. k \in Callers /\ pc'[k] \in NoConnYet => conn'[k] # "open"
      BY <1>1 DEF ConnsInv, OwnerInv
    <2>3. conn'[k] = "open" => \/ pc'[k] \in OwnsConn
                               \/ Waiting(k)
                               \/ Live(k)
      BY <1>1 DEF ConnsInv, OwnerInv
    <2>4. conn'[k] = "open" /\ Live(k) => Live(k)'
      BY DEF SessionsMove
    <2> QED BY <1>2, <2>1, <2>2, <2>3, <2>4
  <1>4. KeepsOrCloses'
    <2> SUFFICES ASSUME NEW b \in Threads
                 PROVE  /\ EsHeld(b)' => \A k \in Threads :
                               Waiting(k) /\ ref[k] = ref[b] /\ conn'[k] = "open" =>
                                   got'[b] = k /\ pc'[b] # "fail"
                        /\ pc'[b] = "finish" =>
                               got'[b] \in Threads /\ sess'[got'[b]] # stateInit
      BY <1>2 DEF KeepsOrCloses
    <2>1. \A k \in Threads : Waiting(k) /\ conn'[k] = "open" => conn[k] = "open"
      OBVIOUS
    <2>2. CASE b # t
      BY <1>1, <2>1, <2>2 DEF ConnsInv, KeepsOrCloses, EsHeld, SessionsMove
    <2>3. CASE b = t
      BY <1>1, <2>1, <2>3 DEF ConnsInv, KeepsOrCloses, EsHeld, SessionsMove, Building
    <2> QED BY <2>2, <2>3
  <1> QED BY <1>3, <1>4 DEF ConnsInv

(* A session is not made before the end of its establishment has begun. *)
LEMMA NoSessionYet ==
    ASSUME IInv, SettleInv, NEW t \in Threads,
           \/ t \in Callers /\ pc[t] \in ActiveRunning
           \/ pc[t] \in Early
    PROVE  sess[t] = stateInit
  <1>1. CASE pc[t] \in Early
    BY <1>1, ThreadsAssumption DEF IInv, RefInv, FreshInv
  <1>2. CASE t \in Callers /\ pc[t] \in ActiveRunning
    <2>1. ~isEnd(es[ref[t]])
      BY <1>2 DEF SettleInv, RunsUnended
    <2>2. isEstablishing(es[ref[t]].active)
      BY <1>2 DEF IInv, OwnActive
    <2>3. \A b \in Threads : EsHeld(b) => ref[b] # ref[t]
      BY <2>2 DEF IInv, EndInv
    <2> QED BY <2>1, <2>3 DEF IInv, FreshInv
  <1> QED BY <1>1, <1>2

(* A connection is dialled, or accepted. *)
LEMMA OpenConns ==
    ASSUME IInv, SettleInv, ConnsInv, NEW t \in Threads,
           \/ t \in Callers /\ ActiveEstablishConnect(t)
           \/ t \in Conns /\ Accept(t)
    PROVE  ConnsInv'
  <1>0. t \in Callers => t \notin Conns
    BY ThreadsAssumption
  <1>1. /\ UNCHANGED <<es, ref, got, sess>>
        /\ conn \in [Threads -> {"none", "open", "closed"}]
        /\ pc[t] \in {"dial", "idle"} /\ ~EsHeld(t)
    BY DEF ActiveEstablishConnect, Accept, IInv, TypeOK, EsHeld, Building
  <1>2. \/ t \in Callers /\ pc[t] \in ActiveRunning
        \/ pc[t] \in Early
    BY <1>1 DEF ActiveEstablishConnect, Accept, ActiveRunning, Early
  <1>3. sess[t] = stateInit
    BY <1>2, NoSessionYet
  <1>4. ~Waiting(t)
    <2>1. CASE t \in Conns /\ Accept(t)
      BY <2>1, ThreadsAssumption DEF Accept, IInv, RefInv, Early, Waiting
    <2>2. CASE t \in Callers /\ ActiveEstablishConnect(t)
      <3>1. isEstablishing(es[ref[t]].active)
        BY <2>2 DEF ActiveEstablishConnect, IInv, OwnActive, ActiveRunning
      <3> QED BY <2>2, <3>1, RunningIsNoSuccess DEF Waiting, WaitsIn, AttemptOf
    <2> QED BY <2>1, <2>2
  <1>5. CASE conn' = [conn EXCEPT ![t] = "open"]
             /\ \E l \in {"startHandshake", "passiveConn"} : pc' = [pc EXCEPT ![t] = l]
    <2>1. PICK l \in {"startHandshake", "passiveConn"} : pc' = [pc EXCEPT ![t] = l]
      BY <1>5
    <2>2. SessionsMove
      BY <1>1, <1>3, <1>5
      DEF SessionsMove, ConnsInv, OwnerInv, Live, stateInit, stateStarted, stateClosed
    <2>3. l \in PCs /\ l \in OwnsConn \ NoConnYet /\ l \notin Building
      BY DEF PCs, OwnsConn, NoConnYet, Building
    <2> QED
      BY <1>1, <1>4, <1>5, <2>1, <2>2, <2>3, MoveConns DEF Building
  <1>6. CASE ActiveEstablishConnect(t) /\ Goto(t, "attemptFail") /\ UNCHANGED conn /\ t \in Callers
    <2>1. conn[t] # "open"
      BY <1>6 DEF ActiveEstablishConnect, ConnsInv, OwnerInv, NoConnYet
    <2>2. SessionsMove
      BY <1>1, <1>6, SameSessions
    <2>3. PICK l \in {"attemptFail"} : pc' = [pc EXCEPT ![t] = l]
      BY <1>6 DEF Goto
    <2>4. l \in PCs /\ l \notin NoConnYet /\ l \notin Building
      BY DEF PCs, NoConnYet, Building
    <2> QED
      BY <1>1, <1>6, <2>1, <2>2, <2>3, <2>4, MoveConns DEF Building
  <1> QED BY <1>0, <1>5, <1>6 DEF ActiveEstablishConnect, Accept, Goto

(* A thread moves on, with its connection, or with none that is open. *)
LEMMA MoveStepsConns ==
    ASSUME IInv, SettleInv, ConnsInv, NEW t \in Threads,
           \/ /\ t \in Callers
              /\ \/ Connect(t) \/ ActiveEstablishHandshake(t) \/ ActiveComplete(t)
                 \/ LastLook(t)
           \/ /\ t \in Conns
              /\ OnPassiveConnRefuse(t) \/ PassiveEstablishHandshake(t)
           \/ Recheck(t) \/ Wait(t) \/ RemoveEstablishment(t)
    PROVE  ConnsInv'
  <1>0. t \in Callers => t \notin Conns
    BY ThreadsAssumption
  <1>1. /\ UNCHANGED <<es, ref, sess>>
        /\ \A b \in Threads \ {t} : got'[b] = got[b]
        /\ \A k \in Threads : conn'[k] \in {conn[k], "closed"}
        /\ ~EsHeld(t)
    BY DEF Connect, ActiveEstablishHandshake, ActiveComplete, LastLook, OnPassiveConnRefuse,
           PassiveEstablishHandshake, Recheck, Wait, RemoveEstablishment, links, CloseConn,
           EsHeld, Building, IInv, TypeOK
  <1>2. SessionsMove
    BY <1>1, SameSessions
  <1>3. conn \in [Threads -> {"none", "open", "closed"}]
    BY DEF IInv, TypeOK
  <1>4. CASE Recheck(t) \/ Wait(t) \/ RemoveEstablishment(t)
             \/ (t \in Callers /\ LastLook(t))
    <2>1. PICK l \in {"endExisting", "dial", "passiveHandshake", "lastLook", "done", "wait"} :
              /\ pc' = [pc EXCEPT ![t] = l]
              /\ l \in OwnsConn \/ pc[t] \notin OwnsConn
              /\ l \in NoConnYet => pc[t] \in NoConnYet
      BY <1>4 DEF Recheck, Wait, RemoveEstablishment, LastLook, Goto, OwnsConn, NoConnYet
    <2>2. l \in PCs /\ l \notin Building
      BY DEF PCs, Building
    <2> QED BY <1>1, <1>2, <2>1, <2>2, MoveConns DEF Building
  <1>5. CASE \/ /\ t \in Callers
                /\ Connect(t) \/ ActiveEstablishHandshake(t) \/ ActiveComplete(t)
             \/ t \in Conns /\ (OnPassiveConnRefuse(t) \/ PassiveEstablishHandshake(t))
    <2>1. PICK l \in {"done", "getEstablishment", "aboutSuccess", "success", "attemptFail"} :
              /\ pc' = [pc EXCEPT ![t] = l]
              /\ l \in OwnsConn \/ conn'[t] # "open"
              /\ t \in Callers /\ l \in NoConnYet => pc[t] \in NoConnYet
      BY <1>3, <1>5 DEF Connect, ActiveEstablishHandshake, ActiveComplete, links,
         OnPassiveConnRefuse, PassiveEstablishHandshake, Goto, CloseConn, OwnsConn, NoConnYet,
         ConnsInv, OwnerInv
    <2>2. l \in PCs /\ l \notin Building
      BY DEF PCs, Building
    <2> QED BY <1>1, <1>2, <2>1, <2>2, MoveConns DEF Building
  <1> QED BY <1>4, <1>5

(* A thread takes the establishment of the map, or puts its own there. *)
LEMMA GetConns ==
    ASSUME IInv, ConnsInv, NEW t \in Threads,
           \/ t \in Callers /\ ConnectGetEstablishment(t)
           \/ t \in Conns /\ OnPassiveConn(t)
    PROVE  ConnsInv'
  <1> USE ThreadsAssumption
  <1>0. /\ UNCHANGED <<es, got, sess>>
        /\ pc[t] \in {"getEstablishment", "passiveConn"} /\ ~EsHeld(t)
        /\ \A k \in Threads : conn'[k] \in {conn[k], "closed"}
        /\ conn \in [Threads -> {"none", "open", "closed"}]
        /\ pc \in [Threads -> PCs] /\ ref \in [Threads -> Threads \cup {None}]
    BY DEF ConnectGetEstablishment, OnPassiveConn, links, CloseConn, EsHeld, Building, IInv,
           TypeOK
  <1>1. SessionsMove
    BY <1>0, SameSessions
  <1>2. t \in Callers => conn[t] # "open" /\ pc[t] \in NoConnYet
    BY <1>0 DEF ConnectGetEstablishment, OnPassiveConn, ConnsInv, OwnerInv, NoConnYet
  <1>3. CASE Goto(t, "done") /\ UNCHANGED ref /\ (t \in Callers \/ CloseConn(t))
    <2>1. PICK l \in {"done"} : pc' = [pc EXCEPT ![t] = l]
      BY <1>3 DEF Goto
    <2>2. l \in PCs /\ l \notin Building /\ l \notin NoConnYet
      BY DEF PCs, Building, NoConnYet
    <2>3. conn'[t] # "open"
      BY <1>0, <1>2, <1>3 DEF CloseConn
    <2> QED BY <1>0, <1>1, <1>3, <2>1, <2>2, <2>3, MoveConns DEF Building
  <1>4. CASE getOrCreateEstablishment(t, "start") /\ UNCHANGED conn
    <2>1. \A u \in Threads : pc'[u] = IF u = t THEN "start" ELSE pc[u]
      BY <1>0, <1>4 DEF getOrCreateEstablishment, Goto
    <2>2. \A u \in Threads \ {t} : ref'[u] = ref[u]
      BY <1>0, <1>4 DEF getOrCreateEstablishment
    <2>3. \A u \in Threads \ {t} : Waiting(u)' <=> Waiting(u)
      BY <1>0, <2>2 DEF Waiting
    <2>4. ref[t] = None
      BY <1>0 DEF IInv, RefInv, Early
    <2>5. ~Waiting(t)'
      <3> SUFFICES ASSUME ref'[t] \in Threads, WaitsIn(es[ref'[t]], t) PROVE FALSE
        BY <1>0 DEF Waiting
      <3>1. ref[AttemptOf(es[ref'[t]], t).conn] = ref'[t]
        BY DEF WaitsIn, AttemptOf, IInv, ConnInv
      <3> QED BY <2>4, <3>1 DEF WaitsIn
    <2>6. OwnerInv'
      <3> SUFFICES ASSUME NEW k \in Threads
                   PROVE  /\ sess[k] = stateClosed => conn[k] = "closed"
                          /\ k \in Callers /\ pc'[k] \in NoConnYet => conn[k] # "open"
                          /\ conn[k] = "open" =>
                                 \/ pc'[k] \in OwnsConn
                                 \/ Waiting(k)'
                                 \/ Live(k)
        BY <1>0, <1>4 DEF OwnerInv, NoConnYet, OwnsConn, Live
      <3>1. CASE k = t
        BY <1>2, <2>1, <3>1 DEF ConnsInv, OwnerInv, OwnsConn
      <3>2. CASE k # t
        BY <2>1, <2>2, <2>3, <3>2 DEF ConnsInv, OwnerInv
      <3> QED BY <3>1, <3>2
    <2>7. KeepsOrCloses'
      <3> SUFFICES ASSUME NEW b \in Threads
                   PROVE  /\ EsHeld(b)' => \A k \in Threads :
                                 Waiting(k)' /\ ref'[k] = ref'[b] /\ conn[k] = "open" =>
                                     got[b] = k /\ pc'[b] # "fail"
                          /\ pc'[b] = "finish" => got[b] \in Threads /\ sess[got[b]] # stateInit
        BY <1>0, <1>4 DEF KeepsOrCloses
      <3>1. CASE b = t
        BY <2>1, <3>1 DEF EsHeld, Building
      <3>2. CASE b # t
        BY <2>1, <2>2, <2>3, <2>5, <3>2 DEF ConnsInv, KeepsOrCloses, EsHeld
      <3> QED BY <3>1, <3>2
    <2> QED BY <2>6, <2>7 DEF ConnsInv
  <1> QED BY <1>3, <1>4 DEF ConnectGetEstablishment, OnPassiveConn, links

(* A session is made, locked and published, or closed with its connection. *)
LEMMA BuildConns ==
    ASSUME IInv, ConnsInv, NEW t \in Threads,
           CreateSession(t) \/ LockSession(t) \/ Publish(t)
    PROVE  ConnsInv'
  <1>0. /\ UNCHANGED <<es, ref, got>>
        /\ pc[t] \in {"create", "lockSession", "publish"} /\ EsHeld(t)
        /\ sess \in [Threads -> 0 .. 2]
    BY DEF CreateSession, LockSession, Publish, EsHeld, Building, IInv, TypeOK, stateInit,
           stateClosed
  <1>1. /\ got[t] \in Threads /\ ref[got[t]] = ref[t] /\ ref[t] \in Threads
        /\ pc[t] # "create" => sess[got[t]] # stateInit
    BY <1>0 DEF IInv, KeptInv, RefInv, Early
  <1>2. \A k \in Threads : Waiting(k) /\ ref[k] = ref[t] /\ conn[k] = "open" => got[t] = k
    BY <1>0 DEF ConnsInv, KeepsOrCloses
  <1>3. pc[t] \notin OwnsConn /\ pc[t] # "fail"
    BY <1>0 DEF OwnsConn
  <1>4. {"lockSession", "fail", "publish", "finish"} \subseteq PCs \cap Building
        /\ {"lockSession", "fail", "publish", "finish"} \cap NoConnYet = {}
    BY DEF PCs, Building, NoConnYet
  <1>5. CASE Goto(t, "fail") /\ \/ CloseSession(got[t])
                                \/ (UNCHANGED links) /\ ~Live(got[t]) /\ pc[t] # "create"
    <2>1. /\ SessionsMove
          /\ \A k \in Threads : conn'[k] \in {conn[k], "closed"}
          /\ conn'[got[t]] # "open"
      <3>1. CASE CloseSession(got[t])
        BY <1>1, <3>1, CloseSessionMoves
      <3>2. CASE UNCHANGED links /\ ~Live(got[t]) /\ pc[t] # "create"
        <4>1. sess[got[t]] = stateClosed
          BY <1>0, <1>1, <3>2 DEF Live, stateInit, stateStarted, stateClosed
        <4> QED BY <1>1, <3>2, <4>1, SameSessions DEF links, ConnsInv, OwnerInv
      <3> QED BY <1>5, <3>1, <3>2
    <2>2. PICK l \in {"fail"} : pc' = [pc EXCEPT ![t] = l]
      BY <1>5 DEF Goto
    <2> QED BY <1>0, <1>2, <1>3, <1>4, <2>1, <2>2, MoveConns
  <1>6. CASE CreateSession(t) /\ sess' = [sess EXCEPT ![got[t]] = stateStarted]
             /\ Goto(t, "lockSession") /\ UNCHANGED conn
    <2>1. SessionsMove
      BY <1>0, <1>1, <1>6
      DEF SessionsMove, ConnsInv, OwnerInv, Live, stateInit, stateStarted, stateClosed
    <2>2. PICK l \in {"lockSession"} : pc' = [pc EXCEPT ![t] = l]
      BY <1>6 DEF Goto
    <2> QED BY <1>0, <1>3, <1>4, <1>6, <2>1, <2>2, MoveConns
  <1>7. CASE (UNCHANGED links) /\ \/ LockSession(t) /\ Goto(t, "publish")
                                  \/ Publish(t) /\ Goto(t, "finish")
    <2>1. SessionsMove
      BY <1>7, SameSessions DEF links
    <2>2. PICK l \in {"publish", "finish"} :
              pc' = [pc EXCEPT ![t] = l] /\ (l = "finish" => pc[t] # "create")
      BY <1>7 DEF Goto, LockSession, Publish
    <2> QED BY <1>0, <1>1, <1>3, <1>4, <1>7, <2>1, <2>2, MoveConns DEF links
  <1> QED BY <1>5, <1>6, <1>7 DEF CreateSession, LockSession, Publish

LEMMA ServiceStepsConns ==
    ASSUME IInv, ConnsInv,
           \/ Start \/ Close \/ CloseRange \/ CloseDelete
           \/ \E k \in Threads : SessionOnClosed(k) \/ onSessionClosed(k)
           \/ UNCHANGED vars
    PROVE  ConnsInv'
  <1>1. UNCHANGED <<pc, es, ref, got>>
    BY DEF Start, Close, CloseRange, CloseDelete, SessionOnClosed, onSessionClosed, vars
  <1>2. CASE UNCHANGED <<conn, sess>>
    BY <1>1, <1>2, SameSessions, QuietConns
  <1>3. CASE \E k \in Threads : CloseSession(k)
    BY <1>1, <1>3, CloseSessionMoves, QuietConns
  <1>4. sessions \in Threads \cup {None}
    BY DEF IInv, TypeOK
  <1> QED
    BY <1>2, <1>3, <1>4 DEF Start, Close, CloseRange, CloseDelete, SessionOnClosed,
       onSessionClosed, vars, links

(* Thread t makes the establishment it works on into f, under its mutex.   *)
LEMMA EsConns ==
    ASSUME IInv, ConnsInv, NEW t \in Threads, NEW l \in PCs, NEW f \in Est,
           ref[t] \in Threads,
           pc' = [pc EXCEPT ![t] = l],
           es' = [es EXCEPT ![ref[t]] = f],
           UNCHANGED <<ref, sess>>,
           \A k \in Threads : conn'[k] \in {conn[k], "closed"},
           \A b \in Threads \ {t} : got'[b] = got[b],
           \A b \in Threads \ {t} : EsHeld(b) => ref[b] # ref[t],
           t \in Callers /\ l \in NoConnYet => pc[t] \in NoConnYet, l # "finish",
           \A k \in Threads :
               ref[k] = ref[t] /\ conn'[k] = "open" =>
                   \/ IF k = t THEN l \in OwnsConn ELSE pc[k] \in OwnsConn
                   \/ WaitsIn(f, k) \/ Live(k),
           l \in Building \ {"remove"} => \A k \in Threads :
               WaitsIn(f, k) /\ ref[k] = ref[t] /\ conn'[k] = "open" =>
                   got'[t] = k /\ l # "fail"
    PROVE  ConnsInv'
  <1>0. pc \in [Threads -> PCs] /\ es \in [Threads -> Est]
    BY DEF IInv, TypeOK, Est
  <1>1. \A u \in Threads : pc'[u] = IF u = t THEN l ELSE pc[u]
    BY <1>0
  <1>2. \A u \in Threads : es'[u] = IF u = ref[t] THEN f ELSE es[u]
    BY <1>0
  <1>3. \A k \in Threads : Waiting(k)' <=> IF ref[k] = ref[t] THEN WaitsIn(f, k) ELSE Waiting(k)
    BY <1>2 DEF Waiting
  <1>4. OwnerInv'
    <2> SUFFICES ASSUME NEW k \in Threads
                 PROVE  /\ sess[k] = stateClosed => conn'[k] = "closed"
                        /\ k \in Callers /\ pc'[k] \in NoConnYet => conn'[k] # "open"
                        /\ conn'[k] = "open" =>
                               \/ pc'[k] \in OwnsConn
                               \/ Waiting(k)'
                               \/ Live(k)
      BY DEF OwnerInv, NoConnYet, OwnsConn, Live
    <2>1. sess[k] = stateClosed => conn'[k] = "closed"
      BY DEF ConnsInv, OwnerInv
    <2>2. k \in Callers /\ pc'[k] \in NoConnYet => conn'[k] # "open"
      BY <1>1 DEF ConnsInv, OwnerInv
    <2>3. CASE ref[k] = ref[t]
      BY <1>1, <1>2, <1>3, <2>1, <2>2, <2>3
    <2>4. CASE ref[k] # ref[t]
      <3>1. k # t /\ (conn'[k] = "open" => conn[k] = "open")
        BY <2>4
      <3> QED BY <1>1, <1>2, <1>3, <2>1, <2>2, <2>4, <3>1 DEF ConnsInv, OwnerInv
    <2> QED BY <2>3, <2>4
  <1>5. KeepsOrCloses'
    <2> SUFFICES ASSUME NEW b \in Threads
                 PROVE  /\ EsHeld(b)' => \A k \in Threads :
                               Waiting(k)' /\ ref[k] = ref[b] /\ conn'[k] = "open" =>
                                   got'[b] = k /\ pc'[b] # "fail"
                        /\ pc'[b] = "finish" =>
                               got'[b] \in Threads /\ sess[got'[b]] # stateInit
      BY DEF KeepsOrCloses
    <2>1. CASE b = t
      BY <1>1, <1>3, <2>1 DEF EsHeld
    <2>2. CASE b # t
      <3>1. EsHeld(b)' <=> EsHeld(b)
        BY <1>1, <2>2 DEF EsHeld
      <3> QED BY <1>1, <1>3, <2>2, <3>1 DEF ConnsInv, KeepsOrCloses
    <2> QED BY <2>1, <2>2
  <1> QED BY <1>4, <1>5 DEF ConnsInv

(* What OwnerInv says of the connections of one establishment. *)
LEMMA OwnersAt ==
    ASSUME IInv, ConnsInv, NEW t \in Threads, NEW k \in Threads,
           ref[k] = ref[t], ref[t] \in Threads, conn[k] = "open"
    PROVE  \/ pc[k] \in OwnsConn
           \/ WaitsIn(es[ref[t]], k) \/ Live(k)
  BY DEF ConnsInv, OwnerInv, Waiting

(* An attempt starts or goes on: nothing waits that did not before. *)
LEMMA GoOnConns ==
    ASSUME IInv, SettleInv, ConnsInv, NEW t \in Threads, NEW f \in Est,
           NEW l \in {"recheck", "handshake", "complete"},
           ref[t] \in Threads, EsFree(t),
           pc' = [pc EXCEPT ![t] = l],
           es' = [es EXCEPT ![ref[t]] = f],
           UNCHANGED <<ref, got, sess, conn>>,
           l = "recheck" => pc[t] = "start",
           ~isEnd(es[ref[t]]), ~isEnd(f),
           \/ f.active = es[ref[t]].active
           \/ ~isSuccess(es[ref[t]].active) /\ ~isSuccess(f.active),
           \/ f.passive = es[ref[t]].passive
           \/ ~isSuccess(es[ref[t]].passive) /\ ~isSuccess(f.passive)
    PROVE  ConnsInv'
  <1>1. \A k \in Threads : WaitsIn(f, k) <=> WaitsIn(es[ref[t]], k)
    BY SameWaits
  <1>2. l \in PCs /\ l \in OwnsConn /\ l \notin Building /\ l # "finish"
        /\ (l \in NoConnYet => pc[t] \in NoConnYet)
    BY DEF PCs, OwnsConn, Building, NoConnYet
  <1>3. \A k \in Threads :
            ref[k] = ref[t] /\ conn'[k] = "open" =>
                \/ IF k = t THEN l \in OwnsConn ELSE pc[k] \in OwnsConn
                \/ WaitsIn(f, k) \/ Live(k)
    BY <1>1, <1>2, OwnersAt
  <1>4. \A b \in Threads \ {t} : EsHeld(b) => ref[b] # ref[t]
    BY AtEs DEF EsHeld
  <1>5. /\ \A k \in Threads : conn'[k] \in {conn[k], "closed"}
        /\ \A b \in Threads \ {t} : got'[b] = got[b]
    OBVIOUS
  <1> QED BY <1>2, <1>3, <1>4, <1>5, EsConns

LEMMA StartConns ==
    ASSUME IInv, SettleInv, ConnsInv, NEW t \in Threads,
           \/ StartActiveEstablish(t) \/ StartPassiveEstablish(t)
           \/ t \in Callers /\ (StartActiveHandshake(t) \/ ActiveEstablishAboutSuccess(t))
    PROVE  ConnsInv'
  <1> DEFINE e == es[ref[t]]
  <1>0. t \in Callers => t \notin Conns
    BY ThreadsAssumption
  <1>1. /\ UNCHANGED <<ref, got, sess>>
        /\ pc[t] \in {"start", "startHandshake", "aboutSuccess"} /\ ~EsHeld(t) /\ EsFree(t)
        /\ \A k \in Threads : conn'[k] \in {conn[k], "closed"}
        /\ conn \in [Threads -> {"none", "open", "closed"}]
    BY DEF StartActiveEstablish, StartPassiveEstablish, StartActiveHandshake,
           ActiveEstablishAboutSuccess, links, CloseConn, EsHeld, Building, IInv, TypeOK
  <1>2. ref[t] \in Threads
    BY <1>1 DEF IInv, RefInv, Early
  <1>3. e \in Est /\ \A b \in Threads : EsHeld(b) => ref[b] # ref[t]
    BY <1>1, <1>2, AtEs DEF EsHeld
  <1>4. CASE /\ \E l \in {"wait", "done"} : pc' = [pc EXCEPT ![t] = l]
             /\ UNCHANGED es /\ conn'[t] # "open"
    <2>1. PICK l \in {"wait", "done"} : pc' = [pc EXCEPT ![t] = l]
      BY <1>4
    <2>2. l \in PCs /\ l \notin Building \cup NoConnYet \cup OwnsConn
      BY DEF PCs, Building, NoConnYet, OwnsConn
    <2>3. SessionsMove
      BY <1>1, SameSessions
    <2> QED BY <1>1, <1>4, <2>1, <2>2, <2>3, MoveConns DEF Building
  <1>5. CASE StartActiveEstablish(t)
    <2>1. PICK now \in Times : es' = [es EXCEPT ![ref[t]] = startActive(e, now)]
      BY <1>5 DEF StartActiveEstablish, SetEs
    <2>2. t \in Callers /\ pc[t] = "start" /\ UNCHANGED conn
      BY <1>5 DEF StartActiveEstablish, links
    <2>3. CASE canStartActive(e)
      <3> DEFINE f == startActive(e, now)
      <3>1. f \in Est /\ ~isEnd(f) /\ ~isEnd(e) /\ f.passive = e.passive
            /\ isEstablishing(f.active)
        BY <1>3, <2>3, StartActiveOp
      <3>2. e.active.state = 0
        BY <1>3, <2>3, EstFields, AttFields DEF canStartActive, canChangeState, establishConnect
      <3>3. ~isSuccess(e.active) /\ ~isSuccess(f.active)
        BY <3>1, <3>2, RunningIsNoSuccess
      <3>4. PICK l \in {"recheck"} : pc' = [pc EXCEPT ![t] = l]
        BY <1>5, <2>3 DEF StartActiveEstablish, Goto
      <3>5. es' = [es EXCEPT ![ref[t]] = f]
        BY <2>1
      <3> HIDE DEF f
      <3> QED BY <1>1, <1>2, GoOnConns, <2>2, <3>1, <3>3, <3>4, <3>5
    <2>4. CASE ~canStartActive(e)
      <3>1. es' = es
        BY <1>2, <2>1, <2>4 DEF startActive, IInv, TypeOK
      <3>2. pc' = [pc EXCEPT ![t] = "wait"]
        BY <1>5, <2>4 DEF StartActiveEstablish, Goto
      <3>3. conn[t] # "open"
        BY <2>2 DEF ConnsInv, OwnerInv, NoConnYet
      <3> QED BY <1>4, <2>2, <3>1, <3>2, <3>3
    <2> QED BY <2>3, <2>4
  <1>6. CASE StartPassiveEstablish(t)
    <2>1. PICK now \in Times : es' = [es EXCEPT ![ref[t]] = startPassive(e, now)]
      BY <1>6 DEF StartPassiveEstablish, SetEs
    <2>2. pc[t] = "start"
      BY <1>6 DEF StartPassiveEstablish
    <2>3. CASE canStartPassive(e)
      <3> DEFINE f == startPassive(e, now)
      <3>1. f \in Est /\ ~isEnd(f) /\ ~isEnd(e) /\ f.active = e.active
            /\ f.passive.state = 2 /\ e.passive.state < 2
        BY <1>3, <2>3, StartPassiveOp DEF establishHandshake
      <3>2. e.passive.state \in 0 .. 2
        BY <1>3, <3>1, EstFields, AttFields
      <3>3. ~isSuccess(e.passive) /\ ~isSuccess(f.passive)
        BY <3>1, <3>2, RunningIsNoSuccess
      <3>4. PICK l \in {"recheck"} : pc' = [pc EXCEPT ![t] = l] /\ UNCHANGED conn
        BY <1>6, <2>3 DEF StartPassiveEstablish, Goto, links
      <3>5. es' = [es EXCEPT ![ref[t]] = f]
        BY <2>1
      <3> HIDE DEF f
      <3> QED BY <1>1, <1>2, GoOnConns, <2>2, <3>1, <3>3, <3>4, <3>5
    <2>4. CASE ~canStartPassive(e)
      <3>1. es' = es
        BY <1>2, <2>1, <2>4 DEF startPassive, IInv, TypeOK
      <3>2. pc' = [pc EXCEPT ![t] = "done"] /\ conn'[t] # "open"
        BY <1>1, <1>6, <2>4 DEF StartPassiveEstablish, Goto, CloseConn
      <3> QED BY <1>4, <3>1, <3>2
    <2> QED BY <2>3, <2>4
  <1>7. CASE t \in Callers /\ (StartActiveHandshake(t) \/ ActiveEstablishAboutSuccess(t))
    <2>1. pc[t] \in ActiveRunning /\ UNCHANGED conn /\ pc[t] # "start"
      BY <1>7 DEF StartActiveHandshake, ActiveEstablishAboutSuccess, ActiveRunning, links
    <2>2. ~isEnd(e) /\ (pc[t] = "startHandshake" => e.active.state = establishConnect)
      BY <1>7, <2>1 DEF SettleInv, RunsUnended
    <2>3. isEstablishing(e.active)
      BY <1>7, <2>1 DEF IInv, OwnActive
    <2>4. PICK f \in Est : /\ es' = [es EXCEPT ![ref[t]] = f] /\ f.state = e.state
                           /\ f.passive = e.passive /\ isEstablishing(f.active)
      BY <1>3, <1>7, <2>3, HandshakeOp, AboutSuccessOp
      DEF StartActiveHandshake, ActiveEstablishAboutSuccess, SetEs
    <2>5. PICK l \in {"handshake", "complete"} : pc' = [pc EXCEPT ![t] = l]
      <3>1. StartActiveHandshake(t) => canStartActiveHandshake(e)
        BY <2>2 DEF StartActiveHandshake, canStartActiveHandshake, isStarted, canChangeState,
           establishConnect, establishHandshake
      <3> QED BY <1>7, <3>1 DEF StartActiveHandshake, ActiveEstablishAboutSuccess, Goto
    <2>6. ~isEnd(f) /\ ~isSuccess(e.active) /\ ~isSuccess(f.active)
      BY <2>2, <2>3, <2>4, RunningIsNoSuccess DEF isEnd
    <2> QED BY <1>1, <1>2, GoOnConns, <2>1, <2>2, <2>4, <2>5, <2>6
  <1> QED BY <1>5, <1>6, <1>7

LEMMA EndExistingConns ==
    ASSUME IInv, SettleInv, ConnsInv, NEW t \in Threads, EndExisting(t)
    PROVE  ConnsInv'
  <1> DEFINE e == es[ref[t]]
             f == end(e, got[t])
  <1>1. /\ pc[t] = "endExisting" /\ EsFree(t)
        /\ UNCHANGED <<ref, got, sess, conn>>
        /\ es' = [es EXCEPT ![ref[t]] = f]
    BY DEF EndExisting, SetEs, links
  <1>2. t \in Callers
    BY <1>1 DEF SettleInv, PassiveRecheckFindsNothing, Threads
  <1>3. ref[t] \in Threads /\ pc[t] \in ActiveRunning
    BY <1>1 DEF IInv, RefInv, Early, ActiveRunning
  <1>4. e.active.state = establishConnect
    BY <1>1, <1>2, <1>3 DEF SettleInv, RunsUnended
  <1>5. f \in Est /\ isEnd(f) /\ f.active = e.active /\ f.passive = e.passive
    BY <1>3, AtEs, EndOp DEF IInv, TypeOK
  <1>6. EndedAtConnect(f)
    BY <1>4, <1>5 DEF EndedAtConnect
  <1>7. \A b \in Threads \ {t} : EsHeld(b) => ref[b] # ref[t]
    BY <1>1, <1>3, AtEs DEF EsHeld
  <1>8. PICK l \in PCs : l = "wait" /\ pc' = [pc EXCEPT ![t] = l]
    BY DEF EndExisting, Goto, PCs
  <1>9. l \notin NoConnYet /\ l \notin Building \ {"remove"} /\ l # "finish"
    BY <1>8 DEF NoConnYet, Building
  <1>10. es' = [es EXCEPT ![ref[t]] = f] /\ pc' = [pc EXCEPT ![t] = l] /\ UNCHANGED <<ref, sess>>
    BY <1>1, <1>8
  <1>11. /\ \A k \in Threads : conn'[k] \in {conn[k], "closed"}
         /\ \A b \in Threads \ {t} : got'[b] = got[b]
    BY <1>1
  <1> HIDE DEF f
  <1>12. \A k \in Threads : WaitsIn(e, k) => WaitsIn(f, k)
    BY <1>5, <1>6 DEF WaitsIn, AttemptOf
  <1>13. conn[t] # "open"
    BY <1>1, <1>2 DEF ConnsInv, OwnerInv, NoConnYet
  <1>14. \A k \in Threads :
             ref[k] = ref[t] /\ conn'[k] = "open" =>
                 \/ IF k = t THEN l \in OwnsConn ELSE pc[k] \in OwnsConn
                 \/ WaitsIn(f, k) \/ Live(k)
    BY <1>1, <1>3, <1>12, <1>13, OwnersAt
  <1> QED
    BY <1>3, <1>5, <1>7, <1>9, <1>10, <1>11, <1>14, EsConns

(* The attempt of a thread that runs it has not succeeded, and can end. *)
LEMMA RunningCanEnd ==
    ASSUME IInv, NEW t \in Threads, pc[t] \in {"success", "attemptFail"}
    PROVE  LET e == es[ref[t]] IN
           /\ ref[t] \in Threads /\ e \in Est
           /\ t \in Callers => canActiveSuccess(e) /\ canActiveFail(e) /\ ~isSuccess(e.active)
           /\ t \in Conns => canPassiveSuccess(e) /\ canPassiveFail(e) /\ ~isSuccess(e.passive)
  <1> DEFINE e == es[ref[t]]
  <1>1. ref[t] \in Threads /\ pc[t] \in ActiveRunning \cap PassiveRunning
    BY DEF IInv, RefInv, Early, ActiveRunning, PassiveRunning
  <1>2. e \in Est
    BY <1>1 DEF IInv, TypeOK, Est
  <1>3. e.active.state \in 0 .. 5 /\ e.passive.state \in 0 .. 5
    BY <1>2, EstFields, AttFields
  <1>4. t \in Callers => isEstablishing(e.active)
    BY <1>1 DEF IInv, OwnActive
  <1>5. t \in Conns => e.passive.state = 2
    BY <1>1 DEF IInv, OwnPassive, establishHandshake
  <1> QED
    BY <1>1, <1>2, <1>3, <1>4, <1>5
    DEF canActiveSuccess, canActiveFail, canPassiveSuccess, canPassiveFail, isSuccess,
        isEstablishing, isStarted, attemptIsEnd, canChangeState, establishAboutSuccess,
        establishSuccess, establishFail

(* An attempt is over; its connection waits if it has succeeded.  Whoever  *)
(* ends the establishment keeps one connection and closes the other.       *)
LEMMA AttemptOverConns ==
    ASSUME IInv, SettleInv, ConnsInv, NEW t \in Threads, NEW f \in Est, NEW other,
           pc[t] \in {"success", "attemptFail"},
           EsFree(t),
           f.state = es[ref[t]].state,
           \/ /\ t \in Callers /\ ~isEstablishing(f.active)
              /\ f.passive = es[ref[t]].passive /\ other = f.passive
           \/ /\ t \in Conns /\ ~isEstablishing(f.passive)
              /\ f.active = es[ref[t]].active /\ other = f.active,
           IF pc[t] = "success"
           THEN isSuccess(AttemptOf(f, t)) /\ AttemptOf(f, t).conn = t
           ELSE ~isSuccess(AttemptOf(f, t)),
           attemptOver(t, f, other),
           UNCHANGED <<ref, sess>>
    PROVE  ConnsInv'
  <1> DEFINE e == es[ref[t]]
  <1>0. t \in Callers => t \notin Conns
    BY ThreadsAssumption
  <1>1. /\ ref[t] \in Threads /\ e \in Est
        /\ t \in Callers => ~isSuccess(e.active)
        /\ t \in Conns => ~isSuccess(e.passive)
    BY RunningCanEnd
  <1>2. es' = [es EXCEPT ![ref[t]] = f]
    BY DEF attemptOver, SetEs
  <1>3. PICK l \in {"wait", "fail", "create"} :
            /\ pc' = [pc EXCEPT ![t] = l]
            /\ l # "wait" => /\ ~isEstablishing(f.active) /\ ~isEstablishing(f.passive)
                             /\ got'[t] = keptConn(f, LocalIsLess)
                             /\ l = "fail" => keptConn(f, LocalIsLess) = None
                             /\ \A k \in Threads :
                                    k = droppedConn(f, LocalIsLess) => conn'[k] = "closed"
    BY DEF attemptOver, establishEnd, Goto, IInv, TypeOK
  <1>4. /\ \A k \in Threads : conn'[k] \in {conn[k], "closed"}
        /\ \A b \in Threads \ {t} : got'[b] = got[b]
    BY DEF attemptOver, establishEnd, IInv, TypeOK
  <1>5. isEnd(e) => t \in Conns /\ EndedAtConnect(e)
    <2>1. t \in Callers => ~isEnd(e)
      BY DEF SettleInv, RunsUnended, ActiveRunning
    <2>2. t \in Conns => isEstablishing(e.passive)
      BY DEF IInv, OwnPassive, PassiveRunning, isEstablishing, isStarted, attemptIsEnd,
             establishHandshake, establishAboutSuccess
    <2> QED BY <1>1, <2>1, <2>2, AtEs DEF Threads
  <1>6. isEnd(f) => isEnd(e) /\ EndedAtConnect(f)
    BY <1>0, <1>5 DEF EndedAtConnect, isEnd
  <1>7. \A k \in Threads \ {t} : WaitsIn(e, k) => WaitsIn(f, k)
    <2> SUFFICES ASSUME NEW k \in Threads \ {t}, WaitsIn(e, k)
                 PROVE  isSuccess(AttemptOf(f, k)) /\ AttemptOf(f, k).conn = k
      BY <1>6 DEF WaitsIn
    <2>1. isSuccess(AttemptOf(e, k)) /\ AttemptOf(e, k).conn = k
      BY DEF WaitsIn
    <2> QED BY <1>0, <1>1, <2>1 DEF AttemptOf, Threads
  <1>8. \A k \in Threads :
            ref[k] = ref[t] /\ conn'[k] = "open" =>
                \/ IF k = t THEN l \in OwnsConn ELSE pc[k] \in OwnsConn
                \/ WaitsIn(f, k) \/ Live(k)
    <2> SUFFICES ASSUME NEW k \in Threads, ref[k] = ref[t], conn[k] = "open"
                 PROVE  \/ k # t /\ pc[k] \in OwnsConn
                        \/ WaitsIn(f, k) \/ Live(k)
      BY <1>4
    <2>1. \/ pc[k] \in OwnsConn
          \/ WaitsIn(e, k) \/ Live(k)
      BY <1>1, OwnersAt
    <2>2. CASE k # t
      BY <1>7, <2>1, <2>2
    <2>3. CASE k = t /\ pc[t] = "success"
      BY <1>6, <2>3 DEF WaitsIn
    <2>4. CASE k = t /\ pc[t] = "attemptFail"
      <3>1. pc[t] \notin OwnsConn
        BY <2>4 DEF OwnsConn
      <3>2. ~WaitsIn(e, t)
        BY <1>0, <1>1 DEF WaitsIn, AttemptOf, Threads
      <3> QED BY <2>1, <2>4, <3>1, <3>2
    <2> QED BY <2>2, <2>3, <2>4
  <1>9. l \in Building \ {"remove"} => \A k \in Threads :
            WaitsIn(f, k) /\ ref[k] = ref[t] /\ conn'[k] = "open" =>
                got'[t] = k /\ l # "fail"
    <2> SUFFICES ASSUME l # "wait", NEW k \in Threads, WaitsIn(f, k), conn'[k] = "open"
                 PROVE  got'[t] = k /\ l # "fail"
      BY DEF Building
    <2>1. k \in {keptConn(f, LocalIsLess), droppedConn(f, LocalIsLess)}
      BY <1>3, KeptOrDropped, LocalIsLessAssumption DEF WaitsIn, AttemptOf
    <2> QED BY <1>3, <2>1, ThreadsAssumption
  <1>10. \A b \in Threads \ {t} : EsHeld(b) => ref[b] # ref[t]
    BY <1>1, AtEs DEF EsHeld
  <1>11. l \in PCs /\ l \notin NoConnYet /\ l # "finish"
    BY DEF PCs, NoConnYet, Building
  <1> QED
    BY <1>1, <1>2, <1>3, <1>4, <1>8, <1>9, <1>10, <1>11, EsConns

LEMMA OverStepsConns ==
    ASSUME IInv, SettleInv, ConnsInv, NEW t \in Threads,
           \/ ActiveEstablishSuccess(t) \/ ActiveEstablishFail(t)
           \/ PassiveEstablishSuccess(t) \/ PassiveEstablishFail(t)
    PROVE  ConnsInv'
  <1> DEFINE e == es[ref[t]]
  <1>0. t \in Callers => t \notin Conns
    BY ThreadsAssumption
  <1>1. pc[t] \in {"success", "attemptFail"} /\ EsFree(t) /\ UNCHANGED <<ref, sess>>
    BY DEF ActiveEstablishSuccess, ActiveEstablishFail, PassiveEstablishSuccess,
           PassiveEstablishFail
  <1>2. /\ e \in Est
        /\ t \in Callers => canActiveSuccess(e) /\ canActiveFail(e) /\ ~isSuccess(e.active)
        /\ t \in Conns => canPassiveSuccess(e) /\ canPassiveFail(e) /\ ~isSuccess(e.passive)
    BY <1>1, RunningCanEnd
  <1>3. CASE ActiveEstablishSuccess(t)
    <2> DEFINE f == activeSuccess(e, t)
    <2>1. t \in Callers /\ pc[t] = "success" /\ attemptOver(t, f, f.passive)
      BY <1>2, <1>3 DEF ActiveEstablishSuccess
    <2>2. /\ f \in Est /\ f.state = e.state /\ ~isEstablishing(f.active)
          /\ f.passive = e.passive
      BY <1>2, <2>1, OverOps DEF Over
    <2>3. isSuccess(f.active) /\ f.active.conn = t
      BY <1>2, <2>1, ActiveSuccessOp
    <2> HIDE DEF f
    <2> QED BY <1>1, <2>1, <2>2, <2>3, AttemptOverConns DEF AttemptOf
  <1>4. CASE ActiveEstablishFail(t)
    <2> DEFINE f == activeFail(e)
    <2>1. t \in Callers /\ pc[t] = "attemptFail" /\ attemptOver(t, f, f.passive)
      BY <1>2, <1>4 DEF ActiveEstablishFail
    <2>2. /\ f \in Est /\ f.state = e.state /\ ~isEstablishing(f.active)
          /\ f.passive = e.passive
      BY <1>2, <2>1, OverOps DEF Over
    <2>3. ~isSuccess(f.active)
      BY <1>2, <2>1, FailOps
    <2> HIDE DEF f
    <2> QED BY <1>1, <2>1, <2>2, <2>3, AttemptOverConns DEF AttemptOf
  <1>5. CASE PassiveEstablishSuccess(t)
    <2> DEFINE f == passiveSuccess(e, t)
    <2>1. t \in Conns /\ pc[t] = "success" /\ attemptOver(t, f, f.active)
      BY <1>2, <1>5 DEF PassiveEstablishSuccess
    <2>2. /\ f \in Est /\ f.state = e.state /\ ~isEstablishing(f.passive)
          /\ f.active = e.active
      BY <1>2, <2>1, OverOps DEF Over
    <2>3. isSuccess(f.passive) /\ f.passive.conn = t
      BY <1>2, <2>1, PassiveSuccessOp
    <2> HIDE DEF f
    <2> QED BY <1>0, <1>1, <2>1, <2>2, <2>3, AttemptOverConns DEF AttemptOf
  <1>6. CASE PassiveEstablishFail(t)
    <2> DEFINE f == passiveFail(e)
    <2>1. t \in Conns /\ pc[t] = "attemptFail" /\ attemptOver(t, f, f.active)
      BY <1>2, <1>6 DEF PassiveEstablishFail
    <2>2. /\ f \in Est /\ f.state = e.state /\ ~isEstablishing(f.passive)
          /\ f.active = e.active
      BY <1>2, <2>1, OverOps DEF Over
    <2>3. ~isSuccess(f.passive)
      BY <1>2, <2>1, FailOps
    <2> HIDE DEF f
    <2> QED BY <1>0, <1>1, <2>1, <2>2, <2>3, AttemptOverConns DEF AttemptOf
  <1> QED BY <1>3, <1>4, <1>5, <1>6

(* The end: what waited open has become a live session, or was closed. *)
LEMMA EndConns ==
    ASSUME IInv, ConnsInv, NEW t \in Threads, Finish(t) \/ EstablishEndFailed(t)
    PROVE  ConnsInv'
  <1> DEFINE e == es[ref[t]]
  <1>1. /\ EsHeld(t) /\ pc[t] \in {"finish", "fail"}
        /\ UNCHANGED <<ref, got, sess, conn>>
    BY DEF Finish, EstablishEndFailed, links, EsHeld, Building
  <1>2. ref[t] \in Threads /\ ~isEnd(e)
    BY <1>1 DEF IInv, RefInv, EndInv, Early
  <1>3. e \in Est
    BY <1>2 DEF IInv, TypeOK, Est
  <1>4. PICK s \in Threads \cup {None} : es' = [es EXCEPT ![ref[t]] = end(e, s)]
    BY DEF Finish, EstablishEndFailed, SetEs, IInv, TypeOK
  <1> DEFINE f == end(e, s)
  <1>5. f \in Est /\ isEnd(f) /\ es' = [es EXCEPT ![ref[t]] = f]
    BY <1>3, <1>4, EndOp
  <1>6. PICK l \in {"wait", "remove"} : pc' = [pc EXCEPT ![t] = l]
    BY DEF Finish, EstablishEndFailed, Goto
  <1>7. \A k \in Threads :
            ref[k] = ref[t] /\ conn'[k] = "open" =>
                \/ IF k = t THEN l \in OwnsConn ELSE pc[k] \in OwnsConn
                \/ WaitsIn(f, k) \/ Live(k)
    <2> SUFFICES ASSUME NEW k \in Threads, ref[k] = ref[t], conn[k] = "open"
                 PROVE  (k # t /\ pc[k] \in OwnsConn) \/ Live(k)
      BY <1>1
    <2>1. pc[k] \in OwnsConn \/ WaitsIn(e, k) \/ Live(k)
      BY <1>2, OwnersAt
    <2>2. WaitsIn(e, k) => got[t] = k /\ pc[t] = "finish"
      BY <1>1, <1>2 DEF ConnsInv, KeepsOrCloses, Waiting
    <2>3. got[t] = k /\ pc[t] = "finish" => Live(k)
      BY DEF ConnsInv, KeepsOrCloses, OwnerInv, Live, IInv, TypeOK, stateInit, stateStarted,
             stateClosed
    <2>4. pc[t] \notin OwnsConn
      BY <1>1 DEF OwnsConn
    <2> QED BY <2>1, <2>2, <2>3, <2>4
  <1>8. \A b \in Threads \ {t} : EsHeld(b) => ref[b] # ref[t]
    BY <1>1, <1>2 DEF IInv, MutexInv, EsHeld, Building
  <1>9. l \in PCs /\ l \notin NoConnYet /\ l # "finish" /\ l \notin Building \ {"remove"}
    BY DEF PCs, NoConnYet, Building
  <1>10. /\ \A k \in Threads : conn'[k] \in {conn[k], "closed"}
         /\ \A b \in Threads \ {t} : got'[b] = got[b]
    BY <1>1
  <1> HIDE DEF f
  <1> QED
    BY <1>1, <1>2, <1>5, <1>6, <1>7, <1>8, <1>9, <1>10, EsConns

-----------------------------------------------------------------------------
LEMMA InitConns == Init => ConnsInv
  <1>1. ~isSuccess(NewEstablishment.active) /\ ~isSuccess(NewEstablishment.passive)
    BY DEF isSuccess, NewEstablishment, NoAttempt, establishSuccess
  <1> QED
    BY <1>1 DEF Init, ConnsInv, OwnerInv, KeepsOrCloses, EsHeld, Building, stateInit,
                stateClosed

LEMMA ConnsInvNext == IInv /\ SettleInv /\ ConnsInv /\ [Next]_vars => ConnsInv'
  <1> SUFFICES ASSUME IInv, SettleInv, ConnsInv, [Next]_vars PROVE ConnsInv'
    OBVIOUS
  <1>0. Callers \subseteq Threads /\ Conns \subseteq Threads
    BY DEF Threads
  <1>1. CASE \/ Start \/ Close \/ CloseRange \/ CloseDelete
             \/ \E k \in Threads : SessionOnClosed(k) \/ onSessionClosed(k)
             \/ UNCHANGED vars
    BY <1>1, ServiceStepsConns
  <1>2. CASE \E c \in Callers : Connect(c) \/ CallerStep(c)
    BY <1>0, <1>2, MoveStepsConns, GetConns, OpenConns, StartConns, OverStepsConns
    DEF CallerStep
  <1>3. CASE \E p \in Conns : Accept(p) \/ ConnStep(p)
    BY <1>0, <1>3, MoveStepsConns, GetConns, OpenConns, StartConns, OverStepsConns
    DEF ConnStep
  <1>4. CASE \E t \in Threads : CommonStep(t)
    BY <1>4, MoveStepsConns, EndExistingConns, BuildConns, EndConns DEF CommonStep
  <1> QED BY <1>1, <1>2, <1>3, <1>4 DEF Next

(* An open connection belongs to a thread at work on it, to an attempt     *)
(* that has succeeded and waits for the end of its establishment, or to a  *)
(* live session; the one exception is a passive connection that has        *)
(* succeeded on an establishment that EndExisting has ended.               *)
THEOREM EveryConnIsOwned == Spec => []ConnOwned
  <1>1. ConnsInv /\ Recorded => ConnOwned
    <2> SUFFICES ASSUME ConnsInv, Recorded, NEW k \in Threads, conn[k] = "open",
                        ref[k] \in Threads, WaitsIn(es[ref[k]], k)
                 PROVE  isEnd(es[ref[k]]) => k \in Conns /\ ref[k] \in found
      BY DEF ConnsInv, OwnerInv, ConnOwned, OwnsConn, Waiting, WaitsIn
    <2>1. isEnd(es[ref[k]]) => EndedAtConnect(es[ref[k]]) /\ ref[k] \in found
      BY DEF WaitsIn, Recorded
    <2>2. EndedAtConnect(es[ref[k]]) => ~isSuccess(es[ref[k]].active)
      BY DEF EndedAtConnect, isSuccess, establishConnect, establishSuccess
    <2>3. EndedAtConnect(es[ref[k]]) => k \in Conns
      BY <2>2 DEF WaitsIn, AttemptOf, Threads
    <2> QED BY <2>1, <2>3
  <1>2. Spec => []ConnsInv
    BY InitConns, ConnsInvNext, SettleInvariance, Invariance, PTL DEF Spec
  <1> QED BY <1>1, <1>2, RecordedInvariance, PTL
=============================================================================
