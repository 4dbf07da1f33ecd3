-------------------------- MODULE HandshakeProofs --------------------------
(***************************************************************************)
(* Proofs about Handshake, for any two nodes, any clocks and any number of *)
(* calls: its inductive invariant, and what follows from it whatever fails *)
(* on the way.                                                             *)
(***************************************************************************)
EXTENDS Handshake, SequenceTheorems, TLAPS

USE NodesAssumption, MaxCallsAssumption, NoneAssumption

Est == Establishment(Conns, Times)
Att == Attempt(Conns, Times)
Ends == {"dialler", "acceptor"}

-----------------------------------------------------------------------------
(* The inductive invariant *)

(* A message of that type is among those under way. *)
Under(s, type) == \E i \in 1 .. Len(s) : s[i].type = type

Runs(c)    == aPc[c] \in {"dial", "waitResp", "waitAck"}
Handles(c) == pPc[c] \in {"waitCompleted", "success"}

(* A node runs one active attempt and handles one connection at a time,    *)
(* and its establishment is the one of that attempt.                       *)
ActiveOwn ==
    \A c \in Conns : Runs(c) =>
        /\ isEstablishing(es[dialler(c)].active)
        /\ es[dialler(c)].active.startTime \in Times
        /\ \A d \in Conns : Runs(d) /\ dialler(d) = dialler(c) => d = c

PassiveOwn ==
    \A c \in Conns : Handles(c) =>
        /\ es[acceptor(c)].passive.state = establishHandshake
        /\ \A d \in Conns : Handles(d) /\ acceptor(d) = acceptor(c) => d = c

(* Nothing happens on a connection before it is dialled. *)
Undialled ==
    \A c \in Conns : aPc[c] \in {"idle", "dial", "none"} =>
        pPc[c] = "none" /\ toDialler[c] = <<>>

(* Who is ahead in the handshake: each message vouches for its sender. *)
AckBacked ==
    \A c \in Conns : aPc[c] = "won" \/ Under(toDialler[c], "HSCompletedAck") =>
        pPc[c] \in {"success", "won"} \/ "acceptor" \notin open[c]

CompletedBacked ==
    \A c \in Conns : pPc[c] \in {"success", "won"} \/ Under(toAcceptor[c], "HSCompleted") =>
        aPc[c] \in {"waitAck", "won", "lost"}

LostIsShut == \A c \in Conns : aPc[c] = "lost" => "dialler" \notin open[c]

(* A connection an attempt has won is held, or its end is closed. *)
WonActive ==
    \A c \in Conns : aPc[c] = "won" /\ "dialler" \in open[c] =>
        sess[dialler(c)] = c \/ es[dialler(c)].active.conn = c

WonPassive ==
    \A c \in Conns : pPc[c] = "won" /\ "acceptor" \in open[c] =>
        sess[acceptor(c)] = c \/ es[acceptor(c)].passive.conn = c

(* A node that has a session has no establishment, and has won the session *)
(* from one side or the other.                                             *)
WonBy(n, c) == \/ n = dialler(c) /\ aPc[c] = "won"
               \/ n = acceptor(c) /\ pPc[c] = "won"

SessionsWon ==
    \A n \in Nodes : sess[n] # None => es[n] = NewEstablishment /\ WonBy(n, sess[n])

ConnsWon ==
    \A n \in Nodes :
        LET a == es[n].active p == es[n].passive IN
        /\ a.conn # None => isSuccess(a) /\ n = dialler(a.conn) /\ aPc[a.conn] = "won"
        /\ p.conn # None => isSuccess(p) /\ n = acceptor(p.conn) /\ pPc[p.conn] = "won"

Owners   == ActiveOwn /\ PassiveOwn
Messages == Undialled /\ AckBacked /\ CompletedBacked
Holders  == LostIsShut /\ WonActive /\ WonPassive /\ SessionsWon /\ ConnsWon

IInv == TypeOK /\ Owners /\ Messages /\ Holders

-----------------------------------------------------------------------------
(* Lemmas about the nodes and their connections *)

LEMMA PeerIs ==
    ASSUME NEW n \in Nodes
    PROVE  Peer(n) \in Nodes /\ Peer(n) # n /\ \A m \in Nodes : m # n => m = Peer(n)
  <1>1. PICK a, b \in Nodes : a # b /\ Nodes = {a, b}
    BY NodesAssumption
  <1>2. \E m \in Nodes : m # n
    BY <1>1
  <1>3. Peer(n) \in Nodes /\ Peer(n) # n
    BY <1>2 DEF Peer
  <1> QED
    BY <1>1, <1>3

LEMMA PeerPeer ==
    ASSUME NEW n \in Nodes
    PROVE  Peer(Peer(n)) = n
  BY PeerIs

LEMMA ConnEnds ==
    ASSUME NEW c \in Conns
    PROVE  /\ dialler(c) \in Nodes /\ acceptor(c) \in Nodes
           /\ acceptor(c) # dialler(c)
           /\ c # None
           /\ EndAt(dialler(c), c) = "dialler"
           /\ EndAt(acceptor(c), c) = "acceptor"
           /\ Peer(dialler(c)) = acceptor(c)
           /\ Peer(acceptor(c)) = dialler(c)
  <1>1. c[1] \in Nodes
    BY DEF Conns
  <1> QED
    BY <1>1, PeerIs, PeerPeer DEF dialler, acceptor, EndAt

(* What is at the head of a channel is under way, and so is what is left   *)
(* when it is taken; a message that is added is all that is added.         *)
LEMMA HeadSent ==
    ASSUME NEW s \in Seq(Message), s # <<>>
    PROVE  /\ Head(s) \in Message /\ Tail(s) \in Seq(Message)
           /\ Under(s, Head(s).type)
           /\ \A type : Under(Tail(s), type) => Under(s, type)
  <1>1. /\ Head(s) \in Message /\ Tail(s) \in Seq(Message)
        /\ 1 \in 1 .. Len(s) /\ s[1] = Head(s)
        /\ \A i \in 1 .. Len(Tail(s)) : i + 1 \in 1 .. Len(s) /\ Tail(s)[i] = s[i + 1]
    BY HeadTailProperties, EmptySeq, LenProperties
  <1> QED
    BY <1>1 DEF Under

LEMMA AppendSent ==
    ASSUME NEW s \in Seq(Message), NEW m \in Message
    PROVE  /\ Append(s, m) \in Seq(Message)
           /\ \A type : Under(Append(s, m), type) => Under(s, type) \/ m.type = type
  <1>1. /\ Append(s, m) \in Seq(Message)
        /\ \A i \in 1 .. Len(Append(s, m)) :
              \/ i \in 1 .. Len(s) /\ Append(s, m)[i] = s[i]
              \/ Append(s, m)[i] = m
    BY AppendProperties, LenProperties
  <1> QED
    BY <1>1 DEF Under

LEMMA NoneSent == \A type : ~Under(<<>>, type)
  BY EmptySeq DEF Under

-----------------------------------------------------------------------------
(* Lemmas about the records: what the methods of an establishment return,  *)
(* and what they leave alone                                               *)

LEMMA EstFields ==
    ASSUME NEW e \in Est
    PROVE  /\ e.active \in Att /\ e.passive \in Att
           /\ e.state \in 0 .. 2
           /\ e.active.state \in 0 .. 5 /\ e.active.conn \in Conns \cup {None}
           /\ e.passive.state \in 0 .. 5 /\ e.passive.conn \in Conns \cup {None}
  BY DEF Est, Att, Establishment, Attempt, establishmentEnd, establishFail

LEMMA AttChange ==
    ASSUME NEW a \in Att, NEW s \in 0 .. 5
    PROVE  /\ changeState(a, s) \in Att
           /\ changeState(a, s).conn = a.conn
           /\ changeState(a, s).startTime = a.startTime
           /\ changeState(a, s).state = IF s > a.state THEN s ELSE a.state
  BY DEF Att, Attempt, establishFail, changeState, canChangeState

LEMMA EstChange ==
    ASSUME NEW e \in Est, NEW s \in 0 .. 2
    PROVE  /\ changeState(e, s) \in Est
           /\ changeState(e, s).active = e.active
           /\ changeState(e, s).passive = e.passive
           /\ changeState(e, s).state = IF s > e.state THEN s ELSE e.state
  BY DEF Est, Establishment, establishmentEnd, changeState, canChangeState

LEMMA EstSetActive ==
    ASSUME NEW e \in Est, NEW a \in Att
    PROVE  /\ [e EXCEPT !.active = a] \in Est
           /\ [e EXCEPT !.active = a].active = a
           /\ [e EXCEPT !.active = a].passive = e.passive
           /\ [e EXCEPT !.active = a].state = e.state
  BY DEF Est, Att, Establishment, establishmentEnd

LEMMA EstSetPassive ==
    ASSUME NEW e \in Est, NEW a \in Att
    PROVE  /\ [e EXCEPT !.passive = a] \in Est
           /\ [e EXCEPT !.passive = a].active = e.active
           /\ [e EXCEPT !.passive = a].passive = a
           /\ [e EXCEPT !.passive = a].state = e.state
  BY DEF Est, Att, Establishment, establishmentEnd

LEMMA AttSetTime ==
    ASSUME NEW a \in Att, NEW t \in Times
    PROVE  /\ [a EXCEPT !.startTime = t] \in Att
           /\ [a EXCEPT !.startTime = t].conn = a.conn
           /\ [a EXCEPT !.startTime = t].state = a.state
           /\ [a EXCEPT !.startTime = t].startTime = t
  BY DEF Att, Attempt, establishFail

LEMMA AttSetConn ==
    ASSUME NEW a \in Att, NEW c \in Conns
    PROVE  /\ [a EXCEPT !.conn = c] \in Att
           /\ [a EXCEPT !.conn = c].conn = c
           /\ [a EXCEPT !.conn = c].state = a.state
           /\ [a EXCEPT !.conn = c].startTime = a.startTime
  BY DEF Att, Attempt, establishFail

LEMMA EstablishingIs ==
    ASSUME NEW a \in Att
    PROVE  a.state \in 0 .. 5 /\ (isEstablishing(a) <=> a.state \in 1 .. 3)
  <1>1. a.state \in 0 .. 5
    BY DEF Att, Attempt, establishFail
  <1> QED
    BY <1>1 DEF isEstablishing, isStarted, attemptIsEnd, establishAboutSuccess

(* An attempt that begins, goes on, succeeds, fails. *)
LEMMA AttBegin ==
    ASSUME NEW a \in Att, a.state \in 0 .. 1, NEW s \in 1 .. 2, s > a.state, NEW t \in Times
    PROVE  /\ [changeState(a, s) EXCEPT !.startTime = t] \in Att
           /\ [changeState(a, s) EXCEPT !.startTime = t].conn = a.conn
           /\ [changeState(a, s) EXCEPT !.startTime = t].startTime = t
           /\ [changeState(a, s) EXCEPT !.startTime = t].state = s
  <1>1. /\ changeState(a, s) \in Att /\ changeState(a, s).conn = a.conn
        /\ changeState(a, s).state = s
    BY AttChange
  <1> QED
    BY <1>1, AttSetTime

LEMMA AttGoOn ==
    ASSUME NEW a \in Att, isEstablishing(a), NEW s \in 1 .. 3
    PROVE  /\ changeState(a, s) \in Att /\ changeState(a, s).conn = a.conn
           /\ changeState(a, s).startTime = a.startTime
           /\ isEstablishing(changeState(a, s))
  BY AttChange, EstablishingIs

LEMMA AttSuccess ==
    ASSUME NEW a \in Att, isEstablishing(a), NEW c \in Conns
    PROVE  /\ success(a, c) \in Att
           /\ success(a, c).conn = c
           /\ success(a, c).state = 4
           /\ success(a, c).startTime = a.startTime
  <1> DEFINE b == changeState(a, establishSuccess)
  <1>1. a.state \in 1 .. 3
    BY EstablishingIs
  <1>2. b \in Att /\ b.state = 4 /\ b.startTime = a.startTime
    BY <1>1, AttChange DEF establishSuccess
  <1>3. success(a, c) = [b EXCEPT !.conn = c]
    BY <1>1 DEF success, canChangeState, establishSuccess
  <1> HIDE DEF b
  <1> QED
    BY <1>2, <1>3, AttSetConn

LEMMA AttFail ==
    ASSUME NEW a \in Att, isEstablishing(a)
    PROVE  /\ fail(a) \in Att /\ fail(a).conn = a.conn /\ fail(a).state = 5
           /\ fail(a).startTime = a.startTime
  <1>1. a.state \in 1 .. 3
    BY EstablishingIs
  <1> QED
    BY <1>1, AttChange DEF fail, establishFail

(* The methods for the active attempt. *)
LEMMA StartActiveOp ==
    ASSUME NEW e \in Est, NEW t \in Times, canStartActive(e)
    PROVE  LET f == startActive(e, t) IN
           /\ f \in Est /\ f.passive = e.passive /\ f.active.conn = e.active.conn
           /\ f.active.startTime = t /\ isEstablishing(f.active)
           /\ ~isEstablishing(e.active) /\ ~isStarted(e.active)
           /\ isEnd(f) <=> isEnd(e)
  <1> DEFINE g == changeState(e, establishmentStarted)
             b == [changeState(g.active, establishConnect) EXCEPT !.startTime = t]
  <1>1. e.active \in Att /\ e.active.state \in 0 .. 5
    BY EstFields
  <1>2. e.active.state = 0
    BY <1>1 DEF canStartActive, canChangeState, establishConnect
  <1>3. /\ g \in Est /\ g.active = e.active /\ g.passive = e.passive
        /\ isEnd(g) <=> isEnd(e)
    BY EstChange, EstFields DEF establishmentStarted, isEnd, establishmentEnd
  <1>4. b \in Att /\ b.conn = e.active.conn /\ b.startTime = t /\ b.state = 1
    BY <1>1, <1>2, <1>3, AttBegin DEF establishConnect
  <1>5. startActive(e, t) = [g EXCEPT !.active = b]
    BY DEF startActive
  <1> HIDE DEF g, b
  <1> QED
    BY <1>1, <1>2, <1>3, <1>4, <1>5, EstSetActive, EstablishingIs DEF isEnd, isStarted

LEMMA GoOnActiveOp ==
    ASSUME NEW e \in Est, isEstablishing(e.active),
           NEW f \in {startActiveHandshake(e), activeAboutSuccess(e)}
    PROVE  /\ f \in Est /\ f.passive = e.passive /\ f.active.conn = e.active.conn
           /\ f.active.startTime = e.active.startTime /\ isEstablishing(f.active)
           /\ isEnd(f) <=> isEnd(e)
  <1>1. e.active \in Att
    BY EstFields
  <1>2. \/ f = e
        \/ \E s \in 1 .. 3 : f = [e EXCEPT !.active = changeState(e.active, s)]
    BY DEF startActiveHandshake, activeAboutSuccess, establishHandshake, establishAboutSuccess
  <1>3. ASSUME NEW s \in 1 .. 3, f = [e EXCEPT !.active = changeState(e.active, s)]
        PROVE  /\ f \in Est /\ f.passive = e.passive /\ f.active.conn = e.active.conn
               /\ f.active.startTime = e.active.startTime /\ isEstablishing(f.active)
               /\ isEnd(f) <=> isEnd(e)
    <2> DEFINE a == changeState(e.active, s)
    <2>1. /\ a \in Att /\ a.conn = e.active.conn /\ a.startTime = e.active.startTime
          /\ isEstablishing(a)
      BY <1>1, AttGoOn
    <2> HIDE DEF a
    <2> QED
      BY <1>3, <2>1, EstSetActive DEF a, isEnd
  <1> QED
    BY <1>2, <1>3

LEMMA ActiveSuccessOp ==
    ASSUME NEW e \in Est, isEstablishing(e.active), NEW c \in Conns
    PROVE  LET f == activeSuccess(e, c) IN
           /\ f \in Est /\ f.passive = e.passive
           /\ f.active.conn = c /\ isSuccess(f.active)
           /\ f.active.startTime = e.active.startTime /\ (isEnd(f) <=> isEnd(e))
  <1>1. e.active \in Att /\ isStarted(e.active)
    BY EstFields DEF isEstablishing
  <1>2. activeSuccess(e, c) = [e EXCEPT !.active = success(e.active, c)]
    BY <1>1 DEF activeSuccess
  <1> QED
    BY <1>1, <1>2, AttSuccess, EstSetActive DEF isSuccess, establishSuccess, isEnd

LEMMA ActiveFailOp ==
    ASSUME NEW e \in Est, isEstablishing(e.active)
    PROVE  LET f == activeFail(e) IN
           /\ f \in Est /\ f.passive = e.passive
           /\ f.active.conn = e.active.conn /\ isFail(f.active)
           /\ f.active.startTime = e.active.startTime /\ (isEnd(f) <=> isEnd(e))
  <1>1. e.active \in Att /\ isStarted(e.active)
    BY EstFields DEF isEstablishing
  <1>2. activeFail(e) = [e EXCEPT !.active = fail(e.active)]
    BY <1>1 DEF activeFail
  <1> QED
    BY <1>1, <1>2, AttFail, EstSetActive DEF isFail, establishFail, isEnd

(* The methods for the passive attempt. *)
LEMMA StartPassiveOp ==
    ASSUME NEW e \in Est, NEW t \in Times, canStartPassive(e)
    PROVE  LET f == startPassive(e, t) IN
           /\ f \in Est /\ f.active = e.active /\ f.passive.conn = e.passive.conn
           /\ f.passive.state = establishHandshake /\ f.passive.startTime = t
           /\ e.passive.state # establishHandshake /\ (isEnd(f) <=> isEnd(e))
  <1> DEFINE g == changeState(e, establishmentStarted)
             b == [changeState(g.passive, establishHandshake) EXCEPT !.startTime = t]
  <1>1. e.passive \in Att /\ e.passive.state \in 0 .. 5
    BY EstFields
  <1>2. e.passive.state \in 0 .. 1
    BY <1>1 DEF canStartPassive, canChangeState, establishHandshake
  <1>3. /\ g \in Est /\ g.active = e.active /\ g.passive = e.passive
        /\ isEnd(g) <=> isEnd(e)
    BY EstChange, EstFields DEF establishmentStarted, isEnd, establishmentEnd
  <1>4. b \in Att /\ b.conn = e.passive.conn /\ b.state = establishHandshake /\ b.startTime = t
    BY <1>1, <1>2, <1>3, AttBegin DEF establishHandshake
  <1>5. startPassive(e, t) = [g EXCEPT !.passive = b]
    BY DEF startPassive
  <1> HIDE DEF g, b
  <1> QED
    BY <1>2, <1>3, <1>4, <1>5, EstSetPassive DEF establishHandshake, isEnd

LEMMA PassiveSuccessOp ==
    ASSUME NEW e \in Est, isEstablishing(e.passive), NEW c \in Conns
    PROVE  LET f == passiveSuccess(e, c) IN
           /\ f \in Est /\ f.active = e.active
           /\ f.passive.conn = c /\ isSuccess(f.passive)
           /\ f.passive.startTime = e.passive.startTime /\ (isEnd(f) <=> isEnd(e))
  <1>1. e.passive \in Att /\ isStarted(e.passive)
    BY EstFields DEF isEstablishing
  <1>2. passiveSuccess(e, c) = [e EXCEPT !.passive = success(e.passive, c)]
    BY <1>1 DEF passiveSuccess
  <1> QED
    BY <1>1, <1>2, AttSuccess, EstSetPassive DEF isSuccess, establishSuccess, isEnd

LEMMA PassiveFailOp ==
    ASSUME NEW e \in Est, isEstablishing(e.passive)
    PROVE  LET f == passiveFail(e) IN
           /\ f \in Est /\ f.active = e.active
           /\ f.passive.conn = e.passive.conn /\ isFail(f.passive)
           /\ f.passive.startTime = e.passive.startTime /\ (isEnd(f) <=> isEnd(e))
  <1>1. e.passive \in Att /\ isStarted(e.passive)
    BY EstFields DEF isEstablishing
  <1>2. passiveFail(e) = [e EXCEPT !.passive = fail(e.passive)]
    BY <1>1 DEF passiveFail
  <1> QED
    BY <1>1, <1>2, AttFail, EstSetPassive DEF isFail, establishFail, isEnd

-----------------------------------------------------------------------------
(* An attempt that is over *)

(* What the end of an attempt of node n leaves alone. *)
LEMMA OverLeaves ==
    ASSUME TypeOK, NEW n \in Nodes, NEW e \in Est, NEW other,
           NEW o \in [Conns -> SUBSET Ends], attemptOver(n, e, other, o)
    PROVE  /\ es' \in [Nodes -> Est] /\ sess' \in [Nodes -> Conns \cup {None}]
           /\ open' \in [Conns -> SUBSET Ends]
           /\ \A m \in Nodes : m # n => es'[m] = es[m] /\ sess'[m] = sess[m]
           /\ \A c \in Conns : open'[c] \subseteq o[c]
  <1> DEFINE kept == keptConn(e, n < Peer(n))
             dropped == droppedConn(e, n < Peer(n))
  <1>1. es \in [Nodes -> Est] /\ sess \in [Nodes -> Conns \cup {None}]
    BY DEF TypeOK, Est
  <1>2. e.active.conn \in Conns \cup {None} /\ e.passive.conn \in Conns \cup {None}
    BY EstFields
  <1>3. kept \in Conns \cup {None} /\ dropped \in Conns \cup {None}
    BY <1>2 DEF keptConn, droppedConn
  <1>4. NewEstablishment \in Est
    BY DEF NewEstablishment, NoAttempt, Est, Establishment, Attempt, establishFail,
           establishmentEnd
  <1>5. CASE es' = [es EXCEPT ![n] = e] /\ open' = o /\ sess' = sess
    BY <1>1, <1>5
  <1>6. CASE establishEnd(n, e, o)
    <2>1. /\ es' = [es EXCEPT ![n] = NewEstablishment]
          /\ sess' = IF kept = None THEN sess ELSE [sess EXCEPT ![n] = kept]
          /\ open' = IF dropped = None THEN o
                     ELSE [o EXCEPT ![dropped] = @ \ {EndAt(n, dropped)}]
      BY <1>6 DEF establishEnd
    <2> HIDE DEF kept, dropped
    <2>2. open' \in [Conns -> SUBSET Ends] /\ \A c \in Conns : open'[c] \subseteq o[c]
      BY <1>3, <2>1
    <2> QED
      BY <1>1, <1>3, <1>4, <2>1, <2>2
  <1> QED
    BY <1>5, <1>6 DEF attemptOver

(* Either the other attempt goes on, and the establishment with it, or the *)
(* establishment is gone, and a connection it held is the session or shut. *)
LEMMA OverOutcome ==
    ASSUME TypeOK, NEW n \in Nodes, NEW e \in Est, NEW other,
           NEW o \in [Conns -> SUBSET Ends], attemptOver(n, e, other, o),
           ~isEstablishing(other) => ~isEstablishing(e.active) /\ ~isEstablishing(e.passive),
           sess[n] = None,
           e.active.conn # None => isSuccess(e.active) /\ n = dialler(e.active.conn),
           e.passive.conn # None => isSuccess(e.passive) /\ n = acceptor(e.passive.conn)
    PROVE  \/ es'[n] = e /\ sess'[n] = None /\ isEstablishing(other)
           \/ /\ es'[n] = NewEstablishment
              /\ ~isEstablishing(other)
              /\ sess'[n] \in {e.active.conn, e.passive.conn, None}
              /\ e.active.conn # None => \/ sess'[n] = e.active.conn
                                         \/ "dialler" \notin open'[e.active.conn]
              /\ e.passive.conn # None => \/ sess'[n] = e.passive.conn
                                          \/ "acceptor" \notin open'[e.passive.conn]
  <1> DEFINE less == n < Peer(n)
             kept == keptConn(e, less)
             dropped == droppedConn(e, less)
             a == e.active
             p == e.passive
  <1>1. es \in [Nodes -> Est] /\ sess \in [Nodes -> Conns \cup {None}]
    BY DEF TypeOK, Est
  <1>2. /\ a.conn \in Conns \cup {None} /\ p.conn \in Conns \cup {None}
        /\ a.state \in 0 .. 5 /\ p.state \in 0 .. 5
    BY EstFields
  <1>3. CASE isEstablishing(other)
    BY <1>1, <1>3 DEF attemptOver
  <1>4. CASE ~isEstablishing(other)
    <2>1. /\ es' = [es EXCEPT ![n] = NewEstablishment]
          /\ sess' = IF kept = None THEN sess ELSE [sess EXCEPT ![n] = kept]
          /\ open' = IF dropped = None THEN o
                     ELSE [o EXCEPT ![dropped] = @ \ {EndAt(n, dropped)}]
      BY <1>4 DEF attemptOver, establishEnd
    <2>2. a.state \in {0, 4, 5} /\ p.state \in {0, 4, 5}
      BY <1>2, <1>4 DEF isEstablishing, isStarted, attemptIsEnd, establishAboutSuccess
    <2>3. kept \in {a.conn, p.conn, None}
      BY DEF keptConn
    <2>4. a.conn # None => kept = a.conn \/ dropped = a.conn
      BY <2>2 DEF keptConn, droppedConn, keepsActive, keepsPassive, isStarted, isSuccess,
                  isFail, establishSuccess, establishFail
    <2>5. p.conn # None => kept = p.conn \/ dropped = p.conn
      BY <2>2 DEF keptConn, droppedConn, keepsActive, keepsPassive, isStarted, isSuccess,
                  isFail, establishSuccess, establishFail
    <2>6. dropped \in {a.conn, p.conn, None}
      BY DEF droppedConn
    <2> HIDE DEF kept, dropped, less
    <2>7. es'[n] = NewEstablishment /\ sess'[n] = kept
      BY <1>1, <1>2, <2>1, <2>3
    <2>8. ASSUME NEW d \in Conns, dropped = d
          PROVE  EndAt(n, d) \notin open'[d]
      BY <2>1, <2>8
    <2>9. a.conn # None => EndAt(n, a.conn) = "dialler"
      BY <1>2, ConnEnds
    <2>10. p.conn # None => EndAt(n, p.conn) = "acceptor"
      BY <1>2, ConnEnds
    <2> QED
      BY <1>2, <1>4, <2>3, <2>4, <2>5, <2>7, <2>8, <2>9, <2>10
  <1> QED
    BY <1>3, <1>4

-----------------------------------------------------------------------------
(* The invariant holds at first. *)

LEMMA InitInv == Init => IInv
  <1> SUFFICES ASSUME Init PROVE IInv
    OBVIOUS
  <1>1. NewEstablishment \in Est
    BY DEF NewEstablishment, NoAttempt, Est, Establishment, Attempt, establishFail,
           establishmentEnd
  <1>2. /\ \A n \in Nodes : es[n] = NewEstablishment /\ sess[n] = None
        /\ \A c \in Conns : /\ aPc[c] = "idle" /\ pPc[c] = "none" /\ open[c] = {}
                            /\ toAcceptor[c] = <<>> /\ toDialler[c] = <<>>
    BY DEF Init
  <1>3. TypeOK
    BY <1>1, EmptySeq DEF Init, TypeOK, Est
  <1>4. Owners
    BY <1>2 DEF Owners, ActiveOwn, PassiveOwn, Runs, Handles
  <1>5. Messages
    <2>1. \A c \in Conns : Len(toAcceptor[c]) = 0 /\ Len(toDialler[c]) = 0
      BY <1>2, EmptySeq
    <2> QED
      BY <1>2, <2>1 DEF Messages, Undialled, AckBacked, CompletedBacked, Under
  <1>6. Holders
    BY <1>2 DEF Holders, LostIsShut, WonActive, WonPassive, SessionsWon, ConnsWon,
                NewEstablishment, NoAttempt
  <1> QED
    BY <1>3, <1>4, <1>5, <1>6 DEF IInv

-----------------------------------------------------------------------------
(* What the actions have in common *)

(* The facts about the establishment of a running or handling attempt. *)
LEMMA RunningEst ==
    ASSUME IInv, NEW c \in Conns, Runs(c)
    PROVE  LET e == es[dialler(c)] IN
           /\ e \in Est /\ isEstablishing(e.active)
           /\ e.active.startTime \in Times
           /\ e.active.conn = None
           /\ e.passive.conn # None =>
                 /\ isSuccess(e.passive) /\ dialler(c) = acceptor(e.passive.conn)
                 /\ pPc[e.passive.conn] = "won"
           /\ sess[dialler(c)] = None
  <1>1. dialler(c) \in Nodes
    BY ConnEnds
  <1>2. es[dialler(c)] \in Est
    BY <1>1 DEF IInv, TypeOK, Est
  <1>3. isEstablishing(es[dialler(c)].active) /\ es[dialler(c)].active.startTime \in Times
    BY DEF IInv, Owners, ActiveOwn
  <1>4. es[dialler(c)].active.state \in 1 .. 3
    BY <1>2, <1>3, EstFields, EstablishingIs
  <1> QED
    BY <1>1, <1>2, <1>3, <1>4 DEF IInv, Holders, ConnsWon, SessionsWon, isSuccess, establishSuccess,
        NewEstablishment, NoAttempt

LEMMA HandlingEst ==
    ASSUME IInv, NEW c \in Conns, Handles(c)
    PROVE  LET e == es[acceptor(c)] IN
           /\ e \in Est /\ isEstablishing(e.passive)
           /\ e.passive.conn = None
           /\ e.active.conn # None =>
                 /\ isSuccess(e.active) /\ acceptor(c) = dialler(e.active.conn)
                 /\ aPc[e.active.conn] = "won"
           /\ sess[acceptor(c)] = None
  <1>1. acceptor(c) \in Nodes
    BY ConnEnds
  <1>2. es[acceptor(c)] \in Est
    BY <1>1 DEF IInv, TypeOK, Est
  <1>3. es[acceptor(c)].passive.state = 2
    BY DEF IInv, Owners, PassiveOwn, establishHandshake
  <1>4. isEstablishing(es[acceptor(c)].passive)
    BY <1>2, <1>3, EstFields, EstablishingIs
  <1> QED
    BY <1>1, <1>2, <1>3, <1>4 DEF IInv, Holders, ConnsWon, SessionsWon, isSuccess, establishSuccess,
        NewEstablishment, NoAttempt

-----------------------------------------------------------------------------
(* Types *)

LEMMA TypeStep ==
    ASSUME IInv, [Next]_vars
    PROVE  TypeOK'
  <1> USE DEF Ends
  <1>1. /\ faulty \in BOOLEAN
        /\ es \in [Nodes -> Est] /\ sess \in [Nodes -> Conns \cup {None}]
        /\ aPc \in [Conns -> {"idle", "dial", "waitResp", "waitAck", "won", "lost", "none"}]
        /\ pPc \in [Conns -> {"none", "accept", "waitCompleted", "success", "won", "lost"}]
        /\ open \in [Conns -> SUBSET Ends]
        /\ toAcceptor \in [Conns -> Seq(Message)] /\ toDialler \in [Conns -> Seq(Message)]
    BY DEF IInv, TypeOK, Est
  <1>2. ASSUME NEW c \in Conns
        PROVE  /\ dialler(c) \in Nodes /\ acceptor(c) \in Nodes
               /\ es[dialler(c)] \in Est /\ es[acceptor(c)] \in Est
               /\ toAcceptor[c] \in Seq(Message) /\ toDialler[c] \in Seq(Message)
               /\ \A x : Shut(c, x) \in [Conns -> SUBSET Ends]
    BY <1>1, ConnEnds DEF Shut
  <1>3. TypeOK' <=>
           /\ faulty' \in BOOLEAN
           /\ es' \in [Nodes -> Est] /\ sess' \in [Nodes -> Conns \cup {None}]
           /\ aPc' \in [Conns -> {"idle", "dial", "waitResp", "waitAck", "won", "lost", "none"}]
           /\ pPc' \in [Conns -> {"none", "accept", "waitCompleted", "success", "won", "lost"}]
           /\ open' \in [Conns -> SUBSET Ends]
           /\ toAcceptor' \in [Conns -> Seq(Message)] /\ toDialler' \in [Conns -> Seq(Message)]
    BY DEF TypeOK, Est
  <1>4. /\ \A t \in Times : [type |-> "HSApply", time |-> t] \in Message
        /\ \A t \in {"HSAccepted", "HSRejected", "HSCompleted", "HSCompletedAck"} : [type |-> t] \in Message
    BY DEF Message
  <1>5. TypeOK
    BY DEF IInv
  <1>6. CASE UNCHANGED vars
    BY <1>1, <1>3, <1>6 DEF vars, state
  <1>7. ASSUME NEW c \in Conns, Connect(c), UNCHANGED faulty
        PROVE  TypeOK'
    <2>1. \/ es' = es
          \/ \E now \in Times : /\ canStartActive(es[dialler(c)])
                               /\ es' = [es EXCEPT ![dialler(c)] = startActive(es[dialler(c)], now)]
      BY <1>1, <1>7 DEF Connect
    <2>2. \A now \in Times : canStartActive(es[dialler(c)]) =>
              startActive(es[dialler(c)], now) \in Est
      BY <1>2, StartActiveOp
    <2>3. es' \in [Nodes -> Est]
      BY <1>1, <1>2, <2>1, <2>2, SMTT(30)
    <2> QED
      BY <1>1, <1>3, <1>7, <2>3 DEF Connect, net
  <1>8. ASSUME NEW c \in Conns, Dial(c), UNCHANGED faulty
        PROVE  TypeOK'
    <2>1. Runs(c)
      BY <1>8 DEF Dial, Runs
    <2>2. es' \in [Nodes -> Est]
      BY <1>1, <1>2, <1>8, <2>1, RunningEst, GoOnActiveOp DEF Dial
    <2>3. toAcceptor' \in [Conns -> Seq(Message)]
      BY <1>1, <1>2, <1>4, <1>8, <2>1, RunningEst, AppendSent DEF Dial
    <2> QED
      BY <1>1, <1>3, <1>8, <2>2, <2>3 DEF Dial
  <1>9. ASSUME NEW c \in Conns, ReadAccepted(c), UNCHANGED faulty
        PROVE  TypeOK'
    <2>1. Runs(c)
      BY <1>9 DEF ReadAccepted, Runs
    <2>2. es' \in [Nodes -> Est]
      BY <1>1, <1>2, <1>9, <2>1, RunningEst, GoOnActiveOp DEF ReadAccepted
    <2>3. toAcceptor' \in [Conns -> Seq(Message)] /\ toDialler' \in [Conns -> Seq(Message)]
      BY <1>1, <1>2, <1>4, <1>9, AppendSent, HeadSent DEF ReadAccepted, Receive
    <2> QED
      BY <1>1, <1>3, <1>9, <2>2, <2>3 DEF ReadAccepted
  <1>10. ASSUME NEW c \in Conns, ReadCompletedAck(c), UNCHANGED faulty
         PROVE  TypeOK'
    <2> DEFINE n == dialler(c)
               e == activeSuccess(es[n], c)
    <2>1. Runs(c)
      BY <1>10 DEF ReadCompletedAck, Runs
    <2>2. e \in Est /\ n \in Nodes /\ attemptOver(n, e, e.passive, open)
      BY <1>2, <1>10, <2>1, RunningEst, ActiveSuccessOp DEF ReadCompletedAck
    <2>3. toDialler' \in [Conns -> Seq(Message)]
      BY <1>1, <1>2, <1>10, HeadSent DEF ReadCompletedAck, Receive
    <2> HIDE DEF e, n
    <2>4. /\ es' \in [Nodes -> Est] /\ sess' \in [Nodes -> Conns \cup {None}]
          /\ open' \in [Conns -> SUBSET Ends]
      BY <1>1, <1>5, <2>2, OverLeaves
    <2> QED
      BY <1>1, <1>3, <1>10, <2>3, <2>4 DEF ReadCompletedAck
  <1>11. ASSUME NEW c \in Conns, ActiveFail(c), UNCHANGED faulty
         PROVE  TypeOK'
    <2> DEFINE n == dialler(c)
               e == activeFail(es[n])
               o == Shut(c, "dialler")
    <2>1. Runs(c)
      BY <1>11 DEF ActiveFail, Runs
    <2>2. e \in Est /\ n \in Nodes /\ attemptOver(n, e, e.passive, o) /\ o \in [Conns -> SUBSET Ends]
      BY <1>2, <1>11, <2>1, RunningEst, ActiveFailOp DEF ActiveFail
    <2> HIDE DEF e, n, o
    <2>4. /\ es' \in [Nodes -> Est] /\ sess' \in [Nodes -> Conns \cup {None}]
          /\ open' \in [Conns -> SUBSET Ends]
      BY <1>5, <2>2, OverLeaves
    <2> QED
      BY <1>1, <1>3, <1>11, <2>4 DEF ActiveFail
  <1>12. ASSUME NEW c \in Conns, OnPassiveConn(c), UNCHANGED faulty
         PROVE  TypeOK'
    <2>1. /\ Head(toAcceptor[c]) \in Message /\ Head(toAcceptor[c]).type = "HSApply"
          /\ Tail(toAcceptor[c]) \in Seq(Message)
      BY <1>2, <1>12, HeadSent DEF OnPassiveConn, Receive
    <2>2. Head(toAcceptor[c]).time \in Times
      BY <2>1 DEF Message
    <2> DEFINE m == acceptor(c)
               f == startPassive(es[m], Head(toAcceptor[c]).time)
    <2>6. es' = es \/ (canStartPassive(es[m]) /\ es' = [es EXCEPT ![m] = f])
      BY <1>1, <1>12 DEF OnPassiveConn
    <2>7. canStartPassive(es[m]) => f \in Est
      BY <1>2, <2>2, StartPassiveOp
    <2>8. /\ toAcceptor' = [toAcceptor EXCEPT ![c] = Tail(toAcceptor[c])]
          /\ \E t \in {"HSAccepted", "HSRejected"} :
                toDialler' = [toDialler EXCEPT ![c] = Append(toDialler[c], [type |-> t])]
      BY <1>1, <1>12 DEF OnPassiveConn
    <2>9. \A t \in {"HSAccepted", "HSRejected"} : Append(toDialler[c], [type |-> t]) \in Seq(Message)
      BY <1>2, <1>4, AppendSent
    <2> HIDE DEF f
    <2>3. es' \in [Nodes -> Est]
      BY <1>1, <1>2, <2>6, <2>7
    <2>4. toAcceptor' \in [Conns -> Seq(Message)] /\ toDialler' \in [Conns -> Seq(Message)]
      BY <1>1, <2>1, <2>8, <2>9
    <2>5. open' \in [Conns -> SUBSET Ends]
      BY <1>1, <1>2, <1>12 DEF OnPassiveConn
    <2> QED
      BY <1>1, <1>3, <1>12, <2>3, <2>4, <2>5 DEF OnPassiveConn
  <1>13. ASSUME NEW c \in Conns, OnPassiveConnFails(c), UNCHANGED faulty
         PROVE  TypeOK'
    BY <1>1, <1>2, <1>3, <1>13 DEF OnPassiveConnFails
  <1>14. ASSUME NEW c \in Conns, ReadCompleted(c), UNCHANGED faulty
         PROVE  TypeOK'
    <2>1. toAcceptor' \in [Conns -> Seq(Message)] /\ toDialler' \in [Conns -> Seq(Message)]
      BY <1>1, <1>2, <1>4, <1>14, AppendSent, HeadSent DEF ReadCompleted, Receive
    <2> QED
      BY <1>1, <1>3, <1>14, <2>1 DEF ReadCompleted
  <1>15. ASSUME NEW c \in Conns, WriteCompletedAckFails(c), UNCHANGED faulty
         PROVE  TypeOK'
    <2> DEFINE n == acceptor(c)
               e == passiveFail(es[n])
               o == Shut(c, "acceptor")
    <2>1. Handles(c)
      BY <1>15 DEF WriteCompletedAckFails, Handles
    <2>2. e \in Est /\ n \in Nodes /\ attemptOver(n, e, e.active, o) /\ o \in [Conns -> SUBSET Ends]
      BY <1>2, <1>15, <2>1, HandlingEst, PassiveFailOp DEF WriteCompletedAckFails
    <2>3. toAcceptor' \in [Conns -> Seq(Message)] /\ toDialler' \in [Conns -> Seq(Message)]
      BY <1>1, <1>2, <1>4, <1>15, AppendSent, HeadSent DEF WriteCompletedAckFails, Receive
    <2> HIDE DEF e, n, o
    <2>4. /\ es' \in [Nodes -> Est] /\ sess' \in [Nodes -> Conns \cup {None}]
          /\ open' \in [Conns -> SUBSET Ends]
      BY <1>5, <2>2, OverLeaves
    <2> QED
      BY <1>1, <1>3, <1>15, <2>3, <2>4 DEF WriteCompletedAckFails
  <1>16. ASSUME NEW c \in Conns, PassiveSuccess(c), UNCHANGED faulty
         PROVE  TypeOK'
    <2> DEFINE n == acceptor(c)
               e == passiveSuccess(es[n], c)
    <2>1. Handles(c)
      BY <1>16 DEF PassiveSuccess, Handles
    <2>2. e \in Est /\ n \in Nodes /\ attemptOver(n, e, e.active, open)
      BY <1>2, <1>16, <2>1, HandlingEst, PassiveSuccessOp DEF PassiveSuccess
    <2> HIDE DEF e, n
    <2>4. /\ es' \in [Nodes -> Est] /\ sess' \in [Nodes -> Conns \cup {None}]
          /\ open' \in [Conns -> SUBSET Ends]
      BY <1>1, <1>5, <2>2, OverLeaves
    <2> QED
      BY <1>1, <1>3, <1>16, <2>4 DEF PassiveSuccess
  <1>17. ASSUME NEW c \in Conns, PassiveFail(c), UNCHANGED faulty
         PROVE  TypeOK'
    <2> DEFINE n == acceptor(c)
               e == passiveFail(es[n])
               o == Shut(c, "acceptor")
    <2>1. Handles(c)
      BY <1>17 DEF PassiveFail, Handles
    <2>2. e \in Est /\ n \in Nodes /\ attemptOver(n, e, e.active, o) /\ o \in [Conns -> SUBSET Ends]
      BY <1>2, <1>17, <2>1, HandlingEst, PassiveFailOp DEF PassiveFail
    <2> HIDE DEF e, n, o
    <2>4. /\ es' \in [Nodes -> Est] /\ sess' \in [Nodes -> Conns \cup {None}]
          /\ open' \in [Conns -> SUBSET Ends]
      BY <1>5, <2>2, OverLeaves
    <2> QED
      BY <1>1, <1>3, <1>17, <2>4 DEF PassiveFail
  <1>18. ASSUME NEW n \in Nodes, SessionOnClosed(n), UNCHANGED faulty
         PROVE  TypeOK'
    BY <1>1, <1>2, <1>3, <1>18 DEF SessionOnClosed
  <1>19. ASSUME NEW c \in Conns, Lose(c), UNCHANGED faulty
         PROVE  TypeOK'
    <2>1. <<>> \in Seq(Message)
      OBVIOUS
    <2> DEFINE S == Seq(Message)
               none == <<>>
    <2>3. /\ toAcceptor' = toAcceptor \/ toAcceptor' = [toAcceptor EXCEPT ![c] = none]
          /\ toDialler' = toDialler \/ toDialler' = [toDialler EXCEPT ![c] = none]
      BY <1>19 DEF Lose
    <2>4. none \in S /\ toAcceptor \in [Conns -> S] /\ toDialler \in [Conns -> S]
      BY <1>1, <2>1
    <2> HIDE DEF S, none
    <2>5. toAcceptor' \in [Conns -> S] /\ toDialler' \in [Conns -> S]
      BY <2>3, <2>4
    <2>2. toAcceptor' \in [Conns -> Seq(Message)] /\ toDialler' \in [Conns -> Seq(Message)]
      BY <2>5 DEF S
    <2> QED
      BY <1>1, <1>3, <1>19, <2>2 DEF Lose
  <1> QED
    BY <1>6, <1>7, <1>8, <1>9, <1>10, <1>11, <1>12, <1>13, <1>14, <1>15, <1>16, <1>17,
       <1>18, <1>19 DEF Next, Active, Passive

-----------------------------------------------------------------------------
(* One attempt at a time *)

(* An action on connection c leaves the other connections' attempts alone. *)
OnlyAt(c, n) ==
    /\ \A d \in Conns : d # c => aPc'[d] = aPc[d] /\ pPc'[d] = pPc[d]
    /\ \A m \in Nodes : m # n => es'[m] = es[m]

LEMMA ActionsAreLocal ==
    ASSUME IInv, NEW c \in Conns
    PROVE  /\ Connect(c) \/ Active(c) => OnlyAt(c, dialler(c))
           /\ Passive(c) \/ WriteCompletedAckFails(c) => OnlyAt(c, acceptor(c))
  <1>1. /\ aPc \in [Conns -> {"idle", "dial", "waitResp", "waitAck", "won", "lost", "none"}]
        /\ pPc \in [Conns -> {"none", "accept", "waitCompleted", "success", "won", "lost"}]
        /\ es \in [Nodes -> Est]
    BY DEF IInv, TypeOK, Est
  <1>2. ASSUME NEW n, NEW e, NEW other, NEW o, attemptOver(n, e, other, o)
        PROVE  \A m \in Nodes : m # n => es'[m] = es[m]
    BY <1>1, <1>2 DEF attemptOver, establishEnd
  <1>3. Connect(c) => OnlyAt(c, dialler(c))
    BY <1>1 DEF Connect, OnlyAt
  <1>4. Dial(c) => OnlyAt(c, dialler(c))
    BY <1>1 DEF Dial, OnlyAt
  <1>5. ReadAccepted(c) => OnlyAt(c, dialler(c))
    BY <1>1 DEF ReadAccepted, OnlyAt
  <1>6. ReadCompletedAck(c) => OnlyAt(c, dialler(c))
    BY <1>1, <1>2 DEF ReadCompletedAck, OnlyAt
  <1>7. ActiveFail(c) => OnlyAt(c, dialler(c))
    BY <1>1, <1>2 DEF ActiveFail, OnlyAt
  <1>8. OnPassiveConn(c) => OnlyAt(c, acceptor(c))
    BY <1>1 DEF OnPassiveConn, OnlyAt
  <1>9. OnPassiveConnFails(c) \/ ReadCompleted(c) => OnlyAt(c, acceptor(c))
    BY <1>1 DEF OnPassiveConnFails, ReadCompleted, OnlyAt
  <1>10. PassiveSuccess(c) => OnlyAt(c, acceptor(c))
    BY <1>1, <1>2 DEF PassiveSuccess, OnlyAt
  <1>11. PassiveFail(c) => OnlyAt(c, acceptor(c))
    BY <1>1, <1>2 DEF PassiveFail, OnlyAt
  <1>12. WriteCompletedAckFails(c) => OnlyAt(c, acceptor(c))
    BY <1>1, <1>2 DEF WriteCompletedAckFails, OnlyAt
  <1> QED
    BY <1>3, <1>4, <1>5, <1>6, <1>7, <1>8, <1>9, <1>10, <1>11, <1>12 DEF Active, Passive

(* What an action at node n on connection c has to show of the attempts.   *)
LEMMA OwnersKept ==
    ASSUME IInv, NEW c \in Conns, NEW n \in Nodes, OnlyAt(c, n),
           \A d \in Conns : d # c /\ Runs(d) /\ dialler(d) = n =>
               /\ isEstablishing(es'[n].active)
               /\ es'[n].active.startTime = es[n].active.startTime,
           \A d \in Conns : d # c /\ Handles(d) /\ acceptor(d) = n =>
               es'[n].passive.state = es[n].passive.state,
           Runs(c)' => /\ isEstablishing(es'[dialler(c)].active)
                       /\ es'[dialler(c)].active.startTime \in Times
                       /\ \A d \in Conns : Runs(d) /\ dialler(d) = dialler(c) => d = c,
           Handles(c)' => /\ es'[acceptor(c)].passive.state = establishHandshake
                          /\ \A d \in Conns : Handles(d) /\ acceptor(d) = acceptor(c) => d = c
    PROVE  Owners'
  <1>1. \A d \in Conns : d # c => (Runs(d)' <=> Runs(d)) /\ (Handles(d)' <=> Handles(d))
    BY DEF OnlyAt, Runs, Handles
  <1>2. \A m \in Nodes : m # n => es'[m] = es[m]
    BY DEF OnlyAt
  <1>3. \A d \in Conns : dialler(d) \in Nodes /\ acceptor(d) \in Nodes
    BY ConnEnds
  <1>4. ActiveOwn /\ PassiveOwn
    BY DEF IInv, Owners
  <1>5. ActiveOwn'
    <2> SUFFICES ASSUME NEW d \in Conns, Runs(d)'
                 PROVE  /\ isEstablishing(es'[dialler(d)].active)
                        /\ es'[dialler(d)].active.startTime \in Times
                        /\ \A f \in Conns : Runs(f)' /\ dialler(f) = dialler(d) => f = d
      BY DEF ActiveOwn, Runs, dialler, isEstablishing, isStarted, attemptIsEnd
    <2>1. CASE d = c
      BY <1>1, <2>1
    <2>2. CASE d # c
      <3>1. /\ isEstablishing(es[dialler(d)].active) /\ es[dialler(d)].active.startTime \in Times
            /\ \A f \in Conns : Runs(f) /\ dialler(f) = dialler(d) => f = d
        BY <1>1, <1>4, <2>2 DEF ActiveOwn
      <3>2. /\ isEstablishing(es'[dialler(d)].active)
            /\ es'[dialler(d)].active.startTime = es[dialler(d)].active.startTime
        BY <1>1, <1>2, <1>3, <2>2, <3>1
      <3> QED
        BY <1>1, <2>2, <3>1, <3>2
    <2> QED
      BY <2>1, <2>2
  <1>6. PassiveOwn'
    <2> SUFFICES ASSUME NEW d \in Conns, Handles(d)'
                 PROVE  /\ es'[acceptor(d)].passive.state = establishHandshake
                        /\ \A f \in Conns : Handles(f)' /\ acceptor(f) = acceptor(d) => f = d
      BY DEF PassiveOwn, Handles, acceptor
    <2>1. CASE d = c
      BY <1>1, <2>1
    <2>2. CASE d # c
      BY <1>1, <1>2, <1>3, <1>4, <2>2 DEF PassiveOwn
    <2> QED
      BY <2>1, <2>2
  <1> QED
    BY <1>5, <1>6 DEF Owners

(* An attempt of node n that is over leaves one that is under way alone.   *)
LEMMA OverKeeps ==
    ASSUME TypeOK, NEW n \in Nodes, NEW e \in Est, NEW other, NEW o, attemptOver(n, e, other, o)
    PROVE  isEstablishing(other) => es'[n] = e
  BY DEF TypeOK, attemptOver

LEMMA OwnersStep ==
    ASSUME IInv, [Next]_vars
    PROVE  Owners'
  <1>1. /\ es \in [Nodes -> Est] /\ ActiveOwn /\ PassiveOwn /\ TypeOK
        /\ aPc \in [Conns -> {"idle", "dial", "waitResp", "waitAck", "won", "lost", "none"}]
        /\ pPc \in [Conns -> {"none", "accept", "waitCompleted", "success", "won", "lost"}]
    BY DEF IInv, TypeOK, Est, Owners
  <1>2. ASSUME NEW c \in Conns
        PROVE  /\ dialler(c) \in Nodes /\ acceptor(c) \in Nodes /\ acceptor(c) # dialler(c)
               /\ es[dialler(c)] \in Est /\ es[acceptor(c)] \in Est
               /\ Runs(c) => \A d \in Conns : Runs(d) /\ dialler(d) = dialler(c) => d = c
               /\ Handles(c) => /\ es[acceptor(c)].passive.state = establishHandshake
                                /\ \A d \in Conns : Handles(d) /\ acceptor(d) = acceptor(c) => d = c
    BY <1>1, ConnEnds DEF ActiveOwn, PassiveOwn
  <1>3. ASSUME \A d \in Conns : aPc'[d] = aPc[d] /\ pPc'[d] = pPc[d],
               \A m \in Nodes : es'[m] = es[m]
        PROVE  Owners'
    <2>1. \A d \in Conns : (Runs(d)' <=> Runs(d)) /\ (Handles(d)' <=> Handles(d))
      BY <1>3 DEF Runs, Handles
    <2>2. ActiveOwn'
      BY <1>1, <1>2, <1>3, <2>1 DEF ActiveOwn
    <2>3. PassiveOwn'
      BY <1>1, <1>2, <1>3, <2>1 DEF PassiveOwn
    <2> QED
      BY <2>2, <2>3 DEF Owners
  <1>4. CASE UNCHANGED vars \/ (\E n \in Nodes : SessionOnClosed(n)) \/ (\E c \in Conns : Lose(c))
    BY <1>3, <1>4 DEF vars, state, SessionOnClosed, Lose
  <1>5. ASSUME NEW c \in Conns, Connect(c)
        PROVE  Owners'
    <2> DEFINE n == dialler(c)
    <2>1. OnlyAt(c, n)
      BY <1>5, ActionsAreLocal
    <2>2. CASE es' = es /\ aPc'[c] = "none"
      <3>1. ~Runs(c)' /\ (Handles(c)' <=> Handles(c))
        BY <1>5, <2>2 DEF Runs, Handles, Connect
      <3> QED
        BY <1>1, <1>2, <2>1, <2>2, <3>1, OwnersKept DEF ActiveOwn
    <2>3. CASE \E now \in Times : /\ canStartActive(es[n])
                                  /\ es' = [es EXCEPT ![n] = startActive(es[n], now)]
      <3>1. PICK now \in Times : /\ canStartActive(es[n])
                                 /\ es'[n] = startActive(es[n], now)
        BY <1>1, <1>2, <2>3
      <3>2. /\ es'[n].passive = es[n].passive /\ isEstablishing(es'[n].active)
            /\ es'[n].active.startTime \in Times
            /\ ~isEstablishing(es[n].active)
        BY <1>2, <3>1, StartActiveOp
      <3>3. \A d \in Conns : ~(Runs(d) /\ dialler(d) = n)
        BY <1>1, <3>2 DEF ActiveOwn
      <3>4. (Handles(c)' <=> Handles(c)) /\ es'[acceptor(c)] = es[acceptor(c)]
        BY <1>2, <1>5, <2>1 DEF Connect, OnlyAt, Handles
      <3> QED
        BY <1>2, <2>1, <3>2, <3>3, <3>4, OwnersKept
    <2> QED
      BY <1>1, <1>5, <2>2, <2>3 DEF Connect
  <1>6. ASSUME NEW c \in Conns, Dial(c) \/ ReadAccepted(c)
        PROVE  Owners'
    <2> DEFINE n == dialler(c)
    <2>1. OnlyAt(c, n) /\ Runs(c)
      BY <1>6, ActionsAreLocal DEF Active, Dial, ReadAccepted, Runs
    <2>2. es'[n] \in {startActiveHandshake(es[n]), activeAboutSuccess(es[n])}
      BY <1>1, <1>2, <1>6 DEF Dial, ReadAccepted
    <2>3. /\ es'[n].passive = es[n].passive /\ isEstablishing(es'[n].active)
          /\ es'[n].active.startTime \in Times
      BY <2>1, <2>2, RunningEst, GoOnActiveOp
    <2>4. /\ Handles(c)' => Handles(c)
          /\ es'[acceptor(c)] = es[acceptor(c)]
      BY <1>1, <1>2, <1>6, <2>1 DEF Dial, ReadAccepted, OnlyAt, Handles
    <2> QED
      BY <1>2, <2>1, <2>3, <2>4, OwnersKept
  <1>7. ASSUME NEW c \in Conns, ReadCompletedAck(c) \/ ActiveFail(c)
        PROVE  Owners'
    <2> DEFINE n == dialler(c)
    <2>1. OnlyAt(c, n) /\ Runs(c)
      BY <1>7, ActionsAreLocal DEF Active, ReadCompletedAck, ActiveFail, Runs
    <2>2. ASSUME NEW d \in Conns, Handles(d), acceptor(d) = n
          PROVE  es'[n].passive.state = es[n].passive.state
      <3>1. isEstablishing(es[n].passive)
        BY <1>1, <1>2, <2>2, EstFields, EstablishingIs DEF establishHandshake
      <3>2. CASE ReadCompletedAck(c)
        <4> DEFINE e == activeSuccess(es[n], c)
        <4>1. e \in Est /\ e.passive = es[n].passive /\ attemptOver(n, e, e.passive, open)
          BY <2>1, <3>2, RunningEst, ActiveSuccessOp DEF ReadCompletedAck
        <4> HIDE DEF e
        <4> QED
          BY <1>1, <1>2, <3>1, <4>1, OverKeeps
      <3>3. CASE ActiveFail(c)
        <4> DEFINE e == activeFail(es[n])
        <4>1. e \in Est /\ e.passive = es[n].passive /\ attemptOver(n, e, e.passive, Shut(c, "dialler"))
          BY <2>1, <3>3, RunningEst, ActiveFailOp DEF ActiveFail
        <4> HIDE DEF e
        <4> QED
          BY <1>1, <1>2, <3>1, <4>1, OverKeeps
      <3> QED
        BY <1>7, <3>2, <3>3
    <2>3. ~Runs(c)' /\ (Handles(c)' => Handles(c)) /\ es'[acceptor(c)] = es[acceptor(c)]
      BY <1>1, <1>2, <1>7, <2>1 DEF ReadCompletedAck, ActiveFail, OnlyAt, Handles, Runs
    <2> QED
      BY <1>2, <2>1, <2>2, <2>3, OwnersKept
  <1>8. ASSUME NEW c \in Conns, OnPassiveConn(c)
        PROVE  Owners'
    <2> DEFINE n == acceptor(c)
               t == Head(toAcceptor[c]).time
    <2>1. OnlyAt(c, n)
      BY <1>8, ActionsAreLocal DEF Passive
    <2>2. (Runs(c)' <=> Runs(c)) /\ es'[dialler(c)] = es[dialler(c)]
      BY <1>2, <1>8, <2>1 DEF OnPassiveConn, OnlyAt, Runs
    <2>3. CASE es' = es /\ pPc'[c] = "lost"
      <3>1. ~Handles(c)'
        BY <2>3 DEF Handles
      <3> QED
        BY <1>1, <1>2, <2>1, <2>2, <2>3, <3>1, OwnersKept DEF ActiveOwn
    <2>4. CASE canStartPassive(es[n]) /\ es' = [es EXCEPT ![n] = startPassive(es[n], t)]
      <3>1. toAcceptor[c] \in Seq(Message) /\ toAcceptor[c] # <<>> /\ Head(toAcceptor[c]).type = "HSApply"
        BY <1>1, <1>8 DEF TypeOK, OnPassiveConn, Receive
      <3>2. Head(toAcceptor[c]) \in Message
        BY <3>1, HeadSent
      <3>3. t \in Times
        BY <3>1, <3>2 DEF Message
      <3>4. es'[n] = startPassive(es[n], t)
        BY <1>1, <1>2, <2>4
      <3> HIDE DEF t
      <3>5. /\ es'[n].active = es[n].active /\ es'[n].passive.state = establishHandshake
            /\ es[n].passive.state # establishHandshake
        BY <1>2, <2>4, <3>3, <3>4, StartPassiveOp
      <3>6. \A d \in Conns : ~(Handles(d) /\ acceptor(d) = n)
        BY <1>1, <3>5 DEF PassiveOwn
      <3>7. \A d \in Conns : Runs(d) /\ dialler(d) = n => isEstablishing(es[n].active)
        BY <1>1 DEF ActiveOwn
      <3>8. Runs(c) => isEstablishing(es[dialler(c)].active) /\ es[dialler(c)].active.startTime \in Times
        BY <1>1 DEF ActiveOwn
      <3> QED
        BY <1>2, <2>1, <2>2, <3>5, <3>6, <3>7, <3>8, OwnersKept
    <2> QED
      BY <1>1, <1>8, <2>3, <2>4 DEF OnPassiveConn
  <1>9. ASSUME NEW c \in Conns, OnPassiveConnFails(c) \/ ReadCompleted(c)
        PROVE  Owners'
    <2>1. OnlyAt(c, acceptor(c))
      BY <1>9, ActionsAreLocal DEF Passive
    <2>2. (Runs(c)' <=> Runs(c)) /\ (Handles(c)' => Handles(c)) /\ es' = es
      BY <1>1, <1>9 DEF OnPassiveConnFails, ReadCompleted, Runs, Handles
    <2> QED
      BY <1>1, <1>2, <2>1, <2>2, OwnersKept DEF ActiveOwn
  <1>10. ASSUME NEW c \in Conns, PassiveSuccess(c) \/ PassiveFail(c) \/ WriteCompletedAckFails(c)
         PROVE  Owners'
    <2> DEFINE n == acceptor(c)
    <2>1. OnlyAt(c, n) /\ Handles(c)
      BY <1>10, ActionsAreLocal DEF Passive, PassiveSuccess, PassiveFail, WriteCompletedAckFails, Handles
    <2>2. ASSUME NEW d \in Conns, Runs(d), dialler(d) = n
          PROVE  es'[n].active = es[n].active /\ isEstablishing(es[n].active)
      <3>1. isEstablishing(es[n].active)
        BY <1>1, <2>2 DEF ActiveOwn
      <3>2. CASE PassiveSuccess(c)
        <4> DEFINE e == passiveSuccess(es[n], c)
        <4>1. e \in Est /\ e.active = es[n].active /\ attemptOver(n, e, e.active, open)
          BY <2>1, <3>2, HandlingEst, PassiveSuccessOp DEF PassiveSuccess
        <4> HIDE DEF e
        <4> QED
          BY <1>1, <1>2, <3>1, <4>1, OverKeeps
      <3>3. CASE PassiveFail(c) \/ WriteCompletedAckFails(c)
        <4> DEFINE e == passiveFail(es[n])
        <4>1. e \in Est /\ e.active = es[n].active /\ attemptOver(n, e, e.active, Shut(c, "acceptor"))
          BY <2>1, <3>3, HandlingEst, PassiveFailOp DEF PassiveFail, WriteCompletedAckFails
        <4> HIDE DEF e
        <4> QED
          BY <1>1, <1>2, <3>1, <4>1, OverKeeps
      <3> QED
        BY <1>10, <3>2, <3>3
    <2>3. /\ ~Handles(c)' /\ (Runs(c)' <=> Runs(c))
          /\ es'[dialler(c)] = es[dialler(c)]
      BY <1>1, <1>2, <1>10, <2>1
      DEF PassiveSuccess, PassiveFail, WriteCompletedAckFails, OnlyAt, Handles, Runs
    <2>4. Runs(c) => isEstablishing(es[dialler(c)].active) /\ es[dialler(c)].active.startTime \in Times
      BY <1>1 DEF ActiveOwn
    <2> QED
      BY <1>2, <2>1, <2>2, <2>3, <2>4, OwnersKept
  <1> QED
    BY <1>4, <1>5, <1>6, <1>7, <1>8, <1>9, <1>10 DEF Next, Active, Passive

-----------------------------------------------------------------------------
(* What the messages vouch for *)

LEMMA MessagesKept ==
    ASSUME IInv, NEW c,
           \A d \in Conns : d # c =>
               /\ aPc'[d] = aPc[d] /\ pPc'[d] = pPc[d] /\ open'[d] \subseteq open[d]
               /\ toAcceptor'[d] = toAcceptor[d] /\ toDialler'[d] = toDialler[d],
           aPc'[c] \in {"idle", "dial", "none"} => pPc'[c] = "none" /\ toDialler'[c] = <<>>,
           aPc'[c] = "won" \/ Under(toDialler'[c], "HSCompletedAck") =>
               pPc'[c] \in {"success", "won"} \/ "acceptor" \notin open'[c],
           pPc'[c] \in {"success", "won"} \/ Under(toAcceptor'[c], "HSCompleted") =>
               aPc'[c] \in {"waitAck", "won", "lost"}
    PROVE  Messages'
  <1>1. Undialled /\ AckBacked /\ CompletedBacked
    BY DEF IInv, Messages
  <1>2. Undialled'
    BY <1>1 DEF Undialled
  <1>3. AckBacked'
    <2> SUFFICES ASSUME NEW d \in Conns,
                        aPc'[d] = "won" \/ Under(toDialler'[d], "HSCompletedAck")
                 PROVE  pPc'[d] \in {"success", "won"} \/ "acceptor" \notin open'[d]
      BY DEF AckBacked, Under
    <2> QED
      BY <1>1 DEF AckBacked
  <1>4. CompletedBacked'
    <2> SUFFICES ASSUME NEW d \in Conns,
                        pPc'[d] \in {"success", "won"} \/ Under(toAcceptor'[d], "HSCompleted")
                 PROVE  aPc'[d] \in {"waitAck", "won", "lost"}
      BY DEF CompletedBacked, Under
    <2> QED
      BY <1>1 DEF CompletedBacked
  <1> QED
    BY <1>2, <1>3, <1>4 DEF Messages

(* The attempt of connection c ends in attemptOver: what happens to it and *)
(* to the ends of the connections.                                         *)
LEMMA EndingShuts ==
    ASSUME IInv, NEW c \in Conns
    PROVE  /\ ReadCompletedAck(c) \/ PassiveSuccess(c) =>
                  \A d \in Conns : open'[d] \subseteq open[d]
           /\ ActiveFail(c) => /\ \A d \in Conns : open'[d] \subseteq open[d]
                               /\ "dialler" \notin open'[c]
           /\ PassiveFail(c) \/ WriteCompletedAckFails(c) =>
                  /\ \A d \in Conns : open'[d] \subseteq open[d]
                  /\ "acceptor" \notin open'[c]
  <1>1. TypeOK /\ open \in [Conns -> SUBSET Ends]
    BY DEF IInv, TypeOK, Ends
  <1>2. dialler(c) \in Nodes /\ acceptor(c) \in Nodes
    BY ConnEnds
  <1>3. ASSUME NEW x
        PROVE  /\ Shut(c, x) \in [Conns -> SUBSET Ends] /\ x \notin Shut(c, x)[c]
               /\ \A d \in Conns : Shut(c, x)[d] \subseteq open[d]
    BY <1>1 DEF Shut
  <1>4. ASSUME ReadCompletedAck(c)
        PROVE  \A d \in Conns : open'[d] \subseteq open[d]
    <2> DEFINE e == activeSuccess(es[dialler(c)], c)
    <2>1. Runs(c)
      BY <1>4 DEF ReadCompletedAck, Runs
    <2>2. e \in Est /\ attemptOver(dialler(c), e, e.passive, open)
      BY <1>4, <2>1, RunningEst, ActiveSuccessOp DEF ReadCompletedAck
    <2> HIDE DEF e
    <2> QED
      BY <1>1, <1>2, <2>2, OverLeaves
  <1>5. ASSUME ActiveFail(c)
        PROVE  (\A d \in Conns : open'[d] \subseteq open[d]) /\ "dialler" \notin open'[c]
    <2> DEFINE e == activeFail(es[dialler(c)])
               o == Shut(c, "dialler")
    <2>1. Runs(c)
      BY <1>5 DEF ActiveFail, Runs
    <2>2. e \in Est /\ attemptOver(dialler(c), e, e.passive, o)
      BY <1>5, <2>1, RunningEst, ActiveFailOp DEF ActiveFail
    <2>4. o \in [Conns -> SUBSET Ends] /\ "dialler" \notin o[c] /\ \A d \in Conns : o[d] \subseteq open[d]
      BY <1>3
    <2> HIDE DEF e, o
    <2>3. \A d \in Conns : open'[d] \subseteq o[d]
      BY <1>1, <1>2, <2>2, <2>4, OverLeaves
    <2> QED
      BY <2>3, <2>4
  <1>6. ASSUME PassiveSuccess(c)
        PROVE  \A d \in Conns : open'[d] \subseteq open[d]
    <2> DEFINE e == passiveSuccess(es[acceptor(c)], c)
    <2>1. Handles(c)
      BY <1>6 DEF PassiveSuccess, Handles
    <2>2. e \in Est /\ attemptOver(acceptor(c), e, e.active, open)
      BY <1>6, <2>1, HandlingEst, PassiveSuccessOp DEF PassiveSuccess
    <2> HIDE DEF e
    <2> QED
      BY <1>1, <1>2, <2>2, OverLeaves
  <1>7. ASSUME PassiveFail(c) \/ WriteCompletedAckFails(c)
        PROVE  (\A d \in Conns : open'[d] \subseteq open[d]) /\ "acceptor" \notin open'[c]
    <2> DEFINE e == passiveFail(es[acceptor(c)])
               o == Shut(c, "acceptor")
    <2>1. Handles(c)
      BY <1>7 DEF PassiveFail, WriteCompletedAckFails, Handles
    <2>2. e \in Est /\ attemptOver(acceptor(c), e, e.active, o)
      BY <1>7, <2>1, HandlingEst, PassiveFailOp DEF PassiveFail, WriteCompletedAckFails
    <2>4. o \in [Conns -> SUBSET Ends] /\ "acceptor" \notin o[c] /\ \A d \in Conns : o[d] \subseteq open[d]
      BY <1>3
    <2> HIDE DEF e, o
    <2>3. \A d \in Conns : open'[d] \subseteq o[d]
      BY <1>1, <1>2, <2>2, <2>4, OverLeaves
    <2> QED
      BY <2>3, <2>4
  <1> QED
    BY <1>4, <1>5, <1>6, <1>7

LEMMA MessagesStep ==
    ASSUME IInv, [Next]_vars
    PROVE  Messages'
  <1>1. /\ Undialled /\ AckBacked /\ CompletedBacked
        /\ aPc \in [Conns -> {"idle", "dial", "waitResp", "waitAck", "won", "lost", "none"}]
        /\ pPc \in [Conns -> {"none", "accept", "waitCompleted", "success", "won", "lost"}]
        /\ open \in [Conns -> SUBSET Ends]
        /\ toAcceptor \in [Conns -> Seq(Message)] /\ toDialler \in [Conns -> Seq(Message)]
    BY DEF IInv, Messages, TypeOK, Ends
  <1>2. ASSUME NEW c \in Conns
        PROVE  /\ aPc[c] \in {"idle", "dial", "none"} => pPc[c] = "none" /\ toDialler[c] = <<>>
               /\ aPc[c] = "won" \/ Under(toDialler[c], "HSCompletedAck") =>
                      pPc[c] \in {"success", "won"} \/ "acceptor" \notin open[c]
               /\ pPc[c] \in {"success", "won"} \/ Under(toAcceptor[c], "HSCompleted") =>
                      aPc[c] \in {"waitAck", "won", "lost"}
    BY <1>1 DEF Undialled, AckBacked, CompletedBacked
  <1>3. /\ \A t \in Times : [type |-> "HSApply", time |-> t] \in Message
        /\ \A t \in {"HSAccepted", "HSRejected", "HSCompleted", "HSCompletedAck"} : [type |-> t] \in Message
    BY DEF Message
  <1>4. ASSUME NEW c \in Conns
        PROVE  /\ toAcceptor[c] \in Seq(Message) /\ toDialler[c] \in Seq(Message)
               /\ \A x, d \in Conns : \A s : Shut(x, s)[d] \subseteq open[d]
               /\ \A x \in Conns : \A s : s \notin Shut(x, s)[x]
    BY <1>1 DEF Shut
  <1>5. CASE UNCHANGED vars
    BY <1>1, <1>5 DEF vars, state, net, Messages, Undialled, AckBacked, CompletedBacked, Under
  <1>6. ASSUME NEW n \in Nodes, SessionOnClosed(n)
        PROVE  Messages'
    <2>1. sess[n] \in Conns
      BY <1>6 DEF SessionOnClosed, IInv, TypeOK
    <2>2. \A d \in Conns : open'[d] \subseteq open[d]
      BY <1>4, <1>6, <2>1 DEF SessionOnClosed
    <2> QED
      BY <1>2, <1>6, <2>1, <2>2, MessagesKept DEF SessionOnClosed
  <1>7. ASSUME NEW c \in Conns, Connect(c)
        PROVE  Messages'
    <2>1. /\ pPc' = pPc /\ open' = open /\ toAcceptor' = toAcceptor /\ toDialler' = toDialler
          /\ aPc[c] = "idle" /\ aPc'[c] \in {"dial", "none"}
          /\ \A d \in Conns : d # c => aPc'[d] = aPc[d]
      BY <1>1, <1>7 DEF Connect, net
    <2>2. ~Under(toDialler[c], "HSCompletedAck")
      BY <1>2, <2>1, NoneSent
    <2> QED
      BY <1>2, <2>1, <2>2, MessagesKept
  <1>8. ASSUME NEW c \in Conns, Dial(c)
        PROVE  Messages'
    <2> DEFINE m == [type |-> "HSApply", time |-> es[dialler(c)].active.startTime]
    <2>1. m \in Message
      BY <1>3, <1>8, RunningEst DEF Dial, Runs
    <2>2. m.type # "HSCompleted"
      OBVIOUS
    <2>3. toAcceptor' = [toAcceptor EXCEPT ![c] = Append(toAcceptor[c], m)]
      BY <1>1, <1>8 DEF Dial
    <2> HIDE DEF m
    <2>6. toAcceptor'[c] = Append(toAcceptor[c], m)
      BY <1>1, <2>3
    <2>7. aPc[c] = "dial"
      BY <1>8 DEF Dial
    <2>4. ~Under(toAcceptor'[c], "HSCompleted")
      BY <1>2, <1>4, <2>1, <2>2, <2>6, <2>7, AppendSent
    <2>5. ~Under(toDialler'[c], "HSCompletedAck")
      BY <1>2, <1>8, NoneSent DEF Dial
    <2> QED
      BY <1>1, <1>8, <2>4, <2>5, MessagesKept DEF Dial
  <1>9. ASSUME NEW c \in Conns, ReadAccepted(c)
        PROVE  Messages'
    <2>1. \A type : Under(toDialler'[c], type) => Under(toDialler[c], type)
      BY <1>1, <1>4, <1>9, HeadSent DEF ReadAccepted, Receive
    <2>2. /\ pPc' = pPc /\ open' = open /\ aPc[c] = "waitResp" /\ aPc'[c] = "waitAck"
          /\ \A d \in Conns : d # c => /\ aPc'[d] = aPc[d] /\ toAcceptor'[d] = toAcceptor[d]
                                       /\ toDialler'[d] = toDialler[d]
      BY <1>1, <1>9 DEF ReadAccepted
    <2> QED
      BY <1>2, <2>1, <2>2, MessagesKept
  <1>10. ASSUME NEW c \in Conns, ReadCompletedAck(c)
         PROVE  Messages'
    <2>1. /\ \A type : Under(toDialler'[c], type) => Under(toDialler[c], type)
          /\ Under(toDialler[c], "HSCompletedAck")
      BY <1>1, <1>4, <1>10, HeadSent DEF ReadCompletedAck, Receive
    <2>2. \A d \in Conns : open'[d] \subseteq open[d]
      BY <1>10, EndingShuts
    <2>3. /\ pPc' = pPc /\ toAcceptor' = toAcceptor /\ aPc[c] = "waitAck" /\ aPc'[c] = "won"
          /\ \A d \in Conns : d # c => aPc'[d] = aPc[d] /\ toDialler'[d] = toDialler[d]
      BY <1>1, <1>10 DEF ReadCompletedAck
    <2>4. pPc[c] \in {"success", "won"} \/ "acceptor" \notin open'[c]
      BY <1>2, <2>1, <2>2
    <2> QED
      BY <2>2, <2>3, <2>4, MessagesKept
  <1>11. ASSUME NEW c \in Conns, ActiveFail(c)
         PROVE  Messages'
    <2>2. \A d \in Conns : open'[d] \subseteq open[d]
      BY <1>11, EndingShuts
    <2>3. /\ pPc' = pPc /\ toAcceptor' = toAcceptor /\ toDialler' = toDialler /\ aPc'[c] = "lost"
          /\ \A d \in Conns : d # c => aPc'[d] = aPc[d]
      BY <1>1, <1>11 DEF ActiveFail
    <2>4. Under(toDialler[c], "HSCompletedAck") =>
              pPc[c] \in {"success", "won"} \/ "acceptor" \notin open'[c]
      BY <1>2, <2>2
    <2> QED
      BY <2>2, <2>3, <2>4, MessagesKept
  <1>12. ASSUME NEW c \in Conns, OnPassiveConn(c)
         PROVE  Messages'
    <2>1. \A type : Under(toAcceptor'[c], type) => Under(toAcceptor[c], type)
      BY <1>1, <1>4, <1>12, HeadSent DEF OnPassiveConn, Receive
    <2>2. \E t \in {"HSAccepted", "HSRejected"} :
              toDialler' = [toDialler EXCEPT ![c] = Append(toDialler[c], [type |-> t])]
      BY <1>1, <1>12 DEF OnPassiveConn
    <2>3. PICK m \in Message : /\ m.type # "HSCompletedAck"
                               /\ toDialler' = [toDialler EXCEPT ![c] = Append(toDialler[c], m)]
      BY <1>3, <2>2
    <2>4. Under(toDialler'[c], "HSCompletedAck") => Under(toDialler[c], "HSCompletedAck")
      BY <1>1, <1>4, <2>3, AppendSent
    <2>5. /\ \A d \in Conns : open'[d] \subseteq open[d]
          /\ aPc' = aPc /\ pPc[c] = "accept"
          /\ pPc'[c] \in {"waitCompleted", "lost"}
          /\ \A d \in Conns : d # c => /\ pPc'[d] = pPc[d]
                                       /\ toAcceptor'[d] = toAcceptor[d]
      BY <1>1, <1>4, <1>12 DEF OnPassiveConn
    <2>6. \A d \in Conns : d # c => toDialler'[d] = toDialler[d]
      BY <1>1, <2>3
    <2>7. aPc[c] = "won" \/ Under(toDialler'[c], "HSCompletedAck") => "acceptor" \notin open'[c]
      BY <1>2, <2>4, <2>5
    <2>8. aPc[c] \notin {"idle", "dial", "none"}
      BY <1>2, <2>5
    <2>9. Under(toAcceptor'[c], "HSCompleted") => aPc[c] \in {"waitAck", "won", "lost"}
      BY <1>2, <2>1
    <2> QED
      BY <2>5, <2>6, <2>7, <2>8, <2>9, MessagesKept
  <1>13. ASSUME NEW c \in Conns, OnPassiveConnFails(c)
         PROVE  Messages'
    <2>1. \A d \in Conns : open'[d] \subseteq open[d]
      BY <1>4, <1>13 DEF OnPassiveConnFails
    <2>2. /\ aPc' = aPc /\ toAcceptor' = toAcceptor /\ toDialler' = toDialler
          /\ pPc[c] = "accept" /\ pPc'[c] = "lost" /\ "acceptor" \notin open'[c]
          /\ \A d \in Conns : d # c => pPc'[d] = pPc[d]
      BY <1>1, <1>4, <1>13 DEF OnPassiveConnFails
    <2> QED
      BY <1>2, <2>1, <2>2, MessagesKept
  <1>14. ASSUME NEW c \in Conns, ReadCompleted(c)
         PROVE  Messages'
    <2>1. /\ \A type : Under(toAcceptor'[c], type) => Under(toAcceptor[c], type)
          /\ Under(toAcceptor[c], "HSCompleted")
      BY <1>1, <1>4, <1>14, HeadSent DEF ReadCompleted, Receive
    <2>2. /\ aPc' = aPc /\ open' = open /\ pPc[c] = "waitCompleted" /\ pPc'[c] = "success"
          /\ \A d \in Conns : d # c => /\ pPc'[d] = pPc[d] /\ toAcceptor'[d] = toAcceptor[d]
                                       /\ toDialler'[d] = toDialler[d]
      BY <1>1, <1>14 DEF ReadCompleted
    <2>3. aPc[c] \in {"waitAck", "won", "lost"}
      BY <1>2, <2>1
    <2> QED
      BY <2>2, <2>3, MessagesKept
  <1>15. ASSUME NEW c \in Conns, WriteCompletedAckFails(c)
         PROVE  Messages'
    <2>1. /\ \A type : Under(toAcceptor'[c], type) => Under(toAcceptor[c], type)
          /\ Under(toAcceptor[c], "HSCompleted")
      BY <1>1, <1>4, <1>15, HeadSent DEF WriteCompletedAckFails, Receive
    <2>2. /\ \A d \in Conns : open'[d] \subseteq open[d]
          /\ "acceptor" \notin open'[c]
      BY <1>15, EndingShuts
    <2>3. /\ aPc' = aPc /\ pPc[c] = "waitCompleted" /\ pPc'[c] = "lost"
          /\ \A d \in Conns : d # c => /\ pPc'[d] = pPc[d] /\ toAcceptor'[d] = toAcceptor[d]
                                       /\ toDialler'[d] = toDialler[d]
      BY <1>1, <1>15 DEF WriteCompletedAckFails
    <2>4. aPc[c] \in {"waitAck", "won", "lost"}
      BY <1>2, <2>1
    <2> QED
      BY <2>2, <2>3, <2>4, MessagesKept
  <1>16. ASSUME NEW c \in Conns, PassiveSuccess(c)
         PROVE  Messages'
    <2>2. \A d \in Conns : open'[d] \subseteq open[d]
      BY <1>16, EndingShuts
    <2>3. /\ aPc' = aPc /\ toAcceptor' = toAcceptor /\ toDialler' = toDialler
          /\ pPc[c] = "success" /\ pPc'[c] = "won"
          /\ \A d \in Conns : d # c => pPc'[d] = pPc[d]
      BY <1>1, <1>16 DEF PassiveSuccess
    <2> QED
      BY <1>2, <2>2, <2>3, MessagesKept
  <1>17. ASSUME NEW c \in Conns, PassiveFail(c)
         PROVE  Messages'
    <2>2. /\ \A d \in Conns : open'[d] \subseteq open[d]
          /\ "acceptor" \notin open'[c]
      BY <1>17, EndingShuts
    <2>3. /\ aPc' = aPc /\ toAcceptor' = toAcceptor /\ toDialler' = toDialler
          /\ pPc[c] = "waitCompleted" /\ pPc'[c] = "lost"
          /\ \A d \in Conns : d # c => pPc'[d] = pPc[d]
      BY <1>1, <1>17 DEF PassiveFail
    <2> QED
      BY <1>2, <2>2, <2>3, MessagesKept
  <1>18. ASSUME NEW c \in Conns, Lose(c)
         PROVE  Messages'
    <2>1. \A type : /\ Under(toAcceptor'[c], type) => Under(toAcceptor[c], type)
                    /\ Under(toDialler'[c], type) => Under(toDialler[c], type)
      BY <1>1, <1>18, NoneSent DEF Lose
    <2>2. toDialler[c] = <<>> => toDialler'[c] = <<>>
      BY <1>1, <1>18 DEF Lose
    <2>3. /\ aPc' = aPc /\ pPc' = pPc /\ open' = open
          /\ \A d \in Conns : d # c => /\ toAcceptor'[d] = toAcceptor[d]
                                       /\ toDialler'[d] = toDialler[d]
      BY <1>1, <1>18 DEF Lose
    <2> QED
      BY <1>2, <2>1, <2>2, <2>3, MessagesKept
  <1> QED
    BY <1>5, <1>6, <1>7, <1>8, <1>9, <1>10, <1>11, <1>12, <1>13, <1>14, <1>15, <1>16, <1>17,
       <1>18 DEF Next, Active, Passive

-----------------------------------------------------------------------------
(* Who holds a connection *)

HoldersAre ==
    Holders <=>
        /\ \A d \in Conns :
              /\ aPc[d] = "lost" => "dialler" \notin open[d]
              /\ aPc[d] = "won" /\ "dialler" \in open[d] =>
                    sess[dialler(d)] = d \/ es[dialler(d)].active.conn = d
              /\ pPc[d] = "won" /\ "acceptor" \in open[d] =>
                    sess[acceptor(d)] = d \/ es[acceptor(d)].passive.conn = d
        /\ \A m \in Nodes :
              /\ sess[m] # None => es[m] = NewEstablishment /\ WonBy(m, sess[m])
              /\ es[m].active.conn # None =>
                    /\ isSuccess(es[m].active) /\ m = dialler(es[m].active.conn)
                    /\ aPc[es[m].active.conn] = "won"
              /\ es[m].passive.conn # None =>
                    /\ isSuccess(es[m].passive) /\ m = acceptor(es[m].passive.conn)
                    /\ pPc[es[m].passive.conn] = "won"

LEMMA HoldersParts == HoldersAre /\ HoldersAre'
  BY DEF HoldersAre, Holders, LostIsShut, WonActive, WonPassive, SessionsWon, ConnsWon, dialler,
         acceptor, isSuccess, WonBy

(* A step that ends no attempt and changes no session. *)
LEMMA HoldersQuiet ==
    ASSUME IInv, sess' = sess,
           \A d \in Conns : /\ aPc'[d] = "won" <=> aPc[d] = "won"
                            /\ pPc'[d] = "won" <=> pPc[d] = "won"
                            /\ aPc'[d] = "lost" => aPc[d] = "lost"
                            /\ \/ open'[d] \subseteq open[d]
                               \/ aPc'[d] \notin {"won", "lost"} /\ pPc'[d] # "won",
           \A m \in Nodes : /\ es'[m].active.conn = es[m].active.conn
                            /\ es'[m].passive.conn = es[m].passive.conn
                            /\ isSuccess(es[m].active) => es'[m].active = es[m].active
                            /\ isSuccess(es[m].passive) => es'[m].passive = es[m].passive
                            /\ sess[m] # None => es'[m] = es[m]
    PROVE  Holders'
  <1>1. /\ sess \in [Nodes -> Conns \cup {None}] /\ es \in [Nodes -> Est]
        /\ \A d \in Conns : dialler(d) \in Nodes /\ acceptor(d) \in Nodes
    BY ConnEnds DEF IInv, TypeOK, Est
  <1>2. \A m \in Nodes : /\ es[m].active.conn \in Conns \cup {None}
                         /\ es[m].passive.conn \in Conns \cup {None}
    BY <1>1, EstFields
  <1>3. Holders
    BY DEF IInv
  <1>4. \A d \in Conns :
              /\ aPc'[d] = "lost" => "dialler" \notin open'[d]
              /\ aPc'[d] = "won" /\ "dialler" \in open'[d] =>
                    sess'[dialler(d)] = d \/ es'[dialler(d)].active.conn = d
              /\ pPc'[d] = "won" /\ "acceptor" \in open'[d] =>
                    sess'[acceptor(d)] = d \/ es'[acceptor(d)].passive.conn = d
    BY <1>1, <1>3, HoldersParts DEF HoldersAre
  <1>5. \A m \in Nodes : sess'[m] # None =>
            /\ es'[m] = NewEstablishment
            /\ \/ m = dialler(sess'[m]) /\ aPc'[sess'[m]] = "won"
               \/ m = acceptor(sess'[m]) /\ pPc'[sess'[m]] = "won"
    BY <1>1, <1>3, HoldersParts DEF HoldersAre, WonBy
  <1>6. \A m \in Nodes :
            /\ es'[m].active.conn # None =>
                    /\ isSuccess(es'[m].active) /\ m = dialler(es'[m].active.conn)
                    /\ aPc'[es'[m].active.conn] = "won"
            /\ es'[m].passive.conn # None =>
                    /\ isSuccess(es'[m].passive) /\ m = acceptor(es'[m].passive.conn)
                    /\ pPc'[es'[m].passive.conn] = "won"
    BY <1>1, <1>2, <1>3, HoldersParts DEF HoldersAre
  <1> QED
    BY <1>4, <1>5, <1>6, HoldersParts DEF HoldersAre, WonBy, dialler, acceptor, isSuccess

(* A step that ends an attempt of node n, and makes its establishment e.   *)
LEMMA HoldersOver ==
    ASSUME IInv, NEW n \in Nodes, NEW e \in Est, NEW other,
           NEW o \in [Conns -> SUBSET Ends], attemptOver(n, e, other, o),
           ~isEstablishing(other) => ~isEstablishing(e.active) /\ ~isEstablishing(e.passive),
           sess[n] = None,
           e.active.conn # None => /\ isSuccess(e.active) /\ n = dialler(e.active.conn)
                                   /\ aPc'[e.active.conn] = "won",
           e.passive.conn # None => /\ isSuccess(e.passive) /\ n = acceptor(e.passive.conn)
                                    /\ pPc'[e.passive.conn] = "won",
           es[n].active.conn \in {None, e.active.conn},
           es[n].passive.conn \in {None, e.passive.conn},
           \A d \in Conns : /\ o[d] \subseteq open[d]
                            /\ aPc[d] = "won" => aPc'[d] = "won"
                            /\ pPc[d] = "won" => pPc'[d] = "won"
                            /\ aPc'[d] = "won" => aPc[d] = "won" \/ d = e.active.conn
                            /\ pPc'[d] = "won" => pPc[d] = "won" \/ d = e.passive.conn
                            /\ aPc'[d] = "lost" => aPc[d] = "lost" \/ "dialler" \notin o[d]
    PROVE  Holders'
  <1>1. /\ sess \in [Nodes -> Conns \cup {None}] /\ es \in [Nodes -> Est] /\ TypeOK /\ Holders
        /\ \A d \in Conns : dialler(d) \in Nodes /\ acceptor(d) \in Nodes /\ d # None
    BY ConnEnds DEF IInv, TypeOK, Est
  <1>2. /\ \A m \in Nodes : m # n => es'[m] = es[m] /\ sess'[m] = sess[m]
        /\ \A d \in Conns : open'[d] \subseteq o[d]
    BY <1>1, OverLeaves
  <1>3. \/ es'[n] = e /\ sess'[n] = None
        \/ /\ es'[n] = NewEstablishment
           /\ sess'[n] \in {e.active.conn, e.passive.conn, None}
           /\ e.active.conn # None => \/ sess'[n] = e.active.conn
                                      \/ "dialler" \notin open'[e.active.conn]
           /\ e.passive.conn # None => \/ sess'[n] = e.passive.conn
                                       \/ "acceptor" \notin open'[e.passive.conn]
    BY <1>1, OverOutcome
  <1>4. \A m \in Nodes : /\ es[m].active.conn \in Conns \cup {None}
                         /\ es[m].passive.conn \in Conns \cup {None}
    BY <1>1, EstFields
  <1>5. e.active.conn \in Conns \cup {None} /\ e.passive.conn \in Conns \cup {None}
    BY EstFields
  <1>6. NewEstablishment.active.conn = None /\ NewEstablishment.passive.conn = None
    BY DEF NewEstablishment, NoAttempt
  <1>7. ASSUME NEW d \in Conns, aPc'[d] = "lost"
        PROVE  "dialler" \notin open'[d]
    BY <1>1, <1>2, <1>7, HoldersParts DEF HoldersAre
  <1>8. ASSUME NEW d \in Conns, aPc'[d] = "won", "dialler" \in open'[d]
        PROVE  sess'[dialler(d)] = d \/ es'[dialler(d)].active.conn = d
    <2>1. CASE d = e.active.conn
      BY <1>1, <1>3, <1>8, <2>1
    <2>2. CASE d # e.active.conn
      <3>1. sess[dialler(d)] = d \/ es[dialler(d)].active.conn = d
        BY <1>1, <1>2, <1>8, <2>2, HoldersParts DEF HoldersAre
      <3> QED
        BY <1>1, <1>2, <2>2, <3>1
    <2> QED
      BY <2>1, <2>2
  <1>9. ASSUME NEW d \in Conns, pPc'[d] = "won", "acceptor" \in open'[d]
        PROVE  sess'[acceptor(d)] = d \/ es'[acceptor(d)].passive.conn = d
    <2>1. CASE d = e.passive.conn
      BY <1>1, <1>3, <1>9, <2>1
    <2>2. CASE d # e.passive.conn
      <3>1. sess[acceptor(d)] = d \/ es[acceptor(d)].passive.conn = d
        BY <1>1, <1>2, <1>9, <2>2, HoldersParts DEF HoldersAre
      <3> QED
        BY <1>1, <1>2, <2>2, <3>1
    <2> QED
      BY <2>1, <2>2
  <1>10. ASSUME NEW m \in Nodes, sess'[m] # None
         PROVE  /\ es'[m] = NewEstablishment
                /\ \/ m = dialler(sess'[m]) /\ aPc'[sess'[m]] = "won"
                   \/ m = acceptor(sess'[m]) /\ pPc'[sess'[m]] = "won"
    <2>1. CASE m = n
      BY <1>3, <1>10, <2>1
    <2>2. CASE m # n
      BY <1>1, <1>2, <1>10, <2>2, HoldersParts DEF HoldersAre, WonBy
    <2> QED
      BY <2>1, <2>2
  <1>11. ASSUME NEW m \in Nodes
         PROVE  /\ es'[m].active.conn # None =>
                      /\ isSuccess(es'[m].active) /\ m = dialler(es'[m].active.conn)
                      /\ aPc'[es'[m].active.conn] = "won"
                /\ es'[m].passive.conn # None =>
                      /\ isSuccess(es'[m].passive) /\ m = acceptor(es'[m].passive.conn)
                      /\ pPc'[es'[m].passive.conn] = "won"
    <2>1. CASE m = n
      BY <1>3, <1>6, <2>1
    <2>2. CASE m # n
      BY <1>1, <1>2, <1>4, <2>2, HoldersParts DEF HoldersAre
    <2> QED
      BY <2>1, <2>2
  <1> QED
    BY <1>7, <1>8, <1>9, <1>10, <1>11, HoldersParts DEF HoldersAre, WonBy, dialler, acceptor, isSuccess

LEMMA HoldersStep ==
    ASSUME IInv, [Next]_vars
    PROVE  Holders'
  <1>1. /\ TypeOK /\ es \in [Nodes -> Est] /\ sess \in [Nodes -> Conns \cup {None}]
        /\ aPc \in [Conns -> {"idle", "dial", "waitResp", "waitAck", "won", "lost", "none"}]
        /\ pPc \in [Conns -> {"none", "accept", "waitCompleted", "success", "won", "lost"}]
        /\ open \in [Conns -> SUBSET Ends]
    BY DEF IInv, TypeOK, Est, Ends
  <1>2. ASSUME NEW c \in Conns
        PROVE  /\ dialler(c) \in Nodes /\ acceptor(c) \in Nodes /\ c # None
               /\ es[dialler(c)] \in Est /\ es[acceptor(c)] \in Est
    BY <1>1, ConnEnds
  <1>3. ASSUME NEW c \in Conns, NEW x
        PROVE  /\ Shut(c, x) \in [Conns -> SUBSET Ends] /\ x \notin Shut(c, x)[c]
               /\ \A d \in Conns : Shut(c, x)[d] \subseteq open[d]
    BY <1>1 DEF Shut
  <1>4. CASE UNCHANGED vars
    BY <1>4, HoldersQuiet DEF vars, state, net
  <1>5. ASSUME NEW c \in Conns, Connect(c)
        PROVE  Holders'
    <2> DEFINE n == dialler(c)
    <2>1. /\ sess' = sess /\ pPc' = pPc /\ open' = open
          /\ aPc[c] = "idle" /\ aPc'[c] \in {"dial", "none"}
          /\ \A d \in Conns : d # c => aPc'[d] = aPc[d]
      BY <1>1, <1>5 DEF Connect, net
    <2>2. CASE es' = es
      BY <2>1, <2>2, HoldersQuiet
    <2>3. CASE es' # es
      <3>1. PICK now \in Times : /\ canStartActive(es[n]) /\ sess[n] = None
                                 /\ es' = [es EXCEPT ![n] = startActive(es[n], now)]
        BY <1>1, <1>5, <2>3 DEF Connect
      <3>2. /\ es'[n].passive = es[n].passive /\ es'[n].active.conn = es[n].active.conn
        BY <1>1, <1>2, <3>1, StartActiveOp
      <3>3. ~isSuccess(es[n].active)
        BY <1>2, <3>1, EstFields
        DEF canStartActive, canChangeState, isSuccess, establishConnect, establishSuccess
      <3>4. \A m \in Nodes : m # n => es'[m] = es[m]
        BY <1>1, <3>1
      <3> QED
        BY <2>1, <3>1, <3>2, <3>3, <3>4, HoldersQuiet
    <2> QED
      BY <2>2, <2>3
  <1>6. ASSUME NEW c \in Conns, Dial(c) \/ ReadAccepted(c)
        PROVE  Holders'
    <2> DEFINE n == dialler(c)
    <2>1. Runs(c)
      BY <1>6 DEF Dial, ReadAccepted, Runs
    <2>2. es'[n] \in {startActiveHandshake(es[n]), activeAboutSuccess(es[n])}
      BY <1>1, <1>2, <1>6 DEF Dial, ReadAccepted
    <2>3. /\ es'[n].passive = es[n].passive /\ es'[n].active.conn = es[n].active.conn
          /\ isEstablishing(es[n].active) /\ sess[n] = None
      BY <2>1, <2>2, RunningEst, GoOnActiveOp
    <2>4. ~isSuccess(es[n].active)
      BY <2>3 DEF isEstablishing, attemptIsEnd, isSuccess, establishSuccess, establishAboutSuccess
    <2>5. /\ sess' = sess /\ aPc'[c] \in {"waitResp", "waitAck"} /\ aPc[c] \in {"dial", "waitResp"}
          /\ \A d \in Conns : d # c => /\ aPc'[d] = aPc[d] /\ pPc'[d] = pPc[d] /\ open'[d] = open[d]
          /\ \A m \in Nodes : m # n => es'[m] = es[m]
      BY <1>1, <1>6 DEF Dial, ReadAccepted
    <2>6. \/ pPc'[c] = "accept" /\ pPc[c] = "none"
          \/ pPc'[c] = pPc[c] /\ open'[c] = open[c]
      BY <1>1, <1>6 DEF Dial, ReadAccepted, IInv, Messages, Undialled
    <2> QED
      BY <2>3, <2>4, <2>5, <2>6, HoldersQuiet
  <1>7. ASSUME NEW c \in Conns, ReadCompletedAck(c)
        PROVE  Holders'
    <2> DEFINE n == dialler(c)
               old == es[n]
               e == activeSuccess(old, c)
    <2>1. Runs(c)
      BY <1>7 DEF ReadCompletedAck, Runs
    <2>2. /\ e \in Est /\ attemptOver(n, e, e.passive, open)
          /\ e.passive = old.passive /\ e.active.conn = c /\ isSuccess(e.active)
      BY <1>7, <2>1, RunningEst, ActiveSuccessOp DEF ReadCompletedAck
    <2>3. /\ old.active.conn = None /\ sess[n] = None
          /\ old.passive.conn # None =>
                /\ isSuccess(old.passive) /\ n = acceptor(old.passive.conn)
                /\ pPc[old.passive.conn] = "won"
      BY <2>1, RunningEst
    <2>4. /\ pPc' = pPc /\ aPc[c] = "waitAck" /\ aPc'[c] = "won"
          /\ \A d \in Conns : d # c => aPc'[d] = aPc[d]
      BY <1>1, <1>7 DEF ReadCompletedAck
    <2>5. ~isEstablishing(e.active)
      BY <2>2 DEF isEstablishing, attemptIsEnd, isSuccess, establishSuccess, establishAboutSuccess
    <2> HIDE DEF e, old
    <2> QED
      BY <1>1, <1>2, <2>2, <2>3, <2>4, <2>5, HoldersOver DEF old
  <1>8. ASSUME NEW c \in Conns, ActiveFail(c)
        PROVE  Holders'
    <2> DEFINE n == dialler(c)
               old == es[n]
               e == activeFail(old)
               o == Shut(c, "dialler")
    <2>1. Runs(c)
      BY <1>8 DEF ActiveFail, Runs
    <2>2. /\ e \in Est /\ attemptOver(n, e, e.passive, o)
          /\ e.passive = old.passive /\ e.active.conn = old.active.conn /\ isFail(e.active)
      BY <1>8, <2>1, RunningEst, ActiveFailOp DEF ActiveFail
    <2>3. /\ old.active.conn = None /\ sess[n] = None
          /\ old.passive.conn # None =>
                /\ isSuccess(old.passive) /\ n = acceptor(old.passive.conn)
                /\ pPc[old.passive.conn] = "won"
      BY <2>1, RunningEst
    <2>4. /\ pPc' = pPc /\ aPc[c] # "won" /\ aPc'[c] = "lost"
          /\ \A d \in Conns : d # c => aPc'[d] = aPc[d]
      BY <1>1, <1>8 DEF ActiveFail
    <2>5. ~isEstablishing(e.active)
      BY <2>2 DEF isEstablishing, attemptIsEnd, isFail, establishFail, establishAboutSuccess
    <2>6. /\ o \in [Conns -> SUBSET Ends] /\ "dialler" \notin o[c]
          /\ \A d \in Conns : o[d] \subseteq open[d]
      BY <1>3
    <2> HIDE DEF e, old, o
    <2> QED
      BY <1>1, <1>2, <2>2, <2>3, <2>4, <2>5, <2>6, HoldersOver DEF old
  <1>9. ASSUME NEW c \in Conns, OnPassiveConn(c)
        PROVE  Holders'
    <2> DEFINE n == acceptor(c)
               t == Head(toAcceptor[c]).time
    <2>1. /\ sess' = sess /\ aPc' = aPc /\ pPc[c] = "accept" /\ pPc'[c] \in {"waitCompleted", "lost"}
          /\ \A d \in Conns : d # c => pPc'[d] = pPc[d]
          /\ \A d \in Conns : open'[d] \subseteq open[d]
      BY <1>1, <1>3, <1>9 DEF OnPassiveConn
    <2>2. CASE es' = es
      BY <2>1, <2>2, HoldersQuiet
    <2>3. CASE es' # es
      <3>1. /\ canStartPassive(es[n]) /\ sess[n] = None
            /\ es' = [es EXCEPT ![n] = startPassive(es[n], t)]
        BY <1>1, <1>9, <2>3 DEF OnPassiveConn
      <3>2. toAcceptor[c] \in Seq(Message) /\ toAcceptor[c] # <<>> /\ Head(toAcceptor[c]).type = "HSApply"
        BY <1>1, <1>9 DEF TypeOK, OnPassiveConn, Receive
      <3>3. Head(toAcceptor[c]) \in Message
        BY <3>2, HeadSent
      <3>4. t \in Times
        BY <3>2, <3>3 DEF Message
      <3>5. es'[n] = startPassive(es[n], t) /\ \A m \in Nodes : m # n => es'[m] = es[m]
        BY <1>1, <1>2, <3>1
      <3> HIDE DEF t
      <3>6. es'[n].active = es[n].active /\ es'[n].passive.conn = es[n].passive.conn
        BY <1>2, <3>1, <3>4, <3>5, StartPassiveOp
      <3>7. ~isSuccess(es[n].passive)
        BY <1>2, <3>1, EstFields
        DEF canStartPassive, canChangeState, isSuccess, establishHandshake, establishSuccess
      <3> QED
        BY <2>1, <3>1, <3>5, <3>6, <3>7, HoldersQuiet
    <2> QED
      BY <2>2, <2>3
  <1>10. ASSUME NEW c \in Conns, OnPassiveConnFails(c) \/ ReadCompleted(c)
         PROVE  Holders'
    <2>1. /\ sess' = sess /\ es' = es /\ aPc' = aPc
          /\ pPc[c] # "won" /\ pPc'[c] # "won"
          /\ \A d \in Conns : d # c => pPc'[d] = pPc[d]
          /\ \A d \in Conns : open'[d] \subseteq open[d]
      BY <1>1, <1>3, <1>10 DEF OnPassiveConnFails, ReadCompleted
    <2> QED
      BY <2>1, HoldersQuiet
  <1>11. ASSUME NEW c \in Conns, PassiveSuccess(c)
         PROVE  Holders'
    <2> DEFINE n == acceptor(c)
               old == es[n]
               e == passiveSuccess(old, c)
    <2>1. Handles(c)
      BY <1>11 DEF PassiveSuccess, Handles
    <2>2. /\ e \in Est /\ attemptOver(n, e, e.active, open)
          /\ e.active = old.active /\ e.passive.conn = c /\ isSuccess(e.passive)
      BY <1>11, <2>1, HandlingEst, PassiveSuccessOp DEF PassiveSuccess
    <2>3. /\ old.passive.conn = None /\ sess[n] = None
          /\ old.active.conn # None =>
                /\ isSuccess(old.active) /\ n = dialler(old.active.conn)
                /\ aPc[old.active.conn] = "won"
      BY <2>1, HandlingEst
    <2>4. /\ aPc' = aPc /\ pPc[c] = "success" /\ pPc'[c] = "won"
          /\ \A d \in Conns : d # c => pPc'[d] = pPc[d]
      BY <1>1, <1>11 DEF PassiveSuccess
    <2>5. ~isEstablishing(e.passive)
      BY <2>2 DEF isEstablishing, attemptIsEnd, isSuccess, establishSuccess, establishAboutSuccess
    <2> HIDE DEF e, old
    <2> QED
      BY <1>1, <1>2, <2>2, <2>3, <2>4, <2>5, HoldersOver DEF old
  <1>12. ASSUME NEW c \in Conns, PassiveFail(c) \/ WriteCompletedAckFails(c)
         PROVE  Holders'
    <2> DEFINE n == acceptor(c)
               old == es[n]
               e == passiveFail(old)
               o == Shut(c, "acceptor")
    <2>1. Handles(c)
      BY <1>12 DEF PassiveFail, WriteCompletedAckFails, Handles
    <2>2. /\ e \in Est /\ attemptOver(n, e, e.active, o)
          /\ e.active = old.active /\ e.passive.conn = old.passive.conn /\ isFail(e.passive)
      BY <1>12, <2>1, HandlingEst, PassiveFailOp DEF PassiveFail, WriteCompletedAckFails
    <2>3. /\ old.passive.conn = None /\ sess[n] = None
          /\ old.active.conn # None =>
                /\ isSuccess(old.active) /\ n = dialler(old.active.conn)
                /\ aPc[old.active.conn] = "won"
      BY <2>1, HandlingEst
    <2>4. /\ aPc' = aPc /\ pPc[c] = "waitCompleted" /\ pPc'[c] = "lost"
          /\ \A d \in Conns : d # c => pPc'[d] = pPc[d]
      BY <1>1, <1>12 DEF PassiveFail, WriteCompletedAckFails
    <2>5. ~isEstablishing(e.passive)
      BY <2>2 DEF isEstablishing, attemptIsEnd, isFail, establishFail, establishAboutSuccess
    <2>6. o \in [Conns -> SUBSET Ends] /\ \A d \in Conns : o[d] \subseteq open[d]
      BY <1>3
    <2> HIDE DEF e, old, o
    <2> QED
      BY <1>1, <1>2, <2>2, <2>3, <2>4, <2>5, <2>6, HoldersOver DEF old
  <1>13. ASSUME NEW n \in Nodes, SessionOnClosed(n)
         PROVE  Holders'
    <2> DEFINE c == sess[n]
    <2>1. /\ c \in Conns /\ es' = es /\ aPc' = aPc /\ pPc' = pPc
          /\ sess' = [sess EXCEPT ![n] = None] /\ open' = Shut(c, EndAt(n, c))
      BY <1>1, <1>13 DEF SessionOnClosed
    <2>2. (\A d \in Conns : open'[d] \subseteq open[d]) /\ EndAt(n, c) \notin open'[c]
      BY <1>3, <2>1
    <2>3. sess'[n] = None /\ \A m \in Nodes : m # n => sess'[m] = sess[m]
      BY <1>1, <2>1
    <2>4. Holders
      BY DEF IInv
    <2>5. ASSUME NEW d \in Conns
          PROVE  /\ aPc'[d] = "lost" => "dialler" \notin open'[d]
                 /\ aPc'[d] = "won" /\ "dialler" \in open'[d] =>
                        sess'[dialler(d)] = d \/ es'[dialler(d)].active.conn = d
                 /\ pPc'[d] = "won" /\ "acceptor" \in open'[d] =>
                        sess'[acceptor(d)] = d \/ es'[acceptor(d)].passive.conn = d
      <3>1. EndAt(dialler(d), d) = "dialler" /\ EndAt(acceptor(d), d) = "acceptor"
        BY ConnEnds
      <3> QED
        BY <1>2, <2>1, <2>2, <2>3, <2>4, <3>1, HoldersParts DEF HoldersAre
    <2>6. ASSUME NEW m \in Nodes
          PROVE  /\ sess'[m] # None =>
                        /\ es'[m] = NewEstablishment
                        /\ \/ m = dialler(sess'[m]) /\ aPc'[sess'[m]] = "won"
                           \/ m = acceptor(sess'[m]) /\ pPc'[sess'[m]] = "won"
                 /\ es'[m].active.conn # None =>
                        /\ isSuccess(es'[m].active) /\ m = dialler(es'[m].active.conn)
                        /\ aPc'[es'[m].active.conn] = "won"
                 /\ es'[m].passive.conn # None =>
                        /\ isSuccess(es'[m].passive) /\ m = acceptor(es'[m].passive.conn)
                        /\ pPc'[es'[m].passive.conn] = "won"
      BY <2>1, <2>3, <2>4, HoldersParts DEF HoldersAre, WonBy
    <2> HIDE DEF c
    <2> QED
      BY <2>5, <2>6, HoldersParts DEF HoldersAre, WonBy, dialler, acceptor, isSuccess
  <1>14. ASSUME NEW c \in Conns, Lose(c)
         PROVE  Holders'
    BY <1>14, HoldersQuiet DEF Lose
  <1> QED
    BY <1>4, <1>5, <1>6, <1>7, <1>8, <1>9, <1>10, <1>11, <1>12, <1>13, <1>14 DEF Next, Active, Passive

-----------------------------------------------------------------------------
(* Theorems *)

(* The invariant, whatever fails and whoever dials whom. *)
THEOREM HandshakeInvariance == Spec => []IInv
  <1>1. IInv /\ [Next]_vars => IInv'
    BY TypeStep, OwnersStep, MessagesStep, HoldersStep DEF IInv
  <1> QED
    BY <1>1, InitInv, PTL DEF Spec

(* Every variable has its type: an attempt's state, startTime and conn stay *)
(* in range through service_establish.go's establishing methods.            *)
THEOREM HandshakeTypeCorrect == Spec => []TypeOK
  BY HandshakeInvariance, PTL DEF IInv

(* HSCompleted and HSCompletedAck do their work: an active attempt succeeds *)
(* (activeEstablishSuccess) only where the passive side has gone past the   *)
(* last point of failure, or has failed and closed the connection.          *)
THEOREM AckMeansPeerIsPast == Spec => []ActiveSuccessBacked
  <1>1. IInv => ActiveSuccessBacked
    BY DEF IInv, Messages, AckBacked, ActiveSuccessBacked
  <1> QED
    BY <1>1, HandshakeInvariance, PTL

(* A session is never left with a peer that holds on to the connection      *)
(* without one: establishEnd keeps or closes, on both nodes, and the        *)
(* handshake's last two messages order the two decisions.                   *)
THEOREM NoSessionIsHalf == Spec => []SessionHasPeer
  <1>1. IInv => SessionHasPeer
    <2> SUFFICES ASSUME IInv, NEW n \in Nodes, sess[n] # None,
                        EndAt(Peer(n), sess[n]) \in open[sess[n]]
                 PROVE  \/ sess[Peer(n)] = sess[n]
                        \/ IF Peer(n) = dialler(sess[n])
                           THEN aPc[sess[n]] = "waitAck" \/ es[Peer(n)].active.conn = sess[n]
                           ELSE pPc[sess[n]] = "success" \/ es[Peer(n)].passive.conn = sess[n]
      BY DEF SessionHasPeer
    <2> DEFINE c == sess[n]
    <2>1. c \in Conns
      BY DEF IInv, TypeOK
    <2>2. WonBy(n, c)
      BY DEF IInv, Holders, SessionsWon
    <2> HIDE DEF c
    <2>3. /\ EndAt(dialler(c), c) = "dialler" /\ EndAt(acceptor(c), c) = "acceptor"
          /\ Peer(dialler(c)) = acceptor(c) /\ Peer(acceptor(c)) = dialler(c)
          /\ acceptor(c) # dialler(c)
      BY <2>1, ConnEnds
    <2>4. CASE n = dialler(c) /\ aPc[c] = "won"
      <3>1. "acceptor" \in open[c]
        BY <2>3, <2>4 DEF c
      <3>2. pPc[c] \in {"success", "won"}
        BY <2>1, <2>4, <3>1 DEF IInv, Messages, AckBacked
      <3>3. pPc[c] = "won" => sess[acceptor(c)] = c \/ es[acceptor(c)].passive.conn = c
        BY <2>1, <3>1 DEF IInv, Holders, WonPassive
      <3> QED
        BY <2>3, <2>4, <3>2, <3>3 DEF c
    <2>5. CASE n = acceptor(c) /\ pPc[c] = "won"
      <3>1. "dialler" \in open[c]
        BY <2>3, <2>5 DEF c
      <3>2. aPc[c] \in {"waitAck", "won"}
        BY <2>1, <2>5, <3>1 DEF IInv, Messages, CompletedBacked, Holders, LostIsShut
      <3>3. aPc[c] = "won" => sess[dialler(c)] = c \/ es[dialler(c)].active.conn = c
        BY <2>1, <3>1 DEF IInv, Holders, WonActive
      <3> QED
        BY <2>3, <2>5, <3>2, <3>3 DEF c
    <2> QED
      BY <2>2, <2>4, <2>5 DEF WonBy
  <1> QED
    BY <1>1, HandshakeInvariance, PTL

(***************************************************************************)
(* When nothing fails, the two services keep one and the same connection:  *)
(* proofs about the decision of establishEnd at the two ends.              *)
(***************************************************************************)

-----------------------------------------------------------------------------
(* The invariant of the behaviours in which nothing fails *)

Started(c)  == aPc[c] \notin {"idle", "none"}
Accepted(c) == pPc[c] \in {"waitCompleted", "success", "won"}

(* One message is under way. *)
One(s, type) == s # <<>> /\ Tail(s) = <<>> /\ Head(s).type = type

(* How far the two ends of a connection are, and what is under way. *)
Linked(c) ==
    \/ /\ aPc[c] \in {"idle", "dial", "none"} /\ pPc[c] = "none"
       /\ toAcceptor[c] = <<>> /\ toDialler[c] = <<>>
    \/ /\ aPc[c] = "waitResp" /\ pPc[c] = "accept"
       /\ One(toAcceptor[c], "HSApply") /\ toDialler[c] = <<>>
       /\ Head(toAcceptor[c]).time = es[dialler(c)].active.startTime
    \/ /\ aPc[c] = "waitResp" /\ pPc[c] = "waitCompleted"
       /\ toAcceptor[c] = <<>> /\ One(toDialler[c], "HSAccepted")
    \/ /\ aPc[c] = "waitAck" /\ pPc[c] = "waitCompleted"
       /\ One(toAcceptor[c], "HSCompleted") /\ toDialler[c] = <<>>
    \/ /\ aPc[c] = "waitAck" /\ pPc[c] \in {"success", "won"}
       /\ toAcceptor[c] = <<>> /\ One(toDialler[c], "HSCompletedAck")
    \/ /\ aPc[c] = "won" /\ pPc[c] \in {"success", "won"}
       /\ toAcceptor[c] = <<>> /\ toDialler[c] = <<>>
    \/ /\ aPc[c] \in {"waitResp", "lost"} /\ pPc[c] = "lost"
       /\ toAcceptor[c] = <<>> /\ One(toDialler[c], "HSRejected")

Links == \A c \in Conns : Linked(c)

(* No node dials twice. *)
OneCall ==
    \A c, d \in Conns : Started(c) /\ Started(d) /\ dialler(c) = dialler(d) => c = d

(* An end stays open as long as its node may keep the connection. *)
OpenEnds ==
    \A c \in Conns :
        /\ \/ aPc[c] \in {"waitResp", "waitAck"}
           \/ aPc[c] = "won" /\ sess[dialler(c)] = None
           => "dialler" \in open[c]
        /\ \/ pPc[c] \in {"accept", "waitCompleted", "success"}
           \/ pPc[c] = "won" /\ sess[acceptor(c)] = None
           => "acceptor" \in open[c]

(* Who is rejected is rejected by a node with a session, and fails. *)
Rejecters ==
    \A c \in Conns :
        /\ pPc[c] = "lost" => sess[acceptor(c)] # None
        /\ aPc[c] = "lost" /\ sess[dialler(c)] = None => isFail(es[dialler(c)].active)

(* The attempts an establishment knows of are those of the connections. *)
Known ==
    \A n \in Nodes : sess[n] = None =>
        /\ ~isEnd(es[n])
        /\ es[n].active.state # 0 => \E c \in Conns : dialler(c) = n /\ Started(c)
        /\ es[n].passive.state # 0 => \E c \in Conns : acceptor(c) = n /\ Accepted(c)

(* Both nodes compare the same two start times. *)
SameTimes ==
    \A c \in Conns : Accepted(c) /\ (\A n \in Nodes : sess[n] = None) =>
        es[acceptor(c)].passive.startTime = es[dialler(c)].active.startTime

(* Does node n prefer the connection it has dialled? *)
PrefersOwn(n, e) == whichStartEarlier(e, n < Peer(n)) = 1

(* When one node has kept a connection, it stays open, and the other node  *)
(* has kept it or, if it has two to choose from, is going to keep it.      *)
Agreed(n, x) ==
    LET m == Peer(n) IN
    /\ open[x] = Ends
    /\ \/ sess[m] = x
       \/ /\ sess[m] = None
          /\ \A y \in Conns : dialler(y) # dialler(x) /\ Accepted(y) =>
                (PrefersOwn(m, es[m]) <=> m = dialler(x))

Agree == \A n \in Nodes : sess[n] # None => Agreed(n, sess[n])

PairInv == Links /\ OneCall /\ OpenEnds /\ Rejecters /\ Known /\ SameTimes /\ Agree

FInv == ~faulty => PairInv

-----------------------------------------------------------------------------
(* Lemmas about messages and what the links say *)

HIDE MaxCallsAssumption
USE TimesAssumption

LEMMA AppendOne ==
    ASSUME NEW m \in Message
    PROVE  /\ Append(<<>>, m) # <<>> /\ Tail(Append(<<>>, m)) = <<>>
           /\ Head(Append(<<>>, m)) = m
  <1>1. <<>> \in Seq(Message) /\ Len(<<>>) = 0
    BY EmptySeq
  <1> DEFINE s == Append(<<>>, m)
  <1>2. s \in Seq(Message) /\ Len(s) = 1 /\ s[1] = m
    BY <1>1, AppendProperties
  <1> HIDE DEF s
  <1>3. s # <<>>
    BY <1>1, <1>2
  <1>4. Head(s) = s[1] /\ Tail(s) \in Seq(Message) /\ Len(Tail(s)) = Len(s) - 1
    BY <1>2, <1>3, HeadTailProperties
  <1>6. Tail(s) \in Seq(Message) /\ Len(Tail(s)) = 0
    BY <1>2, <1>4
  <1>5. Tail(s) = <<>>
    BY <1>6, EmptySeq
  <1> QED
    BY <1>2, <1>3, <1>4, <1>5 DEF s

LEMMA OneMessage ==
    /\ \A t \in Times : LET m == [type |-> "HSApply", time |-> t] IN
          One(Append(<<>>, m), "HSApply") /\ Head(Append(<<>>, m)).time = t
    /\ \A type \in {"HSAccepted", "HSRejected", "HSCompleted", "HSCompletedAck"} :
          One(Append(<<>>, [type |-> type]), type)
  <1>1. /\ \A t \in Times : [type |-> "HSApply", time |-> t] \in Message
        /\ \A type \in {"HSAccepted", "HSRejected", "HSCompleted", "HSCompletedAck"} :
              [type |-> type] \in Message
    BY DEF Message
  <1>2. ASSUME NEW t \in Times
        PROVE  LET m == [type |-> "HSApply", time |-> t] IN
               One(Append(<<>>, m), "HSApply") /\ Head(Append(<<>>, m)).time = t
    <2> DEFINE m == [type |-> "HSApply", time |-> t]
    <2>1. m \in Message /\ m.type = "HSApply" /\ m.time = t
      BY <1>1
    <2> HIDE DEF m
    <2>2. One(Append(<<>>, m), "HSApply") /\ Head(Append(<<>>, m)).time = t
      BY <2>1, AppendOne DEF One
    <2> QED
      BY <2>2 DEF m
  <1>3. ASSUME NEW type \in {"HSAccepted", "HSRejected", "HSCompleted", "HSCompletedAck"}
        PROVE  One(Append(<<>>, [type |-> type]), type)
    <2> DEFINE m == [type |-> type]
    <2>1. m \in Message /\ m.type = type
      BY <1>1
    <2> HIDE DEF m
    <2>2. One(Append(<<>>, m), type)
      BY <2>1, AppendOne DEF One
    <2> QED
      BY <2>2 DEF m
  <1> QED
    BY <1>2, <1>3

(* The parts of the invariants that the proofs use together. *)
LEMMA PairFacts ==
    ASSUME IInv, PairInv
    PROVE  /\ es \in [Nodes -> Est] /\ sess \in [Nodes -> Conns \cup {None}] /\ TypeOK
           /\ aPc \in [Conns -> {"idle", "dial", "waitResp", "waitAck", "won", "lost", "none"}]
           /\ pPc \in [Conns -> {"none", "accept", "waitCompleted", "success", "won", "lost"}]
           /\ open \in [Conns -> SUBSET Ends]
           /\ toAcceptor \in [Conns -> Seq(Message)] /\ toDialler \in [Conns -> Seq(Message)]
           /\ \A c \in Conns : Linked(c)
           /\ \A c \in Conns : Runs(c) => sess[dialler(c)] = None
           /\ \A c \in Conns : Handles(c) => sess[acceptor(c)] = None
           /\ \A n \in Nodes : sess[n] # None => es[n] = NewEstablishment /\ WonBy(n, sess[n])
  BY RunningEst, HandlingEst DEF IInv, TypeOK, Est, Ends, PairInv, Links, Holders, SessionsWon

(* What an attempt at a connection says about the establishment. *)
LEMMA WonFacts ==
    ASSUME IInv, PairInv, NEW c \in Conns
    PROVE  /\ aPc[c] = "won" /\ sess[dialler(c)] = None =>
                  es[dialler(c)].active.conn = c /\ isSuccess(es[dialler(c)].active)
           /\ pPc[c] = "won" /\ sess[acceptor(c)] = None =>
                  es[acceptor(c)].passive.conn = c /\ isSuccess(es[acceptor(c)].passive)
  <1>1. dialler(c) \in Nodes /\ acceptor(c) \in Nodes /\ c # None
    BY ConnEnds
  <1> QED
    BY <1>1 DEF IInv, Holders, WonActive, WonPassive, ConnsWon, PairInv, OpenEnds

(* What is known of a node without a session. *)
LEMMA ActiveStates ==
    ASSUME IInv, PairInv, NEW c \in Conns, Started(c), sess[dialler(c)] = None
    PROVE  LET a == es[dialler(c)].active IN
           /\ isStarted(a)
           /\ Runs(c) => isEstablishing(a)
           /\ aPc[c] = "won" => isSuccess(a) /\ a.conn = c
           /\ aPc[c] = "lost" => isFail(a)
  <1>1. aPc[c] \in {"dial", "waitResp", "waitAck", "won", "lost"}
    BY PairFacts DEF Started
  <1>2. Runs(c) => isEstablishing(es[dialler(c)].active)
    BY DEF IInv, Owners, ActiveOwn
  <1>3. aPc[c] = "won" => isSuccess(es[dialler(c)].active) /\ es[dialler(c)].active.conn = c
    BY WonFacts
  <1>4. aPc[c] = "lost" => isFail(es[dialler(c)].active)
    BY DEF PairInv, Rejecters
  <1> QED
    BY <1>1, <1>2, <1>3, <1>4
    DEF Runs, isEstablishing, isStarted, isSuccess, isFail, establishSuccess, establishFail

LEMMA PassiveStates ==
    ASSUME IInv, PairInv, NEW c \in Conns, Accepted(c), sess[acceptor(c)] = None
    PROVE  LET p == es[acceptor(c)].passive IN
           /\ isStarted(p)
           /\ Handles(c) => isEstablishing(p) /\ p.state = establishHandshake
           /\ pPc[c] = "won" => isSuccess(p) /\ p.conn = c
  <1>1. Handles(c) => isEstablishing(es[acceptor(c)].passive) /\
                      es[acceptor(c)].passive.state = establishHandshake
    BY HandlingEst DEF IInv, Owners, PassiveOwn
  <1>3. pPc[c] = "won" => isSuccess(es[acceptor(c)].passive) /\ es[acceptor(c)].passive.conn = c
    BY WonFacts
  <1> QED
    BY <1>1, <1>3 DEF Accepted, Handles, isEstablishing, isStarted, isSuccess, establishSuccess

(* When nothing fails, an attempt fails because it is rejected, and nothing *)
(* else does.                                                              *)
LEMMA NothingFails ==
    ASSUME IInv, PairInv, ~faulty, NEW c \in Conns
    PROVE  /\ ~OnPassiveConnFails(c) /\ ~PassiveFail(c)
           /\ ~WriteCompletedAckFails(c) /\ ~Lose(c)
           /\ ActiveFail(c) => aPc[c] = "waitResp" /\ pPc[c] = "lost"
  <1>1. Linked(c)
    BY PairFacts
  <1>2. ~OnPassiveConnFails(c) /\ ~PassiveFail(c)
    BY <1>1 DEF PairInv, OpenEnds, OnPassiveConnFails, PassiveFail, ReadFails, Linked, One
  <1>3. ActiveFail(c) => aPc[c] = "waitResp" /\ pPc[c] = "lost"
    <2>1. ASSUME ActiveFail(c)
          PROVE  \/ aPc[c] = "waitResp" /\ Head(toDialler[c]).type = "HSRejected" /\ toDialler[c] # <<>>
                 \/ /\ aPc[c] \in {"waitResp", "waitAck"} /\ toDialler[c] = <<>>
                    /\ "acceptor" \notin open[c]
      BY <2>1 DEF ActiveFail, ReadFails, Receive
    <2> QED
      BY <1>1, <2>1 DEF PairInv, OpenEnds, Linked, One
  <1> QED
    BY <1>2, <1>3 DEF WriteCompletedAckFails, Lose

LEMMA SessionsStay ==
    ASSUME IInv, PairInv, ~faulty, NEW n \in Nodes
    PROVE  ~SessionOnClosed(n)
  <1>1. sess[n] # None => open[sess[n]] = Ends
    BY DEF PairInv, Agree, Agreed
  <1> QED
    BY <1>1 DEF SessionOnClosed, EndAt, Ends

-----------------------------------------------------------------------------
(* The decision *)

(* Two nodes with two connections to choose from choose alike. *)
LEMMA ChooseAlike ==
    ASSUME NEW n \in Nodes, NEW e \in Est, NEW f \in Est,
           isStarted(e.active), isStarted(e.passive), isStarted(f.active), isStarted(f.passive),
           e.active.startTime = f.passive.startTime,
           e.passive.startTime = f.active.startTime
    PROVE  PrefersOwn(n, e) <=> ~PrefersOwn(Peer(n), f)
  <1>1. n \in Int /\ Peer(n) \in Int /\ n # Peer(n) /\ Peer(Peer(n)) = n
    BY PeerIs, PeerPeer
  <1>3. e.active \in Att /\ e.passive \in Att
    BY EstFields
  <1>4. \A a \in Att : a.startTime \in Times \cup {0}
    BY DEF Att, Attempt
  <1>5. e.active.startTime \in Times \cup {0} /\ e.passive.startTime \in Times \cup {0}
    BY <1>3, <1>4
  <1>6. \A t \in Times \cup {0} : t \in Int
    BY TimesAssumption
  <1>2. e.active.startTime \in Int /\ e.passive.startTime \in Int
    BY <1>5, <1>6
  <1> QED
    BY <1>1, <1>2 DEF PrefersOwn, whichStartEarlier

(* What an establishment e of node n is that ends in a step: it is the one  *)
(* of the connections that the node has dialled and accepted, and the       *)
(* attempts at them are over.                                               *)
Over(n, e) ==
    /\ ~isEstablishing(e.active) /\ ~isEstablishing(e.passive)
    /\ isStarted(e.active) <=> isStarted(es[n].active)
    /\ isStarted(e.passive) <=> isStarted(es[n].passive)
    /\ e.active.startTime = es[n].active.startTime
    /\ e.passive.startTime = es[n].passive.startTime
    /\ \A c \in Conns : dialler(c) = n /\ Started(c) =>
          \/ isFail(e.active) /\ aPc'[c] = "lost" /\ pPc[c] = "lost"
          \/ /\ isSuccess(e.active) /\ e.active.conn = c
             /\ aPc'[c] = "won" /\ aPc[c] \in {"waitAck", "won"} /\ Accepted(c)
    /\ \A c \in Conns : acceptor(c) = n /\ Accepted(c) =>
          isSuccess(e.passive) /\ e.passive.conn = c /\ pPc'[c] = "won"
    /\ \E c \in Conns : \/ dialler(c) = n /\ Started(c)
                        \/ acceptor(c) = n /\ Accepted(c)

(* Who has been accepted has dialled; who has a session has accepted one.  *)
LEMMA LinkFacts ==
    ASSUME IInv, PairInv, NEW c \in Conns
    PROVE  /\ Accepted(c) => Started(c) /\ aPc[c] \in {"waitResp", "waitAck", "won"}
           /\ aPc[c] = "won" => pPc[c] \in {"success", "won"}
           /\ pPc[c] = "won" => aPc[c] \in {"waitAck", "won"}
           /\ aPc[c] = "lost" => pPc[c] = "lost"
  BY PairFacts DEF Linked, Accepted, Started

LEMMA WonAccepted ==
    ASSUME IInv, PairInv, NEW m \in Nodes, sess[m] # None
    PROVE  /\ sess[m] \in Conns /\ Accepted(sess[m]) /\ Started(sess[m])
           /\ dialler(sess[m]) = m \/ acceptor(sess[m]) = m
  <1>1. sess[m] \in Conns /\ WonBy(m, sess[m])
    BY PairFacts
  <1> QED
    BY <1>1, LinkFacts DEF WonBy, Accepted, Started

(* A node that ends an establishment without a session on the other side   *)
(* being lost to it: what it has got.                                      *)
LEMMA OverHas ==
    ASSUME IInv, PairInv, NEW n \in Nodes, sess[n] = None, NEW e \in Est, Over(n, e)
    PROVE  /\ isSuccess(e.active) \/ isSuccess(e.passive)
           /\ isSuccess(e.active) => /\ e.active.conn \in Conns /\ dialler(e.active.conn) = n
                                     /\ Accepted(e.active.conn)
                                     /\ aPc[e.active.conn] \in {"waitAck", "won"}
           /\ isSuccess(e.passive) => /\ e.passive.conn \in Conns /\ acceptor(e.passive.conn) = n
                                      /\ Accepted(e.passive.conn)
           /\ e.active.state \in {0, 4, 5} /\ e.passive.state \in {0, 4}
  <1>1. e.active.state \in {0, 4, 5} /\ e.passive.state \in {0, 4, 5}
    BY EstFields DEF Over, isEstablishing, isStarted, attemptIsEnd, establishAboutSuccess
  <1>2. es[n] \in Est
    BY PairFacts
  <1>3. ASSUME isStarted(e.active)
        PROVE  \E c \in Conns : dialler(c) = n /\ Started(c)
    BY <1>2, <1>3, EstFields DEF Over, PairInv, Known, isStarted
  <1>4. ASSUME isStarted(e.passive)
        PROVE  \E c \in Conns : acceptor(c) = n /\ Accepted(c)
    BY <1>2, <1>4, EstFields DEF Over, PairInv, Known, isStarted
  <1>5. isSuccess(e.active) => isStarted(e.active) /\ ~isFail(e.active)
    BY DEF isSuccess, isStarted, isFail, establishSuccess, establishFail
  <1>6. isStarted(e.passive) => isSuccess(e.passive)
    BY <1>4 DEF Over
  <1>7. e.passive.state \in {0, 4}
    BY <1>1, <1>6 DEF isStarted, isSuccess, establishSuccess
  <1>8. isSuccess(e.passive) => isStarted(e.passive)
    BY DEF isSuccess, isStarted, establishSuccess
  <1>9. isSuccess(e.active) \/ isSuccess(e.passive)
    <2> SUFFICES ASSUME ~isSuccess(e.active), ~isSuccess(e.passive)
                 PROVE  FALSE
      OBVIOUS
    <2>1. PICK c \in Conns : dialler(c) = n /\ Started(c) /\ pPc[c] = "lost"
      BY DEF Over
    <2>2. acceptor(c) \in Nodes /\ Peer(n) = acceptor(c) /\ Peer(acceptor(c)) = n
      BY <2>1, ConnEnds
    <2> DEFINE x == sess[acceptor(c)]
    <2>3. x # None
      BY <2>1 DEF PairInv, Rejecters
    <2>4. x \in Conns /\ Accepted(x) /\ Started(x)
      BY <2>2, <2>3, WonAccepted
    <2>5. CASE dialler(x) = n
      <3>1. x = c
        BY <2>1, <2>4, <2>5 DEF PairInv, OneCall
      <3> QED
        BY <2>1, <2>4, <3>1 DEF Accepted
    <2>6. CASE dialler(x) # n
      <3>1. acceptor(x) = n
        BY <2>4, <2>6, ConnEnds, PeerIs
      <3> QED
        BY <2>4, <3>1 DEF Over
    <2> QED
      BY <2>5, <2>6
  <1> QED
    BY <1>1, <1>3, <1>4, <1>5, <1>7, <1>8, <1>9 DEF Over

(* establishEnd at a node: it keeps a connection, the one the other node    *)
(* has kept or is going to keep.                                            *)
LEMMA EndKeeps ==
    ASSUME IInv, PairInv, NEW n \in Nodes, sess[n] = None, NEW e \in Est, Over(n, e),
           NEW o \in [Conns -> SUBSET Ends],
           \A d \in Conns : pPc[d] # "lost" => o[d] = open[d],
           establishEnd(n, e, o)
    PROVE  \E x \in Conns :
              /\ Accepted(x) /\ (dialler(x) = n \/ acceptor(x) = n)
              /\ dialler(x) = n => aPc[x] \in {"waitAck", "won"}
              /\ es' = [es EXCEPT ![n] = NewEstablishment]
              /\ sess' = [sess EXCEPT ![n] = x]
              /\ sess[Peer(n)] \in {None, x}
              /\ open'[x] = open[x]
              /\ \A d \in Conns : \/ open'[d] = o[d]
                                  \/ Accepted(d) /\ open'[d] = o[d] \ {EndAt(n, d)}
              /\ \A y \in Conns : dialler(y) # dialler(x) /\ Accepted(y) =>
                    (PrefersOwn(n, es[n]) <=> n = dialler(x))
  <1> DEFINE a == e.active
             p == e.passive
             less == n < Peer(n)
             kept == keptConn(e, less)
             dropped == droppedConn(e, less)
  <1>1. /\ isSuccess(a) \/ isSuccess(p)
        /\ isSuccess(a) => /\ a.conn \in Conns /\ dialler(a.conn) = n
                           /\ Accepted(a.conn) /\ aPc[a.conn] \in {"waitAck", "won"}
        /\ isSuccess(p) => p.conn \in Conns /\ acceptor(p.conn) = n /\ Accepted(p.conn)
        /\ a.state \in {0, 4, 5} /\ p.state \in {0, 4}
    BY OverHas
  <1>2. whichStartEarlier(e, less) = whichStartEarlier(es[n], less)
    BY DEF Over, whichStartEarlier
  <1>3. ASSUME NEW x \in Conns, x = kept, dropped \in (Conns \ {x}) \cup {None}
        PROVE  /\ es' = [es EXCEPT ![n] = NewEstablishment]
               /\ sess' = [sess EXCEPT ![n] = x]
               /\ open'[x] = o[x]
               /\ \A d \in Conns : \/ open'[d] = o[d]
                                   \/ d = dropped /\ open'[d] = o[d] \ {EndAt(n, d)}
    <2>1. dropped \in Conns \/ dropped = None
      BY <1>3
    <2>2. x # None
      BY <1>3, ConnEnds
    <2>3. /\ es' = [es EXCEPT ![n] = NewEstablishment]
          /\ sess' = IF kept = None THEN sess ELSE [sess EXCEPT ![n] = kept]
          /\ open' = IF dropped = None THEN o
                     ELSE [o EXCEPT ![dropped] = @ \ {EndAt(n, dropped)}]
      BY DEF establishEnd
    <2> HIDE DEF kept, dropped
    <2>4. sess' = [sess EXCEPT ![n] = x]
      BY <1>3, <2>2, <2>3
    <2>5. /\ open'[x] = o[x]
          /\ \A d \in Conns : \/ open'[d] = o[d]
                              \/ d = dropped /\ open'[d] = o[d] \ {EndAt(n, d)}
      BY <1>3, <2>1, <2>3
    <2> QED
      BY <2>3, <2>4, <2>5
  <1>4. ASSUME NEW m \in Nodes, m = Peer(n), sess[m] # None
        PROVE  LET x == sess[m] IN
               /\ x \in Conns /\ Accepted(x)
               /\ dialler(x) = n => isSuccess(a) /\ a.conn = x
               /\ dialler(x) # n => isSuccess(p) /\ p.conn = x
               /\ \A y \in Conns : dialler(y) # dialler(x) /\ Accepted(y) =>
                    (PrefersOwn(n, es[n]) <=> n = dialler(x))
    <2>1. Peer(m) = n
      BY <1>4, PeerPeer
    <2>2. sess[m] \in Conns /\ Accepted(sess[m]) /\ Started(sess[m])
      BY <1>4, WonAccepted
    <2>3. Agreed(m, sess[m])
      BY <1>4 DEF PairInv, Agree
    <2>4. \A y \in Conns : dialler(y) # dialler(sess[m]) /\ Accepted(y) =>
                    (PrefersOwn(n, es[n]) <=> n = dialler(sess[m]))
      BY <2>1, <2>2, <2>3, ConnEnds DEF Agreed
    <2>5. dialler(sess[m]) = n => isSuccess(a) /\ a.conn = sess[m]
      BY <2>2 DEF Over, Accepted
    <2>6. dialler(sess[m]) # n => isSuccess(p) /\ p.conn = sess[m]
      <3>1. dialler(sess[m]) # n => acceptor(sess[m]) = n
        BY <1>4, <2>2, ConnEnds, PeerIs
      <3> QED
        BY <2>2, <3>1 DEF Over
    <2> QED
      BY <2>2, <2>4, <2>5, <2>6
  <1>5. Peer(n) \in Nodes /\ Peer(n) # n
    BY PeerIs
  <1>6. \A d \in Conns : d # None /\ acceptor(d) # dialler(d)
    BY ConnEnds
  <1>7. \A d \in Conns : Accepted(d) => o[d] = open[d]
    BY DEF Accepted
  <1>8. CASE isSuccess(a) /\ isSuccess(p) /\ PrefersOwn(n, es[n])
    <2>1. kept = a.conn /\ dropped = p.conn
      BY <1>1, <1>2, <1>8
      DEF keptConn, droppedConn, keepsActive, keepsPassive, PrefersOwn, isSuccess, isFail,
          isStarted, establishSuccess, establishFail
    <2>2. p.conn # a.conn /\ a.conn \in Conns /\ p.conn \in Conns
      BY <1>1, <1>6, <1>8
    <2>3. sess[Peer(n)] \in {None, a.conn}
      BY <1>1, <1>4, <1>5, <1>6, <1>8
    <2> HIDE DEF kept, dropped, a, p
    <2> QED
      BY <1>1, <1>3, <1>7, <1>8, <2>1, <2>2, <2>3
  <1>9. CASE isSuccess(a) /\ isSuccess(p) /\ ~PrefersOwn(n, es[n])
    <2>1. kept = p.conn /\ dropped = a.conn
      BY <1>1, <1>2, <1>9
      DEF keptConn, droppedConn, keepsActive, keepsPassive, PrefersOwn, isSuccess, isFail,
          isStarted, establishSuccess, establishFail
    <2>2. p.conn # a.conn /\ a.conn \in Conns /\ p.conn \in Conns
      BY <1>1, <1>6, <1>9
    <2>3. sess[Peer(n)] \in {None, p.conn}
      BY <1>1, <1>4, <1>5, <1>6, <1>9
    <2> HIDE DEF kept, dropped, a, p
    <2> QED
      BY <1>1, <1>3, <1>6, <1>7, <1>9, <2>1, <2>2, <2>3
  <1>10. CASE isSuccess(a) /\ ~isSuccess(p)
    <2>1. kept = a.conn /\ dropped = None
      BY <1>1, <1>10
      DEF keptConn, droppedConn, keepsActive, keepsPassive, isSuccess, isFail,
          isStarted, establishSuccess, establishFail
    <2>2. sess[Peer(n)] \in {None, a.conn}
      BY <1>4, <1>5, <1>10
    <2>3. \A y \in Conns : dialler(y) # n => ~Accepted(y)
      <3>1. \A y \in Conns : dialler(y) # n => acceptor(y) = n
        BY ConnEnds, PeerIs
      <3> QED
        BY <1>10, <3>1 DEF Over
    <2> HIDE DEF kept, dropped, a, p
    <2> QED
      BY <1>1, <1>3, <1>7, <1>10, <2>1, <2>2, <2>3
  <1>11. CASE ~isSuccess(a) /\ isSuccess(p)
    <2>1. kept = p.conn /\ dropped = None
      BY <1>1, <1>11
      DEF keptConn, droppedConn, keepsActive, keepsPassive, isSuccess, isFail,
          isStarted, establishSuccess, establishFail
    <2>2. sess[Peer(n)] \in {None, p.conn}
      BY <1>4, <1>5, <1>11
    <2>3. \A y \in Conns : dialler(y) = n => ~Accepted(y)
      BY <1>11, LinkFacts DEF Over, Accepted
    <2>4. \A y \in Conns : dialler(y) # dialler(p.conn) => dialler(y) = n
      BY <1>1, <1>11, ConnEnds, PeerIs
    <2> HIDE DEF kept, dropped, a, p
    <2> QED
      BY <1>1, <1>3, <1>6, <1>7, <1>11, <2>1, <2>2, <2>3, <2>4
  <1> QED
    BY <1>1, <1>8, <1>9, <1>10, <1>11

-----------------------------------------------------------------------------
(* Steps that change no session *)

(* An end stays open as long as it must. *)
MustBeOpen(c) ==
    /\ \/ aPc[c] \in {"waitResp", "waitAck"}
       \/ aPc[c] = "won" /\ sess[dialler(c)] = None
       => "dialler" \in open[c]
    /\ \/ pPc[c] \in {"accept", "waitCompleted", "success"}
       \/ pPc[c] = "won" /\ sess[acceptor(c)] = None
       => "acceptor" \in open[c]

LEMMA PairQuiet ==
    ASSUME IInv, PairInv, NEW c \in Conns, NEW n \in Nodes, OnlyAt(c, n), sess' = sess,
           (* the other connections *)
           \A d \in Conns : d # c => /\ toAcceptor'[d] = toAcceptor[d]
                                     /\ toDialler'[d] = toDialler[d]
                                     /\ open'[d] = open[d],
           (* the establishment of node n *)
           (\E d \in Conns : Started(d) /\ dialler(d) = n) =>
               /\ es'[n].active.startTime = es[n].active.startTime
               /\ isStarted(es'[n].active) <=> isStarted(es[n].active)
               /\ isFail(es[n].active) => isFail(es'[n].active),
           (\E d \in Conns : Accepted(d) /\ acceptor(d) = n) =>
               /\ es'[n].passive.startTime = es[n].passive.startTime
               /\ isStarted(es'[n].passive) <=> isStarted(es[n].passive),
           es'[n].active.state # 0 => \/ es[n].active.state # 0
                                      \/ dialler(c) = n /\ Started(c)',
           es'[n].passive.state # 0 => \/ es[n].passive.state # 0
                                       \/ acceptor(c) = n /\ Accepted(c)',
           isEnd(es'[n]) => isEnd(es[n]),
           (* connection c *)
           Linked(c)', MustBeOpen(c)',
           Started(c) => Started(c)', Accepted(c) => Accepted(c)',
           Started(c)' => \/ Started(c)
                          \/ \A d \in Conns : Started(d) => dialler(d) # dialler(c),
           Accepted(c)' => \/ Accepted(c)
                           \/ /\ sess[dialler(c)] = None /\ sess[acceptor(c)] = None
                              /\ es'[acceptor(c)].passive.startTime = es'[dialler(c)].active.startTime,
           open'[c] = open[c] \/ pPc'[c] \in {"accept", "lost"},
           pPc'[c] = "lost" => sess[acceptor(c)] # None,
           aPc'[c] = "lost" /\ sess[dialler(c)] = None => isFail(es'[dialler(c)].active)
    PROVE  PairInv'
  <1>1. \A d \in Conns : /\ dialler(d) \in Nodes /\ acceptor(d) \in Nodes
                         /\ Peer(dialler(d)) = acceptor(d) /\ Peer(acceptor(d)) = dialler(d)
                         /\ acceptor(d) # dialler(d)
    BY ConnEnds
  <1>2. \A d \in Conns : d # c => /\ aPc'[d] = aPc[d] /\ pPc'[d] = pPc[d]
                                  /\ Started(d)' <=> Started(d)
                                  /\ Accepted(d)' <=> Accepted(d)
    BY DEF OnlyAt, Started, Accepted
  <1>3. \A m \in Nodes : m # n => es'[m] = es[m]
    BY DEF OnlyAt
  <1>4. ASSUME NEW d \in Conns, Started(d)
        PROVE  /\ es'[dialler(d)].active.startTime = es[dialler(d)].active.startTime
               /\ isStarted(es'[dialler(d)].active) <=> isStarted(es[dialler(d)].active)
               /\ isFail(es[dialler(d)].active) => isFail(es'[dialler(d)].active)
    BY <1>1, <1>3, <1>4
  <1>5. ASSUME NEW d \in Conns, Accepted(d)
        PROVE  /\ es'[acceptor(d)].passive.startTime = es[acceptor(d)].passive.startTime
               /\ isStarted(es'[acceptor(d)].passive) <=> isStarted(es[acceptor(d)].passive)
    BY <1>1, <1>3, <1>5
  <1>6. Links'
    <2> SUFFICES ASSUME NEW d \in Conns, d # c
                 PROVE  Linked(d)'
      BY DEF Links
    <2>1. Linked(d)
      BY PairFacts
    <2>2. aPc[d] = "waitResp" => Started(d)
      BY DEF Started
    <2> QED
      BY <1>2, <1>4, <2>1, <2>2 DEF Linked, One, dialler
  <1>7. OneCall'
    <2> SUFFICES ASSUME NEW d \in Conns, NEW f \in Conns, Started(d)', Started(f)',
                        dialler(d) = dialler(f)
                 PROVE  d = f
      BY DEF OneCall, dialler
    <2>1. OneCall
      BY DEF PairInv
    <2> QED
      BY <1>2, <2>1 DEF OneCall
  <1>8. OpenEnds'
    <2> SUFFICES ASSUME NEW d \in Conns, d # c
                 PROVE  MustBeOpen(d)'
      BY DEF OpenEnds, MustBeOpen
    <2>1. MustBeOpen(d)
      BY DEF PairInv, OpenEnds, MustBeOpen
    <2> QED
      BY <1>2, <2>1 DEF MustBeOpen, dialler, acceptor
  <1>9. Rejecters'
    <2>1. ASSUME NEW d \in Conns, pPc'[d] = "lost"
          PROVE  sess'[acceptor(d)] # None
      BY <1>2, <2>1 DEF PairInv, Rejecters
    <2>2. ASSUME NEW d \in Conns, aPc'[d] = "lost", sess'[dialler(d)] = None
          PROVE  isFail(es'[dialler(d)].active)
      <3>1. CASE d = c
        BY <2>2, <3>1
      <3>2. CASE d # c
        <4>1. Started(d)
          BY <1>2, <2>2, <3>2 DEF Started
        <4>2. isFail(es[dialler(d)].active)
          BY <1>2, <2>2, <3>2 DEF PairInv, Rejecters
        <4> QED
          BY <1>4, <4>1, <4>2
      <3> QED
        BY <3>1, <3>2
    <2> QED
      BY <2>1, <2>2 DEF Rejecters, isFail, dialler, acceptor
  <1>10. Known'
    <2> SUFFICES ASSUME NEW m \in Nodes, sess'[m] = None
                 PROVE  /\ ~isEnd(es'[m])
                        /\ es'[m].active.state # 0 =>
                              \E d \in Conns : dialler(d) = m /\ Started(d)'
                        /\ es'[m].passive.state # 0 =>
                              \E d \in Conns : acceptor(d) = m /\ Accepted(d)'
      BY DEF Known, Started, Accepted, dialler, acceptor, isEnd
    <2>1. /\ ~isEnd(es[m])
          /\ es[m].active.state # 0 => \E d \in Conns : dialler(d) = m /\ Started(d)
          /\ es[m].passive.state # 0 => \E d \in Conns : acceptor(d) = m /\ Accepted(d)
      BY DEF PairInv, Known
    <2>2. \A d \in Conns : (Started(d) => Started(d)') /\ (Accepted(d) => Accepted(d)')
      BY <1>2
    <2> QED
      BY <1>3, <2>1, <2>2
  <1>11. SameTimes'
    <2> SUFFICES ASSUME NEW d \in Conns, Accepted(d)', \A m \in Nodes : sess'[m] = None
                 PROVE  es'[acceptor(d)].passive.startTime = es'[dialler(d)].active.startTime
      BY DEF SameTimes, Accepted, dialler, acceptor
    <2>1. CASE Accepted(d)
      <3>1. Started(d)
        BY <2>1, LinkFacts
      <3>2. es[acceptor(d)].passive.startTime = es[dialler(d)].active.startTime
        BY <2>1 DEF PairInv, SameTimes
      <3> QED
        BY <1>4, <1>5, <2>1, <3>1, <3>2
    <2>2. CASE ~Accepted(d)
      BY <1>2, <2>2
    <2> QED
      BY <2>1, <2>2
  <1>12. Agree'
    <2> SUFFICES ASSUME NEW m \in Nodes, sess[m] # None
                 PROVE  /\ open'[sess[m]] = Ends
                        /\ \/ sess[Peer(m)] = sess[m]
                           \/ /\ sess[Peer(m)] = None
                              /\ \A y \in Conns : dialler(y) # dialler(sess[m]) /\ Accepted(y)' =>
                                    (PrefersOwn(Peer(m), es'[Peer(m)]) <=> Peer(m) = dialler(sess[m]))
      BY DEF Agree, Agreed, Accepted, dialler, PrefersOwn, whichStartEarlier, isStarted
    <2> DEFINE x == sess[m]
               k == Peer(m)
    <2>1. x \in Conns /\ Accepted(x) /\ Started(x) /\ (dialler(x) = m \/ acceptor(x) = m)
      BY WonAccepted
    <2>2. Agreed(m, x)
      BY DEF PairInv, Agree
    <2>3. open'[x] = Ends
      <3>1. x = c => pPc'[c] \notin {"accept", "lost"}
        BY <2>1 DEF Accepted
      <3> QED
        BY <2>1, <2>2, <3>1 DEF Agreed
    <2>4. k \in Nodes /\ k # m
      BY PeerIs
    <2>5. ASSUME NEW y \in Conns, dialler(y) # dialler(x), Accepted(y)', sess[k] = None
          PROVE  PrefersOwn(k, es'[k]) <=> k = dialler(x)
      <3>1. Accepted(y)
        <4>1. dialler(y) = m \/ acceptor(y) = m
          BY <1>1, <2>4, PeerIs
        <4> QED
          BY <1>2, <2>5, <4>1
      <3>2. Started(y)
        BY <3>1, LinkFacts
      <3>3. PrefersOwn(k, es[k]) <=> k = dialler(x)
        BY <2>1, <2>2, <2>5, <3>1 DEF Agreed
      <3>4. \E d \in Conns : dialler(d) = k /\ Started(d)
        BY <1>1, <2>1, <2>4, <2>5, <3>2, PeerIs
      <3>5. \E d \in Conns : acceptor(d) = k /\ Accepted(d)
        BY <1>1, <2>1, <2>4, <2>5, <3>1, PeerIs
      <3>6. /\ es'[k].active.startTime = es[k].active.startTime
            /\ isStarted(es'[k].active) <=> isStarted(es[k].active)
            /\ es'[k].passive.startTime = es[k].passive.startTime
            /\ isStarted(es'[k].passive) <=> isStarted(es[k].passive)
        BY <1>4, <1>5, <3>4, <3>5
      <3> QED
        BY <3>3, <3>6 DEF PrefersOwn, whichStartEarlier
    <2> QED
      BY <2>2, <2>3, <2>5 DEF Agreed
  <1> QED
    BY <1>6, <1>7, <1>8, <1>9, <1>10, <1>11, <1>12 DEF PairInv

-----------------------------------------------------------------------------
(* The step that ends an establishment *)

(* It adds a session, on the connection of the other node's session if that *)
(* has one.                                                                 *)
Keeping(n) ==
    \E x \in Conns : /\ sess[n] = None /\ sess[Peer(n)] \in {None, x}
                     /\ sess' = [sess EXCEPT ![n] = x]

LEMMA PairEnd ==
    ASSUME IInv, PairInv, NEW c \in Conns, NEW n \in Nodes, sess[n] = None,
           NEW e \in Est, Over(n, e),
           NEW o \in [Conns -> SUBSET Ends], establishEnd(n, e, o),
           \A d \in Conns : \/ o[d] = open[d]
                            \/ pPc[d] = "lost" /\ pPc'[d] = "lost" /\ aPc'[d] = "lost",
           \A d \in Conns : d # c => /\ aPc'[d] = aPc[d] /\ pPc'[d] = pPc[d]
                                     /\ toAcceptor'[d] = toAcceptor[d]
                                     /\ toDialler'[d] = toDialler[d],
           \A d \in Conns : dialler(d) # n => aPc'[d] = aPc[d],
           Linked(c)', pPc[c] # "accept", pPc'[c] # "accept",
           Started(c)' <=> Started(c), Accepted(c)' <=> Accepted(c),
           pPc'[c] = "lost" <=> pPc[c] = "lost",
           acceptor(c) # n => pPc'[c] = pPc[c]
    PROVE  PairInv' /\ Keeping(n)
  <1> DEFINE m == Peer(n)
  <1>1. PICK x \in Conns :
              /\ Accepted(x) /\ (dialler(x) = n \/ acceptor(x) = n)
              /\ dialler(x) = n => aPc[x] \in {"waitAck", "won"}
              /\ es' = [es EXCEPT ![n] = NewEstablishment]
              /\ sess' = [sess EXCEPT ![n] = x]
              /\ sess[Peer(n)] \in {None, x}
              /\ open'[x] = open[x]
              /\ \A d \in Conns : \/ open'[d] = o[d]
                                  \/ Accepted(d) /\ open'[d] = o[d] \ {EndAt(n, d)}
              /\ \A y \in Conns : dialler(y) # dialler(x) /\ Accepted(y) =>
                    (PrefersOwn(n, es[n]) <=> n = dialler(x))
    <2>1. \A d \in Conns : pPc[d] # "lost" => o[d] = open[d]
      OBVIOUS
    <2> QED
      BY <2>1, EndKeeps
  <1>2. /\ es \in [Nodes -> Est] /\ sess \in [Nodes -> Conns \cup {None}]
        /\ m \in Nodes /\ m # n /\ Peer(m) = n
        /\ \A k \in Nodes : k # n => k = m
    BY PairFacts, PeerIs, PeerPeer
  <1>3. /\ sess'[n] = x /\ x # None /\ sess'[m] = sess[m] /\ es'[m] = es[m]
    BY <1>1, <1>2, ConnEnds
  <1>4. \A d \in Conns : /\ dialler(d) \in Nodes /\ acceptor(d) \in Nodes
                         /\ Peer(dialler(d)) = acceptor(d) /\ Peer(acceptor(d)) = dialler(d)
                         /\ acceptor(d) # dialler(d)
                         /\ EndAt(dialler(d), d) = "dialler" /\ EndAt(acceptor(d), d) = "acceptor"
    BY ConnEnds
  <1>5. \A d \in Conns : (Started(d)' <=> Started(d)) /\ (Accepted(d)' <=> Accepted(d))
    BY DEF Started, Accepted
  <1>6. Links'
    <2> SUFFICES ASSUME NEW d \in Conns, d # c
                 PROVE  Linked(d)'
      BY DEF Links
    <2>1. Linked(d)
      BY PairFacts
    <2>2. pPc[d] = "accept" => es'[dialler(d)] = es[dialler(d)]
      <3>1. pPc[d] = "accept" => Started(d) /\ aPc[d] = "waitResp" /\ ~Accepted(d)
        BY <2>1 DEF Linked, Started, Accepted
      <3>2. pPc[d] = "accept" => dialler(d) # n
        BY <3>1 DEF Over
      <3> QED
        BY <1>2, <1>3, <1>4, <3>2
    <2> QED
      BY <2>1, <2>2 DEF Linked, One, dialler
  <1>7. OneCall'
    <2>1. \A d, f \in Conns : Started(d) /\ Started(f) /\ dialler(d) = dialler(f) => d = f
      BY DEF PairInv, OneCall
    <2> QED
      BY <1>5, <2>1 DEF OneCall, dialler
  <1>8. OpenEnds'
    <2> SUFFICES ASSUME NEW d \in Conns
                 PROVE  MustBeOpen(d)'
      BY DEF OpenEnds, MustBeOpen
    <2>1. MustBeOpen(d)
      BY DEF PairInv, OpenEnds, MustBeOpen
    <2>2. CASE o[d] # open[d]
      BY <2>2 DEF MustBeOpen
    <2>3. CASE o[d] = open[d]
      <3>1. aPc'[d] \in {"waitResp", "waitAck"} \/ (aPc'[d] = "won" /\ sess'[dialler(d)] = None)
            => "dialler" \in open'[d]
        <4> SUFFICES ASSUME \/ aPc'[d] \in {"waitResp", "waitAck"}
                            \/ aPc'[d] = "won" /\ sess'[dialler(d)] = None
                     PROVE  "dialler" \in open'[d]
          OBVIOUS
        <4>1. dialler(d) # n
          <5>1. Started(d)' /\ Started(d)
            BY <1>5 DEF Started
          <5> QED
            BY <1>3, <5>1 DEF Over
        <4>2. aPc'[d] = aPc[d] /\ sess'[dialler(d)] = sess[dialler(d)] /\ EndAt(n, d) = "acceptor"
          BY <1>2, <1>3, <1>4, <4>1
        <4> QED
          BY <1>1, <2>1, <2>3, <4>2 DEF MustBeOpen
      <3>2. \/ pPc'[d] \in {"accept", "waitCompleted", "success"}
            \/ pPc'[d] = "won" /\ sess'[acceptor(d)] = None
            => "acceptor" \in open'[d]
        <4> SUFFICES ASSUME \/ pPc'[d] \in {"accept", "waitCompleted", "success"}
                            \/ pPc'[d] = "won" /\ sess'[acceptor(d)] = None
                     PROVE  "acceptor" \in open'[d]
          OBVIOUS
        <4>1. CASE acceptor(d) # n
          <5>1. pPc'[d] = pPc[d] /\ sess'[acceptor(d)] = sess[acceptor(d)] /\ EndAt(n, d) = "dialler"
            BY <1>2, <1>3, <1>4, <4>1
          <5> QED
            BY <1>1, <2>1, <2>3, <5>1 DEF MustBeOpen
        <4>2. CASE acceptor(d) = n
          <5>1. ~Accepted(d)
            <6>1. ~(pPc'[d] = "won" /\ sess'[acceptor(d)] = None)
              BY <1>3, <4>2
            <6> QED
              BY <4>2, <6>1, <1>5 DEF Over, Accepted
          <5>2. pPc'[d] = "accept"
            BY <1>3, <1>5, <4>2, <5>1 DEF Accepted
          <5>3. pPc[d] = "accept"
            BY <5>2
          <5> QED
            BY <1>1, <2>1, <2>3, <5>1, <5>3 DEF MustBeOpen
        <4> QED
          BY <4>1, <4>2
      <3> QED
        BY <3>1, <3>2 DEF MustBeOpen, dialler, acceptor
    <2> QED
      BY <2>2, <2>3
  <1>9. Rejecters'
    <2>1. ASSUME NEW d \in Conns, pPc'[d] = "lost"
          PROVE  sess'[acceptor(d)] # None
      <3>1. pPc[d] = "lost"
        BY <2>1
      <3>2. sess[acceptor(d)] # None
        BY <3>1 DEF PairInv, Rejecters
      <3> QED
        BY <1>2, <1>3, <1>4, <3>2
    <2>2. ASSUME NEW d \in Conns, aPc'[d] = "lost", sess'[dialler(d)] = None
          PROVE  isFail(es'[dialler(d)].active)
      <3>1. dialler(d) = m
        BY <1>2, <1>3, <1>4, <2>2
      <3> QED
        BY <1>2, <1>3, <2>2, <3>1 DEF PairInv, Rejecters
    <2> QED
      BY <2>1, <2>2 DEF Rejecters, isFail, dialler, acceptor
  <1>10. Known'
    <2> SUFFICES ASSUME NEW k \in Nodes, sess'[k] = None
                 PROVE  /\ ~isEnd(es'[k])
                        /\ es'[k].active.state # 0 =>
                              \E d \in Conns : dialler(d) = k /\ Started(d)'
                        /\ es'[k].passive.state # 0 =>
                              \E d \in Conns : acceptor(d) = k /\ Accepted(d)'
      BY DEF Known, Started, Accepted, dialler, acceptor, isEnd
    <2>1. k = m
      BY <1>2, <1>3
    <2>2. /\ ~isEnd(es[m])
          /\ es[m].active.state # 0 => \E d \in Conns : dialler(d) = m /\ Started(d)
          /\ es[m].passive.state # 0 => \E d \in Conns : acceptor(d) = m /\ Accepted(d)
      BY <1>2, <1>3, <2>1 DEF PairInv, Known
    <2> QED
      BY <1>3, <1>5, <2>1, <2>2
  <1>11. SameTimes'
    BY <1>3 DEF SameTimes
  <1>12. Agree'
    <2> SUFFICES ASSUME NEW k \in Nodes, sess'[k] # None
                 PROVE  /\ open'[sess'[k]] = Ends
                        /\ \/ sess'[Peer(k)] = sess'[k]
                           \/ /\ sess'[Peer(k)] = None
                              /\ \A y \in Conns : dialler(y) # dialler(sess'[k]) /\ Accepted(y)' =>
                                    (PrefersOwn(Peer(k), es'[Peer(k)]) <=> Peer(k) = dialler(sess'[k]))
      BY DEF Agree, Agreed, Accepted, dialler, PrefersOwn, whichStartEarlier, isStarted
    <2>1. CASE sess[m] # None
      <3>1. sess[m] = x /\ open[x] = Ends
        BY <1>1, <1>2, <2>1 DEF PairInv, Agree, Agreed
      <3> QED
        BY <1>1, <1>2, <1>3, <3>1
    <2>2. CASE sess[m] = None
      <3>1. k = n
        BY <1>2, <1>3, <2>2
      <3>2. aPc[x] \in {"waitResp", "waitAck", "won"}
        BY <1>1, LinkFacts
      <3>3. "dialler" \in open[x] /\ "acceptor" \in open[x]
        BY <1>1, <1>2, <1>4, <2>2, <3>2 DEF PairInv, OpenEnds, Accepted
      <3>4. open'[x] = Ends
        <4>1. open[x] \subseteq Ends
          BY PairFacts
        <4> QED
          BY <1>1, <3>3, <4>1 DEF Ends
      <3>5. ASSUME NEW y \in Conns, dialler(y) # dialler(x), Accepted(y)
            PROVE  PrefersOwn(m, es[m]) <=> m = dialler(x)
        <4>1. PrefersOwn(n, es[n]) <=> n = dialler(x)
          BY <1>1, <3>5
        <4>2. Started(x) /\ Started(y)
          BY <1>1, <3>5, LinkFacts
        <4>3. \A k2 \in Nodes : sess[k2] = None
          BY <1>2, <2>2
        <4>4. PICK u, v \in Conns : /\ dialler(u) = n /\ acceptor(u) = m
                                    /\ dialler(v) = m /\ acceptor(v) = n
                                    /\ Accepted(u) /\ Accepted(v) /\ Started(u) /\ Started(v)
          BY <1>1, <1>2, <1>4, <3>5, <4>2
        <4>5. /\ isStarted(es[n].active) /\ isStarted(es[m].passive)
              /\ isStarted(es[m].active) /\ isStarted(es[n].passive)
          BY <1>2, <4>3, <4>4, ActiveStates, PassiveStates
        <4>6. /\ es[n].active.startTime = es[m].passive.startTime
              /\ es[n].passive.startTime = es[m].active.startTime
          BY <4>3, <4>4 DEF PairInv, SameTimes
        <4>7. es[n] \in Est /\ es[m] \in Est
          BY <1>2
        <4>8. PrefersOwn(n, es[n]) <=> ~PrefersOwn(m, es[m])
          BY <4>5, <4>6, <4>7, ChooseAlike
        <4>9. n = dialler(x) <=> m # dialler(x)
          BY <1>2, <1>4
        <4> QED
          BY <4>1, <4>8, <4>9
      <3> QED
        BY <1>3, <1>5, <2>2, <3>1, <3>4, <3>5
    <2> QED
      BY <2>1, <2>2
  <1>13. Keeping(n)
    BY <1>1 DEF Keeping
  <1> QED
    BY <1>6, <1>7, <1>8, <1>9, <1>10, <1>11, <1>12, <1>13 DEF PairInv

-----------------------------------------------------------------------------
(* The steps, one by one *)

LEMMA PairConnect ==
    ASSUME IInv, PairInv, NEW c \in Conns, Connect(c)
    PROVE  PairInv' /\ sess' = sess
  <1> DEFINE n == dialler(c)
  <1>1. n \in Nodes /\ acceptor(c) # n /\ es[n] \in Est
    BY ConnEnds, PairFacts
  <1>2. OnlyAt(c, n)
    BY ActionsAreLocal
  <1>3. /\ sess' = sess /\ pPc' = pPc /\ open' = open
        /\ toAcceptor' = toAcceptor /\ toDialler' = toDialler
        /\ aPc[c] = "idle" /\ aPc'[c] \in {"dial", "none"}
    BY PairFacts DEF Connect, net
  <1>4. /\ pPc[c] = "none" /\ toAcceptor[c] = <<>> /\ toDialler[c] = <<>>
        /\ ~Started(c) /\ ~Accepted(c) /\ ~Accepted(c)'
    BY <1>3, PairFacts DEF Linked, Started, Accepted
  <1>5. Linked(c)' /\ MustBeOpen(c)'
    BY <1>3, <1>4 DEF Linked, MustBeOpen
  <1>6. CASE aPc'[c] = "none" /\ es' = es
    <2>1. ~Started(c)'
      BY <1>6 DEF Started
    <2>2. PairInv'
      <3> HIDE DEF n
      <3> QED
        BY <1>1, <1>2, <1>3, <1>4, <1>5, <1>6, <2>1, PairQuiet
    <2> QED
      BY <1>3, <2>2
  <1>7. CASE /\ sess[n] = None /\ canStartActive(es[n]) /\ aPc'[c] = "dial"
             /\ \E now \in Times : es' = [es EXCEPT ![n] = startActive(es[n], now)]
    <2>1. PICK now \in Times : es'[n] = startActive(es[n], now)
      BY <1>1, <1>7, PairFacts
    <2>2. /\ es'[n].passive = es[n].passive /\ ~isStarted(es[n].active)
          /\ isEnd(es'[n]) <=> isEnd(es[n])
      BY <1>1, <1>7, <2>1, StartActiveOp
    <2>3. \A d \in Conns : ~(Started(d) /\ dialler(d) = n)
      BY <1>7, <2>2, ActiveStates
    <2>4. Started(c)'
      BY <1>7 DEF Started
    <2>5. PairInv'
      <3> HIDE DEF n
      <3> QED
        BY <1>1, <1>2, <1>3, <1>4, <1>5, <1>7, <2>2, <2>3, <2>4, PairQuiet DEF n
    <2> QED
      BY <1>3, <2>5
  <1> QED
    BY <1>6, <1>7, PairFacts DEF Connect

LEMMA PairDial ==
    ASSUME IInv, PairInv, NEW c \in Conns, Dial(c)
    PROVE  PairInv' /\ sess' = sess
  <1> DEFINE n == dialler(c)
             t == es[n].active.startTime
  <1>1. n \in Nodes /\ acceptor(c) # n /\ Runs(c)
    BY ConnEnds DEF Dial, Runs
  <1>2. OnlyAt(c, n)
    BY ActionsAreLocal DEF Active
  <1>3. /\ sess' = sess /\ toDialler' = toDialler
        /\ toAcceptor'[c] = Append(toAcceptor[c], [type |-> "HSApply", time |-> t])
        /\ \A d \in Conns : d # c => toAcceptor'[d] = toAcceptor[d] /\ open'[d] = open[d]
        /\ open'[c] = {"dialler", "acceptor"}
        /\ aPc[c] = "dial" /\ aPc'[c] = "waitResp" /\ pPc'[c] = "accept"
        /\ es'[n] = startActiveHandshake(es[n])
    BY <1>1, PairFacts DEF Dial
  <1>4. /\ toAcceptor[c] = <<>> /\ toDialler[c] = <<>>
        /\ Started(c) /\ ~Accepted(c) /\ ~Accepted(c)' /\ Started(c)'
    BY <1>3, PairFacts DEF Linked, Started, Accepted
  <1>5. t \in Times /\ isEstablishing(es[n].active) /\ es[n] \in Est
    BY <1>1, RunningEst
  <1>6. /\ es'[n].passive = es[n].passive /\ es'[n].active.startTime = t
        /\ isEstablishing(es'[n].active) /\ (isEnd(es'[n]) <=> isEnd(es[n]))
    BY <1>3, <1>5, GoOnActiveOp
  <1>7. isStarted(es[n].active) /\ isStarted(es'[n].active) /\ ~isFail(es[n].active)
    BY <1>5, <1>6 DEF isEstablishing, isFail, attemptIsEnd, establishFail, establishAboutSuccess
  <1> HIDE DEF t
  <1>8. One(toAcceptor'[c], "HSApply") /\ Head(toAcceptor'[c]).time = t
    BY <1>3, <1>4, <1>5, OneMessage
  <1>9. Linked(c)' /\ MustBeOpen(c)'
    BY <1>3, <1>4, <1>6, <1>8 DEF Linked, MustBeOpen, One, dialler
  <1>10. es[n].active.state # 0
    BY <1>7 DEF isStarted
  <1> HIDE DEF n
  <1> QED
    BY <1>1, <1>2, <1>3, <1>4, <1>6, <1>7, <1>9, <1>10, PairQuiet DEF t

LEMMA PairReadAccepted ==
    ASSUME IInv, PairInv, NEW c \in Conns, ReadAccepted(c)
    PROVE  PairInv' /\ sess' = sess
  <1> DEFINE n == dialler(c)
  <1>1. n \in Nodes /\ acceptor(c) # n /\ Runs(c)
    BY ConnEnds DEF ReadAccepted, Runs
  <1>2. OnlyAt(c, n)
    BY ActionsAreLocal DEF Active
  <1>3. /\ sess' = sess /\ pPc' = pPc /\ open' = open
        /\ toDialler[c] # <<>> /\ Head(toDialler[c]).type = "HSAccepted"
        /\ toDialler'[c] = Tail(toDialler[c])
        /\ toAcceptor'[c] = Append(toAcceptor[c], [type |-> "HSCompleted"])
        /\ \A d \in Conns : d # c => toAcceptor'[d] = toAcceptor[d] /\ toDialler'[d] = toDialler[d]
        /\ aPc[c] = "waitResp" /\ aPc'[c] = "waitAck"
        /\ es'[n] = activeAboutSuccess(es[n])
    BY <1>1, PairFacts DEF ReadAccepted, Receive
  <1>4. /\ toAcceptor[c] = <<>> /\ toDialler'[c] = <<>> /\ pPc[c] = "waitCompleted"
        /\ Started(c) /\ Accepted(c) /\ Accepted(c)' /\ Started(c)'
    BY <1>3, PairFacts DEF Linked, Started, Accepted, One
  <1>5. isEstablishing(es[n].active) /\ es[n] \in Est
    BY <1>1, RunningEst
  <1>6. /\ es'[n].passive = es[n].passive /\ es'[n].active.startTime = es[n].active.startTime
        /\ isEstablishing(es'[n].active) /\ (isEnd(es'[n]) <=> isEnd(es[n]))
    BY <1>3, <1>5, GoOnActiveOp
  <1>7. /\ isStarted(es[n].active) /\ isStarted(es'[n].active) /\ ~isFail(es[n].active)
        /\ es[n].active.state # 0
    BY <1>5, <1>6
    DEF isEstablishing, isFail, attemptIsEnd, establishFail, establishAboutSuccess, isStarted
  <1>8. One(toAcceptor'[c], "HSCompleted")
    BY <1>3, <1>4, OneMessage
  <1>9. MustBeOpen(c)
    BY DEF PairInv, OpenEnds, MustBeOpen
  <1>10. Linked(c)' /\ MustBeOpen(c)'
    BY <1>3, <1>4, <1>8, <1>9 DEF Linked, MustBeOpen, One
  <1> HIDE DEF n
  <1> QED
    BY <1>1, <1>2, <1>3, <1>4, <1>6, <1>7, <1>10, PairQuiet

LEMMA PairReadCompleted ==
    ASSUME IInv, PairInv, NEW c \in Conns, ReadCompleted(c)
    PROVE  PairInv' /\ sess' = sess
  <1> DEFINE n == acceptor(c)
  <1>1. n \in Nodes /\ dialler(c) # n
    BY ConnEnds
  <1>2. OnlyAt(c, n)
    BY ActionsAreLocal DEF Passive
  <1>3. /\ sess' = sess /\ es' = es /\ aPc' = aPc /\ open' = open
        /\ toAcceptor[c] # <<>> /\ Head(toAcceptor[c]).type = "HSCompleted"
        /\ toAcceptor'[c] = Tail(toAcceptor[c])
        /\ toDialler'[c] = Append(toDialler[c], [type |-> "HSCompletedAck"])
        /\ \A d \in Conns : d # c => toAcceptor'[d] = toAcceptor[d] /\ toDialler'[d] = toDialler[d]
        /\ pPc[c] = "waitCompleted" /\ pPc'[c] = "success"
    BY PairFacts DEF ReadCompleted, Receive
  <1>4. /\ toDialler[c] = <<>> /\ toAcceptor'[c] = <<>> /\ aPc[c] = "waitAck"
        /\ Started(c) /\ Accepted(c) /\ Accepted(c)' /\ Started(c)'
    BY <1>3, PairFacts DEF Linked, Started, Accepted, One
  <1>5. One(toDialler'[c], "HSCompletedAck")
    BY <1>3, <1>4, OneMessage
  <1>6. MustBeOpen(c)
    BY DEF PairInv, OpenEnds, MustBeOpen
  <1>7. Linked(c)' /\ MustBeOpen(c)'
    BY <1>3, <1>4, <1>5, <1>6 DEF Linked, MustBeOpen, One
  <1> HIDE DEF n
  <1> QED
    BY <1>1, <1>2, <1>3, <1>4, <1>7, PairQuiet

LEMMA PairOnPassiveConn ==
    ASSUME IInv, PairInv, NEW c \in Conns, OnPassiveConn(c)
    PROVE  PairInv' /\ sess' = sess
  <1> DEFINE n == acceptor(c)
             t == Head(toAcceptor[c]).time
  <1>1. n \in Nodes /\ dialler(c) \in Nodes /\ dialler(c) # n /\ es[n] \in Est
    BY ConnEnds, PairFacts
  <1>2. OnlyAt(c, n)
    BY ActionsAreLocal DEF Passive
  <1>3. /\ sess' = sess /\ aPc' = aPc
        /\ toAcceptor[c] # <<>> /\ Head(toAcceptor[c]).type = "HSApply"
        /\ toAcceptor'[c] = Tail(toAcceptor[c])
        /\ \A d \in Conns : d # c => /\ toAcceptor'[d] = toAcceptor[d]
                                     /\ toDialler'[d] = toDialler[d]
                                     /\ open'[d] = open[d]
        /\ pPc[c] = "accept" /\ es'[dialler(c)] = es[dialler(c)]
    BY <1>1, PairFacts DEF OnPassiveConn, Receive, Shut
  <1>4. /\ aPc[c] = "waitResp" /\ toDialler[c] = <<>> /\ toAcceptor'[c] = <<>>
        /\ t = es[dialler(c)].active.startTime
        /\ Started(c) /\ Started(c)' /\ ~Accepted(c)
    BY <1>3, PairFacts DEF Linked, Started, Accepted, One
  <1>5. Runs(c) /\ sess[dialler(c)] = None /\ t \in Times
    BY <1>4, RunningEst DEF Runs
  <1>6. MustBeOpen(c)
    BY DEF PairInv, OpenEnds, MustBeOpen
  <1>7. CASE sess[n] = None /\ canStartPassive(es[n])
    <2>1. /\ pPc'[c] = "waitCompleted" /\ open' = open
          /\ toDialler'[c] = Append(toDialler[c], [type |-> "HSAccepted"])
          /\ es'[n] = startPassive(es[n], t)
      BY <1>1, <1>7, PairFacts DEF OnPassiveConn
    <2> HIDE DEF t
    <2>2. /\ es'[n].active = es[n].active /\ es'[n].passive.startTime = t
          /\ isEnd(es'[n]) <=> isEnd(es[n])
      <3> DEFINE f == startPassive(es[n], t)
      <3>1. f.active = es[n].active /\ f.passive.startTime = t /\ (isEnd(f) <=> isEnd(es[n]))
        BY <1>1, <1>5, <1>7, StartPassiveOp, ZenonT(30)
      <3>2. es'[n] = f
        BY <2>1
      <3> HIDE DEF f
      <3> QED BY <3>1, <3>2
    <2>3. es[n].passive.state \in 0 .. 1
      BY <1>1, <1>7, EstFields DEF canStartPassive, canChangeState, establishHandshake
    <2>4. ASSUME NEW d \in Conns, Accepted(d), acceptor(d) = n
          PROVE  FALSE
      <3>1. Handles(d) \/ pPc[d] = "won"
        BY <2>4 DEF Accepted, Handles
      <3>2. es[n].passive.state \in {establishHandshake, establishSuccess}
        BY <1>7, <2>4, <3>1, PassiveStates DEF isSuccess
      <3> QED
        BY <2>3, <3>2 DEF establishHandshake, establishSuccess
    <2>5. One(toDialler'[c], "HSAccepted")
      BY <1>4, <2>1, OneMessage
    <2>6. Linked(c)' /\ MustBeOpen(c)' /\ Accepted(c)'
      BY <1>3, <1>4, <1>6, <2>1, <2>5 DEF Linked, MustBeOpen, One, Accepted
    <2>7. PairInv'
      <3> HIDE DEF n
      <3> QED
        BY <1>1, <1>2, <1>3, <1>4, <1>5, <1>7, <2>1, <2>2, <2>4, <2>6, PairQuiet DEF n
    <2> QED
      BY <1>3, <2>7
  <1>8. CASE ~(sess[n] = None /\ canStartPassive(es[n]))
    <2>1. /\ pPc'[c] = "lost" /\ es' = es
          /\ toDialler'[c] = Append(toDialler[c], [type |-> "HSRejected"])
      BY <1>1, <1>8, PairFacts DEF OnPassiveConn
    <2>2. sess[n] # None
      <3> SUFFICES ASSUME sess[n] = None
                   PROVE  canStartPassive(es[n])
        BY <1>8
      <3>1. ~isEnd(es[n])
        BY <1>1 DEF PairInv, Known
      <3>2. ASSUME es[n].passive.state # 0
            PROVE  FALSE
        <4>1. PICK d \in Conns : acceptor(d) = n /\ Accepted(d)
          BY <1>1, <3>2 DEF PairInv, Known
        <4>2. Started(d) /\ dialler(d) = dialler(c)
          BY <4>1, LinkFacts, ConnEnds
        <4>3. d = c
          BY <1>4, <4>2 DEF PairInv, OneCall
        <4> QED
          BY <1>4, <4>1, <4>3
      <3> QED
        BY <3>1, <3>2 DEF canStartPassive, canChangeState, establishHandshake
    <2>3. One(toDialler'[c], "HSRejected")
      BY <1>4, <2>1, OneMessage
    <2>4. Linked(c)' /\ ~Accepted(c)'
      BY <1>3, <1>4, <2>1, <2>3 DEF Linked, One, Accepted
    <2>5. MustBeOpen(c)'
      <3>1. "dialler" \in open'[c]
        BY <1>1, <1>4, <1>6, <1>8, PairFacts DEF OnPassiveConn, Shut, MustBeOpen
      <3> QED
        BY <2>1, <3>1 DEF MustBeOpen
    <2>6. PairInv'
      <3> HIDE DEF n
      <3> QED
        BY <1>1, <1>2, <1>3, <1>4, <1>5, <2>1, <2>2, <2>4, <2>5, PairQuiet DEF n
    <2> QED
      BY <1>3, <2>6
  <1> QED
    BY <1>7, <1>8

(* The end of an attempt, whether the other one is over or not. *)
LEMMA PairReadCompletedAck ==
    ASSUME IInv, PairInv, NEW c \in Conns, ReadCompletedAck(c)
    PROVE  PairInv' /\ (sess' = sess \/ \E n \in Nodes : Keeping(n))
  <1> DEFINE n == dialler(c)
             e == activeSuccess(es[n], c)
  <1>1. n \in Nodes /\ acceptor(c) # n /\ Runs(c)
    BY ConnEnds DEF ReadCompletedAck, Runs
  <1>2. OnlyAt(c, n)
    BY ActionsAreLocal DEF Active
  <1>3. /\ pPc' = pPc /\ toAcceptor' = toAcceptor
        /\ toDialler[c] # <<>> /\ Head(toDialler[c]).type = "HSCompletedAck"
        /\ toDialler'[c] = Tail(toDialler[c])
        /\ \A d \in Conns : d # c => toDialler'[d] = toDialler[d]
        /\ aPc[c] = "waitAck" /\ aPc'[c] = "won"
        /\ attemptOver(n, e, e.passive, open)
    BY <1>1, PairFacts DEF ReadCompletedAck, Receive
  <1>4. /\ toAcceptor[c] = <<>> /\ toDialler'[c] = <<>> /\ pPc[c] \in {"success", "won"}
        /\ Started(c) /\ Accepted(c) /\ Accepted(c)' /\ Started(c)'
    BY <1>3, PairFacts DEF Linked, Started, Accepted, One
  <1>5. isEstablishing(es[n].active) /\ es[n] \in Est /\ sess[n] = None
    BY <1>1, RunningEst
  <1>6. /\ e \in Est /\ e.passive = es[n].passive
        /\ e.active.conn = c /\ isSuccess(e.active)
        /\ e.active.startTime = es[n].active.startTime /\ (isEnd(e) <=> isEnd(es[n]))
    BY <1>5, ActiveSuccessOp
  <1> HIDE DEF e
  <1>7. /\ isStarted(es[n].active) /\ isStarted(e.active) /\ ~isFail(es[n].active)
        /\ es[n].active.state # 0 /\ ~isEstablishing(e.active)
    BY <1>5, <1>6
    DEF isEstablishing, isFail, attemptIsEnd, establishFail, establishAboutSuccess, isStarted,
        isSuccess, establishSuccess
  <1>8. Linked(c)'
    BY <1>3, <1>4 DEF Linked
  <1>9. CASE isEstablishing(e.passive)
    <2>1. sess' = sess /\ open' = open /\ es'[n] = e
      BY <1>1, <1>3, <1>9, PairFacts DEF attemptOver
    <2>2. MustBeOpen(c)'
      BY <1>3, <1>4, <2>1 DEF PairInv, OpenEnds, MustBeOpen
    <2>3. PairInv'
      <3> HIDE DEF n
      <3> QED
        BY <1>1, <1>2, <1>3, <1>4, <1>6, <1>7, <1>8, <2>1, <2>2, PairQuiet
    <2> QED
      BY <2>1, <2>3
  <1>10. CASE ~isEstablishing(e.passive)
    <2>1. establishEnd(n, e, open)
      BY <1>3, <1>10 DEF attemptOver
    <2>2. ASSUME NEW d \in Conns, dialler(d) = n, Started(d)
          PROVE  d = c
      BY <1>4, <2>2 DEF PairInv, OneCall
    <2>3. ASSUME NEW d \in Conns, acceptor(d) = n, Accepted(d)
          PROVE  isSuccess(e.passive) /\ e.passive.conn = d /\ pPc'[d] = "won"
      BY <1>3, <1>5, <1>6, <1>10, <2>3, PassiveStates DEF Accepted, Handles
    <2>4. Over(n, e)
      <3> HIDE DEF n
      <3> QED
        BY <1>3, <1>4, <1>6, <1>7, <1>10, <2>2, <2>3 DEF Over, n
    <2>5. \A d \in Conns : d # c => aPc'[d] = aPc[d]
      BY <1>2 DEF OnlyAt
    <2>6. open \in [Conns -> SUBSET Ends]
      BY PairFacts
    <2>7. PairInv' /\ Keeping(n)
      <3> HIDE DEF n
      <3> QED
        BY <1>1, <1>3, <1>4, <1>5, <1>6, <1>8, <2>1, <2>4, <2>5, <2>6, PairEnd DEF n
    <2> QED
      BY <1>1, <2>7
  <1> QED
    BY <1>9, <1>10

LEMMA PairActiveFail ==
    ASSUME IInv, PairInv, ~faulty, NEW c \in Conns, ActiveFail(c)
    PROVE  PairInv' /\ (sess' = sess \/ \E n \in Nodes : Keeping(n))
  <1> DEFINE n == dialler(c)
             e == activeFail(es[n])
             o == Shut(c, "dialler")
  <1>1. /\ n \in Nodes /\ acceptor(c) # n /\ aPc[c] = "waitResp" /\ pPc[c] = "lost"
        /\ Runs(c)
    BY ConnEnds, NothingFails DEF Runs
  <1>2. OnlyAt(c, n)
    BY ActionsAreLocal DEF Active
  <1>3. /\ pPc' = pPc /\ toAcceptor' = toAcceptor /\ toDialler' = toDialler
        /\ aPc'[c] = "lost" /\ attemptOver(n, e, e.passive, o)
    BY PairFacts DEF ActiveFail
  <1>4. /\ Started(c) /\ Started(c)' /\ ~Accepted(c) /\ ~Accepted(c)' /\ Linked(c)'
    BY <1>1, <1>3, PairFacts DEF Linked, Started, Accepted
  <1>5. isEstablishing(es[n].active) /\ es[n] \in Est /\ sess[n] = None
    BY <1>1, RunningEst
  <1>6. /\ e \in Est /\ e.passive = es[n].passive /\ isFail(e.active)
        /\ e.active.startTime = es[n].active.startTime /\ (isEnd(e) <=> isEnd(es[n]))
    BY <1>5, ActiveFailOp
  <1>7. o \in [Conns -> SUBSET Ends] /\ \A d \in Conns : d # c => o[d] = open[d]
    BY PairFacts DEF Shut
  <1> HIDE DEF e, o
  <1>8. /\ isStarted(es[n].active) /\ isStarted(e.active)
        /\ es[n].active.state # 0 /\ ~isEstablishing(e.active)
    BY <1>5, <1>6
    DEF isEstablishing, isFail, attemptIsEnd, establishFail, establishAboutSuccess, isStarted
  <1>9. CASE isEstablishing(e.passive)
    <2>1. sess' = sess /\ open' = o /\ es'[n] = e
      BY <1>1, <1>3, <1>9, PairFacts DEF attemptOver
    <2>2. MustBeOpen(c)' /\ sess[acceptor(c)] # None
      BY <1>1, <1>3 DEF PairInv, Rejecters, MustBeOpen
    <2>3. PairInv'
      <3> HIDE DEF n
      <3> QED
        BY <1>1, <1>2, <1>3, <1>4, <1>6, <1>7, <1>8, <2>1, <2>2, PairQuiet DEF n
    <2> QED
      BY <2>1, <2>3
  <1>10. CASE ~isEstablishing(e.passive)
    <2>1. establishEnd(n, e, o)
      BY <1>3, <1>10 DEF attemptOver
    <2>2. ASSUME NEW d \in Conns, dialler(d) = n, Started(d)
          PROVE  d = c
      BY <1>4, <2>2 DEF PairInv, OneCall
    <2>3. ASSUME NEW d \in Conns, acceptor(d) = n, Accepted(d)
          PROVE  isSuccess(e.passive) /\ e.passive.conn = d /\ pPc'[d] = "won"
      BY <1>3, <1>5, <1>6, <1>10, <2>3, PassiveStates DEF Accepted, Handles
    <2>4. Over(n, e)
      <3> HIDE DEF n
      <3> QED
        BY <1>1, <1>3, <1>4, <1>6, <1>8, <1>10, <2>2, <2>3 DEF Over, n
    <2>5. \A d \in Conns : d # c => aPc'[d] = aPc[d]
      BY <1>2 DEF OnlyAt
    <2>6. \A d \in Conns : \/ o[d] = open[d]
                           \/ pPc[d] = "lost" /\ pPc'[d] = "lost" /\ aPc'[d] = "lost"
      BY <1>1, <1>3, <1>7
    <2>7. PairInv' /\ Keeping(n)
      <3> HIDE DEF n
      <3> QED
        BY <1>1, <1>3, <1>4, <1>5, <1>6, <1>7, <2>1, <2>4, <2>5, <2>6, PairEnd DEF n
    <2> QED
      BY <1>1, <2>7
  <1> QED
    BY <1>9, <1>10

LEMMA PairPassiveSuccess ==
    ASSUME IInv, PairInv, NEW c \in Conns, PassiveSuccess(c)
    PROVE  PairInv' /\ (sess' = sess \/ \E n \in Nodes : Keeping(n))
  <1> DEFINE n == acceptor(c)
             e == passiveSuccess(es[n], c)
  <1>1. n \in Nodes /\ dialler(c) # n /\ Handles(c) /\ dialler(c) = Peer(n)
    BY ConnEnds, PeerPeer DEF PassiveSuccess, Handles
  <1>2. OnlyAt(c, n)
    BY ActionsAreLocal DEF Passive
  <1>3. /\ aPc' = aPc /\ toAcceptor' = toAcceptor /\ toDialler' = toDialler
        /\ pPc[c] = "success" /\ pPc'[c] = "won"
        /\ attemptOver(n, e, e.active, open)
    BY <1>1, PairFacts DEF PassiveSuccess
  <1>4. /\ aPc[c] \in {"waitAck", "won"} /\ Linked(c)'
        /\ Started(c) /\ Accepted(c) /\ Accepted(c)' /\ Started(c)'
    BY <1>3, PairFacts DEF Linked, Started, Accepted
  <1>5. isEstablishing(es[n].passive) /\ es[n] \in Est /\ sess[n] = None
    BY <1>1, HandlingEst
  <1>6. /\ e \in Est /\ e.active = es[n].active
        /\ e.passive.conn = c /\ isSuccess(e.passive)
        /\ e.passive.startTime = es[n].passive.startTime /\ (isEnd(e) <=> isEnd(es[n]))
    BY <1>5, PassiveSuccessOp
  <1> HIDE DEF e
  <1>7. /\ isStarted(es[n].passive) /\ isStarted(e.passive)
        /\ es[n].passive.state # 0 /\ ~isEstablishing(e.passive)
    BY <1>5, <1>6
    DEF isEstablishing, attemptIsEnd, establishAboutSuccess, isStarted, isSuccess, establishSuccess
  <1>8. CASE isEstablishing(e.active)
    <2>1. sess' = sess /\ open' = open /\ es'[n] = e
      BY <1>1, <1>3, <1>8, PairFacts DEF attemptOver
    <2>2. es'[dialler(c)] = es[dialler(c)]
      BY <1>1, <1>2, ConnEnds DEF OnlyAt
    <2>3. MustBeOpen(c)'
      BY <1>3, <1>4, <2>1 DEF PairInv, OpenEnds, MustBeOpen
    <2>4. aPc'[c] # "lost"
      BY <1>3, <1>4
    <2>5. PairInv'
      <3> HIDE DEF n
      <3> QED
        BY <1>1, <1>2, <1>3, <1>4, <1>6, <1>7, <2>1, <2>3, <2>4, PairQuiet
    <2> QED
      BY <2>1, <2>5
  <1>9. CASE ~isEstablishing(e.active)
    <2>1. establishEnd(n, e, open)
      BY <1>3, <1>9 DEF attemptOver
    <2>2. ASSUME NEW d \in Conns, acceptor(d) = n, Accepted(d)
          PROVE  d = c
      <3>1. Started(d) /\ dialler(d) = dialler(c)
        BY <1>1, <2>2, LinkFacts, ConnEnds
      <3> QED
        BY <1>4, <3>1 DEF PairInv, OneCall
    <2>3. ASSUME NEW d \in Conns, dialler(d) = n, Started(d)
          PROVE  \/ isFail(e.active) /\ aPc'[d] = "lost" /\ pPc[d] = "lost"
                 \/ /\ isSuccess(e.active) /\ e.active.conn = d
                    /\ aPc'[d] = "won" /\ aPc[d] \in {"waitAck", "won"} /\ Accepted(d)
      <3>1. aPc[d] \in {"won", "lost"}
        <4>1. ~Runs(d)
          BY <1>5, <1>6, <1>9, <2>3, ActiveStates
        <4> QED
          BY <2>3, <4>1, PairFacts DEF Started, Runs
      <3> QED
        BY <1>3, <1>5, <1>6, <2>3, <3>1, ActiveStates, LinkFacts DEF Accepted
    <2>4. Over(n, e)
      <3> HIDE DEF n
      <3> QED
        BY <1>1, <1>3, <1>4, <1>6, <1>7, <1>9, <2>2, <2>3 DEF Over, n
    <2>5. \A d \in Conns : d # c => pPc'[d] = pPc[d]
      BY <1>2 DEF OnlyAt
    <2>6. open \in [Conns -> SUBSET Ends]
      BY PairFacts
    <2>7. PairInv' /\ Keeping(n)
      <3> HIDE DEF n
      <3> QED
        BY <1>1, <1>3, <1>4, <1>5, <1>6, <2>1, <2>4, <2>5, <2>6, PairEnd DEF n
    <2> QED
      BY <1>1, <2>7
  <1> QED
    BY <1>8, <1>9

(* Every step, when nothing fails. *)
LEMMA PairStep ==
    ASSUME IInv, PairInv, ~faulty, [Next]_vars
    PROVE  PairInv' /\ (sess' = sess \/ \E n \in Nodes : Keeping(n))
  <1>1. CASE UNCHANGED vars
    BY <1>1 DEF vars, state, PairInv, Links, Linked, One, OneCall, OpenEnds, Rejecters, Known,
                SameTimes, Agree, Agreed, PrefersOwn, whichStartEarlier, Started, Accepted,
                isStarted, isFail, isEnd, dialler, acceptor
  <1>2. ASSUME NEW c \in Conns, Connect(c) \/ Active(c) \/ Passive(c)
        PROVE  PairInv' /\ (sess' = sess \/ \E n \in Nodes : Keeping(n))
    BY <1>2, NothingFails, PairConnect, PairDial, PairReadAccepted, PairReadCompletedAck,
       PairActiveFail, PairOnPassiveConn, PairReadCompleted, PairPassiveSuccess
    DEF Active, Passive
  <1> QED
    BY <1>1, <1>2, NothingFails, SessionsStay DEF Next

LEMMA PairBegins == ASSUME Init PROVE PairInv
  <1>1. /\ \A c \in Conns : /\ aPc[c] = "idle" /\ pPc[c] = "none"
                            /\ toAcceptor[c] = <<>> /\ toDialler[c] = <<>>
        /\ \A n \in Nodes : es[n] = NewEstablishment /\ sess[n] = None
    BY DEF Init
  <1>2. /\ NewEstablishment.active.state = 0 /\ NewEstablishment.passive.state = 0
        /\ ~isEnd(NewEstablishment)
    BY DEF NewEstablishment, NoAttempt, isEnd, establishmentEnd
  <1>3. \A c \in Conns : ~Started(c) /\ ~Accepted(c) /\ Linked(c)
    BY <1>1 DEF Started, Accepted, Linked
  <1>4. \A c \in Conns : dialler(c) \in Nodes /\ acceptor(c) \in Nodes
    BY ConnEnds
  <1>5. Links /\ OneCall /\ SameTimes
    BY <1>3 DEF Links, OneCall, SameTimes
  <1>6. OpenEnds /\ Rejecters
    BY <1>1 DEF OpenEnds, Rejecters
  <1>7. Known /\ Agree
    BY <1>1, <1>2 DEF Known, Agree
  <1> QED
    BY <1>5, <1>6, <1>7 DEF PairInv

-----------------------------------------------------------------------------
(* Theorems *)

(* The invariant of the behaviours in which nothing fails. *)
THEOREM PairInvariance == Spec => [](IInv /\ FInv)
  <1>1. Init => IInv /\ FInv
    BY InitInv, PairBegins DEF FInv
  <1>2. IInv /\ FInv /\ [Next]_vars => FInv'
    <2>1. [Next]_vars => faulty' = faulty
      BY DEF Next, vars
    <2> QED
      BY <2>1, PairStep DEF FInv
  <1>3. IInv /\ [Next]_vars => IInv'
    BY TypeStep, OwnersStep, MessagesStep, HoldersStep DEF IInv
  <1> QED
    BY <1>1, <1>2, <1>3, PTL DEF Spec

(* When nothing fails the two nodes keep one and the same connection,       *)
(* whoever dials first and whatever the clocks say: every establishEnd of   *)
(* either node is a step of PairConnection, every other step changes none   *)
(* of its state, and no session ends.                                       *)
THEOREM BothKeepTheSame == Spec => KeepSameConnection
  <1> DEFINE k == IF faulty THEN [n \in Nodes |-> None] ELSE sess
  <1>1. Init => Pair!Init
    BY DEF Init, Pair!Init
  <1>2. IInv /\ FInv /\ [Next]_vars => [Pair!Next]_k
    <2> SUFFICES ASSUME IInv, FInv, [Next]_vars
                 PROVE  [Pair!Next]_k
      OBVIOUS
    <2>1. faulty' = faulty
      BY DEF Next, vars
    <2>2. CASE faulty
      BY <2>1, <2>2
    <2>3. CASE ~faulty
      <3>1. sess' = sess \/ \E n \in Nodes : Keeping(n)
        BY <2>3, PairStep DEF FInv
      <3>2. ASSUME NEW n \in Nodes, Keeping(n)
            PROVE  Pair!Next
        <4>1. PICK x \in Conns : /\ sess[n] = None /\ sess[Peer(n)] \in {None, x}
                                 /\ sess' = [sess EXCEPT ![n] = x]
          BY <3>2 DEF Keeping
        <4>2. \A m \in Nodes : sess[m] \in {None, x}
          BY <4>1, PeerIs
        <4> QED
          BY <2>1, <2>3, <4>1, <4>2 DEF Pair!Next, Pair!Keep
      <3> QED
        BY <2>1, <2>3, <3>1, <3>2
    <2> QED
      BY <2>2, <2>3
  <1> QED
    BY <1>1, <1>2, PairInvariance, PTL DEF Spec, KeepSameConnection, Pair!Spec
=============================================================================
