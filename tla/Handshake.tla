------------------------------ MODULE Handshake ------------------------------
(***************************************************************************)
(* The handshake of net/service_establish.go and net/handshake.go between  *)
(* two services that may dial each other at the same time:                 *)
(*                                                                         *)
(*     dialler             acceptor                                        *)
(*        -- HSApply(time) -->                                             *)
(*        <-- HSAccepted / HSRejected --                                   *)
(*        -- HSCompleted -->                                               *)
(*        <-- HSCompletedAck --                                            *)
(*                                                                         *)
(* Each node makes up to MaxCalls Connect calls, one after the other: it   *)
(* dials again when an attempt has failed or a session has died, while the *)
(* other node may still be busy with the last one.  The connection that    *)
(* call k of node n dials is <<n, k>>; its handler runs at the other node. *)
(* Every node keeps one establishment for the other one, as in             *)
(* Establishing; an establishment that has ended is replaced by a fresh    *)
(* one, since its map entry is gone.  The races inside one node, between   *)
(* the looks at the maps and the locks, are those of ServiceEstablish:     *)
(* here a section under a mutex, with what leads to it, is one step.       *)
(* Name_Variant is a wrong version of Name.                                *)
(***************************************************************************)
EXTENDS Establishing, Sequences

CONSTANTS Nodes,     \* the two node ids, ordered as the ids are
          Times,     \* what the clocks may say when an attempt starts
          MaxCalls   \* how many Connect calls a node makes

ASSUME NodesAssumption == Nodes \subseteq Int /\ \E a, b \in Nodes : a # b /\ Nodes = {a, b}
ASSUME TimesAssumption == Times \subseteq Int
ASSUME MaxCallsAssumption == MaxCalls \in Nat

VARIABLES
    faulty,      \* may I/O time out or fail in this behaviour?
    es,          \* es[n]: the establishment of node n
    sess,        \* sess[n]: the connection node n has a live session on
    aPc,         \* aPc[c]: the active attempt on connection c, at its dialler
    pPc,         \* pPc[c]: its passive handler, at the other node
    open,        \* open[c]: the ends of connection c that are open
    toAcceptor,  \* toAcceptor[c], toDialler[c]: messages under way
    toDialler

state == <<es, sess, aPc, pPc, open, toAcceptor, toDialler>>
vars == <<faulty, state>>
net == <<open, toAcceptor, toDialler>>

Peer(n) == CHOOSE m \in Nodes : m # n

Conns == Nodes \X (1 .. MaxCalls)

ASSUME NoneAssumption == None \notin Conns

dialler(c) == c[1]
acceptor(c) == Peer(c[1])

Message == [type : {"HSApply"}, time : Times]
             \cup [type : {"HSAccepted", "HSRejected", "HSCompleted", "HSCompletedAck"}]

TypeOK ==
    /\ faulty \in BOOLEAN
    /\ es \in [Nodes -> Establishment(Conns, Times)]
    /\ sess \in [Nodes -> Conns \cup {None}]
    /\ aPc \in [Conns -> {"idle", "dial", "waitResp", "waitAck", "won", "lost", "none"}]
    /\ pPc \in [Conns -> {"none", "accept", "waitCompleted", "success", "won", "lost"}]
    /\ open \in [Conns -> SUBSET {"dialler", "acceptor"}]
    /\ toAcceptor \in [Conns -> Seq(Message)]
    /\ toDialler \in [Conns -> Seq(Message)]

Init ==
    /\ faulty \in BOOLEAN
    /\ es = [n \in Nodes |-> NewEstablishment]
    /\ sess = [n \in Nodes |-> None]
    /\ aPc = [c \in Conns |-> "idle"]
    /\ pPc = [c \in Conns |-> "none"]
    /\ open = [c \in Conns |-> {}]
    /\ toAcceptor = [c \in Conns |-> <<>>]
    /\ toDialler = [c \in Conns |-> <<>>]

-----------------------------------------------------------------------------
Shut(c, end_) == [open EXCEPT ![c] = @ \ {end_}]

EndAt(n, c) == IF n = dialler(c) THEN "dialler" ELSE "acceptor"

(* establishEnd at node n: a session on the kept connection, the other one *)
(* closed, the map entry gone; o is what is open otherwise.                *)
establishEnd(n, e, o) ==
    LET less    == n < Peer(n)
        kept    == keptConn(e, less)
        dropped == droppedConn(e, less)
    IN  /\ es' = [es EXCEPT ![n] = NewEstablishment]
        /\ sess' = IF kept = None THEN sess ELSE [sess EXCEPT ![n] = kept]
        /\ open' = IF dropped = None THEN o
                   ELSE [o EXCEPT ![dropped] = @ \ {EndAt(n, dropped)}]

(* Variant: an attempt leaves the end to one that is over already. *)
attemptOver_Lazy(n, e, other, o) ==
    IF isStarted(other)
    THEN es' = [es EXCEPT ![n] = e] /\ open' = o /\ UNCHANGED sess
    ELSE establishEnd(n, e, o)

(* An attempt of node n is over, which makes its establishment e. *)
attemptOver(n, e, other, o) ==
    IF isEstablishing(other)
    THEN es' = [es EXCEPT ![n] = e] /\ open' = o /\ UNCHANGED sess
    ELSE establishEnd(n, e, o)

Receive(chan, c, type) == chan[c] # <<>> /\ Head(chan[c]).type = type

(* Variant: no deadlines, only a broken connection is noticed. *)
ReadFails_NoDeadline(chan, c, otherEnd) == chan[c] = <<>> /\ otherEnd \notin open[c]

(* A read or write fails: by the deadline or a broken connection, or since *)
(* the other side has closed and nothing is left to read.                  *)
ReadFails(chan, c, otherEnd) == faulty \/ (chan[c] = <<>> /\ otherEnd \notin open[c])

-----------------------------------------------------------------------------
(* The active attempt of node n *)

(* Connect to startActive: with a session there is nothing to do, with a   *)
(* passive attempt under way the call waits for it.                        *)
Connect(c) ==
    LET n == dialler(c) IN
    /\ aPc[c] = "idle"
    /\ \A k \in 1 .. c[2] - 1 : aPc[<<n, k>>] \in {"won", "lost", "none"}
    /\ IF sess[n] = None /\ canStartActive(es[n])
       THEN /\ aPc' = [aPc EXCEPT ![c] = "dial"]
            /\ \E now \in Times : es' = [es EXCEPT ![n] = startActive(@, now)]
       ELSE aPc' = [aPc EXCEPT ![c] = "none"] /\ UNCHANGED es
    /\ UNCHANGED <<sess, pPc, net>>

(* activeEstablishConnect, startActiveHandshake and writeApply. *)
Dial(c) ==
    /\ aPc[c] = "dial"
    /\ aPc' = [aPc EXCEPT ![c] = "waitResp"]
    /\ pPc' = [pPc EXCEPT ![c] = "accept"]
    /\ open' = [open EXCEPT ![c] = {"dialler", "acceptor"}]
    /\ es' = [es EXCEPT ![dialler(c)] = startActiveHandshake(@)]
    /\ toAcceptor' = [toAcceptor EXCEPT
                         ![c] = Append(@, [type |-> "HSApply", time |-> es[dialler(c)].active.startTime])]
    /\ UNCHANGED <<sess, toDialler>>

(* Variant: completed is written and its ack not waited for. *)
ReadAccepted_NoAck(c) ==
    /\ aPc[c] = "waitResp"
    /\ Receive(toDialler, c, "HSAccepted")
    /\ toDialler' = [toDialler EXCEPT ![c] = Tail(@)]
    /\ toAcceptor' = [toAcceptor EXCEPT ![c] = Append(@, [type |-> "HSCompleted"])]
    /\ aPc' = [aPc EXCEPT ![c] = "won"]
    /\ LET e == activeSuccess(es[dialler(c)], c) IN attemptOver(dialler(c), e, e.passive, open)
    /\ UNCHANGED pPc

(* The apply is accepted: activeEstablishAboutSuccess, writeCompleted. *)
ReadAccepted(c) ==
    /\ aPc[c] = "waitResp"
    /\ Receive(toDialler, c, "HSAccepted")
    /\ toDialler' = [toDialler EXCEPT ![c] = Tail(@)]
    /\ es' = [es EXCEPT ![dialler(c)] = activeAboutSuccess(@)]
    /\ toAcceptor' = [toAcceptor EXCEPT ![c] = Append(@, [type |-> "HSCompleted"])]
    /\ aPc' = [aPc EXCEPT ![c] = "waitAck"]
    /\ UNCHANGED <<sess, pPc, open>>

(* The ack is read: activeEstablishSuccess. *)
ReadCompletedAck(c) ==
    /\ aPc[c] = "waitAck"
    /\ Receive(toDialler, c, "HSCompletedAck")
    /\ toDialler' = [toDialler EXCEPT ![c] = Tail(@)]
    /\ aPc' = [aPc EXCEPT ![c] = "won"]
    /\ LET e == activeSuccess(es[dialler(c)], c) IN attemptOver(dialler(c), e, e.passive, open)
    /\ UNCHANGED <<pPc, toAcceptor>>

(* Variant: the connection of a failed attempt stays open. *)
ActiveFail_LeftOpen(c) ==
    /\ \/ aPc[c] = "dial" /\ faulty
       \/ aPc[c] = "waitResp" /\ Receive(toDialler, c, "HSRejected")
       \/ aPc[c] \in {"waitResp", "waitAck"} /\ ReadFails(toDialler, c, "acceptor")
    /\ aPc' = [aPc EXCEPT ![c] = "lost"]
    /\ LET e == activeFail(es[dialler(c)]) IN attemptOver(dialler(c), e, e.passive, open)
    /\ UNCHANGED <<pPc, toAcceptor, toDialler>>

(* activeEstablishFail: rejected, or an I/O error. *)
ActiveFail(c) ==
    /\ \/ aPc[c] = "dial" /\ faulty
       \/ aPc[c] = "waitResp" /\ Receive(toDialler, c, "HSRejected")
       \/ aPc[c] \in {"waitResp", "waitAck"} /\ ReadFails(toDialler, c, "acceptor")
    /\ aPc' = [aPc EXCEPT ![c] = "lost"]
    /\ LET e == activeFail(es[dialler(c)])
       IN  attemptOver(dialler(c), e, e.passive, Shut(c, "dialler"))
    /\ UNCHANGED <<pPc, toAcceptor, toDialler>>

-----------------------------------------------------------------------------
(* The passive handler of connection c, at its acceptor *)

(* onPassiveConn and startPassiveEstablish: writeAccepted, or writeRejected *)
(* when there is a session or the establishment cannot take the attempt.    *)
OnPassiveConn(c) ==
    LET n == acceptor(c) IN
    /\ pPc[c] = "accept"
    /\ Receive(toAcceptor, c, "HSApply")
    /\ toAcceptor' = [toAcceptor EXCEPT ![c] = Tail(@)]
    /\ IF sess[n] = None /\ canStartPassive(es[n])
       THEN /\ pPc' = [pPc EXCEPT ![c] = "waitCompleted"]
            /\ es' = [es EXCEPT ![n] = startPassive(@, Head(toAcceptor[c]).time)]
            /\ toDialler' = [toDialler EXCEPT ![c] = Append(@, [type |-> "HSAccepted"])]
            /\ UNCHANGED open
       ELSE /\ pPc' = [pPc EXCEPT ![c] = "lost"]
            /\ toDialler' = [toDialler EXCEPT ![c] = Append(@, [type |-> "HSRejected"])]
            /\ open' = Shut(c, "acceptor")
            /\ UNCHANGED es
    /\ UNCHANGED <<sess, aPc>>

(* onPassiveConn: no apply arrives in time. *)
OnPassiveConnFails(c) ==
    /\ pPc[c] = "accept"
    /\ ReadFails(toAcceptor, c, "dialler")
    /\ pPc' = [pPc EXCEPT ![c] = "lost"]
    /\ open' = Shut(c, "acceptor")
    /\ UNCHANGED <<es, sess, aPc, toAcceptor, toDialler>>

(* passiveEstablishHandshake: completed is read, its ack written. *)
ReadCompleted(c) ==
    /\ pPc[c] = "waitCompleted"
    /\ Receive(toAcceptor, c, "HSCompleted")
    /\ toAcceptor' = [toAcceptor EXCEPT ![c] = Tail(@)]
    /\ toDialler' = [toDialler EXCEPT ![c] = Append(@, [type |-> "HSCompletedAck"])]
    /\ pPc' = [pPc EXCEPT ![c] = "success"]
    /\ UNCHANGED <<es, sess, aPc, open>>

(* The ack gets through although its write reports an error: the deadline   *)
(* may pass between the head and the empty payload (writeProto).            *)
WriteCompletedAckFails(c) ==
    LET n == acceptor(c) IN
    /\ faulty
    /\ pPc[c] = "waitCompleted"
    /\ Receive(toAcceptor, c, "HSCompleted")
    /\ toAcceptor' = [toAcceptor EXCEPT ![c] = Tail(@)]
    /\ toDialler' = [toDialler EXCEPT ![c] = Append(@, [type |-> "HSCompletedAck"])]
    /\ pPc' = [pPc EXCEPT ![c] = "lost"]
    /\ LET e == passiveFail(es[n])
       IN  attemptOver(n, e, e.active, Shut(c, "acceptor"))
    /\ UNCHANGED aPc

(* passiveEstablishSuccess. *)
PassiveSuccess(c) ==
    LET n == acceptor(c) IN
    /\ pPc[c] = "success"
    /\ pPc' = [pPc EXCEPT ![c] = "won"]
    /\ LET e == passiveSuccess(es[n], c) IN attemptOver(n, e, e.active, open)
    /\ UNCHANGED <<aPc, toAcceptor, toDialler>>

(* passiveEstablishFail. *)
PassiveFail(c) ==
    LET n == acceptor(c) IN
    /\ pPc[c] = "waitCompleted"
    /\ ReadFails(toAcceptor, c, "dialler")
    /\ pPc' = [pPc EXCEPT ![c] = "lost"]
    /\ LET e == passiveFail(es[n])
       IN  attemptOver(n, e, e.active, Shut(c, "acceptor"))
    /\ UNCHANGED <<aPc, toAcceptor, toDialler>>

-----------------------------------------------------------------------------
(* A session ends when the other side has closed, or on an I/O error. *)
SessionOnClosed(n) ==
    /\ sess[n] # None
    /\ faulty \/ EndAt(Peer(n), sess[n]) \notin open[sess[n]]
    /\ sess' = [sess EXCEPT ![n] = None]
    /\ open' = Shut(sess[n], EndAt(n, sess[n]))
    /\ UNCHANGED <<es, aPc, pPc, toAcceptor, toDialler>>

-----------------------------------------------------------------------------
(* The connection goes dead: what is under way one way is never delivered, *)
(* and as every message but the first answers one, nothing comes after it. *)
Lose(c) ==
    /\ faulty
    /\ \/ /\ toAcceptor[c] # <<>>
          /\ toAcceptor' = [toAcceptor EXCEPT ![c] = <<>>]
          /\ UNCHANGED toDialler
       \/ /\ toDialler[c] # <<>>
          /\ toDialler' = [toDialler EXCEPT ![c] = <<>>]
          /\ UNCHANGED toAcceptor
    /\ UNCHANGED <<es, sess, aPc, pPc, open>>

Active(c) == Dial(c) \/ ReadAccepted(c) \/ ReadCompletedAck(c) \/ ActiveFail(c)

Passive(c) == \/ OnPassiveConn(c) \/ OnPassiveConnFails(c) \/ ReadCompleted(c)
              \/ PassiveSuccess(c) \/ PassiveFail(c)

Next == /\ \/ \E c \in Conns : \/ Connect(c) \/ Active(c) \/ Passive(c)
                               \/ WriteCompletedAckFails(c) \/ Lose(c)
           \/ \E n \in Nodes : SessionOnClosed(n)
        /\ UNCHANGED faulty

(* A handshake read ends with a message or by its deadline; a session      *)
(* notices a closed connection, at the latest by its read deadline.        *)
NoticeClosed(n) == /\ sess[n] # None
                   /\ EndAt(Peer(n), sess[n]) \notin open[sess[n]]
                   /\ SessionOnClosed(n)

Fairness == /\ \A c \in Conns : WF_state(Active(c)) /\ WF_state(Passive(c))
            /\ \A n \in Nodes : WF_state(NoticeClosed(n))

Spec == Init /\ [][Next]_vars /\ Fairness

-----------------------------------------------------------------------------
(* Properties *)

(* When nothing fails, two services that dial each other, in any order and *)
(* with any clocks, keep one and the same connection.                      *)
Pair == INSTANCE PairConnection
            WITH Candidates <- Conns,
                 kept <- IF faulty THEN [n \in Nodes |-> None] ELSE sess
KeepSameConnection == Pair!Spec

(* When nothing fails, a Connect call ends with both nodes on a session.   *)
ConnectSucceeds ==
    ~faulty /\ (\E c \in Conns : aPc[c] # "idle") ~> \E c \in Conns : \A n \in Nodes : sess[n] = c

(* Whatever fails, an active attempt succeeds only on a connection whose   *)
(* passive side is past the point where it could fail, or has failed and   *)
(* closed its end: that is what HSCompleted and HSCompletedAck are for.    *)
ActiveSuccessBacked ==
    \A c \in Conns : aPc[c] = "won" => \/ pPc[c] \in {"success", "won"}
                                      \/ "acceptor" \notin open[c]

(* Whatever fails, a session is never left with a peer that holds on to    *)
(* the connection without a session on it: the other end has one, is going *)
(* to decide, or has closed the connection.                                *)
SessionHasPeer ==
    \A n \in Nodes :
        LET c == sess[n] m == Peer(n) IN
        c # None /\ EndAt(m, c) \in open[c] =>
            \/ sess[m] = c
            \/ IF m = dialler(c) THEN aPc[c] = "waitAck" \/ es[m].active.conn = c
                        ELSE pPc[c] = "success" \/ es[m].passive.conn = c

(* Whatever fails, the two nodes end up agreeing: for good, a node has a   *)
(* session only where its peer has one on the same connection.             *)
SplitHeals ==
    <>[](\A n \in Nodes : sess[n] # None => sess[Peer(n)] = sess[n])

(* Every attempt is settled, at both ends and for good: a timeout frees a  *)
(* handshake that hangs.                                                   *)
AttemptsSettle ==
    <>[](\A c \in Conns : /\ aPc[c] \in {"idle", "won", "lost", "none"}
                         /\ pPc[c] \in {"none", "won", "lost"})
=============================================================================
