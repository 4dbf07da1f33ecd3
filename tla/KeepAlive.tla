------------------------------ MODULE KeepAlive ------------------------------
(***************************************************************************)
(* The two ends of one session and their clocks: heartbeats of the active  *)
(* end, close requests of the passive end, read deadlines at both          *)
(* (net/session.go, net/session_packet_handler.go, net/session_io.go).     *)
(*                                                                         *)
(* The code compares time.Now() with times it has stored; the model keeps  *)
(* the age of each stored time, no further than anything asks.  Elapse is  *)
(* one unit of time at both ends, and waits for what may not be late: a    *)
(* packet arrives within MaxDelay (queue, write, network and read), a tick *)
(* is handled within MaxLag of its timer, a read ends by its deadline.     *)
(*                                                                         *)
(* The applications look the session up (GetSession), send packets that    *)
(* nobody answers and send requests, which the handler at the other end    *)
(* answers at once.  The connection may be cut without a sign, at any time. *)
(*                                                                         *)
(* Name_Variant is a wrong version of the definition Name.                 *)
(***************************************************************************)
EXTENDS Integers, Sequences, FiniteSets

CONSTANTS Configs,      \* what SessionConfig the services are created with
          MaxDelay,
          MaxLag,
          MaxUnderWay,  \* packets of the applications under way at one time
          Traffic,      \* who sends what: ends with "request" or "raw"
          Lookers       \* ends whose application calls GetSession

Ends == {"active", "passive"}

Peer(e) == IF e = "active" THEN "passive" ELSE "active"

(* SessionConfig.init: 0 asks for the default. *)
withDefaults(c) ==
    [c EXCEPT !.tick = IF @ = 0 THEN c.rwt \div 3 ELSE @,
              !.heartbeat = IF @ = 0 THEN c.rwt \div 2 ELSE @]

accepted(c) == /\ c.rwt > 0
               /\ c.tick <= c.rwt \div 3
               /\ c.heartbeat <= c.rwt \div 2
               /\ c.tick < c.heartbeat
               /\ c.inactive > c.rwt

Effective == {c \in {withDefaults(u) : u \in Configs} : accepted(c)}

ASSUME ConfigsAssumption ==
    Configs \subseteq [rwt : Nat, tick : Nat, heartbeat : Nat, inactive : Nat]

(* Scheduling and the network are fast enough for the margin between the   *)
(* heartbeats and the read deadline; StartTimer panics on a delay of 0.    *)
ASSUME DelayAssumption ==
    /\ MaxDelay \in Nat /\ MaxLag \in Nat
    /\ \A c \in Effective : /\ c.tick > MaxLag
                            /\ c.heartbeat + c.tick + MaxLag + 2 * MaxDelay < c.rwt

ASSUME TrafficAssumption == /\ MaxUnderWay \in Nat
                            /\ Traffic \subseteq Ends \X {"request", "raw"}
                            /\ Lookers \subseteq Ends

VARIABLES
    cfg,        \* the SessionConfig after init, the same at both ends
    state,      \* state[e]: session.state, with the reason of a close
    activeAge,  \* activeAge[e]: age of lastActiveTime, at most InactiveTimeout
    beatAge,    \* age of lastHeartbeatTime of the active end, or Never
    tickIn,     \* tickIn[e]: when the tick timer expires; late if negative
    readAge,    \* readAge[e]: how long the read under way at e has waited
    toward,     \* toward[e]: packets under way to e, with their ages
    cut         \* has the connection been cut?

vars == <<cfg, state, activeAge, beatAge, tickIn, readAge, toward, cut>>

Never == -1

App == {"request", "reply", "raw"}
Packet == [type : App \cup {"ping", "pong", "closeReq", "closeRefused", "eof"},
           age : 0 .. MaxDelay]

Started(e) == state[e] = "started"

TypeOK ==
    /\ cfg \in Effective
    /\ state \in [Ends -> {"started", "inactive", "deadline", "eof"}]
    /\ activeAge \in [Ends -> 0 .. cfg.inactive]
    /\ beatAge \in {Never} \cup 0 .. cfg.heartbeat
    /\ tickIn \in [Ends -> -MaxLag .. cfg.tick]
    /\ readAge \in [Ends -> 0 .. cfg.rwt]
    /\ toward \in [Ends -> Seq(Packet)]
    /\ cut \in BOOLEAN

(* session.start at both ends, within one tick of each other. *)
Init ==
    /\ cfg \in Effective
    /\ state = [e \in Ends |-> "started"]
    /\ activeAge = [e \in Ends |-> 0]
    /\ beatAge = Never
    /\ tickIn \in [Ends -> 1 .. cfg.tick]
    /\ readAge = [e \in Ends |-> 0]
    /\ toward = [e \in Ends |-> <<>>]
    /\ cut = FALSE

-----------------------------------------------------------------------------
Least(a, b) == IF a < b THEN a ELSE b

(* inactive(): the session has not been used for InactiveTimeout. *)
inactive(e) == activeAge[e] >= cfg.inactive

(* sendDirect without refresh; what is sent on a connection that is cut, or *)
(* whose other end is closed, is lost.                                     *)
Sent(types) == [i \in DOMAIN types |-> [type |-> types[i], age |-> 0]]
put(chan, e, types) ==
    IF cut \/ ~Started(Peer(e)) THEN chan ELSE [chan EXCEPT ![Peer(e)] = @ \o Sent(types)]

UnderWay(e) == Cardinality({i \in DOMAIN toward[e] : toward[e][i].type \in App})

(* close(): what is under way to this end is lost, of what it has sent a   *)
(* part may still arrive, and after that the end of the stream.            *)
close(e, reason, arrives) ==
    /\ state' = [state EXCEPT ![e] = reason]
    /\ toward' = IF cut THEN toward
                 ELSE [toward EXCEPT
                         ![e] = <<>>,
                         ![Peer(e)] = IF Started(Peer(e))
                                      THEN SubSeq(@, 1, arrives) \o Sent(<<"eof">>)
                                      ELSE <<>>]

-----------------------------------------------------------------------------
(* The applications *)

(* Variant: a packet that is sent does not count as a use of the session. *)
Send_NoRefresh(e, type) ==
    /\ Started(e) /\ UnderWay(e) + UnderWay(Peer(e)) < MaxUnderWay
    /\ toward' = put(toward, e, <<type>>)
    /\ UNCHANGED <<cfg, state, activeAge, beatAge, tickIn, readAge, cut>>

(* session.Send *)
Send(e, type) ==
    /\ Started(e) /\ UnderWay(e) + UnderWay(Peer(e)) < MaxUnderWay
    /\ toward' = put(toward, e, <<type>>)
    /\ activeAge' = [activeAge EXCEPT ![e] = 0]
    /\ UNCHANGED <<cfg, state, beatAge, tickIn, readAge, cut>>

(* GetSession, by way of keepActive. *)
Look(e) ==
    /\ Started(e)
    /\ activeAge' = [activeAge EXCEPT ![e] = 0]
    /\ UNCHANGED <<cfg, state, beatAge, tickIn, readAge, toward, cut>>

-----------------------------------------------------------------------------
(* session.tick, by the timer of the session *)

NextTick(e) == /\ tickIn[e] <= 0
               /\ tickIn' = [tickIn EXCEPT ![e] = @ + cfg.tick]

(* Variant: one heartbeat for a time without use. *)
TickActiveEnd_Once ==
    /\ Started("active") /\ NextTick("active")
    /\ IF activeAge["active"] < cfg.heartbeat
       THEN beatAge' = Never /\ UNCHANGED toward
       ELSE IF beatAge # Never
       THEN UNCHANGED <<beatAge, toward>>
       ELSE beatAge' = 0 /\ toward' = put(toward, "active", <<"ping">>)
    /\ UNCHANGED <<cfg, state, activeAge, readAge, cut>>

(* Variant: a heartbeat that is sent puts off the read deadline. *)
TickActiveEnd_Deadline ==
    /\ Started("active") /\ NextTick("active")
    /\ IF activeAge["active"] < cfg.heartbeat
       THEN beatAge' = Never /\ UNCHANGED <<toward, readAge>>
       ELSE IF beatAge # Never /\ beatAge < cfg.heartbeat
       THEN UNCHANGED <<beatAge, toward, readAge>>
       ELSE /\ beatAge' = 0
            /\ toward' = put(toward, "active", <<"ping">>)
            /\ readAge' = [readAge EXCEPT !["active"] = 0]
    /\ UNCHANGED <<cfg, state, activeAge, cut>>

(* Variant: the time of the last use is kept as that of the heartbeat. *)
TickActiveEnd_WrongTime ==
    /\ Started("active") /\ NextTick("active")
    /\ IF activeAge["active"] < cfg.heartbeat
       THEN beatAge' = Never /\ UNCHANGED toward
       ELSE IF beatAge # Never /\ beatAge < cfg.heartbeat
       THEN UNCHANGED <<beatAge, toward>>
       ELSE /\ beatAge' = activeAge["active"]
            /\ toward' = put(toward, "active", <<"ping">>)
    /\ UNCHANGED <<cfg, state, activeAge, readAge, cut>>

TickActiveEnd ==
    /\ Started("active") /\ NextTick("active")
    /\ IF activeAge["active"] < cfg.heartbeat
       THEN beatAge' = Never /\ UNCHANGED toward
       ELSE IF beatAge # Never /\ beatAge < cfg.heartbeat
       THEN UNCHANGED <<beatAge, toward>>
       ELSE beatAge' = 0 /\ toward' = put(toward, "active", <<"ping">>)
    /\ UNCHANGED <<cfg, state, activeAge, readAge, cut>>

TickPassiveEnd ==
    /\ Started("passive") /\ NextTick("passive")
    /\ toward' = IF inactive("passive") THEN put(toward, "passive", <<"closeReq">>)
                 ELSE toward
    /\ UNCHANGED <<cfg, state, activeAge, beatAge, readAge, cut>>

-----------------------------------------------------------------------------
(* SessionReadPacket and the packet handlers *)

Arrives(e, types) ==
    /\ Started(e) /\ toward[e] # <<>> /\ Head(toward[e]).type \in types
    /\ readAge' = [readAge EXCEPT ![e] = 0]

Taken(e) == [toward EXCEPT ![e] = Tail(@)]

(* Variant: whatever arrives counts as a use of the session. *)
sessionHandleHeartbeat_Refresh(e) ==
    /\ Arrives(e, {"ping", "pong"})
    /\ toward' = IF Head(toward[e]).type = "ping" THEN put(Taken(e), e, <<"pong">>)
                 ELSE Taken(e)
    /\ activeAge' = [activeAge EXCEPT ![e] = 0]
    /\ UNCHANGED <<cfg, state, beatAge, tickIn, cut>>

(* A ping is answered by a pong; neither counts as a use of the session. *)
sessionHandleHeartbeat(e) ==
    /\ Arrives(e, {"ping", "pong"})
    /\ toward' = IF Head(toward[e]).type = "ping" THEN put(Taken(e), e, <<"pong">>)
                 ELSE Taken(e)
    /\ UNCHANGED <<cfg, state, activeAge, beatAge, tickIn, cut>>

(* The application's handler answers a request before it returns. *)
sessionHandleRaw(e) ==
    /\ Arrives(e, App)
    /\ activeAge' = [activeAge EXCEPT ![e] = 0]
    /\ toward' = IF Head(toward[e]).type = "request" THEN put(Taken(e), e, <<"reply">>)
                 ELSE Taken(e)
    /\ UNCHANGED <<cfg, state, beatAge, tickIn, cut>>

(* Close, unless this end has used the session within InactiveTimeout. *)
sessionHandleCloseReq(e) ==
    /\ Arrives(e, {"closeReq"})
    /\ IF inactive(e)
       THEN \E n \in 0 .. Len(toward[Peer(e)]) : close(e, "inactive", n)
       ELSE toward' = put(Taken(e), e, <<"closeRefused">>) /\ UNCHANGED state
    /\ UNCHANGED <<cfg, activeAge, beatAge, tickIn, cut>>

(* A refusal has no effect, and no end sends a response that passes. *)
sessionHandleCloseResp(e) ==
    /\ Arrives(e, {"closeRefused"})
    /\ toward' = Taken(e)
    /\ UNCHANGED <<cfg, state, activeAge, beatAge, tickIn, cut>>

(* The read fails at the end of the stream, and the core closes. *)
ReadEof(e) ==
    /\ Arrives(e, {"eof"})
    /\ \E n \in 0 .. Len(toward[Peer(e)]) : close(e, "eof", n)
    /\ UNCHANGED <<cfg, activeAge, beatAge, tickIn, cut>>

(* ... or by its deadline. *)
ReadDeadline(e) ==
    /\ Started(e) /\ readAge[e] = cfg.rwt
    /\ \E n \in 0 .. Len(toward[Peer(e)]) : close(e, "deadline", n)
    /\ UNCHANGED <<cfg, activeAge, beatAge, tickIn, readAge, cut>>

-----------------------------------------------------------------------------
(* Time and the network *)

Elapse ==
    /\ \A e \in Ends : Started(e) =>
          /\ tickIn[e] > -MaxLag
          /\ readAge[e] < cfg.rwt
          /\ \A i \in DOMAIN toward[e] : toward[e][i].age < MaxDelay
    /\ \E e \in Ends : Started(e)
    /\ activeAge' = [e \in Ends |-> IF Started(e) THEN Least(activeAge[e] + 1, cfg.inactive)
                                    ELSE activeAge[e]]
    /\ beatAge' = IF beatAge = Never \/ ~Started("active") THEN beatAge
                  ELSE Least(beatAge + 1, cfg.heartbeat)
    /\ tickIn' = [e \in Ends |-> IF Started(e) THEN tickIn[e] - 1 ELSE tickIn[e]]
    /\ readAge' = [e \in Ends |-> IF Started(e) THEN readAge[e] + 1 ELSE readAge[e]]
    /\ toward' = [e \in Ends |-> [i \in DOMAIN toward[e] |-> [toward[e][i] EXCEPT !.age = @ + 1]]]
    /\ UNCHANGED <<cfg, state, cut>>

Cut == /\ ~cut
       /\ cut' = TRUE
       /\ toward' = [e \in Ends |-> <<>>]
       /\ UNCHANGED <<cfg, state, activeAge, beatAge, tickIn, readAge>>

Use == \/ \E t \in Traffic : Send(t[1], t[2])
       \/ \E e \in Lookers : Look(e)

Step(e) == \/ sessionHandleHeartbeat(e) \/ sessionHandleRaw(e)
           \/ sessionHandleCloseReq(e) \/ sessionHandleCloseResp(e)
           \/ ReadEof(e) \/ ReadDeadline(e)

Next == Use \/ TickActiveEnd \/ TickPassiveEnd \/ (\E e \in Ends : Step(e)) \/ Elapse \/ Cut

(* Time goes on and does not wait for ever; what is due is done. *)
Fairness == /\ WF_vars(Elapse)
            /\ WF_vars(TickActiveEnd) /\ WF_vars(TickPassiveEnd)
            /\ \A e \in Ends : WF_vars(Step(e))

Spec == Init /\ [][Next]_vars /\ Fairness

-----------------------------------------------------------------------------
(* Properties *)

(* The read deadline closes a session only when the connection has been    *)
(* cut: heartbeats keep an idle session alive, and one that is used by     *)
(* requests and replies.  The heartbeat is there to keep the connection    *)
(* alive ("定期通知对端保持连接的活跃", session.go:52-53).                  *)
DeadlineMeansCut == \A e \in Ends : state[e] = "deadline" => cut

(* A session that is closed because it is inactive loses nothing that the  *)
(* end which closes it has accepted for sending.                           *)
InactiveCloseLosesNothing ==
    [][\A e \in Ends : Started(e) /\ state'[e] = "inactive" => UnderWay(Peer(e)) = 0]_vars

(* A session that nobody uses any more is closed, at both ends. *)
IdleIsClosed == <>[][~Use]_vars => <>(\A e \in Ends : ~Started(e))

(* An end whose peer has closed, or whose connection is cut, notices. *)
LossIsNoticed ==
    \A e \in Ends : cut \/ ~Started(Peer(e)) ~> ~Started(e)
=============================================================================
