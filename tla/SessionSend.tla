----------------------------- MODULE SessionSend -----------------------------
(***************************************************************************)
(* The sending half of a session (net/session.go, net/session_io.go):      *)
(* senders put packets into a bounded queue, the write loop of the core    *)
(* asks SessionPendingPacket for the next one and has SessionWritePacket   *)
(* write it through a batching buffer, and the session may be closed at    *)
(* any moment.                                                             *)
(*                                                                         *)
(* No lock is involved: the write loop announces in waitNotify that it is  *)
(* going to sleep, and a sender that sees this leaves a token in a channel *)
(* of capacity one.  Every access of the queue, of waitNotify and of the   *)
(* channels is a step of its own.                                          *)
(*                                                                         *)
(* The core (gnet.Session) and the queue (gmpsc.Queue) are libraries: the  *)
(* write loop is SessionPendingPacket and SessionWritePacket in turn until *)
(* one of them fails, and a closed queue takes nothing more and may, or    *)
(* may not, still give what it holds.                                      *)
(*                                                                         *)
(* Name_Variant is a wrong version of the action Name.                     *)
(***************************************************************************)
EXTENDS Sequences, Naturals

CONSTANTS Senders,                 \* goroutines that call Send
          PacketsPerSender,        \* how often each of them calls it
          PendingPacketQueueSize,
          None

ASSUME PacketsPerSenderAssumption == PacketsPerSender \in Nat
ASSUME QueueSizeAssumption == PendingPacketQueueSize \in Nat \ {0}

Packets == Senders \X (1 .. PacketsPerSender)

ASSUME NoneAssumption == None \notin Packets

VARIABLES
    closePc,        \* progress of session.close; "none": the session is started
    queue,          \* pendingPackets
    waitNotify,     \* is the write loop going to sleep?
    notify,         \* is there a token in pendingPacketsNotify?
    sPc,            \* sPc[s]: where sender s is in sendDirect
    calls,          \* calls[s]: how often sender s has called Send
    wPc,            \* where the write loop is
    cur,            \* the packet it has dequeued
    more,           \* what SessionPendingPacket said of the queue
    writeBuffer,    \* packets written to the buffer only
    wire            \* packets written to the connection

vars == <<closePc, queue, waitNotify, notify, sPc, calls, wPc, cur, more,
          writeBuffer, wire>>
writer == <<wPc, cur, more, writeBuffer, wire>>
sender == <<sPc, calls>>

TypeOK ==
    /\ closePc \in {"none", "chClose", "core", "queue", "done"}
    /\ queue \in Seq(Packets) /\ Len(queue) <= PendingPacketQueueSize
    /\ waitNotify \in BOOLEAN
    /\ notify \in BOOLEAN
    /\ sPc \in [Senders -> {"idle", "enqueue", "load", "notify"}]
    /\ calls \in [Senders -> 0 .. PacketsPerSender]
    /\ wPc \in {"dequeue", "clear", "ready", "write", "announce", "dequeue2",
                "wait", "failed", "done"}
    /\ cur \in Packets \cup {None}
    /\ more \in BOOLEAN
    /\ writeBuffer \in Seq(Packets)
    /\ wire \in Seq(Packets)

Init ==
    /\ closePc = "none"
    /\ queue = <<>>
    /\ waitNotify = FALSE
    /\ notify = FALSE
    /\ sPc = [s \in Senders |-> "idle"]
    /\ calls = [s \in Senders |-> 0]
    /\ wPc = "dequeue"
    /\ cur = None
    /\ more = FALSE
    /\ writeBuffer = <<>>
    /\ wire = <<>>

Started    == closePc = "none"
ChClosed   == closePc \in {"core", "queue", "done"}
CoreClosed == closePc \in {"queue", "done"}
QueueClosed == closePc = "done"

-----------------------------------------------------------------------------
(* session.send and sendDirect, in sender s *)

GotoS(s, l) == sPc' = [sPc EXCEPT ![s] = l]

(* checkState, without a lock. *)
Send(s) ==
    /\ sPc[s] = "idle" /\ calls[s] < PacketsPerSender
    /\ calls' = [calls EXCEPT ![s] = @ + 1]
    /\ GotoS(s, IF Started THEN "enqueue" ELSE "idle")
    /\ UNCHANGED <<closePc, queue, waitNotify, notify, writer>>

(* Variant: a full queue takes one more. *)
Enqueue_OneMore(s) ==
    /\ sPc[s] = "enqueue"
    /\ IF Len(queue) <= PendingPacketQueueSize /\ ~QueueClosed
       THEN queue' = Append(queue, <<s, calls[s]>>) /\ GotoS(s, "load")
       ELSE GotoS(s, "idle") /\ UNCHANGED queue
    /\ UNCHANGED <<closePc, waitNotify, notify, calls, writer>>

(* Enqueue: the packet is refused when the queue is full or closed. *)
Enqueue(s) ==
    /\ sPc[s] = "enqueue"
    /\ IF Len(queue) < PendingPacketQueueSize /\ ~QueueClosed
       THEN queue' = Append(queue, <<s, calls[s]>>) /\ GotoS(s, "load")
       ELSE GotoS(s, "idle") /\ UNCHANGED queue
    /\ UNCHANGED <<closePc, waitNotify, notify, calls, writer>>

LoadWaitNotify(s) ==
    /\ sPc[s] = "load"
    /\ GotoS(s, IF waitNotify THEN "notify" ELSE "idle")
    /\ UNCHANGED <<closePc, queue, waitNotify, notify, calls, writer>>

(* The token, unless there is one. *)
Notify(s) ==
    /\ sPc[s] = "notify"
    /\ notify' = TRUE
    /\ GotoS(s, "idle")
    /\ UNCHANGED <<closePc, queue, waitNotify, calls, writer>>

-----------------------------------------------------------------------------
(* SessionPendingPacket, in the write loop *)

(* A Dequeue that goes to l when it finds nothing. *)
Dequeue(l) ==
    /\ \/ /\ queue # <<>>
          /\ cur' = Head(queue)
          /\ queue' = Tail(queue)
          /\ wPc' = "clear"
       \/ /\ queue = <<>> \/ QueueClosed
          /\ wPc' = l
          /\ UNCHANGED <<cur, queue>>
    /\ UNCHANGED <<closePc, waitNotify, notify, sender, more, writeBuffer, wire>>

FirstDequeue == wPc = "dequeue" /\ Dequeue("announce")

(* Variant: no second look at the queue once waitNotify is set. *)
Announce_NoSecondLook ==
    /\ wPc = "announce"
    /\ waitNotify' = TRUE
    /\ wPc' = "wait"
    /\ UNCHANGED <<closePc, queue, notify, sender, cur, more, writeBuffer, wire>>

(* waitNotify.Store(true) *)
Announce ==
    /\ wPc = "announce"
    /\ waitNotify' = TRUE
    /\ wPc' = "dequeue2"
    /\ UNCHANGED <<closePc, queue, notify, sender, cur, more, writeBuffer, wire>>

SecondDequeue == wPc = "dequeue2" /\ Dequeue("wait")

(* waitNotify.Store(false) *)
Clear ==
    /\ wPc = "clear"
    /\ waitNotify' = FALSE
    /\ wPc' = "ready"
    /\ UNCHANGED <<closePc, queue, notify, sender, cur, more, writeBuffer, wire>>

(* Ready() > 0 *)
Ready ==
    /\ wPc = "ready"
    /\ more' = (queue # <<>>)
    /\ wPc' = "write"
    /\ UNCHANGED <<closePc, queue, waitNotify, notify, sender, cur, writeBuffer, wire>>

WaitNotified ==
    /\ wPc = "wait" /\ notify
    /\ notify' = FALSE
    /\ wPc' = "dequeue"
    /\ UNCHANGED <<closePc, queue, waitNotify, sender, cur, more, writeBuffer, wire>>

(* Variant: the wait does not end with the session. *)
WaitClosed_Deaf == FALSE /\ UNCHANGED vars

WaitClosed ==
    /\ wPc = "wait" /\ ChClosed
    /\ wPc' = "done"
    /\ UNCHANGED <<closePc, queue, waitNotify, notify, sender, cur, more,
                   writeBuffer, wire>>

-----------------------------------------------------------------------------
(* SessionWritePacket, in the write loop *)

(* Variant: the last packet of a batch is not flushed. *)
Write_NoFlush ==
    /\ wPc = "write" /\ ~CoreClosed
    /\ \/ writeBuffer' = Append(writeBuffer, cur) /\ UNCHANGED wire
       \/ wire' = Append(wire \o writeBuffer, cur) /\ writeBuffer' = <<>>
    /\ cur' = None
    /\ wPc' = "dequeue"
    /\ UNCHANGED <<closePc, queue, waitNotify, notify, sender, more>>

(* Variant: a packet that leaves no room is written past the buffer. *)
Write_PastBuffer ==
    /\ wPc = "write" /\ ~CoreClosed
    /\ \/ more /\ writeBuffer' = Append(writeBuffer, cur) /\ UNCHANGED wire
       \/ more /\ wire' = Append(wire, cur) /\ UNCHANGED writeBuffer
       \/ wire' = Append(wire \o writeBuffer, cur) /\ writeBuffer' = <<>>
    /\ cur' = None
    /\ wPc' = "dequeue"
    /\ UNCHANGED <<closePc, queue, waitNotify, notify, sender, more>>

(* The head and the payload go to the buffer.  For want of room, by the    *)
(* batch limits or, when no packet is ready, at the end, the buffer is     *)
(* flushed: before the packet is in it as a whole, after, both or neither. *)
Write ==
    /\ wPc = "write"
    /\ \/ more /\ writeBuffer' = Append(writeBuffer, cur) /\ UNCHANGED wire
       \/ more /\ ~CoreClosed /\ writeBuffer' = <<cur>> /\ wire' = wire \o writeBuffer
       \/ ~CoreClosed /\ wire' = Append(wire \o writeBuffer, cur) /\ writeBuffer' = <<>>
    /\ cur' = None
    /\ wPc' = "dequeue"
    /\ UNCHANGED <<closePc, queue, waitNotify, notify, sender, more>>

(* A flush fails: by the deadline, or since the connection is gone.  What  *)
(* was in the buffer may have got through up to some packet.               *)
WriteFails ==
    /\ wPc = "write"
    /\ \E n \in 0 .. Len(writeBuffer) :
          /\ wire' = wire \o SubSeq(writeBuffer, 1, n)
          /\ writeBuffer' = SubSeq(writeBuffer, n + 1, Len(writeBuffer))
    /\ wPc' = "failed"
    /\ UNCHANGED <<closePc, queue, waitNotify, notify, sender, cur, more>>

-----------------------------------------------------------------------------
(* session.close *)

(* The state; whoever comes later returns. *)
Close == /\ closePc = "none"
         /\ closePc' = "chClose"
         /\ UNCHANGED <<queue, waitNotify, notify, sender, writer>>

(* The core calls SessionOnClosed when a write has failed. *)
WriterClose == /\ wPc = "failed"
               /\ closePc' = IF closePc = "none" THEN "chClose" ELSE closePc
               /\ wPc' = "done"
               /\ UNCHANGED <<queue, waitNotify, notify, sender, cur, more,
                              writeBuffer, wire>>

(* close(chClose), core.Close(), pendingPackets.Close(), in this order. *)
CloseStep ==
    /\ \/ closePc = "chClose" /\ closePc' = "core"
       \/ closePc = "core" /\ closePc' = "queue"
       \/ closePc = "queue" /\ closePc' = "done"
    /\ UNCHANGED <<queue, waitNotify, notify, sender, writer>>

-----------------------------------------------------------------------------
SenderStep(s) == Enqueue(s) \/ LoadWaitNotify(s) \/ Notify(s)

WriterStep == \/ FirstDequeue \/ Announce \/ SecondDequeue \/ Clear \/ Ready
              \/ WaitNotified \/ WaitClosed \/ Write \/ WriterClose

Next == \/ \E s \in Senders : Send(s) \/ SenderStep(s)
        \/ WriterStep \/ WriteFails
        \/ Close \/ CloseStep

(* Goroutines are scheduled, writes end by their deadline. *)
Fairness == /\ \A s \in Senders : WF_vars(SenderStep(s))
            /\ WF_vars(WriterStep \/ (CoreClosed /\ WriteFails))
            /\ WF_vars(CloseStep)

Spec == Init /\ [][Next]_vars /\ Fairness

-----------------------------------------------------------------------------
(* Properties *)

(* No wakeup is lost: the write loop never sleeps on a queue that is not   *)
(* empty unless a token is there, a sender is about to leave one, or the   *)
(* session is being closed.                                                *)
NoLostWakeup ==
    wPc = "wait" /\ queue # <<>> =>
        \/ notify
        \/ \E s \in Senders : sPc[s] = "notify" \/ (sPc[s] = "load" /\ waitNotify)
        \/ QueueClosed

(* The write loop never goes to sleep on packets it has only buffered:     *)
(* "more" is said only when another packet is there to be dequeued.        *)
NothingBufferedAsleep ==
    wPc \in {"announce", "dequeue2", "wait"} => writeBuffer = <<>> \/ QueueClosed

(* What the write loop knows at each of its steps. *)
WriterInv ==
    /\ wPc \in {"clear", "ready", "write"} => cur \in Packets
    /\ wPc \in {"dequeue", "announce", "dequeue2", "wait"} => cur = None
    /\ wPc \in {"dequeue2", "wait"} => waitNotify
    /\ wPc = "write" /\ more => queue # <<>>
    /\ wPc = "dequeue" => writeBuffer = <<>> \/ queue # <<>> \/ QueueClosed

(* A sender that enqueues has made a call. *)
SenderInv == \A s \in Senders : sPc[s] = "enqueue" => calls[s] >= 1

(* The inductive invariant: no wakeup is lost since waitNotify is set      *)
(* before the second look at the queue and stays set while the write loop  *)
(* sleeps; nothing is buffered there since "more" keeps its promise.       *)
SendInv == TypeOK /\ SenderInv /\ WriterInv /\ NoLostWakeup /\ NothingBufferedAsleep

(* Whatever the interleaving, what is written is what was accepted, in the *)
(* order of acceptance, and no packet is lost, doubled or overtaken.       *)
Fifo == INSTANCE PacketFifo
            WITH pending <- writeBuffer \o (IF cur = None THEN <<>> ELSE <<cur>>) \o queue,
                 delivered <- wire
SendsInOrder == Fifo!Spec

InFlight(p) == p = cur \/ \E i \in DOMAIN queue : queue[i] = p
                       \/ \E j \in DOMAIN writeBuffer : writeBuffer[j] = p

(* A packet Send has accepted is written unless the session is closed or a *)
(* write fails.                                                            *)
AcceptedIsWritten ==
    \A p \in Packets : InFlight(p) ~> (\E i \in DOMAIN wire : wire[i] = p) \/ ~Started

(* The write loop ends when the session is closed. *)
WriterStops == ~Started ~> wPc = "done"
=============================================================================
