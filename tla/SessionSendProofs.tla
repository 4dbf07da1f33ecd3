-------------------------- MODULE SessionSendProofs --------------------------
(***************************************************************************)
(* Proofs about SessionSend, for any number of senders and packets and any *)
(* size of the queue.                                                      *)
(***************************************************************************)
EXTENDS SessionSend, SequenceTheorems, TLAPS

-----------------------------------------------------------------------------
(* Lemmas about sequences *)

LEMMA HeadThenTail ==
    ASSUME NEW S, NEW q \in Seq(S), q # <<>>
    PROVE  /\ Head(q) \in S /\ Tail(q) \in Seq(S)
           /\ q = <<Head(q)>> \o Tail(q)
           /\ Len(Tail(q)) = Len(q) - 1
  <1>1. Len(q) \in Nat \ {0} /\ Head(q) \in S /\ Tail(q) \in Seq(S)
    BY EmptySeq, HeadTailProperties
  <1>2. SubSeq(q, 1, Len(q)) = <<q[1]>> \o SubSeq(q, 2, Len(q))
    BY <1>1, SubSeqRecursiveFirst, 1 \in 1 .. Len(q), Len(q) \in 1 .. Len(q)
  <1>3. SubSeq(q, 1, Len(q)) = q /\ Tail(q) = SubSeq(q, 2, Len(q)) /\ Head(q) = q[1]
    BY <1>1, SubSeqFull, TailIsSubSeq
  <1> QED BY <1>1, <1>2, <1>3, HeadTailProperties

LEMMA CutConcat ==
    ASSUME NEW S, NEW a \in Seq(S), NEW b \in Seq(S), a # <<>>
    PROVE  /\ Len(a) \in 1 .. Len(a \o b)
           /\ SubSeq(a \o b, 1, Len(a)) = a
           /\ SubSeq(a \o b, Len(a) + 1, Len(a \o b)) = b
  <1>1. Len(a) \in Nat \ {0} /\ Len(b) \in Nat /\ Len(a \o b) = Len(a) + Len(b)
    BY EmptySeq, LenProperties, ConcatProperties
  <1>2. SubSeq(a \o b, 1, Len(a)) = SubSeq(a, 1, Len(a))
    BY <1>1, SubSeqOfConcat1, 1 \in 1 .. Len(a), Len(a) \in 1 .. Len(a)
  <1>3. SubSeq(a, 1, Len(a)) = a /\ SubSeq(b, 1, Len(b)) = b
    BY SubSeqFull
  <1>4. SubSeq(a \o b, Len(a) + 1, Len(a \o b)) = b
    <2>1. CASE b = <<>>
      BY <1>1, <2>1, SubSeqEmpty, EmptySeq, Len(a) + 1 \in Int, Len(a \o b) \in Int,
         Len(a \o b) < Len(a) + 1
    <2>2. CASE b # <<>>
      <3>1. Len(b) >= 1
        BY <2>2, EmptySeq
      <3>2. SubSeq(a \o b, Len(a) + 1, Len(a) + Len(b))
                = SubSeq(b, Len(a) + 1 - Len(a), Len(a) + Len(b) - Len(a))
        BY <1>1, <3>1, SubSeqOfConcat2,
           Len(a) + 1 \in Len(a) + 1 .. Len(a) + Len(b),
           Len(a) + Len(b) \in Len(a) + 1 .. Len(a) + Len(b)
      <3> QED BY <1>1, <1>3, <3>2
    <2> QED BY <2>1, <2>2
  <1> QED BY <1>1, <1>2, <1>3, <1>4

LEMMA CutAt ==
    ASSUME NEW S, NEW a \in Seq(S), NEW n \in 0 .. Len(a)
    PROVE  /\ SubSeq(a, 1, n) \in Seq(S) /\ SubSeq(a, n + 1, Len(a)) \in Seq(S)
           /\ a = SubSeq(a, 1, n) \o SubSeq(a, n + 1, Len(a))
  <1>1. Len(a) \in Nat /\ n \in Nat
    BY LenProperties
  <1>2. SubSeq(a, 1, n) \o SubSeq(a, n + 1, Len(a)) = SubSeq(a, 1, Len(a))
    BY <1>1, ConcatAdjacentSubSeq, 1 \in 1 .. Len(a) + 1, n \in 1 - 1 .. Len(a),
       Len(a) \in n .. Len(a)
  <1>3. SubSeq(a, 1, n) \in Seq(S) /\ SubSeq(a, n + 1, Len(a)) \in Seq(S)
    <2>1. \A i \in 1 .. Len(a) : a[i] \in S
      BY ElementOfSeq
    <2> QED BY <1>1, <2>1, SubSeqProperties, 1 \in Int, n \in Int, n + 1 \in Int, Len(a) \in Int
  <1> QED BY <1>2, <1>3, SubSeqFull

-----------------------------------------------------------------------------
(* The invariant *)

LEMMA SendInit == Init => SendInv
  <1>1. <<>> \in Seq(Packets) /\ Len(<<>>) = 0
    BY EmptySeq
  <1>2. 0 \in 0 .. PacketsPerSender /\ 0 <= PendingPacketQueueSize
    BY PacketsPerSenderAssumption, QueueSizeAssumption
  <1>3. Init => TypeOK
    BY <1>1, <1>2, Zenon DEF Init, TypeOK
  <1>4. Init => SenderInv /\ WriterInv /\ NoLostWakeup /\ NothingBufferedAsleep
    BY DEF Init, SenderInv, WriterInv, NoLostWakeup, NothingBufferedAsleep
  <1> QED BY <1>3, <1>4 DEF SendInv

(* What a sender does. *)
LEMMA SenderKeeps ==
    ASSUME SendInv, NEW s \in Senders, Send(s) \/ SenderStep(s)
    PROVE  SendInv'
  <1> USE PacketsPerSenderAssumption, QueueSizeAssumption DEF SendInv
  <1>1. CASE Send(s)
    BY <1>1 DEF Send, GotoS, Started, TypeOK, WriterInv, SenderInv, NoLostWakeup,
                NothingBufferedAsleep, QueueClosed, writer
  <1>2. CASE Enqueue(s)
    <2>1. CASE Len(queue) < PendingPacketQueueSize /\ ~QueueClosed
      <3>1. /\ queue' = Append(queue, <<s, calls[s]>>)
            /\ sPc' = [sPc EXCEPT ![s] = "load"]
            /\ UNCHANGED <<closePc, waitNotify, notify, calls, writer>>
        BY <1>2, <2>1 DEF Enqueue, GotoS
      <3>2. <<s, calls[s]>> \in Packets
        <4>1. calls[s] \in 1 .. PacketsPerSender
          BY <1>2 DEF TypeOK, Enqueue, SenderInv
        <4> QED BY <4>1 DEF Packets
      <3>3. queue' \in Seq(Packets) /\ queue' # <<>> /\ Len(queue') = Len(queue) + 1
        BY <3>1, <3>2, AppendProperties, SMTT(30) DEF TypeOK
      <3>4. TypeOK'
        BY <2>1, <3>1, <3>3, LenProperties DEF TypeOK, writer
      <3> QED
        BY <3>1, <3>3, <3>4 DEF TypeOK, WriterInv, SenderInv, NoLostWakeup, NothingBufferedAsleep,
                                QueueClosed, writer
    <2>2. CASE ~(Len(queue) < PendingPacketQueueSize /\ ~QueueClosed)
      BY <1>2, <2>2, SMTT(30) DEF Enqueue, GotoS, TypeOK, WriterInv, SenderInv, NoLostWakeup,
                        NothingBufferedAsleep, QueueClosed, writer
    <2> QED BY <2>1, <2>2
  <1>3. CASE LoadWaitNotify(s)
    BY <1>3 DEF LoadWaitNotify, GotoS, TypeOK, WriterInv, SenderInv, NoLostWakeup,
                NothingBufferedAsleep, QueueClosed, writer
  <1>4. CASE Notify(s)
    BY <1>4 DEF Notify, GotoS, TypeOK, WriterInv, SenderInv, NoLostWakeup,
                NothingBufferedAsleep, QueueClosed, writer
  <1> QED BY <1>1, <1>2, <1>3, <1>4 DEF SenderStep

(* A Dequeue, the first or the second. *)
LEMMA DequeueKeeps ==
    ASSUME SendInv, FirstDequeue \/ SecondDequeue
    PROVE  SendInv'
  <1> USE DEF SendInv
  <1>1. CASE queue # <<>> /\ cur' = Head(queue) /\ queue' = Tail(queue) /\ wPc' = "clear"
    <2>1. Head(queue) \in Packets /\ Tail(queue) \in Seq(Packets)
          /\ Len(Tail(queue)) = Len(queue) - 1 /\ Len(queue) \in Nat
      BY <1>1, HeadThenTail, LenProperties DEF TypeOK
    <2>2. TypeOK'
      BY <1>1, <2>1, QueueSizeAssumption DEF FirstDequeue, SecondDequeue, Dequeue, TypeOK, sender
    <2> QED BY <1>1, <2>1, <2>2 DEF FirstDequeue, SecondDequeue, Dequeue, TypeOK, WriterInv, SenderInv,
                     NoLostWakeup, NothingBufferedAsleep, QueueClosed, sender
  <1>2. CASE /\ queue = <<>> \/ QueueClosed
             /\ wPc' \in {"announce", "wait"}
             /\ wPc' = "wait" => wPc = "dequeue2"
             /\ UNCHANGED <<cur, queue>>
    BY <1>2 DEF FirstDequeue, SecondDequeue, Dequeue, TypeOK, WriterInv, SenderInv,
                NoLostWakeup, NothingBufferedAsleep, QueueClosed, sender
  <1> QED BY <1>1, <1>2 DEF FirstDequeue, SecondDequeue, Dequeue

(* Write and WriteFails. *)
LEMMA WriteKeeps ==
    ASSUME SendInv, Write \/ WriteFails
    PROVE  SendInv'
  <1> USE DEF SendInv
  <1>1. CASE Write
    <2>1. cur \in Packets
      BY <1>1 DEF Write, WriterInv
    <2>2. /\ Append(writeBuffer, cur) \in Seq(Packets)
          /\ wire \o writeBuffer \in Seq(Packets)
          /\ Append(wire \o writeBuffer, cur) \in Seq(Packets)
          /\ <<cur>> \in Seq(Packets) /\ <<>> \in Seq(Packets)
      BY <2>1, AppendProperties, ConcatProperties, EmptySeq DEF TypeOK
    <2>3. TypeOK'
      BY <1>1, <2>2 DEF Write, TypeOK, sender
    <2> QED BY <1>1, <2>3 DEF Write, TypeOK, WriterInv, SenderInv, NoLostWakeup,
                     NothingBufferedAsleep, QueueClosed, sender
  <1>2. CASE WriteFails
    <2>1. PICK n \in 0 .. Len(writeBuffer) :
              /\ wire' = wire \o SubSeq(writeBuffer, 1, n)
              /\ writeBuffer' = SubSeq(writeBuffer, n + 1, Len(writeBuffer))
      BY <1>2 DEF WriteFails
    <2>2. wire' \in Seq(Packets) /\ writeBuffer' \in Seq(Packets)
      BY <2>1, CutAt, ConcatProperties DEF TypeOK
    <2> QED BY <1>2, <2>2 DEF WriteFails, TypeOK, WriterInv, SenderInv, NoLostWakeup,
                     NothingBufferedAsleep, QueueClosed, sender
  <1> QED BY <1>1, <1>2

(* The other steps of the write loop, and of close. *)
LEMMA OtherKeeps ==
    ASSUME SendInv,
           \/ Announce \/ Clear \/ Ready \/ WaitNotified \/ WaitClosed
           \/ WriterClose \/ Close \/ CloseStep
    PROVE  SendInv'
  <1> USE DEF SendInv, TypeOK, WriterInv, SenderInv, NoLostWakeup, NothingBufferedAsleep,
              QueueClosed, sender, writer
  <1>1. CASE Announce
    BY <1>1 DEF Announce
  <1>2. CASE Clear
    BY <1>2 DEF Clear
  <1>3. CASE Ready
    BY <1>3 DEF Ready
  <1>4. CASE WaitNotified
    BY <1>4 DEF WaitNotified
  <1>5. CASE WaitClosed
    BY <1>5 DEF WaitClosed
  <1>6. CASE WriterClose
    BY <1>6 DEF WriterClose
  <1>7. CASE Close
    BY <1>7 DEF Close
  <1>8. CASE CloseStep
    BY <1>8 DEF CloseStep
  <1> QED BY <1>1, <1>2, <1>3, <1>4, <1>5, <1>6, <1>7, <1>8

LEMMA SendNext == SendInv /\ [Next]_vars => SendInv'
  <1> SUFFICES ASSUME SendInv, [Next]_vars
               PROVE  SendInv'
    OBVIOUS
  <1>1. CASE \E s \in Senders : Send(s) \/ SenderStep(s)
    BY <1>1, SenderKeeps
  <1>2. CASE FirstDequeue \/ SecondDequeue
    BY <1>2, DequeueKeeps
  <1>3. CASE Write \/ WriteFails
    BY <1>3, WriteKeeps
  <1>4. CASE \/ Announce \/ Clear \/ Ready \/ WaitNotified \/ WaitClosed
             \/ WriterClose \/ Close \/ CloseStep
    BY <1>4, OtherKeeps
  <1>5. CASE UNCHANGED vars
    BY <1>5 DEF vars, writer, SendInv, TypeOK, WriterInv, SenderInv, NoLostWakeup,
                NothingBufferedAsleep, QueueClosed
  <1> QED BY <1>1, <1>2, <1>3, <1>4, <1>5 DEF Next, WriterStep

(* Type correctness, no lost wakeup and the flush before the sleep hold in *)
(* every state of the sending half of a session (sendDirect,               *)
(* SessionPendingPacket, SessionWritePacket).                              *)
THEOREM SendInvariance == Spec => []SendInv
  BY SendInit, SendNext, PTL DEF Spec

(* The types: the queue never holds more than PendingPacketQueueSize, and  *)
(* nothing but packets of a sender is ever buffered or written.            *)
THEOREM SendTypeCorrect == Spec => []TypeOK
  <1>1. SendInv => TypeOK
    BY DEF SendInv
  <1> QED BY <1>1, SendInvariance, PTL

(* SessionPendingPacket never sleeps on a queue that is not empty unless   *)
(* it is about to be woken: setting waitNotify before the second Dequeue   *)
(* is enough without a lock.                                               *)
THEOREM WakeupsArrive == Spec => []NoLostWakeup
  <1>1. SendInv => NoLostWakeup
    BY DEF SendInv
  <1> QED BY <1>1, SendInvariance, PTL

(* SessionWritePacket has flushed its buffer whenever the write loop goes  *)
(* to sleep.                                                               *)
THEOREM FlushedBeforeSleep == Spec => []NothingBufferedAsleep
  <1>1. SendInv => NothingBufferedAsleep
    BY DEF SendInv
  <1> QED BY <1>1, SendInvariance, PTL

-----------------------------------------------------------------------------
(* The refinement of PacketFifo *)

Current == IF cur = None THEN <<>> ELSE <<cur>>
Pending == writeBuffer \o Current \o queue

LEMMA Parts ==
    ASSUME TypeOK
    PROVE  /\ Current \in Seq(Packets) /\ Pending \in Seq(Packets)
           /\ writeBuffer \in Seq(Packets) /\ queue \in Seq(Packets)
           /\ wire \in Seq(Packets)
           /\ writeBuffer \o Current \in Seq(Packets)
  <1>1. Current \in Seq(Packets)
    BY EmptySeq DEF TypeOK, Current
  <1> QED BY <1>1, ConcatProperties DEF TypeOK, Pending

(* What has become written of the pending packets is delivered. *)
LEMMA DeliverPrefix ==
    ASSUME NEW written \in Seq(Packets), NEW rest \in Seq(Packets), written # <<>>,
           Pending = written \o rest, Pending' = rest, wire' = wire \o written
    PROVE  Fifo!Next
  <1>1. Len(written) \in 1 .. Len(Pending)
    BY CutConcat
  <1>2. SubSeq(Pending, 1, Len(written)) = written
        /\ SubSeq(Pending, Len(written) + 1, Len(Pending)) = rest
    BY CutConcat
  <1>3. Fifo!Deliver
    BY <1>1, <1>2 DEF Fifo!Deliver, Pending, Current
  <1> QED BY <1>3 DEF Fifo!Next

LEMMA EnqueueAccepts ==
    ASSUME SendInv, NEW s \in Senders, Enqueue(s)
    PROVE  Fifo!Next \/ UNCHANGED <<Pending, wire>>
  <1>1. CASE ~(Len(queue) < PendingPacketQueueSize /\ ~QueueClosed)
    BY <1>1 DEF Enqueue, writer, Pending, Current
  <1>2. CASE Len(queue) < PendingPacketQueueSize /\ ~QueueClosed
    <2>1. PICK p \in Packets : queue' = Append(queue, p)
      <3>1. calls[s] \in 1 .. PacketsPerSender
        BY PacketsPerSenderAssumption DEF SendInv, TypeOK, Enqueue, SenderInv
      <3> QED BY <1>2, <3>1 DEF Enqueue, Packets
    <2>2. Pending' = Append(Pending, p)
      <3>1. queue' = queue \o <<p>> /\ <<p>> \in Seq(Packets)
        BY <2>1, Parts, AppendIsConcat DEF SendInv
      <3>2. (writeBuffer \o Current) \o (queue \o <<p>>) = Pending \o <<p>>
        BY <3>1, Parts, ConcatAssociative DEF SendInv, Pending
      <3>3. Pending \o <<p>> = Append(Pending, p)
        BY Parts, AppendIsConcat DEF SendInv
      <3> QED BY <3>1, <3>2, <3>3 DEF Enqueue, writer, Pending, Current
    <2>3. Fifo!Accept
      BY <2>2 DEF Fifo!Accept, Enqueue, writer, Pending, Current
    <2> QED BY <2>3 DEF Fifo!Next
  <1> QED BY <1>1, <1>2

LEMMA DequeueStutters ==
    ASSUME SendInv, FirstDequeue \/ SecondDequeue
    PROVE  UNCHANGED <<Pending, wire>>
  <1>1. CASE UNCHANGED <<cur, queue>>
    BY <1>1 DEF FirstDequeue, SecondDequeue, Dequeue, Pending, Current
  <1>2. CASE queue # <<>> /\ cur' = Head(queue) /\ queue' = Tail(queue)
    <2>1. Head(queue) \in Packets /\ Tail(queue) \in Seq(Packets)
          /\ queue = <<Head(queue)>> \o Tail(queue)
      BY <1>2, Parts, HeadThenTail DEF SendInv
    <2>2. Current = <<>> /\ Current' = <<Head(queue)>>
      BY <1>2, <2>1, NoneAssumption
         DEF SendInv, WriterInv, FirstDequeue, SecondDequeue, Current
    <2>3. Pending = writeBuffer \o (<<Head(queue)>> \o Tail(queue))
      BY <2>1, <2>2, Parts, ConcatEmptySeq DEF SendInv, Pending
    <2>4. (writeBuffer \o <<Head(queue)>>) \o Tail(queue)
              = writeBuffer \o (<<Head(queue)>> \o Tail(queue))
      BY <2>1, Parts, ConcatAssociative, <<Head(queue)>> \in Seq(Packets), SMTT(30) DEF SendInv
    <2> QED BY <1>2, <2>2, <2>3, <2>4 DEF FirstDequeue, SecondDequeue, Dequeue, Pending
  <1> QED BY <1>1, <1>2 DEF FirstDequeue, SecondDequeue, Dequeue

LEMMA WriteDelivers ==
    ASSUME SendInv, Write
    PROVE  Fifo!Next \/ UNCHANGED <<Pending, wire>>
  <1>1. cur \in Packets /\ Current = <<cur>> /\ Current' = <<>> /\ queue' = queue
        /\ <<cur>> \in Seq(Packets)
    BY NoneAssumption DEF SendInv, WriterInv, Write, Current
  <1>2. Append(writeBuffer, cur) = writeBuffer \o <<cur>>
        /\ Append(writeBuffer, cur) \in Seq(Packets)
        /\ Append(wire \o writeBuffer, cur) = (wire \o writeBuffer) \o <<cur>>
    BY <1>1, Parts, AppendIsConcat, AppendProperties, ConcatProperties DEF SendInv
  <1>3. CASE writeBuffer' = Append(writeBuffer, cur) /\ UNCHANGED wire
    BY <1>1, <1>2, <1>3, Parts, ConcatEmptySeq DEF SendInv, Pending
  <1>4. CASE writeBuffer' = <<cur>> /\ wire' = wire \o writeBuffer
    <2>1. Pending = writeBuffer \o (<<cur>> \o queue)
      BY <1>1, Parts, ConcatAssociative DEF SendInv, Pending
    <2>2. Pending' = <<cur>> \o queue
      BY <1>1, <1>4, ConcatEmptySeq DEF Pending
    <2>3. <<cur>> \o queue \in Seq(Packets)
      BY <1>1, Parts, ConcatProperties DEF SendInv
    <2>4. CASE writeBuffer = <<>>
      BY <1>4, <2>1, <2>2, <2>3, <2>4, Parts, ConcatEmptySeq DEF SendInv
    <2>5. CASE writeBuffer # <<>>
      BY <1>4, <2>1, <2>2, <2>3, <2>5, Parts, DeliverPrefix DEF SendInv
    <2> QED BY <2>4, <2>5
  <1>5. CASE wire' = Append(wire \o writeBuffer, cur) /\ writeBuffer' = <<>>
    <2>1. Pending = (writeBuffer \o <<cur>>) \o queue
      BY <1>1 DEF Pending
    <2>2. Pending' = queue
      <3>1. Pending' = (<<>> \o <<>>) \o queue
        BY <1>1, <1>5 DEF Pending
      <3> QED BY <3>1, Parts, ConcatEmptySeq, EmptySeq DEF SendInv
    <2>3. wire' = wire \o (writeBuffer \o <<cur>>)
      BY <1>1, <1>2, <1>5, Parts, ConcatAssociative, SMTT(30) DEF SendInv
    <2>4. writeBuffer \o <<cur>> # <<>> /\ writeBuffer \o <<cur>> \in Seq(Packets)
      BY <1>1, <1>2, Parts, AppendProperties DEF SendInv
    <2> QED BY <2>1, <2>2, <2>3, <2>4, Parts, DeliverPrefix DEF SendInv
  <1> QED BY <1>3, <1>4, <1>5 DEF Write

LEMMA WriteFailsDelivers ==
    ASSUME SendInv, WriteFails
    PROVE  Fifo!Next \/ UNCHANGED <<Pending, wire>>
  <1>1. PICK n \in 0 .. Len(writeBuffer) :
            /\ wire' = wire \o SubSeq(writeBuffer, 1, n)
            /\ writeBuffer' = SubSeq(writeBuffer, n + 1, Len(writeBuffer))
    BY DEF WriteFails
  <1> DEFINE done == SubSeq(writeBuffer, 1, n)
             left == SubSeq(writeBuffer, n + 1, Len(writeBuffer))
  <1>2. done \in Seq(Packets) /\ left \in Seq(Packets) /\ writeBuffer = done \o left
    BY Parts, CutAt DEF SendInv
  <1>3. wire' = wire \o done /\ writeBuffer' = left
    BY <1>1
  <1> HIDE DEF done, left
  <1>4. Current' = Current /\ queue' = queue
    BY DEF WriteFails, Current
  <1>5. Pending' = (left \o Current) \o queue /\ Pending' \in Seq(Packets)
    BY <1>2, <1>3, <1>4, Parts, ConcatProperties DEF SendInv, Pending
  <1>6. Pending = done \o Pending'
    <2>1. Pending = ((done \o left) \o Current) \o queue
      BY <1>2 DEF Pending
    <2>2. Current \in Seq(Packets) /\ queue \in Seq(Packets)
      BY Parts DEF SendInv
    <2>3. ((done \o left) \o Current) \o queue = done \o ((left \o Current) \o queue)
      <3> DEFINE rest == left \o Current
      <3>1. rest \in Seq(Packets)
        BY <1>2, <2>2, ConcatProperties
      <3>2. (done \o left) \o Current = done \o rest
        BY <1>2, <2>2, ConcatAssociative
      <3> HIDE DEF rest
      <3>3. (done \o rest) \o queue = done \o (rest \o queue)
        BY <1>2, <2>2, <3>1, ConcatAssociative, SMTT(30)
      <3> QED BY <3>2, <3>3 DEF rest
    <2> QED BY <1>5, <2>1, <2>3, Zenon
  <1>7. CASE done = <<>>
    BY <1>3, <1>5, <1>6, <1>7, Parts, ConcatEmptySeq DEF SendInv
  <1>8. CASE done # <<>>
    BY <1>2, <1>3, <1>5, <1>6, <1>8, DeliverPrefix
  <1> QED BY <1>7, <1>8

LEMMA FifoStep ==
    ASSUME SendInv, [Next]_vars
    PROVE  Fifo!Next \/ UNCHANGED <<Pending, wire>>
  <1>1. CASE \E s \in Senders : Enqueue(s)
    BY <1>1, EnqueueAccepts
  <1>2. CASE FirstDequeue \/ SecondDequeue
    BY <1>2, DequeueStutters
  <1>3. CASE Write
    BY <1>3, WriteDelivers
  <1>4. CASE WriteFails
    BY <1>4, WriteFailsDelivers
  <1>5. CASE UNCHANGED <<queue, cur, writeBuffer, wire>>
    BY <1>5 DEF Pending, Current
  <1>6. CASE \E s \in Senders : Send(s) \/ LoadWaitNotify(s) \/ Notify(s)
    BY <1>5, <1>6 DEF Send, LoadWaitNotify, Notify, writer
  <1>7. CASE \/ Announce \/ Clear \/ Ready \/ WaitNotified \/ WaitClosed
             \/ WriterClose \/ Close \/ CloseStep \/ UNCHANGED vars
    BY <1>5, <1>7 DEF Announce, Clear, Ready, WaitNotified, WaitClosed, WriterClose,
                      Close, CloseStep, vars, writer
  <1> QED BY <1>1, <1>2, <1>3, <1>4, <1>6, <1>7 DEF Next, WriterStep, SenderStep

(* However senders, the write loop and close interleave, what the session  *)
(* writes is what Send accepted, in the order of acceptance, each packet   *)
(* at most once.                                                           *)
THEOREM WrittenInOrder == Spec => SendsInOrder
  <1>1. Init => Fifo!Init
    <2>1. Init => Pending = (<<>> \o <<>>) \o <<>>
      BY DEF Init, Pending, Current
    <2>2. (<<>> \o <<>>) \o <<>> = <<>>
      BY ConcatEmptySeq, EmptySeq
    <2> QED BY <2>1, <2>2 DEF Init, Fifo!Init, Pending, Current
  <1>2. SendInv /\ [Next]_vars => [Fifo!Next]_<<Pending, wire>>
    BY FifoStep
  <1> QED
    BY <1>1, <1>2, SendInvariance, PTL DEF Spec, SendsInOrder, Fifo!Spec, Pending, Current
=============================================================================
