----------------------------- MODULE PacketStream -----------------------------
(***************************************************************************)
(* Packets as bytes: the write buffer of one end of a session, the         *)
(* connection, and the read buffer of the other end (net/session_io.go,    *)
(* net/packet.go).                                                         *)
(*                                                                         *)
(* A packet is a head of six bytes, its type and the length of its         *)
(* payload, and the payload.  The writer collects them in a buffer that it *)
(* sends when it is full, when it holds enough or for long enough, and when *)
(* no packet follows.  A write may take a part of the buffer only, and a   *)
(* read gives any part of what has arrived.  A FixedBuffer (a library)     *)
(* takes what it has room for and says so when that was not all.           *)
(*                                                                         *)
(* Name_Variant is a wrong version of the definition Name.                 *)
(***************************************************************************)
EXTENDS Naturals, Sequences

CONSTANTS Packets,          \* what the session sends
          MaxPackets,       \* how many of them
          Radix,            \* of the digits of a length: 256 in the code
          MaxPacketLength,
          WriteBufSize,
          ReadBufSize,
          BatchWriteLimit

(* protoTypesForCommunicating, with the lengths their readers accept. *)
protoType == [Heartbeat |-> 10, CloseReq |-> 11, CloseResp |-> 12, Raw |-> 20]

acceptedLengths(type) == CASE type = protoType.Heartbeat -> {1}
                           [] type = protoType.CloseReq  -> {0}
                           [] type = protoType.CloseResp -> {1}
                           [] type = protoType.Raw       -> 0 .. MaxPacketLength
                           [] OTHER                      -> {}

Byte == 0 .. 255

(* What a session sends: send refuses a packet that is too long, the others *)
(* have a fixed length.                                                     *)
ASSUME PacketsAssumption ==
    \A pkt \in Packets :
        /\ pkt \in [type : Byte, data : Seq(Byte)]
        /\ \/ pkt.type = protoType.Raw /\ Len(pkt.data) <= MaxPacketLength
           \/ pkt.type = protoType.CloseReq /\ pkt.data = <<>>
           \/ pkt.type \in {protoType.Heartbeat, protoType.CloseResp} /\ Len(pkt.data) = 1

ASSUME SizesAssumption == /\ Radix \in 2 .. 256
                          /\ MaxPacketLength \in 1 .. Radix * Radix * Radix * Radix - 1
                          /\ {WriteBufSize, ReadBufSize, BatchWriteLimit} \subseteq Nat \ {0}
                          /\ MaxPackets \in Nat

VARIABLES
    queue,      \* pendingPackets
    accepted,   \* all packets that it has taken
    wPc,        \* where SessionWritePacket is
    more,       \* does another packet follow?
    p,          \* what writeFull has still to put into the buffer
    payload,    \* what it will be called with next
    writeBuf,
    count,      \* batchWriteCount
    flushing,   \* is writeFromBuffer running?
    wire,       \* bytes on the connection
    readBuf,
    got,        \* what readFull has read so far
    head,       \* the head of the packet that is read, or empty
    received,   \* packets that have been read
    rejected    \* has SessionReadPacket failed?

vars == <<queue, accepted, wPc, more, p, payload, writeBuf, count, flushing, wire,
          readBuf, got, head, received, rejected>>
packetVars == <<wPc, more, p, payload>>
writer == <<packetVars, writeBuf, count, flushing>>
reader == <<readBuf, got, head, received, rejected>>

HeadLen == 6

TypeOK ==
    /\ queue \in Seq(Packets) /\ accepted \in Seq(Packets)
    /\ wPc \in {"idle", "head", "payload"}
    /\ more \in BOOLEAN
    /\ {p, payload, writeBuf, wire, readBuf, got, head} \subseteq Seq(Byte)
    /\ Len(writeBuf) <= WriteBufSize /\ Len(readBuf) <= ReadBufSize
    /\ count \in 0 .. BatchWriteLimit
    /\ flushing \in BOOLEAN
    /\ Len(head) \in {0, HeadLen}
    /\ rejected \in BOOLEAN

Init ==
    /\ queue = <<>> /\ accepted = <<>>
    /\ wPc = "idle" /\ more = FALSE
    /\ p = <<>> /\ payload = <<>>
    /\ writeBuf = <<>> /\ count = 0 /\ flushing = FALSE
    /\ wire = <<>>
    /\ readBuf = <<>> /\ got = <<>> /\ head = <<>>
    /\ received = <<>> /\ rejected = FALSE

-----------------------------------------------------------------------------
(* setProtoType and setPayloadLen: the second byte is not used. *)
packetHead(type, n) ==
    <<type, 0, n \div (Radix * Radix * Radix), (n \div (Radix * Radix)) % Radix,
      (n \div Radix) % Radix, n % Radix>>

payloadLen(h) == ((h[3] * Radix + h[4]) * Radix + h[5]) * Radix + h[6]

Least(a, b) == IF a < b THEN a ELSE b

(* The first n elements of s, and those after them. *)
Front(s, n) == SubSeq(s, 1, n)
Rest(s, n) == SubSeq(s, n + 1, Len(s))

-----------------------------------------------------------------------------
(* The writer *)

(* sendDirect *)
Enqueue(pkt) ==
    /\ Len(accepted) < MaxPackets
    /\ queue' = Append(queue, pkt)
    /\ accepted' = Append(accepted, pkt)
    /\ UNCHANGED <<writer, wire, reader>>

(* SessionPendingPacket, and SessionWritePacket up to the first writeFull. *)
SessionWritePacket ==
    /\ wPc = "idle" /\ ~flushing /\ queue # <<>>
    /\ LET pkt == Head(queue) IN
       /\ p' = packetHead(pkt.type, Len(pkt.data))
       /\ payload' = pkt.data
    /\ queue' = Tail(queue)
    /\ more' = (queue' # <<>>)
    /\ wPc' = "head"
    /\ UNCHANGED <<accepted, writeBuf, count, flushing, wire, reader>>

(* Variant: the buffer takes a byte more than it has room for. *)
writeFull_Over ==
    /\ wPc # "idle" /\ ~flushing /\ p # <<>>
    /\ LET n == Least(WriteBufSize + 1 - Len(writeBuf), Len(p)) IN
       /\ writeBuf' = writeBuf \o Front(p, n)
       /\ p' = Rest(p, n)
       /\ count' = IF p' = <<>> THEN count + 1 ELSE count
       /\ \E timeUp \in BOOLEAN :
             flushing' = (p' # <<>> \/ count' >= BatchWriteLimit \/ timeUp)
    /\ UNCHANGED <<queue, accepted, wPc, more, payload, wire, reader>>

(* One round of writeFull.  The buffer is sent when it was too small, when *)
(* it holds BatchWriteLimit heads and payloads, or after                   *)
(* BatchWriteTimeLmit.                                                     *)
writeFull ==
    /\ wPc # "idle" /\ ~flushing /\ p # <<>>
    /\ LET n == Least(WriteBufSize - Len(writeBuf), Len(p)) IN
       /\ writeBuf' = writeBuf \o Front(p, n)
       /\ p' = Rest(p, n)
       /\ count' = IF p' = <<>> THEN count + 1 ELSE count
       /\ \E timeUp \in BOOLEAN :
             flushing' = (p' # <<>> \/ count' >= BatchWriteLimit \/ timeUp)
    /\ UNCHANGED <<queue, accepted, wPc, more, payload, wire, reader>>

(* After the head comes the payload, unless it is empty. *)
writePayload ==
    /\ wPc = "head" /\ ~flushing /\ p = <<>> /\ payload # <<>>
    /\ p' = payload
    /\ payload' = <<>>
    /\ wPc' = "payload"
    /\ UNCHANGED <<queue, accepted, more, writeBuf, count, flushing, wire, reader>>

(* Variant: what is in the buffer waits for the next packet. *)
writeEnds_Lazy ==
    /\ wPc # "idle" /\ ~flushing /\ p = <<>> /\ payload = <<>>
    /\ wPc' = "idle"
    /\ UNCHANGED <<queue, accepted, more, p, payload, writeBuf, count, flushing, wire, reader>>

(* The buffer is sent when no packet follows. *)
writeEnds ==
    /\ wPc # "idle" /\ ~flushing /\ p = <<>> /\ payload = <<>>
    /\ wPc' = "idle"
    /\ flushing' = (~more /\ writeBuf # <<>>)
    /\ UNCHANGED <<queue, accepted, more, p, payload, writeBuf, count, wire, reader>>

(* Variant: what the connection has not taken is dropped. *)
writeFromBuffer_Once ==
    /\ flushing
    /\ \E n \in 1 .. Len(writeBuf) :
          /\ wire' = wire \o Front(writeBuf, n)
          /\ writeBuf' = <<>>
          /\ flushing' = FALSE
          /\ count' = 0
    /\ UNCHANGED <<queue, accepted, packetVars, reader>>

(* One write of writeFromBuffer, which goes on until the buffer is empty. *)
writeFromBuffer ==
    /\ flushing
    /\ \E n \in 1 .. Len(writeBuf) :
          /\ wire' = wire \o Front(writeBuf, n)
          /\ writeBuf' = Rest(writeBuf, n)
          /\ flushing' = (n < Len(writeBuf))
          /\ count' = IF n < Len(writeBuf) THEN count ELSE 0
    /\ UNCHANGED <<queue, accepted, packetVars, reader>>

-----------------------------------------------------------------------------
(* The reader *)

wanted == IF head = <<>> THEN HeadLen ELSE payloadLen(head)

(* readToBuffer, when the buffer has been read to its end. *)
readToBuffer ==
    /\ ~rejected /\ Len(got) < wanted /\ readBuf = <<>>
    /\ \E n \in 1 .. Least(ReadBufSize, Len(wire)) :
          /\ readBuf' = Front(wire, n)
          /\ wire' = Rest(wire, n)
    /\ UNCHANGED <<queue, accepted, writer, got, head, received, rejected>>

(* One round of readFull. *)
readFull ==
    /\ ~rejected /\ Len(got) < wanted /\ readBuf # <<>>
    /\ LET n == Least(Len(readBuf), wanted - Len(got)) IN
       /\ got' = got \o Front(readBuf, n)
       /\ readBuf' = Rest(readBuf, n)
    /\ UNCHANGED <<queue, accepted, writer, wire, head, received, rejected>>

(* The head has been read: an unknown type or a wrong length is an error. *)
readHead ==
    /\ ~rejected /\ head = <<>> /\ Len(got) = HeadLen
    /\ IF payloadLen(got) \in acceptedLengths(got[1])
       THEN head' = got /\ UNCHANGED rejected
       ELSE rejected' = TRUE /\ UNCHANGED head
    /\ got' = <<>>
    /\ UNCHANGED <<queue, accepted, writer, wire, readBuf, received>>

(* The packet has been read. *)
readPacket ==
    /\ ~rejected /\ head # <<>> /\ Len(got) = wanted
    /\ received' = Append(received, [type |-> head[1], data |-> got])
    /\ head' = <<>> /\ got' = <<>>
    /\ UNCHANGED <<queue, accepted, writer, wire, readBuf, rejected>>

-----------------------------------------------------------------------------
Write == SessionWritePacket \/ writeFull \/ writePayload \/ writeEnds \/ writeFromBuffer

Read == readToBuffer \/ readFull \/ readHead \/ readPacket

Next == (\E pkt \in Packets : Enqueue(pkt)) \/ Write \/ Read

(* The write loop and the read loop of the core are scheduled, and the     *)
(* connection carries what it has taken.                                   *)
Spec == Init /\ [][Next]_vars /\ WF_vars(Write) /\ WF_vars(Read)

-----------------------------------------------------------------------------
(* Properties *)

(* However bytes are batched, split and joined on the way, the reader gets *)
(* the packets that were accepted, in their order and each once.           *)
Fifo == INSTANCE PacketFifo WITH pending <- Rest(accepted, Len(received)),
                                 delivered <- received
ReadsWhatWasSent == Fifo!Spec

(* Every packet that send accepts is read: the reader refuses none, at no   *)
(* length, and the last one leaves the buffer although no other follows.   *)
AllArrives == \A n \in 1 .. MaxPackets : Len(accepted) >= n ~> Len(received) >= n
=============================================================================
