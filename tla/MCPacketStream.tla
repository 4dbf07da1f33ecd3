--------------------------- MODULE MCPacketStream ---------------------------
(* Instances of PacketStream for TLC. *)
EXTENDS PacketStream

(* No payload, one that a head and a bit of buffer hold, the longest one.  *)
SomePackets == {[type |-> protoType.Heartbeat, data |-> <<1>>],
                [type |-> protoType.CloseReq, data |-> <<>>],
                [type |-> protoType.Raw, data |-> <<>>],
                [type |-> protoType.Raw, data |-> <<2, 10, 0>>]}
=============================================================================
