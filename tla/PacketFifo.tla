----------------------------- MODULE PacketFifo -----------------------------
(***************************************************************************)
(* What Session.Send promises: the packets it has accepted go to the       *)
(* remote node in the order of acceptance, each of them once.              *)
(***************************************************************************)
EXTENDS Sequences, Naturals

CONSTANT Packets

VARIABLES pending,     \* accepted, not written yet
          delivered    \* written

Init == pending = <<>> /\ delivered = <<>>

Accept == \E p \in Packets : /\ pending' = Append(pending, p)
                             /\ UNCHANGED delivered

(* One write may carry several packets. *)
Deliver == \E n \in 1 .. Len(pending) :
              /\ delivered' = delivered \o SubSeq(pending, 1, n)
              /\ pending' = SubSeq(pending, n + 1, Len(pending))

Next == Accept \/ Deliver

Spec == Init /\ [][Next]_<<pending, delivered>>
=============================================================================
