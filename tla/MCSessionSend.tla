---------------------------- MODULE MCSessionSend ----------------------------
(* Instances of SessionSend for TLC. *)
EXTENDS SessionSend

CONSTANTS s1, s2

TwoSenders == {s1, s2}
=============================================================================
