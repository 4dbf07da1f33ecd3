--------------------------- MODULE MCSessionLife ---------------------------
(* Instances of SessionLife for TLC. *)
EXTENDS SessionLife
=============================================================================
