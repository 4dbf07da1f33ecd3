----------------------------- MODULE MCTimerHeap -----------------------------
(* Instances of TimerHeap for TLC. *)
EXTENDS TimerHeap
=============================================================================
