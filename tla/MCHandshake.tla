---------------------------- MODULE MCHandshake ----------------------------
(* Instances of Handshake for TLC: nodes 1 and 2, clocks that may agree. *)
EXTENDS Handshake, FiniteSets

(* Of all calls at most n begin: every mix of first calls and redials. *)
AtMost(n) == Cardinality({c \in Conns : aPc'[c] # "idle"}) <= n

ClocksAgree == \A n \in Nodes : es'[n].active.startTime \in {0, 1}

(* Two calls with any clocks, a third one while the clocks agree. *)
ThreeCalls == Init /\ [][Next /\ (AtMost(2) \/ (AtMost(3) /\ ClocksAgree))]_vars /\ Fairness
=============================================================================
