------------------------- MODULE MCServiceEstablish -------------------------
(* Instances of ServiceEstablish for TLC. *)
EXTENDS ServiceEstablishInv, TLC

CONSTANTS c1, c2, p1, p2

OneCaller == {c1}
TwoCallers == {c1, c2}

OneConn == {p1}
TwoConns == {p1, p2}

(* Threads of a kind are interchangeable. *)
Symmetry == Permutations(Callers) \cup Permutations(Conns)

(* Of all threads at most n begin: every mix of calls and connections. *)
AtMost(n) == Cardinality({t \in Threads : pc'[t] # "idle"}) <= n

(* All applies carry one time.  Only the order of the two start times      *)
(* matters, and only for the choice of a connection: with Times = {1, 2}   *)
(* active attempts that start with a passive one, or after it, make either *)
(* choice.                                                                 *)
OneApplyTime == \A t \in Threads : es'[t].passive.startTime \in {0, 1}

AnyThree == Init /\ [][Next /\ AtMost(3) /\ OneApplyTime]_vars

AnyTwo == Init /\ [][Next /\ AtMost(2)]_vars /\ Fairness
=============================================================================
