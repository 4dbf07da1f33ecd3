--------------------------- MODULE PairConnection ---------------------------
(***************************************************************************)
(* What two services promise each other when nothing fails: the two ends   *)
(* keep one and the same connection, and go on keeping it.                 *)
(***************************************************************************)
CONSTANTS Nodes,       \* the two services
          Candidates,  \* the connections that may be kept
          None

VARIABLE kept          \* kept[n]: the connection node n has a session on

Init == kept = [n \in Nodes |-> None]

Keep(n, c) == /\ kept[n] = None
              /\ \A m \in Nodes : kept[m] \in {None, c}
              /\ kept' = [kept EXCEPT ![n] = c]

Next == \E n \in Nodes, c \in Candidates : Keep(n, c)

Spec == Init /\ [][Next]_kept
=============================================================================
