----------------------------- MODULE TimerSystem -----------------------------
(***************************************************************************)
(* What TimerSystem promises to those who start timers (net/timer.go):     *)
(* only a timer that has been started and not stopped fires, one callback  *)
(* runs at a time, and once stopped there are no timers any more.          *)
(***************************************************************************)
CONSTANT Timers

VARIABLES live,     \* timers that may still fire
          busy,     \* is a callback running?
          stopped

vars == <<live, busy, stopped>>

Init == live = {} /\ busy = FALSE /\ stopped = FALSE

Start(t) == /\ ~stopped
            /\ live' = live \cup {t}
            /\ busy' = busy /\ stopped' = stopped

Stop(t) == /\ live' = live \ {t}
           /\ busy' = busy /\ stopped' = stopped

Fire(t) == /\ t \in live /\ ~busy
           /\ live' \in {live, live \ {t}}
           /\ busy' = TRUE
           /\ stopped' = stopped

Return == /\ busy
          /\ busy' = FALSE
          /\ live' = live /\ stopped' = stopped

StopAll == /\ stopped' = TRUE
           /\ live' = {}
           /\ busy' = busy

Next == \/ \E t \in Timers : Start(t) \/ Stop(t) \/ Fire(t)
        \/ Return \/ StopAll

Spec == Init /\ [][Next]_vars
=============================================================================
