---------------------------- MODULE MCKeepAlive ----------------------------
(* Instances of KeepAlive for TLC. *)
EXTENDS KeepAlive

Config(r, t, h, i) == [rwt |-> r, tick |-> t, heartbeat |-> h, inactive |-> i]

(* One that init accepts, and four that it refuses: the default tick is    *)
(* not shorter than the heartbeat, the tick is too long (twice), inactive  *)
(* is within the read timeout.                                             *)
SomeConfigs == {Config(9, 2, 3, 10),
                Config(6, 0, 2, 7), Config(6, 3, 0, 7),
                Config(9, 4, 4, 10), Config(9, 2, 3, 9)}

(* Each application may ask the other for something. *)
Requests == Ends \X {"request"}

Nothing == {}
=============================================================================
