------------------------ MODULE ServiceEstablishInv ------------------------
(***************************************************************************)
(* The inductive invariant of ServiceEstablish, from which the proofs of   *)
(* ServiceEstablishProofs derive the properties of the specification.      *)
(***************************************************************************)
EXTENDS ServiceEstablish

(* Where a thread has no establishment yet, and where a passive attempt runs. *)
Early == {"idle", "getEstablishment", "passiveConn"}

PassiveRunning == {"recheck", "endExisting", "passiveHandshake", "success",
                   "attemptFail"}

(* A thread on its way to a session: GetSession found none. *)
PastRecheck == {"dial", "startHandshake", "handshake", "aboutSuccess", "complete",
                "passiveHandshake", "success", "attemptFail", "create"}

EsHeld(t) == pc[t] \in Building \ {"remove"}

-----------------------------------------------------------------------------
(* Nothing happens before Start. *)
NotStarted == svcState = stateInit =>
                  \A t \in Threads : pc[t] \in {"idle", "getEstablishment", "done"}

RefInv == \A t \in Threads :
              /\ pc[t] \in Early => ref[t] = None
              /\ pc[t] \notin Early \cup {"done", "lastLook"} => ref[t] \in Threads

(* The mutex of an establishment is held by the thread that ends it. *)
MutexInv == \A t, u \in Threads :
                esMutex[u] = t <=> pc[t] \in Building /\ ref[t] = u

(* A thread that runs an attempt owns it, alone. *)
OwnActive == \A c \in Callers :
                 pc[c] \in ActiveRunning =>
                     /\ isEstablishing(es[ref[c]].active)
                     /\ \A d \in Callers :
                            pc[d] \in ActiveRunning /\ ref[d] = ref[c] => d = c

OwnPassive == \A p \in Conns :
                  pc[p] \in PassiveRunning =>
                      /\ es[ref[p]].passive.state = establishHandshake
                      /\ \A q \in Conns :
                             pc[q] \in PassiveRunning /\ ref[q] = ref[p] => q = p

(* Callers and passive connections keep to their own labels. *)
Kinds == /\ \A c \in Callers : pc[c] \notin {"passiveConn", "passiveHandshake"}
         /\ \A p \in Conns : pc[p] \notin (ActiveRunning \ PassiveRunning)

(* establishEnd runs when both attempts are over, on an establishment that *)
(* has not ended; establishEndFailed ends it before it leaves the map.     *)
EndInv == \A t \in Threads :
              /\ EsHeld(t) => /\ ~isEnd(es[ref[t]])
                              /\ ~isEstablishing(es[ref[t]].active)
                              /\ ~isEstablishing(es[ref[t]].passive)
              /\ pc[t] = "remove" => isEnd(es[ref[t]])

(* An establishment that has not ended is the map entry, or its session is *)
(* published and it is about to end.                                       *)
UnendedInMap == \A t \in Threads :
                    ref[t] \in Threads /\ ~isEnd(es[ref[t]]) =>
                        \/ establishments = ref[t]
                        \/ \E b \in Threads : pc[b] = "finish" /\ ref[b] = ref[t]

(* A connection kept by an attempt is that of a thread of the establishment. *)
ConnInv == \A u \in Threads :
               /\ es[u].active.conn # None => ref[es[u].active.conn] = u
               /\ es[u].passive.conn # None => ref[es[u].passive.conn] = u

KeptInv == \A t \in Threads :
               /\ pc[t] \in {"create", "lockSession", "publish"} =>
                      got[t] \in Threads /\ ref[got[t]] = ref[t]
               /\ pc[t] \in {"lockSession", "publish"} => sess[got[t]] # stateInit

(* A session is made only when the end of its establishment has begun. *)
FreshInv == \A k \in Threads :
                sess[k] # stateInit =>
                    /\ ref[k] \in Threads
                    /\ \/ isEnd(es[ref[k]])
                       \/ \E b \in Threads : /\ ref[b] = ref[k]
                                             /\ EsHeld(b)
                                             /\ pc[b] # "create"

ClosedInv == /\ \A k \in closing : sess[k] = stateClosed
             /\ closeRef # None => sess[closeRef] = stateClosed
             /\ sessions # None => sess[sessions] # stateInit

(* No session is alive when an establishment is on its way to one ... *)
NoLive == svcState # stateClosed =>
              \A t \in Threads :
                  pc[t] \in PastRecheck /\ ~isEnd(es[ref[t]]) =>
                      \A k \in Threads : ~Live(k)

(* ... and no other than its own when it has made one. *)
BuildsOnly == svcState # stateClosed =>
                  \A t \in Threads :
                      pc[t] \in {"lockSession", "publish"} =>
                          \A k \in Threads : Live(k) => k = got[t]

IInv == /\ TypeOK
        /\ NotStarted /\ RefInv /\ MutexInv /\ OwnActive /\ OwnPassive /\ Kinds
        /\ EndInv /\ UnendedInMap /\ ConnInv /\ KeptInv /\ FreshInv /\ ClosedInv
        /\ NoLive /\ BuildsOnly /\ LiveReachable

(* What Close relies on, beyond IInv: nothing is published any more, and   *)
(* once its Range has met the entry, the entry is not alive.               *)
CloseInv == /\ closePc # "none" => svcState = stateClosed
            /\ closePc \in {"close", "delete", "done"} /\ sessions # None => ~Live(sessions)

-----------------------------------------------------------------------------
(* What SettledAtEnd and ConnOwned rely on, beyond IInv.                   *)

(* An establishment that has ended with its active attempt at              *)
(* establishConnect.                                                       *)
EndedAtConnect(e) == isEnd(e) /\ e.active.state = establishConnect

(* Any other establishment ends when both of its attempts are over.        *)
EndsWhenOver ==
    \A t \in Threads :
        LET e == es[t]
        IN  isEnd(e) /\ ~EndedAtConnect(e)
                => ~isEstablishing(e.active) /\ ~isEstablishing(e.passive)

(* An active attempt runs on an establishment that has not ended, and up   *)
(* to the handshake it is at establishConnect.                             *)
RunsUnended ==
    \A c \in Callers :
        /\ pc[c] \in ActiveRunning => ~isEnd(es[ref[c]])
        /\ pc[c] \in {"recheck", "endExisting", "dial", "startHandshake"} =>
               es[ref[c]].active.state = establishConnect

(* Nobody takes an establishment out of the map that startActiveEstablish  *)
(* has ended.                                                              *)
StaleStays ==
    /\ \A u \in Threads : EndedAtConnect(es[u]) => establishments = u
    /\ \A t \in Threads : pc[t] = "remove" => ~EndedAtConnect(es[ref[t]])

(* A passive connection that is to start its attempt knows that a session  *)
(* can only come from the very establishment it has taken; when it has     *)
(* started it, there is none.                                              *)
PassiveSeesNone ==
    svcState # stateClosed =>
        \A p \in Conns, k \in Threads :
            Live(k) =>
                /\ pc[p] # "recheck"
                /\ pc[p] = "start" => \/ isEnd(es[ref[p]])
                                      \/ \E b \in Threads : EsHeld(b) /\ ref[b] = ref[p]

SettleInv == /\ EndsWhenOver /\ PassiveRecheckFindsNothing
             /\ RunsUnended /\ StaleStays /\ PassiveSeesNone

(* Only EndExisting ends an establishment at establishConnect: the history *)
(* is told by the state.                                                   *)
Recorded == \A u \in Threads : u \in found <=> EndedAtConnect(es[u])

-----------------------------------------------------------------------------
(* Connection k waits at its establishment e for the end, to be kept or    *)
(* not; it waits in vain when e has ended at establishConnect.             *)
WaitsIn(e, k) == /\ isSuccess(AttemptOf(e, k)) /\ AttemptOf(e, k).conn = k
                 /\ isEnd(e) => EndedAtConnect(e)

Waiting(k) == ref[k] \in Threads /\ WaitsIn(es[ref[k]], k)

OwnsConn == {"passiveConn", "start", "recheck", "endExisting", "dial", "startHandshake",
             "handshake", "aboutSuccess", "complete", "passiveHandshake", "success"}

NoConnYet == {"idle", "getEstablishment", "start", "recheck", "endExisting", "dial"}

(* Every open connection has an owner, one that is closed no live session, *)
(* and one that is not dialled yet is not open.                            *)
OwnerInv ==
    \A k \in Threads :
        /\ sess[k] = stateClosed => conn[k] = "closed"
        /\ k \in Callers /\ pc[k] \in NoConnYet => conn[k] # "open"
        /\ conn[k] = "open" => \/ pc[k] \in OwnsConn
                               \/ Waiting(k)
                               \/ Live(k)

(* Whoever ends an establishment has kept or closed each connection that   *)
(* waits for it, and has closed what it kept when it fails.                *)
KeepsOrCloses ==
    \A t \in Threads :
        /\ EsHeld(t) => \A k \in Threads :
               Waiting(k) /\ ref[k] = ref[t] /\ conn[k] = "open" =>
                   got[t] = k /\ pc[t] # "fail"
        /\ pc[t] = "finish" => got[t] \in Threads /\ sess[got[t]] # stateInit

ConnsInv == OwnerInv /\ KeepsOrCloses
=============================================================================
