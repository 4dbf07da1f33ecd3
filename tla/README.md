# A TLA+ specification of gcluster

gcluster is a Go library that gives the nodes of a cluster one *session* with
every other node. A node runs a `Service` (`src/net`); its sessions are dialled
by the node itself (*active*) or by the remote node (*passive*). When both dial
at the same time, the two services have to agree on one of the two connections,
without a coordinator and with clocks that differ. That protocol and its races
inside one node are the core of the code and of this project; around it stand the
life of a session from its start to its last tick, the heartbeats that keep it
alive, the lock-free path its packets are sent on, the bytes they become, and the
timer system below.

Contents: [the system](#the-system) · [the modules](#the-modules) ·
[the runs](#the-runs) · [fairness](#fairness) · [proofs](#proofs) ·
[what disagrees with the documentation](#where-code-and-documentation-disagree) ·
[not modelled](#not-modelled) · [plan](#plan).

## The system

| Component | Source | State it keeps | Operations | Talks to |
|---|---|---|---|---|
| Service | `net/service.go` | `state`, `sessions` (sync.Map by node id), `establishments` (sync.Map), `cTickSessions`, `cClosed`; `mutex` | `Start`, `Close`, `GetSession`, `Connect`, `onSessionClosed`, `onSessionTicker`, `loop` | listener, sessions, establishments, timer system |
| Establishment | `net/service_establish.go` | an `establishment` per remote node: `active` and `passive` attempt, `state`, `chEnd`, `session`, `err`; `mutex` | `Connect` … `activeEstablish*`, `onPassiveConn` … `passiveEstablish*`, `establishEnd`, `wait` | handshake, service maps, sessions |
| Handshake | `net/handshake.go` | none beyond the connection | write/read `HSApply`, `HSAccepted`, `HSRejected`, `HSCompleted`, `HSCompletedAck` under deadlines | remote service |
| Session | `net/session.go`, `net/session_packet_handler.go` | `state`, `core`, `lastActiveTime`, `lastHeartbeatTime`, `tickTimerId`; `mutex` | `start`, `close`, `closeBaseLocked`, `Send`, `tick`, packet handlers | service, core (gnet), timer |
| Sending | `net/session.go`, `net/session_io.go` | `pendingPackets`, `waitNotify`, `pendingPacketsNotify`, `chClose`; the write buffer | `send`, `sendDirect`, `SessionPendingPacket`, `SessionWritePacket` | the write loop of the core |
| Packet codec | `net/packet.go`, `net/proto_type.go`, `net/session_io.go` | batch counters | read and write of the 6-byte head and the payload | connection |
| Timer system | `net/timer_heap.go`, `net/timer.go` | heap and map of timers, one system timer, `stopped`; `mtx` | `StartTimer`, `StopTimer`, `Stop`, `update` | callbacks |
| Agent | `cluster.go`, `option.go`, `center/` | a service and a data centre | `ConnectNode`, `Send2Node` | service, data centre |
| Configuration | `net/service.go`, `net/session.go`, `net/handshake.go` | none | `init` (defaults and checks) | |

How they interact. `Service.listen` starts a goroutine `onPassiveConn` for each
accepted connection; every `Connect` runs on its caller's goroutine. Both find
or create the establishment of the remote node in `establishments`, run one
attempt of it, and the attempt that is over last runs `establishEnd`: it makes
a session of the connection that is kept, closes the other one, starts the
session, and publishes it, under the service's mutex, in `sessions`. The
others wait on `chEnd`. A session dies by itself (its core calls
`SessionOnClosed`) or by `Service.Close`; `onSessionClosed` takes it out of
`sessions` when the entry is still its own. While it lives, senders put packets
into its queue and the write loop of the core takes them out; the timer system
sends the service a tick per session, on which the active end sends heartbeats
and the passive end asks to close when the session has been idle.

What makes it correct, component by component.

* *Establishment on one node.* At most one live session with a remote node; a
  live session is reachable through the map; no connection is leaked; whoever
  is last ends the establishment, exactly once; every `Connect` returns; `Close`
  leaves nothing alive.
* *Handshake between two nodes.* The two nodes keep the same connection; if an
  ack is lost, the end that believes in a session finds out.
* *Sending.* No lost wakeup; nothing is left behind in the write buffer; what is
  written is what was accepted, in order.
* *Packet codec.* However bytes are batched, split and joined, the reader gets the
  packets that were accepted, all of them.
* *Session life cycle.* Close runs once, whoever closes; nobody waits for a lock
  that stays locked; `Service.Close` leaves no session behind.
* *Service ticker.* Timers come and go with the sessions; a live session is ticked;
  the goroutine of all timers is never held up for good.
* *Keep-alive.* A session whose connection is whole is not closed by the read
  deadline, one in use is not closed for inactivity, an idle one is, and a peer
  that is gone is noticed.
* *Timer system.* The system timer is always armed for the first timer; nothing
  runs after `Stop`.

What is hard to test is listed, at its line, under `hazards` in `PROJECT.json`.

## The modules

| Module | Models | Kind |
|---|---|---|
| `Establishing` | `establishing`, `establishment`: the two state machines and the decision of `establishEnd` | operators on records |
| `ServiceEstablish` | one `Service` and one remote node: `Connect`, passive connections, dying sessions, `Start` and `Close` | state machine |
| `ServiceEstablishInv` | its inductive invariant `IInv`, and what `CloseLeavesNothing`, `SettledAtEnd` and `ConnOwned` need beyond it | invariant |
| `ServiceEstablishProofs` | that `IInv` is inductive, and what follows | proofs |
| `ServiceSettleProofs` | what `Service.Close` leaves alive, when an establishment ends, who owns an open connection | proofs |
| `Handshake` | two services that may dial each other, the five messages, faults | state machine |
| `HandshakeProofs` | its inductive invariant, what holds whatever fails, and that it implements `PairConnection` when nothing fails | proofs |
| `PairConnection` | what two services promise when nothing fails: one connection, kept by both | abstract specification |
| `SessionSend` | senders, queue, wakeup, write loop, write buffer, close | state machine |
| `PacketFifo` | what `Send` promises: acceptance order, each packet once | abstract specification |
| `SessionSendProofs` | that `SendInv` is inductive and `SessionSend` implements `PacketFifo` | proofs |
| `TimerHeap` | `NewTimerHeap`, `StartTimer`, `StopTimer`, `Stop`, `update`, `loop` and the system timer | state machine |
| `TimerHeapProofs` | that `TimerInv` is inductive | proofs |
| `TimerSystem` | what `TimerSystem` promises to those who start timers | abstract specification |
| `SessionLife` | the sessions of one service and their tick timers: `newSession`, `start`, publication, `closeBaseLocked`, `Service.Close`, `onSessionTicker`, `loop`; built on `TimerSystem` | state machine |
| `SessionLifeProofs` | its inductive invariant, and that it uses timers as `TimerSystem` allows | proofs |
| `KeepAlive` | the two ends of one session and their clocks: ticks, heartbeats, close requests, read deadlines; `SessionConfig.init` | state machine |
| `KeepAliveProofs` | its inductive invariants, and that heartbeats keep a session alive | proofs |
| `PacketStream` | one direction of a session as bytes: write buffer, connection, read buffer; implements `PacketFifo` | state machine |
| `PacketStreamProofs` | that `StreamInv` is inductive and `PacketStream` implements `PacketFifo` | proofs |
| `MCServiceEstablish`, `MCHandshake`, `MCSessionSend`, `MCTimerHeap`, `MCSessionLife`, `MCKeepAlive`, `MCPacketStream` | instances for TLC | model checking |

How they fit together. `Establishing` holds the operators that `ServiceEstablish`
(one node, every race) and `Handshake` (two nodes, coarser steps) share.
`SessionLife` takes over where `ServiceEstablish` has a session only alive or
closed: it opens up `start`, `close` and the timers, and in turn takes an
establishment as one builder per session. It instantiates `TimerSystem`, and
`TimerHeap` implements it, by a proved theorem. `KeepAlive` says why sessions
die: it is both ends of a session at once, of which `SessionLife` has one.
`SessionSend` and `PacketStream` are the same path at two levels, both
refinements of `PacketFifo`: threads and wakeups with packets as values, and
bytes with a single writer.

Definitions carry the names of the Go functions where they can; the `map` of
`PROJECT.json` gives the lines each one stands for. `Name_Variant` operators are
wrong versions of `Name`, kept to show which property depends on what that code
does.

### Establishing

The methods of `establishing` and `establishment` return new records instead of
assigning fields; where a method also reports success, a `can…` operator gives
the report. A nil attempt is the attempt in state 0. `keptConn` and
`droppedConn` are the switch of `establishEnd`: which connection becomes the
session, which one is closed. `ServiceEstablish` and `Handshake` share them.

### ServiceEstablish

One service and one remote node id: the code keeps no state that spans remote
node ids on these paths. A thread is a `Connect` call or an accepted connection
with its goroutine, and names what it allocates: the establishment it stored,
its connection, and the session made of that connection.

| Code | Model |
|---|---|
| `Service.state`, entries of `sessions` and `establishments` at the remote id | `svcState`, `sessions`, `establishments` |
| `establishment`, its mutex | `es[t]`, `esMutex[t]` |
| program counter and locals of a goroutine | `pc[t]`, `ref[t]` (establishment), `got[t]` (session) |
| `net.Conn`, `session.state`, between close and `onSessionClosed` | `conn[t]`, `sess[t]`, `closing` |
| `sessionMap.close` inside `Service.Close` | `closePc`, `closeRef`: close the session (or find that another has closed it), then delete the entry |

`found` is a history variable, no state of the code: the establishments that
`startActiveEstablish` has ended because it found a session
(`service_establish.go:149`). Two properties except them, and only them.

A step ends wherever another goroutine can look: at every section under
`establishment.mutex`, at every section under `Service.mutex`, at every access
of the sync.Maps outside of a lock, at I/O. `Service.mutex` is never held across
a step and needs no variable; `establishment.mutex` is held by `establishEnd`
across several. The remote node is whatever an I/O step may report: accepted,
rejected, error, timeout. `core.Start` may fail. A node that connects to itself
gets its local session from the first `GetSession` and never comes here.

`close` of a session is two steps, because anything may happen between the
change of state and the `compareAndDelete` of `onSessionClosed`. A session may
die at any time after it has started, also while it is being published.

### Handshake

Two services, up to `MaxCalls` `Connect` calls each, one after the other, the
connections they dial and the messages on them. A node dials again when an attempt
has failed or a session has died, so a new apply may meet the session or the passive
attempt that the other node still keeps from the last one, and an apply that is
still under way may be accepted although its dialler has given up. The races inside one node are those of `ServiceEstablish`;
here a critical section with what leads to it is one step, so that the
interleavings explored are those of the two nodes. Start times are chosen freely
from `Times`: the clocks of the nodes are unrelated. A behaviour is `faulty` or not
from its beginning, so that one instance shows what the protocol guarantees when
nothing fails and what is left when anything may. In a faulty one, an attempt
may fail at every read or write, before or after the other node has acted on a
message; a connection may go dead (`Lose`); and the write of an ack may report
an error although the ack arrives (`WriteCompletedAckFails`: `writeProto` writes
the head, then an empty payload, and the deadline may pass between the two).
Messages are their types; a wrong type, a wrong token or a malformed message is
a failed read.

### SessionSend

The sending half of one session. The sender and the write loop share no lock, so
every access of the queue, of `waitNotify` and of the two channels is a step.
The queue gives what it holds in order and refuses when full or closed; once
closed, it may or may not still give what it holds. Packet sizes, the buffer
size, `BatchWriteLimit` and `BatchWriteTimeLmit` are abstracted to when a flush
may happen: `Write` leaves the packet in the buffer (only when `more` is said),
flushes before it, or flushes after it. A flush that fails may have written any
prefix. The core is the loop `SessionPendingPacket`, `SessionWritePacket` until
one returns an error, then `SessionOnClosed`.

### TimerHeap

One timer system. A step is a section under `mtx`, a read of the clock without
it, a callback, or a step of the system timer. The heap is the set of its timers
with the order `HeapLess`; `armed` is the time the system timer is set to and
`tick` the value in its channel, with the semantics of Go 1.23 (`go.mod`): a
timer that is stopped or reset leaves nothing in the channel. `StartTimer` reads
the clock before it takes the lock, and so does `update`; both reads are steps of
their own. What a callback does with the timers is among the steps of the other
goroutines, since it runs without the lock; that it returns is assumed. One clock
serves `time.Now` and the system timer: a wall clock that is set back or forth is
not modelled.

### SessionLife

One service with sessions `<<n, i>>`, the i-th with node n. The goroutine that ends
the establishment, the *connector*, makes, starts, locks and publishes a session;
it, the core, the reader (close request) and `Service.Close` may close it.

| Code | Model |
|---|---|
| `Service.state`, `cClosed`, `sessions`, the `Range` of `sessionMap.close` | `svcState`, `cClosed`, `sessions`, `closing`, `visited`, `target` |
| `session.state`, `mutex`, `tickTimerId`, `core`, `chClose` | `state[s]`, `mutex[s]`, `tickTimerId[s]`, `core[s]`, `released[s]` |
| program counters of the connector and of the closer that has won | `est[s]`, `pc[s]`, `by[s]` |
| the timers and the goroutine of the `TimerSystem` | `timers`, `ringing` |
| `cTickSessions`, `loop` | `cTickSessions`, `loopDone` |

`close` does not take `session.mutex`, so a section under it is not a step: `start`
is three. `closeBaseLocked` is four: the exchange of the state with the closes that
follow it, the look at the state of the service in `stopSessionTicker`, the stop of
the timer, `onSessionClosed`. A reader that closes with the lock held
(`closeBaseLocked(err, true)`) keeps it locked when another one was first, as the
code does; `ConnectorEnds` shows that nobody is waiting. An inactive close is asked
for after publication only: `InactiveTimeout` is longer than publishing takes. This is an
assumption about time, not a guard of the code: without it a reader could close the
session, and leave the mutex locked, before the connector comes to lock it.

`TimerFires` leaves out callbacks on a closed service, which return at once. What a
tick does is in `KeepAlive`; here it is `Ticks(s)`, the loop taking the node of s
while s is its session.

### KeepAlive

Both ends of one session. The code compares `time.Now` with stored times; the model
keeps the *age* of each stored time, no further than a comparison asks (`activeAge`
up to `InactiveTimeout`, `beatAge` up to `HeartbeatTimeout`). `Elapse` is one unit of
time at both ends. It is blocked by what may not be later than assumed: a packet
arrives within `MaxDelay` (queue, write, network and read together), a tick is
handled within `MaxLag` of its timer, a read ends by its deadline. Between those
limits everything may be early or late. The two ends start within one tick of each
other and use the same configuration.

`withDefaults` and `accepted` are the part of `SessionConfig.init` that concerns
times; TLC checks the instances that `init` accepts, and `DelayAssumption` says how
much margin a configuration has to leave:
`HeartbeatTimeout + TickInterval + MaxLag + 2 * MaxDelay < ReadWriteTimeout`. The
checks of `init` alone (`TickInterval` at most a third and `HeartbeatTimeout` at
most half of `ReadWriteTimeout`) leave a sixth for all lateness. With a
`ReadWriteTimeout` of 2ns the default tick is 0 and `StartTimer` panics;
configurations below the margin are not considered.

Applications send requests that the other end answers at once, send without being
answered (`raw`), and call `GetSession`; which of these happen is a constant of the
instance. `closeRefused` is a `closeResp` that does not pass; no code sends one that
passes. The connection may be cut without a sign. When an end closes, what is under
way to it is lost and any part of what it has sent still arrives, followed by the
end of the stream. A queue that is full when a heartbeat is sent is left out.

### PacketStream

One direction, byte by byte: `SessionWritePacket` with `writeFull` and
`writeFromBuffer`, the connection, `SessionReadPacket` with `readFull` and
`readToBuffer`. A `Write` of the connection may take any part, a read gives any part
of what has arrived. The length in the head is four digits of base `Radix`, 256 in
the code; a small one makes lengths with several digits short. `batchWriteCount`
counts heads and payloads apart, so a batch is about half of what `BatchWriteLimit`
promises; `BatchWriteTimeLmit` may be over at any time. Failing writes are in
`SessionSend`.

## The runs

Deadlock checking is off in all of them: the calls of an instance are finite, and
the system may stop when they have all returned. That nothing waits for ever is
stated by the liveness properties instead.

| Run | Instance | Question | Distinct states |
|---|---|---|---|
| `establish` | any 3 of 2 calls and 2 connections, times {1, 2}, applies at 1 | Calls and passive connections race, sessions die, the service closes: is there ever a second live session, a live one out of reach, an attempt that still runs when its establishment ends, a leaked connection? | 1 600 000 |
| `establish_live` | any 2 of 2 calls and 2 connections | Do all of them always return? | 52 000 |
| `establish_stale` | 1 call, 1 connection | *Violation*: does an ended establishment leave the map? | until found |
| `handshake` | 2 nodes, any 2 calls with times {1, 2}, any 3 with equal times; with and without faults | Without faults: do both nodes keep the same connection, does a call succeed? With faults: what holds, and do the nodes agree in the end? | 166 000 |
| `send` | 2 senders of 2 packets, queue of 2 | Is a wakeup lost, a packet left behind, lost, doubled or overtaken? Is an accepted packet written, and does the write loop end? | 150 000 |
| `stream` | 2 packets of 4 shapes, buffers of 8 and 4 bytes, batches of 3 | Does the reader get what was accepted, in order and all of it? | 47 000 |
| `keepalive` | ReadWriteTimeout 9, tick 2, heartbeat 3, inactive 10; delay and lag 1 | Is a session ever closed that should live, does an idle one ever stay, is a lost peer noticed? | 377 000 |
| `keepalive_oneway` | the same times; `GetSession` at the active end, no traffic | *Violation*: does the read deadline only strike when the connection is cut? | until found |
| `session` | 1 node, 2 sessions, room for 1 tick | Is a session released once, ticked while it lives and only then, does anybody block for ever, does `Close` leave anything? | 75 000 |
| `session_leak` | 1 node, 1 session | *Violation*: does a session that is closed lose its timer? | until found |
| `timers` | 2 timers, delays {1, 2}, time up to 3 | Is a timer ever without a wakeup? Does every timer that is due fire? Is this a `TimerSystem`? | 102 000 |
| `timers_stop` | 2 timers, delays {1, 2}, time up to 3 | *Violation*: does `Stop` end the goroutine? | until found |

### What the properties say

*ServiceEstablish.* `AtMostOneLive`: never two live sessions with the remote
node while the service runs. `LiveReachable`: a live session is the map entry or
is about to be. Once `Close` has begun, a session may be alive that its builder
will be refused, so `AtMostOneLive` speaks of the running service, and
`CloseLeavesNothing` of what is left when `Close` has been through the map.
`PassiveRecheckFindsNothing`: the second look of `startPassiveEstablish` is never
successful, which matters because that branch does not close the connection.
`SettledAtEnd`: when an establishment has ended, its active attempt is the work of
nobody any more, always, so that `startActiveHandshake` never drops a connection that
has just been dialled; and both attempts are over, unless the end is in `found`, where
a passive attempt may run on. `ConnOwned`: every open connection has an owner: the
thread at work on it, an attempt waiting for the end of its establishment, or a live
session. The one exception is a passive connection whose handshake succeeds on an
establishment in `found`: it is never closed. This leak is real, in the code and in the
model; what `ConnOwned` shows is that it is the only one. `EveryCallReturns`: nobody
waits on `chEnd` or for a mutex for ever.

*Handshake.* `KeepSameConnection` (refinement of `PairConnection`) and
`ConnectSucceeds` when nothing fails. With faults the two ends may disagree for a
while: `ActiveSuccessBacked` says what the third and fourth messages are for,
`SessionHasPeer` that an end without a session never keeps holding the other
end's connection, `SplitHeals` that the nodes agree in the end, and
`AttemptsSettle` that a dead peer cannot hold an attempt.

*SessionSend.* `NoLostWakeup`, `NothingBufferedAsleep`, `SendsInOrder` (refinement
of `PacketFifo`); `AcceptedIsWritten` and `WriterStops` under fairness.

*PacketStream.* `ReadsWhatWasSent` (refinement of `PacketFifo`) and `AllArrives`: no
packet that `send` lets through is refused by the reader, whose length checks are
elsewhere, and the last one leaves the buffer.

*KeepAlive.* `DeadlineMeansCut` relates the clocks of both ends, the ticks and the
packets under way. `InactiveCloseLosesNothing`: the end that closes on a close
request has nothing under way that it has accepted; what the other end sends after
its own request may be lost, by design. `IdleIsClosed`: `inactive` is reached at both
ends however heartbeats, ticks and refusals fall. `LossIsNoticed`: only packets that
are read put the deadline off.

*SessionLife.* `ReleasedOnce`: a second `close` of `chClose` would panic, and
none is closed before `core.Start` has been called.
`TimersFollowSessions`: while the service runs. `LiveIsTicked`: ticks go by node id
through a bounded channel, and an older session with the same node is closing at the
same time. `CallbackEnds`, `ConnectorEnds`, `CloseEndsAll`.

*TimerHeap.* `SysTimerCovers`: while the goroutine sleeps, the system timer is
set no later than any timer expires. It relates the heap, the system timer and
its channel, and four operations keep it. `DueTimersFire` under fairness.
`ImplementsTimerSystem`: what `SessionLife` relies on.

### Bounds, and why they are enough

* `ServiceEstablish`: threads are two `Connect` calls and two passive connections,
  of which any three may begin (`AnyThree`). Two threads of a kind are what it takes
  to share an establishment, to be the waiter and the ender, and to come after one
  that is over; one of the other kind next to them makes both attempts run. A search
  with all four was stopped after the first 120 million states, without a finding, and is
  not kept. The invariants
  that are proved hold for any number of threads. `Times = {1, 2}` for active attempts
  and 1 for passive ones (`OneApplyTime`): equal times keep the active connection, later
  ones the passive, and the order of times decides nothing else. The same run with both
  times for both (3 700 000 states) found nothing either; it is not kept, as it needs
  twice the time.
* The liveness instance lets any two threads begin (`AnyTwo`): two attempts that may
  have to wait for each other, two calls or two connections that share an
  establishment or follow on one. Its times are all equal, since the order of start
  times only chooses which connection is kept.
* `Handshake`: the two nodes, all four messages of every connection. Two calls are
  two nodes that dial each other, or one that dials again, with start times in every
  order; three are a redial while the other node dials too, with equal times, which
  is the order that needs the node ids. Channels need no bound: a connection carries at most two
  messages each way.
* `SessionSend`: two senders of two packets each; a queue of two is full
  when a third packet comes. Two senders are what it takes for
  one to be refused or to leave the token while another one is between `Enqueue`
  and the load of `waitNotify`.
* `TimerHeap`: two timers are a top and one to follow it, which is what handing
  the system timer over takes; delays of 1 and 2 make a later timer expire
  before, with or after an earlier one. Three timers (825 000 states up to time 2)
  were run for the invariants as well and are not kept, since these are proved
  for any number. `MaxTime` stops the clock; timers that expire later stay
  in the heap.

* `PacketStream`: two packets are one that shares a buffer, or a batch, with the
  next. The write buffer of 8 bytes holds a head and a part of a payload, so packets
  are split at every place; the read buffer of 4 is smaller than a head. Three
  packets (same buffers) passed as well, in four and a half minutes.
* `KeepAlive`: times as small as the margin allows. A heartbeat is repeated twice and
  the passive end asks to close several times before `InactiveTimeout` is over at
  both; one request or reply of the applications is under way at a time, while the
  packets of the session itself are not bounded. Of the configurations of the
  instance four are refused by `accepted`.
* `SessionLife`: two sessions with one node are what it takes for a late close to
  meet a new session, and with two timers and room for one tick the channel is full
  half of the time.

## Fairness

* A goroutine that can go on does: weak fairness of each thread's own steps, not
  of the calls, of the arrival of connections, or of the death of sessions.
* Mutexes: a thread that waits for `establishment.mutex` gets it. The holder
  always goes on to release it and nobody takes it twice, so weak fairness is
  enough in these instances.
* I/O ends: dialling has a timeout, every handshake read and write a deadline,
  a flush `ReadWriteTimeout`. In the models the steps that read or write are
  always enabled to fail or get an answer by then.
* A session whose connection the other end has closed notices it (its read
  fails, at the latest by the read deadline): `NoticeClosed`.
* In `KeepAlive` time goes on and what is due is done: the assumptions on `MaxDelay`
  and `MaxLag` are about safety, the fairness says that time does not stop.
* In `PacketStream` the write loop and the read loop go on, and the connection
  carries what it has taken.
* In `SessionLife` goroutines go on, and a periodic timer that is not stopped fires
  again and again, whenever the goroutine of the timers is free: strong fairness of
  `TimerFires`, since that goroutine is busy with other callbacks in between.
  `DueTimersFire` of `TimerHeap` is what justifies it.
* In `TimerHeap` time goes on, the system timer goes off when it is due, and
  callbacks return.
* In `SessionSend` a failing flush is forced only when the core is closed; a
  write is otherwise free to succeed.

## Proofs

TLAPS proves the following for every value of the constants that satisfies the
named assumptions: any number of `Connect` calls and passive connections, any
start times, either order of the node ids; any set of senders, any number of
packets, any queue size of at least one; any number of timers, delays, nodes and
sessions; any packets, buffer sizes and radix of lengths; any configuration that
`SessionConfig.init` accepts, and any delays and lags. The assumptions are what
the code gives: node ids are ordered and two nodes have different ones, start times
are integers, `nil` is no connection, node or session, a channel or a buffer has room
for at least one, a packet has a type of one byte and a length that its sender lets
through, which four digits hold. `KeepAlive` assumes the margin of `DelayAssumption`
for each configuration, and that a tick timer is not later than its period.
`HeartbeatsKeepAlive` has one hypothesis more, `Answering`: applications send requests
that are answered, and that of the active end does not call `GetSession`. The run
`keepalive` is an instance of it, and `keepalive_oneway` shows what happens without.

| Theorem | Module | Says |
|---|---|---|
| `Invariance` | `ServiceEstablishProofs` | `Spec => []IInv` |
| `TypeCorrect` | | `Spec => []TypeOK` |
| `OneLive` | | `Spec => []AtMostOneLive` |
| `LiveIsReachable` | | `Spec => []LiveReachable` |
| `CloseIsThorough` | `ServiceSettleProofs` | `Spec => []CloseLeavesNothing` |
| `EndsWhenBothAreOver` | | `Spec => []SettledAtEnd` |
| `PassiveSecondLookIsVain` | | `Spec => []PassiveRecheckFindsNothing` |
| `EveryConnIsOwned` | | `Spec => []ConnOwned` |
| `HandshakeInvariance` | `HandshakeProofs` | `Spec => []IInv` |
| `HandshakeTypeCorrect` | | `Spec => []TypeOK` |
| `AckMeansPeerIsPast` | | `Spec => []ActiveSuccessBacked` |
| `NoSessionIsHalf` | | `Spec => []SessionHasPeer` |
| `PairInvariance` | | `Spec => [](IInv /\ FInv)` |
| `BothKeepTheSame` | | `Spec => KeepSameConnection`, that is, `Handshake` without faults implements `PairConnection` |
| `SendInvariance` | `SessionSendProofs` | `Spec => []SendInv` |
| `SendTypeCorrect` | | `Spec => []TypeOK` |
| `WakeupsArrive` | | `Spec => []NoLostWakeup` |
| `FlushedBeforeSleep` | | `Spec => []NothingBufferedAsleep` |
| `WrittenInOrder` | | `Spec => SendsInOrder`, that is, `SessionSend` implements `PacketFifo` |
| `TimerInvariance` | `TimerHeapProofs` | `Spec => []TimerInv` |
| `TimerTypeCorrect` | | `Spec => []TypeOK` |
| `NoTimerForgotten` | | `Spec => []SysTimerCovers` |
| `StopSilences` | | `Spec => []StoppedIsSilent` |
| `HeapIsATimerSystem` | | `Spec => ImplementsTimerSystem`, that is, `TimerHeap` implements `TimerSystem` |
| `LifeInvariance` | `SessionLifeProofs` | `Spec => []LifeInv` |
| `LifeTypeCorrect` | | `Spec => []TypeOK` |
| `ChCloseIsClosedOnce` | | `Spec => []ReleasedOnce` |
| `TimersFollow` | | `Spec => []TimersFollowSessions` |
| `TicksComeFromATimerSystem` | | `Spec => TimerSys!Spec` |
| `StreamInvariance` | `PacketStreamProofs` | `Spec => []StreamInv` |
| `StreamTypeCorrect` | | `Spec => []TypeOK` |
| `NothingIsRefused` | | `Spec => []~rejected`: the safe half of `AllArrives` |
| `ReadsInOrder` | | `Spec => ReadsWhatWasSent`, that is, `PacketStream` implements `PacketFifo` |
| `KeepInvariance` | `KeepAliveProofs` | `Spec => []KeepInv` |
| `KeepTypeCorrect` | | `Spec => []TypeOK` |
| `NothingIsLostByIdleClose` | | `Spec => InactiveCloseLosesNothing` |
| `BeatInvariance` | | `Answering` gives `Spec => [](KeepInv /\ BeatInv)` |
| `HeartbeatsKeepAlive` | | `Answering` gives `Spec => []DeadlineMeansCut` |

**One live session.** That two sessions are never alive at once does not follow
from itself: a session is made a long way after anybody looked. The argument of
`IInv` is about establishments. An establishment that has not ended is the map
entry, or the session made for it has just been published (`UnendedInMap`), so
there is only one that can still lead to a session. A thread past its second look
knows that no session is alive as long as its establishment has not ended
(`NoLive`): the second look comes after the attempt was started, and whoever
could have published a session since would have had to end this very
establishment. An attempt has one owner (`OwnActive`, `OwnPassive`), the end of
an establishment is run once, by the thread that holds its mutex, when both
attempts are over (`MutexInv`, `EndInv`), and a connection kept by an attempt
belongs to a thread of that establishment (`ConnInv`, `KeptInv`), which makes the
session fresh (`FreshInv`). The builder then knows that no session but its own is
alive (`BuildsOnly`), and `LiveReachable` follows: what is published overwrites
nothing alive, and a late `compareAndDelete` only removes its own entry. The
proof has a lemma for the operators of `Establishing`, one for each kind of step
(`MoveSteps`: only a program counter moves; `HandshakeSteps`, `OverSteps`: an
attempt advances or is over; one lemma for each step of `establishEnd`, of the
maps and of the sessions), and under it a step for each conjunct that the action
can disturb.

**How establishments end.** `SettledAtEnd` rests on three facts.
`RunsUnended`: a call whose attempt runs, dialling included, keeps its establishment
from ending. `EndsWhenOver`: both attempts of an ended establishment are over, unless it
has ended with the active one at `establishConnect`. `Recorded`: these are exactly the
establishments in `found`, so the history can be read off the state. The second look of a passive connection
is vain because of `PassiveSeesNone`: the connection took its establishment under
the lock under which it saw no session, so a session can only come from that same
establishment, and as long as its mutex is free there is none; once the passive
attempt has started, that establishment cannot end without it. `StaleStays` says that an
establishment which `startActiveEstablish` has ended stays in the map, so that no
session is made after it. For `ConnOwned`, `KeepsOrCloses` follows whoever ends an
establishment through its steps: each connection that waits there is the one kept
or has been closed, and what was kept is closed when the session cannot be made.

**Handshake, whatever fails.** Each message vouches for its sender: when
`HSCompleted` is under way, or the passive side has read it, the dialler is at
`waitAck` or beyond (`CompletedBacked`); when the ack is under way or read, the
passive side is past its last point of failure, or has closed (`AckBacked`). With
this, an attempt that has been won holds its connection, in the establishment or in
a session, until its end is closed (`WonActive`, `WonPassive`); an establishment
that keeps one connection closes the other. `SessionHasPeer` is then a matter of cases.

**Handshake, when nothing fails.** `PairInv` is the invariant of the behaviours
without faults. `Links` gives, for each connection, the seven situations its two
ends and the at most one message under way may be in; so no read fails, and an
attempt fails only when it is rejected, by a node that has a session (`Rejecters`).
No node dials twice (`OneCall`): an attempt either fails where there is a session
already, or wins. `SameTimes` says that both nodes compare the same two start times,
since the apply carries the dialler's; the tie-break by ids is antisymmetric, so two
nodes with two connections prefer the same one (`ChooseAlike`). The heart is
`Agree`: when one node has kept a connection, the connection stays open at both
ends, and the other node has kept it too or, if it has two to choose from, prefers
it. Each `establishEnd` is then a `Keep` of `PairConnection` (`PairEnd`), and no other step
changes a session (`PairQuiet`, `SessionsStay`).

**Sending.** `SendInv` says what the write loop knows at each label. The heart of
`NoLostWakeup` is that `waitNotify` is true from before the second `Dequeue` until
the loop has a packet again: a packet that the second look missed was enqueued
after it, so its sender is still to load `waitNotify`. That nothing is buffered
in the sleep needs that `more` is only said when the queue still has a packet and
that nobody but the write loop takes one out. For the refinement, `pending` is
buffer, then current packet, then queue; a `Dequeue` moves a packet inside it and
stutters, `Enqueue` appends to its end, and a flush delivers a prefix.

**Close.** `CloseInv` adds to `IInv` that `Close` is only under way when the
service is closed, so nothing is published any more, and that the entry its
`Range` has met is not alive; a session that is being made is not that entry,
because the entry has been started before. With `LiveReachable`, whatever is
alive afterwards is in the hands of a builder.

**Timers.** `SysTimerCovers` is nearly inductive by itself: a new timer that is
not the top has one before it, and the top that is stopped hands the system timer
to the next one. It needs that ids are given out once (`IdsAreFresh`). For the
refinement, an expiry in `update` is a `Fire`, the return of its callback a `Return`,
and all else that the goroutine and the system timer do is invisible; a `StartTimer`
that comes after `Stop` stutters.

**Sessions and their timers.** `LifeInv` orders the life of a session: what a
publisher, a closer and the reader of its core may each still do, given its state.
`released` counts the closings of `chClose`; since only the winner of the
`CompareAndSwap` in `closeBaseLocked` gets past it, the count is fixed by the
closer's position. `TimerInv` says who still has the timer: it is in the timer
system, under the id that the session has stored, until the closer has stopped it.
`SessionLife` takes steps of `TimerSystem` only, so a `TimerHeap` will do below it.

**Packets as bytes.** `Flow` is everything between the two ends in the order in which
it is read: the head and payload read so far, read buffer, connection, write buffer, and
what `writeFull` still has. `FlowInv` says that `Flow` consists of the frames of the packets
that were taken from the queue and not read yet. Every round of `writeFull`,
`writeFromBuffer`, `readToBuffer` and `readFull` moves bytes from the front of one part to
the end of the part before it, which leaves `Flow` as it is (`Shift`);
`SessionWritePacket` appends a frame, `readPacket` takes the first one away. Since an
induction over the packets is out of reach, `Frames` is stated with the places where one
packet ends and the next begins (`Cut`), not by recursion. So whenever six bytes have been
read they are the head of a packet that was sent; `HeadIsRead` is the arithmetic of
`setPayloadLen` and its reading, and the sender's limits are those of the readers, so
nothing is refused and the payload is read to its end and no further.

**Keep-alive.** `KeepInv` holds whatever the applications do. Sending is a use
(`SendIsUse`): what an end has under way from its application is at least as old as its
last use, and an end that closes for inactivity was last used longer ago than any packet
is under way. `BeatInv` adds, for each end of a connection that is whole, how long ago it
may have read something. The active end pauses for `maxPause` at most: a heartbeat, one
tick and the lag. `PassiveHears` bounds the age of the passive end's read by that pause
and the age of the first packet under way; with nothing under way it says which of the
last use, the last heartbeat or the one that is due the read is measured from. Its second
disjunct, a read late by `MaxDelay` at an active end used lately, is there because a reply
that the active end has just read was fresh at the passive end when it was sent
(`RepliesAreFresh`). `ActiveHears` follows the heartbeat or request to the other end and
its answer back, hence the two `MaxDelay` of the margin. Only the active end closes of
itself (`ActiveClosesFirst`): the passive end asks, and gets no consent while the active
end was used lately. After that `EofArrives` takes over, so the passive end reads the end
of the stream before its deadline. Each step of an end has its lemma (a use, a tick, a
packet read, a close, the end of the stream), and `TimeKeepsBeat` is the step of time, the
only one by which a bound can be missed.

Every invariant that the runs check, their safety action properties and every refinement
are proved. Only model-checked: liveness and everything under fairness, which is out of
the prover's reach, as is `ENABLED`.

## Where code and documentation disagree

Each is a run that is expected to find a violation, and a finding in
`PROJECT.json`.

* `EndedLeavesMap` (`establish_stale`). When `startActiveEstablish` finds a
  session on its second look, it ends the establishment but leaves it in
  `establishments`. `Connect` then answers from it as soon as `GetSession` finds
  nothing: it returns the session found then, dead by now, with a nil error, and
  applies of that node are rejected. A passive attempt that runs at that moment leaks
  its connection, which `ConnOwned` excepts; all other connections of such an
  establishment have an owner.
* `StopEndsLoop` (`timers_stop`). `update` does not look at `stopped`. When `Stop`
  comes between two of its sections, it calls `Len` of the nil heap and the
  goroutine panics. A callback that calls `Stop` always does this.
* `EndedHasNoTimer` (`session_leak`). `Service.Close` sets the state to closed before
  it closes the sessions, and `stopSessionTicker` returns early on a closed service:
  the periodic timers of all sessions that were open stay in the timer system.
* `DeadlineMeansCut` (`keepalive_oneway`). The active end sends no heartbeat while
  `lastActiveTime` is young, and `GetSession` and received packets keep it young
  without sending anything: the passive end, which hears nothing, closes by its read
  deadline. The same instance with traffic from the passive end to the active one,
  and no answers, fails in the same way.

Two more were met on the way and are not kept as runs. A session that its core closes
between `lockState` and `sessions.add` (`service_establish.go:565-579`) is added after
its own `compareAndDelete` and stays in `sessions`, closed, until the next session
replaces it or `Close` removes it; `getSession` filters it out. And the comments
promise that of two connections the one established first is kept
(`service_establish.go:15`, `service.go:82`), while the code keeps the one started
first, which is the rule both ends can evaluate alike.

## Not modelled

* *Agent*: `ConnectNode` is `GetSession`, a lookup in an external data centre, and
  `Connect`; `Send2Node` adds a `Send`. It keeps no state of its own.
* *Local session*: no state.
* *Configuration*, but for the times in `SessionConfig.init`: single checks of
  values that no model depends on.
* *Recycling of byte buffers* (`getBytes`, `putBytes`): left to the application's
  buffer manager; a packet that is written is handed back by `SessionWritePacket`.
* *The framing of handshake messages* (`handshake.go`): the message types stand for
  it; a wrong type, token or length is a failed read.
* *Logging, errors' wording, options, generated protobuf code*: nothing a
  property could be about.
* *gnet, gmpsc, heap, buffer*: libraries outside the repository, modelled by the
  callbacks and results the code relies on and marked external.

## Plan

1. *Core (done)*: `Establishing`, `ServiceEstablish` with its invariant and
   proofs, `Handshake`, `SessionSend` and `TimerHeap` with their proofs.
2. *Extension (done)*: `TimerSystem` and its refinement, `SessionLife`, `KeepAlive`,
   `PacketStream`; one instance of `Handshake` with redials, with and without faults.
3. *Proofs (done)*: every invariant, safety action property and refinement that the
   runs check, in all seven state machines.

What is left is liveness, which stays with TLC.
