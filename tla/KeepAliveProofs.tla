--------------------------- MODULE KeepAliveProofs ---------------------------
(***************************************************************************)
(* Proofs about KeepAlive, for every configuration that init accepts and   *)
(* any delays that leave the heartbeats their margin.                      *)
(***************************************************************************)
EXTENDS KeepAlive, SequenceTheorems, FiniteSetTheorems, TLAPS

-----------------------------------------------------------------------------
(* The invariant, whatever the applications do *)

(* Nothing is under way to an end that has closed, or when the connection  *)
(* has been cut.                                                           *)
DeadGetNothing == \A e \in Ends : cut \/ ~Started(e) => toward[e] = <<>>

(* What an application sends counts as a use from the moment it is sent.   *)
SendIsUse ==
    \A e \in Ends : Started(e) =>
        \A m \in Range(toward[Peer(e)]) : m.type \in App => activeAge[e] <= m.age

KeepInv == TypeOK /\ DeadGetNothing /\ SendIsUse

-----------------------------------------------------------------------------
(* The invariant when the applications answer whatever they are sent *)

(* Each application sends requests only, which the other end answers, and  *)
(* that of the active end does not look the session up.                    *)
Answering == Traffic \subseteq Ends \X {"request"} /\ Lookers \subseteq {"passive"}

Linked == ~cut /\ Started("active") /\ Started("passive")

(* Who sends what; the end of the stream comes from an end that has closed. *)
FlowsTo(e) == {"request", "reply", "eof"} \cup
              (IF e = "active" THEN {"pong", "closeReq"} ELSE {"ping", "closeRefused"})

Flows == \A e \in Ends : \A m \in Range(toward[e]) :
             m.type \in FlowsTo(e) /\ (m.type = "eof" => ~Started(Peer(e)))

(* Only the active end closes of itself. *)
ActiveClosesFirst == ~cut /\ ~Started("passive") => ~Started("active")

(* How long the active end may be silent. *)
maxPause == cfg.heartbeat + cfg.tick + MaxLag

(* A heartbeat is to be sent by the next tick. *)
BeatDue == activeAge["active"] >= cfg.heartbeat /\ (beatAge = Never \/ beatAge >= cfg.heartbeat)

(* The least time for which it has been due, and the heartbeat before it.  *)
sinceDue == cfg.heartbeat + cfg.tick - tickIn["active"]

headAge(e) == Head(toward[e]).age

(* The end that replies has read the request when it does. *)
RepliesAreFresh ==
    Linked => \A m \in Range(toward["active"]) :
                  m.type = "reply" => readAge["passive"] <= m.age

(* The passive end hears from the active end: by what is under way, by what *)
(* was sent or read last, by the last heartbeat, or by the one that is due. *)
PassiveHears ==
    Linked =>
        IF toward["passive"] # <<>>
        THEN \/ readAge["passive"] <= maxPause + headAge("passive")
             \/ /\ activeAge["active"] <= maxPause + headAge("passive")
                /\ readAge["passive"] <= maxPause + MaxDelay + headAge("passive")
        ELSE /\ activeAge["active"] < cfg.heartbeat =>
                    readAge["passive"] <= activeAge["active"] + MaxDelay
             /\ beatAge # Never /\ beatAge < cfg.heartbeat => readAge["passive"] <= beatAge
             /\ BeatDue => \/ readAge["passive"] <= sinceDue
                           \/ /\ activeAge["active"] <= sinceDue
                              /\ readAge["passive"] <= activeAge["active"] + MaxDelay

(* What the passive end answers. *)
Asks == {m \in Range(toward["passive"]) : m.type \in {"ping", "request"}}

(* The active end hears from the passive end: by what is under way, by the *)
(* answer to what is under way, or it has had the answer to the last.      *)
ActiveHears ==
    Linked =>
        IF toward["active"] # <<>>
        THEN readAge["active"] <= maxPause + MaxDelay + headAge("active")
        ELSE \/ \E m \in Asks : readAge["active"] <= maxPause + m.age
             \/ /\ Asks = {}
                /\ activeAge["active"] < cfg.heartbeat => readAge["active"] <= activeAge["active"]
                /\ beatAge # Never /\ beatAge < cfg.heartbeat => readAge["active"] <= beatAge
                /\ BeatDue => readAge["active"] <= sinceDue

final(s) == s[Len(s)]

(* When the active end has closed, the end of the stream is read in time. *)
EofArrives ==
    ~cut /\ Started("passive") /\ ~Started("active") =>
        /\ toward["passive"] # <<>> /\ final(toward["passive"]).type = "eof"
        /\ readAge["passive"] < cfg.rwt - MaxDelay + headAge("passive")

BeatInv == /\ Flows /\ ActiveClosesFirst /\ RepliesAreFresh
           /\ PassiveHears /\ ActiveHears /\ EofArrives /\ DeadlineMeansCut

-----------------------------------------------------------------------------
(* Packets under way *)

fresh(type) == [type |-> type, age |-> 0]

older(m) == [m EXCEPT !.age = @ + 1]

Types == App \cup {"ping", "pong", "closeReq", "closeRefused", "eof"}

LEMMA PacketFields ==
    /\ \A m \in Packet : m.type \in Types /\ m.age \in 0 .. MaxDelay /\ m.age \in Nat
    /\ \A t \in Types : fresh(t) \in Packet /\ fresh(t).type = t /\ fresh(t).age = 0
    /\ \A m \in Packet : m.age < MaxDelay =>
           older(m) \in Packet /\ older(m).type = m.type /\ older(m).age = m.age + 1
  BY DelayAssumption DEF Packet, Types, fresh, older

LEMMA BoxIs ==
    ASSUME NEW s \in Seq(Packet)
    PROVE  /\ Range(s) \subseteq Packet /\ Range(s) = {s[i] : i \in 1 .. Len(s)}
           /\ (s = <<>> => Range(s) = {})
           /\ (s # <<>> => Head(s) \in Range(s) /\ final(s) \in Range(s) /\ Len(s) \in Nat \ {0})
  <1>1. Range(s) = {s[i] : i \in 1 .. Len(s)} /\ Len(s) \in Nat
    BY LenProperties DEF Range
  <1>2. Range(s) \subseteq Packet
    BY <1>1, ElementOfSeq
  <1>3. ASSUME s = <<>>
        PROVE  Range(s) = {}
    <2>1. Len(s) = 0
      BY <1>3, EmptySeq
    <2> QED BY <1>1, <2>1
  <1>4. ASSUME s # <<>>
        PROVE  Head(s) \in Range(s) /\ final(s) \in Range(s) /\ Len(s) \in Nat \ {0}
    <2>1. Len(s) \in Nat \ {0}
      BY <1>4, EmptySeq
    <2>2. 1 \in 1 .. Len(s) /\ Len(s) \in 1 .. Len(s)
      BY <2>1
    <2>3. Head(s) = s[1]
      BY <1>4
    <2> QED BY <1>1, <2>1, <2>2, <2>3 DEF final
  <1> QED BY <1>1, <1>2, <1>3, <1>4

LEMMA AddOne ==
    ASSUME NEW s \in Seq(Packet), NEW t \in Types
    PROVE  LET r == s \o Sent(<<t>>) IN
           /\ r \in Seq(Packet) /\ r # <<>> /\ Range(r) = Range(s) \cup {fresh(t)}
           /\ Head(r) = (IF s = <<>> THEN fresh(t) ELSE Head(s)) /\ final(r) = fresh(t)
  <1>1. Sent(<<t>>) = <<fresh(t)>>
    BY DEF Sent, fresh
  <1>2. fresh(t) \in Packet
    BY PacketFields
  <1> DEFINE p == fresh(t)
             r == Append(s, p)
  <1>3. s \o Sent(<<t>>) = r
    BY <1>1, <1>2, AppendIsConcat
  <1> HIDE DEF p
  <1>4. /\ r \in Seq(Packet) /\ r # <<>> /\ Len(r) = Len(s) + 1 /\ Len(s) \in Nat
        /\ \A i \in 1 .. Len(s) : r[i] = s[i]
        /\ r[Len(s) + 1] = p
    BY <1>2, AppendProperties, LenProperties DEF p
  <1>5. Head(r) = IF s = <<>> THEN p ELSE Head(s)
    BY HeadTailAppend
  <1> HIDE DEF r
  <1>6. Range(r) = {r[i] : i \in 1 .. Len(r)} /\ Range(s) = {s[i] : i \in 1 .. Len(s)}
    BY <1>4, BoxIs
  <1>7. 1 .. Len(r) = (1 .. Len(s)) \cup {Len(s) + 1}
    BY <1>4
  <1>8. Range(r) = Range(s) \cup {p}
    BY <1>4, <1>6, <1>7
  <1> QED BY <1>3, <1>4, <1>5, <1>8 DEF final, p

LEMMA TakeOne ==
    ASSUME NEW s \in Seq(Packet), s # <<>>
    PROVE  /\ Tail(s) \in Seq(Packet) /\ Head(s) \in Packet
           /\ Range(s) = Range(Tail(s)) \cup {Head(s)}
           /\ IF Tail(s) = <<>> THEN final(s) = Head(s) ELSE final(Tail(s)) = final(s)
  <1> DEFINE r == Tail(s)
  <1>1. /\ r \in Seq(Packet) /\ Head(s) \in Packet /\ Len(r) = Len(s) - 1
        /\ \A i \in 1 .. Len(r) : r[i] = s[i + 1]
    BY HeadTailProperties
  <1>2. Head(s) = s[1]
    OBVIOUS
  <1> HIDE DEF r
  <1>3. Len(s) \in Nat \ {0} /\ Len(r) \in Nat
    BY <1>1, BoxIs, LenProperties
  <1>4. Range(r) = {r[i] : i \in 1 .. Len(r)} /\ Range(s) = {s[i] : i \in 1 .. Len(s)}
    BY <1>1, BoxIs
  <1>5. Range(s) = Range(r) \cup {Head(s)}
    <2>1. ASSUME NEW i \in 1 .. Len(s)
          PROVE  s[i] \in Range(r) \cup {Head(s)}
      <3>1. CASE i = 1
        BY <1>2, <3>1
      <3>2. CASE i # 1
        <4>1. i - 1 \in 1 .. Len(r) /\ (i - 1) + 1 = i
          BY <1>1, <1>3, <3>2
        <4> QED BY <1>1, <1>4, <4>1
      <3> QED BY <3>1, <3>2
    <2>2. ASSUME NEW i \in 1 .. Len(r)
          PROVE  r[i] \in Range(s)
      <3>1. i + 1 \in 1 .. Len(s)
        BY <1>1, <1>3
      <3> QED BY <1>1, <1>4, <3>1
    <2>3. Head(s) \in Range(s)
      BY BoxIs
    <2> QED BY <1>4, <2>1, <2>2, <2>3
  <1>6. IF r = <<>> THEN final(s) = Head(s) ELSE final(r) = final(s)
    <2>1. CASE r = <<>>
      <3>1. Len(r) = 0
        BY <2>1, EmptySeq
      <3>2. Len(s) = 1
        BY <1>1, <1>3, <3>1
      <3> QED BY <1>2, <2>1, <3>2 DEF final
    <2>2. CASE r # <<>>
      <3>1. Len(r) \in 1 .. Len(r) /\ Len(r) + 1 = Len(s)
        BY <1>1, <1>3, <2>2, BoxIs
      <3> QED BY <1>1, <2>2, <3>1 DEF final
    <2> QED BY <2>1, <2>2
  <1> QED BY <1>1, <1>5, <1>6 DEF r

LEMMA CutOff ==
    ASSUME NEW s \in Seq(Packet), NEW n \in 0 .. Len(s)
    PROVE  LET r == SubSeq(s, 1, n) \o Sent(<<"eof">>) IN
           /\ r \in Seq(Packet) /\ r # <<>> /\ Range(r) \subseteq Range(s) \cup {fresh("eof")}
           /\ final(r) = fresh("eof")
           /\ Head(r) = fresh("eof") \/ (s # <<>> /\ Head(r) = Head(s))
  <1> DEFINE f == SubSeq(s, 1, n)
             r == f \o Sent(<<"eof">>)
  <1>1. Len(s) \in Nat /\ n \in Nat /\ n <= Len(s)
    BY LenProperties
  <1>2. \A i \in 1 .. n : s[i] \in Packet
    BY <1>1, ElementOfSeq
  <1>3. f \in Seq(Packet) /\ Len(f) = n /\ \A i \in 1 .. n : f[i] = s[i]
    <2>1. f \in Seq(Packet) /\ Len(f) = (IF 1 <= n THEN n - 1 + 1 ELSE 0)
          /\ \A i \in 1 .. n - 1 + 1 : f[i] = s[1 + i - 1]
      BY <1>1, <1>2, SubSeqProperties
    <2> QED BY <1>1, <2>1
  <1> HIDE DEF f
  <1>4. /\ r \in Seq(Packet) /\ r # <<>> /\ Range(r) = Range(f) \cup {fresh("eof")}
        /\ Head(r) = (IF f = <<>> THEN fresh("eof") ELSE Head(f)) /\ final(r) = fresh("eof")
    BY <1>3, AddOne DEF Types
  <1> HIDE DEF r
  <1>5. Range(f) \subseteq Range(s)
    <2>1. Range(f) = {f[i] : i \in 1 .. Len(f)} /\ Range(s) = {s[i] : i \in 1 .. Len(s)}
      BY <1>3, BoxIs
    <2> QED BY <1>1, <1>3, <2>1
  <1>6. f # <<>> => s # <<>> /\ Head(f) = Head(s)
    <2> SUFFICES ASSUME f # <<>>
                 PROVE  s # <<>> /\ Head(f) = Head(s)
      OBVIOUS
    <2>1. n >= 1
      BY <1>1, <1>3, EmptySeq
    <2>2. Len(s) # 0
      BY <1>1, <2>1
    <2>3. s # <<>>
      BY <2>2, EmptySeq
    <2>4. Head(f) = f[1] /\ Head(s) = s[1]
      BY <1>3, <2>3
    <2> QED BY <1>1, <1>3, <2>1, <2>3, <2>4
  <1> QED BY <1>4, <1>5, <1>6 DEF f, r

LEMMA GrowOlder ==
    ASSUME NEW s \in Seq(Packet), \A i \in DOMAIN s : s[i].age < MaxDelay
    PROVE  LET r == [i \in DOMAIN s |-> [s[i] EXCEPT !.age = @ + 1]] IN
           /\ r \in Seq(Packet) /\ (r = <<>> <=> s = <<>>)
           /\ Range(r) = {older(m) : m \in Range(s)}
           /\ (s # <<>> => Head(r) = older(Head(s)) /\ final(r) = older(final(s)))
           /\ \A m \in Range(s) : m.age < MaxDelay
  <1> DEFINE r == [i \in 1 .. Len(s) |-> older(s[i])]
  <1>1. DOMAIN s = 1 .. Len(s) /\ Len(s) \in Nat
    BY LenProperties
  <1>2. [i \in DOMAIN s |-> [s[i] EXCEPT !.age = @ + 1]] = r
    BY <1>1 DEF older
  <1>3. \A i \in 1 .. Len(s) : older(s[i]) \in Packet
    BY <1>1, ElementOfSeq, PacketFields
  <1>4. r \in Seq(Packet)
    BY <1>1, <1>3
  <1>5. Len(r) = Len(s) /\ \A i \in 1 .. Len(s) : r[i] = older(s[i])
    BY <1>1
  <1> HIDE DEF r
  <1>6. Range(r) = {r[i] : i \in 1 .. Len(r)} /\ Range(s) = {s[i] : i \in 1 .. Len(s)}
    BY <1>4, BoxIs
  <1>7. Range(r) = {older(m) : m \in Range(s)}
    BY <1>5, <1>6
  <1>8. r = <<>> <=> s = <<>>
    BY <1>4, <1>5, EmptySeq
  <1>9. s # <<>> => Head(r) = older(Head(s)) /\ final(r) = older(final(s))
    <2> SUFFICES ASSUME s # <<>>
                 PROVE  Head(r) = older(Head(s)) /\ final(r) = older(final(s))
      OBVIOUS
    <2>1. Head(r) = r[1] /\ Head(s) = s[1]
      BY <1>4, <1>8
    <2>2. 1 \in 1 .. Len(s) /\ Len(s) \in 1 .. Len(s)
      BY <1>1, BoxIs
    <2> QED BY <1>5, <2>1, <2>2 DEF final
  <1>10. \A m \in Range(s) : m.age < MaxDelay
    BY <1>1, <1>6
  <1> QED BY <1>2, <1>4, <1>7, <1>8, <1>9, <1>10

-----------------------------------------------------------------------------
(* The configuration *)

LEMMA ConfigFacts ==
    ASSUME NEW c \in Effective
    PROVE  /\ c.rwt \in Nat /\ c.tick \in Nat /\ c.heartbeat \in Nat /\ c.inactive \in Nat
           /\ MaxLag \in Nat /\ MaxDelay \in Nat
           /\ MaxLag < c.tick /\ c.tick < c.heartbeat
           /\ c.heartbeat + c.tick + MaxLag + 2 * MaxDelay < c.rwt
           /\ c.rwt < c.inactive
  <1>1. PICK u \in Configs : c = withDefaults(u) /\ accepted(c)
    BY DEF Effective
  <1>2. u \in [rwt : Nat, tick : Nat, heartbeat : Nat, inactive : Nat]
    BY ConfigsAssumption
  <1>3. \A n \in Nat : n \div 2 \in Nat /\ n \div 3 \in Nat
    OBVIOUS
  <1>4. c \in [rwt : Nat, tick : Nat, heartbeat : Nat, inactive : Nat]
    BY <1>1, <1>2, <1>3 DEF withDefaults
  <1> QED BY <1>1, <1>4, DelayAssumption DEF accepted

LEMMA EndsFacts ==
    /\ "active" \in Ends /\ "passive" \in Ends /\ "active" # "passive"
    /\ Peer("active") = "passive" /\ Peer("passive") = "active"
    /\ \A e \in Ends : Peer(e) \in Ends /\ Peer(e) # e /\ Peer(Peer(e)) = e
    /\ \A d, e \in Ends : d # e => d = Peer(e)
  BY DEF Ends, Peer

-----------------------------------------------------------------------------
(* Sending *)

LEMMA PutIs ==
    ASSUME NEW chan \in [Ends -> Seq(Packet)], NEW e \in Ends, NEW t \in Types
    PROVE  LET c == put(chan, e, <<t>>)
               s == chan[Peer(e)]
           IN  /\ c \in [Ends -> Seq(Packet)] /\ c[e] = chan[e]
               /\ cut \/ ~Started(Peer(e)) => c = chan
               /\ ~cut /\ Started(Peer(e)) =>
                     /\ c[Peer(e)] # <<>> /\ Range(c[Peer(e)]) = Range(s) \cup {fresh(t)}
                     /\ Head(c[Peer(e)]) = (IF s = <<>> THEN fresh(t) ELSE Head(s))
                     /\ final(c[Peer(e)]) = fresh(t)
  <1> DEFINE s == chan[Peer(e)]
             r == s \o Sent(<<t>>)
  <1>1. s \in Seq(Packet) /\ Peer(e) \in Ends /\ Peer(e) # e
    BY EndsFacts
  <1>2. /\ r \in Seq(Packet) /\ r # <<>> /\ Range(r) = Range(s) \cup {fresh(t)}
        /\ Head(r) = (IF s = <<>> THEN fresh(t) ELSE Head(s)) /\ final(r) = fresh(t)
    <2> HIDE DEF s
    <2> QED BY <1>1, AddOne
  <1>3. put(chan, e, <<t>>) = IF cut \/ ~Started(Peer(e)) THEN chan
                              ELSE [chan EXCEPT ![Peer(e)] = r]
    BY DEF put
  <1> HIDE DEF r
  <1> QED BY <1>1, <1>2, <1>3

LEMMA PutBox ==
    ASSUME NEW chan \in [Ends -> Seq(Packet)], NEW e \in Ends, NEW t \in Types
    PROVE  ~cut /\ Started(Peer(e)) =>
               Range(put(chan, e, <<t>>)[Peer(e)]) = Range(chan[Peer(e)]) \cup {fresh(t)}
  BY PutIs

(* A packet of this type has been added to what e sends to d. *)
Delivered(c, chan, e, d, t) ==
    /\ c[e] = chan[e] /\ c[d] # <<>> /\ Range(c[d]) = Range(chan[d]) \cup {fresh(t)}
    /\ Head(c[d]) = (IF chan[d] = <<>> THEN fresh(t) ELSE Head(chan[d]))
    /\ final(c[d]) = fresh(t)

(* The other end is there to get it. *)
LEMMA PutArrives ==
    ASSUME NEW chan \in [Ends -> Seq(Packet)], NEW e \in Ends, NEW d \in Ends, d # e,
           NEW t \in Types, ~cut, Started(d)
    PROVE  Delivered(put(chan, e, <<t>>), chan, e, d, t)
  <1>1. d = Peer(e)
    BY EndsFacts
  <1>2. /\ put(chan, e, <<t>>)[e] = chan[e] /\ put(chan, e, <<t>>)[d] # <<>>
        /\ final(put(chan, e, <<t>>)[d]) = fresh(t)
    BY <1>1, PutIs
  <1>3. Head(put(chan, e, <<t>>)[d]) = (IF chan[d] = <<>> THEN fresh(t) ELSE Head(chan[d]))
    BY <1>1, PutIs
  <1>4. Range(put(chan, e, <<t>>)[d]) = Range(chan[d]) \cup {fresh(t)}
    BY <1>1, PutBox
  <1> QED BY <1>2, <1>3, <1>4 DEF Delivered

LEMMA TakenIs ==
    ASSUME toward \in [Ends -> Seq(Packet)], NEW e \in Ends, toward[e] # <<>>
    PROVE  /\ Taken(e) \in [Ends -> Seq(Packet)] /\ Taken(e)[Peer(e)] = toward[Peer(e)]
           /\ Taken(e)[e] = Tail(toward[e]) /\ Head(toward[e]) \in Packet
           /\ Range(toward[e]) = Range(Taken(e)[e]) \cup {Head(toward[e])}
           /\ IF Taken(e)[e] = <<>> THEN final(toward[e]) = Head(toward[e])
              ELSE final(Taken(e)[e]) = final(toward[e])
  <1>1. toward[e] \in Seq(Packet)
    OBVIOUS
  <1>2. /\ Tail(toward[e]) \in Seq(Packet) /\ Head(toward[e]) \in Packet
        /\ Range(toward[e]) = Range(Tail(toward[e])) \cup {Head(toward[e])}
        /\ IF Tail(toward[e]) = <<>> THEN final(toward[e]) = Head(toward[e])
           ELSE final(Tail(toward[e])) = final(toward[e])
    BY <1>1, TakeOne
  <1>3. Taken(e) = [toward EXCEPT ![e] = Tail(toward[e])]
    BY DEF Taken
  <1> QED BY <1>2, <1>3, EndsFacts

-----------------------------------------------------------------------------
(* KeepInv is inductive *)

(* What an end does that does not close it: it may read a packet, and send one. *)
LEMMA HandledKeeps ==
    ASSUME KeepInv, NEW e \in Ends, Started(e), NEW t \in Types, NEW chan,
           chan = toward \/ (toward[e] # <<>> /\ chan = Taken(e)),
           toward' = chan \/ (toward' = put(chan, e, <<t>>) /\ (t \in App => activeAge'[e] = 0)),
           activeAge' = activeAge \/ activeAge' = [activeAge EXCEPT ![e] = 0],
           UNCHANGED <<cfg, state, cut>>
    PROVE  DeadGetNothing' /\ SendIsUse' /\ toward' \in [Ends -> Seq(Packet)]
           /\ activeAge' \in [Ends -> 0 .. cfg'.inactive]
  <1> DEFINE d == Peer(e)
  <1>1. d \in Ends /\ d # e /\ Peer(d) = e /\ \A x \in Ends : x = e \/ x = d
    BY EndsFacts
  <1>2. /\ cfg \in Effective /\ toward \in [Ends -> Seq(Packet)]
        /\ activeAge \in [Ends -> 0 .. cfg.inactive]
    BY DEF KeepInv, TypeOK
  <1>3. activeAge' \in [Ends -> 0 .. cfg'.inactive]
    BY <1>2, ConfigFacts
  <1>4. /\ chan \in [Ends -> Seq(Packet)] /\ chan[d] = toward[d]
        /\ Range(chan[e]) \subseteq Range(toward[e])
    BY <1>2, TakenIs
  <1>5. /\ toward' \in [Ends -> Seq(Packet)] /\ toward'[e] = chan[e]
        /\ cut \/ ~Started(d) => toward'[d] = toward[d]
        /\ \/ Range(toward'[d]) = Range(toward[d])
           \/ /\ Range(toward'[d]) = Range(toward[d]) \cup {fresh(t)}
              /\ t \in App => activeAge'[e] = 0
    <2> DEFINE c == put(chan, e, <<t>>)
    <2>0. chan \in [Ends -> Seq(Packet)]
      BY <1>4
    <2>1. /\ c \in [Ends -> Seq(Packet)] /\ c[e] = chan[e]
          /\ cut \/ ~Started(d) => c = chan
      BY <2>0, PutIs, e \in Ends, t \in Types
    <2>3. ~cut /\ Started(d) => Range(c[d]) = Range(chan[d]) \cup {fresh(t)}
      BY <2>0, PutBox
    <2>2. toward' = chan \/ (toward' = c /\ (t \in App => activeAge'[e] = 0))
      OBVIOUS
    <2> HIDE DEF c, d
    <2> QED BY <1>4, <2>1, <2>2, <2>3
  <1> HIDE DEF d
  <1>6. DeadGetNothing'
    <2>1. ~Started(d) \/ cut => toward'[d] = <<>>
      BY <1>1, <1>5 DEF KeepInv, DeadGetNothing
    <2>2. cut => toward'[e] = <<>>
      BY <1>1, <1>4, <1>5, TakenIs DEF KeepInv, DeadGetNothing
    <2> QED BY <1>1, <2>1, <2>2 DEF DeadGetNothing, Started
  <1>7. SendIsUse'
    <2>1. ASSUME NEW m \in Range(toward'[d]), m.type \in App
          PROVE  activeAge'[e] <= m.age
      <3>1. Range(toward[d]) \subseteq Packet
        BY <1>1, <1>2, BoxIs
      <3>2. CASE m \in Range(toward[d])
        <4>1. activeAge[e] <= m.age /\ m.age \in Nat
          BY <1>1, <2>1, <3>1, <3>2, PacketFields DEF KeepInv, SendIsUse, d
        <4> QED BY <1>2, <4>1
      <3>3. CASE m = fresh(t) /\ (t \in App => activeAge'[e] = 0)
        BY <2>1, <3>3, PacketFields
      <3> QED BY <1>5, <2>1, <3>2, <3>3
    <2>2. ASSUME Started(d), NEW m \in Range(toward'[e]), m.type \in App
          PROVE  activeAge'[d] <= m.age
      <3>1. m \in Range(toward[e])
        BY <1>4, <1>5, <2>2
      <3>2. activeAge[d] <= m.age
        BY <1>1, <2>2, <3>1 DEF KeepInv, SendIsUse
      <3>3. activeAge'[d] = activeAge[d]
        BY <1>1, <1>2
      <3> QED BY <3>2, <3>3
    <2> QED BY <1>1, <2>1, <2>2 DEF SendIsUse, Started, d
  <1> QED BY <1>3, <1>5, <1>6, <1>7

LEMMA CloseIs ==
    ASSUME KeepInv, NEW e \in Ends, NEW reason, NEW n \in 0 .. Len(toward[Peer(e)]),
           close(e, reason, n), Started(e)
    PROVE  /\ state' = [state EXCEPT ![e] = reason]
           /\ toward' \in [Ends -> Seq(Packet)] /\ toward'[e] = <<>>
           /\ cut \/ ~Started(Peer(e)) => toward'[Peer(e)] = <<>>
           /\ ~cut /\ Started(Peer(e)) =>
                 LET r == toward'[Peer(e)]
                     s == toward[Peer(e)]
                 IN  /\ r # <<>> /\ Range(r) \subseteq Range(s) \cup {fresh("eof")}
                     /\ final(r) = fresh("eof")
                     /\ Head(r) = fresh("eof") \/ (s # <<>> /\ Head(r) = Head(s))
  <1> DEFINE d == Peer(e)
             s == toward[d]
             r == SubSeq(s, 1, n) \o Sent(<<"eof">>)
  <1>1. d \in Ends /\ d # e
    BY EndsFacts
  <1>2. toward \in [Ends -> Seq(Packet)] /\ s \in Seq(Packet)
    BY <1>1 DEF KeepInv, TypeOK
  <1>3. /\ r \in Seq(Packet) /\ r # <<>> /\ Range(r) \subseteq Range(s) \cup {fresh("eof")}
        /\ final(r) = fresh("eof")
        /\ Head(r) = fresh("eof") \/ (s # <<>> /\ Head(r) = Head(s))
    <2> HIDE DEF s
    <2> QED BY <1>2, CutOff DEF s
  <1>4. /\ state' = [state EXCEPT ![e] = reason]
        /\ toward' = IF cut THEN toward
                     ELSE [toward EXCEPT ![e] = <<>>, ![d] = IF Started(d) THEN r ELSE <<>>]
    BY DEF close
  <1> HIDE DEF r
  <1>5. <<>> \in Seq(Packet)
    BY EmptySeq
  <1>6. cut => toward[e] = <<>> /\ toward[d] = <<>>
    BY <1>1 DEF KeepInv, DeadGetNothing
  <1>7. toward' \in [Ends -> Seq(Packet)] /\ toward'[e] = <<>>
    BY <1>1, <1>2, <1>3, <1>4, <1>5, <1>6
  <1> QED BY <1>1, <1>2, <1>3, <1>4, <1>6, <1>7

LEMMA ClosedKeeps ==
    ASSUME KeepInv, NEW e \in Ends, NEW reason \in {"inactive", "deadline", "eof"},
           NEW n \in 0 .. Len(toward[Peer(e)]), close(e, reason, n), Started(e),
           UNCHANGED <<cfg, activeAge, cut>>
    PROVE  DeadGetNothing' /\ SendIsUse' /\ toward' \in [Ends -> Seq(Packet)]
           /\ state' \in [Ends -> {"started", "inactive", "deadline", "eof"}]
           /\ ~Started(e)' /\ Started(Peer(e))' = Started(Peer(e))
  <1> DEFINE d == Peer(e)
  <1>1. d \in Ends /\ d # e /\ Peer(d) = e /\ \A x \in Ends : x = e \/ x = d
    BY EndsFacts
  <1>2. /\ state' = [state EXCEPT ![e] = reason]
        /\ toward' \in [Ends -> Seq(Packet)] /\ toward'[e] = <<>>
        /\ cut \/ ~Started(d) => toward'[d] = <<>>
    BY CloseIs
  <1> HIDE DEF d
  <1>3. state \in [Ends -> {"started", "inactive", "deadline", "eof"}]
    BY DEF KeepInv, TypeOK
  <1>4. ~Started(e)' /\ Started(d)' = Started(d)
    BY <1>1, <1>2, <1>3 DEF Started
  <1>5. DeadGetNothing'
    BY <1>1, <1>2, <1>4 DEF DeadGetNothing
  <1>6. SendIsUse'
    <2>1. Range(toward'[e]) = {}
      BY <1>2, BoxIs
    <2> QED BY <1>1, <1>4, <2>1 DEF SendIsUse
  <1> QED BY <1>2, <1>3, <1>4, <1>5, <1>6 DEF d

LEMMA KeepInit == Init => KeepInv
  <1> SUFFICES ASSUME Init
               PROVE  KeepInv
    OBVIOUS
  <1>1. cfg \in Effective
    BY DEF Init
  <1>2. <<>> \in Seq(Packet)
    BY EmptySeq
  <1>3. TypeOK
    <2>1. /\ cfg.rwt \in Nat /\ cfg.tick \in Nat /\ cfg.heartbeat \in Nat /\ cfg.inactive \in Nat
          /\ MaxLag \in Nat
      BY <1>1, ConfigFacts
    <2>2. 1 .. cfg.tick \subseteq -MaxLag .. cfg.tick
      BY <2>1
    <2>3. tickIn \in [Ends -> -MaxLag .. cfg.tick]
      BY <2>2 DEF Init
    <2>4. 0 \in 0 .. cfg.inactive /\ 0 \in 0 .. cfg.rwt
      BY <2>1
    <2>5. activeAge \in [Ends -> 0 .. cfg.inactive] /\ readAge \in [Ends -> 0 .. cfg.rwt]
      BY <2>4 DEF Init
    <2> QED BY <1>1, <1>2, <2>3, <2>5 DEF Init, TypeOK
  <1>4. DeadGetNothing
    BY DEF Init, DeadGetNothing
  <1>5. SendIsUse
    <2>1. \A e \in Ends : Range(toward[Peer(e)]) = {}
      BY <1>2, BoxIs, EndsFacts DEF Init
    <2> QED BY <2>1 DEF SendIsUse
  <1> QED BY <1>3, <1>4, <1>5 DEF KeepInv

(* The applications send and look. *)
LEMMA UseKeeps ==
    ASSUME KeepInv, Use
    PROVE  KeepInv'
  <1>1. ASSUME NEW e \in Ends, NEW type \in App, Send(e, type)
        PROVE  KeepInv'
    <2>1. /\ Started(e) /\ type \in Types /\ toward' = put(toward, e, <<type>>)
          /\ activeAge' = [activeAge EXCEPT ![e] = 0]
          /\ UNCHANGED <<cfg, state, beatAge, tickIn, readAge, cut>>
      BY <1>1 DEF Send, Types
    <2>2. activeAge'[e] = 0
      BY <2>1 DEF KeepInv, TypeOK
    <2>3. DeadGetNothing' /\ SendIsUse' /\ toward' \in [Ends -> Seq(Packet)]
          /\ activeAge' \in [Ends -> 0 .. cfg'.inactive]
      BY <2>1, <2>2, HandledKeeps
    <2> QED BY <2>1, <2>3 DEF KeepInv, TypeOK
  <1>2. ASSUME NEW e \in Ends, Look(e)
        PROVE  KeepInv'
    <2>1. /\ Started(e) /\ toward' = toward
          /\ activeAge' = [activeAge EXCEPT ![e] = 0]
          /\ UNCHANGED <<cfg, state, beatAge, tickIn, readAge, cut>>
      BY <1>2 DEF Look
    <2>2. DeadGetNothing' /\ SendIsUse' /\ toward' \in [Ends -> Seq(Packet)]
          /\ activeAge' \in [Ends -> 0 .. cfg'.inactive]
      BY <2>1, HandledKeeps, "ping" \in Types DEF Types
    <2> QED BY <2>1, <2>2 DEF KeepInv, TypeOK
  <1> QED
    <2>1. \A t \in Traffic : t[1] \in Ends /\ t[2] \in App
      BY TrafficAssumption DEF App
    <2> QED BY <1>1, <1>2, <2>1, TrafficAssumption DEF Use

(* The ticks at the two ends. *)
LEMMA TickKeeps ==
    ASSUME KeepInv, TickActiveEnd \/ TickPassiveEnd
    PROVE  KeepInv'
  <1>1. PICK e \in Ends, t \in Types \ App :
            /\ Started(e) /\ NextTick(e)
            /\ toward' \in {toward, put(toward, e, <<t>>)}
            /\ beatAge' \in {beatAge, Never, 0}
            /\ UNCHANGED <<cfg, state, activeAge, readAge, cut>>
    <2>1. CASE TickActiveEnd
      <3>1. /\ Started("active") /\ NextTick("active")
            /\ toward' \in {toward, put(toward, "active", <<"ping">>)}
            /\ beatAge' \in {beatAge, Never, 0}
            /\ UNCHANGED <<cfg, state, activeAge, readAge, cut>>
        BY <2>1 DEF TickActiveEnd
      <3>2. "active" \in Ends /\ "ping" \in Types \ App
        BY EndsFacts DEF Types, App
      <3> QED BY <3>1, <3>2
    <2>2. CASE TickPassiveEnd
      <3>1. /\ Started("passive") /\ NextTick("passive")
            /\ toward' \in {toward, put(toward, "passive", <<"closeReq">>)}
            /\ beatAge' \in {beatAge, Never, 0}
            /\ UNCHANGED <<cfg, state, activeAge, readAge, cut>>
        BY <2>2 DEF TickPassiveEnd
      <3>2. "passive" \in Ends /\ "closeReq" \in Types \ App
        BY EndsFacts DEF Types, App
      <3> QED BY <3>1, <3>2
    <2> QED BY <2>1, <2>2
  <1>2. DeadGetNothing' /\ SendIsUse' /\ toward' \in [Ends -> Seq(Packet)]
    <2>1. toward' = toward \/ (toward' = put(toward, e, <<t>>) /\ (t \in App => activeAge'[e] = 0))
      BY <1>1
    <2>2. t \in Types /\ activeAge' = activeAge
      BY <1>1
    <2> QED BY <1>1, <2>1, <2>2, HandledKeeps
  <1>3. tickIn' \in [Ends -> -MaxLag .. cfg'.tick] /\ beatAge' \in {Never} \cup 0 .. cfg'.heartbeat
    <2>1. cfg \in Effective /\ tickIn \in [Ends -> -MaxLag .. cfg.tick]
          /\ beatAge \in {Never} \cup 0 .. cfg.heartbeat
      BY DEF KeepInv, TypeOK
    <2>2. /\ cfg.tick \in Nat /\ cfg.heartbeat \in Nat /\ MaxLag \in Nat /\ cfg' = cfg
      BY <1>1, <2>1, ConfigFacts
    <2>3. tickIn[e] <= 0 /\ tickIn' = [tickIn EXCEPT ![e] = tickIn[e] + cfg.tick]
      BY <1>1 DEF NextTick
    <2>4. tickIn[e] + cfg.tick \in -MaxLag .. cfg.tick
      BY <2>1, <2>2, <2>3
    <2> QED BY <1>1, <2>1, <2>2, <2>3, <2>4
  <1> QED BY <1>1, <1>2, <1>3 DEF KeepInv, TypeOK

(* A packet is read and handled, and the session stays. *)
handles(e) ==
    /\ Started(e) /\ toward[e] # <<>>
    /\ readAge' = [readAge EXCEPT ![e] = 0]
    /\ LET type == Head(toward[e]).type
           answer == [ping |-> "pong", request |-> "reply", closeReq |-> "closeRefused"]
       IN  /\ type # "eof"
           /\ toward' = IF type \in DOMAIN answer THEN put(Taken(e), e, <<answer[type]>>)
                        ELSE Taken(e)
           /\ activeAge' = IF type \in App THEN [activeAge EXCEPT ![e] = 0] ELSE activeAge
    /\ UNCHANGED <<cfg, state, beatAge, tickIn, cut>>

LEMMA StepIs ==
    ASSUME KeepInv, NEW e \in Ends, Step(e)
    PROVE  \/ handles(e)
           \/ /\ toward[e] # <<>> /\ Head(toward[e]).type = "closeReq" /\ inactive(e)
              /\ Started(e) /\ readAge' = [readAge EXCEPT ![e] = 0]
              /\ \E n \in 0 .. Len(toward[Peer(e)]) : close(e, "inactive", n)
              /\ UNCHANGED <<cfg, activeAge, beatAge, tickIn, cut>>
           \/ ReadEof(e)
           \/ ReadDeadline(e)
  <1> DEFINE type == Head(toward[e]).type
             answer == [ping |-> "pong", request |-> "reply", closeReq |-> "closeRefused"]
  <1>1. /\ DOMAIN answer = {"ping", "request", "closeReq"}
        /\ answer.ping = "pong" /\ answer.request = "reply" /\ answer.closeReq = "closeRefused"
    OBVIOUS
  <1>2. App = {"request", "reply", "raw"}
    BY DEF App
  <1> HIDE DEF type, answer
  <1>3. CASE sessionHandleHeartbeat(e)
    <2>1. /\ type \in {"ping", "pong"} /\ activeAge' = activeAge
          /\ toward' = IF type = "ping" THEN put(Taken(e), e, <<"pong">>) ELSE Taken(e)
      BY <1>3 DEF sessionHandleHeartbeat, Arrives, type
    <2>2. /\ type # "eof" /\ type \notin App
          /\ toward' = IF type \in DOMAIN answer THEN put(Taken(e), e, <<answer[type]>>) ELSE Taken(e)
      BY <1>1, <1>2, <2>1
    <2> QED BY <1>3, <2>1, <2>2 DEF handles, sessionHandleHeartbeat, Arrives, type, answer
  <1>4. CASE sessionHandleRaw(e)
    <2>1. /\ type \in App
          /\ toward' = IF type = "request" THEN put(Taken(e), e, <<"reply">>) ELSE Taken(e)
      BY <1>4 DEF sessionHandleRaw, Arrives, type
    <2>2. /\ type # "eof" /\ type \in App
          /\ toward' = IF type \in DOMAIN answer THEN put(Taken(e), e, <<answer[type]>>) ELSE Taken(e)
      BY <1>1, <1>2, <2>1
    <2> QED BY <1>4, <2>1, <2>2 DEF handles, sessionHandleRaw, Arrives, type, answer
  <1>5. CASE sessionHandleCloseReq(e)
    <2>1. CASE inactive(e)
      BY <1>5, <2>1 DEF sessionHandleCloseReq, Arrives
    <2>2. CASE ~inactive(e)
      <3>1. /\ type = "closeReq" /\ activeAge' = activeAge
            /\ toward' = put(Taken(e), e, <<"closeRefused">>)
        BY <1>5, <2>2 DEF sessionHandleCloseReq, Arrives, type
      <3>2. /\ type # "eof" /\ type \notin App
            /\ toward' = IF type \in DOMAIN answer THEN put(Taken(e), e, <<answer[type]>>) ELSE Taken(e)
        BY <1>1, <1>2, <3>1
      <3> QED BY <1>5, <2>2, <3>1, <3>2 DEF handles, sessionHandleCloseReq, Arrives, type, answer
    <2> QED BY <2>1, <2>2
  <1>6. CASE sessionHandleCloseResp(e)
    <2>1. type = "closeRefused" /\ activeAge' = activeAge /\ toward' = Taken(e)
      BY <1>6 DEF sessionHandleCloseResp, Arrives, type
    <2>2. /\ type # "eof" /\ type \notin App
          /\ toward' = IF type \in DOMAIN answer THEN put(Taken(e), e, <<answer[type]>>) ELSE Taken(e)
      BY <1>1, <1>2, <2>1
    <2> QED BY <1>6, <2>1, <2>2 DEF handles, sessionHandleCloseResp, Arrives, type, answer
  <1> QED BY <1>3, <1>4, <1>5, <1>6 DEF Step

LEMMA HandlesKeeps ==
    ASSUME KeepInv, NEW e \in Ends, handles(e)
    PROVE  KeepInv'
  <1> DEFINE type == Head(toward[e]).type
  <1>1. /\ Started(e) /\ toward[e] # <<>>
        /\ readAge' = [readAge EXCEPT ![e] = 0]
        /\ activeAge' = IF type \in App THEN [activeAge EXCEPT ![e] = 0] ELSE activeAge
        /\ UNCHANGED <<cfg, state, beatAge, tickIn, cut>>
    BY DEF handles
  <1>2. PICK t \in Types : toward' = Taken(e) \/ (toward' = put(Taken(e), e, <<t>>) /\ (t \in App => type \in App))
    <2> DEFINE answer == [ping |-> "pong", request |-> "reply", closeReq |-> "closeRefused"]
    <2>1. /\ DOMAIN answer = {"ping", "request", "closeReq"}
          /\ answer.ping = "pong" /\ answer.request = "reply" /\ answer.closeReq = "closeRefused"
      OBVIOUS
    <2>2. toward' = IF type \in DOMAIN answer THEN put(Taken(e), e, <<answer[type]>>) ELSE Taken(e)
      BY DEF handles
    <2> HIDE DEF answer, type
    <2>3. {"pong", "reply", "closeRefused"} \subseteq Types /\ "pong" \notin App /\ "closeRefused" \notin App
          /\ "request" \in App
      BY DEF Types, App
    <2> QED BY <2>1, <2>2, <2>3
  <1> HIDE DEF type
  <1>3. /\ activeAge' = activeAge \/ activeAge' = [activeAge EXCEPT ![e] = 0]
        /\ type \in App => activeAge'[e] = 0
    BY <1>1 DEF KeepInv, TypeOK
  <1>4. DeadGetNothing' /\ SendIsUse' /\ toward' \in [Ends -> Seq(Packet)]
        /\ activeAge' \in [Ends -> 0 .. cfg'.inactive]
    <2> DEFINE chan == Taken(e)
    <2>1. toward[e] # <<>> /\ chan = Taken(e)
      BY <1>1
    <2>2. toward' = chan \/ (toward' = put(chan, e, <<t>>) /\ (t \in App => activeAge'[e] = 0))
      BY <1>2, <1>3
    <2> HIDE DEF chan
    <2> QED BY <1>1, <1>3, <2>1, <2>2, HandledKeeps
  <1>5. readAge' \in [Ends -> 0 .. cfg'.rwt]
    <2>1. cfg \in Effective /\ readAge \in [Ends -> 0 .. cfg.rwt]
      BY DEF KeepInv, TypeOK
    <2> QED BY <1>1, <2>1, ConfigFacts
  <1> QED BY <1>1, <1>4, <1>5 DEF KeepInv, TypeOK

LEMMA StepKeeps ==
    ASSUME KeepInv, NEW e \in Ends, Step(e)
    PROVE  KeepInv'
  <1>1. cfg \in Effective /\ readAge \in [Ends -> 0 .. cfg.rwt]
    BY DEF KeepInv, TypeOK
  <1>2. ASSUME NEW reason \in {"inactive", "deadline", "eof"},
               NEW n \in 0 .. Len(toward[Peer(e)]), close(e, reason, n), Started(e),
               readAge' \in {readAge, [readAge EXCEPT ![e] = 0]},
               UNCHANGED <<cfg, activeAge, beatAge, tickIn, cut>>
        PROVE  KeepInv'
    <2>1. DeadGetNothing' /\ SendIsUse' /\ toward' \in [Ends -> Seq(Packet)]
          /\ state' \in [Ends -> {"started", "inactive", "deadline", "eof"}]
      BY <1>2, ClosedKeeps
    <2>2. readAge' \in [Ends -> 0 .. cfg'.rwt]
      BY <1>1, <1>2, ConfigFacts, SMTT(40)
    <2> QED BY <1>2, <2>1, <2>2 DEF KeepInv, TypeOK
  <1>3. CASE ReadEof(e)
    BY <1>2, <1>3 DEF ReadEof, Arrives
  <1>4. CASE ReadDeadline(e)
    BY <1>2, <1>4 DEF ReadDeadline
  <1> QED BY <1>2, <1>3, <1>4, StepIs, HandlesKeeps

LEMMA AgesGrow ==
    ASSUME KeepInv, Elapse, NEW e \in Ends
    PROVE  LET r == toward'[e]
               s == toward[e]
           IN  /\ r \in Seq(Packet) /\ (r = <<>> <=> s = <<>>)
               /\ Range(r) = {older(m) : m \in Range(s)} /\ Range(s) \subseteq Packet
               /\ (s # <<>> => Head(r) = older(Head(s)) /\ final(r) = older(final(s)))
               /\ \A m \in Range(s) : m.age < MaxDelay
  <1> DEFINE s == toward[e]
  <1>1. toward'[e] = [i \in DOMAIN s |-> [s[i] EXCEPT !.age = @ + 1]]
    BY DEF Elapse
  <1>2. s \in Seq(Packet)
    BY DEF KeepInv, TypeOK
  <1>3. \A i \in DOMAIN s : s[i].age < MaxDelay
    <2>1. CASE Started(e)
      BY <2>1 DEF Elapse
    <2>2. CASE ~Started(e)
      <3>1. s = <<>>
        BY <2>2 DEF KeepInv, DeadGetNothing
      <3>2. DOMAIN s = {}
        BY <3>1
      <3> QED BY <3>2
    <2> QED BY <2>1, <2>2
  <1> DEFINE r == [i \in DOMAIN s |-> [s[i] EXCEPT !.age = @ + 1]]
  <1> HIDE DEF s
  <1>4. /\ r \in Seq(Packet) /\ (r = <<>> <=> s = <<>>)
        /\ Range(r) = {older(m) : m \in Range(s)} /\ Range(s) \subseteq Packet
        /\ (s # <<>> => Head(r) = older(Head(s)) /\ final(r) = older(final(s)))
        /\ \A m \in Range(s) : m.age < MaxDelay
    BY <1>2, <1>3, GrowOlder, BoxIs
  <1>5. toward'[e] = r
    BY <1>1
  <1> HIDE DEF r
  <1> QED BY <1>4, <1>5 DEF s

LEMMA ElapseKeeps ==
    ASSUME KeepInv, Elapse
    PROVE  KeepInv'
  <1>1. TypeOK /\ cfg \in Effective /\ cfg' = cfg /\ state' = state /\ cut' = cut
    BY DEF KeepInv, TypeOK, Elapse
  <1>2. /\ cfg.rwt \in Nat /\ cfg.tick \in Nat /\ cfg.heartbeat \in Nat /\ cfg.inactive \in Nat
        /\ MaxLag \in Nat
    BY <1>1, ConfigFacts
  <1>3. activeAge' \in [Ends -> 0 .. cfg.inactive]
    <2>1. \A e \in Ends : activeAge[e] \in 0 .. cfg.inactive
      BY <1>1 DEF TypeOK
    <2>2. \A e \in Ends : Least(activeAge[e] + 1, cfg.inactive) \in 0 .. cfg.inactive
      BY <1>2, <2>1 DEF Least
    <2> QED BY <2>1, <2>2 DEF Elapse
  <1>4. beatAge' \in {Never} \cup 0 .. cfg.heartbeat
    <2>1. CASE beatAge = Never \/ ~Started("active")
      BY <1>1, <2>1 DEF Elapse, TypeOK
    <2>2. CASE ~(beatAge = Never \/ ~Started("active"))
      <3>1. beatAge' = Least(beatAge + 1, cfg.heartbeat) /\ beatAge \in 0 .. cfg.heartbeat
        BY <1>1, <2>2 DEF Elapse, TypeOK
      <3> QED BY <1>2, <3>1 DEF Least
    <2> QED BY <2>1, <2>2
  <1>5. tickIn' \in [Ends -> -MaxLag .. cfg.tick]
    <2>1. \A e \in Ends : tickIn[e] \in -MaxLag .. cfg.tick /\ (Started(e) => tickIn[e] > -MaxLag)
      BY <1>1 DEF TypeOK, Elapse
    <2>2. \A e \in Ends : Started(e) => tickIn[e] - 1 \in -MaxLag .. cfg.tick
      BY <1>2, <2>1
    <2> QED BY <2>1, <2>2 DEF Elapse
  <1>6. readAge' \in [Ends -> 0 .. cfg.rwt]
    <2>1. \A e \in Ends : readAge[e] \in 0 .. cfg.rwt /\ (Started(e) => readAge[e] < cfg.rwt)
      BY <1>1 DEF TypeOK, Elapse
    <2>2. \A e \in Ends : Started(e) => readAge[e] + 1 \in 0 .. cfg.rwt
      BY <1>2, <2>1
    <2> QED BY <2>1, <2>2 DEF Elapse
  <1>7. toward' \in [Ends -> Seq(Packet)]
    <2>1. \A e \in Ends : toward'[e] \in Seq(Packet)
      BY AgesGrow
    <2>2. toward' = [e \in Ends |-> toward'[e]]
      BY DEF Elapse
    <2> QED BY <2>1, <2>2
  <1>8. DeadGetNothing'
    BY <1>1, AgesGrow DEF KeepInv, DeadGetNothing, Started
  <1>9. SendIsUse'
    <2> SUFFICES ASSUME NEW e \in Ends, Started(e), NEW m \in Range(toward'[Peer(e)]), m.type \in App
                 PROVE  activeAge'[e] <= m.age
      BY <1>1 DEF SendIsUse, Started
    <2>1. PICK k \in Range(toward[Peer(e)]) : m = older(k) /\ k \in Packet /\ k.age < MaxDelay
      BY AgesGrow, EndsFacts
    <2>2. k.type = m.type /\ m.age = k.age + 1 /\ k.age \in Nat
      BY <2>1, PacketFields
    <2>3. activeAge[e] <= k.age
      BY <2>1, <2>2 DEF KeepInv, SendIsUse
    <2>4. activeAge'[e] = Least(activeAge[e] + 1, cfg.inactive) /\ activeAge[e] \in 0 .. cfg.inactive
      BY <1>1 DEF Elapse, TypeOK
    <2> QED BY <1>2, <2>2, <2>3, <2>4 DEF Least
  <1> QED BY <1>1, <1>3, <1>4, <1>5, <1>6, <1>7, <1>8, <1>9 DEF KeepInv, TypeOK

LEMMA CutKeeps ==
    ASSUME KeepInv, Cut
    PROVE  KeepInv'
  <1>1. <<>> \in Seq(Packet)
    BY EmptySeq
  <1>2. toward' = [e \in Ends |-> <<>>] /\ cut' = TRUE
        /\ UNCHANGED <<cfg, state, activeAge, beatAge, tickIn, readAge>>
    BY DEF Cut
  <1>3. TypeOK'
    BY <1>1, <1>2 DEF KeepInv, TypeOK
  <1>4. DeadGetNothing'
    BY <1>2 DEF DeadGetNothing
  <1>5. SendIsUse'
    <2>1. \A e \in Ends : Range(toward'[Peer(e)]) = {}
      BY <1>1, <1>2, BoxIs, EndsFacts
    <2> QED BY <2>1 DEF SendIsUse
  <1> QED BY <1>3, <1>4, <1>5 DEF KeepInv

LEMMA KeepNext ==
    ASSUME KeepInv, [Next]_vars
    PROVE  KeepInv'
  <1>1. CASE Next
    BY <1>1, UseKeeps, TickKeeps, StepKeeps, ElapseKeeps, CutKeeps DEF Next
  <1>2. CASE UNCHANGED vars
    <2>1. UNCHANGED <<cfg, state, activeAge, beatAge, tickIn, readAge, toward, cut>>
      BY <1>2 DEF vars
    <2> QED BY <2>1 DEF KeepInv, TypeOK, DeadGetNothing, SendIsUse, Started
  <1> QED BY <1>1, <1>2

(* KeepInv is an invariant whatever the applications send, and whichever   *)
(* of them looks the session up.                                           *)
THEOREM KeepInvariance == Spec => []KeepInv
  BY KeepInit, KeepNext, PTL DEF Spec

(* Type correctness: ages and timers stay within what asks for them, and   *)
(* no packet is under way for longer than MaxDelay.                        *)
THEOREM KeepTypeCorrect == Spec => []TypeOK
  <1>1. KeepInv => TypeOK
    BY DEF KeepInv
  <1> QED BY <1>1, KeepInvariance, PTL

(* sessionHandleCloseReq closes only when this end has not used the session *)
(* for InactiveTimeout, which is longer than a packet is under way: what   *)
(* this end has sent before has arrived.                                   *)
THEOREM NothingIsLostByIdleClose == Spec => InactiveCloseLosesNothing
  <1> DEFINE A == \A e \in Ends : Started(e) /\ state'[e] = "inactive" => UnderWay(Peer(e)) = 0
  <1>1. ASSUME KeepInv, [Next]_vars
        PROVE  [A]_vars
    <2> SUFFICES ASSUME NEW e \in Ends, Next, Started(e), state'[e] = "inactive"
                 PROVE  UnderWay(Peer(e)) = 0
      BY <1>1 DEF A
    <2>1. state \in [Ends -> {"started", "inactive", "deadline", "eof"}] /\ state[e] = "started"
      BY <1>1 DEF KeepInv, TypeOK, Started
    <2>2. inactive(e)
      <3>1. state' # state
        BY <2>1
      <3>2. PICK d \in Ends : Step(d)
        BY <3>1 DEF Next, Use, Send, Look, TickActiveEnd, TickPassiveEnd, Elapse, Cut
      <3>3. PICK reason \in {"inactive", "deadline", "eof"}, n \in Nat :
                /\ state' = [state EXCEPT ![d] = reason]
                /\ reason = "inactive" => inactive(d)
        BY <1>1, <3>1, <3>2, StepIs DEF handles, ReadEof, ReadDeadline, close
      <3>4. d = e /\ reason = "inactive"
        BY <2>1, <3>3
      <3> QED BY <3>3, <3>4
    <2>3. /\ cfg \in Effective /\ activeAge[e] >= cfg.inactive /\ activeAge[e] \in 0 .. cfg.inactive
          /\ Peer(e) \in Ends /\ toward[Peer(e)] \in Seq(Packet)
      BY <1>1, <2>2, EndsFacts DEF KeepInv, TypeOK, inactive
    <2>4. ASSUME NEW m \in Range(toward[Peer(e)])
          PROVE  m.type \notin App
      <3>1. m.age \in Nat /\ m.age <= MaxDelay
        BY <2>3, BoxIs, PacketFields, ConfigFacts
      <3>2. m.age < cfg.inactive
        <4>1. /\ cfg.rwt \in Nat /\ cfg.tick \in Nat /\ cfg.heartbeat \in Nat /\ cfg.inactive \in Nat
              /\ MaxLag \in Nat /\ MaxDelay \in Nat /\ cfg.rwt < cfg.inactive
              /\ cfg.heartbeat + cfg.tick + MaxLag + 2 * MaxDelay < cfg.rwt
          BY <2>3, ConfigFacts
        <4> QED BY <3>1, <4>1
      <3>3. cfg.inactive \in Nat
        BY <2>3, ConfigFacts
      <3>4. m.type \in App => activeAge[e] <= m.age
        BY <1>1 DEF KeepInv, SendIsUse
      <3> QED BY <2>3, <3>1, <3>2, <3>3, <3>4
    <2>5. {i \in DOMAIN toward[Peer(e)] : toward[Peer(e)][i].type \in App} = {}
      BY <2>4 DEF Range
    <2> QED BY <2>5, FS_EmptySet DEF UnderWay
  <1>2. Spec => [][A]_vars
    <2> HIDE DEF A
    <2> QED BY <1>1, KeepInvariance, PTL DEF Spec
  <1> QED BY <1>2 DEF InactiveCloseLosesNothing, A

-----------------------------------------------------------------------------
(* What BeatInv is about *)

(* The ages and the margins between them. *)
Bounds ==
    /\ cfg.rwt \in Nat /\ cfg.tick \in Nat /\ cfg.heartbeat \in Nat /\ cfg.inactive \in Nat
    /\ MaxLag \in Nat /\ MaxDelay \in Nat /\ maxPause \in Nat /\ sinceDue \in Nat
    /\ 0 < cfg.heartbeat /\ cfg.heartbeat <= sinceDue /\ sinceDue <= maxPause
    /\ maxPause + 2 * MaxDelay < cfg.rwt /\ cfg.rwt < cfg.inactive
    /\ activeAge["active"] \in Nat /\ activeAge["active"] <= cfg.inactive
    /\ beatAge = Never \/ (beatAge \in Nat /\ beatAge <= cfg.heartbeat)
    /\ \A e \in Ends : /\ readAge[e] \in Nat /\ toward[e] \in Seq(Packet)
                       /\ \A m \in Range(toward[e]) : m \in Packet /\ m.age \in Nat /\ m.age <= MaxDelay
                       /\ toward[e] # <<>> => /\ Head(toward[e]) \in Range(toward[e])
                                              /\ headAge(e) \in Nat /\ headAge(e) <= MaxDelay
                       /\ toward[e] = <<>> => Range(toward[e]) = {}

LEMMA BoundsHold == KeepInv => Bounds
  <1> SUFFICES ASSUME KeepInv
               PROVE  Bounds
    OBVIOUS
  <1>1. /\ cfg \in Effective /\ activeAge["active"] \in 0 .. cfg.inactive
        /\ beatAge \in {Never} \cup 0 .. cfg.heartbeat
        /\ tickIn["active"] \in -MaxLag .. cfg.tick
        /\ \A e \in Ends : readAge[e] \in 0 .. cfg.rwt /\ toward[e] \in Seq(Packet)
    BY EndsFacts DEF KeepInv, TypeOK
  <1>2. /\ cfg.rwt \in Nat /\ cfg.tick \in Nat /\ cfg.heartbeat \in Nat /\ cfg.inactive \in Nat
        /\ MaxLag \in Nat /\ MaxDelay \in Nat
        /\ MaxLag < cfg.tick /\ cfg.tick < cfg.heartbeat
        /\ cfg.heartbeat + cfg.tick + MaxLag + 2 * MaxDelay < cfg.rwt
        /\ cfg.rwt < cfg.inactive
    BY <1>1, ConfigFacts
  <1>3. /\ maxPause \in Nat /\ sinceDue \in Nat /\ 0 < cfg.heartbeat
        /\ cfg.heartbeat <= sinceDue /\ sinceDue <= maxPause
        /\ maxPause + 2 * MaxDelay < cfg.rwt
    <2> DEFINE h == cfg.heartbeat
               k == cfg.tick
               i == tickIn["active"]
    <2>1. h \in Nat /\ k \in Nat /\ i \in Int /\ MaxLag \in Nat /\ -MaxLag <= i /\ i <= k /\ k < h
      BY <1>1, <1>2
    <2>2. maxPause = h + k + MaxLag /\ sinceDue = h + k - i
      BY DEF maxPause, sinceDue
    <2>3. h + k + MaxLag + 2 * MaxDelay < cfg.rwt
      BY <1>2
    <2> HIDE DEF h, k, i
    <2>4. /\ maxPause \in Nat /\ sinceDue \in Nat /\ 0 < h /\ h <= sinceDue /\ sinceDue <= maxPause
      BY <2>1, <2>2
    <2>5. maxPause + 2 * MaxDelay < cfg.rwt
      BY <2>2, <2>3
    <2> QED BY <2>4, <2>5 DEF h
  <1>4. /\ activeAge["active"] \in Nat /\ activeAge["active"] <= cfg.inactive
        /\ beatAge = Never \/ (beatAge \in Nat /\ beatAge <= cfg.heartbeat)
    BY <1>1, <1>2
  <1>5. ASSUME NEW e \in Ends
        PROVE  /\ readAge[e] \in Nat /\ toward[e] \in Seq(Packet)
               /\ \A m \in Range(toward[e]) : m \in Packet /\ m.age \in Nat /\ m.age <= MaxDelay
               /\ toward[e] # <<>> => /\ Head(toward[e]) \in Range(toward[e])
                                      /\ headAge(e) \in Nat /\ headAge(e) <= MaxDelay
               /\ toward[e] = <<>> => Range(toward[e]) = {}
    <2>1. readAge[e] \in Nat /\ toward[e] \in Seq(Packet)
      BY <1>1, <1>2
    <2>2. \A m \in Range(toward[e]) : m \in Packet /\ m.age \in Nat /\ m.age <= MaxDelay
      BY <1>2, <2>1, BoxIs, PacketFields
    <2>3. toward[e] # <<>> => Head(toward[e]) \in Range(toward[e])
      BY <2>1, BoxIs
    <2>4. toward[e] = <<>> => Range(toward[e]) = {}
      BY <2>1, BoxIs
    <2> QED BY <2>1, <2>2, <2>3, <2>4 DEF headAge
  <1> HIDE DEF maxPause, sinceDue
  <1> QED BY <1>2, <1>3, <1>4, <1>5 DEF Bounds

LEMMA BoundsHoldNext == KeepInv' => Bounds'
  BY BoundsHold, PTL

(* A connection that has been cut owes nothing. *)
LEMMA CutOwesNothing == KeepInv /\ cut => BeatInv
  <1> SUFFICES ASSUME KeepInv, cut
               PROVE  BeatInv
    OBVIOUS
  <1>1. \A e \in Ends : Range(toward[e]) = {}
    BY BoundsHold DEF Bounds, KeepInv, DeadGetNothing
  <1> QED BY <1>1 DEF BeatInv, Flows, ActiveClosesFirst, RepliesAreFresh, PassiveHears,
                      ActiveHears, EofArrives, DeadlineMeansCut, Linked

LEMMA CutOwesNothingNext == KeepInv' /\ cut' => BeatInv'
  BY CutOwesNothing, PTL

(* How late each end may be. *)
LEMMA PassiveLate ==
    ASSUME KeepInv, BeatInv, Linked
    PROVE  /\ readAge["passive"] <= maxPause + 2 * MaxDelay
           /\ toward["passive"] = <<>> =>
                 \/ readAge["passive"] <= maxPause
                 \/ /\ activeAge["active"] <= maxPause
                    /\ readAge["passive"] <= maxPause + MaxDelay
  <1>1. Bounds /\ "passive" \in Ends
    BY BoundsHold, EndsFacts
  <1>2. CASE toward["passive"] # <<>>
    <2>1. \/ readAge["passive"] <= maxPause + headAge("passive")
          \/ readAge["passive"] <= maxPause + MaxDelay + headAge("passive")
      BY <1>2 DEF BeatInv, PassiveHears
    <2> QED BY <1>1, <1>2, <2>1, SMTT(40) DEF Bounds
  <1>3. CASE toward["passive"] = <<>>
    <2>1. /\ activeAge["active"] < cfg.heartbeat =>
                 readAge["passive"] <= activeAge["active"] + MaxDelay
          /\ beatAge # Never /\ beatAge < cfg.heartbeat => readAge["passive"] <= beatAge
          /\ BeatDue => \/ readAge["passive"] <= sinceDue
                        \/ /\ activeAge["active"] <= sinceDue
                           /\ readAge["passive"] <= activeAge["active"] + MaxDelay
      BY <1>3 DEF BeatInv, PassiveHears
    <2> QED BY <1>1, <1>3, <2>1, SMTT(40) DEF Bounds, BeatDue
  <1> QED BY <1>2, <1>3

LEMMA ActiveLate ==
    ASSUME KeepInv, BeatInv, Linked
    PROVE  /\ readAge["active"] <= maxPause + 2 * MaxDelay
           /\ toward["active"] = <<>> => readAge["active"] <= maxPause + MaxDelay
           /\ toward["active"] = <<>> /\ Asks = {} => readAge["active"] <= maxPause
  <1>1. Bounds /\ "active" \in Ends /\ "passive" \in Ends
    BY BoundsHold, EndsFacts
  <1>2. CASE toward["active"] # <<>>
    <2>1. readAge["active"] <= maxPause + MaxDelay + headAge("active")
      BY <1>2 DEF BeatInv, ActiveHears
    <2> QED BY <1>1, <1>2, <2>1 DEF Bounds
  <1>3. CASE toward["active"] = <<>> /\ Asks # {}
    <2>1. PICK m \in Asks : readAge["active"] <= maxPause + m.age
      BY <1>3 DEF BeatInv, ActiveHears
    <2>2. m.age \in Nat /\ m.age <= MaxDelay
      BY <1>1 DEF Bounds, Asks
    <2> QED BY <1>1, <1>3, <2>1, <2>2 DEF Bounds
  <1>4. CASE toward["active"] = <<>> /\ Asks = {}
    <2>1. /\ activeAge["active"] < cfg.heartbeat => readAge["active"] <= activeAge["active"]
          /\ beatAge # Never /\ beatAge < cfg.heartbeat => readAge["active"] <= beatAge
          /\ BeatDue => readAge["active"] <= sinceDue
      BY <1>4 DEF BeatInv, ActiveHears
    <2> QED BY <1>1, <1>4, <2>1 DEF Bounds, BeatDue
  <1> QED BY <1>2, <1>3, <1>4

-----------------------------------------------------------------------------
(* BeatInv is inductive *)

LEMMA BeatInit == Init => BeatInv
  <1> SUFFICES ASSUME Init
               PROVE  BeatInv
    OBVIOUS
  <1>1. KeepInv /\ Bounds /\ "active" \in Ends /\ "passive" \in Ends
    BY KeepInit, BoundsHold, EndsFacts
  <1>2. /\ toward = [e \in Ends |-> <<>>] /\ state = [e \in Ends |-> "started"] /\ beatAge = Never
        /\ readAge = [e \in Ends |-> 0] /\ activeAge = [e \in Ends |-> 0]
    BY DEF Init
  <1>3. \A e \in Ends : Range(toward[e]) = {} /\ Started(e)
    BY <1>1, <1>2 DEF Bounds, Started
  <1>4. Flows /\ ActiveClosesFirst /\ RepliesAreFresh /\ EofArrives
    BY <1>1, <1>3 DEF Flows, ActiveClosesFirst, RepliesAreFresh, EofArrives
  <1>5. PassiveHears
    BY <1>1, <1>2 DEF PassiveHears, Bounds, BeatDue
  <1>6. ActiveHears
    BY <1>1, <1>2, <1>3 DEF ActiveHears, Bounds, BeatDue, Asks
  <1>7. DeadlineMeansCut
    BY <1>2 DEF DeadlineMeansCut
  <1> QED BY <1>4, <1>5, <1>6, <1>7 DEF BeatInv

(* What BeatInv does not depend on. *)
LEMMA QuietKeeps ==
    ASSUME BeatInv, UNCHANGED <<cfg, state, beatAge, readAge, toward, cut>>,
           activeAge'["active"] = activeAge["active"], tickIn'["active"] = tickIn["active"]
    PROVE  BeatInv'
  <1> USE DEF BeatInv, Started, Linked, headAge
  <1>1. Flows' /\ ActiveClosesFirst' /\ RepliesAreFresh' /\ EofArrives' /\ DeadlineMeansCut'
    BY DEF Flows, ActiveClosesFirst, RepliesAreFresh, EofArrives, DeadlineMeansCut
  <1>2. PassiveHears'
    BY DEF PassiveHears, BeatDue, sinceDue, maxPause
  <1>3. ActiveHears'
    BY DEF ActiveHears, BeatDue, sinceDue, maxPause, Asks
  <1> QED BY <1>1, <1>2, <1>3

(* The active end sends a heartbeat or a request. *)
LEMMA AskKeeps ==
    ASSUME KeepInv, BeatInv, KeepInv', NEW t \in {"ping", "request"}, Started("active"),
           toward' = put(toward, "active", <<t>>),
           activeAge'["active"] \in {0, activeAge["active"]},
           UNCHANGED <<cfg, state, readAge, cut>>
    PROVE  BeatInv'
  <1>1. SUFFICES ASSUME ~cut
                 PROVE  BeatInv'
    BY CutOwesNothingNext
  <1>2. Linked /\ Linked' /\ Bounds /\ Bounds' /\ "active" \in Ends /\ "passive" \in Ends
    BY <1>1, BoundsHold, BoundsHoldNext, EndsFacts DEF BeatInv, ActiveClosesFirst, Linked, Started
  <1>3. /\ toward'["active"] = toward["active"] /\ toward'["passive"] # <<>>
        /\ Range(toward'["passive"]) = Range(toward["passive"]) \cup {fresh(t)}
        /\ Head(toward'["passive"]) = IF toward["passive"] = <<>> THEN fresh(t)
                                      ELSE Head(toward["passive"])
    <2>1. toward \in [Ends -> Seq(Packet)] /\ t \in Types /\ ~cut /\ Started("passive")
      BY <1>1, <1>2 DEF KeepInv, TypeOK, Types, App, Linked
    <2>2. Delivered(toward', toward, "active", "passive", t)
      BY <1>2, <2>1, PutArrives, EndsFacts
    <2> QED BY <2>2 DEF Delivered
  <1>4. /\ fresh(t).type = t /\ fresh(t).age = 0
        /\ headAge("passive")' = IF toward["passive"] = <<>> THEN 0 ELSE headAge("passive")
        /\ headAge("active")' = headAge("active")
    BY <1>3 DEF fresh, headAge
  <1>5. maxPause' = maxPause /\ \A e \in Ends : Started(e)' = Started(e)
    BY DEF maxPause, Started
  <1>6. Flows'
    <2>1. t \in FlowsTo("passive") /\ t # "eof"
      BY DEF FlowsTo
    <2> QED BY <1>2, <1>3, <1>4, <1>5, <2>1, EndsFacts DEF Flows, BeatInv
  <1>7. ActiveClosesFirst' /\ EofArrives' /\ DeadlineMeansCut'
    BY <1>2 DEF BeatInv, ActiveClosesFirst, EofArrives, DeadlineMeansCut, Linked
  <1>8. RepliesAreFresh'
    BY <1>2, <1>3 DEF BeatInv, RepliesAreFresh
  <1>9. PassiveHears'
    <2>1. CASE toward["passive"] = <<>>
      <3>1. \/ readAge["passive"] <= maxPause
            \/ activeAge["active"] <= maxPause /\ readAge["passive"] <= maxPause + MaxDelay
        BY <1>2, <2>1, PassiveLate
      <3>2. headAge("passive")' = 0
        BY <1>4, <2>1
      <3>3. \/ readAge["passive"] <= maxPause + 0
            \/ /\ activeAge'["active"] <= maxPause + 0
               /\ readAge["passive"] <= maxPause + MaxDelay + 0
        BY <1>2, <3>1, SMTT(40) DEF Bounds
      <3> QED BY <1>3, <1>5, <3>2, <3>3 DEF PassiveHears
    <2>2. CASE toward["passive"] # <<>>
      <3>1. headAge("passive")' = headAge("passive") /\ headAge("passive") \in Nat
        BY <1>2, <1>4, <2>2 DEF Bounds
      <3>2. \/ readAge["passive"] <= maxPause + headAge("passive")
            \/ /\ activeAge["active"] <= maxPause + headAge("passive")
               /\ readAge["passive"] <= maxPause + MaxDelay + headAge("passive")
        BY <1>2, <2>2 DEF PassiveHears, BeatInv
      <3>3. \/ activeAge'["active"] = activeAge["active"]
            \/ activeAge'["active"] <= maxPause + headAge("passive")
        BY <1>2, <3>1 DEF Bounds
      <3> QED BY <1>3, <1>5, <3>1, <3>2, <3>3 DEF PassiveHears
    <2> QED BY <2>1, <2>2
  <1>10. ActiveHears'
    <2>1. CASE toward["active"] # <<>>
      BY <1>2, <1>3, <1>4, <1>5, <2>1 DEF ActiveHears, BeatInv
    <2>2. CASE toward["active"] = <<>>
      <3>1. Asks' = Asks \cup {fresh(t)}
        BY <1>3, <1>4 DEF Asks
      <3>2. \E m \in Asks' : readAge'["active"] <= maxPause' + m.age
        <4>1. CASE Asks = {}
          <5>1. readAge["active"] <= maxPause + 0
            BY <1>2, <2>2, <4>1, ActiveLate DEF Bounds
          <5> QED BY <1>4, <1>5, <3>1, <5>1
        <4>2. CASE Asks # {}
          BY <1>2, <1>5, <2>2, <3>1, <4>2 DEF ActiveHears, BeatInv
        <4> QED BY <4>1, <4>2
      <3> QED BY <1>3, <2>2, <3>2 DEF ActiveHears
    <2> QED BY <2>1, <2>2
  <1> QED BY <1>6, <1>7, <1>8, <1>9, <1>10 DEF BeatInv

(* The passive end sends a request, or asks for the close. *)
LEMMA PassiveSendKeeps ==
    ASSUME KeepInv, BeatInv, KeepInv', NEW t \in {"request", "closeReq"}, Started("passive"),
           toward' = put(toward, "passive", <<t>>),
           activeAge'["active"] = activeAge["active"], tickIn'["active"] = tickIn["active"],
           UNCHANGED <<cfg, state, beatAge, readAge, cut>>
    PROVE  BeatInv'
  <1>1. /\ KeepInv /\ "active" \in Ends /\ "passive" \in Ends /\ "active" # "passive"
        /\ Peer("passive") = "active"
        /\ toward \in [Ends -> Seq(Packet)] /\ t \in Types
    BY EndsFacts DEF KeepInv, TypeOK, Types, App
  <1>2. CASE cut \/ ~Started("active")
    <2>1. toward' = toward
      BY <1>1, <1>2, PutIs
    <2> QED BY <2>1, QuietKeeps
  <1>3. CASE ~(cut \/ ~Started("active"))
    <2>1. Linked /\ Linked' /\ Bounds /\ Bounds' /\ ~cut
      BY <1>3, BoundsHold, BoundsHoldNext DEF Linked, Started
    <2>2. Delivered(toward', toward, "passive", "active", t)
      BY <1>1, <1>3, PutArrives
    <2>3. /\ toward'["passive"] = toward["passive"] /\ toward'["active"] # <<>>
          /\ Range(toward'["active"]) = Range(toward["active"]) \cup {fresh(t)}
          /\ Head(toward'["active"]) = IF toward["active"] = <<>> THEN fresh(t)
                                       ELSE Head(toward["active"])
      BY <2>2 DEF Delivered
    <2>4. /\ fresh(t).type = t /\ fresh(t).age = 0
          /\ headAge("active")' = IF toward["active"] = <<>> THEN 0 ELSE headAge("active")
          /\ headAge("passive")' = headAge("passive")
      BY <2>3 DEF fresh, headAge
    <2>5. /\ maxPause' = maxPause /\ sinceDue' = sinceDue /\ BeatDue' = BeatDue
          /\ \A e \in Ends : Started(e)' = Started(e)
      BY DEF maxPause, sinceDue, BeatDue, Started
    <2>6. Flows'
      <3>1. t \in FlowsTo("active") /\ t # "eof"
        BY DEF FlowsTo
      <3> QED BY <1>1, <2>3, <2>4, <2>5, <3>1, EndsFacts DEF Flows, BeatInv
    <2>7. ActiveClosesFirst' /\ EofArrives' /\ DeadlineMeansCut'
      BY <2>1 DEF BeatInv, ActiveClosesFirst, EofArrives, DeadlineMeansCut, Linked
    <2>8. RepliesAreFresh'
      BY <2>1, <2>3, <2>4 DEF BeatInv, RepliesAreFresh
    <2>9. PassiveHears'
      BY <2>1, <2>3, <2>4, <2>5 DEF BeatInv, PassiveHears
    <2>10. ActiveHears'
      <3>1. readAge["active"] <= maxPause + MaxDelay + headAge("active")'
        <4>1. CASE toward["active"] = <<>>
          BY <2>1, <2>4, <4>1, ActiveLate DEF Bounds
        <4>2. CASE toward["active"] # <<>>
          BY <2>1, <2>4, <4>2 DEF BeatInv, ActiveHears
        <4> QED BY <4>1, <4>2
      <3> QED BY <2>3, <2>5, <3>1 DEF ActiveHears
    <2> QED BY <2>6, <2>7, <2>8, <2>9, <2>10 DEF BeatInv
  <1> QED BY <1>2, <1>3

(* A tick of the active end that finds no heartbeat due. *)
LEMMA NoBeatKeeps ==
    ASSUME KeepInv, BeatInv,
           \/ activeAge["active"] < cfg.heartbeat /\ beatAge' = Never
           \/ beatAge # Never /\ beatAge < cfg.heartbeat /\ beatAge' = beatAge,
           UNCHANGED <<cfg, state, activeAge, readAge, toward, cut>>
    PROVE  BeatInv'
  <1>1. Bounds
    BY BoundsHold
  <1>2. ~BeatDue'
    BY <1>1 DEF Bounds, BeatDue, Never
  <1>3. /\ maxPause' = maxPause /\ Linked' = Linked /\ Asks' = Asks
        /\ \A e \in Ends : Started(e)' = Started(e)
        /\ headAge("active")' = headAge("active") /\ headAge("passive")' = headAge("passive")
    BY DEF maxPause, Linked, Asks, Started, headAge
  <1>4. Flows' /\ ActiveClosesFirst' /\ RepliesAreFresh' /\ EofArrives' /\ DeadlineMeansCut'
    BY DEF BeatInv, Flows, ActiveClosesFirst, RepliesAreFresh, EofArrives, DeadlineMeansCut,
           Linked, Started, headAge
  <1>5. beatAge' # Never => beatAge' = beatAge
    OBVIOUS
  <1>6. PassiveHears'
    BY <1>2, <1>3, <1>5 DEF BeatInv, PassiveHears
  <1>7. ActiveHears'
    BY <1>2, <1>3, <1>5 DEF BeatInv, ActiveHears
  <1> QED BY <1>4, <1>6, <1>7 DEF BeatInv

LEMMA TicksKeepBeat ==
    ASSUME KeepInv, BeatInv, KeepInv', TickActiveEnd \/ TickPassiveEnd
    PROVE  BeatInv'
  <1>1. CASE TickActiveEnd
    <2>1. /\ Started("active") /\ UNCHANGED <<cfg, state, activeAge, readAge, cut>>
          /\ IF activeAge["active"] < cfg.heartbeat
             THEN beatAge' = Never /\ toward' = toward
             ELSE IF beatAge # Never /\ beatAge < cfg.heartbeat
             THEN beatAge' = beatAge /\ toward' = toward
             ELSE toward' = put(toward, "active", <<"ping">>)
      BY <1>1 DEF TickActiveEnd
    <2>2. CASE activeAge["active"] < cfg.heartbeat \/ (beatAge # Never /\ beatAge < cfg.heartbeat)
      <3>1. /\ toward' = toward
            /\ \/ activeAge["active"] < cfg.heartbeat /\ beatAge' = Never
               \/ beatAge # Never /\ beatAge < cfg.heartbeat /\ beatAge' = beatAge
        BY <2>1, <2>2
      <3> QED BY <2>1, <3>1, NoBeatKeeps
    <2>3. CASE ~(activeAge["active"] < cfg.heartbeat \/ (beatAge # Never /\ beatAge < cfg.heartbeat))
      <3>1. toward' = put(toward, "active", <<"ping">>)
        BY <2>1, <2>3
      <3> QED BY <2>1, <3>1, AskKeeps
    <2> QED BY <2>2, <2>3
  <1>2. CASE TickPassiveEnd
    <2>1. /\ Started("passive") /\ UNCHANGED <<cfg, state, activeAge, beatAge, readAge, cut>>
          /\ toward' = toward \/ toward' = put(toward, "passive", <<"closeReq">>)
          /\ tickIn'["active"] = tickIn["active"]
      <3>1. tickIn \in [Ends -> -MaxLag .. cfg.tick]
        BY DEF KeepInv, TypeOK
      <3>2. tickIn' = [tickIn EXCEPT !["passive"] = tickIn["passive"] + cfg.tick]
        BY <1>2 DEF TickPassiveEnd, NextTick
      <3>3. tickIn'["active"] = tickIn["active"]
        BY <3>1, <3>2, EndsFacts
      <3> QED BY <1>2, <3>3 DEF TickPassiveEnd
    <2> QED BY <2>1, QuietKeeps, PassiveSendKeeps
  <1> QED BY <1>1, <1>2

(* The applications, when they answer whatever they are sent. *)
LEMMA UseKeepsBeat ==
    ASSUME KeepInv, BeatInv, KeepInv', Answering, Use
    PROVE  BeatInv'
  <1>1. activeAge \in [Ends -> 0 .. cfg.inactive] /\ "active" \in Ends /\ "passive" \in Ends
    BY EndsFacts DEF KeepInv, TypeOK
  <1>2. CASE Send("active", "request")
    <2>1. activeAge'["active"] = 0
      BY <1>1, <1>2 DEF Send
    <2> QED BY <1>2, <2>1, AskKeeps DEF Send
  <1>3. CASE Send("passive", "request")
    <2>1. activeAge'["active"] = activeAge["active"]
      BY <1>1, <1>3, EndsFacts DEF Send
    <2> QED BY <1>3, <2>1, PassiveSendKeeps DEF Send
  <1>4. CASE Look("passive")
    <2>1. activeAge'["active"] = activeAge["active"]
      BY <1>1, <1>4, EndsFacts DEF Look
    <2> QED BY <1>4, <2>1, QuietKeeps DEF Look
  <1>5. \A t \in Traffic : t[1] \in {"active", "passive"} /\ t[2] = "request"
    BY DEF Answering, Ends
  <1>6. \A e \in Lookers : e = "passive"
    BY DEF Answering
  <1> QED BY <1>2, <1>3, <1>4, <1>5, <1>6 DEF Use

(* A packet is taken and, by its type, answered. *)
Answer(e, d, type, t) ==
    /\ Head(toward[e]).type = type => Delivered(toward', Taken(e), e, d, t)

LEMMA HandlesIs ==
    ASSUME KeepInv, NEW e \in Ends, NEW d \in Ends, d # e, ~cut, handles(e)
    PROVE  /\ Range(toward[e]) = Range(toward'[e]) \cup {Head(toward[e])}
           /\ IF toward'[e] = <<>> THEN final(toward[e]) = Head(toward[e])
              ELSE final(toward'[e]) = final(toward[e])
           /\ Taken(e)[d] = toward[d]
           /\ Head(toward[e]).type \notin {"ping", "request", "closeReq"} \/ ~Started(d)
                 => toward'[d] = toward[d]
           /\ Started(d) => /\ Answer(e, d, "ping", "pong") /\ Answer(e, d, "request", "reply")
                            /\ Answer(e, d, "closeReq", "closeRefused")
  <1> DEFINE type == Head(toward[e]).type
             answer == [ping |-> "pong", request |-> "reply", closeReq |-> "closeRefused"]
             chan == Taken(e)
  <1>1. /\ toward[e] # <<>>
        /\ toward' = IF type \in DOMAIN answer THEN put(chan, e, <<answer[type]>>) ELSE chan
    BY DEF handles
  <1>2. /\ DOMAIN answer = {"ping", "request", "closeReq"}
        /\ answer["ping"] = "pong" /\ answer["request"] = "reply"
        /\ answer["closeReq"] = "closeRefused"
    OBVIOUS
  <1>3. toward \in [Ends -> Seq(Packet)] /\ d = Peer(e)
    BY EndsFacts DEF KeepInv, TypeOK
  <1>4. /\ chan \in [Ends -> Seq(Packet)] /\ chan[d] = toward[d] /\ chan[e] = Tail(toward[e])
        /\ Range(toward[e]) = Range(chan[e]) \cup {Head(toward[e])}
        /\ IF chan[e] = <<>> THEN final(toward[e]) = Head(toward[e])
           ELSE final(chan[e]) = final(toward[e])
    BY <1>1, <1>3, TakenIs
  <1> HIDE DEF answer, type, chan
  <1>5. PICK t \in Types : toward' = chan \/ toward' = put(chan, e, <<t>>)
    <2>1. {"pong", "reply", "closeRefused"} \subseteq Types
      BY DEF Types, App
    <2>2. CASE type \in DOMAIN answer
      <3>1. answer[type] \in Types
        BY <1>2, <2>1, <2>2
      <3> QED BY <1>1, <2>2, <3>1
    <2>3. CASE type \notin DOMAIN answer
      BY <1>1, <2>1, <2>3
    <2> QED BY <2>2, <2>3
  <1>6. toward'[e] = chan[e]
    <2>1. put(chan, e, <<t>>)[e] = chan[e]
      BY <1>4, PutIs
    <2> QED BY <1>5, <2>1
  <1>7. type \notin {"ping", "request", "closeReq"} \/ ~Started(d) => toward'[d] = toward[d]
    <2>1. CASE type \notin {"ping", "request", "closeReq"}
      BY <1>1, <1>2, <1>4, <2>1
    <2>2. CASE ~Started(d)
      <3>1. put(chan, e, <<t>>) = chan
        BY <1>3, <1>4, <2>2, PutIs
      <3> QED BY <1>4, <1>5, <3>1
    <2> QED BY <2>1, <2>2
  <1>8. ASSUME Started(d)
        PROVE  /\ type = "ping" => Delivered(toward', chan, e, d, "pong")
               /\ type = "request" => Delivered(toward', chan, e, d, "reply")
               /\ type = "closeReq" => Delivered(toward', chan, e, d, "closeRefused")
    <2>1. \A a \in {"pong", "reply", "closeRefused"} : Delivered(put(chan, e, <<a>>), chan, e, d, a)
      <3>1. {"pong", "reply", "closeRefused"} \subseteq Types
        BY DEF Types, App
      <3> QED BY <1>4, <1>8, <3>1, PutArrives
    <2> QED BY <1>1, <1>2, <2>1
  <1> QED BY <1>4, <1>6, <1>7, <1>8 DEF Answer, type, chan

LEMMA PassiveReadsKeeps ==
    ASSUME KeepInv, BeatInv, KeepInv', handles("passive")
    PROVE  BeatInv'
  <1> DEFINE A == "active"
             P == "passive"
             type == Head(toward[P]).type
  <1>1. SUFFICES ASSUME ~cut
                 PROVE  BeatInv'
    BY CutOwesNothingNext DEF handles
  <1>2. /\ Bounds /\ Bounds' /\ A \in Ends /\ P \in Ends /\ A # P /\ Peer(A) = P /\ Peer(P) = A
        /\ \A e \in Ends : e \in {A, P}
    BY BoundsHold, BoundsHoldNext, EndsFacts DEF Ends
  <1>3. /\ Started(P) /\ toward[P] # <<>> /\ type # "eof" /\ readAge'[P] = 0 /\ readAge'[A] = readAge[A]
        /\ activeAge'[A] = activeAge[A] /\ UNCHANGED <<cfg, state, beatAge, tickIn, cut>>
    <2>1. /\ readAge \in [Ends -> 0 .. cfg.rwt] /\ activeAge \in [Ends -> 0 .. cfg.inactive]
      BY DEF KeepInv, TypeOK
    <2> QED BY <1>2, <2>1 DEF handles
  <1>4. /\ Range(toward[P]) = Range(toward'[P]) \cup {Head(toward[P])}
        /\ IF toward'[P] = <<>> THEN final(toward[P]) = Head(toward[P])
           ELSE final(toward'[P]) = final(toward[P])
        /\ Taken(P)[A] = toward[A]
        /\ type \notin {"ping", "request", "closeReq"} \/ ~Started(A) => toward'[A] = toward[A]
        /\ Started(A) => /\ Answer(P, A, "ping", "pong") /\ Answer(P, A, "request", "reply")
                         /\ Answer(P, A, "closeReq", "closeRefused")
    BY <1>1, <1>2, HandlesIs
  <1>5. type \in {"ping", "request", "reply", "closeRefused"}
    <2>1. type \in FlowsTo(P)
      BY <1>2, <1>3 DEF BeatInv, Flows, Bounds
    <2> QED BY <1>3, <2>1 DEF FlowsTo
  <1>6. \/ /\ toward'[A] = toward[A]
           /\ Started(A) => type \notin {"ping", "request"}
        \/ /\ Started(A) /\ type \in {"ping", "request"} /\ toward'[A] # <<>>
           /\ \E t \in {"pong", "reply"} :
                 /\ Range(toward'[A]) = Range(toward[A]) \cup {fresh(t)}
                 /\ Head(toward'[A]) = IF toward[A] = <<>> THEN fresh(t) ELSE Head(toward[A])
    <2>1. CASE Started(A) /\ type = "ping"
      <3>1. Delivered(toward', Taken(P), P, A, "pong")
        BY <1>4, <2>1 DEF Answer
      <3> QED BY <1>4, <2>1, <3>1 DEF Delivered
    <2>2. CASE Started(A) /\ type = "request"
      <3>1. Delivered(toward', Taken(P), P, A, "reply")
        BY <1>4, <2>2 DEF Answer
      <3> QED BY <1>4, <2>2, <3>1 DEF Delivered
    <2>3. CASE ~Started(A) \/ type \notin {"ping", "request"}
      BY <1>4, <1>5, <2>3
    <2> QED BY <2>1, <2>2, <2>3
  <1>7. \A t \in {"pong", "reply"} : fresh(t).type = t /\ fresh(t).age = 0
    BY DEF fresh
  <1>8. /\ maxPause' = maxPause /\ sinceDue' = sinceDue /\ BeatDue' = BeatDue /\ Linked' = Linked
        /\ \A e \in Ends : Started(e)' = Started(e)
    BY <1>3 DEF maxPause, sinceDue, BeatDue, Started, Linked
  <1> HIDE DEF A, P, type
  <1>9. Flows'
    <2>1. {"pong", "reply"} \subseteq FlowsTo(A)
      BY DEF FlowsTo, A
    <2>2. \A m \in Range(toward'[P]) : m \in Range(toward[P])
      BY <1>4
    <2>3. \A m \in Range(toward'[A]) : m \in Range(toward[A]) \/ m \in {fresh("pong"), fresh("reply")}
      BY <1>6
    <2>4. ASSUME NEW m \in Range(toward'[A])
          PROVE  m.type \in FlowsTo(A) /\ (m.type = "eof" => ~Started(P))
      <3>1. CASE m \in Range(toward[A])
        BY <1>2, <3>1 DEF BeatInv, Flows
      <3>2. CASE m \in {fresh("pong"), fresh("reply")}
        BY <1>7, <2>1, <3>2
      <3> QED BY <2>3, <3>1, <3>2
    <2>5. ASSUME NEW m \in Range(toward'[P])
          PROVE  m.type \in FlowsTo(P) /\ (m.type = "eof" => ~Started(A))
      BY <1>2, <2>2 DEF BeatInv, Flows
    <2> QED BY <1>2, <1>8, <2>4, <2>5 DEF Flows
  <1>10. ActiveClosesFirst' /\ DeadlineMeansCut'
    BY <1>3, <1>8, <1>2 DEF BeatInv, ActiveClosesFirst, DeadlineMeansCut, A, P
  <1>11. RepliesAreFresh'
    BY <1>2, <1>3, SMTT(40) DEF RepliesAreFresh, Bounds, A, P
  <1>12. PassiveHears'
    <2>1. CASE toward'[P] # <<>>
      <3>1. readAge'[P] <= maxPause' + headAge(P)'
        BY <1>2, <1>3, <2>1 DEF Bounds
      <3> QED BY <2>1, <3>1 DEF PassiveHears, P
    <2>2. CASE toward'[P] = <<>>
      <3>1. /\ readAge'[P] <= activeAge'[A] + MaxDelay /\ readAge'[P] <= sinceDue'
            /\ beatAge' # Never => readAge'[P] <= beatAge'
        BY <1>2, <1>3, SMTT(40) DEF Bounds, A
      <3> QED BY <2>2, <3>1 DEF PassiveHears, A, P
    <2> QED BY <2>1, <2>2
  <1>13. ActiveHears'
    <2> SUFFICES ASSUME Linked, Started(A)
                 PROVE  ActiveHears'
      BY <1>8 DEF ActiveHears, Linked, A
    <2>1. CASE toward'[A] = toward[A] /\ type \notin {"ping", "request"}
      <3>1. Asks' = Asks
        <4>1. Head(toward[P]).type \notin {"ping", "request"}
          BY <2>1 DEF type
        <4> QED BY <1>4, <4>1 DEF Asks, P
      <3>2. headAge(A)' = headAge(A)
        BY <2>1 DEF headAge
      <3> QED BY <1>3, <1>8, <2>1, <3>1, <3>2 DEF BeatInv, ActiveHears, A
    <2>2. ASSUME toward'[A] # <<>>, NEW t \in {"pong", "reply"},
                 Head(toward'[A]) = IF toward[A] = <<>> THEN fresh(t) ELSE Head(toward[A])
          PROVE  ActiveHears'
      <3>1. headAge(A)' = IF toward[A] = <<>> THEN 0 ELSE headAge(A)
        BY <1>7, <2>2 DEF headAge
      <3>2. readAge[A] <= maxPause + MaxDelay + headAge(A)'
        <4>1. CASE toward[A] = <<>>
          BY <1>2, <3>1, <4>1, ActiveLate DEF Bounds, A
        <4>2. CASE toward[A] # <<>>
          BY <3>1, <4>2 DEF BeatInv, ActiveHears, A
        <4> QED BY <4>1, <4>2
      <3> QED BY <1>3, <1>8, <2>2, <3>2 DEF ActiveHears, A
    <2> QED BY <1>6, <2>1, <2>2
  <1>14. EofArrives'
    <2> SUFFICES ASSUME ~Started(A)
                 PROVE  /\ toward'[P] # <<>> /\ final(toward'[P]).type = "eof"
                        /\ readAge'[P] < cfg'.rwt - MaxDelay + headAge(P)'
      BY <1>2, <1>8 DEF EofArrives, A, P
    <2>1. final(toward[P]).type = "eof"
      BY <1>1, <1>3 DEF BeatInv, EofArrives, A, P
    <2>2. toward'[P] # <<>> /\ final(toward'[P]).type = "eof"
      BY <1>3, <1>4, <2>1 DEF type
    <2>3. headAge(P)' \in Nat
      BY <1>2, <2>2 DEF Bounds
    <2>4. cfg.rwt \in Nat /\ MaxDelay \in Nat /\ MaxDelay < cfg.rwt
      BY <1>2 DEF Bounds
    <2>5. 0 < cfg.rwt - MaxDelay + headAge(P)'
      BY <2>3, <2>4
    <2> QED BY <1>3, <2>2, <2>5
  <1> QED BY <1>9, <1>10, <1>11, <1>12, <1>13, <1>14 DEF BeatInv

LEMMA ActiveReadsKeeps ==
    ASSUME KeepInv, BeatInv, KeepInv', handles("active")
    PROVE  BeatInv'
  <1> DEFINE A == "active"
             P == "passive"
             type == Head(toward[A]).type
  <1>1. SUFFICES ASSUME ~cut
                 PROVE  BeatInv'
    BY CutOwesNothingNext DEF handles
  <1>2. /\ Bounds /\ Bounds' /\ A \in Ends /\ P \in Ends /\ A # P /\ Peer(A) = P /\ Peer(P) = A
        /\ \A e \in Ends : e \in {A, P}
    BY BoundsHold, BoundsHoldNext, EndsFacts DEF Ends
  <1>3. /\ Started(A) /\ toward[A] # <<>> /\ type # "eof" /\ readAge'[A] = 0 /\ readAge'[P] = readAge[P]
        /\ activeAge'[A] = (IF type \in App THEN 0 ELSE activeAge[A])
        /\ UNCHANGED <<cfg, state, beatAge, tickIn, cut>>
    <2>1. /\ readAge \in [Ends -> 0 .. cfg.rwt] /\ activeAge \in [Ends -> 0 .. cfg.inactive]
      BY DEF KeepInv, TypeOK
    <2> QED BY <1>2, <2>1 DEF handles
  <1>4. /\ Range(toward[A]) = Range(toward'[A]) \cup {Head(toward[A])}
        /\ Taken(A)[P] = toward[P]
        /\ type \notin {"ping", "request", "closeReq"} \/ ~Started(P) => toward'[P] = toward[P]
        /\ Started(P) => /\ Answer(A, P, "ping", "pong") /\ Answer(A, P, "request", "reply")
                         /\ Answer(A, P, "closeReq", "closeRefused")
    BY <1>1, <1>2, HandlesIs
  <1>5. Linked /\ Started(P)
    BY <1>1, <1>3 DEF BeatInv, ActiveClosesFirst, Linked, A, P
  <1>6. type \in {"pong", "request", "reply", "closeReq"}
    <2>1. type \in FlowsTo(A)
      BY <1>2, <1>3 DEF BeatInv, Flows, Bounds
    <2> QED BY <1>3, <2>1 DEF FlowsTo
  <1>7. \/ toward'[P] = toward[P] /\ type \in {"pong", "reply"}
        \/ /\ type \in {"request", "closeReq"} /\ toward'[P] # <<>>
           /\ \E t \in {"reply", "closeRefused"} :
                 /\ Range(toward'[P]) = Range(toward[P]) \cup {fresh(t)}
                 /\ Head(toward'[P]) = IF toward[P] = <<>> THEN fresh(t) ELSE Head(toward[P])
    <2>1. CASE type = "request"
      <3>1. Delivered(toward', Taken(A), A, P, "reply")
        BY <1>4, <1>5, <2>1 DEF Answer
      <3> QED BY <1>4, <2>1, <3>1 DEF Delivered
    <2>2. CASE type = "closeReq"
      <3>1. Delivered(toward', Taken(A), A, P, "closeRefused")
        BY <1>4, <1>5, <2>2 DEF Answer
      <3> QED BY <1>4, <2>2, <3>1 DEF Delivered
    <2>3. CASE type \in {"pong", "reply"}
      BY <1>4, <2>3
    <2> QED BY <1>6, <2>1, <2>2, <2>3
  <1>8. \A t \in {"reply", "closeRefused"} : fresh(t).type = t /\ fresh(t).age = 0
    BY DEF fresh
  <1>9. /\ maxPause' = maxPause /\ sinceDue' = sinceDue /\ Linked'
        /\ \A e \in Ends : Started(e)' = Started(e)
    BY <1>3, <1>5 DEF maxPause, sinceDue, Started, Linked
  <1> HIDE DEF A, P, type
  <1>10. Flows'
    <2>1. {"reply", "closeRefused"} \subseteq FlowsTo(P)
      BY DEF FlowsTo, P
    <2>2. \A m \in Range(toward'[A]) : m \in Range(toward[A])
      BY <1>4
    <2>3. \A m \in Range(toward'[P]) : m \in Range(toward[P]) \/ m \in {fresh("reply"), fresh("closeRefused")}
      BY <1>7
    <2>4. ASSUME NEW m \in Range(toward'[P])
          PROVE  m.type \in FlowsTo(P) /\ (m.type = "eof" => ~Started(A))
      <3>1. CASE m \in Range(toward[P])
        BY <1>2, <3>1 DEF BeatInv, Flows
      <3>2. CASE m \in {fresh("reply"), fresh("closeRefused")}
        BY <1>8, <2>1, <3>2
      <3> QED BY <2>3, <3>1, <3>2
    <2>5. ASSUME NEW m \in Range(toward'[A])
          PROVE  m.type \in FlowsTo(A) /\ (m.type = "eof" => ~Started(P))
      BY <1>2, <2>2 DEF BeatInv, Flows
    <2> QED BY <1>2, <1>9, <2>4, <2>5 DEF Flows
  <1>11. ActiveClosesFirst' /\ EofArrives' /\ DeadlineMeansCut'
    BY <1>2, <1>3, <1>5, <1>9 DEF BeatInv, ActiveClosesFirst, EofArrives, DeadlineMeansCut, A, P
  <1>12. RepliesAreFresh'
    BY <1>2, <1>3, <1>4, <1>5 DEF BeatInv, RepliesAreFresh, A, P
  <1>13. PassiveHears'
    <2>1. activeAge'[A] \in {0, activeAge[A]} /\ activeAge[A] \in Nat
      BY <1>2, <1>3 DEF Bounds, A
    <2>2. CASE toward[P] # <<>>
      <3>1. toward'[P] # <<>> /\ headAge(P)' = headAge(P) /\ headAge(P) \in Nat
        BY <1>2, <1>7, <2>2 DEF headAge, Bounds
      <3>2. \/ readAge[P] <= maxPause + headAge(P)
            \/ activeAge[A] <= maxPause + headAge(P) /\ readAge[P] <= maxPause + MaxDelay + headAge(P)
        BY <1>5, <2>2 DEF BeatInv, PassiveHears, A, P
      <3>3. activeAge'[A] = activeAge[A] \/ activeAge'[A] <= maxPause + headAge(P)
        BY <1>2, <2>1, <3>1 DEF Bounds
      <3> QED BY <1>3, <1>9, <3>1, <3>2, <3>3 DEF PassiveHears, A, P
    <2>3. CASE toward[P] = <<>> /\ toward'[P] # <<>>
      <3>1. headAge(P)' = 0
        BY <1>7, <1>8, <2>3 DEF headAge
      <3>2. \/ readAge[P] <= maxPause
            \/ activeAge[A] <= maxPause /\ readAge[P] <= maxPause + MaxDelay
        BY <1>5, <2>3, PassiveLate DEF A, P
      <3>3. \/ readAge[P] <= maxPause + 0
            \/ activeAge'[A] <= maxPause + 0 /\ readAge[P] <= maxPause + MaxDelay + 0
        BY <1>2, <2>1, <3>2 DEF Bounds
      <3> QED BY <1>3, <1>9, <2>3, <3>1, <3>3 DEF PassiveHears, A, P
    <2>4. CASE toward[P] = <<>> /\ toward'[P] = <<>>
      <3>1. type \in {"pong", "reply"}
        BY <1>7, <2>4
      <3>2. CASE type = "pong"
        <4>1. activeAge'[A] = activeAge[A]
          BY <1>3, <3>2 DEF App
        <4>2. BeatDue' = BeatDue
          BY <1>3, <4>1 DEF BeatDue, A
        <4> QED BY <1>3, <1>5, <1>9, <2>4, <4>1, <4>2 DEF BeatInv, PassiveHears, A, P
      <3>3. CASE type = "reply"
        <4>1. activeAge'[A] = 0
          BY <1>3, <3>3 DEF App
        <4>2. ~BeatDue'
          BY <1>2, <1>3, <4>1 DEF BeatDue, Bounds, A
        <4>3. readAge[P] <= activeAge'[A] + MaxDelay
          <5>1. Head(toward[A]) \in Range(toward[A]) /\ Head(toward[A]).type = "reply"
            BY <1>2, <1>3, <3>3 DEF Bounds, type
          <5>2. readAge[P] <= Head(toward[A]).age /\ Head(toward[A]).age <= MaxDelay
                /\ Head(toward[A]).age \in Nat
            BY <1>2, <1>5, <5>1 DEF BeatInv, RepliesAreFresh, Bounds, A, P
          <5>3. readAge[P] \in Nat /\ MaxDelay \in Nat
            BY <1>2 DEF Bounds
          <5>4. readAge[P] <= 0 + MaxDelay
            BY <5>2, <5>3
          <5> QED BY <4>1, <5>4
        <4>4. beatAge # Never /\ beatAge < cfg.heartbeat => readAge[P] <= beatAge
          BY <1>5, <2>4 DEF BeatInv, PassiveHears, P
        <4> QED BY <1>3, <2>4, <4>2, <4>3, <4>4 DEF PassiveHears, A, P
      <3> QED BY <3>1, <3>2, <3>3
    <2> QED BY <2>2, <2>3, <2>4
  <1>14. ActiveHears'
    <2>1. readAge'[A] = 0
      BY <1>3
    <2>2. CASE toward'[A] # <<>>
      <3>1. 0 <= maxPause' + MaxDelay + headAge(A)'
        BY <1>2, <2>2 DEF Bounds
      <3> QED BY <2>1, <2>2, <3>1 DEF ActiveHears, A
    <2>3. ASSUME toward'[A] = <<>>, NEW m \in Asks'
          PROVE  ActiveHears'
      <3>1. m.age \in Nat
        BY <1>2 DEF Bounds, Asks, P
      <3>2. 0 <= maxPause' + m.age
        BY <1>2, <3>1 DEF Bounds
      <3> QED BY <2>1, <2>3, <3>2 DEF ActiveHears, A
    <2>4. CASE toward'[A] = <<>> /\ Asks' = {}
      <3>1. 0 <= activeAge'[A] /\ 0 <= sinceDue' /\ (beatAge' # Never => 0 <= beatAge')
        BY <1>2 DEF Bounds, A
      <3> QED BY <2>1, <2>4, <3>1 DEF ActiveHears, A
    <2> QED BY <2>2, <2>3, <2>4
  <1> QED BY <1>10, <1>11, <1>12, <1>13, <1>14 DEF BeatInv

(* The active end closes, because nobody uses the session: it has then not *)
(* read or sent anything of the applications for longer than a pause.      *)
LEMMA IdleCloseKeeps ==
    ASSUME KeepInv, BeatInv, KeepInv', NEW e \in Ends, Started(e),
           toward[e] # <<>>, Head(toward[e]).type = "closeReq", inactive(e),
           NEW n \in 0 .. Len(toward[Peer(e)]), close(e, "inactive", n),
           readAge' = [readAge EXCEPT ![e] = 0],
           UNCHANGED <<cfg, activeAge, beatAge, tickIn, cut>>
    PROVE  BeatInv'
  <1> DEFINE A == "active"
             P == "passive"
  <1>1. SUFFICES ASSUME ~cut
                 PROVE  BeatInv'
    BY CutOwesNothingNext
  <1>2. /\ Bounds /\ Bounds' /\ A \in Ends /\ P \in Ends /\ A # P /\ Peer(A) = P /\ Peer(P) = A
        /\ \A x \in Ends : x \in {A, P}
    BY BoundsHold, BoundsHoldNext, EndsFacts DEF Ends
  <1>3. e = A
    <2>1. "closeReq" \in FlowsTo(e)
      BY <1>2 DEF Bounds, BeatInv, Flows
    <2> QED BY <1>2, <2>1 DEF FlowsTo
  <1>4. Linked
    BY <1>1, <1>3 DEF BeatInv, ActiveClosesFirst, Linked
  <1>5. /\ state' = [state EXCEPT ![A] = "inactive"] /\ toward'[A] = <<>>
        /\ toward'[P] # <<>> /\ Range(toward'[P]) \subseteq Range(toward[P]) \cup {fresh("eof")}
        /\ final(toward'[P]) = fresh("eof")
        /\ Head(toward'[P]) = fresh("eof") \/ (toward[P] # <<>> /\ Head(toward'[P]) = Head(toward[P]))
    <2>1. Peer(e) = P /\ ~cut /\ Started(P)
      BY <1>1, <1>2, <1>3, <1>4 DEF Linked
    <2> QED BY <1>3, <2>1, CloseIs
  <1>6. /\ state \in [Ends -> {"started", "inactive", "deadline", "eof"}]
        /\ readAge \in [Ends -> 0 .. cfg.rwt]
    BY DEF KeepInv, TypeOK
  <1>7. ~Started(A)' /\ Started(P)' /\ ~Linked' /\ readAge'[P] = readAge[P]
    BY <1>2, <1>3, <1>4, <1>5, <1>6 DEF Started, Linked
  <1>8. fresh("eof").type = "eof" /\ fresh("eof").age = 0
    BY DEF fresh
  <1>9. Flows'
    <2>1. Range(toward'[A]) = {}
      BY <1>2, <1>5 DEF Bounds
    <2>2. ASSUME NEW m \in Range(toward'[P])
          PROVE  m.type \in FlowsTo(P)
      <3>1. CASE m \in Range(toward[P])
        BY <1>2, <3>1 DEF BeatInv, Flows
      <3>2. CASE m = fresh("eof")
        BY <1>8, <3>2 DEF FlowsTo
      <3> QED BY <1>5, <3>1, <3>2
    <2> QED BY <1>2, <1>7, <2>1, <2>2 DEF Flows
  <1>10. ActiveClosesFirst' /\ RepliesAreFresh' /\ PassiveHears' /\ ActiveHears'
    BY <1>7 DEF ActiveClosesFirst, RepliesAreFresh, PassiveHears, ActiveHears
  <1>11. DeadlineMeansCut'
    BY <1>2, <1>5, <1>6 DEF BeatInv, DeadlineMeansCut
  <1>12. /\ maxPause \in Nat /\ MaxDelay \in Nat /\ cfg.rwt \in Nat /\ cfg.inactive \in Nat
         /\ maxPause + 2 * MaxDelay < cfg.rwt /\ cfg.rwt < cfg.inactive
         /\ activeAge[A] \in Nat /\ readAge[P] \in Nat
    BY <1>2 DEF Bounds
  <1>13. EofArrives'
    <2>1. activeAge[A] > maxPause + 2 * MaxDelay
      <3>1. activeAge[A] >= cfg.inactive
        BY <1>3 DEF inactive
      <3> QED BY <1>12, <3>1
    <2>2. readAge[P] < cfg.rwt - MaxDelay + headAge(P)'
      <3>1. CASE toward[P] # <<>>
        <4>1. headAge(P) \in Nat /\ headAge(P) <= MaxDelay
          BY <1>2, <3>1 DEF Bounds
        <4>2. headAge(P)' \in {0, headAge(P)}
          BY <1>5, <1>8 DEF headAge
        <4>3. readAge[P] <= maxPause + headAge(P)
          <5>1. ~(activeAge[A] <= maxPause + headAge(P))
            BY <1>12, <2>1, <4>1
          <5> QED BY <1>4, <3>1, <5>1 DEF BeatInv, PassiveHears
        <4> QED BY <1>12, <4>1, <4>2, <4>3
      <3>2. CASE toward[P] = <<>>
        <4>1. headAge(P)' = 0
          BY <1>5, <1>8, <3>2 DEF headAge
        <4>2. readAge[P] <= maxPause
          <5>1. ~(activeAge[A] <= maxPause)
            BY <1>12, <2>1
          <5> QED BY <1>4, <3>2, <5>1, PassiveLate
        <4> QED BY <1>12, <4>1, <4>2
      <3> QED BY <3>1, <3>2
    <2> QED BY <1>5, <1>7, <1>8, <2>2 DEF EofArrives
  <1> QED BY <1>9, <1>10, <1>11, <1>13 DEF BeatInv

(* The passive end reads the end of the stream. *)
LEMMA EofKeeps ==
    ASSUME KeepInv, BeatInv, KeepInv', NEW e \in Ends, ReadEof(e)
    PROVE  BeatInv'
  <1> DEFINE A == "active"
             P == "passive"
  <1>1. SUFFICES ASSUME ~cut
                 PROVE  BeatInv'
    BY CutOwesNothingNext DEF ReadEof
  <1>2. /\ Bounds /\ Bounds' /\ A \in Ends /\ P \in Ends /\ A # P /\ Peer(A) = P /\ Peer(P) = A
        /\ \A x \in Ends : x \in {A, P}
    BY BoundsHold, BoundsHoldNext, EndsFacts DEF Ends
  <1>3. Started(e) /\ toward[e] # <<>> /\ Head(toward[e]).type = "eof"
        /\ UNCHANGED <<cfg, activeAge, beatAge, tickIn, cut>>
    BY DEF ReadEof, Arrives
  <1>4. ~Started(Peer(e))
    BY <1>2, <1>3 DEF Bounds, BeatInv, Flows
  <1>5. PICK n \in 0 .. Len(toward[Peer(e)]) : close(e, "eof", n)
    BY DEF ReadEof
  <1>6. state' = [state EXCEPT ![e] = "eof"] /\ toward'[e] = <<>> /\ toward'[Peer(e)] = <<>>
    BY <1>3, <1>4, <1>5, CloseIs
  <1>7. state \in [Ends -> {"started", "inactive", "deadline", "eof"}]
    BY DEF KeepInv, TypeOK
  <1>8. ~Started(A)' /\ ~Started(P)' /\ ~Linked'
    BY <1>2, <1>3, <1>4, <1>6, <1>7 DEF Started, Linked
  <1>9. \A x \in Ends : Range(toward'[x]) = {}
    BY <1>2, <1>6, EndsFacts DEF Bounds
  <1>10. DeadlineMeansCut'
    BY <1>2, <1>3, <1>6, <1>7 DEF BeatInv, DeadlineMeansCut
  <1> QED BY <1>8, <1>9, <1>10 DEF BeatInv, Flows, ActiveClosesFirst, RepliesAreFresh,
                                   PassiveHears, ActiveHears, EofArrives

(* No read comes to its deadline unless the connection has been cut. *)
LEMMA NoDeadline ==
    ASSUME KeepInv, BeatInv, NEW e \in Ends, ReadDeadline(e)
    PROVE  cut
  <1> DEFINE A == "active"
             P == "passive"
  <1> SUFFICES ASSUME ~cut
               PROVE  FALSE
    OBVIOUS
  <1>1. Bounds /\ Started(e) /\ readAge[e] = cfg.rwt /\ A \in Ends /\ P \in Ends /\ e \in {A, P}
    BY BoundsHold, EndsFacts DEF ReadDeadline, Ends
  <1>2. ~Linked
    <2>1. Linked => /\ readAge[A] <= maxPause + 2 * MaxDelay
                    /\ readAge[P] <= maxPause + 2 * MaxDelay
      BY ActiveLate, PassiveLate
    <2> QED BY <1>1, <2>1 DEF Bounds
  <1>3. e = P /\ ~Started(A)
    BY <1>1, <1>2 DEF BeatInv, ActiveClosesFirst, Linked
  <1>4. toward[P] # <<>> /\ readAge[P] < cfg.rwt - MaxDelay + headAge(P)
    BY <1>1, <1>3 DEF BeatInv, EofArrives
  <1> QED BY <1>1, <1>3, <1>4 DEF Bounds

LEMMA StepKeepsBeat ==
    ASSUME KeepInv, BeatInv, KeepInv', NEW e \in Ends, Step(e)
    PROVE  BeatInv'
  <1>1. CASE handles(e)
    <2>1. e \in {"active", "passive"}
      BY DEF Ends
    <2> QED BY <1>1, <2>1, ActiveReadsKeeps, PassiveReadsKeeps
  <1>2. CASE ReadEof(e)
    BY <1>2, EofKeeps
  <1>3. CASE ReadDeadline(e)
    <2>1. cut' = cut
      BY <1>3 DEF ReadDeadline
    <2> QED BY <1>3, <2>1, NoDeadline, CutOwesNothingNext
  <1> QED BY <1>1, <1>2, <1>3, StepIs, IdleCloseKeeps

(* Time goes on at both ends. *)
LEMMA TimeKeepsBeat ==
    ASSUME KeepInv, BeatInv, KeepInv', Elapse
    PROVE  BeatInv'
  <1> DEFINE A == "active"
             P == "passive"
  <1>1. SUFFICES ASSUME ~cut
                 PROVE  BeatInv'
    BY CutOwesNothingNext DEF Elapse
  <1>2. /\ Bounds /\ Bounds' /\ A \in Ends /\ P \in Ends /\ A # P /\ Peer(A) = P /\ Peer(P) = A
        /\ \A e \in Ends : e \in {A, P}
    BY BoundsHold, BoundsHoldNext, EndsFacts DEF Ends
  <1>3. /\ UNCHANGED <<cfg, state, cut>>
        /\ \A e \in Ends : Started(e) => readAge'[e] = readAge[e] + 1
        /\ Started(A) => /\ activeAge'[A] = Least(activeAge[A] + 1, cfg.inactive)
                         /\ beatAge' = IF beatAge = Never THEN Never ELSE Least(beatAge + 1, cfg.heartbeat)
                         /\ tickIn'[A] = tickIn[A] - 1
    BY <1>2 DEF Elapse
  <1>4. \A e \in Ends :
            /\ (toward'[e] = <<>> <=> toward[e] = <<>>)
            /\ Range(toward'[e]) = {older(m) : m \in Range(toward[e])}
            /\ (toward[e] # <<>> => /\ Head(toward'[e]) = older(Head(toward[e]))
                                    /\ final(toward'[e]) = older(final(toward[e])))
            /\ \A m \in Range(toward[e]) : m.age < MaxDelay
    BY AgesGrow
  <1>5. \A e \in Ends : \A m \in Range(toward[e]) :
            older(m).type = m.type /\ older(m).age = m.age + 1 /\ m.age \in Nat
    BY <1>2, <1>4, PacketFields DEF Bounds
  <1>6. \A e \in Ends : toward[e] # <<>> => headAge(e)' = headAge(e) + 1 /\ headAge(e) \in Nat
    BY <1>2, <1>4, <1>5 DEF headAge, Bounds
  <1>7. /\ maxPause' = maxPause /\ Linked' = Linked
        /\ \A e \in Ends : Started(e)' = Started(e)
    BY <1>3 DEF maxPause, Linked, Started
  <1>8. Started(A) => sinceDue' = sinceDue + 1
    <2>1. cfg.heartbeat \in Nat /\ cfg.tick \in Nat /\ tickIn[A] \in Int
      BY <1>2 DEF Bounds, KeepInv, TypeOK
    <2> QED BY <1>3, <2>1 DEF sinceDue
  <1>9. /\ maxPause \in Nat /\ MaxDelay \in Nat /\ sinceDue \in Nat /\ sinceDue' \in Nat
        /\ cfg.heartbeat \in Nat /\ cfg.inactive \in Nat /\ cfg.rwt \in Nat /\ cfg' = cfg
        /\ 0 < cfg.heartbeat /\ cfg.heartbeat < cfg.inactive /\ cfg.heartbeat <= sinceDue'
        /\ activeAge[A] \in Nat /\ readAge[A] \in Nat /\ readAge[P] \in Nat
        /\ beatAge = Never \/ beatAge \in Nat
    BY <1>2, <1>3, SMTT(40) DEF Bounds
  <1> HIDE DEF A, P
  (* The time of the last use, and of the last heartbeat. *)
  <1>10. ASSUME Started(A)
         PROVE  /\ activeAge'[A] \in Nat /\ activeAge'[A] <= activeAge[A] + 1
                /\ activeAge'[A] < cfg.heartbeat \/ activeAge'[A] = cfg.heartbeat =>
                        activeAge'[A] = activeAge[A] + 1
                /\ activeAge[A] < cfg.heartbeat => activeAge'[A] = activeAge[A] + 1
                /\ beatAge' # Never /\ beatAge' < cfg.heartbeat =>
                        beatAge # Never /\ beatAge < cfg.heartbeat /\ beatAge' = beatAge + 1
                /\ beatAge # Never /\ beatAge < cfg.heartbeat => beatAge + 1 <= cfg.heartbeat
                /\ BeatDue' => \/ BeatDue
                               \/ activeAge[A] < cfg.heartbeat /\ activeAge'[A] = cfg.heartbeat
                               \/ beatAge # Never /\ beatAge < cfg.heartbeat
    <2>1. /\ activeAge'[A] = IF activeAge[A] + 1 < cfg.inactive THEN activeAge[A] + 1 ELSE cfg.inactive
          /\ beatAge' = IF beatAge = Never THEN Never
                        ELSE IF beatAge + 1 < cfg.heartbeat THEN beatAge + 1 ELSE cfg.heartbeat
      BY <1>3, <1>10 DEF Least
    <2>2. BeatDue' => activeAge'[A] >= cfg.heartbeat
      BY <1>9 DEF BeatDue, A
    <2>3. BeatDue \/ activeAge[A] < cfg.heartbeat \/ (beatAge # Never /\ beatAge < cfg.heartbeat)
      BY <1>9 DEF BeatDue, A
    <2> QED BY <1>9, <2>1, <2>2, <2>3
  <1>11. Flows'
    <2>1. ASSUME NEW e \in Ends, NEW m \in Range(toward'[e])
          PROVE  m.type \in FlowsTo(e) /\ (m.type = "eof" => ~Started(Peer(e)))
      <3>1. PICK k \in Range(toward[e]) : m = older(k)
        BY <1>4
      <3> QED BY <1>5, <3>1 DEF BeatInv, Flows
    <2> QED BY <1>7, <2>1, EndsFacts DEF Flows
  <1>12. ActiveClosesFirst' /\ DeadlineMeansCut'
    BY <1>2, <1>3, <1>7 DEF BeatInv, ActiveClosesFirst, DeadlineMeansCut, A, P
  <1>13. RepliesAreFresh'
    <2> SUFFICES ASSUME Linked, NEW m \in Range(toward'[A]), m.type = "reply"
                 PROVE  readAge'[P] <= m.age
      BY <1>7 DEF RepliesAreFresh, A, P
    <2>1. PICK k \in Range(toward[A]) : m = older(k)
      BY <1>2, <1>4
    <2>2. k.type = "reply" /\ m.age = k.age + 1 /\ k.age \in Nat
      BY <1>2, <1>5, <2>1
    <2>3. readAge[P] <= k.age
      BY <2>1, <2>2 DEF BeatInv, RepliesAreFresh, A, P
    <2>4. readAge'[P] = readAge[P] + 1
      BY <1>2, <1>3 DEF Linked, P
    <2> QED BY <1>9, <2>2, <2>3, <2>4
  <1>14. PassiveHears'
    <2> SUFFICES ASSUME Linked
                 PROVE  PassiveHears'
      BY <1>7 DEF PassiveHears
    <2>1. Started(A) /\ readAge'[P] = readAge[P] + 1
      BY <1>2, <1>3 DEF Linked, A, P
    <2>2. CASE toward[P] # <<>>
      <3>1. \/ readAge[P] <= maxPause + headAge(P)
            \/ activeAge[A] <= maxPause + headAge(P) /\ readAge[P] <= maxPause + MaxDelay + headAge(P)
        BY <2>2 DEF BeatInv, PassiveHears, A, P
      <3>2. headAge(P)' = headAge(P) + 1 /\ headAge(P) \in Nat /\ toward'[P] # <<>>
        BY <1>2, <1>4, <1>6, <2>2
      <3>3. \/ readAge'[P] <= maxPause + headAge(P)'
            \/ activeAge'[A] <= maxPause + headAge(P)' /\ readAge'[P] <= maxPause + MaxDelay + headAge(P)'
        <4> DEFINE g == headAge(P)
        <4>1. g \in Nat /\ headAge(P)' = g + 1
          BY <3>2
        <4>2. activeAge'[A] \in Nat /\ activeAge'[A] <= activeAge[A] + 1
          BY <1>10, <2>1
        <4> HIDE DEF g
        <4>3. readAge[P] <= maxPause + g => readAge[P] + 1 <= maxPause + (g + 1)
          BY <1>9, <4>1
        <4>4. activeAge[A] <= maxPause + g => activeAge'[A] <= maxPause + (g + 1)
          BY <1>9, <4>1, <4>2
        <4>5. readAge[P] <= maxPause + MaxDelay + g => readAge[P] + 1 <= maxPause + MaxDelay + (g + 1)
          BY <1>9, <4>1
        <4> QED BY <2>1, <3>1, <4>1, <4>3, <4>4, <4>5 DEF g
      <3> QED BY <1>7, <3>2, <3>3 DEF PassiveHears, A, P
    <2>3. CASE toward[P] = <<>>
      <3>1. /\ activeAge[A] < cfg.heartbeat => readAge[P] <= activeAge[A] + MaxDelay
            /\ beatAge # Never /\ beatAge < cfg.heartbeat => readAge[P] <= beatAge
            /\ BeatDue => \/ readAge[P] <= sinceDue
                          \/ activeAge[A] <= sinceDue /\ readAge[P] <= activeAge[A] + MaxDelay
        BY <2>3 DEF BeatInv, PassiveHears, A, P
      <3>2. activeAge'[A] < cfg'.heartbeat => readAge'[P] <= activeAge'[A] + MaxDelay
        BY <1>9, <1>10, <2>1, <3>1
      <3>3. beatAge' # Never /\ beatAge' < cfg'.heartbeat => readAge'[P] <= beatAge'
        BY <1>9, <1>10, <2>1, <3>1
      <3>4. ASSUME BeatDue'
            PROVE  \/ readAge'[P] <= sinceDue'
                   \/ activeAge'[A] <= sinceDue' /\ readAge'[P] <= activeAge'[A] + MaxDelay
        <4>1. CASE BeatDue /\ readAge[P] <= sinceDue
          BY <1>8, <1>9, <2>1, <4>1
        <4>2. CASE BeatDue /\ activeAge[A] <= sinceDue /\ readAge[P] <= activeAge[A] + MaxDelay
          <5>1. activeAge'[A] <= sinceDue'
            BY <1>8, <1>9, <1>10, <2>1, <4>2
          <5>2. activeAge'[A] = activeAge[A] + 1 \/ activeAge'[A] = cfg.inactive
            BY <1>3, <2>1 DEF Least
          <5>3. sinceDue' < cfg.inactive
            BY <1>2, <1>3, SMTT(40) DEF Bounds
          <5> QED BY <1>9, <1>10, <2>1, <4>2, <5>1, <5>2, <5>3
        <4>3. CASE activeAge[A] < cfg.heartbeat /\ activeAge'[A] = cfg.heartbeat
          BY <1>9, <1>10, <2>1, <3>1, <4>3
        <4>4. CASE beatAge # Never /\ beatAge < cfg.heartbeat
          BY <1>9, <1>10, <2>1, <3>1, <4>4
        <4> QED BY <1>10, <2>1, <3>1, <3>4, <4>1, <4>2, <4>3, <4>4
      <3>5. toward'[P] = <<>>
        BY <1>2, <1>4, <2>3
      <3> QED BY <3>2, <3>3, <3>4, <3>5 DEF PassiveHears, A, P
    <2> QED BY <2>2, <2>3
  <1>15. ActiveHears'
    <2> SUFFICES ASSUME Linked
                 PROVE  ActiveHears'
      BY <1>7 DEF ActiveHears
    <2>1. Started(A) /\ readAge'[A] = readAge[A] + 1
      BY <1>2, <1>3 DEF Linked, A
    <2>2. \A m \in Asks : older(m) \in Asks' /\ older(m).age = m.age + 1 /\ m.age \in Nat
      BY <1>2, <1>4, <1>5 DEF Asks, P
    <2>3. Asks = {} => Asks' = {}
      BY <1>2, <1>4, <1>5 DEF Asks, P
    <2>4. CASE toward[A] # <<>>
      <3>1. readAge[A] <= maxPause + MaxDelay + headAge(A)
        BY <2>4 DEF BeatInv, ActiveHears, A
      <3>2. headAge(A)' = headAge(A) + 1 /\ headAge(A) \in Nat /\ toward'[A] # <<>>
        BY <1>2, <1>4, <1>6, <2>4
      <3>3. readAge'[A] <= maxPause + MaxDelay + headAge(A)'
        BY <1>9, <2>1, <3>1, <3>2
      <3> QED BY <1>7, <3>2, <3>3 DEF ActiveHears, A
    <2>5. ASSUME toward[A] = <<>>, NEW m \in Asks, readAge[A] <= maxPause + m.age
          PROVE  ActiveHears'
      <3>1. readAge'[A] <= maxPause' + older(m).age
        BY <1>7, <1>9, <2>1, <2>2, <2>5
      <3>2. toward'[A] = <<>>
        BY <1>2, <1>4, <2>5
      <3> QED BY <2>2, <3>1, <3>2 DEF ActiveHears, A
    <2>6. ASSUME toward[A] = <<>>, Asks = {},
                 activeAge[A] < cfg.heartbeat => readAge[A] <= activeAge[A],
                 beatAge # Never /\ beatAge < cfg.heartbeat => readAge[A] <= beatAge,
                 BeatDue => readAge[A] <= sinceDue
          PROVE  ActiveHears'
      <3>1. activeAge'[A] < cfg'.heartbeat => readAge'[A] <= activeAge'[A]
        BY <1>9, <1>10, <2>1, <2>6
      <3>2. beatAge' # Never /\ beatAge' < cfg'.heartbeat => readAge'[A] <= beatAge'
        BY <1>9, <1>10, <2>1, <2>6
      <3>3. ASSUME BeatDue'
            PROVE  readAge'[A] <= sinceDue'
        <4>1. CASE BeatDue
          BY <1>8, <1>9, <2>1, <2>6, <4>1
        <4>2. CASE activeAge[A] < cfg.heartbeat /\ activeAge'[A] = cfg.heartbeat
          BY <1>9, <1>10, <2>1, <2>6, <4>2
        <4>3. CASE beatAge # Never /\ beatAge < cfg.heartbeat
          BY <1>9, <1>10, <2>1, <2>6, <4>3
        <4> QED BY <1>10, <2>1, <3>3, <4>1, <4>2, <4>3
      <3>4. toward'[A] = <<>>
        BY <1>2, <1>4, <2>6
      <3> QED BY <2>3, <2>6, <3>1, <3>2, <3>3, <3>4 DEF ActiveHears, A
    <2>7. CASE toward[A] = <<>> /\ Asks # {}
      <3>1. PICK m \in Asks : readAge[A] <= maxPause + m.age
        BY <2>7 DEF BeatInv, ActiveHears, A
      <3> QED BY <2>5, <2>7, <3>1
    <2>8. CASE toward[A] = <<>> /\ Asks = {}
      <3>1. /\ activeAge[A] < cfg.heartbeat => readAge[A] <= activeAge[A]
            /\ beatAge # Never /\ beatAge < cfg.heartbeat => readAge[A] <= beatAge
            /\ BeatDue => readAge[A] <= sinceDue
        BY <2>8 DEF BeatInv, ActiveHears, A
      <3> QED BY <2>6, <2>8, <3>1
    <2> QED BY <2>4, <2>7, <2>8
  <1>16. EofArrives'
    <2> SUFFICES ASSUME Started(P), ~Started(A)
                 PROVE  /\ toward'[P] # <<>> /\ final(toward'[P]).type = "eof"
                        /\ readAge'[P] < cfg'.rwt - MaxDelay + headAge(P)'
      BY <1>2, <1>7 DEF EofArrives, A, P
    <2>1. /\ toward[P] # <<>> /\ final(toward[P]).type = "eof"
          /\ readAge[P] < cfg.rwt - MaxDelay + headAge(P)
      BY <1>1 DEF BeatInv, EofArrives, A, P
    <2>2. final(toward[P]) \in Range(toward[P])
      BY <1>2, <2>1, BoxIs DEF Bounds
    <2>3. toward'[P] # <<>> /\ final(toward'[P]).type = "eof"
      BY <1>2, <1>4, <1>5, <2>1, <2>2
    <2>4. headAge(P)' = headAge(P) + 1 /\ headAge(P) \in Nat /\ readAge'[P] = readAge[P] + 1
      BY <1>2, <1>3, <1>6, <2>1
    <2> QED BY <1>9, <2>1, <2>3, <2>4
  <1> QED BY <1>11, <1>12, <1>13, <1>14, <1>15, <1>16 DEF BeatInv

LEMMA BeatNext ==
    ASSUME Answering, KeepInv, BeatInv, [Next]_vars
    PROVE  BeatInv'
  <1>1. KeepInv'
    BY KeepNext
  <1>2. CASE Cut
    BY <1>1, <1>2, CutOwesNothingNext DEF Cut
  <1>3. CASE UNCHANGED vars
    <2>1. UNCHANGED <<cfg, state, activeAge, beatAge, tickIn, readAge, toward, cut>>
      BY <1>3 DEF vars
    <2> QED BY <2>1, QuietKeeps
  <1> QED BY <1>1, <1>2, <1>3, UseKeepsBeat, TicksKeepBeat, StepKeepsBeat, TimeKeepsBeat DEF Next

(* The invariant of the sessions whose applications answer each other.     *)
THEOREM BeatInvariance ==
    ASSUME Answering
    PROVE  Spec => [](KeepInv /\ BeatInv)
  <1>1. Init => KeepInv /\ BeatInv
    BY KeepInit, BeatInit
  <1>2. KeepInv /\ BeatInv /\ [Next]_vars => (KeepInv /\ BeatInv)'
    BY KeepNext, BeatNext
  <1> QED BY <1>1, <1>2, PTL DEF Spec

(* Heartbeats of the active end (tickActiveEnd) and the answers to them     *)
(* (sessionHandleHeartbeat) keep a session alive that the applications use  *)
(* by requests and replies, or not at all: a read comes to its deadline     *)
(* only when the connection has been cut.                                  *)
THEOREM HeartbeatsKeepAlive ==
    ASSUME Answering
    PROVE  Spec => []DeadlineMeansCut
  <1>1. KeepInv /\ BeatInv => DeadlineMeansCut
    BY DEF BeatInv
  <1> QED BY <1>1, BeatInvariance, PTL

=============================================================================
