-------------------------- MODULE PacketStreamProofs --------------------------
(***************************************************************************)
(* Proofs about PacketStream, for any packets, any buffer sizes and any    *)
(* length limit that four digits hold.                                     *)
(***************************************************************************)
EXTENDS PacketStream, SequenceTheorems, TLAPS

-----------------------------------------------------------------------------
(* The length in a head *)

LEMMA DivMod ==
    ASSUME NEW n \in Nat, NEW m \in Nat \ {0}
    PROVE  /\ n \div m \in Nat /\ n % m \in 0 .. m - 1
           /\ n = m * (n \div m) + (n % m)
  OBVIOUS

LEMMA Unique ==
    ASSUME NEW m \in Nat \ {0}, NEW q \in Nat, NEW r \in 0 .. m - 1, NEW k \in Nat, NEW s \in 0 .. m - 1,
           m * q + r = m * k + s
    PROVE  q = k
  OBVIOUS

LEMMA DivDiv ==
    ASSUME NEW n \in Nat, NEW a \in Nat \ {0}, NEW b \in Nat \ {0}
    PROVE  n \div (a * b) = (n \div a) \div b
  <1> DEFINE q == n \div a
             v == n % a
             t == q \div b
             u == q % b
             k == n \div (a * b)
             s == n % (a * b)
  <1>1. q \in Nat /\ v \in 0 .. a - 1 /\ n = a * q + v
    BY DivMod
  <1>2. t \in Nat /\ u \in 0 .. b - 1 /\ q = b * t + u
    BY <1>1, DivMod
  <1>3. a * b \in Nat \ {0}
    OBVIOUS
  <1>4. k \in Nat /\ s \in 0 .. a * b - 1 /\ n = (a * b) * k + s
    BY <1>3, DivMod
  <1> HIDE DEF q, v, t, u, k, s
  <1>5. n = (a * b) * t + (a * u + v)
    BY <1>1, <1>2
  <1>6. a * u + v \in 0 .. a * b - 1
    <2>1. a * u <= a * (b - 1)
      BY <1>2
    <2>2. a * (b - 1) = a * b - a
      OBVIOUS
    <2>3. a * u \in Nat /\ a * b \in Nat
      BY <1>2
    <2> QED
      BY <1>1, <2>1, <2>2, <2>3
  <1>7. k = t
    <2> DEFINE m == a * b
               r == a * u + v
    <2>1. m \in Nat \ {0} /\ r \in 0 .. m - 1 /\ s \in 0 .. m - 1 /\ m * k + s = m * t + r
      BY <1>3, <1>4, <1>5, <1>6
    <2> HIDE DEF m, r
    <2> QED
      BY <1>2, <1>4, <2>1, Unique
  <1> QED
    BY <1>7 DEF k, t, q

(* setPayloadLen and its reading agree, for every length of four digits. *)
LEMMA HeadIsRead ==
    ASSUME NEW type \in Byte, NEW n \in Nat, n < Radix * Radix * Radix * Radix
    PROVE  /\ packetHead(type, n) \in Seq(Byte)
           /\ Len(packetHead(type, n)) = HeadLen
           /\ packetHead(type, n)[1] = type
           /\ payloadLen(packetHead(type, n)) = n
  <1> DEFINE R  == Radix
             q1 == n \div R
             q2 == n \div (R * R)
             q3 == n \div (R * R * R)
             h  == packetHead(type, n)
  <1>1. R \in Nat \ {0} /\ R \in 2 .. 256 /\ R * R \in Nat \ {0} /\ R * R * R \in Nat \ {0}
    BY SizesAssumption
  <1>2. q2 = q1 \div R /\ q3 = q2 \div R
    BY <1>1, DivDiv
  <1> HIDE DEF R
  <1>3. q1 \in Nat /\ n % R \in 0 .. R - 1 /\ n = R * q1 + (n % R)
    BY <1>1, DivMod
  <1> HIDE DEF q1
  <1>4. q2 \in Nat /\ q1 % R \in 0 .. R - 1 /\ q1 = R * q2 + (q1 % R)
    BY <1>1, <1>2, <1>3, DivMod
  <1> HIDE DEF q2
  <1>5. q3 \in Nat /\ q2 % R \in 0 .. R - 1 /\ q2 = R * q3 + (q2 % R)
    BY <1>1, <1>2, <1>4, DivMod
  <1> HIDE DEF q3
  <1>6. q3 < R
    <2> DEFINE m == R * R * R
    <2>1. n < R * m /\ n >= R * (R * (R * q3))
      BY <1>1, <1>3, <1>4, <1>5 DEF R
    <2>2. R * (R * (R * q3)) = m * q3
      BY <1>1, <1>5
    <2>3. m \in Nat \ {0} /\ m * q3 < m * R
      BY <1>1, <1>5, <2>1, <2>2
    <2> HIDE DEF m
    <2>4. q3 >= R => m * q3 >= m * R
      BY <1>1, <1>5, <2>3
    <2> QED
      BY <1>1, <1>5, <2>3, <2>4
  <1>7. h = <<type, 0, q3, q2 % R, q1 % R, n % R>>
    BY DEF packetHead, q1, q2, q3, R
  <1>8. {type, 0, q3, q2 % R, q1 % R, n % R} \subseteq Byte
    BY <1>1, <1>3, <1>4, <1>5, <1>6 DEF Byte
  <1> HIDE DEF h
  <1>9. h \in Seq(Byte) /\ Len(h) = 6
    BY <1>7, <1>8
  <1>10. payloadLen(h) = n
    <2>1. payloadLen(h) = ((q3 * R + (q2 % R)) * R + (q1 % R)) * R + (n % R)
      BY <1>7 DEF payloadLen, R
    <2>2. q3 * R + (q2 % R) = q2 /\ q2 * R + (q1 % R) = q1 /\ q1 * R + (n % R) = n
      BY <1>1, <1>3, <1>4, <1>5
    <2> QED
      BY <2>1, <2>2
  <1> QED
    BY <1>7, <1>9, <1>10 DEF h, HeadLen

-----------------------------------------------------------------------------
(* Packets as bytes *)

frame(pkt) == packetHead(pkt.type, Len(pkt.data)) \o pkt.data

(* at[i] is where packet i of pkts ends in bytes. *)
Cut(bytes, pkts, at) ==
    /\ at \in [0 .. Len(pkts) -> 0 .. Len(bytes)]
    /\ at[0] = 0 /\ at[Len(pkts)] = Len(bytes)
    /\ \A i, k \in 0 .. Len(pkts) : i <= k => at[i] <= at[k]
    /\ \A i \in 1 .. Len(pkts) :
          /\ at[i] = at[i - 1] + Len(frame(pkts[i]))
          /\ \A j \in 1 .. Len(frame(pkts[i])) : bytes[at[i - 1] + j] = frame(pkts[i])[j]

(* The bytes are those of the packets, one after the other. *)
Frames(bytes, pkts) == \E at : Cut(bytes, pkts, at)

LEMMA FrameIs ==
    ASSUME NEW pkt \in Packets
    PROVE  LET h == packetHead(pkt.type, Len(pkt.data)) IN
           /\ h \in Seq(Byte) /\ pkt.data \in Seq(Byte) /\ Len(h) = HeadLen
           /\ h[1] = pkt.type /\ payloadLen(h) = Len(pkt.data)
           /\ Len(pkt.data) \in Nat /\ Len(pkt.data) \in acceptedLengths(pkt.type)
           /\ frame(pkt) \in Seq(Byte) /\ Len(frame(pkt)) = HeadLen + Len(pkt.data)
           /\ \A j \in 1 .. HeadLen : frame(pkt)[j] = h[j]
           /\ \A j \in 1 .. Len(pkt.data) : frame(pkt)[HeadLen + j] = pkt.data[j]
           /\ pkt = [type |-> pkt.type, data |-> pkt.data]
  <1> DEFINE h == packetHead(pkt.type, Len(pkt.data))
             d == pkt.data
  <1>1. /\ pkt.type \in Byte /\ d \in Seq(Byte)
        /\ pkt = [type |-> pkt.type, data |-> pkt.data]
        /\ \/ pkt.type = protoType.Raw /\ Len(d) <= MaxPacketLength
           \/ pkt.type = protoType.CloseReq /\ d = <<>>
           \/ pkt.type \in {protoType.Heartbeat, protoType.CloseResp} /\ Len(d) = 1
    BY PacketsAssumption
  <1>2. Len(d) \in Nat
    BY <1>1, LenProperties
  <1>3. Len(d) \in acceptedLengths(pkt.type)
    BY <1>1, <1>2, EmptySeq, SizesAssumption DEF acceptedLengths, protoType
  <1>4. Len(d) < Radix * Radix * Radix * Radix
    <2> DEFINE four == Radix * Radix * Radix * Radix
    <2>1. four \in Nat
      BY SizesAssumption
    <2>2. MaxPacketLength \in 1 .. four - 1
      BY SizesAssumption
    <2> HIDE DEF four
    <2>3. Len(d) <= MaxPacketLength
      <3>1. d = <<>> => Len(d) = 0
        BY EmptySeq
      <3>2. Len(d) <= MaxPacketLength \/ Len(d) = 0 \/ Len(d) = 1
        BY <1>1, <3>1
      <3> HIDE DEF d
      <3> QED
        BY <1>2, <2>1, <2>2, <3>2
    <2>4. Len(d) < four
      BY <1>2, <2>1, <2>2, <2>3
    <2> QED
      BY <2>4 DEF four
  <1>5. h \in Seq(Byte) /\ Len(h) = HeadLen /\ h[1] = pkt.type /\ payloadLen(h) = Len(d)
    BY <1>1, <1>2, <1>4, HeadIsRead
  <1> HIDE DEF h, d
  <1>6. /\ h \o d \in Seq(Byte) /\ Len(h \o d) = Len(h) + Len(d)
        /\ \A i \in 1 .. Len(h) + Len(d) :
              (h \o d)[i] = IF i <= Len(h) THEN h[i] ELSE d[i - Len(h)]
    BY <1>1, <1>5, ConcatProperties
  <1>7. HeadLen = 6
    BY DEF HeadLen
  <1>8. /\ \A j \in 1 .. HeadLen : (h \o d)[j] = h[j]
        /\ \A j \in 1 .. Len(d) : (h \o d)[HeadLen + j] = d[j]
    BY <1>2, <1>5, <1>6, <1>7
  <1> QED
    BY <1>1, <1>2, <1>3, <1>5, <1>6, <1>8 DEF frame, h, d

LEMMA FramesEmpty == Frames(<<>>, <<>>)
  <1> DEFINE at == [i \in {0} |-> 0]
  <1>1. Len(<<>>) = 0
    BY EmptySeq
  <1>2. Cut(<<>>, <<>>, at)
    BY <1>1 DEF Cut
  <1> QED
    BY <1>2 DEF Frames

LEMMA FramesAppend ==
    ASSUME NEW bytes \in Seq(Byte), NEW pkts \in Seq(Packets), Frames(bytes, pkts),
           NEW pkt \in Packets
    PROVE  Frames(bytes \o frame(pkt), Append(pkts, pkt))
  <1>1. PICK at : Cut(bytes, pkts, at)
    BY DEF Frames
  <1> DEFINE f  == frame(pkt)
             n  == Len(pkts)
             b2 == bytes \o f
             p2 == Append(pkts, pkt)
             a2 == [i \in 0 .. n + 1 |-> IF i <= n THEN at[i] ELSE Len(bytes) + Len(f)]
  <1>2. f \in Seq(Byte) /\ Len(f) \in Nat /\ Len(bytes) \in Nat /\ n \in Nat
    BY FrameIs, LenProperties
  <1> HIDE DEF f
  <1>3. /\ Len(b2) = Len(bytes) + Len(f)
        /\ \A i \in 1 .. Len(bytes) : b2[i] = bytes[i]
        /\ \A j \in 1 .. Len(f) : b2[Len(bytes) + j] = f[j]
    BY <1>2, ConcatProperties
  <1>4. /\ Len(p2) = n + 1 /\ p2[n + 1] = pkt
        /\ \A i \in 1 .. n : p2[i] = pkts[i]
    BY AppendProperties
  <1> HIDE DEF b2, p2, n
  <1>5. /\ at \in [0 .. n -> 0 .. Len(bytes)] /\ at[0] = 0 /\ at[n] = Len(bytes)
        /\ \A i, k \in 0 .. n : i <= k => at[i] <= at[k]
        /\ \A i \in 1 .. n :
              /\ at[i] = at[i - 1] + Len(frame(pkts[i]))
              /\ \A j \in 1 .. Len(frame(pkts[i])) : bytes[at[i - 1] + j] = frame(pkts[i])[j]
    BY <1>1 DEF Cut, n
  <1>6. /\ a2 \in [0 .. n + 1 -> 0 .. Len(b2)] /\ a2[0] = 0 /\ a2[n + 1] = Len(b2)
        /\ \A i, k \in 0 .. n + 1 : i <= k => a2[i] <= a2[k]
    BY <1>2, <1>3, <1>5
  <1>7. ASSUME NEW i \in 1 .. n + 1
        PROVE  /\ a2[i] = a2[i - 1] + Len(frame(p2[i]))
               /\ \A j \in 1 .. Len(frame(p2[i])) : b2[a2[i - 1] + j] = frame(p2[i])[j]
    <2>1. CASE i = n + 1
      <3>1. a2[i] = Len(bytes) + Len(f) /\ a2[i - 1] = Len(bytes)
        BY <1>2, <1>5, <2>1
      <3>2. frame(p2[i]) = f
        BY <1>4, <2>1 DEF f
      <3> HIDE DEF a2
      <3> QED
        BY <1>3, <3>1, <3>2
    <2>2. CASE i <= n
      <3>1. i \in 1 .. n /\ i - 1 \in 0 .. n
        BY <1>2, <2>2
      <3>2. a2[i] = at[i] /\ a2[i - 1] = at[i - 1] /\ p2[i] = pkts[i]
        BY <1>2, <1>4, <3>1
      <3>3. at[i] \in 0 .. Len(bytes) /\ at[i - 1] \in 0 .. Len(bytes)
        BY <1>5, <3>1
      <3> DEFINE g == frame(pkts[i])
      <3>4. Len(g) \in Nat
        BY <3>1, FrameIs, LenProperties DEF n
      <3>5. at[i] = at[i - 1] + Len(g)
        BY <1>5, <3>1
      <3>6. \A j \in 1 .. Len(g) : bytes[at[i - 1] + j] = g[j]
        BY <1>5, <3>1
      <3> HIDE DEF a2, g
      <3>7. \A j \in 1 .. Len(g) : at[i - 1] + j \in 1 .. Len(bytes)
        BY <1>2, <3>3, <3>4, <3>5
      <3>8. \A j \in 1 .. Len(g) : b2[at[i - 1] + j] = g[j]
        BY <1>3, <3>6, <3>7
      <3> QED
        BY <3>2, <3>5, <3>8 DEF g
    <2>3. i = n + 1 \/ i <= n
      BY <1>2
    <2> HIDE DEF a2
    <2> QED
      BY <2>1, <2>2, <2>3
  <1>8. Cut(b2, p2, a2)
    <2> HIDE DEF a2
    <2> QED
      BY <1>4, <1>6, <1>7 DEF Cut
  <1> QED
    BY <1>8 DEF Frames, b2, p2, f

LEMMA FramesFirst ==
    ASSUME NEW bytes \in Seq(Byte), NEW pkts \in Seq(Packets), Frames(bytes, pkts),
           bytes # <<>>
    PROVE  /\ pkts # <<>> /\ pkts[1] \in Packets
           /\ Len(frame(pkts[1])) <= Len(bytes)
           /\ \A j \in 1 .. Len(frame(pkts[1])) : bytes[j] = frame(pkts[1])[j]
  <1>1. PICK at : Cut(bytes, pkts, at)
    BY DEF Frames
  <1>2. Len(bytes) \in Nat \ {0} /\ Len(pkts) \in Nat
    BY EmptySeq, LenProperties
  <1>3. at[0] = 0 /\ at[Len(pkts)] = Len(bytes)
    BY <1>1 DEF Cut
  <1>4. Len(pkts) # 0
    BY <1>2, <1>3
  <1>5. pkts # <<>> /\ 1 \in 1 .. Len(pkts) /\ pkts[1] \in Packets
    BY <1>2, <1>4, EmptySeq, ElementOfSeq
  <1>6. /\ at[1] = at[1 - 1] + Len(frame(pkts[1]))
        /\ \A j \in 1 .. Len(frame(pkts[1])) : bytes[at[1 - 1] + j] = frame(pkts[1])[j]
    BY <1>1, <1>5 DEF Cut
  <1>7. at[1] \in 0 .. Len(bytes)
    BY <1>1, <1>2, <1>5 DEF Cut
  <1>8. Len(frame(pkts[1])) \in Nat
    BY <1>5, FrameIs, LenProperties
  <1> QED
    BY <1>3, <1>5, <1>6, <1>7, <1>8

LEMMA Within ==
    ASSUME NEW m \in Nat, NEW len \in Nat, NEW a \in m .. m + len, NEW b \in m .. m + len,
           NEW g \in Nat, b = a + g, NEW j \in 1 .. g
    PROVE  (a - m) + j \in 1 .. len /\ m + ((a - m) + j) = a + j
  OBVIOUS

LEMMA FramesTail ==
    ASSUME NEW first \in Seq(Byte), NEW bytes \in Seq(Byte), NEW pkts \in Seq(Packets),
           Frames(first \o bytes, pkts), pkts # <<>>, Len(first) = Len(frame(pkts[1]))
    PROVE  Frames(bytes, Tail(pkts))
  <1> DEFINE n == Len(pkts)
             m == Len(first)
             all == first \o bytes
             rest == Tail(pkts)
  <1>1. PICK at : Cut(all, pkts, at)
    BY DEF Frames
  <1>2. n \in Nat \ {0} /\ m \in Nat /\ Len(bytes) \in Nat
    BY EmptySeq, LenProperties
  <1>3. /\ Len(all) = m + Len(bytes)
        /\ \A j \in 1 .. Len(bytes) : all[m + j] = bytes[j]
    <2>1. /\ Len(all) = m + Len(bytes)
          /\ \A i \in 1 .. m + Len(bytes) : all[i] = IF i <= m THEN first[i] ELSE bytes[i - m]
      BY ConcatProperties
    <2> HIDE DEF all, m
    <2>2. \A j \in 1 .. Len(bytes) : /\ m + j \in 1 .. m + Len(bytes) /\ ~(m + j <= m)
                                      /\ (m + j) - m = j
      BY <1>2
    <2> QED
      BY <2>1, <2>2
  <1>4. /\ Len(rest) = n - 1
        /\ \A i \in 1 .. n - 1 : rest[i] = pkts[i + 1]
    BY HeadTailProperties
  <1> HIDE DEF all, rest
  <1>5. /\ at \in [0 .. n -> 0 .. Len(all)] /\ at[0] = 0 /\ at[n] = Len(all)
        /\ \A i, k \in 0 .. n : i <= k => at[i] <= at[k]
        /\ \A i \in 1 .. n :
              /\ at[i] = at[i - 1] + Len(frame(pkts[i]))
              /\ \A j \in 1 .. Len(frame(pkts[i])) : all[at[i - 1] + j] = frame(pkts[i])[j]
    BY <1>1 DEF Cut
  <1>6. \A i \in 1 .. n : Len(frame(pkts[i])) \in Nat
    BY ElementOfSeq, FrameIs, LenProperties
  <1>7. at[1] = m
    <2>1. 1 \in 1 .. n /\ at[1] = at[1 - 1] + Len(frame(pkts[1]))
      BY <1>2, <1>5
    <2> QED
      BY <1>2, <1>5, <2>1
  <1> HIDE DEF n, m
  <1> DEFINE a2 == [i \in 0 .. n - 1 |-> at[i + 1] - m]
  <1>8. \A i \in 0 .. n - 1 : i + 1 \in 0 .. n /\ at[i + 1] \in m .. Len(all)
    <2> SUFFICES ASSUME NEW i \in 0 .. n - 1
                 PROVE  i + 1 \in 0 .. n /\ at[i + 1] \in m .. Len(all)
      OBVIOUS
    <2>1. i + 1 \in 0 .. n /\ 1 \in 0 .. n /\ 1 <= i + 1
      BY <1>2
    <2>2. at[i + 1] \in 0 .. Len(all) /\ at[1] <= at[i + 1]
      BY <1>5, <2>1
    <2> QED
      BY <1>2, <1>7, <2>1, <2>2
  <1>9. /\ a2 \in [0 .. n - 1 -> 0 .. Len(bytes)] /\ a2[0] = 0 /\ a2[n - 1] = Len(bytes)
        /\ \A i, k \in 0 .. n - 1 : i <= k => a2[i] <= a2[k]
    <2>1. a2 \in [0 .. n - 1 -> 0 .. Len(bytes)]
      <3>1. \A i \in 0 .. n - 1 : at[i + 1] - m \in 0 .. Len(bytes)
        BY <1>2, <1>3, <1>8
      <3> QED
        BY <3>1
    <2>2. a2[0] = 0 /\ a2[n - 1] = Len(bytes)
      <3>1. 0 \in 0 .. n - 1 /\ n - 1 \in 0 .. n - 1 /\ (n - 1) + 1 = n /\ 0 + 1 = 1
        BY <1>2
      <3>2. a2[0] = at[1] - m /\ a2[n - 1] = at[n] - m
        BY <3>1
      <3> HIDE DEF a2
      <3> QED
        BY <1>2, <1>3, <1>5, <1>7, <3>2
    <2>3. ASSUME NEW i \in 0 .. n - 1, NEW k \in 0 .. n - 1, i <= k
          PROVE  a2[i] <= a2[k]
      <3>1. i + 1 \in 0 .. n /\ k + 1 \in 0 .. n /\ i + 1 <= k + 1
        BY <1>2, <2>3
      <3>2. at[i + 1] <= at[k + 1]
        BY <1>5, <3>1
      <3>3. at[i + 1] \in m .. Len(all) /\ at[k + 1] \in m .. Len(all)
        BY <1>8
      <3>4. a2[i] = at[i + 1] - m /\ a2[k] = at[k + 1] - m
        OBVIOUS
      <3> HIDE DEF a2
      <3> QED
        BY <1>2, <1>3, <3>2, <3>3, <3>4
    <2> QED
      BY <2>1, <2>2, <2>3
  <1>10. ASSUME NEW i \in 1 .. n - 1
         PROVE  /\ a2[i] = a2[i - 1] + Len(frame(rest[i]))
                /\ \A j \in 1 .. Len(frame(rest[i])) : bytes[a2[i - 1] + j] = frame(rest[i])[j]
    <2> DEFINE g == frame(pkts[i + 1])
    <2>1. i + 1 \in 1 .. n /\ i - 1 \in 0 .. n - 1 /\ i \in 0 .. n - 1 /\ (i + 1) - 1 = i
      BY <1>2
    <2>2. /\ at[i + 1] = at[i] + Len(g)
          /\ \A j \in 1 .. Len(g) : all[at[i] + j] = g[j]
      BY <1>5, <2>1
    <2>3. Len(g) \in Nat /\ frame(rest[i]) = g
      BY <1>4, <1>6, <2>1
    <2>4. a2[i] = at[i + 1] - m /\ a2[i - 1] = at[i] - m
      BY <1>2, <2>1
    <2>5. at[i] \in m .. Len(all) /\ at[i + 1] \in m .. Len(all)
      <3>1. at[(i - 1) + 1] \in m .. Len(all) /\ (i - 1) + 1 = i
        BY <1>8, <2>1
      <3> QED
        BY <1>8, <2>1, <3>1
    <2> HIDE DEF a2, g
    <2>6. \A j \in 1 .. Len(g) : bytes[a2[i - 1] + j] = g[j]
      <3> SUFFICES ASSUME NEW j \in 1 .. Len(g)
                   PROVE  bytes[a2[i - 1] + j] = g[j]
        OBVIOUS
      <3> DEFINE x == a2[i - 1] + j
      <3>1. x \in 1 .. Len(bytes) /\ m + x = at[i] + j
        <4> DEFINE a == at[i]
                   b == at[i + 1]
                   l == Len(g)
                   len == Len(bytes)
        <4>1. m \in Nat /\ len \in Nat /\ l \in Nat /\ j \in 1 .. l
          BY <1>2, <2>3
        <4>2. a \in m .. m + len /\ b \in m .. m + len /\ b = a + l
          BY <1>3, <2>2, <2>5
        <4>3. x = (a - m) + j
          BY <2>4
        <4> HIDE DEF a, b, l, len, x
        <4>4. (a - m) + j \in 1 .. len /\ m + ((a - m) + j) = a + j
          BY <4>1, <4>2, Within
        <4> QED
          BY <4>3, <4>4 DEF a, len
      <3>2. bytes[x] = all[m + x]
        BY <1>3, <3>1
      <3> QED
        BY <2>2, <3>1, <3>2
    <2>7. a2[i] = a2[i - 1] + Len(g)
      BY <1>2, <2>2, <2>3, <2>4, <2>5
    <2> QED
      BY <2>3, <2>6, <2>7
  <1>11. Cut(bytes, rest, a2)
    <2> HIDE DEF a2
    <2> QED
      BY <1>4, <1>9, <1>10 DEF Cut
  <1> QED
    BY <1>11 DEF Frames, rest

-----------------------------------------------------------------------------
(* Parts of sequences *)

LEMMA FrontRest ==
    ASSUME NEW S, NEW s \in Seq(S), NEW n \in 0 .. Len(s)
    PROVE  /\ Front(s, n) \in Seq(S) /\ Len(Front(s, n)) = n
           /\ Rest(s, n) \in Seq(S) /\ Len(Rest(s, n)) = Len(s) - n
           /\ Front(s, n) \o Rest(s, n) = s
  <1>1. Len(s) \in Nat /\ n \in Int /\ n + 1 \in Int
    BY LenProperties
  <1>2. (\A i \in 1 .. n : s[i] \in S) /\ (\A i \in n + 1 .. Len(s) : s[i] \in S)
    BY <1>1, ElementOfSeq
  <1>3. Front(s, n) \in Seq(S) /\ Len(Front(s, n)) = n
    BY <1>1, <1>2, SubSeqProperties DEF Front
  <1>4. Rest(s, n) \in Seq(S) /\ Len(Rest(s, n)) = Len(s) - n
    BY <1>1, <1>2, SubSeqProperties DEF Rest
  <1>5. Front(s, n) \o Rest(s, n) = s
    <2>1. 1 \in 1 .. Len(s) + 1 /\ n \in 1 - 1 .. Len(s) /\ Len(s) \in n .. Len(s)
      BY <1>1
    <2>2. SubSeq(s, 1, n) \o SubSeq(s, n + 1, Len(s)) = SubSeq(s, 1, Len(s))
      BY <2>1, ConcatAdjacentSubSeq
    <2> QED
      BY <2>2, SubSeqFull DEF Front, Rest
  <1> QED
    BY <1>3, <1>4, <1>5

LEMMA HeadThenTail ==
    ASSUME NEW S, NEW s \in Seq(S), s # <<>>
    PROVE  /\ Head(s) \in S /\ Tail(s) \in Seq(S) /\ Head(s) = s[1]
           /\ s = <<Head(s)>> \o Tail(s)
  <1>1. Len(s) \in Nat \ {0} /\ Head(s) \in S /\ Tail(s) \in Seq(S)
    BY EmptySeq, HeadTailProperties
  <1>2. 1 \in 1 .. Len(s) /\ Len(s) \in 1 .. Len(s)
    BY <1>1
  <1>3. SubSeq(s, 1, Len(s)) = <<s[1]>> \o SubSeq(s, 2, Len(s))
    BY <1>2, SubSeqRecursiveFirst
  <1>4. SubSeq(s, 1, Len(s)) = s /\ Tail(s) = SubSeq(s, 2, Len(s)) /\ Head(s) = s[1]
    BY <1>1, SubSeqFull, TailIsSubSeq
  <1> QED
    BY <1>1, <1>3, <1>4

LEMMA RestOfConcat ==
    ASSUME NEW S, NEW s \in Seq(S), NEW t \in Seq(S)
    PROVE  Rest(s \o t, Len(s)) = t
  <1>1. Len(s) \in 0 .. Len(s \o t) /\ s \o t \in Seq(S) /\ Len(s \o t) = Len(s) + Len(t)
    BY ConcatProperties, LenProperties
  <1> DEFINE r == Rest(s \o t, Len(s))
  <1>2. r \in Seq(S) /\ Len(r) = Len(t)
    <2>1. r \in Seq(S) /\ Len(r) = Len(s \o t) - Len(s)
      BY <1>1, FrontRest
    <2>2. Len(s) \in Nat /\ Len(t) \in Nat
      BY LenProperties
    <2> HIDE DEF r
    <2> QED
      BY <1>1, <2>1, <2>2
  <1>3. \A i \in 1 .. Len(t) : r[i] = t[i]
    <2> SUFFICES ASSUME NEW i \in 1 .. Len(t)
                 PROVE  r[i] = t[i]
      OBVIOUS
    <2>1. Len(s) \in Nat /\ Len(t) \in Nat
      BY LenProperties
    <2>2. r[i] = (s \o t)[Len(s) + i]
      <3>1. \A k \in Len(s) + 1 .. Len(s \o t) : (s \o t)[k] \in S
        BY <1>1, <2>1, ElementOfSeq
      <3>2. i \in 1 .. Len(s \o t) - (Len(s) + 1) + 1
        BY <1>1, <2>1
      <3>3. r[i] = (s \o t)[(Len(s) + 1) + i - 1]
        BY <1>1, <2>1, <3>1, <3>2, SubSeqProperties DEF Rest
      <3>4. (Len(s) + 1) + i - 1 = Len(s) + i
        BY <2>1
      <3> QED
        BY <3>3, <3>4
    <2>3. (s \o t)[Len(s) + i] = t[i]
      <3>1. Len(s) + i \in 1 .. Len(s) + Len(t) /\ ~(Len(s) + i <= Len(s)) /\ (Len(s) + i) - Len(s) = i
        BY <2>1
      <3> QED
        BY <3>1, ConcatProperties
    <2> QED
      BY <2>2, <2>3
  <1> QED
    BY <1>2, <1>3, SeqEqual

(* Concatenation under a name, for the first-order prover. *)
Join(a, b) == a \o b

LEMMA JoinAssoc ==
    ASSUME NEW a \in Seq(Byte), NEW b \in Seq(Byte), NEW c \in Seq(Byte)
    PROVE  Join(Join(a, b), c) = Join(a, Join(b, c))
  BY ConcatAssociative DEF Join

LEMMA JoinAssocPackets ==
    ASSUME NEW a \in Seq(Packets), NEW b \in Seq(Packets), NEW c \in Seq(Packets)
    PROVE  Join(Join(a, b), c) = Join(a, Join(b, c))
  BY ConcatAssociative DEF Join

LEMMA JoinIs ==
    ASSUME NEW S, NEW a \in Seq(S), NEW b \in Seq(S)
    PROVE  /\ Join(a, b) \in Seq(S)
           /\ Join(<<>>, a) = a /\ Join(a, <<>>) = a
  BY ConcatProperties, ConcatEmptySeq DEF Join

LEMMA CutJoin ==
    ASSUME NEW b \in Seq(Byte), NEW c \in Seq(Byte), NEW n \in 0 .. Len(b)
    PROVE  /\ Front(b, n) \in Seq(Byte) /\ Join(Rest(b, n), c) \in Seq(Byte)
           /\ Join(Front(b, n), Join(Rest(b, n), c)) = Join(b, c)
  <1>1. Front(b, n) \in Seq(Byte) /\ Rest(b, n) \in Seq(Byte)
    BY FrontRest
  <1>2. Join(Front(b, n), Rest(b, n)) = b
    BY FrontRest DEF Join
  <1>3. Join(Rest(b, n), c) \in Seq(Byte)
    BY <1>1, JoinIs, Zenon
  <1>4. Join(Front(b, n), Join(Rest(b, n), c)) = Join(Join(Front(b, n), Rest(b, n)), c)
    BY <1>1, JoinAssoc, Zenon
  <1> QED
    BY <1>1, <1>2, <1>3, <1>4

(* Bytes that move from the front of b to the end of a. *)
LEMMA Shift ==
    ASSUME NEW a \in Seq(Byte), NEW b \in Seq(Byte), NEW c \in Seq(Byte), NEW n \in 0 .. Len(b)
    PROVE  Join(a \o Front(b, n), Join(Rest(b, n), c)) = Join(a, Join(b, c))
  <1>1. /\ Front(b, n) \in Seq(Byte) /\ Join(Rest(b, n), c) \in Seq(Byte)
        /\ Join(Front(b, n), Join(Rest(b, n), c)) = Join(b, c)
    BY CutJoin
  <1>2. Join(Join(a, Front(b, n)), Join(Rest(b, n), c)) = Join(a, Join(Front(b, n), Join(Rest(b, n), c)))
    BY <1>1, JoinAssoc, Zenon
  <1>3. a \o Front(b, n) = Join(a, Front(b, n))
    BY DEF Join
  <1> QED
    BY <1>1, <1>2, <1>3, Zenon

-----------------------------------------------------------------------------
(* The invariant *)

(* All bytes between the two ends, in the order in which they are read. *)
Flow == Join(head, Join(got, Join(readBuf, Join(wire, Join(writeBuf, Join(p, payload))))))

(* Between the packets that were read and those that wait are the packets  *)
(* whose bytes are on the way.                                             *)
FlowInv == \E under \in Seq(Packets) : /\ accepted = Join(received, Join(under, queue))
                                       /\ Frames(Flow, under)

(* The buffer is not left full, and the parts of a packet are written in   *)
(* their order.                                                            *)
WriterInv == /\ ~flushing => count < BatchWriteLimit
             /\ wPc = "idle" => p = <<>> /\ payload = <<>>
             /\ wPc = "payload" => payload = <<>>

StreamInv == TypeOK /\ received \in Seq(Packets) /\ ~rejected /\ WriterInv /\ FlowInv

LEMMA FlowKept ==
    ASSUME FlowInv, Flow' = Flow, UNCHANGED <<accepted, received, queue>>
    PROVE  FlowInv'
  <1>1. PICK under \in Seq(Packets) : accepted = Join(received, Join(under, queue)) /\ Frames(Flow, under)
    BY DEF FlowInv
  <1>2. accepted' = Join(received', Join(under, queue')) /\ Frames(Flow', under)
    BY <1>1
  <1> QED
    BY <1>2 DEF FlowInv

LEMMA BytesAre ==
    ASSUME TypeOK
    PROVE  /\ p \in Seq(Byte) /\ payload \in Seq(Byte) /\ writeBuf \in Seq(Byte)
           /\ wire \in Seq(Byte) /\ readBuf \in Seq(Byte) /\ got \in Seq(Byte)
           /\ head \in Seq(Byte)
           /\ Join(p, payload) \in Seq(Byte)
           /\ Join(writeBuf, Join(p, payload)) \in Seq(Byte)
           /\ Join(wire, Join(writeBuf, Join(p, payload))) \in Seq(Byte)
           /\ Join(readBuf, Join(wire, Join(writeBuf, Join(p, payload)))) \in Seq(Byte)
  <1>1. /\ p \in Seq(Byte) /\ payload \in Seq(Byte) /\ writeBuf \in Seq(Byte)
        /\ wire \in Seq(Byte) /\ readBuf \in Seq(Byte) /\ got \in Seq(Byte)
        /\ head \in Seq(Byte)
    BY DEF TypeOK
  <1>2. Join(p, payload) \in Seq(Byte)
    BY <1>1, JoinIs, Zenon
  <1>3. Join(writeBuf, Join(p, payload)) \in Seq(Byte)
    BY <1>1, <1>2, JoinIs, Zenon
  <1>4. Join(wire, Join(writeBuf, Join(p, payload))) \in Seq(Byte)
    BY <1>1, <1>3, JoinIs, Zenon
  <1>5. Join(readBuf, Join(wire, Join(writeBuf, Join(p, payload)))) \in Seq(Byte)
    BY <1>1, <1>4, JoinIs, Zenon
  <1> QED
    BY <1>1, <1>2, <1>3, <1>4, <1>5

LEMMA StreamInit == Init => StreamInv
  <1> SUFFICES ASSUME Init
               PROVE  StreamInv
    OBVIOUS
  <1>1. <<>> \in Seq(Byte) /\ <<>> \in Seq(Packets) /\ Len(<<>>) = 0
    BY EmptySeq
  <1>2. TypeOK /\ received \in Seq(Packets) /\ ~rejected /\ WriterInv
    <2>1. queue \in Seq(Packets) /\ accepted \in Seq(Packets) /\ received \in Seq(Packets)
      BY <1>1 DEF Init
    <2>2. {p, payload, writeBuf, wire, readBuf, got, head} \subseteq Seq(Byte)
      BY <1>1 DEF Init
    <2>3. Len(writeBuf) <= WriteBufSize /\ Len(readBuf) <= ReadBufSize /\ Len(head) \in {0, HeadLen}
      BY <1>1, SizesAssumption DEF Init
    <2>4. /\ count \in 0 .. BatchWriteLimit /\ count < BatchWriteLimit
          /\ wPc \in {"idle", "head", "payload"}
      BY SizesAssumption DEF Init
    <2>5. more \in BOOLEAN /\ flushing \in BOOLEAN /\ rejected \in BOOLEAN /\ ~rejected
      BY DEF Init
    <2>6. p = <<>> /\ payload = <<>>
      BY DEF Init
    <2> QED
      BY <2>1, <2>2, <2>3, <2>4, <2>5, <2>6 DEF TypeOK, WriterInv
  <1>3. Flow = <<>>
    <2>1. Join(<<>>, <<>>) = <<>>
      BY <1>1, JoinIs, Zenon
    <2> QED
      BY <2>1 DEF Init, Flow
  <1>4. accepted = Join(received, Join(<<>>, queue))
    <2>1. Join(<<>>, <<>>) = <<>>
      BY <1>1, JoinIs, Zenon
    <2> QED
      BY <2>1 DEF Init
  <1>5. FlowInv
    BY <1>1, <1>3, <1>4, FramesEmpty DEF FlowInv
  <1> QED
    BY <1>2, <1>5 DEF StreamInv

-----------------------------------------------------------------------------
(* The steps of the writer *)

LEMMA EnqueueKeeps ==
    ASSUME StreamInv, NEW pkt \in Packets, Enqueue(pkt)
    PROVE  StreamInv'
  <1>1. /\ UNCHANGED <<wPc, more, p, payload, writeBuf, count, flushing, wire>>
        /\ UNCHANGED <<readBuf, got, head, received, rejected>>
        /\ queue' = Append(queue, pkt) /\ accepted' = Append(accepted, pkt)
    BY DEF Enqueue, writer, packetVars, reader
  <1>2. queue \in Seq(Packets) /\ accepted \in Seq(Packets) /\ received \in Seq(Packets)
    BY DEF StreamInv, TypeOK
  <1>3. queue' \in Seq(Packets) /\ accepted' \in Seq(Packets)
    BY <1>1, <1>2, AppendProperties
  <1>4. TypeOK' /\ received' \in Seq(Packets) /\ ~rejected' /\ WriterInv'
    BY <1>1, <1>3 DEF StreamInv, TypeOK, WriterInv
  <1>5. FlowInv'
    <2>1. PICK under \in Seq(Packets) : accepted = Join(received, Join(under, queue)) /\ Frames(Flow, under)
      BY DEF StreamInv, FlowInv
    <2>2. Append(accepted, pkt) = Join(received, Join(under, Append(queue, pkt)))
      <3> DEFINE one == <<pkt>>
      <3>1. one \in Seq(Packets)
        OBVIOUS
      <3>2. Append(accepted, pkt) = Join(accepted, one) /\ Append(queue, pkt) = Join(queue, one)
        BY <1>2, AppendIsConcat DEF Join
      <3> HIDE DEF one
      <3>3. under \in Seq(Packets) /\ Join(under, queue) \in Seq(Packets)
        BY <1>2, <2>1, JoinIs, Zenon
      <3>4. Join(Join(received, Join(under, queue)), one) = Join(received, Join(Join(under, queue), one))
        BY <1>2, <3>1, <3>3, JoinAssocPackets, ZenonT(30)
      <3>5. Join(Join(under, queue), one) = Join(under, Join(queue, one))
        BY <1>2, <3>1, <3>3, JoinAssocPackets, ZenonT(30)
      <3> QED
        BY <2>1, <3>2, <3>4, <3>5, Zenon
    <2>3. Flow' = Flow
      BY <1>1 DEF Flow
    <2>4. accepted' = Join(received', Join(under, queue')) /\ Frames(Flow', under)
      BY <1>1, <2>1, <2>2, <2>3
    <2> QED
      BY <2>1, <2>4 DEF FlowInv
  <1> QED
    BY <1>4, <1>5 DEF StreamInv

LEMMA WriteFullKeeps ==
    ASSUME StreamInv, writeFull
    PROVE  StreamInv'
  <1> DEFINE n == Least(WriteBufSize - Len(writeBuf), Len(p))
  <1>1. /\ UNCHANGED <<queue, accepted, wPc, more, payload, wire>>
        /\ UNCHANGED <<readBuf, got, head, received, rejected>>
        /\ wPc # "idle" /\ ~flushing
        /\ writeBuf' = writeBuf \o Front(p, n) /\ p' = Rest(p, n)
        /\ count' = (IF p' = <<>> THEN count + 1 ELSE count)
        /\ flushing' \in BOOLEAN /\ (count' >= BatchWriteLimit => flushing')
    BY DEF writeFull, reader
  <1>2. TypeOK /\ WriterInv /\ FlowInv /\ received \in Seq(Packets) /\ ~rejected
    BY DEF StreamInv
  <1>3. /\ p \in Seq(Byte) /\ writeBuf \in Seq(Byte) /\ payload \in Seq(Byte)
        /\ Len(p) \in Nat /\ Len(writeBuf) \in 0 .. WriteBufSize /\ WriteBufSize \in Nat
    BY <1>2, BytesAre, LenProperties, SizesAssumption DEF TypeOK
  <1>4. n \in 0 .. Len(p) /\ n <= WriteBufSize - Len(writeBuf)
    BY <1>3 DEF Least
  <1> HIDE DEF n
  <1>5. p' \in Seq(Byte) /\ Front(p, n) \in Seq(Byte) /\ Len(Front(p, n)) = n
    BY <1>1, <1>3, <1>4, FrontRest
  <1>6. writeBuf' \in Seq(Byte) /\ Len(writeBuf') <= WriteBufSize
    <2>1. writeBuf' \in Seq(Byte) /\ Len(writeBuf') = Len(writeBuf) + n
      BY <1>1, <1>3, <1>5, ConcatProperties
    <2> QED
      BY <1>3, <1>4, <2>1
  <1>7. count' \in 0 .. BatchWriteLimit /\ (~flushing' => count' < BatchWriteLimit)
    <2>1. count \in Nat /\ count < BatchWriteLimit /\ BatchWriteLimit \in Nat
      BY <1>1, <1>2, SizesAssumption DEF TypeOK, WriterInv
    <2>2. count' \in Nat /\ count' <= count + 1
      BY <1>1, <2>1
    <2> QED
      BY <1>1, <2>1, <2>2
  <1>8. TypeOK' /\ received' \in Seq(Packets) /\ ~rejected'
    <2>1. {p', payload', writeBuf', wire', readBuf', got', head'} \subseteq Seq(Byte)
      BY <1>1, <1>2, <1>5, <1>6, BytesAre
    <2> QED
      BY <1>1, <1>2, <1>6, <1>7, <2>1 DEF TypeOK
  <1>9. WriterInv'
    BY <1>1, <1>2, <1>7 DEF WriterInv
  <1>10. Join(writeBuf', Join(p', payload')) = Join(writeBuf, Join(p, payload))
    BY <1>1, <1>3, <1>4, Shift
  <1>11. Flow' = Flow
    BY <1>1, <1>10, Zenon DEF Flow
  <1> QED
    BY <1>1, <1>2, <1>8, <1>9, <1>11, FlowKept DEF StreamInv

LEMMA WritePayloadKeeps ==
    ASSUME StreamInv, writePayload
    PROVE  StreamInv'
  <1>1. /\ UNCHANGED <<queue, accepted, more, writeBuf, count, flushing, wire>>
        /\ UNCHANGED <<readBuf, got, head, received, rejected>>
        /\ p = <<>> /\ p' = payload /\ payload' = <<>> /\ wPc' = "payload"
    BY DEF writePayload, reader
  <1>2. TypeOK /\ WriterInv /\ FlowInv /\ received \in Seq(Packets) /\ ~rejected
    BY DEF StreamInv
  <1>3. p' \in Seq(Byte) /\ payload \in Seq(Byte) /\ payload' \in Seq(Byte)
    BY <1>1, <1>2, BytesAre, EmptySeq
  <1>4. TypeOK' /\ received' \in Seq(Packets) /\ ~rejected'
    BY <1>1, <1>2, <1>3 DEF TypeOK
  <1>5. WriterInv'
    BY <1>1, <1>2 DEF WriterInv
  <1>6. Join(p', payload') = Join(p, payload)
    <2>1. Join(payload, <<>>) = payload /\ Join(<<>>, payload) = payload
      BY <1>3, JoinIs, Zenon
    <2> QED
      BY <1>1, <2>1, Zenon
  <1>7. Flow' = Flow
    BY <1>1, <1>6, Zenon DEF Flow
  <1> QED
    BY <1>1, <1>2, <1>4, <1>5, <1>7, FlowKept DEF StreamInv

LEMMA WriteEndsKeeps ==
    ASSUME StreamInv, writeEnds
    PROVE  StreamInv'
  <1>1. /\ UNCHANGED <<queue, accepted, more, p, payload, writeBuf, count, wire>>
        /\ UNCHANGED <<readBuf, got, head, received, rejected>>
        /\ p = <<>> /\ payload = <<>> /\ ~flushing /\ wPc' = "idle"
        /\ flushing' \in BOOLEAN
    BY DEF writeEnds, reader
  <1>2. TypeOK /\ WriterInv /\ FlowInv /\ received \in Seq(Packets) /\ ~rejected
    BY DEF StreamInv
  <1>3. TypeOK' /\ received' \in Seq(Packets) /\ ~rejected'
    BY <1>1, <1>2 DEF TypeOK
  <1>4. WriterInv'
    BY <1>1, <1>2 DEF WriterInv
  <1>5. Flow' = Flow
    BY <1>1, Zenon DEF Flow
  <1> QED
    BY <1>1, <1>2, <1>3, <1>4, <1>5, FlowKept DEF StreamInv

LEMMA ThreeEnd ==
    ASSUME NEW a \in Seq(Byte), NEW b \in Seq(Byte), NEW c \in Seq(Byte), NEW f \in Seq(Byte)
    PROVE  Join(Join(a, Join(b, c)), f) = Join(a, Join(b, Join(c, f)))
  <1>1. PICK bc \in Seq(Byte) : bc = Join(b, c)
    BY JoinIs
  <1>2. Join(Join(a, bc), f) = Join(a, Join(bc, f))
    BY <1>1, JoinAssoc
  <1>3. Join(Join(b, c), f) = Join(b, Join(c, f))
    BY JoinAssoc
  <1> QED
    BY <1>1, <1>2, <1>3, Zenon

LEMMA FlowEnd ==
    ASSUME NEW a \in Seq(Byte), NEW b \in Seq(Byte), NEW c \in Seq(Byte), NEW d \in Seq(Byte),
           NEW e \in Seq(Byte), NEW f \in Seq(Byte)
    PROVE  Join(Join(a, Join(b, Join(c, Join(d, e)))), f)
               = Join(a, Join(b, Join(c, Join(d, Join(e, f)))))
  <1>1. PICK cde \in Seq(Byte) : cde = Join(c, Join(d, e))
    BY JoinIs
  <1>2. Join(Join(a, Join(b, cde)), f) = Join(a, Join(b, Join(cde, f)))
    BY <1>1, ThreeEnd
  <1>3. Join(Join(c, Join(d, e)), f) = Join(c, Join(d, Join(e, f)))
    BY ThreeEnd
  <1> QED
    BY <1>1, <1>2, <1>3, Zenon

LEMMA SessionWritePacketKeeps ==
    ASSUME StreamInv, SessionWritePacket
    PROVE  StreamInv'
  <1> DEFINE pkt == Head(queue)
  <1>1. /\ UNCHANGED <<accepted, writeBuf, count, flushing, wire>>
        /\ UNCHANGED <<readBuf, got, head, received, rejected>>
        /\ wPc = "idle" /\ ~flushing /\ queue # <<>>
        /\ p' = packetHead(pkt.type, Len(pkt.data)) /\ payload' = pkt.data
        /\ queue' = Tail(queue) /\ more' \in BOOLEAN /\ wPc' = "head"
    BY DEF SessionWritePacket, reader
  <1>2. TypeOK /\ WriterInv /\ FlowInv /\ received \in Seq(Packets) /\ ~rejected
    BY DEF StreamInv
  <1>3. queue \in Seq(Packets) /\ p = <<>> /\ payload = <<>>
    BY <1>1, <1>2 DEF TypeOK, WriterInv
  <1>4. /\ pkt \in Packets /\ queue' \in Seq(Packets)
        /\ queue = Join(<<pkt>>, queue')
    BY <1>1, <1>3, HeadThenTail DEF Join
  <1> HIDE DEF pkt
  <1>5. p' \in Seq(Byte) /\ payload' \in Seq(Byte) /\ Join(p', payload') = frame(pkt)
    BY <1>1, <1>4, FrameIs DEF frame, Join
  <1>6. frame(pkt) \in Seq(Byte)
    BY <1>4, FrameIs
  <1>7. TypeOK' /\ received' \in Seq(Packets) /\ ~rejected'
    <2>1. {p', payload', writeBuf', wire', readBuf', got', head'} \subseteq Seq(Byte)
      BY <1>1, <1>2, <1>5, BytesAre
    <2> QED
      BY <1>1, <1>2, <1>4, <2>1 DEF TypeOK
  <1>8. WriterInv'
    BY <1>1, <1>2 DEF WriterInv
  <1>9. FlowInv'
    <2>1. PICK under \in Seq(Packets) : accepted = Join(received, Join(under, queue)) /\ Frames(Flow, under)
      BY <1>2 DEF FlowInv
    <2>2. Flow' = Flow \o frame(pkt) /\ Flow \in Seq(Byte)
      <3>1. /\ head \in Seq(Byte) /\ got \in Seq(Byte) /\ readBuf \in Seq(Byte)
            /\ wire \in Seq(Byte) /\ writeBuf \in Seq(Byte)
        BY <1>2, BytesAre
      <3>2. Join(writeBuf, Join(p, payload)) = writeBuf
        <4>1. <<>> \in Seq(Byte)
          BY EmptySeq
        <4>2. Join(<<>>, <<>>) = <<>> /\ Join(writeBuf, <<>>) = writeBuf
          BY <3>1, <4>1, JoinIs, Zenon
        <4> QED
          BY <1>3, <4>2, Zenon
      <3>3. Flow = Join(head, Join(got, Join(readBuf, Join(wire, writeBuf))))
        BY <3>2, Zenon DEF Flow
      <3>4. Flow' = Join(head, Join(got, Join(readBuf, Join(wire, Join(writeBuf, frame(pkt))))))
        BY <1>1, <1>5, Zenon DEF Flow
      <3>5. Flow' = Join(Flow, frame(pkt))
        <4>1. PICK f \in Seq(Byte) : f = frame(pkt)
          BY <1>6
        <4>2. Join(Join(head, Join(got, Join(readBuf, Join(wire, writeBuf)))), f)
                 = Join(head, Join(got, Join(readBuf, Join(wire, Join(writeBuf, f)))))
          BY <3>1, <4>1, FlowEnd
        <4> QED
          BY <3>3, <3>4, <4>1, <4>2, Zenon
      <3>6. Flow \in Seq(Byte)
        <4>1. Join(wire, writeBuf) \in Seq(Byte)
          BY <3>1, JoinIs, Zenon
        <4>2. Join(readBuf, Join(wire, writeBuf)) \in Seq(Byte)
          BY <3>1, <4>1, JoinIs, Zenon
        <4>3. Join(got, Join(readBuf, Join(wire, writeBuf))) \in Seq(Byte)
          BY <3>1, <4>2, JoinIs, Zenon
        <4> QED
          BY <3>1, <3>3, <4>3, JoinIs, Zenon
      <3> QED
        BY <3>5, <3>6 DEF Join
    <2>3. Frames(Flow', Append(under, pkt))
      BY <1>4, <2>1, <2>2, FramesAppend
    <2>4. Append(under, pkt) \in Seq(Packets) /\ Append(under, pkt) = Join(under, <<pkt>>)
      BY <1>4, <2>1, AppendProperties, AppendIsConcat DEF Join
    <2>5. Join(under, queue) = Join(Append(under, pkt), queue')
      <3> DEFINE one == <<pkt>>
      <3>1. one \in Seq(Packets) /\ queue' \in Seq(Packets) /\ under \in Seq(Packets)
        BY <1>4, <2>1
      <3>2. queue = Join(one, queue') /\ Append(under, pkt) = Join(under, one)
        BY <1>4, <2>4
      <3> HIDE DEF one
      <3>3. Join(Join(under, one), queue') = Join(under, Join(one, queue'))
        BY <3>1, JoinAssocPackets, Zenon
      <3> QED
        BY <3>2, <3>3, Zenon
    <2>6. accepted' = Join(received', Join(Append(under, pkt), queue'))
      BY <1>1, <2>1, <2>5, Zenon
    <2> QED
      BY <2>3, <2>4, <2>6 DEF FlowInv
  <1> QED
    BY <1>7, <1>8, <1>9 DEF StreamInv

LEMMA WriteFromBufferKeeps ==
    ASSUME StreamInv, writeFromBuffer
    PROVE  StreamInv'
  <1>1. PICK n \in 1 .. Len(writeBuf) :
           /\ wire' = wire \o Front(writeBuf, n)
           /\ writeBuf' = Rest(writeBuf, n)
           /\ flushing' = (n < Len(writeBuf))
           /\ count' = IF n < Len(writeBuf) THEN count ELSE 0
    BY DEF writeFromBuffer
  <1>2. /\ UNCHANGED <<queue, accepted, wPc, more, p, payload>>
        /\ UNCHANGED <<readBuf, got, head, received, rejected>>
    BY DEF writeFromBuffer, packetVars, reader
  <1>3. TypeOK /\ WriterInv /\ FlowInv /\ received \in Seq(Packets) /\ ~rejected
    BY DEF StreamInv
  <1>4. /\ p \in Seq(Byte) /\ payload \in Seq(Byte) /\ writeBuf \in Seq(Byte) /\ wire \in Seq(Byte)
        /\ readBuf \in Seq(Byte) /\ got \in Seq(Byte) /\ head \in Seq(Byte)
        /\ Join(p, payload) \in Seq(Byte)
    BY <1>3, BytesAre
  <1>5. Len(writeBuf) \in Nat /\ n \in 0 .. Len(writeBuf) /\ n \in Nat
    BY <1>1, <1>4, LenProperties
  <1>6. /\ Front(writeBuf, n) \in Seq(Byte) /\ writeBuf' \in Seq(Byte)
        /\ Len(writeBuf') = Len(writeBuf) - n
    BY <1>1, <1>4, <1>5, FrontRest
  <1>7. wire' \in Seq(Byte)
    BY <1>1, <1>4, <1>6, ConcatProperties
  <1>8. TypeOK' /\ received' \in Seq(Packets) /\ ~rejected'
    <2>1. {p', payload', writeBuf', wire', readBuf', got', head'} \subseteq Seq(Byte)
      BY <1>2, <1>4, <1>6, <1>7
    <2>2. Len(writeBuf') <= WriteBufSize
      <3>1. Len(writeBuf) <= WriteBufSize /\ WriteBufSize \in Nat
        BY <1>3, SizesAssumption DEF TypeOK
      <3> QED
        BY <1>5, <1>6, <3>1
    <2>3. count' \in 0 .. BatchWriteLimit /\ flushing' \in BOOLEAN
      BY <1>1, <1>3, SizesAssumption DEF TypeOK
    <2> QED
      BY <1>2, <1>3, <2>1, <2>2, <2>3 DEF TypeOK
  <1>9. WriterInv'
    <2>1. ~flushing' => count' < BatchWriteLimit
      <3>1. ~flushing' => count' = 0
        BY <1>1
      <3>2. BatchWriteLimit \in Nat \ {0}
        BY SizesAssumption
      <3> QED
        BY <3>1, <3>2
    <2> QED
      BY <1>2, <1>3, <2>1 DEF WriterInv
  <1>10. Join(wire', Join(writeBuf', Join(p', payload'))) = Join(wire, Join(writeBuf, Join(p, payload)))
    BY <1>1, <1>2, <1>4, <1>5, Shift
  <1>11. Flow' = Flow
    BY <1>2, <1>10, Zenon DEF Flow
  <1> QED
    BY <1>2, <1>3, <1>8, <1>9, <1>11, FlowKept DEF StreamInv

-----------------------------------------------------------------------------
(* The steps of the reader *)

LEMMA ReadToBufferKeeps ==
    ASSUME StreamInv, readToBuffer
    PROVE  StreamInv'
  <1>1. PICK n \in 1 .. Least(ReadBufSize, Len(wire)) : readBuf' = Front(wire, n) /\ wire' = Rest(wire, n)
    BY DEF readToBuffer
  <1>2. /\ UNCHANGED <<queue, accepted, wPc, more, p, payload, writeBuf, count, flushing>>
        /\ UNCHANGED <<got, head, received, rejected>>
        /\ readBuf = <<>>
    BY DEF readToBuffer, writer, packetVars
  <1>3. TypeOK /\ WriterInv /\ FlowInv /\ received \in Seq(Packets) /\ ~rejected
    BY DEF StreamInv
  <1>4. /\ p \in Seq(Byte) /\ payload \in Seq(Byte) /\ writeBuf \in Seq(Byte) /\ wire \in Seq(Byte)
        /\ got \in Seq(Byte) /\ head \in Seq(Byte)
        /\ Join(writeBuf, Join(p, payload)) \in Seq(Byte)
    BY <1>3, BytesAre
  <1>5. n \in 0 .. Len(wire) /\ n <= ReadBufSize
    <2>1. Len(wire) \in Nat /\ ReadBufSize \in Nat
      BY <1>4, LenProperties, SizesAssumption
    <2> QED
      BY <1>1, <2>1 DEF Least
  <1>6. readBuf' \in Seq(Byte) /\ wire' \in Seq(Byte) /\ Len(readBuf') = n
    BY <1>1, <1>4, <1>5, FrontRest
  <1>7. TypeOK' /\ received' \in Seq(Packets) /\ ~rejected'
    <2>1. {p', payload', writeBuf', wire', readBuf', got', head'} \subseteq Seq(Byte)
      BY <1>2, <1>4, <1>6
    <2>2. Len(readBuf') <= ReadBufSize
      BY <1>5, <1>6
    <2> QED
      BY <1>2, <1>3, <2>1, <2>2 DEF TypeOK
  <1>8. WriterInv'
    BY <1>2, <1>3 DEF WriterInv
  <1>9. Join(readBuf', Join(wire', Join(writeBuf, Join(p, payload))))
           = Join(readBuf, Join(wire, Join(writeBuf, Join(p, payload))))
    <2>1. PICK c \in Seq(Byte) : c = Join(writeBuf, Join(p, payload))
      BY <1>4
    <2>2. Join(Front(wire, n), Join(Rest(wire, n), c)) = Join(wire, c) /\ Join(wire, c) \in Seq(Byte)
      BY <1>4, <1>5, <2>1, CutJoin, JoinIs
    <2>3. Join(<<>>, Join(wire, c)) = Join(wire, c)
      BY <2>2, JoinIs, Zenon
    <2> QED
      BY <1>1, <1>2, <2>1, <2>2, <2>3, Zenon
  <1>10. Flow' = Flow
    BY <1>2, <1>9, Zenon DEF Flow
  <1> QED
    BY <1>2, <1>3, <1>7, <1>8, <1>10, FlowKept DEF StreamInv

LEMMA WantedIs ==
    ASSUME TypeOK
    PROVE  wanted \in Nat
  <1>1. head \in Seq(Byte) /\ Len(head) \in {0, 6} /\ Radix \in Nat
    BY SizesAssumption DEF TypeOK, HeadLen
  <1>2. CASE head = <<>>
    BY <1>2 DEF wanted, HeadLen
  <1>3. CASE head # <<>>
    <2>1. Len(head) = 6
      BY <1>1, <1>3, EmptySeq
    <2>2. head[3] \in Byte /\ head[4] \in Byte /\ head[5] \in Byte /\ head[6] \in Byte
      <3>1. {3, 4, 5, 6} \subseteq 1 .. Len(head)
        BY <2>1
      <3> QED
        BY <1>1, <3>1, ElementOfSeq
    <2>3. payloadLen(head) \in Nat
      <3>1. head[3] \in Nat /\ head[4] \in Nat /\ head[5] \in Nat /\ head[6] \in Nat
        BY <2>2 DEF Byte
      <3> DEFINE j == head[3] * Radix + head[4]
      <3>2. j \in Nat
        BY <1>1, <3>1
      <3> DEFINE k == j * Radix + head[5]
      <3> HIDE DEF j
      <3>3. k \in Nat
        BY <1>1, <3>1, <3>2
      <3> HIDE DEF k
      <3>4. k * Radix + head[6] \in Nat
        BY <1>1, <3>1, <3>3
      <3> QED
        BY <3>4 DEF payloadLen, j, k
    <2> QED
      BY <1>3, <2>3 DEF wanted
  <1> QED
    BY <1>2, <1>3

LEMMA ReadFullKeeps ==
    ASSUME StreamInv, readFull
    PROVE  StreamInv'
  <1> DEFINE n == Least(Len(readBuf), wanted - Len(got))
  <1>1. /\ UNCHANGED <<queue, accepted, wPc, more, p, payload, writeBuf, count, flushing, wire>>
        /\ UNCHANGED <<head, received, rejected>>
        /\ Len(got) < wanted
        /\ got' = got \o Front(readBuf, n) /\ readBuf' = Rest(readBuf, n)
    BY DEF readFull, writer, packetVars
  <1>2. TypeOK /\ WriterInv /\ FlowInv /\ received \in Seq(Packets) /\ ~rejected
    BY DEF StreamInv
  <1>3. /\ p \in Seq(Byte) /\ payload \in Seq(Byte) /\ writeBuf \in Seq(Byte) /\ wire \in Seq(Byte)
        /\ readBuf \in Seq(Byte) /\ got \in Seq(Byte) /\ head \in Seq(Byte)
        /\ Join(wire, Join(writeBuf, Join(p, payload))) \in Seq(Byte)
    BY <1>2, BytesAre
  <1>4. n \in 0 .. Len(readBuf)
    <2>1. Len(readBuf) \in Nat /\ Len(got) \in Nat /\ wanted \in Nat
      BY <1>2, <1>3, LenProperties, WantedIs
    <2> QED
      BY <1>1, <2>1 DEF Least
  <1> HIDE DEF n
  <1>5. /\ Front(readBuf, n) \in Seq(Byte) /\ readBuf' \in Seq(Byte)
        /\ Len(readBuf') = Len(readBuf) - n
    BY <1>1, <1>3, <1>4, FrontRest
  <1>6. got' \in Seq(Byte)
    BY <1>1, <1>3, <1>5, ConcatProperties
  <1>7. TypeOK' /\ received' \in Seq(Packets) /\ ~rejected'
    <2>1. {p', payload', writeBuf', wire', readBuf', got', head'} \subseteq Seq(Byte)
      BY <1>1, <1>3, <1>5, <1>6
    <2>2. Len(readBuf') <= ReadBufSize
      <3>1. Len(readBuf) \in Nat /\ Len(readBuf) <= ReadBufSize /\ ReadBufSize \in Nat
        BY <1>2, <1>3, LenProperties, SizesAssumption DEF TypeOK
      <3> QED
        BY <1>4, <1>5, <3>1
    <2> QED
      BY <1>1, <1>2, <2>1, <2>2 DEF TypeOK
  <1>8. WriterInv'
    BY <1>1, <1>2 DEF WriterInv
  <1>9. Join(got', Join(readBuf', Join(wire, Join(writeBuf, Join(p, payload)))))
           = Join(got, Join(readBuf, Join(wire, Join(writeBuf, Join(p, payload)))))
    BY <1>1, <1>3, <1>4, Shift
  <1>10. Flow' = Flow
    BY <1>1, <1>9, Zenon DEF Flow
  <1> QED
    BY <1>1, <1>2, <1>7, <1>8, <1>10, FlowKept DEF StreamInv

(* Bytes that begin with a whole head begin with the head of a packet. *)
LEMMA FirstHead ==
    ASSUME NEW first \in Seq(Byte), NEW bytes \in Seq(Byte), NEW pkts \in Seq(Packets),
           Frames(first \o bytes, pkts), Len(first) >= HeadLen
    PROVE  /\ pkts # <<>> /\ pkts[1] \in Packets
           /\ \A j \in 1 .. HeadLen :
                 first[j] = packetHead(pkts[1].type, Len(pkts[1].data))[j]
  <1> DEFINE all == first \o bytes
  <1>1. /\ all \in Seq(Byte) /\ Len(all) = Len(first) + Len(bytes)
        /\ \A j \in 1 .. Len(first) + Len(bytes) :
              all[j] = IF j <= Len(first) THEN first[j] ELSE bytes[j - Len(first)]
    BY ConcatProperties
  <1>2. Len(first) \in Nat /\ Len(bytes) \in Nat /\ HeadLen \in Nat \ {0}
    BY LenProperties DEF HeadLen
  <1> HIDE DEF all
  <1>3. all # <<>>
    <2>1. Len(all) # 0
      BY <1>1, <1>2
    <2>2. Len(<<>>) = 0
      BY EmptySeq
    <2> QED
      BY <2>1, <2>2
  <1>4. Frames(all, pkts)
    BY DEF all
  <1>5. /\ pkts # <<>> /\ pkts[1] \in Packets
        /\ \A j \in 1 .. Len(frame(pkts[1])) : all[j] = frame(pkts[1])[j]
    BY <1>1, <1>3, <1>4, FramesFirst
  <1> DEFINE h == packetHead(pkts[1].type, Len(pkts[1].data))
             f == frame(pkts[1])
             l == Len(pkts[1].data)
  <1>6. l \in Nat /\ Len(f) = HeadLen + l /\ \A j \in 1 .. HeadLen : f[j] = h[j]
    BY <1>5, FrameIs
  <1>7. \A j \in 1 .. Len(f) : all[j] = f[j]
    BY <1>5
  <1> HIDE DEF h, f, l
  <1>8. \A j \in 1 .. HeadLen : all[j] = first[j] /\ j \in 1 .. Len(f)
    BY <1>1, <1>2, <1>6
  <1>9. \A j \in 1 .. HeadLen : first[j] = h[j]
    BY <1>6, <1>7, <1>8
  <1> QED
    BY <1>5, <1>9 DEF h

LEMMA ReadHeadKeeps ==
    ASSUME StreamInv, readHead
    PROVE  StreamInv'
  <1>1. /\ UNCHANGED <<queue, accepted, wPc, more, p, payload, writeBuf, count, flushing, wire>>
        /\ UNCHANGED <<readBuf, received>>
        /\ head = <<>> /\ Len(got) = HeadLen /\ got' = <<>>
        /\ payloadLen(got) \in acceptedLengths(got[1]) => head' = got /\ rejected' = rejected
    BY DEF readHead, writer, packetVars
  <1>2. TypeOK /\ WriterInv /\ FlowInv /\ received \in Seq(Packets) /\ ~rejected
    BY DEF StreamInv
  <1> DEFINE rest == Join(readBuf, Join(wire, Join(writeBuf, Join(p, payload))))
  <1>3. /\ p \in Seq(Byte) /\ payload \in Seq(Byte) /\ writeBuf \in Seq(Byte) /\ wire \in Seq(Byte)
        /\ readBuf \in Seq(Byte) /\ got \in Seq(Byte) /\ rest \in Seq(Byte)
    BY <1>2, BytesAre
  <1>4. Flow = Join(<<>>, Join(got, rest)) /\ Flow' = Join(head', Join(<<>>, rest))
    BY <1>1, Zenon DEF Flow
  <1> HIDE DEF rest
  <1>5. Flow = Join(got, rest)
    <2>1. Join(got, rest) \in Seq(Byte)
      BY <1>3, JoinIs, Zenon
    <2>2. Join(<<>>, Join(got, rest)) = Join(got, rest)
      BY <2>1, JoinIs, Zenon
    <2> QED
      BY <1>4, <2>2, Zenon
  <1>6. head' = got /\ rejected' = rejected
    <2>1. PICK under \in Seq(Packets) : Frames(Flow, under)
      BY <1>2 DEF FlowInv
    <2>2. Frames(got \o rest, under)
      BY <1>5, <2>1 DEF Join
    <2>3. Len(got) >= HeadLen
      BY <1>1 DEF HeadLen
    <2> DEFINE pkt == under[1]
               h == packetHead(pkt.type, Len(pkt.data))
    <2>4. pkt \in Packets /\ \A j \in 1 .. HeadLen : got[j] = h[j]
      BY <1>3, <2>1, <2>2, <2>3, FirstHead
    <2>5. /\ h \in Seq(Byte) /\ Len(h) = HeadLen /\ h[1] = pkt.type
          /\ payloadLen(h) \in acceptedLengths(pkt.type)
      BY <2>4, FrameIs
    <2> HIDE DEF pkt, h
    <2>6. got = h
      BY <1>1, <1>3, <2>4, <2>5, SeqEqual
    <2> QED
      BY <1>1, <1>2, <2>5, <2>6
  <1>7. Flow' = Flow
    <2>1. Join(<<>>, rest) = rest
      BY <1>3, JoinIs, Zenon
    <2> QED
      BY <1>4, <1>5, <1>6, <2>1, Zenon
  <1>8. TypeOK' /\ received' \in Seq(Packets)
    <2>1. got' \in Seq(Byte)
      BY <1>1, EmptySeq
    <2>2. {p', payload', writeBuf', wire', readBuf', got', head'} \subseteq Seq(Byte)
      BY <1>1, <1>3, <1>6, <2>1
    <2>3. Len(head') \in {0, HeadLen}
      BY <1>1, <1>6
    <2>4. rejected' \in BOOLEAN
      BY <1>2, <1>6 DEF TypeOK
    <2> QED
      BY <1>1, <1>2, <2>2, <2>3, <2>4 DEF TypeOK
  <1>9. WriterInv'
    BY <1>1, <1>2 DEF WriterInv
  <1> QED
    BY <1>1, <1>2, <1>6, <1>7, <1>8, <1>9, FlowKept DEF StreamInv

(* What readPacket returns is the first of the packets on the way. *)
LEMMA ReadIsFirst ==
    ASSUME StreamInv, readPacket, NEW under \in Seq(Packets), Frames(Flow, under)
    PROVE  /\ under # <<>> /\ under[1] \in Packets
           /\ under[1] = [type |-> head[1], data |-> got]
           /\ Frames(Flow', Tail(under))
  <1>1. /\ UNCHANGED <<p, payload, writeBuf, wire, readBuf>>
        /\ head # <<>> /\ Len(got) = payloadLen(head) /\ head' = <<>> /\ got' = <<>>
    BY DEF readPacket, wanted, writer, packetVars
  <1> DEFINE rest == Join(readBuf, Join(wire, Join(writeBuf, Join(p, payload))))
             first == Join(head, got)
  <1>2. /\ readBuf \in Seq(Byte) /\ got \in Seq(Byte) /\ head \in Seq(Byte) /\ rest \in Seq(Byte)
        /\ Len(head) = HeadLen
    <2>1. TypeOK
      BY DEF StreamInv
    <2>2. Len(head) # 0
      BY <1>1, <2>1, BytesAre, EmptySeq
    <2> QED
      BY <2>1, <2>2, BytesAre DEF TypeOK
  <1>3. Flow = Join(head, Join(got, rest)) /\ Flow' = Join(<<>>, Join(<<>>, rest))
    BY <1>1, Zenon DEF Flow
  <1> HIDE DEF rest
  <1>4. Flow' = rest
    <2>1. Join(<<>>, rest) = rest
      BY <1>2, JoinIs, Zenon
    <2> QED
      BY <1>3, <2>1, Zenon
  <1>5. Flow = Join(first, rest)
    <2>1. Join(Join(head, got), rest) = Join(head, Join(got, rest))
      BY <1>2, JoinAssoc, Zenon
    <2> QED
      BY <1>3, <2>1, Zenon
  <1>6. /\ first \in Seq(Byte) /\ Len(first) = HeadLen + Len(got)
        /\ \A j \in 1 .. HeadLen : first[j] = head[j]
        /\ \A j \in 1 .. Len(got) : first[HeadLen + j] = got[j]
    <2>1. /\ first \in Seq(Byte) /\ Len(first) = HeadLen + Len(got)
          /\ \A i \in 1 .. HeadLen + Len(got) :
                first[i] = IF i <= HeadLen THEN head[i] ELSE got[i - HeadLen]
      BY <1>2, ConcatProperties DEF Join
    <2>2. Len(got) \in Nat /\ HeadLen \in Nat
      BY <1>2, LenProperties DEF HeadLen
    <2> HIDE DEF first
    <2>3. \A j \in 1 .. HeadLen : j \in 1 .. HeadLen + Len(got) /\ j <= HeadLen
      BY <2>2
    <2>4. \A j \in 1 .. Len(got) : /\ HeadLen + j \in 1 .. HeadLen + Len(got)
                                    /\ ~(HeadLen + j <= HeadLen) /\ (HeadLen + j) - HeadLen = j
      BY <2>2
    <2> QED
      BY <2>1, <2>3, <2>4
  <1> HIDE DEF first
  <1>7. Frames(first \o rest, under)
    BY <1>5 DEF Join
  <1>8. Len(got) \in Nat /\ HeadLen \in Nat /\ Len(first) >= HeadLen
    BY <1>2, <1>6, LenProperties DEF HeadLen
  <1> DEFINE pkt == under[1]
             h == packetHead(pkt.type, Len(pkt.data))
             f == frame(pkt)
             d == pkt.data
  <1>9. under # <<>> /\ pkt \in Packets /\ \A j \in 1 .. HeadLen : first[j] = h[j]
    BY <1>2, <1>6, <1>7, <1>8, FirstHead
  <1>10. /\ h \in Seq(Byte) /\ Len(h) = HeadLen /\ h[1] = pkt.type /\ payloadLen(h) = Len(d)
         /\ d \in Seq(Byte) /\ Len(d) \in Nat
         /\ Len(f) = HeadLen + Len(d)
         /\ \A j \in 1 .. Len(d) : f[HeadLen + j] = d[j]
         /\ pkt = [type |-> pkt.type, data |-> d]
    BY <1>9, FrameIs
  <1>11. \A j \in 1 .. Len(f) : (first \o rest)[j] = f[j]
    <2>1. first \o rest # <<>> /\ first \o rest \in Seq(Byte)
      <3>1. Len(first \o rest) = Len(first) + Len(rest) /\ Len(rest) \in Nat /\ first \o rest \in Seq(Byte)
        BY <1>2, <1>6, ConcatProperties, LenProperties
      <3>2. Len(<<>>) = 0 /\ HeadLen = 6
        BY EmptySeq DEF HeadLen
      <3>3. Len(first \o rest) # 0
        BY <1>6, <1>8, <3>1, <3>2
      <3> QED
        BY <3>1, <3>2, <3>3
    <2> QED
      BY <1>7, <2>1, FramesFirst
  <1> HIDE DEF pkt, h, f, d
  <1>12. head = h
    <2>1. \A j \in 1 .. HeadLen : head[j] = h[j]
      BY <1>6, <1>9
    <2> QED
      BY <1>2, <1>10, <2>1, SeqEqual
  <1>13. Len(got) = Len(d)
    BY <1>1, <1>10, <1>12
  <1>14. got = d
    <2>1. /\ Len(first) = Len(f)
          /\ \A j \in 1 .. Len(f) : (first \o rest)[j] = first[j]
      <3>1. \A j \in 1 .. Len(first) + Len(rest) :
               (first \o rest)[j] = IF j <= Len(first) THEN first[j] ELSE rest[j - Len(first)]
        BY <1>2, <1>6, ConcatProperties, SMTT(30)
      <3>2. Len(first) = Len(f) /\ Len(f) \in Nat /\ Len(rest) \in Nat
        BY <1>2, <1>6, <1>8, <1>10, <1>13, LenProperties
      <3>3. \A j \in 1 .. Len(f) : j \in 1 .. Len(first) + Len(rest) /\ j <= Len(first)
        BY <3>2
      <3> QED
        BY <3>1, <3>2, <3>3
    <2>2. \A j \in 1 .. Len(d) : HeadLen + j \in 1 .. Len(f)
      BY <1>8, <1>10
    <2>3. \A j \in 1 .. Len(d) : got[j] = d[j]
      BY <1>6, <1>10, <1>11, <1>13, <2>1, <2>2
    <2> QED
      BY <1>2, <1>10, <1>13, <2>3, SeqEqual
  <1>15. pkt = [type |-> head[1], data |-> got]
    BY <1>10, <1>12, <1>14
  <1>16. Len(first) = Len(frame(under[1]))
    BY <1>6, <1>10, <1>13 DEF f, pkt
  <1>17. Frames(rest, Tail(under))
    BY <1>2, <1>6, <1>7, <1>9, <1>16, FramesTail
  <1> QED
    BY <1>4, <1>9, <1>15, <1>17 DEF pkt

LEMMA ReadPacketKeeps ==
    ASSUME StreamInv, readPacket
    PROVE  StreamInv'
  <1>1. /\ UNCHANGED <<queue, accepted, wPc, more, p, payload, writeBuf, count, flushing, wire>>
        /\ UNCHANGED <<readBuf, rejected>>
        /\ head' = <<>> /\ got' = <<>>
        /\ received' = Append(received, [type |-> head[1], data |-> got])
    BY DEF readPacket, writer, packetVars
  <1>2. TypeOK /\ WriterInv /\ FlowInv /\ received \in Seq(Packets) /\ ~rejected
    BY DEF StreamInv
  <1>3. PICK under \in Seq(Packets) : accepted = Join(received, Join(under, queue)) /\ Frames(Flow, under)
    BY <1>2 DEF FlowInv
  <1> DEFINE pkt == under[1]
  <1>4. /\ under # <<>> /\ pkt \in Packets /\ pkt = [type |-> head[1], data |-> got]
        /\ Frames(Flow', Tail(under))
    BY <1>3, ReadIsFirst
  <1>5. Tail(under) \in Seq(Packets) /\ under = Join(<<pkt>>, Tail(under))
    BY <1>3, <1>4, HeadThenTail DEF Join
  <1> HIDE DEF pkt
  <1>6. /\ received' \in Seq(Packets) /\ received' = Join(received, <<pkt>>)
    BY <1>1, <1>2, <1>4, AppendProperties, AppendIsConcat DEF Join
  <1>7. accepted' = Join(received', Join(Tail(under), queue'))
    <2> DEFINE one == <<pkt>>
               last == Join(Tail(under), queue)
    <2>1. /\ one \in Seq(Packets) /\ queue \in Seq(Packets) /\ received \in Seq(Packets)
          /\ Tail(under) \in Seq(Packets)
      BY <1>2, <1>4, <1>5 DEF TypeOK
    <2>2. under = Join(one, Tail(under)) /\ received' = Join(received, one)
      BY <1>5, <1>6
    <2> HIDE DEF one
    <2>3. last \in Seq(Packets)
      BY <2>1, JoinIs, Zenon
    <2>4. Join(Join(one, Tail(under)), queue) = Join(one, last)
      BY <2>1, JoinAssocPackets, ZenonT(30)
    <2> HIDE DEF last
    <2>5. Join(Join(received, one), last) = Join(received, Join(one, last))
      BY <2>1, <2>3, JoinAssocPackets, ZenonT(30)
    <2>6. accepted = Join(received', last)
      BY <1>3, <2>2, <2>4, <2>5, Zenon
    <2> QED
      BY <1>1, <2>6, Zenon DEF last
  <1>8. TypeOK' /\ ~rejected'
    <2>1. <<>> \in Seq(Byte) /\ Len(<<>>) = 0
      BY EmptySeq
    <2>2. {p', payload', writeBuf', wire', readBuf', got', head'} \subseteq Seq(Byte)
      BY <1>1, <1>2, <2>1, BytesAre
    <2>3. Len(head') \in {0, HeadLen}
      BY <1>1, <2>1
    <2> QED
      BY <1>1, <1>2, <2>2, <2>3 DEF TypeOK
  <1>9. WriterInv'
    BY <1>1, <1>2 DEF WriterInv
  <1>10. FlowInv'
    BY <1>4, <1>5, <1>7 DEF FlowInv
  <1> QED
    BY <1>6, <1>8, <1>9, <1>10 DEF StreamInv

-----------------------------------------------------------------------------
(* Theorems *)

LEMMA StreamNext ==
    ASSUME StreamInv, [Next]_vars
    PROVE  StreamInv'
  <1>1. ASSUME NEW pkt \in Packets, Enqueue(pkt)
        PROVE  StreamInv'
    BY <1>1, EnqueueKeeps
  <1>2. CASE SessionWritePacket
    BY <1>2, SessionWritePacketKeeps
  <1>3. CASE writeFull
    BY <1>3, WriteFullKeeps
  <1>4. CASE writePayload
    BY <1>4, WritePayloadKeeps
  <1>5. CASE writeEnds
    BY <1>5, WriteEndsKeeps
  <1>6. CASE writeFromBuffer
    BY <1>6, WriteFromBufferKeeps
  <1>7. CASE readToBuffer
    BY <1>7, ReadToBufferKeeps
  <1>8. CASE readFull
    BY <1>8, ReadFullKeeps
  <1>9. CASE readHead
    BY <1>9, ReadHeadKeeps
  <1>10. CASE readPacket
    BY <1>10, ReadPacketKeeps
  <1>11. CASE UNCHANGED vars
    <2>1. UNCHANGED <<queue, accepted, wPc, more, p, payload, writeBuf, count, flushing, wire,
                      readBuf, got, head, received, rejected>>
      BY <1>11 DEF vars
    <2>2. Flow' = Flow
      BY <2>1, Zenon DEF Flow
    <2>3. FlowInv'
      BY <2>1, <2>2, FlowKept DEF StreamInv
    <2> QED
      BY <2>1, <2>3 DEF StreamInv, TypeOK, WriterInv
  <1> QED
    BY <1>1, <1>2, <1>3, <1>4, <1>5, <1>6, <1>7, <1>8, <1>9, <1>10, <1>11 DEF Next, Write, Read

(* However writes and reads cut them, the bytes between the two ends are    *)
(* those of the packets that were taken from the queue and not read yet,    *)
(* each whole and in its order; no head that SessionReadPacket meets is     *)
(* refused.                                                                *)
THEOREM StreamInvariance == Spec => []StreamInv
  <1>1. Init => StreamInv
    BY StreamInit
  <1>2. StreamInv /\ [Next]_vars => StreamInv'
    BY StreamNext
  <1> QED
    BY <1>1, <1>2, PTL DEF Spec

(* Neither buffer ever holds more than its size, and writeFull has counted *)
(* at most BatchWriteLimit heads and payloads when it is sent.             *)
THEOREM StreamTypeCorrect == Spec => []TypeOK
  <1>1. StreamInv => TypeOK
    BY DEF StreamInv
  <1> QED
    BY <1>1, StreamInvariance, PTL

(* SessionReadPacket refuses no packet that a session has sent, whatever    *)
(* its length and however it was cut on the way.                           *)
THEOREM NothingIsRefused == Spec => []~rejected
  <1>1. StreamInv => ~rejected
    BY DEF StreamInv
  <1> QED
    BY <1>1, StreamInvariance, PTL

(* What is pending: the packets on the way and those in the queue. *)
LEMMA PendingIs ==
    ASSUME NEW r \in Seq(Packets), NEW x \in Seq(Packets)
    PROVE  Rest(Join(r, x), Len(r)) = x
  BY RestOfConcat DEF Join

LEMMA StreamPending ==
    ASSUME StreamInv
    PROVE  \E x \in Seq(Packets) : /\ accepted = Join(received, x)
                                   /\ Rest(accepted, Len(received)) = x
  <1>1. /\ received \in Seq(Packets) /\ queue \in Seq(Packets)
        /\ \E under \in Seq(Packets) : accepted = Join(received, Join(under, queue))
    BY DEF StreamInv, TypeOK, FlowInv
  <1>2. PICK under \in Seq(Packets) : accepted = Join(received, Join(under, queue))
    BY <1>1
  <1>3. Join(under, queue) \in Seq(Packets)
    BY <1>1, <1>2, JoinIs, Zenon
  <1> QED
    BY <1>1, <1>2, <1>3, PendingIs, Zenon

LEMMA EnqueueAccepts ==
    ASSUME StreamInv, NEW pkt \in Packets, Enqueue(pkt)
    PROVE  Fifo!Accept
  <1>1. accepted' = Append(accepted, pkt) /\ received' = received
    BY DEF Enqueue, reader
  <1>2. PICK x \in Seq(Packets) : accepted = Join(received, x) /\ Rest(accepted, Len(received)) = x
    BY StreamPending
  <1>3. received \in Seq(Packets) /\ accepted \in Seq(Packets)
    BY DEF StreamInv, TypeOK
  <1>4. accepted' = Join(received', Append(x, pkt)) /\ Append(x, pkt) \in Seq(Packets)
    <2> DEFINE one == <<pkt>>
    <2>1. one \in Seq(Packets)
      OBVIOUS
    <2>2. Append(accepted, pkt) = Join(accepted, one) /\ Append(x, pkt) = Join(x, one)
      BY <1>2, <1>3, AppendIsConcat DEF Join
    <2>3. Append(x, pkt) \in Seq(Packets)
      BY <1>2, AppendProperties
    <2> HIDE DEF one
    <2>4. Join(Join(received, x), one) = Join(received, Join(x, one))
      BY <1>2, <1>3, <2>1, JoinAssocPackets, ZenonT(30)
    <2> QED
      BY <1>1, <1>2, <2>2, <2>3, <2>4, Zenon
  <1>5. Rest(accepted', Len(received')) = Append(x, pkt)
    BY <1>1, <1>3, <1>4, PendingIs
  <1>6. Rest(accepted, Len(received))' = Append(Rest(accepted, Len(received)), pkt)
    BY <1>2, <1>5
  <1> QED
    BY <1>1, <1>6 DEF Fifo!Accept

LEMMA ReadDelivers ==
    ASSUME StreamInv, readPacket
    PROVE  Fifo!Deliver
  <1>1. /\ accepted' = accepted /\ queue' = queue
        /\ received' = Append(received, [type |-> head[1], data |-> got])
    BY DEF readPacket
  <1>2. received \in Seq(Packets) /\ queue \in Seq(Packets)
    BY DEF StreamInv, TypeOK
  <1>3. PICK under \in Seq(Packets) : accepted = Join(received, Join(under, queue)) /\ Frames(Flow, under)
    BY DEF StreamInv, FlowInv
  <1> DEFINE pkt == under[1]
             one == <<pkt>>
             x   == Join(under, queue)
  <1>4. under # <<>> /\ pkt \in Packets /\ pkt = [type |-> head[1], data |-> got]
    BY <1>3, ReadIsFirst
  <1>5. Tail(under) \in Seq(Packets) /\ under = Join(one, Tail(under))
    BY <1>3, <1>4, HeadThenTail DEF Join
  <1>6. one \in Seq(Packets) /\ Len(one) = 1
    BY <1>4
  <1>7. received' \in Seq(Packets) /\ received' = Join(received, one)
    <2>1. received' = Append(received, pkt)
      BY <1>1, <1>4
    <2> HIDE DEF pkt
    <2> QED
      BY <1>2, <1>4, <2>1, AppendProperties, AppendIsConcat DEF Join
  <1>8. x \in Seq(Packets)
    BY <1>2, <1>3, JoinIs, Zenon
  <1> DEFINE last == Join(Tail(under), queue)
  <1>9. last \in Seq(Packets)
    BY <1>2, <1>5, JoinIs, Zenon
  <1>10. x = Join(one, last)
    <2> HIDE DEF one
    <2>1. Join(Join(one, Tail(under)), queue) = Join(one, last)
      BY <1>2, <1>5, <1>6, JoinAssocPackets, Zenon
    <2> QED
      BY <1>5, <2>1, Zenon
  <1> HIDE DEF one, pkt, x, last
  <1>11. accepted = Join(received, x)
    BY <1>3 DEF x
  <1>12. Rest(accepted, Len(received)) = x
    BY <1>2, <1>8, <1>11, PendingIs
  <1>13. Rest(accepted', Len(received')) = last
    <2>1. Join(Join(received, one), last) = Join(received, Join(one, last))
      BY <1>2, <1>6, <1>9, JoinAssocPackets, ZenonT(30)
    <2>2. accepted' = Join(received', last)
      BY <1>1, <1>7, <1>10, <1>11, <2>1, Zenon
    <2> QED
      BY <1>7, <1>9, <2>2, PendingIs
  <1>14. 1 \in 1 .. Len(x) /\ SubSeq(x, 1, 1) = one /\ SubSeq(x, 2, Len(x)) = last
    <2>1. Len(x) = 1 + Len(last) /\ Len(last) \in Nat /\ x[1] = one[1]
      <3>1. /\ Len(x) = Len(one) + Len(last)
            /\ \A i \in 1 .. Len(one) + Len(last) :
                  x[i] = IF i <= Len(one) THEN one[i] ELSE last[i - Len(one)]
        BY <1>6, <1>9, <1>10, ConcatProperties DEF Join
      <3>2. Len(last) \in Nat
        BY <1>9, LenProperties
      <3>3. 1 \in 1 .. Len(one) + Len(last) /\ 1 <= Len(one)
        BY <1>6, <3>2
      <3> QED
        BY <1>6, <3>1, <3>2, <3>3
    <2>2. 1 \in 1 .. Len(x) /\ 1 \in 0 .. Len(x)
      BY <2>1
    <2>3. SubSeq(x, 1, 1) = one
      <3>1. Front(x, 1) \in Seq(Packets) /\ Len(Front(x, 1)) = 1
        BY <1>8, <2>2, FrontRest
      <3>2. \A i \in 1 .. 1 : x[i] \in Packets
        BY <1>8, <2>2, ElementOfSeq
      <3>3. Front(x, 1)[1] = x[1]
        BY <3>2, SubSeqProperties DEF Front
      <3>4. \A i \in 1 .. Len(Front(x, 1)) : Front(x, 1)[i] = one[i]
        BY <2>1, <3>1, <3>3
      <3> QED
        BY <1>6, <3>1, <3>4, SeqEqual DEF Front
    <2>4. SubSeq(x, 2, Len(x)) = last
      <3>1. Rest(Join(one, last), Len(one)) = last
        BY <1>6, <1>9, PendingIs
      <3>2. Rest(x, 1) = last
        BY <1>6, <1>10, <3>1
      <3>3. 1 + 1 = 2
        OBVIOUS
      <3> QED
        BY <3>2, <3>3 DEF Rest
    <2> QED
      BY <2>2, <2>3, <2>4
  <1>15. received' = received \o one
    BY <1>7 DEF Join
  <1>16. /\ received' = received \o SubSeq(x, 1, 1)
         /\ Rest(accepted, Len(received))' = SubSeq(x, 1 + 1, Len(x))
    <2>1. 1 + 1 = 2
      OBVIOUS
    <2>2. Rest(accepted, Len(received))' = SubSeq(x, 2, Len(x))
      BY <1>13, <1>14
    <2>3. received' = received \o SubSeq(x, 1, 1)
      BY <1>14, <1>15
    <2> QED
      BY <2>1, <2>2, <2>3
  <1> QED
    BY <1>12, <1>14, <1>16 DEF Fifo!Deliver

(* The bytes of a session implement the queue that Send promises: packets   *)
(* are read whole, each once and in the order of their acceptance.         *)
THEOREM ReadsInOrder == Spec => ReadsWhatWasSent
  <1>1. Init => Fifo!Init
    <2> SUFFICES ASSUME Init
                 PROVE  Fifo!Init
      OBVIOUS
    <2>1. StreamInv
      BY StreamInit
    <2>2. PICK x \in Seq(Packets) : accepted = Join(received, x) /\ Rest(accepted, Len(received)) = x
      BY <2>1, StreamPending
    <2>3. accepted = <<>> /\ received = <<>>
      BY DEF Init
    <2>4. Join(<<>>, x) = x
      BY <2>2, JoinIs, Zenon
    <2> QED
      BY <2>2, <2>3, <2>4 DEF Fifo!Init
  <1>2. StreamInv /\ [Next]_vars => [Fifo!Next]_<<Rest(accepted, Len(received)), received>>
    <2> SUFFICES ASSUME StreamInv, [Next]_vars
                 PROVE  [Fifo!Next]_<<Rest(accepted, Len(received)), received>>
      OBVIOUS
    <2>1. ASSUME NEW pkt \in Packets, Enqueue(pkt)
          PROVE  Fifo!Next
      BY <2>1, EnqueueAccepts DEF Fifo!Next
    <2>2. CASE readPacket
      BY <2>2, ReadDelivers DEF Fifo!Next
    <2>3. CASE Write \/ readToBuffer \/ readFull \/ readHead \/ UNCHANGED vars
      <3>1. UNCHANGED <<accepted, received>>
        BY <2>3 DEF Write, SessionWritePacket, writeFull, writePayload, writeEnds, writeFromBuffer,
                    readToBuffer, readFull, readHead, reader, vars
      <3> QED
        BY <3>1
    <2> QED
      BY <2>1, <2>2, <2>3 DEF Next, Read
  <1> QED
    BY <1>1, <1>2, StreamInvariance, PTL DEF Spec, ReadsWhatWasSent, Fifo!Spec
=============================================================================
