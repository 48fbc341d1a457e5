--------------------------- MODULE FramingProofs ----------------------------
(***************************************************************************)
(* What the byte order helpers of Protocol.hpp do, for every payload: the  *)
(* 32-bit pair brings an integer from any host to any other, the 64-bit    *)
(* "pair" changes nothing and so serves hosts of one byte order only.  And *)
(* what sendMessage and recvMessage make of a stream, however it is cut:   *)
(* a channel of whole messages.                                            *)
(***************************************************************************)
EXTENDS Framing, SequenceTheorems, TLAPS

-----------------------------------------------------------------------------
(* Protocol.                                                               *)

LEMMA BackwardsTwice ==
    ASSUME NEW n \in Nat, NEW w \in [1..n -> Byte]
    PROVE  /\ Len(w) = n /\ w \in Seq(Byte)
           /\ Backwards(w) \in [1..n -> Byte] /\ Len(Backwards(w)) = n
           /\ Backwards(Backwards(w)) = w
<1>1. Len(w) = n /\ w \in Seq(Byte)
  OBVIOUS
<1>2. Backwards(w) = [i \in 1..n |-> w[n + 1 - i]]
  BY <1>1 DEF Backwards
<1>3. \A i \in 1..n : n + 1 - i \in 1..n
  OBVIOUS
<1>4. Backwards(w) \in [1..n -> Byte] /\ Len(Backwards(w)) = n
  BY <1>2, <1>3
<1>5. Backwards(Backwards(w)) = [i \in 1..n |-> Backwards(w)[n + 1 - i]]
  BY <1>4 DEF Backwards
<1>6. \A i \in 1..n : Backwards(w)[n + 1 - i] = w[i]
  BY <1>2, <1>3
<1>7. Backwards(Backwards(w)) = [i \in 1..n |-> w[i]]
  BY <1>5, <1>6
<1> QED
  BY <1>1, <1>4, <1>7

\* Whatever a host keeps in memory it can load again.
LEMMA LoadMemory ==
    ASSUME NEW h \in Host, NEW n \in Nat, NEW w \in [1..n -> Byte]
    PROVE  /\ Memory(h, w) \in [1..n -> Byte] /\ Load(h, w) \in [1..n -> Byte]
           /\ Memory(h, Load(h, w)) = w /\ Load(h, Memory(h, w)) = w
BY BackwardsTwice DEF Host, Memory, Load

\* An integer of one host, as another host loads it from the same memory.
LEMMA LoadElsewhere ==
    ASSUME NEW h \in Host, NEW g \in Host, NEW n \in Nat, NEW w \in [1..n -> Byte]
    PROVE  /\ Load(g, Memory(h, w)) \in [1..n -> Byte]
           /\ Load(g, Memory(h, w)) = IF h = g THEN w ELSE Backwards(w)
BY BackwardsTwice DEF Host, Memory, Load

\* Each turn of the loop puts a byte back where it was.
LEMMA Net64Identity ==
    ASSUME NEW v \in [1..8 -> Byte]
    PROVE  hostToNet64(v) = v
<1>1. ASSUME NEW k \in 1..8
      PROVE  (LET i == CHOOSE j \in 0..7 : PlaceOf(8 * (7 - j)) = k
              IN  ByteAt(v, 56 - 8 * i)) = v[k]
  <2>1. \A j \in 0..7 : (8 * (7 - j)) \div 8 = 7 - j /\ (56 - 8 * j) \div 8 = 7 - j
    OBVIOUS
  <2>2. \A j \in 0..7 : PlaceOf(8 * (7 - j)) = k <=> j = k - 1
    BY <2>1 DEF PlaceOf
  <2>3. (CHOOSE j \in 0..7 : PlaceOf(8 * (7 - j)) = k) = k - 1
    BY <2>2
  <2>4. ByteAt(v, 56 - 8 * (k - 1)) = v[k]
    BY <2>1 DEF ByteAt
  <2> QED
    BY <2>3, <2>4
<1>2. hostToNet64(v) = [k \in 1..8 |-> v[k]]
  BY <1>1 DEF hostToNet64
<1> QED
  BY <1>2

\* What encodeResourceReport puts into its buffer.
LEMMA Encoded ==
    ASSUME NEW h \in Host, NEW p \in Payload
    PROVE  /\ encodeResourceReport(h, p) = Memory(h, p.ramBytes) \o p.threads
           /\ Memory(h, p.ramBytes) \in Seq(Byte) /\ Len(Memory(h, p.ramBytes)) = 8
           /\ p.threads \in Seq(Byte) /\ Len(p.threads) = 4
<1>1. p.ramBytes \in [1..8 -> Byte] /\ p.threads \in [1..4 -> Byte]
  BY DEF Payload
<1>2. hostToNet64(p.ramBytes) = p.ramBytes
  BY <1>1, Net64Identity
<1>3. Memory(h, hostToNet32(h, p.threads)) = p.threads
  BY <1>1, LoadMemory DEF hostToNet32
<1>4. Memory(h, p.ramBytes) \in [1..8 -> Byte]
  BY <1>1, LoadMemory
<1> QED
  BY <1>1, <1>2, <1>3, <1>4, BackwardsTwice DEF encodeResourceReport

\* The two fields of a buffer that encodeResourceReport has filled.
LEMMA Fields ==
    ASSUME NEW h \in Host, NEW p \in Payload
    PROVE  /\ SubSeq(encodeResourceReport(h, p), 1, 8) = Memory(h, p.ramBytes)
           /\ SubSeq(encodeResourceReport(h, p), 9, 12) = p.threads
<1> DEFINE a == Memory(h, p.ramBytes)
           b == p.threads
<1>2. encodeResourceReport(h, p) = a \o b
  BY Encoded
<1>3. a \in Seq(Byte) /\ Len(a) = 8 /\ b \in Seq(Byte) /\ Len(b) = 4
  BY Encoded
<1> HIDE DEF a, b
<1>4. SubSeq(a \o b, 1, 8) = a
  <2>1. 1 \in 1..Len(a) /\ 8 \in 1..Len(a)
    BY <1>3
  <2>2. SubSeq(a \o b, 1, 8) = SubSeq(a, 1, 8)
    BY <1>3, <2>1, SubSeqOfConcat1, Zenon
  <2>3. SubSeq(a, 1, Len(a)) = a
    BY <1>3, SubSeqFull, Zenon
  <2> QED
    BY <1>3, <2>2, <2>3, Zenon
<1>5. SubSeq(a \o b, 9, 12) = b
  <2>1. /\ 9 \in (Len(a) + 1)..(Len(a) + Len(b)) /\ 12 \in (Len(a) + 1)..(Len(a) + Len(b))
        /\ 9 - Len(a) = 1 /\ 12 - Len(a) = Len(b)
    BY <1>3
  <2>2. SubSeq(a \o b, 9, 12) = SubSeq(b, 9 - Len(a), 12 - Len(a))
    BY <1>3, <2>1, SubSeqOfConcat2, ZenonT(40)
  <2>3. SubSeq(b, 1, Len(b)) = b
    BY <1>3, SubSeqFull, Zenon
  <2> QED
    BY <2>1, <2>2, <2>3, Zenon
<1> QED
  BY <1>2, <1>4, <1>5 DEF a, b

\* Protocol.hpp, "(portable)": the count of threads arrives as it was, whatever
\* the byte orders of the node and of the master.
THEOREM ThreadsPortable ==
    ASSUME NEW h \in Host, NEW g \in Host, NEW p \in Payload
    PROVE  decodeResourceReport(g, encodeResourceReport(h, p)).threads = p.threads
<1>1. p.threads \in [1..4 -> Byte]
  BY DEF Payload
<1>2. netToHost32(g, Load(g, p.threads)) = p.threads
  BY <1>1, LoadMemory DEF netToHost32
<1> QED
  BY <1>2, Fields DEF decodeResourceReport

\* Between hosts of one byte order, decodeResourceReport is the inverse of
\* encodeResourceReport; between others the size of the memory arrives with
\* its bytes turned round.
THEOREM RamOnOneByteOrder ==
    ASSUME NEW h \in Host, NEW g \in Host, NEW p \in Payload
    PROVE  decodeResourceReport(g, encodeResourceReport(h, p)).ramBytes =
               IF h = g THEN p.ramBytes ELSE Backwards(p.ramBytes)
<1>1. p.ramBytes \in [1..8 -> Byte]
  BY DEF Payload
<1> DEFINE loaded == Load(g, Memory(h, p.ramBytes))
<1>2. /\ loaded \in [1..8 -> Byte]
      /\ loaded = IF h = g THEN p.ramBytes ELSE Backwards(p.ramBytes)
  BY <1>1, 8 \in Nat, LoadElsewhere
<1>3. netToHost64(loaded) = loaded
  BY <1>2, Net64Identity DEF netToHost64
<1> QED
  BY <1>2, <1>3, Fields DEF decodeResourceReport

-----------------------------------------------------------------------------
(* Bytes in a row.                                                         *)

LEMMA Cut ==
    ASSUME NEW s \in Seq(Byte), NEW n \in 0..Len(s)
    PROVE  /\ SubSeq(s, 1, n) \in Seq(Byte) /\ Len(SubSeq(s, 1, n)) = n
           /\ SubSeq(s, n + 1, Len(s)) \in Seq(Byte)
           /\ Len(SubSeq(s, n + 1, Len(s))) = Len(s) - n
           /\ SubSeq(s, 1, n) \o SubSeq(s, n + 1, Len(s)) = s
<1> DEFINE a == SubSeq(s, 1, n)
           b == SubSeq(s, n + 1, Len(s))
<1>1. Len(s) \in Nat /\ n \in Nat /\ n <= Len(s)
  OBVIOUS
<1>2. \A i \in 1..Len(s) : s[i] \in Byte
  BY ElementOfSeq
<1>3. /\ a \in Seq(Byte) /\ Len(a) = n
      /\ \A i \in 1..n : a[i] = s[i]
  <2>1. \A i \in 1..n : s[i] \in Byte
    BY <1>1, <1>2
  <2> QED
    BY <1>1, <2>1, SubSeqProperties
<1>4. /\ b \in Seq(Byte) /\ Len(b) = Len(s) - n
      /\ \A i \in 1..(Len(s) - n) : b[i] = s[n + i]
  <2>1. \A i \in (n + 1)..Len(s) : s[i] \in Byte
    BY <1>1, <1>2
  <2> QED
    BY <1>1, <2>1, SubSeqProperties
<1> HIDE DEF a, b
<1>5. /\ a \o b \in Seq(Byte) /\ Len(a \o b) = Len(s)
      /\ \A i \in 1..Len(s) : (a \o b)[i] = IF i <= n THEN a[i] ELSE b[i - n]
  BY <1>1, <1>3, <1>4, ConcatProperties
<1>6. \A i \in 1..Len(s) : (a \o b)[i] = s[i]
  <2>1. SUFFICES ASSUME NEW i \in 1..Len(s)
                 PROVE  (a \o b)[i] = s[i]
    OBVIOUS
  <2>2. CASE i <= n
    BY <1>1, <1>3, <1>5, <2>2
  <2>3. CASE i > n
    <3>1. i - n \in 1..(Len(s) - n) /\ n + (i - n) = i
      BY <1>1, <2>3
    <3> QED
      BY <1>1, <1>4, <1>5, <2>3, <3>1
  <2>4. i <= n \/ i > n
    BY <1>1
  <2> QED
    BY <2>2, <2>3, <2>4
<1>7. a \o b = s
  BY <1>5, <1>6, SeqEqual
<1> QED
  BY <1>3, <1>4, <1>7 DEF a, b

\* The same, with names for the two pieces.
IsCut(s, n, a, b) ==
    /\ a = SubSeq(s, 1, n) /\ b = SubSeq(s, n + 1, Len(s))
    /\ a \o b = s /\ Len(a) = n /\ Len(b) = Len(s) - n

LEMMA InTwo ==
    ASSUME NEW s \in Seq(Byte), NEW n \in 0..Len(s)
    PROVE  \E a \in Seq(Byte), b \in Seq(Byte) : IsCut(s, n, a, b)
<1>1. IsCut(s, n, SubSeq(s, 1, n), SubSeq(s, n + 1, Len(s)))
  BY Cut DEF IsCut
<1>2. SubSeq(s, 1, n) \in Seq(Byte) /\ SubSeq(s, n + 1, Len(s)) \in Seq(Byte)
  BY Cut
<1> QED
  BY <1>1, <1>2

LEMMA Peel ==
    ASSUME NEW a \in Seq(Byte), NEW b \in Seq(Byte), NEW c \in Seq(Byte), NEW d \in Seq(Byte),
           a \o b = c \o d, Len(a) = Len(c)
    PROVE  a = c /\ b = d
<1>1. /\ Len(a \o b) = Len(a) + Len(b)
      /\ \A i \in 1..(Len(a) + Len(b)) : (a \o b)[i] = IF i <= Len(a) THEN a[i] ELSE b[i - Len(a)]
  BY ConcatProperties
<1>2. /\ Len(c \o d) = Len(c) + Len(d)
      /\ \A i \in 1..(Len(c) + Len(d)) : (c \o d)[i] = IF i <= Len(c) THEN c[i] ELSE d[i - Len(c)]
  BY ConcatProperties
<1>3. Len(a) \in Nat /\ Len(b) \in Nat /\ Len(c) \in Nat /\ Len(d) \in Nat /\ Len(b) = Len(d)
  BY <1>1, <1>2
<1>4. \A i \in 1..Len(a) : a[i] = c[i]
  BY <1>1, <1>2, <1>3
<1>5. \A i \in 1..Len(b) : b[i] = d[i]
  <2>1. SUFFICES ASSUME NEW i \in 1..Len(b)
                 PROVE  b[i] = d[i]
    OBVIOUS
  <2>2. /\ i + Len(a) \in 1..(Len(a) + Len(b)) /\ i + Len(a) \in 1..(Len(c) + Len(d))
        /\ ~(i + Len(a) <= Len(a)) /\ (i + Len(a)) - Len(a) = i
    BY <1>3
  <2>3. (a \o b)[i + Len(a)] = b[i] /\ (c \o d)[i + Len(a)] = d[i]
    BY <1>1, <1>2, <2>2
  <2> QED
    BY <2>3
<1> QED
  BY <1>3, <1>4, <1>5, SeqEqual

LEMMA Empty ==
    ASSUME NEW s \in Seq(Byte)
    PROVE  <<>> \in Seq(Byte) /\ <<>> \o s = s /\ s \o <<>> = s
BY ConcatEmptySeq

LEMMA Joined ==
    \A a, b \in Seq(Byte) : a \o b \in Seq(Byte) /\ Len(a \o b) = Len(a) + Len(b)
OBVIOUS

LEMMA Associative ==
    \A a, b, c \in Seq(Byte) : (a \o b) \o c = a \o (b \o c)
BY ConcatAssociative

-----------------------------------------------------------------------------
(* The frames of a stream.                                                 *)

Head4(m) == Word(1 + Len(m.payload))
Bytes(m) == <<m.type>> \o m.payload

LEMMA MessageBytes ==
    ASSUME FramingAssumption, NEW m \in Message
    PROVE  /\ m = [type |-> m.type, payload |-> m.payload]
           /\ m.type \in Byte /\ m.payload \in Seq(Byte)
           /\ Head4(m) \in [1..4 -> Byte] /\ Value(Head4(m)) = Len(Bytes(m))
           /\ Head4(m) \in Seq(Byte) /\ Len(Head4(m)) = 4
           /\ Bytes(m) \in Seq(Byte) /\ Len(Bytes(m)) \in Nat \ {0}
           /\ Bytes(m)[1] = m.type
           /\ SubSeq(Bytes(m), 2, Len(Bytes(m))) = m.payload
<1>1. /\ m = [type |-> m.type, payload |-> m.payload]
      /\ m.type \in Byte /\ m.payload \in Seq(Byte) /\ Len(m.payload) \in {0, 12}
  <2>1. CASE m = PongMessage
    BY <2>1 DEF PongMessage, PONG, Byte
  <2>2. ASSUME NEW h \in Host, NEW p \in Reports, m = ReportMessage(h, p)
        PROVE  /\ m = [type |-> m.type, payload |-> m.payload]
               /\ m.type \in Byte /\ m.payload \in Seq(Byte) /\ Len(m.payload) = 12
    <3>1. p \in Payload
      BY FramingAssumption DEF FramingAssumption
    <3>2. encodeResourceReport(h, p) \in Seq(Byte) /\ Len(encodeResourceReport(h, p)) = 12
      <4>1. Len(p.threads) = 4 /\ Len(Memory(h, p.ramBytes)) = 8
        BY <3>1, Encoded
      <4>2. encodeResourceReport(h, p) = Memory(h, p.ramBytes) \o p.threads
        BY <3>1, Encoded
      <4>3. p.threads \in Seq(Byte) /\ Memory(h, p.ramBytes) \in Seq(Byte)
        BY <3>1, Encoded
      <4>4. Len(Memory(h, p.ramBytes) \o p.threads) = 8 + 4
        BY <4>1, <4>3, Joined
      <4> QED
        BY <4>2, <4>3, <4>4, Joined
    <3> QED
      BY <2>2, <3>2 DEF ReportMessage, RESOURCE_REPORT, Byte
  <2> QED
    BY <2>1, <2>2 DEF Message
<1>2. <<m.type>> \in Seq(Byte) /\ Len(<<m.type>>) = 1 /\ <<m.type>>[1] = m.type
  BY <1>1
<1>3. /\ Bytes(m) \in Seq(Byte) /\ Len(Bytes(m)) = 1 + Len(m.payload)
      /\ Bytes(m)[1] = m.type
  BY <1>1, <1>2, ConcatProperties DEF Bytes
<1>4. SubSeq(Bytes(m), 2, Len(Bytes(m))) = m.payload
  <2>1. 1 \in 0..Len(Bytes(m))
    BY <1>1, <1>3
  <2> DEFINE a == SubSeq(Bytes(m), 1, 1)
             b == SubSeq(Bytes(m), 2, Len(Bytes(m)))
  <2>2. a \in Seq(Byte) /\ Len(a) = 1 /\ b \in Seq(Byte) /\ a \o b = Bytes(m)
    BY <1>3, <2>1, 1 + 1 = 2, Cut
  <2> HIDE DEF a, b
  <2>3. a \o b = <<m.type>> \o m.payload
    BY <2>2 DEF Bytes
  <2>4. b = m.payload
    BY <1>1, <1>2, <2>2, <2>3, Peel
  <2> QED
    BY <2>4 DEF b
<1>5. Head4(m) = <<0, 0, 0, 1 + Len(m.payload)>>
  <2>1. /\ 1 \div 16777216 = 0 /\ (1 \div 65536) % 256 = 0 /\ (1 \div 256) % 256 = 0 /\ 1 % 256 = 1
        /\ 13 \div 16777216 = 0 /\ (13 \div 65536) % 256 = 0 /\ (13 \div 256) % 256 = 0 /\ 13 % 256 = 13
    OBVIOUS
  <2>2. CASE Len(m.payload) = 0
    BY <2>1, <2>2 DEF Head4, Word
  <2>3. CASE Len(m.payload) = 12
    BY <2>1, <2>3 DEF Head4, Word
  <2> QED
    BY <1>1, <2>2, <2>3
<1>6. /\ Head4(m) \in [1..4 -> Byte] /\ Value(Head4(m)) = 1 + Len(m.payload)
      /\ Head4(m) \in Seq(Byte) /\ Len(Head4(m)) = 4
  <2> DEFINE k == 1 + Len(m.payload)
  <2>1. k \in Byte /\ 0 \in Byte
    <3>1. Len(m.payload) = 0 \/ Len(m.payload) = 12
      BY <1>1
    <3>2. CASE Len(m.payload) = 0
      BY <3>2 DEF Byte
    <3>3. CASE Len(m.payload) = 12
      BY <3>3 DEF Byte
    <3> QED
      BY <3>1, <3>2, <3>3
  <2> HIDE DEF k
  <2>2. Head4(m) = <<0, 0, 0, k>>
    BY <1>5 DEF k
  <2>3. Value(Head4(m)) = k
    BY <2>1, <2>2 DEF Value, Byte
  <2>4. <<0, 0, 0, k>> \in [1..4 -> Byte] /\ Len(<<0, 0, 0, k>>) = 4
    BY <2>1
  <2>5. Head4(m) \in Seq(Byte)
    BY <2>1, <2>2
  <2> QED
    BY <2>2, <2>3, <2>4, <2>5 DEF k
<1> QED
  BY <1>1, <1>3, <1>4, <1>6

\* S[i] is what comes after the first i messages of ms.
IsStream(S, ms) ==
    /\ S \in [0..Len(ms) -> Seq(Byte)]
    /\ S[Len(ms)] = <<>>
    /\ \A i \in 1..Len(ms) : S[i - 1] = Head4(ms[i]) \o (Bytes(ms[i]) \o S[i])

LEMMA FrameBytes ==
    ASSUME FramingAssumption, node \in Host, NEW m \in Message
    PROVE  Frame(m) = Head4(m) \o Bytes(m) /\ Frame(m) \in Seq(Byte)
<1>1. Memory(node, hostToNet32(node, Head4(m))) = Head4(m)
  BY MessageBytes, LoadMemory DEF hostToNet32
<1>2. Frame(m) = Head4(m) \o <<m.type>> \o m.payload
  BY <1>1 DEF Frame, Head4
<1>3. /\ Head4(m) \in Seq(Byte) /\ <<m.type>> \in Seq(Byte) /\ m.payload \in Seq(Byte)
      /\ Bytes(m) \in Seq(Byte)
  BY MessageBytes
<1>4. (Head4(m) \o <<m.type>>) \o m.payload = Head4(m) \o (<<m.type>> \o m.payload)
  BY <1>3, Associative, ZenonT(40)
<1> QED
  BY <1>2, <1>3, <1>4, Joined DEF Bytes

\* T is S with the frame f of m behind it.
Grows(T, S, ms, m, f) ==
    /\ IsStream(T, Append(ms, m))
    /\ \A i \in 0..Len(ms) : T[i] = S[i] \o f

LEMMA StreamGrows ==
    ASSUME FramingAssumption, NEW ms \in Seq(Message), NEW S, IsStream(S, ms),
           NEW m \in Message, NEW f, f = Head4(m) \o Bytes(m)
    PROVE  \E T : Grows(T, S, ms, m, f)
<1> DEFINE T == [i \in 0..(Len(ms) + 1) |-> IF i <= Len(ms) THEN S[i] \o f ELSE <<>>]
           n == Len(ms)
           ns == Append(ms, m)
<1>1. n \in Nat /\ Len(ns) = n + 1 /\ ns[n + 1] = m /\ \A i \in 1..n : ns[i] = ms[i] /\ ms[i] \in Message
  OBVIOUS
<1>2. Head4(m) \in Seq(Byte) /\ Bytes(m) \in Seq(Byte) /\ f \in Seq(Byte)
  BY MessageBytes, Joined
<1>3. /\ S \in [0..n -> Seq(Byte)] /\ S[n] = <<>>
      /\ \A i \in 1..n : S[i - 1] = Head4(ms[i]) \o (Bytes(ms[i]) \o S[i])
  BY DEF IsStream
<1>4. \A i \in 0..n : T[i] = S[i] \o f /\ T[i] \in Seq(Byte)
  <2>1. \A i \in 0..n : S[i] \o f \in Seq(Byte)
    BY <1>2, <1>3, Joined
  <2>2. \A i \in 0..n : i \in 0..(n + 1) /\ i <= n
    BY <1>1
  <2> QED
    BY <2>1, <2>2
<1>5. T[n + 1] = <<>>
  BY <1>1
<1>6. T \in [0..(n + 1) -> Seq(Byte)]
  <2>1. \A i \in 0..(n + 1) : T[i] \in Seq(Byte)
    <3>1. \A i \in 0..(n + 1) : i \in 0..n \/ i = n + 1
      BY <1>1
    <3>2. <<>> \in Seq(Byte)
      OBVIOUS
    <3> QED
      BY <1>4, <1>5, <3>1, <3>2
  <2> QED
    BY <2>1
<1>7. ASSUME NEW i \in 1..n
      PROVE  T[i - 1] = Head4(ns[i]) \o (Bytes(ns[i]) \o T[i])
  <2>1. i \in 0..n /\ i - 1 \in 0..n /\ ns[i] = ms[i] /\ ms[i] \in Message
    BY <1>1
  <2>2. T[i - 1] = S[i - 1] \o f /\ T[i] = S[i] \o f /\ S[i] \in Seq(Byte)
    BY <1>3, <1>4, <2>1
  <2>3. Head4(ms[i]) \in Seq(Byte) /\ Bytes(ms[i]) \in Seq(Byte)
    BY <2>1, MessageBytes
  <2> HIDE DEF T
  <2>4. S[i] \in Seq(Byte) /\ f \in Seq(Byte)
    BY <1>2, <2>2
  <2>5. PICK head \in Seq(Byte), body \in Seq(Byte), rest \in Seq(Byte) :
            head = Head4(ms[i]) /\ body = Bytes(ms[i]) /\ rest = S[i]
    BY <2>3, <2>4
  <2>6. PICK g \in Seq(Byte) : g = f
    BY <2>4
  <2>7. (head \o (body \o rest)) \o g = head \o (body \o (rest \o g))
    <3>1. body \o rest \in Seq(Byte)
      BY Joined
    <3>2. (head \o (body \o rest)) \o g = head \o ((body \o rest) \o g)
      BY <3>1, Associative, ZenonT(40)
    <3>3. (body \o rest) \o g = body \o (rest \o g)
      BY Associative, ZenonT(40)
    <3> QED
      BY <3>2, <3>3, Zenon
  <2> QED
    BY <1>3, <2>1, <2>2, <2>5, <2>6, <2>7
<1>8. T[(n + 1) - 1] = Head4(ns[n + 1]) \o (Bytes(ns[n + 1]) \o T[n + 1])
  <2>1. n \in 0..n /\ (n + 1) - 1 = n
    BY <1>1
  <2>2. T[n] = <<>> \o f
    BY <1>3, <1>4, <2>1
  <2>3. <<>> \o f = f /\ Bytes(m) \o <<>> = Bytes(m)
    BY <1>2, Empty
  <2> QED
    BY <1>1, <1>5, <2>1, <2>2, <2>3
<1> HIDE DEF T
<1>9. \A i \in 1..(n + 1) : T[i - 1] = Head4(ns[i]) \o (Bytes(ns[i]) \o T[i])
  <2>1. \A i \in 1..(n + 1) : i \in 1..n \/ i = n + 1
    BY <1>1
  <2> QED
    BY <1>7, <1>8, <2>1
<1>10. IsStream(T, ns)
  BY <1>1, <1>5, <1>6, <1>9 DEF IsStream
<1>11. \A i \in 0..n : T[i] = S[i] \o f
  BY <1>4 DEF T
<1> QED
  BY <1>10, <1>11 DEF Grows

-----------------------------------------------------------------------------
(* The invariant: what the node sends is the stream of its messages, and   *)
(* what is under way is the rest of that stream.  `tail` is what has yet   *)
(* to be put on the wire; once the node has ended, what is lost.           *)

Current == accepted[Len(delivered) + 1]

Whole(S, tail) ==
    /\ IsStream(S, accepted)
    /\ nodeUp => tail = out
    /\ reading = "header" =>
         /\ want = 4
         /\ got \o (wire \o tail) = S[Len(delivered)]
    /\ reading = "body" =>
         /\ Len(delivered) < Len(accepted)
         /\ want = Len(Bytes(Current))
         /\ got \o (wire \o tail) = Bytes(Current) \o S[Len(delivered) + 1]

Ours(ms) == \A i \in 1..Len(ms) : ms[i] \in {ReportMessage(node, report), PongMessage}

IInv ==
    /\ TypeOK
    /\ Ours(accepted) /\ Ours(delivered)
    /\ Len(delivered) <= Len(accepted)
    /\ reading # "ended" => masterUp
    /\ \E S : \E tail \in Seq(Byte) : Whole(S, tail)

LEMMA OursTyped ==
    ASSUME TypeOK, NEW m \in {ReportMessage(node, report), PongMessage}
    PROVE  m \in Message
BY DEF TypeOK, Message

LEMMA InitIInv ==
    ASSUME FramingAssumption, Init
    PROVE  IInv
<1>1. TypeOK
  BY DEF FramingAssumption, Init, TypeOK
<1>2. /\ accepted = <<>> /\ delivered = <<>> /\ got = <<>> /\ wire = <<>> /\ out = <<>>
      /\ reading = "header" /\ want = 4 /\ masterUp
  BY DEF Init
<1> DEFINE S == [i \in 0..0 |-> <<>>]
<1>3. IsStream(S, accepted)
  BY <1>2 DEF IsStream
<1>4. <<>> \in Seq(Byte) /\ <<>> \o (<<>> \o <<>>) = <<>>
  BY Empty
<1>5. Whole(S, <<>>)
  BY <1>2, <1>3, <1>4 DEF Whole
<1>6. Ours(accepted) /\ Ours(delivered) /\ Len(delivered) <= Len(accepted)
  BY <1>2 DEF Ours
<1> HIDE DEF S
<1> QED
  BY <1>1, <1>2, <1>4, <1>5, <1>6 DEF IInv

LEMMA SendMessageIInv ==
    ASSUME FramingAssumption, IInv,
           NEW m \in {ReportMessage(node, report), PongMessage}, SendMessage(m)
    PROVE  IInv' /\ m \in Message
<1> USE FramingAssumption
<1>1. TypeOK /\ m \in Message
  BY OursTyped DEF IInv
<1>2. /\ nodeUp /\ out = <<>> /\ out' = Frame(m) /\ accepted' = Append(accepted, m)
      /\ UNCHANGED <<hostVars, nodeUp, recvVars, wire>>
  BY DEF SendMessage
<1>3. /\ accepted \in Seq(Message) /\ accepted' \in Seq(Message)
      /\ Len(accepted) \in Nat /\ Len(accepted') = Len(accepted) + 1
      /\ \A i \in 1..Len(accepted) : accepted'[i] = accepted[i]
      /\ accepted'[Len(accepted) + 1] = m
      /\ Len(delivered) \in Nat /\ Len(delivered) <= Len(accepted)
  BY <1>1, <1>2 DEF TypeOK, IInv
<1>4. PICK f \in Seq(Byte) : f = Frame(m) /\ f = Head4(m) \o Bytes(m)
  BY <1>1, FrameBytes DEF TypeOK
<1>5. TypeOK'
  BY <1>1, <1>2, <1>3, <1>4 DEF TypeOK, hostVars, recvVars
<1>6. PICK S : \E tail \in Seq(Byte) : Whole(S, tail)
  BY DEF IInv
<1>7. IsStream(S, accepted) /\ Whole(S, <<>>)
  BY <1>2, <1>6 DEF Whole
<1>8. PICK T : IsStream(T, accepted') /\ \A i \in 0..Len(accepted) : T[i] = S[i] \o f
  <2>1. PICK ms \in Seq(Message) : ms = accepted
    BY <1>3
  <2>2. IsStream(S, ms) /\ m \in Message
    BY <1>1, <1>7, <2>1
  <2>3. f = Head4(m) \o Bytes(m)
    BY <1>4
  <2>4. \E T : Grows(T, S, ms, m, f)
    BY <2>2, <2>3, StreamGrows
  <2> QED
    BY <1>2, <2>1, <2>4 DEF Grows
<1>9. Whole(T, f)'
  <2>1. /\ got \in Seq(Byte) /\ wire \in Seq(Byte) /\ <<>> \in Seq(Byte)
        /\ wire \o <<>> = wire /\ got \o wire \in Seq(Byte)
    BY <1>1, Empty, Joined DEF TypeOK
  <2>2. got \o (wire \o f) = (got \o wire) \o f
    BY <1>4, <2>1, Associative, ZenonT(40)
  <2>3. /\ got' = got /\ wire' = wire /\ delivered' = delivered /\ reading' = reading
        /\ want' = want /\ out' = f
    BY <1>2, <1>4 DEF recvVars
  <2>4. CASE reading = "header"
    <3>1. want = 4 /\ got \o wire = S[Len(delivered)]
      BY <1>7, <2>1, <2>4 DEF Whole
    <3>2. T[Len(delivered)] = S[Len(delivered)] \o f
      BY <1>3, <1>8
    <3>3. got' \o (wire' \o f) = T[Len(delivered)]
      BY <2>2, <2>3, <3>1, <3>2
    <3> QED
      BY <1>8, <2>3, <2>4, <3>1, <3>3 DEF Whole
  <2>5. CASE reading = "body"
    <3> DEFINE body == Bytes(Current)
               rest == S[Len(delivered) + 1]
    <3>1. Len(delivered) < Len(accepted) /\ want = Len(body) /\ got \o wire = body \o rest
      BY <1>7, <2>1, <2>5 DEF Whole
    <3>2. Len(delivered) + 1 \in 1..Len(accepted) /\ Len(delivered) + 1 \in 0..Len(accepted)
      BY <1>3, <3>1
    <3>3. Current' = Current /\ Current \in Message
      BY <1>3, <2>3, <3>2 DEF Current
    <3>4. T[Len(delivered) + 1] = rest \o f
      BY <1>8, <3>2
    <3>5. body \in Seq(Byte) /\ rest \in Seq(Byte)
      BY <1>7, <3>2, <3>3, MessageBytes DEF IsStream
    <3> HIDE DEF body, rest
    <3>6. (body \o rest) \o f = body \o (rest \o f)
      BY <1>4, <3>5, Associative, ZenonT(40)
    <3>7. got' \o (wire' \o f) = body \o T[Len(delivered) + 1]
      BY <2>2, <2>3, <3>1, <3>4, <3>6
    <3>8. Len(delivered') < Len(accepted') /\ want' = Len(Bytes(Current)')
      BY <1>3, <2>3, <3>1, <3>3 DEF body
    <3> QED
      BY <1>8, <2>3, <2>5, <3>3, <3>7, <3>8 DEF Whole, body
  <2>6. CASE reading = "ended"
    BY <1>8, <2>3, <2>6 DEF Whole
  <2> QED
    BY <1>1, <2>4, <2>5, <2>6 DEF TypeOK
<1>10. (\E S1 : \E tail \in Seq(Byte) : Whole(S1, tail))'
  BY <1>4, <1>9
<1>11. Ours(accepted)' /\ Ours(delivered)' /\ (Len(delivered) <= Len(accepted))'
  <2>1. Ours(accepted) /\ Ours(delivered) /\ Len(delivered) <= Len(accepted)
    BY DEF IInv
  <2>2. PongMessage' = PongMessage /\ ReportMessage(node, report)' = ReportMessage(node, report)
    BY <1>2 DEF hostVars, PongMessage, ReportMessage
  <2>3. \A i \in 1..(Len(accepted) + 1) : i \in 1..Len(accepted) \/ i = Len(accepted) + 1
    BY <1>3
  <2>4. delivered' = delivered
    BY <1>2 DEF recvVars
  <2> QED
    BY <1>3, <2>1, <2>2, <2>3, <2>4 DEF Ours
<1>12. (reading # "ended" => masterUp)'
  BY <1>2 DEF IInv, recvVars
<1> QED
  BY <1>1, <1>5, <1>10, <1>11, <1>12 DEF IInv

\* What only moves bytes along leaves the invariant as it was.
LEMMA Moved ==
    ASSUME IInv, TypeOK', UNCHANGED <<hostVars, want, reading, masterUp, accepted, delivered>>,
           NEW S, NEW tail \in Seq(Byte), NEW rest \in Seq(Byte), Whole(S, tail),
           nodeUp' => rest = out',
           got' \o (wire' \o rest) = got \o (wire \o tail)
    PROVE  IInv'
<1>1. IsStream(S, accepted)' /\ Current' = Current
  BY DEF Whole, Current
<1>2. ASSUME reading' = "header"
      PROVE  want' = 4 /\ got' \o (wire' \o rest) = S[Len(delivered')]
  BY <1>2 DEF Whole
<1>3. ASSUME reading' = "body"
      PROVE  /\ Len(delivered') < Len(accepted') /\ want' = Len(Bytes(Current)')
             /\ got' \o (wire' \o rest) = Bytes(Current)' \o S[Len(delivered') + 1]
  BY <1>1, <1>3 DEF Whole
<1>4. Whole(S, rest)'
  BY <1>1, <1>2, <1>3 DEF Whole
<1>5. Ours(accepted)' /\ Ours(delivered)'
  <2>1. PongMessage' = PongMessage /\ ReportMessage(node, report)' = ReportMessage(node, report)
    BY DEF hostVars, PongMessage, ReportMessage
  <2> QED
    BY <2>1 DEF Ours, IInv
<1>6. (\E T : \E t \in Seq(Byte) : Whole(T, t))'
  BY <1>4
<1> QED
  BY <1>5, <1>6 DEF IInv

LEMMA SendSomeIInv ==
    ASSUME IInv, NEW n \in 1..Buffer, SendSome(n)
    PROVE  IInv'
<1>1. TypeOK /\ out \in Seq(Byte) /\ wire \in Seq(Byte) /\ n \in 0..Len(out) /\ nodeUp
  BY DEF IInv, TypeOK, SendSome, Taken
<1>2. PICK S : \E tail \in Seq(Byte) : Whole(S, tail)
  BY DEF IInv
<1>3. Whole(S, out)
  BY <1>1, <1>2 DEF Whole
<1>4. PICK a \in Seq(Byte), b \in Seq(Byte) : IsCut(out, n, a, b)
  BY <1>1, InTwo
<1>5. wire' = wire \o a /\ out' = b /\ Len(wire) + n <= Buffer
      /\ UNCHANGED <<hostVars, nodeUp, accepted, recvVars>>
  BY <1>4 DEF SendSome, Taken, IsCut
<1>6. wire' \o b = wire \o out
  <2>1. (wire \o a) \o b = wire \o (a \o b)
    BY <1>1, Associative, ZenonT(40)
  <2> QED
    BY <1>4, <1>5, <2>1 DEF IsCut
<1>7. TypeOK'
  <2>1. wire' \in Seq(Byte) /\ Len(wire') <= Buffer
    BY <1>1, <1>4, <1>5, Joined DEF IsCut
  <2> QED
    BY <1>1, <1>5, <2>1 DEF TypeOK, hostVars, recvVars
<1>8. got' \o (wire' \o b) = got \o (wire \o out)
  BY <1>5, <1>6 DEF recvVars
<1>9. PICK o \in Seq(Byte) : o = out
  BY <1>1
<1> QED
  BY <1>3, <1>5, <1>7, <1>8, <1>9, Moved DEF recvVars

LEMMA RecvSomeIInv ==
    ASSUME IInv, NEW n \in 1..Buffer, RecvSome(n)
    PROVE  IInv'
<1>1. /\ TypeOK /\ got \in Seq(Byte) /\ wire \in Seq(Byte) /\ n \in 0..Len(wire)
      /\ n <= want - Len(got)
  BY DEF IInv, TypeOK, RecvSome
<1>2. PICK S : \E tail \in Seq(Byte) : Whole(S, tail)
  BY DEF IInv
<1>3. PICK tail \in Seq(Byte) : Whole(S, tail)
  BY <1>2
<1>4. PICK a \in Seq(Byte), b \in Seq(Byte) : IsCut(wire, n, a, b)
  BY <1>1, InTwo
<1>5. got' = got \o a /\ wire' = b /\ UNCHANGED <<hostVars, sendVars, want, reading, masterUp, delivered>>
  BY <1>4 DEF RecvSome, IsCut
<1>6. got' \o (wire' \o tail) = got \o (wire \o tail)
  <2>1. PICK r \in Seq(Byte) : r = b \o tail
    BY Joined
  <2>2. PICK g \in Seq(Byte) : g = got
    BY <1>1
  <2>3. (g \o a) \o r = g \o (a \o r)
    BY Associative, ZenonT(40)
  <2>4. (a \o b) \o tail = a \o (b \o tail)
    BY Associative, ZenonT(40)
  <2> QED
    BY <1>4, <1>5, <2>1, <2>2, <2>3, <2>4 DEF IsCut
<1>7. TypeOK'
  <2>1. got' \in Seq(Byte) /\ Len(got') = Len(got) + n
    BY <1>1, <1>4, <1>5, Joined DEF IsCut
  <2>2. Len(got') <= want /\ Len(wire') <= Buffer
    BY <1>1, <1>4, <1>5, <2>1, FramingAssumption DEF TypeOK, FramingAssumption, IsCut
  <2> QED
    BY <1>1, <1>5, <2>1, <2>2 DEF TypeOK, hostVars, sendVars
<1>8. nodeUp' => tail = out'
  BY <1>3, <1>5 DEF Whole, sendVars
<1> QED
  BY <1>3, <1>5, <1>6, <1>7, <1>8, Moved DEF sendVars

LEMMA NodeEndsIInv ==
    ASSUME IInv, NodeEnds
    PROVE  IInv'
<1>1. TypeOK /\ wire \in Seq(Byte)
  BY DEF IInv, TypeOK
<1>2. PICK S : \E tail \in Seq(Byte) : Whole(S, tail)
  BY DEF IInv
<1>3. PICK tail \in Seq(Byte) : Whole(S, tail)
  BY <1>2
<1>4. PICK n \in 0..Len(wire) : wire' = SubSeq(wire, 1, n)
  BY DEF NodeEnds
<1>5. PICK a \in Seq(Byte), b \in Seq(Byte) : IsCut(wire, n, a, b)
  BY <1>1, InTwo
<1>6. /\ wire' = a /\ out' = <<>> /\ nodeUp' = FALSE
      /\ UNCHANGED <<hostVars, accepted, recvVars>>
  BY <1>4, <1>5 DEF NodeEnds, IsCut
<1>7. PICK rest \in Seq(Byte) : rest = b \o tail
  BY Joined
<1>8. got' \o (wire' \o rest) = got \o (wire \o tail)
  <2>1. (a \o b) \o tail = a \o (b \o tail)
    BY Associative, ZenonT(40)
  <2> QED
    BY <1>5, <1>6, <1>7, <2>1 DEF recvVars, IsCut
<1>9. TypeOK'
  <2>1. Len(wire') <= Buffer
    <3>1. Len(a) = n /\ Len(wire) \in Nat /\ Len(wire) <= Buffer /\ Buffer \in Nat
      BY <1>1, <1>5, FramingAssumption DEF TypeOK, FramingAssumption, IsCut
    <3> QED
      BY <1>6, <3>1
  <2>2. wire' \in Seq(Byte) /\ out' \in Seq(Byte) /\ nodeUp' \in BOOLEAN
    <3>1. <<>> \in Seq(Byte) /\ FALSE \in BOOLEAN
      OBVIOUS
    <3> QED
      BY <1>6, <3>1
  <2>3. /\ node' = node /\ master' = master /\ report' = report /\ accepted' = accepted
        /\ got' = got /\ want' = want /\ reading' = reading /\ masterUp' = masterUp
        /\ delivered' = delivered
    BY <1>6 DEF hostVars, recvVars
  <2> QED
    BY <1>1, <2>1, <2>2, <2>3 DEF TypeOK
<1> QED
  BY <1>3, <1>6, <1>8, <1>9, Moved DEF recvVars

LEMMA HeaderIInv ==
    ASSUME FramingAssumption, IInv, Header
    PROVE  IInv'
<1>1. /\ TypeOK /\ got \in Seq(Byte) /\ wire \in Seq(Byte) /\ master \in Host
      /\ accepted \in Seq(Message) /\ Len(accepted) \in Nat /\ Len(delivered) \in Nat
      /\ Len(delivered) <= Len(accepted) /\ masterUp
      /\ reading = "header" /\ Len(got) = want
      /\ UNCHANGED <<hostVars, sendVars, masterUp, delivered, wire>>
  BY DEF IInv, TypeOK, Header
<1>2. PICK S : \E tail \in Seq(Byte) : Whole(S, tail)
  BY DEF IInv
<1>3. PICK tail \in Seq(Byte) : Whole(S, tail)
  BY <1>2
<1>4. /\ IsStream(S, accepted) /\ want = 4 /\ Len(got) = 4
      /\ got \o (wire \o tail) = S[Len(delivered)]
  BY <1>1, <1>3 DEF Whole
<1>5. PICK r \in Seq(Byte) : r = wire \o tail
  BY <1>1, Joined
<1>6. Len(delivered) < Len(accepted)
  <2>1. SUFFICES ASSUME Len(delivered) = Len(accepted)
                 PROVE  FALSE
    BY <1>1
  <2>2. got \o r = <<>>
    BY <1>4, <1>5, <2>1 DEF IsStream
  <2>3. Len(got \o r) = 4 + Len(r) /\ Len(r) \in Nat
    <3>1. PICK g \in Seq(Byte) : g = got
      BY <1>1
    <3>2. Len(g \o r) = Len(g) + Len(r) /\ Len(r) \in Nat
      BY Joined
    <3> QED
      BY <1>4, <3>1, <3>2
  <2>4. Len(<<>>) = 0 /\ 4 + Len(r) # 0
    BY <2>3
  <2> QED
    BY <2>2, <2>3, <2>4
<1>7. Current \in Message /\ Len(delivered) + 1 \in 1..Len(accepted)
  BY <1>1, <1>6 DEF Current
<1>8. PICK head \in Seq(Byte), body \in Seq(Byte), rest \in Seq(Byte) :
          /\ head = Head4(Current) /\ body = Bytes(Current) /\ rest = S[Len(delivered) + 1]
  BY <1>4, <1>7, MessageBytes, SMTT(30) DEF IsStream
<1>9. got = head /\ r = body \o rest
  <2>1. S[(Len(delivered) + 1) - 1] = head \o (body \o rest)
    BY <1>4, <1>7, <1>8 DEF IsStream, Current
  <2>2. (Len(delivered) + 1) - 1 = Len(delivered)
    BY <1>1
  <2>3. got \o r = head \o (body \o rest)
    BY <1>4, <1>5, <2>1, <2>2
  <2>4. PICK c \in Seq(Byte) : c = body \o rest
    BY Joined
  <2>5. Len(head) = Len(got)
    BY <1>4, <1>7, <1>8, MessageBytes
  <2>6. got \o r = head \o c
    BY <2>3, <2>4
  <2>7. got = head /\ r = c
    BY <1>1, <2>5, <2>6, Peel
  <2> QED
    BY <2>4, <2>7
<1>10. Value(netToHost32(master, Load(master, got))) = Len(body) /\ Len(body) \in Nat \ {0}
  <2>1. head \in [1..4 -> Byte] /\ Value(head) = Len(body) /\ Len(body) \in Nat \ {0}
    BY <1>7, <1>8, MessageBytes
  <2>2. Memory(master, Load(master, head)) = head
    BY <1>1, <2>1, LoadMemory
  <2> QED
    BY <1>9, <2>1, <2>2 DEF netToHost32
<1>11. reading' = "body" /\ want' = Len(body) /\ got' = <<>>
  BY <1>10 DEF Header, Ask
<1>12. got' \o (wire' \o tail) = body \o rest
  <2>1. <<>> \o r = r
    BY Empty
  <2> QED
    BY <1>1, <1>5, <1>9, <1>11, <2>1
<1>13. Current' = Current
  BY <1>1 DEF Current, sendVars
<1>14. Whole(S, tail)'
  BY <1>1, <1>3, <1>4, <1>6, <1>8, <1>11, <1>12, <1>13 DEF Whole, sendVars
<1>15. TypeOK'
  <2>1. got' \in Seq(Byte) /\ want' \in Nat /\ Len(got') <= want' /\ reading' \in {"header", "body", "ended"}
    BY <1>10, <1>11
  <2> QED
    BY <1>1, <2>1 DEF TypeOK, hostVars, sendVars
<1>16. (\E T : \E t \in Seq(Byte) : Whole(T, t))'
  BY <1>14
<1>17. Ours(accepted)' /\ Ours(delivered)'
  <2>1. PongMessage' = PongMessage /\ ReportMessage(node, report)' = ReportMessage(node, report)
    BY <1>1 DEF hostVars, PongMessage, ReportMessage
  <2> QED
    BY <1>1, <2>1 DEF Ours, IInv, sendVars
<1> QED
  BY <1>1, <1>15, <1>16, <1>17 DEF IInv, sendVars

LEMMA BodyIInv ==
    ASSUME FramingAssumption, IInv, Body
    PROVE  /\ IInv'
           /\ Len(delivered) < Len(accepted) /\ delivered' = Append(delivered, Current)
<1>1. /\ TypeOK /\ got \in Seq(Byte) /\ wire \in Seq(Byte)
      /\ accepted \in Seq(Message) /\ Len(accepted) \in Nat
      /\ delivered \in Seq(Message) /\ Len(delivered) \in Nat
      /\ Len(delivered) <= Len(accepted) /\ masterUp
      /\ reading = "body" /\ Len(got) = want
      /\ reading' = "header" /\ want' = 4 /\ got' = <<>>
      /\ UNCHANGED <<hostVars, sendVars, masterUp, wire>>
  BY DEF IInv, TypeOK, Body, Ask
<1>2. PICK S : \E tail \in Seq(Byte) : Whole(S, tail)
  BY DEF IInv
<1>3. PICK tail \in Seq(Byte) : Whole(S, tail)
  BY <1>2
<1>4. /\ IsStream(S, accepted) /\ Len(delivered) < Len(accepted)
      /\ want = Len(Bytes(Current))
      /\ got \o (wire \o tail) = Bytes(Current) \o S[Len(delivered) + 1]
  BY <1>1, <1>3 DEF Whole
<1>5. /\ Current \in Message /\ Len(delivered) + 1 \in 1..Len(accepted)
      /\ Len(delivered) + 1 \in 0..Len(accepted)
  BY <1>1, <1>4 DEF Current
<1>6. PICK r \in Seq(Byte) : r = wire \o tail
  BY <1>1, Joined
<1>7. PICK body \in Seq(Byte), rest \in Seq(Byte) :
          body = Bytes(Current) /\ rest = S[Len(delivered) + 1]
  BY <1>4, <1>5, MessageBytes DEF IsStream
<1>8. got = body /\ r = rest
  <2>1. got \o r = body \o rest /\ Len(got) = Len(body)
    BY <1>1, <1>4, <1>6, <1>7
  <2> QED
    BY <1>1, <2>1, Peel
<1>9. delivered' = Append(delivered, Current)
  <2>1. /\ Current = [type |-> Current.type, payload |-> Current.payload]
        /\ Bytes(Current)[1] = Current.type
        /\ SubSeq(Bytes(Current), 2, Len(Bytes(Current))) = Current.payload
    BY <1>5, MessageBytes
  <2>2. Current = [type |-> got[1], payload |-> SubSeq(got, 2, Len(got))]
    BY <1>7, <1>8, <2>1
  <2> QED
    BY <2>2 DEF Body
<1>10. /\ delivered' \in Seq(Message) /\ Len(delivered') = Len(delivered) + 1
       /\ \A i \in 1..Len(delivered) : delivered'[i] = delivered[i]
       /\ delivered'[Len(delivered) + 1] = Current
  BY <1>1, <1>5, <1>9
<1>11. got' \o (wire' \o tail) = rest
  <2>1. <<>> \o r = r
    BY Empty
  <2> QED
    BY <1>1, <1>6, <1>8, <2>1
<1>12. Whole(S, tail)'
  BY <1>1, <1>3, <1>4, <1>7, <1>10, <1>11 DEF Whole, sendVars
<1>13. TypeOK'
  <2>1. got' \in Seq(Byte) /\ want' \in Nat /\ Len(got') <= want' /\ reading' \in {"header", "body", "ended"}
    BY <1>1
  <2> QED
    BY <1>1, <1>10, <2>1 DEF TypeOK, hostVars, sendVars
<1>14. Ours(accepted)' /\ Ours(delivered)'
  <2>1. PongMessage' = PongMessage /\ ReportMessage(node, report)' = ReportMessage(node, report)
    BY <1>1 DEF hostVars, PongMessage, ReportMessage
  <2>2. Ours(accepted) /\ Ours(delivered)
    BY DEF IInv
  <2>3. Current \in {ReportMessage(node, report), PongMessage}
    BY <1>5, <2>2 DEF Ours, Current
  <2>4. \A i \in 1..(Len(delivered) + 1) : i \in 1..Len(delivered) \/ i = Len(delivered) + 1
    BY <1>1
  <2> QED
    BY <1>1, <1>10, <2>1, <2>2, <2>3, <2>4 DEF Ours, sendVars
<1>15. (\E T : \E t \in Seq(Byte) : Whole(T, t))'
  BY <1>12
<1>16. (Len(delivered) <= Len(accepted))'
  BY <1>1, <1>4, <1>10 DEF sendVars
<1> QED
  BY <1>1, <1>4, <1>9, <1>13, <1>14, <1>15, <1>16 DEF IInv

\* A receiver that gives up waits for nothing more.
LEMMA EndedIInv ==
    ASSUME IInv, RecvFails \/ MasterEnds
    PROVE  IInv'
<1>1. TypeOK
  BY DEF IInv
<1>2. /\ reading' = "ended" /\ want' = 0 /\ got' = <<>>
      /\ masterUp' \in BOOLEAN /\ (wire' = wire \/ wire' = <<>>)
      /\ UNCHANGED <<hostVars, sendVars, delivered>>
  BY <1>1 DEF RecvFails, MasterEnds, Ask, TypeOK
<1>3. PICK S : \E tail \in Seq(Byte) : Whole(S, tail)
  BY DEF IInv
<1>4. PICK tail \in Seq(Byte) : Whole(S, tail)
  BY <1>3
<1>5. Whole(S, tail)'
  BY <1>2, <1>4 DEF Whole, sendVars
<1>6. TypeOK'
  <2>1. wire' \in Seq(Byte) /\ Len(wire') <= Buffer
    <3>1. CASE wire' = wire
      BY <1>1, <3>1 DEF TypeOK
    <3>2. CASE wire' = <<>>
      BY <3>2, FramingAssumption DEF FramingAssumption
    <3> QED
      BY <1>2, <3>1, <3>2
  <2>2. got' \in Seq(Byte) /\ want' \in Nat /\ Len(got') <= want'
    BY <1>2
  <2> QED
    BY <1>1, <1>2, <2>1, <2>2 DEF TypeOK, hostVars, sendVars
<1>7. (\E T : \E t \in Seq(Byte) : Whole(T, t))'
  BY <1>5
<1>8. Ours(accepted)' /\ Ours(delivered)' /\ (Len(delivered) <= Len(accepted))'
  <2>1. PongMessage' = PongMessage /\ ReportMessage(node, report)' = ReportMessage(node, report)
    BY <1>2 DEF hostVars, PongMessage, ReportMessage
  <2> QED
    BY <1>2, <2>1 DEF Ours, IInv, sendVars
<1> QED
  BY <1>2, <1>6, <1>7, <1>8 DEF IInv

\* Nor does a step in which nothing moves.
LEMMA StutterIInv ==
    ASSUME IInv, UNCHANGED vars
    PROVE  IInv'
<1>1. PICK S : \E tail \in Seq(Byte) : Whole(S, tail)
  BY DEF IInv
<1>2. PICK tail \in Seq(Byte) : Whole(S, tail)
  BY <1>1
<1>3. TypeOK' /\ (nodeUp' => tail = out') /\ got' \o (wire' \o tail) = got \o (wire \o tail)
  BY <1>2 DEF IInv, TypeOK, Whole, vars, hostVars, sendVars, recvVars
<1>4. UNCHANGED <<hostVars, want, reading, masterUp, accepted, delivered>>
  BY DEF vars, hostVars, sendVars, recvVars
<1> QED
  BY <1>2, <1>3, <1>4, Moved

LEMMA NextIInv ==
    ASSUME FramingAssumption, IInv, [Next]_vars
    PROVE  IInv'
<1>1. CASE SendReport
  BY <1>1, SendMessageIInv DEF SendReport
<1>2. CASE SendPong
  BY <1>2, SendMessageIInv DEF SendPong
<1>3. ASSUME NEW n \in 1..Buffer, SendSome(n)
      PROVE  IInv'
  BY <1>3, SendSomeIInv
<1>4. ASSUME NEW n \in 1..Buffer, RecvSome(n)
      PROVE  IInv'
  BY <1>4, RecvSomeIInv
<1>5. CASE Header
  BY <1>5, HeaderIInv
<1>6. CASE Body
  BY <1>6, BodyIInv
<1>7. CASE RecvFails \/ MasterEnds
  BY <1>7, EndedIInv
<1>8. CASE NodeEnds
  BY <1>8, NodeEndsIInv
<1>9. CASE Quiet \/ UNCHANGED vars
  BY <1>9, StutterIInv DEF Quiet
<1> QED
  BY <1>1, <1>2, <1>3, <1>4, <1>5, <1>6, <1>7, <1>8, <1>9 DEF Next, NodeStep, MasterStep

\* Bytes under way are always the rest of the frames that were sent.
THEOREM FramingTypeCorrect == SafetySpec => []TypeOK
<1>1. Init => IInv
  BY FramingAssumption, InitIInv
<1>2. IInv /\ [Next]_vars => IInv'
  BY FramingAssumption, NextIInv
<1>3. IInv => TypeOK
  BY DEF IInv
<1> QED
  BY <1>1, <1>2, <1>3, PTL DEF SafetySpec

\* Connection.hpp: whatever pieces the stream is cut into, and whenever either
\* end goes, what recvMessage returns are the messages that were sent, whole,
\* once each and in their order.
THEOREM FramingImplementsChannel == SafetySpec => Channel!ChannelSafety
<1>1. Init => IInv
  BY FramingAssumption, InitIInv
<1>2. IInv /\ [Next]_vars => IInv'
  BY FramingAssumption, NextIInv
<1>3. Init => Channel!ChannelInit
  BY DEF Init, Channel!ChannelInit
<1>4. IInv /\ [Next]_vars => [Channel!ChannelNext]_(Channel!channelVars)
  <2> SUFFICES ASSUME IInv, [Next]_vars
               PROVE  \/ Channel!ChannelNext
                      \/ UNCHANGED <<accepted, delivered, ~nodeUp \/ ~masterUp>>
    BY DEF Channel!channelVars
  <2> USE FramingAssumption
  <2>1. ASSUME NEW m \in {ReportMessage(node, report), PongMessage}, SendMessage(m)
        PROVE  Channel!ChannelNext
    <3>1. m \in Message
      BY <2>1, SendMessageIInv
    <3>2. Channel!Accept(m)
      BY <2>1 DEF SendMessage, recvVars, Channel!Accept
    <3> QED
      BY <3>1, <3>2 DEF Channel!ChannelNext
  <2>2. CASE Body
    <3>1. Channel!Deliver
      BY <2>2, BodyIInv DEF Body, sendVars, Current, Channel!Deliver
    <3> QED
      BY <3>1 DEF Channel!ChannelNext
  <2>3. CASE NodeEnds
    <3>1. accepted' = accepted /\ delivered' = delivered /\ nodeUp /\ ~nodeUp' /\ masterUp' = masterUp
      BY <2>3 DEF NodeEnds, recvVars
    <3>2. CASE masterUp
      BY <3>1, <3>2 DEF Channel!End, Channel!ChannelNext
    <3>3. CASE ~masterUp
      BY <3>1, <3>3
    <3> QED
      BY <3>2, <3>3
  <2>4. CASE MasterEnds
    <3>1. accepted' = accepted /\ delivered' = delivered /\ masterUp /\ ~masterUp' /\ nodeUp' = nodeUp
      BY <2>4 DEF MasterEnds, sendVars
    <3>2. CASE nodeUp
      BY <3>1, <3>2 DEF Channel!End, Channel!ChannelNext
    <3>3. CASE ~nodeUp
      BY <3>1, <3>3
    <3> QED
      BY <3>2, <3>3
  <2>5. ASSUME NEW n \in 1..Buffer, SendSome(n) \/ RecvSome(n)
        PROVE  UNCHANGED <<accepted, delivered, nodeUp, masterUp>>
    BY <2>5 DEF SendSome, Taken, RecvSome, sendVars, recvVars
  <2>6. CASE Header \/ RecvFails \/ Quiet \/ UNCHANGED vars
    BY <2>6 DEF Header, RecvFails, Quiet, vars, sendVars, recvVars
  <2> QED
    BY <2>1, <2>2, <2>3, <2>4, <2>5, <2>6 DEF Next, NodeStep, MasterStep, SendReport, SendPong
<1> QED
  BY <1>1, <1>2, <1>3, <1>4, PTL DEF SafetySpec, Channel!ChannelSafety

\* Protocol.hpp: what the master makes of a report, through the whole stack.
THEOREM ReportAlwaysUnderstood == SafetySpec => []ReportUnderstood
<1>1. Init => IInv
  BY FramingAssumption, InitIInv
<1>2. IInv /\ [Next]_vars => IInv'
  BY FramingAssumption, NextIInv
<1>3. IInv => ReportUnderstood
  <2> SUFFICES ASSUME IInv, NEW i \in DOMAIN delivered, delivered[i].type = RESOURCE_REPORT
               PROVE  LET r == decodeResourceReport(master, delivered[i].payload)
                      IN  /\ r.threads = report.threads
                          /\ node = master => r.ramBytes = report.ramBytes
    BY DEF ReportUnderstood
  <2>1. node \in Host /\ master \in Host /\ report \in Payload /\ i \in 1..Len(delivered)
    BY FramingAssumption DEF IInv, TypeOK, FramingAssumption
  <2>2. delivered[i] \in {ReportMessage(node, report), PongMessage}
    BY <2>1 DEF IInv, Ours
  <2>3. delivered[i].payload = encodeResourceReport(node, report)
    BY <2>2 DEF PongMessage, ReportMessage, PONG, RESOURCE_REPORT
  <2> QED
    BY <2>1, <2>3, ThreadsPortable, RamOnOneByteOrder
<1> QED
  BY <1>1, <1>2, <1>3, PTL DEF SafetySpec

=============================================================================
