------------------------- MODULE ParallelForProofs --------------------------
(* For every range, every pool and every wish: ParallelFor's chunks and    *)
(* reduce_sum_rows' parts cover everything once.  From that: whatever      *)
(* calls are made at the same time, from outside or inside, the work of    *)
(* each is done once.                                                      *)
EXTENDS ParallelFor, SequenceTheorems, FiniteSetTheorems, TLAPS

\* What is known of a quotient.
LEMMA Quotient ==
    ASSUME NEW a \in Int, NEW b \in Nat \ {0}
    PROVE  /\ a \div b \in Int
           /\ b * (a \div b) <= a
           /\ a < b * (a \div b) + b
  BY Z3

LEMMA Ceiling ==
    ASSUME NEW n \in Nat \ {0}, NEW k \in Nat \ {0}
    PROVE  /\ CeilDiv(n, k) \in Nat \ {0}
           /\ k * CeilDiv(n, k) >= n
<1> DEFINE q == (n + k - 1) \div k
<1>1. n + k - 1 \in Int
  OBVIOUS
<1>2. /\ q \in Int
      /\ k * q <= n + k - 1
      /\ n + k - 1 < k * q + k
  BY <1>1, Quotient
<1>3. q > 0
  <2>1. SUFFICES ASSUME q <= 0
                 PROVE  FALSE
    BY <1>2
  <2>2. k * q <= 0
    BY <1>2, <2>1
  <2> QED
    BY <1>2, <2>2
<1>4. k * q >= n
  BY <1>2
<1> QED
  BY <1>2, <1>3, <1>4 DEF CeilDiv

\* ParallelFor.h:15-22: at least one task, and never more than indices.
THEOREM TasksInRange ==
    ASSUME NEW n \in Nat \ {0}, NEW threads \in Nat, NEW desired \in Int
    PROVE  NumTasks(n, threads, desired) \in 1..n
<1>1. CeilDiv(n, MinChunk) \in Nat \ {0}
  BY Ceiling, PartitionAssumption
<1> QED
  BY <1>1 DEF NumTasks, Lesser, Greater

\* ParallelFor.h:24-34: every index of the range lies in exactly one of the
\* k chunks, and no chunk reaches outside the range.
THEOREM ChunksPartition ==
    ASSUME NEW begin \in Int, NEW end \in Int, begin < end,
           NEW k \in Nat \ {0}
    PROVE  LET c == Chunk(end - begin, k)
               In(i, t) == ChunkStart(begin, c, t) <= i /\ i < ChunkEnd(begin, end, c, t)
           IN  /\ \A i \in begin..(end - 1) : \E t \in 0..(k - 1) : In(i, t)
               /\ \A i \in Int : \A t, u \in Nat : In(i, t) /\ In(i, u) => t = u
               /\ \A i \in Int, t \in Nat : In(i, t) => i \in begin..(end - 1)
<1> DEFINE c == Chunk(end - begin, k)
           In(i, t) == ChunkStart(begin, c, t) <= i /\ i < ChunkEnd(begin, end, c, t)
<1>1. c \in Nat \ {0} /\ k * c >= end - begin
  BY Ceiling DEF Chunk
<1> HIDE DEF c
<1>2. ASSUME NEW i \in begin..(end - 1)
      PROVE  \E t \in 0..(k - 1) : In(i, t)
  <2> DEFINE t == (i - begin) \div c
  <2>1. i - begin \in Nat
    OBVIOUS
  <2>2. t \in Int /\ c * t <= i - begin /\ i - begin < c * t + c
    BY <1>1, <2>1, Quotient
  <2> HIDE DEF t
  <2>3. t >= 0
    <3>1. SUFFICES ASSUME t <= -1
                   PROVE  FALSE
      BY <2>2
    <3>2. c * t <= -c
      BY <1>1, <2>2, <3>1
    <3> QED
      BY <1>1, <2>1, <2>2, <3>2
  <2>4. t <= k - 1
    <3>1. SUFFICES ASSUME t >= k
                   PROVE  FALSE
      BY <2>2
    <3>2. c * t >= c * k
      BY <1>1, <2>2, <3>1
    <3> QED
      BY <1>1, <2>1, <2>2, <3>2
  <2>5. c * t = t * c
    BY <1>1, <2>2
  <2>6. t * c \in Int
    BY <1>1, <2>2
  <2>7. In(i, t)
    BY <1>1, <2>2, <2>5, <2>6 DEF ChunkStart, ChunkEnd, Lesser
  <2> QED
    BY <2>2, <2>3, <2>4, <2>7
<1>3. ASSUME NEW i \in Int, NEW t \in Nat, NEW u \in Nat, t < u, In(i, t)
      PROVE  ~In(i, u)
  <2>1. (t + 1) * c <= u * c
    BY <1>1, <1>3
  <2>2. (t + 1) * c = t * c + c
    BY <1>1
  <2>3. t * c \in Int /\ u * c \in Int
    BY <1>1
  <2> QED
    BY <1>1, <1>3, <2>1, <2>2, <2>3 DEF ChunkStart, ChunkEnd, Lesser
<1>4. ASSUME NEW i \in Int, NEW t \in Nat, In(i, t)
      PROVE  i \in begin..(end - 1)
  <2>1. t * c >= 0 /\ t * c \in Int
    BY <1>1
  <2> QED
    BY <1>1, <1>4, <2>1 DEF ChunkStart, ChunkEnd, Lesser
<1> QED
  <2>1. \A i \in Int : \A t, u \in Nat : In(i, t) /\ In(i, u) => t = u
    <3>1. \A t, u \in Nat : t = u \/ t < u \/ u < t
      OBVIOUS
    <3> QED
      BY <1>3, <3>1
  <2> QED
    BY <1>2, <1>4, <2>1 DEF c

\* An integer p that is x divided by T, rounded down, is at most i exactly
\* when x has not reached T * (i + 1).
LEMMA Reached ==
    ASSUME NEW T \in Nat \ {0}, NEW x \in Int, NEW p \in Int, NEW i \in Int,
           T * p <= x, x < T * p + T
    PROVE  p <= i <=> x < T * (i + 1)
<1>1. T * (i + 1) = T * i + T /\ T * i \in Int /\ T * p \in Int
  OBVIOUS
<1>2. CASE p <= i
  <2>1. T * p <= T * i
    BY <1>2
  <2> QED
    BY <1>1, <1>2, <2>1
<1>3. CASE p >= i + 1
  <2>1. T * p >= T * (i + 1)
    BY <1>3
  <2> QED
    BY <1>1, <1>3, <2>1
<1> QED
  BY <1>2, <1>3

\* Ops_Parallel.h:84-91, NeuralNetwork.cpp:187-192: every row belongs to
\* exactly one part, whether there are fewer rows than parts or more.
THEOREM PartsPartition ==
    ASSUME NEW b \in Nat, NEW T \in Nat \ {0}
    PROVE  LET In(i, t) == PartStart(b, T, t) <= i /\ i < PartStart(b, T, t + 1)
           IN  /\ \A i \in 0..(b - 1) : \E t \in 0..(T - 1) : In(i, t)
               /\ \A i \in Int : \A t, u \in Nat : In(i, t) /\ In(i, u) => t = u
               /\ \A i \in Int, t \in 0..(T - 1) : In(i, t) => i \in 0..(b - 1)
<1> DEFINE In(i, t) == PartStart(b, T, t) <= i /\ i < PartStart(b, T, t + 1)
<1>1. ASSUME NEW i \in Int, NEW t \in Nat
      PROVE  /\ PartStart(b, T, t) \in Int
             /\ PartStart(b, T, t) <= i <=> b * t < T * (i + 1)
  <2> DEFINE p == (b * t) \div T
  <2>1. b * t \in Int
    OBVIOUS
  <2>2. p \in Int /\ T * p <= b * t /\ b * t < T * p + T
    BY <2>1, Quotient
  <2> HIDE DEF p
  <2>3. p <= i <=> b * t < T * (i + 1)
    BY <2>1, <2>2, Reached
  <2> QED
    BY <2>2, <2>3 DEF PartStart, p
<1>2. ASSUME NEW i \in Int, NEW t \in Nat
      PROVE  In(i, t) <=> b * t < T * (i + 1) /\ T * (i + 1) <= b * t + b
  <2>1. b * (t + 1) = b * t + b /\ b * t \in Int /\ T * (i + 1) \in Int
    OBVIOUS
  <2>2. t + 1 \in Nat
    OBVIOUS
  <2>3. PartStart(b, T, t + 1) <= i <=> b * t + b < T * (i + 1)
    BY <1>1, <2>1, <2>2
  <2> QED
    BY <1>1, <2>1, <2>2, <2>3
<1> HIDE DEF In
<1>3. ASSUME NEW i \in 0..(b - 1)
      PROVE  \E t \in 0..(T - 1) : In(i, t)
  <2> DEFINE x == T * (i + 1) - 1
             t == x \div b
  <2>1. x \in Nat /\ b \in Nat \ {0} /\ i \in Int
    <3>1. T * (i + 1) >= 1 /\ T * (i + 1) \in Int
      OBVIOUS
    <3> QED
      BY <3>1
  <2>2. t \in Int /\ b * t <= x /\ x < b * t + b
    BY <2>1, Quotient
  <2> HIDE DEF t
  <2>3. t >= 0
    <3>1. SUFFICES ASSUME t <= -1
                   PROVE  FALSE
      BY <2>2
    <3>2. b * t <= -b
      BY <2>1, <2>2, <3>1
    <3> QED
      BY <2>1, <2>2, <3>2
  <2>4. t <= T - 1
    <3>1. SUFFICES ASSUME t >= T
                   PROVE  FALSE
      BY <2>2
    <3>2. b * t >= T * b
      BY <2>1, <2>2, <3>1
    <3>3. T * (i + 1) <= T * b
      OBVIOUS
    <3> QED
      BY <2>1, <2>2, <3>2, <3>3
  <2>5. b * t < T * (i + 1) /\ T * (i + 1) <= b * t + b
    <3>1. T * (i + 1) \in Int /\ b * t \in Int
      BY <2>2
    <3> QED
      BY <2>2, <3>1
  <2> QED
    BY <1>2, <2>1, <2>2, <2>3, <2>4, <2>5
<1>4. ASSUME NEW i \in Int, NEW t \in Nat, NEW u \in Nat, t < u, In(i, t)
      PROVE  ~In(i, u)
  <2>1. b * (t + 1) <= b * u
    BY <1>4
  <2>2. b * (t + 1) = b * t + b /\ b * t \in Int /\ b * u \in Int /\ T * (i + 1) \in Int
    OBVIOUS
  <2>3. T * (i + 1) <= b * t + b
    BY <1>2, <1>4
  <2> QED
    BY <1>2, <2>1, <2>2, <2>3
<1>5. ASSUME NEW i \in Int, NEW t \in 0..(T - 1), In(i, t)
      PROVE  i \in 0..(b - 1)
  <2>1. t \in Nat
    OBVIOUS
  <2>2. b * t < T * (i + 1) /\ T * (i + 1) <= b * t + b
    BY <1>2, <1>5, <2>1
  <2>3. b * t >= 0 /\ b * (t + 1) = b * t + b /\ b * t \in Int /\ T * (i + 1) \in Int
    OBVIOUS
  <2>4. b * (t + 1) <= T * b
    OBVIOUS
  <2>5. i >= 0
    <3>1. SUFFICES ASSUME i + 1 <= 0
                   PROVE  FALSE
      OBVIOUS
    <3>2. T * (i + 1) <= 0
      BY <3>1
    <3> QED
      BY <2>2, <2>3, <3>2
  <2>6. i <= b - 1
    <3>1. SUFFICES ASSUME i >= b
                   PROVE  FALSE
      OBVIOUS
    <3>2. T * (i + 1) >= T * (b + 1) /\ T * (b + 1) = T * b + T /\ T * b \in Int
      BY <3>1
    <3> QED
      BY <2>2, <2>3, <2>4, <3>2
  <2> QED
    BY <2>5, <2>6
<1> QED
  <2>1. \A i \in Int : \A t, u \in Nat : In(i, t) /\ In(i, u) => t = u
    <3>1. \A t, u \in Nat : t = u \/ t < u \/ u < t
      OBVIOUS
    <3> QED
      BY <1>4, <3>1
  <2> QED
    BY <1>3, <1>5, <2>1 DEF In

-----------------------------------------------------------------------------
(* What the indices of a call stand for.                                   *)

LEMMA CallType ==
    ASSUME NEW k, IsCall(k)
    PROVE  /\ k.pooled \in BOOLEAN /\ k.begin \in Int /\ k.end \in Int /\ k.desired \in Int
           /\ Size(k) \in Int
           /\ k.kind \in {"map", "rows", "reduce"}
           /\ k.kind = "rows" => k.shape \in Nat \X Nat /\ k.begin = 0 /\ k.end = k.shape[1]
           /\ k.kind = "reduce" => k.shape \in Nat \X {1} /\ k.begin = 0 /\ k.end = Parts
<1>1. Parts \in Nat \ {0}
  BY ForAssumption DEF Parts, Greater
<1>2. CASE k = MapCall(k.pooled, k.begin, k.end, k.desired)
           /\ k.begin \in Int /\ k.end \in Int /\ k.desired \in Int
  BY <1>2 DEF MapCall, IsCall, Size
<1>3. CASE k.shape \in Nat \X Nat /\ k = RowsCall(k.pooled, k.shape[1], k.shape[2])
  BY <1>3 DEF RowsCall, IsCall, Size
<1>4. CASE k.shape \in Nat \X {1} /\ k = ReduceCall(k.pooled, k.shape[1])
  BY <1>1, <1>4 DEF ReduceCall, IsCall, Size
<1> QED
  BY <1>2, <1>3, <1>4 DEF IsCall

LEMMA CellIndex ==
    ASSUME NEW s \in Nat \X Nat, NEW i \in Int, NEW j \in Int
    PROVE  LinearIndex(s, i, j) = i * s[2] + j
<1>1. Len(s) # 1 /\ s[2] \in Nat
  OBVIOUS
<1>2. Strides(s)[1] = s[2] /\ Strides(s)[2] = 1
  BY <1>1 DEF Strides
<1> QED
  BY <1>2 DEF LinearIndex

\* NeuralNetwork.cpp:276-291, 38-44: no two cells of a matrix lie in one place.
LEMMA RowsDisjoint ==
    ASSUME NEW s \in Nat \X Nat, NEW i \in Nat, NEW h \in Nat, i < h,
           NEW j \in 0..(s[2] - 1), NEW m \in 0..(s[2] - 1)
    PROVE  LinearIndex(s, i, j) < LinearIndex(s, h, m)
<1>1. (i + 1) * s[2] <= h * s[2]
  OBVIOUS
<1>2. (i + 1) * s[2] = i * s[2] + s[2] /\ i * s[2] \in Int /\ h * s[2] \in Int
  OBVIOUS
<1> QED
  BY <1>1, <1>2, CellIndex

LEMMA RowsCover ==
    ASSUME NEW s \in Nat \X Nat, NEW n \in Int
    PROVE  n \in 0..(s[1] * s[2] - 1) <=>
              \E i \in 0..(s[1] - 1) : \E j \in 0..(s[2] - 1) : n = LinearIndex(s, i, j)
<1>1. s[1] \in Nat /\ s[2] \in Nat /\ s[1] * s[2] \in Nat
  OBVIOUS
<1>2. ASSUME NEW i \in 0..(s[1] - 1), NEW j \in 0..(s[2] - 1), n = LinearIndex(s, i, j)
      PROVE  n \in 0..(s[1] * s[2] - 1)
  <2>1. n = i * s[2] + j
    BY <1>2, CellIndex
  <2>2. (i + 1) * s[2] <= s[1] * s[2] /\ (i + 1) * s[2] = i * s[2] + s[2] /\ i * s[2] \in Nat
    BY <1>1
  <2> QED
    BY <1>1, <2>1, <2>2
<1>3. ASSUME n \in 0..(s[1] * s[2] - 1)
      PROVE  \E i \in 0..(s[1] - 1) : \E j \in 0..(s[2] - 1) : n = LinearIndex(s, i, j)
  <2>1. s[2] # 0
    BY <1>1, <1>3
  <2> DEFINE i == n \div s[2]
  <2>2. i \in Int /\ s[2] * i <= n /\ n < s[2] * i + s[2]
    BY <1>1, <2>1, Quotient
  <2> HIDE DEF i
  <2>3. i >= 0
    <3>1. SUFFICES ASSUME i <= -1
                   PROVE  FALSE
      BY <2>2
    <3>2. s[2] * i <= -s[2]
      BY <1>1, <2>2, <3>1
    <3> QED
      BY <1>1, <1>3, <2>2, <3>2
  <2>4. i <= s[1] - 1
    <3>1. SUFFICES ASSUME i >= s[1]
                   PROVE  FALSE
      BY <1>1, <2>2
    <3>2. s[2] * i >= s[1] * s[2]
      BY <1>1, <2>2, <3>1
    <3> QED
      BY <1>1, <1>3, <2>2, <3>2
  <2>5. n - i * s[2] \in 0..(s[2] - 1) /\ i * s[2] \in Int
    BY <1>1, <2>2
  <2>6. n = LinearIndex(s, i, n - i * s[2])
    BY <2>2, <2>5, CellIndex
  <2> QED
    BY <2>2, <2>3, <2>4, <2>5, <2>6
<1> QED
  BY <1>2, <1>3

LEMMA PartsCover ==
    ASSUME NEW b \in Nat, NEW T \in Nat \ {0}, NEW i \in 0..(b - 1)
    PROVE  \E t \in 0..(T - 1) : PartStart(b, T, t) <= i /\ i < PartStart(b, T, t + 1)
<1> DEFINE In(j, t) == PartStart(b, T, t) <= j /\ j < PartStart(b, T, t + 1)
<1>1. \A j \in 0..(b - 1) : \E t \in 0..(T - 1) : In(j, t)
  <2> HIDE DEF In
  <2> QED
    BY PartsPartition DEF In
<1> QED
  BY <1>1

LEMMA PartIsInteger ==
    ASSUME NEW b \in Nat, NEW T \in Nat \ {0}, NEW t \in Nat
    PROVE  PartStart(b, T, t) \in Int
<1>1. b * t \in Int
  OBVIOUS
<1> QED
  BY <1>1, Quotient DEF PartStart

LEMMA PairIsNeither ==
    ASSUME NEW s \in Nat \X Nat
    PROVE  s # Empty /\ Len(s) # 1
<1>1. PICK p \in Nat, q \in Nat : s = <<p, q>>
  OBVIOUS
<1> QED
  BY <1>1 DEF Empty

\* Two indices of a range stand for different work.
LEMMA ElementsDisjoint ==
    ASSUME NEW k, IsCall(k), NEW i \in k.begin..(k.end - 1), NEW h \in k.begin..(k.end - 1), i # h
    PROVE  Elements(k, i) \cap Elements(k, h) = {}
<1>1. i \in Int /\ h \in Int
  BY CallType
<1>2. CASE k.kind = "map"
  BY <1>2 DEF Elements
<1>3. CASE k.kind = "rows"
  <2>1. k.shape \in Nat \X Nat /\ i \in Nat /\ h \in Nat
    BY <1>1, <1>3, CallType
  <2>2. \A p, q \in Nat : p < q =>
          \A j, m \in 0..(k.shape[2] - 1) :
              LinearIndex(k.shape, p, j) # LinearIndex(k.shape, q, m)
    <3>1. SUFFICES ASSUME NEW p \in Nat, NEW q \in Nat, p < q,
                          NEW j \in 0..(k.shape[2] - 1), NEW m \in 0..(k.shape[2] - 1)
                   PROVE  LinearIndex(k.shape, p, j) # LinearIndex(k.shape, q, m)
      OBVIOUS
    <3>2. LinearIndex(k.shape, p, j) < LinearIndex(k.shape, q, m)
      BY <2>1, <3>1, RowsDisjoint
    <3>3. LinearIndex(k.shape, p, j) \in Int
      <4>1. k.shape[2] \in Nat /\ p * k.shape[2] \in Int /\ j \in Int
        BY <2>1, <3>1
      <4> QED
        BY <2>1, <4>1, CellIndex
    <3> QED
      BY <3>2, <3>3
  <2>3. i < h \/ h < i
    BY <1>1
  <2> QED
    BY <1>3, <2>1, <2>2, <2>3 DEF Elements
<1>4. CASE k.kind = "reduce"
  <2>1. /\ k.shape[1] \in Nat /\ Parts \in Nat \ {0} /\ k.begin = 0 /\ k.end = Parts
        /\ i \in Nat /\ h \in Nat
    BY <1>1, <1>4, CallType, ForAssumption DEF Parts, Greater
  <2>2. \A n \in Int : \A t, u \in Nat :
            /\ PartStart(k.shape[1], Parts, t) <= n /\ n < PartStart(k.shape[1], Parts, t + 1)
            /\ PartStart(k.shape[1], Parts, u) <= n /\ n < PartStart(k.shape[1], Parts, u + 1)
            => t = u
    BY <2>1, PartsPartition
  <2>3. \A t \in Nat : PartStart(k.shape[1], Parts, t) \in Int
    BY <2>1, PartIsInteger
  <2>4. Elements(k, i) = PartStart(k.shape[1], Parts, i)..(PartStart(k.shape[1], Parts, i + 1) - 1)
        /\ Elements(k, h) = PartStart(k.shape[1], Parts, h)..(PartStart(k.shape[1], Parts, h + 1) - 1)
    BY <1>4 DEF Elements
  <2>5. i + 1 \in Nat /\ h + 1 \in Nat
    BY <2>1
  <2>6. \A n : n \in Elements(k, i) /\ n \in Elements(k, h) => i = h
    <3>1. SUFFICES ASSUME NEW n, n \in Elements(k, i), n \in Elements(k, h)
                   PROVE  i = h
      OBVIOUS
    <3>2. /\ n \in Int
          /\ PartStart(k.shape[1], Parts, i) <= n /\ n < PartStart(k.shape[1], Parts, i + 1)
          /\ PartStart(k.shape[1], Parts, h) <= n /\ n < PartStart(k.shape[1], Parts, h + 1)
      BY <2>1, <2>3, <2>4, <2>5, <3>1, SMTT(30)
    <3> QED
      BY <2>1, <2>2, <3>2
  <2> QED
    BY <2>6
<1> QED
  BY <1>2, <1>3, <1>4, CallType

\* The indices of a range stand for all the work and no other.
LEMMA ElementsCover ==
    ASSUME NEW k, IsCall(k)
    PROVE  UNION {Elements(k, i) : i \in k.begin..(k.end - 1)} = Work(k)
<1>2. CASE k.kind = "map"
  BY <1>2 DEF Elements, Work
<1>3. CASE k.kind = "rows"
  <2>1. k.shape \in Nat \X Nat /\ k.begin = 0 /\ k.end = k.shape[1]
    BY <1>3, CallType
  <2>2. Work(k) = 0..(k.shape[1] * k.shape[2] - 1)
    <3>1. k.shape # Empty /\ Len(k.shape) # 1
      BY <2>1, PairIsNeither
    <3> QED
      BY <1>3, <3>1 DEF Work, Length
  <2>3. \A n \in Int : n \in Work(k) <=>
            \E i \in 0..(k.shape[1] - 1) : \E j \in 0..(k.shape[2] - 1) :
                n = LinearIndex(k.shape, i, j)
    BY <2>1, <2>2, RowsCover
  <2>4. \A i \in 0..(k.shape[1] - 1) : \A j \in 0..(k.shape[2] - 1) :
            LinearIndex(k.shape, i, j) \in Int
    <3>1. SUFFICES ASSUME NEW i \in 0..(k.shape[1] - 1), NEW j \in 0..(k.shape[2] - 1)
                   PROVE  LinearIndex(k.shape, i, j) \in Int
      OBVIOUS
    <3>2. k.shape[2] \in Nat /\ i * k.shape[2] \in Int /\ i \in Int /\ j \in Int
      BY <2>1
    <3> QED
      BY <2>1, <3>2, CellIndex
  <2>5. Work(k) \subseteq Int
    BY <2>2
  <2>6. \A i : Elements(k, i) = {LinearIndex(k.shape, i, j) : j \in 0..(k.shape[2] - 1)}
    BY <1>3 DEF Elements
  <2>7. ASSUME NEW n \in Work(k)
        PROVE  \E i \in k.begin..(k.end - 1) : n \in Elements(k, i)
    <3>1. PICK i \in 0..(k.shape[1] - 1), j \in 0..(k.shape[2] - 1) :
              n = LinearIndex(k.shape, i, j)
      BY <2>3, <2>5
    <3>2. n \in Elements(k, i)
      BY <2>6, <3>1
    <3> QED
      BY <2>1, <3>2
  <2>8. ASSUME NEW i \in k.begin..(k.end - 1), NEW n \in Elements(k, i)
        PROVE  n \in Work(k)
    <3>1. PICK j \in 0..(k.shape[2] - 1) : n = LinearIndex(k.shape, i, j)
      BY <2>6
    <3>2. i \in 0..(k.shape[1] - 1)
      BY <2>1
    <3> QED
      BY <2>3, <2>4, <3>1, <3>2
  <2> QED
    BY <2>7, <2>8
<1>4. CASE k.kind = "reduce"
  <2>1. k.shape \in Nat \X {1} /\ Parts \in Nat \ {0} /\ k.begin = 0 /\ k.end = Parts
    BY <1>4, CallType, ForAssumption DEF Parts, Greater
  <2>2. Work(k) = 0..(k.shape[1] - 1)
    <3>1. k.shape # Empty /\ Len(k.shape) # 1 /\ k.shape[1] * k.shape[2] = k.shape[1]
      BY <2>1, PairIsNeither
    <3> QED
      BY <1>4, <3>1 DEF Work, Length
  <2>3. \A t \in Nat : PartStart(k.shape[1], Parts, t) \in Int
    BY <2>1, PartIsInteger
  <2>4. \A i \in 0..(Parts - 1) : \A n :
            n \in Elements(k, i) <=>
               /\ n \in Int
               /\ PartStart(k.shape[1], Parts, i) <= n /\ n < PartStart(k.shape[1], Parts, i + 1)
    <3>1. SUFFICES ASSUME NEW i \in 0..(Parts - 1), NEW n
                   PROVE  n \in Elements(k, i) <=>
                            /\ n \in Int
                            /\ PartStart(k.shape[1], Parts, i) <= n
                            /\ n < PartStart(k.shape[1], Parts, i + 1)
      OBVIOUS
    <3>2. i \in Nat /\ i + 1 \in Nat
      BY <2>1
    <3>3. Elements(k, i) =
            PartStart(k.shape[1], Parts, i)..(PartStart(k.shape[1], Parts, i + 1) - 1)
      BY <1>4 DEF Elements
    <3> QED
      BY <2>3, <3>2, <3>3
  <2>5. k.shape[1] \in Nat
    BY <2>1
  <2>6. \A n \in 0..(k.shape[1] - 1) : \E i \in 0..(Parts - 1) : n \in Elements(k, i)
    <3>1. SUFFICES ASSUME NEW n \in 0..(k.shape[1] - 1)
                   PROVE  \E i \in 0..(Parts - 1) : n \in Elements(k, i)
      OBVIOUS
    <3>2. n \in Int
      BY <2>5
    <3>3. \E i \in 0..(Parts - 1) :
              PartStart(k.shape[1], Parts, i) <= n /\ n < PartStart(k.shape[1], Parts, i + 1)
      BY <2>1, <2>5, PartsCover
    <3> QED
      BY <2>4, <3>2, <3>3
  <2>7. \A i \in 0..(Parts - 1) : \A n \in Elements(k, i) : n \in 0..(k.shape[1] - 1)
    <3>1. \A n \in Int : \A i \in 0..(Parts - 1) :
              PartStart(k.shape[1], Parts, i) <= n /\ n < PartStart(k.shape[1], Parts, i + 1)
              => n \in 0..(k.shape[1] - 1)
      BY <2>1, <2>5, PartsPartition
    <3> QED
      BY <2>4, <3>1
  <2> QED
    BY <2>1, <2>2, <2>6, <2>7
<1> QED
  BY <1>2, <1>3, <1>4, CallType

-----------------------------------------------------------------------------
(* Chunks.                                                                 *)

\* The work of chunk t of a call.
ChunkWork(k, t) == UNION {Elements(k, i) : i \in Indices(k, t)}

\* Nothing is left to enqueue from chunk n on.
Exhausted(k, n) == n = TasksOf(k) \/ Indices(k, n) = {}

LEMMA ChunkFacts ==
    ASSUME NEW k, IsCall(k), Size(k) > 0
    PROVE  /\ TasksOf(k) \in Nat \ {0}
           /\ ChunkSize(k) \in Nat \ {0}
           /\ \A i \in k.begin..(k.end - 1) : \E t \in 0..(TasksOf(k) - 1) : i \in Indices(k, t)
           /\ \A t, u \in Nat : t # u => Indices(k, t) \cap Indices(k, u) = {}
           /\ \A t \in Nat : Indices(k, t) \subseteq k.begin..(k.end - 1)
<1> DEFINE n == TasksOf(k)
           c == Chunk(k.end - k.begin, n)
           In(i, t) == ChunkStart(k.begin, c, t) <= i /\ i < ChunkEnd(k.begin, k.end, c, t)
<1>1. /\ k.begin \in Int /\ k.end \in Int /\ k.desired \in Int
      /\ Size(k) = k.end - k.begin /\ Size(k) \in Nat \ {0} /\ k.begin < k.end
  BY CallType DEF Size
<1>2. n \in Nat \ {0}
  <2>1. NumTasks(Size(k), Width, k.desired) \in 1..Size(k)
    BY <1>1, TasksInRange, ForAssumption
  <2> QED
    BY <1>1, <2>1 DEF TasksOf
<1> HIDE DEF n
<1>3. c \in Nat \ {0} /\ c = ChunkSize(k)
  BY <1>1, <1>2, Ceiling DEF Chunk, ChunkSize, n
<1>4. /\ \A i \in k.begin..(k.end - 1) : \E t \in 0..(n - 1) : In(i, t)
      /\ \A i \in Int : \A t, u \in Nat : In(i, t) /\ In(i, u) => t = u
      /\ \A i \in Int, t \in Nat : In(i, t) => i \in k.begin..(k.end - 1)
  BY <1>1, <1>2, ChunksPartition
<1>5. \A t \in Nat : \A i : i \in Indices(k, t) <=> i \in Int /\ In(i, t)
  <2>1. SUFFICES ASSUME NEW t \in Nat, NEW i
                 PROVE  i \in Indices(k, t) <=> i \in Int /\ In(i, t)
    OBVIOUS
  <2>2. ChunkStart(k.begin, c, t) \in Int /\ ChunkEnd(k.begin, k.end, c, t) \in Int
    <3>1. t * c \in Int
      BY <1>3
    <3> QED
      BY <1>1, <1>3, <3>1 DEF ChunkStart, ChunkEnd, Lesser
  <2>3. Indices(k, t) = ChunkStart(k.begin, c, t)..(ChunkEnd(k.begin, k.end, c, t) - 1)
    BY <1>3 DEF Indices, ChunkFrom, ChunkTo
  <2> QED
    BY <2>2, <2>3
<1> HIDE DEF c, In
<1>6. \A t \in 0..(n - 1) : t \in Nat
  BY <1>2
<1>7. \A i \in k.begin..(k.end - 1) : i \in Int
  BY <1>1
<1>8. /\ \A i \in k.begin..(k.end - 1) : \E t \in 0..(n - 1) : i \in Indices(k, t)
      /\ \A t, u \in Nat : t # u => Indices(k, t) \cap Indices(k, u) = {}
      /\ \A t \in Nat : Indices(k, t) \subseteq k.begin..(k.end - 1)
  BY <1>4, <1>5, <1>6, <1>7
<1> QED
  BY <1>2, <1>3, <1>8 DEF n

\* ParallelFor.h:29-34: once a chunk is empty, so are all that follow.
LEMMA ExhaustedCovers ==
    ASSUME NEW k, IsCall(k), Size(k) > 0, NEW n \in Nat, Exhausted(k, n),
           NEW i \in k.begin..(k.end - 1)
    PROVE  \E t \in 0..(n - 1) : i \in Indices(k, t)
<1>1. PICK t \in 0..(TasksOf(k) - 1) : i \in Indices(k, t)
  BY ChunkFacts
<1>2. CASE n = TasksOf(k)
  BY <1>1, <1>2
<1>3. CASE Indices(k, n) = {}
  <2> DEFINE c == ChunkSize(k)
  <2>1. k.begin \in Int /\ k.end \in Int /\ i \in Int /\ i < k.end /\ c \in Nat \ {0}
    BY CallType, ChunkFacts
  <2> HIDE DEF c
  <2>2. t \in Nat
    BY <1>1, ChunkFacts
  <2>3. t * c \in Int /\ n * c \in Int
    BY <2>1, <2>2
  <2>4. k.begin + t * c <= i
    BY <1>1, <2>1, <2>3 DEF Indices, ChunkFrom, ChunkTo, ChunkStart, ChunkEnd, Lesser, c
  <2>5. k.end <= k.begin + n * c
    <3>1. SUFFICES ASSUME k.begin + n * c < k.end
                   PROVE  FALSE
      BY <2>1, <2>3
    <3>2. ChunkFrom(k, n) = k.begin + n * c /\ ChunkTo(k, n) \in Int
          /\ k.begin + n * c < ChunkTo(k, n)
      BY <2>1, <2>3, <3>1 DEF ChunkFrom, ChunkTo, ChunkStart, ChunkEnd, Lesser, c
    <3>3. \A p, q \in Int : p < q => p \in p..(q - 1)
      OBVIOUS
    <3>4. k.begin + n * c \in Int
      BY <2>1, <2>3
    <3>5. k.begin + n * c \in Indices(k, n)
      BY <3>2, <3>3, <3>4 DEF Indices
    <3> QED
      BY <1>3, <3>5
  <2>6. t * c < n * c
    BY <2>1, <2>3, <2>4, <2>5
  <2>7. t < n
    <3>1. n <= t => n * c <= t * c
      BY <2>1, <2>2
    <3> QED
      BY <2>2, <2>3, <2>6, <3>1
  <2> QED
    BY <1>1, <2>2, <2>7
<1> QED
  BY <1>2, <1>3 DEF Exhausted

LEMMA WorkDisjoint ==
    ASSUME NEW k, IsCall(k), Size(k) > 0, NEW t \in Nat, NEW u \in Nat, t # u,
           NEW i \in Indices(k, t), NEW j \in Indices(k, u)
    PROVE  Elements(k, i) \cap Elements(k, j) = {}
<1>1. i \in k.begin..(k.end - 1) /\ j \in k.begin..(k.end - 1) /\ i # j
  BY ChunkFacts
<1> QED
  BY <1>1, ElementsDisjoint

LEMMA WorkInside ==
    ASSUME NEW k, IsCall(k), Size(k) > 0, NEW t \in Nat
    PROVE  ChunkWork(k, t) \subseteq Work(k)
<1>1. Indices(k, t) \subseteq k.begin..(k.end - 1)
  BY ChunkFacts
<1> QED
  BY <1>1, ElementsCover DEF ChunkWork

LEMMA WorkCovered ==
    ASSUME NEW k, IsCall(k), Size(k) > 0, NEW n \in Nat, Exhausted(k, n)
    PROVE  \A w \in Work(k) : \E t \in 0..(n - 1) : w \in ChunkWork(k, t)
<1>1. SUFFICES ASSUME NEW w \in Work(k)
               PROVE  \E t \in 0..(n - 1) : w \in ChunkWork(k, t)
  OBVIOUS
<1>2. PICK i \in k.begin..(k.end - 1) : w \in Elements(k, i)
  BY ElementsCover
<1>3. PICK t \in 0..(n - 1) : i \in Indices(k, t)
  BY ExhaustedCovers
<1> QED
  BY <1>2, <1>3 DEF ChunkWork

LEMMA NoWork ==
    ASSUME NEW k, IsCall(k), Size(k) <= 0
    PROVE  Work(k) = {}
<1>1. k.begin..(k.end - 1) = {}
  BY CallType DEF Size
<1> QED
  BY <1>1, ElementsCover

-----------------------------------------------------------------------------
(* The inductive invariant.                                                *)

Known == Queued \cup active \cup finished

\* A task is in one place, once.
Distinct ==
    /\ \A i, j \in DOMAIN backlog : backlog[i] = backlog[j] => i = j
    /\ Queued \cap (active \cup finished) = {}
    /\ active \cap finished = {}

\* The pool knows the chunks that have been enqueued, and the callers inside.
KnownInv ==
    \A c \in Caller :
        /\ \A t \in Int : <<c, t>> \in Known => t = -1 \/ t \in 0..(next[c] - 1)
        /\ Own(c) \in Queued => pc[c] = "queued"

\* Where a call is.
PlaceInv(c) ==
    LET k == call[c]
    IN  /\ next[c] > 0 \/ pc[c] \in {"submit", "wait"} => Size(k) > 0 /\ k.pooled
        /\ Size(k) > 0 => next[c] <= TasksOf(k)
        /\ pc[c] \in {"idle", "queued", "begin"} => next[c] = 0 /\ once[c] = {}
        /\ pc[c] = "wait" => Exhausted(k, next[c])
        /\ pc[c] = "returned" => got[c] = next[c] /\ once[c] = Work(k)
        /\ pc[c] = "threw" /\ k.pooled => <<c, got[c]>> \in failed
        /\ \A t \in 0..(got[c] - 1) : <<c, t>> \in finished \ failed

\* What has been done is the work of chunks that are over: all of it, unless fn
\* has thrown.
DoneInv(c) ==
    LET k == call[c]
    IN  /\ again[c] = {}
        /\ k.pooled =>
              \A w \in once[c] : \E t \in 0..(next[c] - 1) :
                  <<c, t>> \in finished /\ w \in ChunkWork(k, t)
        /\ \A t \in 0..(next[c] - 1) :
              <<c, t>> \in finished \ failed => ChunkWork(k, t) \subseteq once[c]

IInv ==
    /\ TypeOK /\ Distinct /\ KnownInv
    /\ \A c \in Caller : PlaceInv(c) /\ DoneInv(c)
-----------------------------------------------------------------------------
(* The steps of the pool.                                                  *)

LEMMA SubmitKeeps ==
    ASSUME NEW e \in Task, backlog \in Seq(Task), Distinct, Submit(e)
    PROVE  /\ backlog' \in Seq(Task) /\ Distinct'
           /\ Queued' = Queued \cup {e} /\ Known' = Known \cup {e} /\ e \notin Known
           /\ UNCHANGED <<active, finished>>
<1>1. /\ backlog' = Append(backlog, e) /\ e \notin Known
      /\ UNCHANGED <<active, finished>>
  BY DEF Submit, Known
<1>2. /\ backlog' \in Seq(Task) /\ Len(backlog) \in Nat /\ Len(backlog') = Len(backlog) + 1
      /\ \A i \in 1..Len(backlog) : backlog'[i] = backlog[i]
      /\ backlog'[Len(backlog) + 1] = e
  BY <1>1
<1>3. DOMAIN backlog = 1..Len(backlog) /\ DOMAIN backlog' = 1..(Len(backlog) + 1)
  BY <1>2, LenProperties
<1>4. \A i \in DOMAIN backlog' : i \in DOMAIN backlog \/ i = Len(backlog) + 1
  BY <1>2, <1>3
<1>5. \A i \in DOMAIN backlog : i \in DOMAIN backlog' /\ backlog'[i] = backlog[i]
  BY <1>2, <1>3
<1>6. Len(backlog) + 1 \in DOMAIN backlog'
  BY <1>2, <1>3
<1>7. Queued' = Queued \cup {e}
  BY <1>2, <1>4, <1>5, <1>6 DEF Queued
<1>8. \A i \in DOMAIN backlog : backlog[i] # e
  BY <1>1 DEF Known, Queued
<1>9. \A i, j \in DOMAIN backlog' : backlog'[i] = backlog'[j] => i = j
  BY <1>2, <1>4, <1>5, <1>8 DEF Distinct
<1> QED
  BY <1>1, <1>2, <1>7, <1>9 DEF Distinct, Known

LEMMA StartKeeps ==
    ASSUME backlog \in Seq(Task), Distinct, Start
    PROVE  /\ backlog' \in Seq(Task) /\ Distinct'
           /\ Head(backlog) \in Queued /\ Queued' = Queued \ {Head(backlog)}
           /\ Known' = Known /\ finished' = finished
<1>1. /\ backlog # <<>> /\ backlog' = Tail(backlog) /\ finished' = finished
      /\ active' = active \cup {Head(backlog)}
  BY DEF Start
<1>2. /\ backlog' \in Seq(Task) /\ Len(backlog) \in Nat \ {0} /\ Len(backlog') = Len(backlog) - 1
      /\ \A i \in 1..(Len(backlog) - 1) : backlog'[i] = backlog[i + 1]
      /\ Head(backlog) = backlog[1]
  BY <1>1, HeadTailProperties, EmptySeq
<1>3. DOMAIN backlog = 1..Len(backlog) /\ DOMAIN backlog' = 1..(Len(backlog) - 1)
  BY <1>2, LenProperties
<1>4. \A i \in DOMAIN backlog' : /\ i + 1 \in DOMAIN backlog /\ i + 1 # 1
                                 /\ backlog'[i] = backlog[i + 1]
  BY <1>2, <1>3
<1>5. \A i \in DOMAIN backlog : i = 1 \/ (i - 1 \in DOMAIN backlog' /\ backlog[i] = backlog'[i - 1])
  BY <1>2, <1>3
<1>6. 1 \in DOMAIN backlog
  BY <1>2, <1>3
<1>7. Queued' = Queued \ {Head(backlog)}
  <2>1. \A e \in Queued' : e \in Queued /\ e # backlog[1]
    BY <1>4, <1>6 DEF Queued, Distinct
  <2>2. \A e \in Queued : e # backlog[1] => e \in Queued'
    BY <1>5 DEF Queued
  <2> QED
    BY <1>2, <2>1, <2>2
<1>8. Head(backlog) \in Queued
  BY <1>2, <1>6 DEF Queued
<1>9. \A i, j \in DOMAIN backlog' : backlog'[i] = backlog'[j] => i = j
  <2>1. SUFFICES ASSUME NEW i \in DOMAIN backlog', NEW j \in DOMAIN backlog', backlog'[i] = backlog'[j]
                 PROVE  i = j
    OBVIOUS
  <2>2. i + 1 = j + 1
    BY <1>4, <2>1 DEF Distinct
  <2> QED
    BY <1>2, <1>3, <2>2
<1> QED
  BY <1>1, <1>2, <1>7, <1>8, <1>9 DEF Distinct, Known

LEMMA FinishKeeps ==
    ASSUME NEW e, Distinct, Finish(e)
    PROVE  /\ Distinct' /\ backlog' = backlog /\ Queued' = Queued /\ Known' = Known
           /\ e \in active /\ e \notin finished /\ finished' = finished \cup {e}
           /\ active' = active \ {e}
  BY DEF Finish, Distinct, Queued, Known

-----------------------------------------------------------------------------
(* The steps of a caller, and of the tasks.                                *)

LEMMA CallOf ==
    ASSUME TypeOK, NEW c \in Caller
    PROVE  IsCall(call[c])
  BY ForAssumption DEF TypeOK

\* A step that leaves a caller and what is over alone leaves what is known of it.
LEMMA CallerUntouched ==
    ASSUME NEW c \in Caller, PlaceInv(c), DoneInv(c), UNCHANGED <<call, failed, finished>>,
           pc'[c] = pc[c], next'[c] = next[c], got'[c] = got[c],
           once'[c] = once[c], again'[c] = again[c]
    PROVE  PlaceInv(c)' /\ DoneInv(c)'
  BY DEF PlaceInv, DoneInv

\* The same when a task is over that is not a chunk of it.
LEMMA OtherFinished ==
    ASSUME NEW c \in Caller, PlaceInv(c), DoneInv(c), NEW e,
           next[c] \in Nat, got[c] \in Nat, got[c] <= next[c],
           UNCHANGED <<call, pc, next, got>>, finished' = finished \cup {e},
           failed \subseteq failed', failed' \subseteq failed \cup {e},
           \A t \in 0..(next[c] - 1) : e # <<c, t>>,
           once'[c] = once[c], again'[c] = again[c]
    PROVE  PlaceInv(c)' /\ DoneInv(c)'
<1>1. \A t \in 0..(next[c] - 1) : <<c, t>> \in finished' \ failed' <=> <<c, t>> \in finished \ failed
  OBVIOUS
<1>2. \A t \in 0..(got[c] - 1) : t \in 0..(next[c] - 1)
  OBVIOUS
<1>3. PlaceInv(c)'
  BY <1>1, <1>2 DEF PlaceInv
<1>4. DoneInv(c)'
  BY <1>1 DEF DoneInv
<1> QED
  BY <1>3, <1>4

\* What a chunk does.
LEMMA ChunkDone ==
    ASSUME TypeOK, Distinct, NEW c \in Caller, NEW t \in 0..(next[c] - 1),
           PlaceInv(c), DoneInv(c), <<c, t>> \notin finished,
           NEW S \in SUBSET Indices(call[c], t)
    PROVE  LET done == UNION {Elements(call[c], i) : i \in S}
           IN  /\ done \subseteq ChunkWork(call[c], t) /\ done \subseteq Work(call[c])
               /\ once[c] \cap done = {}
<1> DEFINE k == call[c]
           done == UNION {Elements(k, i) : i \in S}
<1>1. IsCall(k) /\ next[c] \in Nat /\ t \in Nat
  BY CallOf DEF TypeOK
<1>2. Size(k) > 0 /\ k.pooled
  BY <1>1 DEF PlaceInv
<1>3. done \subseteq ChunkWork(k, t)
  BY DEF ChunkWork
<1>4. ChunkWork(k, t) \subseteq Work(k)
  BY <1>1, <1>2, WorkInside
<1>5. ASSUME NEW w \in once[c]
      PROVE  w \notin ChunkWork(k, t)
  <2>1. PICK u \in 0..(next[c] - 1) : <<c, u>> \in finished /\ w \in ChunkWork(k, u)
    BY <1>2 DEF DoneInv
  <2>2. u # t /\ u \in Nat
    BY <1>1, <2>1
  <2> QED
    BY <1>1, <1>2, <2>1, <2>2, WorkDisjoint DEF ChunkWork
<1> QED
  BY <1>3, <1>4, <1>5

LEMMA WorkIsOfIntegers == \A k : Work(k) \subseteq Int
  BY DEF Work

-----------------------------------------------------------------------------
(* Every step keeps the invariant.                                         *)

LEMMA PostStep ==
    ASSUME IInv, NEW c \in Caller, Post(c)
    PROVE  IInv'
<1>1. Own(c) \in Task
  BY ForAssumption DEF IInv, TypeOK
<1>2. /\ backlog' \in Seq(Task) /\ Distinct'
      /\ Queued' = Queued \cup {Own(c)} /\ Known' = Known \cup {Own(c)} /\ Own(c) \notin Known
      /\ UNCHANGED <<active, finished>>
  BY <1>1, SubmitKeeps DEF IInv, TypeOK, Post
<1>3. /\ pc[c] = "idle" /\ pc' = [pc EXCEPT ![c] = "queued"]
      /\ UNCHANGED <<inside, call, next, got, failed, once, again>>
  BY DEF Post, Goto, plan, workVars
<1>4. TypeOK'
  BY <1>1, <1>2, <1>3 DEF IInv, TypeOK
<1>5. KnownInv'
  <2>1. ASSUME NEW d \in Caller, NEW t \in Int, <<d, t>> \in Known'
        PROVE  t = -1 \/ t \in 0..(next'[d] - 1)
    BY <1>2, <1>3, <2>1 DEF IInv, KnownInv, Own
  <2>2. ASSUME NEW d \in Caller, Own(d) \in Queued'
        PROVE  pc'[d] = "queued"
    BY <1>2, <1>3, <2>2 DEF IInv, KnownInv, Own, TypeOK
  <2> QED
    BY <2>1, <2>2 DEF KnownInv, Own
<1>6. ASSUME NEW d \in Caller
      PROVE  PlaceInv(d)' /\ DoneInv(d)'
  <2>1. CASE d # c
    BY <1>2, <1>3, <2>1, CallerUntouched DEF IInv, TypeOK
  <2>2. CASE d = c
    <3>1. pc'[c] = "queued"
      BY <1>3 DEF IInv, TypeOK
    <3> QED
      BY <1>2, <1>3, <2>2, <3>1 DEF IInv, PlaceInv, DoneInv
  <2> QED
    BY <2>1, <2>2
<1> QED
  BY <1>2, <1>4, <1>5, <1>6 DEF IInv

\* A step of a caller that leaves the pool and all work alone.
LEMMA QuietStep ==
    ASSUME IInv, NEW c \in Caller, NEW label, Goto(c, label), label # "queued", label # "idle",
           label \in {"begin", "submit", "wait", "returned", "threw"},
           pc[c] # "queued", got' = got,
           UNCHANGED <<plan, next, failed, abstractVars>>,
           once' \in [Caller -> SUBSET Int], again' \in [Caller -> SUBSET Int],
           \A d \in Caller : d # c => once'[d] = once[d] /\ again'[d] = again[d],
           PlaceInv(c)', DoneInv(c)'
    PROVE  IInv'
<1>1. /\ pc' = [pc EXCEPT ![c] = label]
      /\ UNCHANGED <<inside, call, next, got, failed, backlog, active, finished>>
  BY DEF Goto, plan, abstractVars
<1>2. Queued' = Queued /\ Known' = Known
  BY <1>1 DEF Queued, Known
<1>3. TypeOK'
  BY <1>1, <1>2 DEF IInv, TypeOK
<1>4. KnownInv' /\ Distinct'
  BY <1>1, <1>2 DEF IInv, KnownInv, Distinct, TypeOK
<1>5. ASSUME NEW d \in Caller
      PROVE  PlaceInv(d)' /\ DoneInv(d)'
  <2>1. CASE d # c
    BY <1>1, <2>1, CallerUntouched DEF IInv, TypeOK
  <2> QED
    BY <2>1
<1> QED
  BY <1>3, <1>4, <1>5 DEF IInv

LEMMA ReturnAtOnceStep ==
    ASSUME IInv, NEW c \in Caller, ReturnAtOnce(c)
    PROVE  IInv'
<1>1. /\ pc[c] = "begin" /\ Size(call[c]) <= 0 /\ Goto(c, "returned")
      /\ UNCHANGED <<plan, next, got, workVars, abstractVars>>
      /\ UNCHANGED <<call, failed, once, again, finished>>
  BY DEF ReturnAtOnce, plan, workVars, abstractVars
<1>2. pc'[c] = "returned"
  BY <1>1 DEF Goto, IInv, TypeOK
<1>3. next[c] = 0 /\ once[c] = {} /\ got[c] = 0 /\ again[c] = {}
  <2>1. next[c] = 0 /\ once[c] = {} /\ again[c] = {}
    BY <1>1 DEF IInv, PlaceInv, DoneInv
  <2>2. got[c] \in Nat /\ got[c] <= next[c]
    BY DEF IInv, TypeOK
  <2> QED
    BY <2>1, <2>2
<1>4. Work(call[c]) = {}
  BY <1>1, NoWork, CallOf DEF IInv
<1>5. Size(call[c]) \in Int /\ 0..(0 - 1) = {}
  BY CallOf, CallType DEF IInv
<1>6. PlaceInv(c)'
  BY <1>1, <1>2, <1>3, <1>4, <1>5 DEF PlaceInv
<1>7. DoneInv(c)'
  BY <1>1, <1>3, <1>5 DEF DoneInv
<1> QED
  BY <1>1, <1>6, <1>7, QuietStep DEF IInv, TypeOK, workVars

LEMMA DirectStep ==
    ASSUME IInv, NEW c \in Caller, Direct(c)
    PROVE  IInv'
<1> DEFINE k == call[c]
<1>1. /\ pc[c] = "begin" /\ Size(k) > 0 /\ ~k.pooled
      /\ UNCHANGED <<plan, next, got, failed, abstractVars>>
      /\ UNCHANGED <<call, finished>>
  BY DEF Direct, plan, abstractVars
<1>2. PICK S, label :
         /\ Goto(c, label) /\ Apply(c, S)
         /\ \/ label = "returned" /\ S = k.begin..(k.end - 1)
            \/ label = "threw" /\ \E i \in k.begin..(k.end - 1) : S = k.begin..(i - 1)
  BY DEF Direct
<1>3. IsCall(k) /\ k.begin \in Int /\ k.end \in Int
  BY CallOf, CallType DEF IInv
<1> HIDE DEF k
<1>4. S \subseteq k.begin..(k.end - 1)
  <2>1. CASE S = k.begin..(k.end - 1)
    BY <2>1
  <2>2. CASE \E i \in k.begin..(k.end - 1) : S = k.begin..(i - 1)
    BY <1>3, <2>2
  <2> QED
    BY <1>2, <2>1, <2>2
<1> USE DEF k
<1> DEFINE done == UNION {Elements(k, i) : i \in S}
<1>5. done \subseteq Work(k) /\ done \subseteq Int /\ (label = "returned" => done = Work(k))
  <2>1. UNION {Elements(k, i) : i \in k.begin..(k.end - 1)} = Work(k)
    BY <1>3, ElementsCover
  <2>2. done \subseteq UNION {Elements(k, i) : i \in k.begin..(k.end - 1)}
    BY <1>4
  <2>3. label = "returned" => S = k.begin..(k.end - 1)
    BY <1>2
  <2> QED
    BY <2>1, <2>2, <2>3, WorkIsOfIntegers
<1>6. next[c] = 0 /\ once[c] = {} /\ again[c] = {} /\ got[c] = 0
  <2>1. next[c] = 0 /\ once[c] = {} /\ again[c] = {}
    BY <1>1 DEF IInv, PlaceInv, DoneInv
  <2>2. got[c] \in Nat /\ got[c] <= next[c]
    BY DEF IInv, TypeOK
  <2> QED
    BY <2>1, <2>2
<1>7. once' = [once EXCEPT ![c] = @ \cup done] /\ again' = [again EXCEPT ![c] = @ \cup (once[c] \cap done)]
  BY <1>2 DEF Apply
<1> HIDE DEF done
<1>8. /\ once'[c] = done /\ again'[c] = {} /\ pc'[c] = label
      /\ once' \in [Caller -> SUBSET Int] /\ again' \in [Caller -> SUBSET Int]
      /\ \A d \in Caller : d # c => once'[d] = once[d] /\ again'[d] = again[d]
  BY <1>2, <1>5, <1>6, <1>7 DEF IInv, TypeOK, Goto
<1>9. next'[c] = 0 /\ got'[c] = 0 /\ 0..(0 - 1) = {} /\ TasksOf(k) \in Nat
  BY <1>1, <1>3, <1>6, ChunkFacts
<1>10. PlaceInv(c)'
  BY <1>1, <1>2, <1>5, <1>8, <1>9 DEF PlaceInv
<1>11. DoneInv(c)'
  BY <1>1, <1>8, <1>9 DEF DoneInv
<1> QED
  BY <1>1, <1>2, <1>8, <1>10, <1>11, QuietStep

LEMMA BeginStep ==
    ASSUME IInv, NEW c \in Caller, Begin(c)
    PROVE  IInv'
<1>1. /\ pc[c] = "begin" /\ Size(call[c]) > 0 /\ call[c].pooled /\ Goto(c, "submit")
      /\ UNCHANGED <<plan, next, got, workVars, abstractVars>>
      /\ UNCHANGED <<call, failed, once, again, finished>>
  BY DEF Begin, plan, workVars, abstractVars
<1>2. pc'[c] = "submit"
  BY <1>1 DEF Goto, IInv, TypeOK
<1>3. PlaceInv(c)' /\ DoneInv(c)'
  BY <1>1, <1>2 DEF IInv, PlaceInv, DoneInv
<1> QED
  BY <1>1, <1>3, QuietStep DEF IInv, TypeOK, workVars

LEMMA EndOfLoopStep ==
    ASSUME IInv, NEW c \in Caller, EndOfLoop(c)
    PROVE  IInv'
<1>1. /\ pc[c] = "submit" /\ Exhausted(call[c], next[c]) /\ Goto(c, "wait")
      /\ UNCHANGED <<plan, next, got, workVars, abstractVars>>
      /\ UNCHANGED <<call, failed, once, again, finished>>
  BY DEF EndOfLoop, Exhausted, plan, workVars, abstractVars
<1>2. pc'[c] = "wait"
  BY <1>1 DEF Goto, IInv, TypeOK
<1>3. PlaceInv(c)' /\ DoneInv(c)'
  BY <1>1, <1>2 DEF IInv, PlaceInv, DoneInv, Exhausted
<1> QED
  BY <1>1, <1>3, QuietStep DEF IInv, TypeOK, workVars

LEMMA RethrowStep ==
    ASSUME IInv, NEW c \in Caller, Rethrow(c)
    PROVE  IInv'
<1>1. /\ pc[c] = "wait" /\ <<c, got[c]>> \in failed /\ Goto(c, "threw")
      /\ UNCHANGED <<plan, next, got, workVars, abstractVars>>
      /\ UNCHANGED <<call, failed, once, again, finished>>
  BY DEF Rethrow, plan, workVars, abstractVars
<1>2. pc'[c] = "threw"
  BY <1>1 DEF Goto, IInv, TypeOK
<1>3. PlaceInv(c)' /\ DoneInv(c)'
  BY <1>1, <1>2 DEF IInv, PlaceInv, DoneInv
<1> QED
  BY <1>1, <1>3, QuietStep DEF IInv, TypeOK, workVars

LEMMA ReturnStep ==
    ASSUME IInv, NEW c \in Caller, Return(c)
    PROVE  IInv'
<1> DEFINE k == call[c]
<1>1. /\ pc[c] = "wait" /\ got[c] = next[c] /\ Goto(c, "returned")
      /\ UNCHANGED <<plan, next, got, workVars, abstractVars>>
      /\ UNCHANGED <<call, failed, once, again, finished>>
  BY DEF Return, plan, workVars, abstractVars
<1>2. pc'[c] = "returned"
  BY <1>1 DEF Goto, IInv, TypeOK
<1>3. IsCall(k) /\ Size(k) > 0 /\ k.pooled /\ Exhausted(k, next[c]) /\ next[c] \in Nat
  BY <1>1, CallOf DEF IInv, PlaceInv, TypeOK
<1>4. \A t \in 0..(next[c] - 1) : ChunkWork(k, t) \subseteq once[c]
  BY <1>1 DEF IInv, PlaceInv, DoneInv
<1>5. Work(k) \subseteq once[c]
  BY <1>3, <1>4, WorkCovered
<1>6. once[c] \subseteq Work(k)
  <2>1. \A t \in 0..(next[c] - 1) : ChunkWork(k, t) \subseteq Work(k)
    BY <1>3, WorkInside
  <2> QED
    BY <1>3, <2>1 DEF IInv, DoneInv
<1>7. PlaceInv(c)' /\ DoneInv(c)'
  BY <1>1, <1>2, <1>3, <1>5, <1>6 DEF IInv, PlaceInv, DoneInv
<1> QED
  BY <1>1, <1>7, QuietStep DEF IInv, TypeOK, workVars

LEMMA EnqueueStep ==
    ASSUME IInv, NEW c \in Caller, Enqueue(c)
    PROVE  IInv'
<1> DEFINE k == call[c]
           n == next[c]
<1>1. /\ pc[c] = "submit" /\ n < TasksOf(k) /\ n \in Nat
      /\ Submit(<<c, n>>) /\ next' = [next EXCEPT ![c] = n + 1]
      /\ UNCHANGED <<inside, call, pc, got, failed, once, again>>
  BY DEF Enqueue, plan, workVars, IInv, TypeOK
<1>2. IsCall(k) /\ Size(k) > 0 /\ k.pooled /\ TasksOf(k) \in Nat
  BY <1>1, CallOf, ChunkFacts DEF IInv, PlaceInv
<1>3. <<c, n>> \in Task
  <2>1. {c} \X (0..(TasksOf(k) - 1)) \subseteq Task
    BY <1>2, ForAssumption DEF IInv, TypeOK
  <2> QED
    BY <1>1, <1>2, <2>1
<1>4. /\ backlog' \in Seq(Task) /\ Distinct'
      /\ Queued' = Queued \cup {<<c, n>>} /\ Known' = Known \cup {<<c, n>>} /\ <<c, n>> \notin Known
      /\ UNCHANGED <<active, finished>>
  BY <1>1, <1>3, SubmitKeeps DEF IInv, TypeOK
<1>5. next' \in [Caller -> Nat] /\ next'[c] = n + 1 /\ \A d \in Caller : d # c => next'[d] = next[d]
  BY <1>1 DEF IInv, TypeOK
<1>6. TypeOK'
  <2>1. \A d \in Caller : got'[d] <= next'[d]
    BY <1>1, <1>5 DEF IInv, TypeOK
  <2> QED
    BY <1>1, <1>3, <1>4, <1>5, <2>1 DEF IInv, TypeOK
<1>7. KnownInv'
  <2>1. ASSUME NEW d \in Caller, NEW t \in Int, <<d, t>> \in Known'
        PROVE  t = -1 \/ t \in 0..(next'[d] - 1)
    <3>1. CASE <<d, t>> = <<c, n>>
      BY <1>1, <1>5, <3>1
    <3>2. CASE <<d, t>> \in Known
      <4>1. t = -1 \/ t \in 0..(next[d] - 1)
        BY <3>2 DEF IInv, KnownInv
      <4>2. next[d] \in Nat /\ next'[d] \in Nat /\ next[d] <= next'[d]
        BY <1>1, <1>5 DEF IInv, TypeOK
      <4> QED
        BY <4>1, <4>2
    <3> QED
      BY <1>4, <2>1, <3>1, <3>2
  <2>2. ASSUME NEW d \in Caller, Own(d) \in Queued'
        PROVE  pc'[d] = "queued"
    <3>1. Own(d) # <<c, n>>
      BY <1>1 DEF Own
    <3> QED
      BY <1>1, <1>4, <2>2, <3>1 DEF IInv, KnownInv
  <2> QED
    BY <2>1, <2>2 DEF KnownInv, Own
<1>8. ASSUME NEW d \in Caller, d # c
      PROVE  PlaceInv(d)' /\ DoneInv(d)'
  BY <1>1, <1>4, <1>5, <1>8, CallerUntouched DEF IInv
<1>9. PlaceInv(c)'
  BY <1>1, <1>2, <1>4, <1>5 DEF IInv, PlaceInv
<1>10. DoneInv(c)'
  <2>1. \A t \in 0..(n + 1 - 1) : t \in 0..(n - 1) \/ t = n
    BY <1>1
  <2>2. \A t \in 0..(n - 1) : t \in 0..(n + 1 - 1)
    BY <1>1
  <2>3. <<c, n>> \notin finished
    BY <1>4 DEF Known
  <2>4. /\ again[c] = {}
        /\ \A w \in once[c] : \E t \in 0..(n - 1) : <<c, t>> \in finished /\ w \in ChunkWork(k, t)
        /\ \A t \in 0..(n - 1) : <<c, t>> \in finished \ failed => ChunkWork(k, t) \subseteq once[c]
    BY <1>2 DEF IInv, DoneInv
  <2>5. /\ \A w \in once[c] : \E t \in 0..(n + 1 - 1) :
              <<c, t>> \in finished /\ w \in ChunkWork(k, t)
        /\ \A t \in 0..(n + 1 - 1) :
              <<c, t>> \in finished \ failed => ChunkWork(k, t) \subseteq once[c]
    BY <2>1, <2>2, <2>3, <2>4
  <2> QED
    BY <1>1, <1>4, <1>5, <2>4, <2>5 DEF DoneInv
<1> QED
  BY <1>4, <1>6, <1>7, <1>8, <1>9, <1>10 DEF IInv

LEMMA GetStep ==
    ASSUME IInv, NEW c \in Caller, Get(c)
    PROVE  IInv'
<1> DEFINE g == got[c]
<1>1. /\ pc[c] = "wait" /\ g < next[c] /\ g \in Nat /\ next[c] \in Nat
      /\ <<c, g>> \in finished \ failed /\ got' = [got EXCEPT ![c] = g + 1]
      /\ UNCHANGED <<inside, call, pc, next, failed, once, again, backlog, active, finished>>
  BY DEF Get, plan, workVars, abstractVars, IInv, TypeOK
<1>2. got' \in [Caller -> Nat] /\ got'[c] = g + 1 /\ \A d \in Caller : d # c => got'[d] = got[d]
  BY <1>1 DEF IInv, TypeOK
<1>3. Queued' = Queued /\ Known' = Known
  BY <1>1 DEF Queued, Known
<1>4. TypeOK'
  <2>1. \A d \in Caller : got'[d] <= next'[d]
    BY <1>1, <1>2 DEF IInv, TypeOK
  <2> QED
    BY <1>1, <1>2, <1>3, <2>1 DEF IInv, TypeOK
<1>5. KnownInv' /\ Distinct'
  BY <1>1, <1>3 DEF IInv, KnownInv, Distinct
<1>6. ASSUME NEW d \in Caller, d # c
      PROVE  PlaceInv(d)' /\ DoneInv(d)'
  BY <1>1, <1>2, <1>6, CallerUntouched DEF IInv
<1>7. PlaceInv(c)'
  <2>1. \A t \in 0..(g + 1 - 1) : t \in 0..(g - 1) \/ t = g
    BY <1>1
  <2> QED
    BY <1>1, <1>2, <2>1 DEF IInv, PlaceInv
<1>8. DoneInv(c)'
  BY <1>1 DEF IInv, DoneInv
<1> QED
  BY <1>4, <1>5, <1>6, <1>7, <1>8 DEF IInv

LEMMA StartTaskStep ==
    ASSUME IInv, StartTask
    PROVE  IInv'
<1> DEFINE e == Head(backlog)
<1>1. /\ Start /\ UNCHANGED <<inside, call, next, got, failed, once, again>>
      /\ pc' = [c \in Caller |-> IF Own(c) = e THEN "begin" ELSE pc[c]]
  BY DEF StartTask, plan, workVars
<1>2. /\ backlog' \in Seq(Task) /\ Distinct' /\ e \in Queued /\ Queued' = Queued \ {e}
      /\ Known' = Known /\ finished' = finished
  BY <1>1, StartKeeps DEF IInv, TypeOK
<1> HIDE DEF e
<1>3. \A c \in Caller : pc'[c] = IF Own(c) = e THEN "begin" ELSE pc[c]
  BY <1>1
<1>4. TypeOK'
  <2>1. pc' \in [Caller -> {"idle", "queued", "begin", "submit", "wait", "returned", "threw"}]
    BY <1>1 DEF IInv, TypeOK
  <2>2. (finished \cup active \cup Queued)' \subseteq Task
    BY <1>2 DEF IInv, TypeOK, Known
  <2> QED
    BY <1>1, <1>2, <2>1, <2>2 DEF IInv, TypeOK
<1>5. KnownInv'
  BY <1>1, <1>2, <1>3 DEF IInv, KnownInv
<1>6. ASSUME NEW c \in Caller
      PROVE  PlaceInv(c)' /\ DoneInv(c)'
  <2>1. CASE Own(c) # e
    BY <1>1, <1>2, <1>3, <2>1, CallerUntouched DEF IInv
  <2>2. CASE Own(c) = e
    <3>1. pc[c] = "queued" /\ pc'[c] = "begin"
      BY <1>2, <1>3, <2>2 DEF IInv, KnownInv
    <3> QED
      BY <1>1, <1>2, <3>1 DEF IInv, PlaceInv, DoneInv
  <2> QED
    BY <2>1, <2>2
<1> QED
  BY <1>2, <1>4, <1>5, <1>6 DEF IInv

LEMMA FinishCallerStep ==
    ASSUME IInv, NEW c \in Caller, FinishCaller(c)
    PROVE  IInv'
<1>1. /\ Finish(Own(c)) /\ UNCHANGED <<inside, call, pc, next, got, failed, once, again>>
  BY DEF FinishCaller, forVars, plan, workVars
<1>2. /\ Distinct' /\ backlog' = backlog /\ Queued' = Queued /\ Known' = Known
      /\ finished' = finished \cup {Own(c)} /\ active' = active \ {Own(c)} /\ Own(c) \in active
  BY <1>1, FinishKeeps DEF IInv
<1>3. TypeOK'
  BY <1>1, <1>2 DEF IInv, TypeOK
<1>4. KnownInv'
  BY <1>1, <1>2 DEF IInv, KnownInv
<1>5. ASSUME NEW d \in Caller
      PROVE  PlaceInv(d)' /\ DoneInv(d)'
  <2>1. next[d] \in Nat /\ got[d] \in Nat /\ got[d] <= next[d]
    BY DEF IInv, TypeOK
  <2>2. \A t \in 0..(next[d] - 1) : Own(c) # <<d, t>>
    BY <2>1 DEF Own
  <2> QED
    BY <1>1, <1>2, <2>1, <2>2, OtherFinished DEF IInv
<1> QED
  BY <1>2, <1>3, <1>4, <1>5 DEF IInv

\* A chunk that ends has been enqueued and was running, and it did what fn does to
\* some of its indices: to all of them, unless it failed.
LEMMA FinishApplies ==
    ASSUME IInv, NEW c \in Caller, NEW t \in 0..next[c], FinishChunk(c, t)
    PROVE  /\ t \in 0..(next[c] - 1) /\ <<c, t>> \in active /\ <<c, t>> \notin finished
           /\ Size(call[c]) > 0 /\ call[c].pooled
           /\ \E S : /\ S \subseteq Indices(call[c], t) /\ Apply(c, S)
                     /\ \/ S = Indices(call[c], t) /\ failed' = failed
                        \/ failed' = failed \cup {<<c, t>>}
<1> DEFINE k == call[c]
           e == <<c, t>>
<1>1. /\ Finish(e) /\ UNCHANGED <<inside, call, pc, next, got>>
  BY DEF FinishChunk, forVars, plan
<1>2. /\ Distinct' /\ backlog' = backlog /\ Queued' = Queued /\ Known' = Known
      /\ finished' = finished \cup {e} /\ active' = active \ {e}
      /\ e \in active /\ e \notin finished
  BY <1>1, FinishKeeps DEF IInv
<1>3. next[c] \in Nat /\ got[c] \in Nat /\ got[c] <= next[c]
  BY DEF IInv, TypeOK
<1>4. t \in 0..(next[c] - 1)
  <2>1. e \in Known /\ t \in Int /\ t # -1
    BY <1>2, <1>3 DEF Known
  <2>2. \A u \in Int : <<c, u>> \in Known => u = -1 \/ u \in 0..(next[c] - 1)
    BY DEF IInv, KnownInv
  <2> QED
    BY <2>1, <2>2
<1>5. IsCall(k) /\ Size(k) > 0 /\ k.pooled /\ t \in Nat
  <2>1. next[c] > 0 /\ t \in Nat
    BY <1>3, <1>4
  <2>2. IsCall(k)
    BY CallOf DEF IInv
  <2> QED
    BY <2>1, <2>2 DEF IInv, PlaceInv
<1>6. \E S : /\ S \subseteq Indices(k, t) /\ Apply(c, S)
             /\ \/ S = Indices(k, t) /\ failed' = failed
                \/ failed' = failed \cup {e}
  <2>1. CASE Apply(c, Indices(k, t)) /\ failed' = failed
    BY <2>1
  <2>2. ASSUME NEW i \in Indices(k, t), Apply(c, ChunkFrom(k, t)..(i - 1)), failed' = failed \cup {e}
        PROVE  \E S : /\ S \subseteq Indices(k, t) /\ Apply(c, S)
                      /\ \/ S = Indices(k, t) /\ failed' = failed
                         \/ failed' = failed \cup {e}
    <3>1. ChunkFrom(k, t) \in Int /\ ChunkTo(k, t) \in Int
      <4>1. k.begin \in Int /\ k.end \in Int /\ ChunkSize(k) \in Nat
        BY <1>5, CallType, ChunkFacts
      <4>2. t * ChunkSize(k) \in Int
        BY <1>5, <4>1
      <4> QED
        BY <4>1, <4>2 DEF ChunkFrom, ChunkTo, ChunkStart, ChunkEnd, Lesser
    <3>2. ChunkFrom(k, t)..(i - 1) \subseteq Indices(k, t)
      BY <3>1 DEF Indices
    <3> QED
      BY <2>2, <3>2
  <2> QED
    BY <2>1, <2>2 DEF FinishChunk
<1> QED
  BY <1>2, <1>4, <1>5, <1>6

LEMMA FinishChunkStep ==
    ASSUME IInv, NEW c \in Caller, NEW t \in 0..next[c], FinishChunk(c, t)
    PROVE  IInv'
<1> DEFINE k == call[c]
           e == <<c, t>>
<1>1. /\ Finish(e) /\ UNCHANGED <<inside, call, pc, next, got>>
  BY DEF FinishChunk, forVars, plan
<1>2. /\ Distinct' /\ backlog' = backlog /\ Queued' = Queued /\ Known' = Known
      /\ finished' = finished \cup {e} /\ active' = active \ {e}
      /\ e \in active /\ e \notin finished
  BY <1>1, FinishKeeps DEF IInv
<1>3. next[c] \in Nat /\ got[c] \in Nat /\ got[c] <= next[c]
  BY DEF IInv, TypeOK
<1>4. t \in 0..(next[c] - 1)
  BY FinishApplies
<1>5. IsCall(k) /\ Size(k) > 0 /\ k.pooled /\ t \in Nat
  <2>1. IsCall(k)
    BY CallOf DEF IInv
  <2>2. t \in Nat
    BY <1>3, <1>4
  <2> QED
    BY <2>1, <2>2, FinishApplies
<1>6. PICK S :
         /\ S \subseteq Indices(k, t) /\ Apply(c, S)
         /\ \/ S = Indices(k, t) /\ failed' = failed
            \/ failed' = failed \cup {e}
  BY FinishApplies
<1> DEFINE done == UNION {Elements(k, i) : i \in S}
<1>7. /\ done \subseteq ChunkWork(k, t) /\ done \subseteq Work(k) /\ once[c] \cap done = {}
      /\ (S = Indices(k, t) => done = ChunkWork(k, t))
  BY <1>2, <1>4, <1>6, ChunkDone DEF IInv, ChunkWork
<1>8. done \subseteq Int
  BY <1>7, WorkIsOfIntegers
<1>9. once' = [once EXCEPT ![c] = @ \cup done] /\ again' = [again EXCEPT ![c] = @ \cup (once[c] \cap done)]
  BY <1>6 DEF Apply
<1> HIDE DEF done
<1>10. /\ once'[c] = once[c] \cup done /\ again'[c] = again[c]
       /\ once' \in [Caller -> SUBSET Int] /\ again' \in [Caller -> SUBSET Int]
       /\ \A d \in Caller : d # c => once'[d] = once[d] /\ again'[d] = again[d]
  BY <1>7, <1>8, <1>9 DEF IInv, TypeOK
<1>11. failed \subseteq failed' /\ failed' \subseteq failed \cup {e}
  BY <1>6
<1>12. TypeOK'
  BY <1>1, <1>2, <1>10, <1>11 DEF IInv, TypeOK
<1>13. KnownInv'
  BY <1>1, <1>2 DEF IInv, KnownInv
<1>14. ASSUME NEW d \in Caller, d # c
       PROVE  PlaceInv(d)' /\ DoneInv(d)'
  <2>1. next[d] \in Nat /\ got[d] \in Nat /\ got[d] <= next[d]
    BY DEF IInv, TypeOK
  <2>2. \A u \in 0..(next[d] - 1) : e # <<d, u>>
    BY <1>14
  <2> QED
    BY <1>1, <1>2, <1>10, <1>11, <1>14, <2>1, <2>2, OtherFinished DEF IInv
<1>15. \A u \in 0..(next[c] - 1) :
          <<c, u>> \in finished' \ failed' =>
             <<c, u>> \in finished \ failed \/ (u = t /\ S = Indices(k, t))
  BY <1>2, <1>6
<1>16. \A u \in 0..(next[c] - 1) : <<c, u>> \in finished \ failed => <<c, u>> \in finished' \ failed'
  BY <1>2, <1>11
<1>17. PlaceInv(c)'
  <2>1. pc[c] \notin {"idle", "queued", "begin"}
    <3>1. next[c] # 0
      BY <1>3, <1>4
    <3> QED
      BY <3>1 DEF IInv, PlaceInv
  <2>2. pc[c] # "returned"
    BY <1>2, <1>3, <1>4 DEF IInv, PlaceInv
  <2>3. \A u \in 0..(got[c] - 1) : u \in 0..(next[c] - 1)
    BY <1>3
  <2> QED
    BY <1>1, <1>11, <1>16, <2>1, <2>2, <2>3 DEF IInv, PlaceInv
<1>18. DoneInv(c)'
  <2>1. again'[c] = {}
    BY <1>10 DEF IInv, DoneInv
  <2>2. \A w \in once'[c] : \E u \in 0..(next[c] - 1) :
            <<c, u>> \in finished' /\ w \in ChunkWork(k, u)
    BY <1>2, <1>4, <1>5, <1>7, <1>10 DEF IInv, DoneInv
  <2>3. \A u \in 0..(next[c] - 1) : <<c, u>> \in finished' \ failed' => ChunkWork(k, u) \subseteq once'[c]
    BY <1>7, <1>10, <1>15 DEF IInv, DoneInv
  <2> QED
    BY <1>1, <2>1, <2>2, <2>3 DEF DoneInv
<1> QED
  BY <1>2, <1>12, <1>13, <1>14, <1>17, <1>18 DEF IInv

-----------------------------------------------------------------------------
(* The theorems.                                                           *)

LEMMA InitInv == Init => IInv
<1> SUFFICES ASSUME Init
             PROVE  IInv
  OBVIOUS
<1>1. /\ backlog = <<>> /\ active = {} /\ finished = {} /\ failed = {}
      /\ inside \subseteq Caller /\ call \in Plans
      /\ pc = [c \in Caller |-> IF c \in inside THEN "idle" ELSE "begin"]
      /\ next = [c \in Caller |-> 0] /\ got = [c \in Caller |-> 0]
      /\ once = [c \in Caller |-> {}] /\ again = [c \in Caller |-> {}]
  BY DEF Init, AbstractInit
<1>2. backlog \in Seq(Task) /\ DOMAIN backlog = {}
  <2>1. backlog \in Seq(Task) /\ Len(backlog) = 0
    BY <1>1, EmptySeq
  <2>2. DOMAIN backlog = 1..Len(backlog)
    BY <2>1, LenProperties
  <2> QED
    BY <2>1, <2>2
<1>3. Queued = {} /\ Known = {}
  BY <1>1, <1>2 DEF Queued, Known
<1>4. TypeOK
  BY <1>1, <1>2, <1>3 DEF TypeOK
<1>5. Distinct /\ KnownInv
  BY <1>1, <1>2, <1>3 DEF Distinct, KnownInv
<1>6. ASSUME NEW c \in Caller
      PROVE  PlaceInv(c) /\ DoneInv(c)
  <2>1. /\ pc[c] \in {"idle", "begin"} /\ next[c] = 0 /\ got[c] = 0
        /\ once[c] = {} /\ again[c] = {} /\ 0..(0 - 1) = {}
    BY <1>1
  <2>2. Size(call[c]) > 0 => 0 <= TasksOf(call[c])
    BY <1>4, CallOf, ChunkFacts
  <2> QED
    BY <2>1, <2>2 DEF PlaceInv, DoneInv
<1> QED
  BY <1>4, <1>5, <1>6 DEF IInv

LEMMA StepInv == IInv /\ [Next]_vars => IInv'
<1> SUFFICES ASSUME IInv, [Next]_vars
             PROVE  IInv'
  OBVIOUS
<1>1. ASSUME NEW c \in Caller, CallerStep(c)
      PROVE  IInv'
  BY <1>1, ReturnAtOnceStep, DirectStep, BeginStep, EnqueueStep, EndOfLoopStep, GetStep,
     RethrowStep, ReturnStep DEF CallerStep
<1>2. ASSUME NEW c \in Caller, Post(c) \/ FinishCaller(c)
      PROVE  IInv'
  BY <1>2, PostStep, FinishCallerStep
<1>3. CASE StartTask
  BY <1>3, StartTaskStep
<1>4. ASSUME NEW c \in Caller, NEW t \in 0..next[c], FinishChunk(c, t)
      PROVE  IInv'
  BY <1>4, FinishChunkStep
<1>5. CASE UNCHANGED vars
  <2>1. UNCHANGED <<inside, call, pc, next, got, failed, once, again, backlog, active, finished>>
    BY <1>5 DEF vars, forVars, plan, workVars, abstractVars
  <2>2. Queued' = Queued /\ Known' = Known
    BY <2>1 DEF Queued, Known
  <2>3. TypeOK' /\ Distinct' /\ KnownInv'
    BY <2>1, <2>2 DEF IInv, TypeOK, Distinct, KnownInv
  <2>4. \A c \in Caller : PlaceInv(c)' /\ DoneInv(c)'
    BY <2>1, CallerUntouched DEF IInv
  <2> QED
    BY <2>3, <2>4 DEF IInv
<1> QED
  BY <1>1, <1>2, <1>3, <1>4, <1>5 DEF Next, Terminated

LEMMA Invariance == SafetySpec => []IInv
  BY InitInv, StepInv, PTL DEF SafetySpec

\* ParallelFor.h:26-40: the caller's and the pool's view of the chunks agree in type.
THEOREM ForTypeCorrect == SafetySpec => []TypeOK
<1>1. IInv => TypeOK
  BY DEF IInv
<1> QED
  BY <1>1, Invariance, PTL

\* ParallelFor.h, Ops_Parallel.h: a call that returns has done all its work once.
THEOREM ForEachOnce == SafetySpec => []EachOnce
<1>1. IInv => EachOnce
  <2>1. SUFFICES ASSUME IInv, NEW c \in Caller, pc[c] = "returned"
                 PROVE  /\ once[c] = Work(call[c]) /\ again[c] = {}
                        /\ \A t \in 0..next[c] : <<c, t>> \notin Queued \cup active
    BY DEF EachOnce
  <2>2. next[c] \in Nat /\ got[c] = next[c] /\ once[c] = Work(call[c]) /\ again[c] = {}
    BY <2>1 DEF IInv, TypeOK, PlaceInv, DoneInv
  <2>3. \A t \in 0..(next[c] - 1) : <<c, t>> \in finished
    BY <2>1, <2>2 DEF IInv, PlaceInv
  <2>4. ASSUME NEW t \in 0..next[c], <<c, t>> \in Queued \cup active
        PROVE  FALSE
    <3>1. t \in Int /\ t # -1 /\ <<c, t>> \in Known
      BY <2>2, <2>4 DEF Known
    <3>2. t \in 0..(next[c] - 1)
      BY <2>1, <3>1 DEF IInv, KnownInv
    <3> QED
      BY <2>1, <2>3, <2>4, <3>2 DEF IInv, Distinct
  <2> QED
    BY <2>2, <2>4
<1> QED
  BY <1>1, Invariance, PTL

\* Ops_Parallel.h:16-95: the kernels need no locks.
THEOREM ForNoSharedElement == SafetySpec => []NoSharedElement
<1>1. IInv => NoSharedElement
  <2>1. SUFFICES ASSUME IInv, NEW c \in Caller
                 PROVE  LET running == {t \in 0..next[c] : <<c, t>> \in active}
                        IN  /\ again[c] = {}
                            /\ \A t \in running : \A i \in Indices(call[c], t) :
                                  Elements(call[c], i) \cap once[c] = {}
                            /\ \A t, u \in running : t # u =>
                                  \A i \in Indices(call[c], t), j \in Indices(call[c], u) :
                                      Elements(call[c], i) \cap Elements(call[c], j) = {}
    BY DEF NoSharedElement
  <2> DEFINE k == call[c]
  <2>2. next[c] \in Nat /\ IsCall(k) /\ again[c] = {}
    BY <2>1, CallOf DEF IInv, TypeOK, DoneInv
  <2>3. ASSUME NEW t \in 0..next[c], <<c, t>> \in active
        PROVE  /\ t \in 0..(next[c] - 1) /\ t \in Nat /\ <<c, t>> \notin finished
               /\ Size(k) > 0
    <3>1. t \in Int /\ t # -1 /\ <<c, t>> \in Known
      BY <2>2, <2>3 DEF Known
    <3>2. t \in 0..(next[c] - 1)
      BY <2>1, <3>1 DEF IInv, KnownInv
    <3>3. next[c] > 0
      BY <2>2, <3>2
    <3>4. Size(k) > 0
      BY <2>1, <3>3 DEF IInv, PlaceInv
    <3>5. <<c, t>> \notin finished
      BY <2>1, <2>3 DEF IInv, Distinct
    <3> QED
      BY <2>2, <3>2, <3>4, <3>5
  <2>4. ASSUME NEW t \in 0..next[c], <<c, t>> \in active, NEW i \in Indices(k, t)
        PROVE  Elements(k, i) \cap once[c] = {}
    <3>1. t \in 0..(next[c] - 1) /\ <<c, t>> \notin finished
      BY <2>3, <2>4
    <3>2. once[c] \cap UNION {Elements(k, j) : j \in Indices(k, t)} = {}
      BY <2>1, <3>1, ChunkDone DEF IInv
    <3> QED
      BY <2>4, <3>2
  <2>5. ASSUME NEW t \in 0..next[c], <<c, t>> \in active, NEW u \in 0..next[c], <<c, u>> \in active,
               t # u, NEW i \in Indices(k, t), NEW j \in Indices(k, u)
        PROVE  Elements(k, i) \cap Elements(k, j) = {}
    BY <2>2, <2>3, <2>5, WorkDisjoint
  <2> QED
    BY <2>2, <2>4, <2>5
<1> QED
  BY <1>1, Invariance, PTL

\* ParallelFor.h:39-40: which exception comes out.
THEOREM ForFirstExceptionWins == SafetySpec => []FirstExceptionWins
<1>1. IInv => FirstExceptionWins
  BY DEF IInv, PlaceInv, FirstExceptionWins
<1> QED
  BY <1>1, Invariance, PTL

-----------------------------------------------------------------------------
(* After the end of a call.                                                *)

\* Ops_Parallel.h:20-34, the lambdas hold the caller's data by reference: once a
\* call has returned, nothing is done any more to what it was called for, and
\* once it has thrown, only chunks that come after the one that failed still do
\* something to it.
OverIsOver ==
    \A c \in Caller : Over(c) =>
        /\ pc'[c] = pc[c]
        /\ \A w \in once'[c] \ once[c] :
              /\ pc[c] = "threw" /\ call[c].pooled
              /\ \E t \in (got[c] + 1)..(next[c] - 1) :
                    <<c, t>> \in active /\ w \in ChunkWork(call[c], t)

AfterTheEnd == [][OverIsOver]_vars

\* Only the end of a chunk of its own does anything to a call that is over.
LEMMA OverKept ==
    ASSUME IInv, [Next]_vars, NEW c \in Caller, Over(c)
    PROVE  /\ pc'[c] = pc[c]
           /\ once'[c] = once[c] \/ \E t \in 0..next[c] : FinishChunk(c, t)
<1>1. pc[c] \in {"returned", "threw"} /\ TypeOK
  BY DEF Over, IInv
<1>2. ASSUME NEW d \in Caller, CallerStep(d)
      PROVE  pc'[c] = pc[c] /\ once'[c] = once[c]
  <2>1. d # c
    BY <1>1, <1>2
    DEF CallerStep, ReturnAtOnce, Direct, Begin, Enqueue, EndOfLoop, Get, Rethrow, Return
  <2>2. CASE Direct(d)
    BY <1>1, <2>1, <2>2 DEF Direct, Apply, Goto, TypeOK
  <2>3. CASE ReturnAtOnce(d) \/ Begin(d) \/ EndOfLoop(d) \/ Rethrow(d) \/ Return(d)
    BY <1>1, <2>1, <2>3
    DEF ReturnAtOnce, Begin, EndOfLoop, Rethrow, Return, Goto, workVars, TypeOK
  <2>4. CASE Enqueue(d) \/ Get(d)
    BY <2>4 DEF Enqueue, Get, workVars
  <2> QED
    BY <1>2, <2>2, <2>3, <2>4 DEF CallerStep
<1>3. ASSUME NEW d \in Caller, Post(d)
      PROVE  pc'[c] = pc[c] /\ once'[c] = once[c]
  BY <1>1, <1>3 DEF Post, Goto, workVars, TypeOK
<1>4. ASSUME NEW d \in Caller, FinishCaller(d)
      PROVE  pc'[c] = pc[c] /\ once'[c] = once[c]
  BY <1>4 DEF FinishCaller, forVars, workVars
<1>5. CASE StartTask
  <2>1. Head(backlog) \in Queued
    BY <1>1, <1>5, StartKeeps DEF IInv, TypeOK, StartTask
  <2>2. Own(c) # Head(backlog)
    BY <1>1, <2>1 DEF IInv, KnownInv
  <2> QED
    BY <1>5, <2>2 DEF StartTask, workVars
<1>6. ASSUME NEW d \in Caller, NEW t \in 0..next[d], FinishChunk(d, t)
      PROVE  pc'[c] = pc[c] /\ (once'[c] = once[c] \/ \E u \in 0..next[c] : FinishChunk(c, u))
  <2>1. pc' = pc
    BY <1>6 DEF FinishChunk, forVars
  <2>2. CASE d # c
    <3>1. PICK S : Apply(d, S)
      BY <1>6, FinishApplies
    <3>2. once' = [once EXCEPT ![d] = @ \cup UNION {Elements(call[d], i) : i \in S}]
      BY <3>1 DEF Apply
    <3> QED
      BY <1>1, <2>1, <2>2, <3>2 DEF TypeOK
  <2> QED
    BY <1>6, <2>1, <2>2
<1>7. CASE UNCHANGED vars
  BY <1>7 DEF vars, forVars, workVars
<1> QED
  BY <1>2, <1>3, <1>4, <1>5, <1>6, <1>7 DEF Next, Terminated

\* A chunk that ends after its call is over comes after the one that failed.
LEMMA LateChunk ==
    ASSUME IInv, NEW c \in Caller, Over(c), NEW t \in 0..next[c], FinishChunk(c, t)
    PROVE  /\ pc[c] = "threw" /\ call[c].pooled
           /\ t \in (got[c] + 1)..(next[c] - 1) /\ <<c, t>> \in active
           /\ once'[c] \ once[c] \subseteq ChunkWork(call[c], t)
<1>1. /\ t \in 0..(next[c] - 1) /\ <<c, t>> \in active /\ <<c, t>> \notin finished
      /\ call[c].pooled
  BY FinishApplies
<1>2. /\ next[c] \in Nat /\ got[c] \in Nat /\ failed \subseteq finished
      /\ once \in [Caller -> SUBSET Int]
  BY DEF IInv, TypeOK
<1>3. t \notin 0..(got[c] - 1)
  BY <1>1 DEF IInv, PlaceInv
<1>4. pc[c] = "threw"
  BY <1>1, <1>2, <1>3 DEF Over, IInv, PlaceInv
<1>5. t # got[c]
  BY <1>1, <1>2, <1>4 DEF IInv, PlaceInv
<1>6. PICK S : S \subseteq Indices(call[c], t) /\ Apply(c, S)
  BY FinishApplies
<1>7. once'[c] = once[c] \cup UNION {Elements(call[c], i) : i \in S}
  BY <1>2, <1>6 DEF Apply
<1>8. once'[c] \ once[c] \subseteq ChunkWork(call[c], t)
  BY <1>6, <1>7 DEF ChunkWork
<1> QED
  BY <1>1, <1>2, <1>3, <1>4, <1>5, <1>8

\* ParallelFor.h:39-40: a call that has returned leaves nothing behind that works on the
\* caller's data; one that has thrown only the chunks after the one that failed.
THEOREM ForAfterTheEnd == SafetySpec => AfterTheEnd
<1>1. ASSUME IInv, [Next]_vars, NEW c \in Caller, Over(c)
      PROVE  /\ pc'[c] = pc[c]
             /\ \A w \in once'[c] \ once[c] :
                   /\ pc[c] = "threw" /\ call[c].pooled
                   /\ \E t \in (got[c] + 1)..(next[c] - 1) :
                         <<c, t>> \in active /\ w \in ChunkWork(call[c], t)
  <2>1. CASE once'[c] = once[c]
    BY <1>1, <2>1, OverKept
  <2>2. ASSUME NEW t \in 0..next[c], FinishChunk(c, t)
        PROVE  \A w \in once'[c] \ once[c] :
                   /\ pc[c] = "threw" /\ call[c].pooled
                   /\ \E u \in (got[c] + 1)..(next[c] - 1) :
                         <<c, u>> \in active /\ w \in ChunkWork(call[c], u)
    BY <1>1, <2>2, LateChunk
  <2> QED
    BY <1>1, <2>1, <2>2, OverKept
<1>2. IInv /\ [Next]_vars => OverIsOver
  BY <1>1 DEF OverIsOver
<1> QED
  BY <1>2, Invariance, PTL DEF SafetySpec, AfterTheEnd

-----------------------------------------------------------------------------
(* A pool with a worker to spare never stands still.                       *)

\* What the pool holds, and that no chunk and no caller is lost on the way.
PoolInv ==
    /\ state = "open"
    /\ IsFiniteSet(active) /\ Cardinality(active) <= Width
    /\ \A e \in Known :
          \/ \E c \in inside : e = Own(c)
          \/ \E c \in Caller : \E t \in 0..(next[c] - 1) : e = <<c, t>>
    /\ \A c \in Caller :
          /\ \A t \in 0..(next[c] - 1) : <<c, t>> \in Known
          /\ pc[c] = "idle" => c \in inside /\ Own(c) \notin Known
          /\ pc[c] = "queued" => Own(c) \in Queued

\* A step by which the pool gets to know nothing new.
LEMMA PoolKeeps ==
    ASSUME PoolInv, UNCHANGED <<inside, next, state>>, Known' = Known,
           IsFiniteSet(active'), Cardinality(active') <= Width,
           \A c \in Caller : pc'[c] \in {"idle", "queued"} => pc'[c] = pc[c],
           \A c \in Caller : pc'[c] = "queued" => Own(c) \in Queued'
    PROVE  PoolInv'
  BY DEF PoolInv

LEMMA PostPool ==
    ASSUME IInv, PoolInv, NEW c \in Caller, Post(c)
    PROVE  PoolInv'
<1>1. /\ Own(c) \in Task /\ backlog \in Seq(Task) /\ Distinct
      /\ pc \in [Caller -> {"idle", "queued", "begin", "submit", "wait", "returned", "threw"}]
  BY ForAssumption DEF IInv, TypeOK
<1>2. /\ Queued' = Queued \cup {Own(c)} /\ Known' = Known \cup {Own(c)}
      /\ UNCHANGED <<active, finished, inside, next, state>>
  BY <1>1, SubmitKeeps DEF Post, Submit, plan
<1>3. c \in inside /\ pc' = [pc EXCEPT ![c] = "queued"]
  BY DEF PoolInv, Post, Goto
<1>4. \A d \in Caller : d # c => Own(d) # Own(c)
  BY DEF Own
<1> QED
  BY <1>1, <1>2, <1>3, <1>4 DEF PoolInv

LEMMA EnqueuePool ==
    ASSUME IInv, PoolInv, NEW c \in Caller, Enqueue(c)
    PROVE  PoolInv'
<1> DEFINE n == next[c]
<1>1. /\ n < TasksOf(call[c]) /\ n \in Nat /\ next \in [Caller -> Nat]
      /\ backlog \in Seq(Task) /\ Distinct
      /\ pc[c] = "submit" /\ Submit(<<c, n>>) /\ next' = [next EXCEPT ![c] = n + 1]
      /\ UNCHANGED <<inside, pc>>
  BY DEF Enqueue, plan, IInv, TypeOK
<1>2. <<c, n>> \in Task
  <2>1. IsCall(call[c]) /\ Size(call[c]) > 0
    BY <1>1, CallOf DEF IInv, PlaceInv
  <2>2. TasksOf(call[c]) \in Nat /\ {c} \X (0..(TasksOf(call[c]) - 1)) \subseteq Task
    BY <2>1, ChunkFacts, ForAssumption DEF IInv, TypeOK
  <2> QED
    BY <1>1, <2>2
<1>3. /\ Queued' = Queued \cup {<<c, n>>} /\ Known' = Known \cup {<<c, n>>}
      /\ UNCHANGED <<active, finished, state>>
  BY <1>1, <1>2, SubmitKeeps DEF Submit
<1>4. /\ next'[c] = n + 1 /\ \A d \in Caller : d # c => next'[d] = next[d]
      /\ \A t \in 0..(n - 1) : t \in 0..(n + 1 - 1)
      /\ \A t \in 0..(n + 1 - 1) : t \in 0..(n - 1) \/ t = n
      /\ n \in 0..(n + 1 - 1)
  BY <1>1
<1>5. ASSUME NEW e \in Known'
      PROVE  \/ \E d \in inside : e = Own(d)
             \/ \E d \in Caller : \E t \in 0..(next'[d] - 1) : e = <<d, t>>
  <2>1. CASE e = <<c, n>>
    BY <1>4, <2>1
  <2>2. ASSUME NEW d \in Caller, NEW t \in 0..(next[d] - 1), e = <<d, t>>
        PROVE  \E u \in 0..(next'[d] - 1) : e = <<d, u>>
    BY <1>4, <2>2
  <2> QED
    BY <1>3, <1>5, <2>1, <2>2 DEF PoolInv
<1>6. ASSUME NEW d \in Caller, NEW t \in 0..(next'[d] - 1)
      PROVE  <<d, t>> \in Known'
  BY <1>3, <1>4, <1>6 DEF PoolInv
<1>7. ASSUME NEW d \in Caller
      PROVE  /\ pc'[d] = "idle" => d \in inside /\ Own(d) \notin Known'
             /\ pc'[d] = "queued" => Own(d) \in Queued'
  <2>1. Own(d) # <<c, n>>
    BY <1>1 DEF Own
  <2> QED
    BY <1>1, <1>3, <2>1 DEF PoolInv
<1> QED
  BY <1>1, <1>3, <1>5, <1>6, <1>7 DEF PoolInv

LEMMA StartPool ==
    ASSUME IInv, PoolInv, StartTask
    PROVE  PoolInv'
<1> DEFINE e == Head(backlog)
<1>1. /\ Queued' = Queued \ {e} /\ Known' = Known /\ e \in Queued
      /\ Cardinality(active) < Width /\ active' = active \cup {e}
      /\ UNCHANGED <<inside, next, state>>
      /\ pc' = [c \in Caller |-> IF Own(c) = e THEN "begin" ELSE pc[c]]
  BY StartKeeps DEF StartTask, Start, IInv, TypeOK, plan
<1> HIDE DEF e
<1>2. e \notin active
  BY <1>1 DEF IInv, Distinct
<1>3. IsFiniteSet(active') /\ Cardinality(active') <= Width
  <2>1. IsFiniteSet(active) /\ Cardinality(active) \in Nat
    BY FS_CardinalityType DEF PoolInv
  <2>2. IsFiniteSet(active \cup {e}) /\ Cardinality(active \cup {e}) = Cardinality(active) + 1
    BY <1>2, <2>1, FS_AddElement
  <2> QED
    BY <1>1, <2>1, <2>2, ForAssumption
<1>4. \A c \in Caller : pc'[c] \in {"idle", "queued"} => pc'[c] = pc[c] /\ Own(c) # e
  BY <1>1
<1>5. \A c \in Caller : pc'[c] = "queued" => Own(c) \in Queued'
  BY <1>1, <1>4 DEF PoolInv
<1> QED
  BY <1>1, <1>3, <1>4, <1>5, PoolKeeps

LEMMA FinishPool ==
    ASSUME IInv, PoolInv, NEW e, Finish(e), UNCHANGED <<inside, next, pc>>
    PROVE  PoolInv'
<1>1. /\ Queued' = Queued /\ Known' = Known /\ active' = active \ {e} /\ e \in active
      /\ state' = state
  BY FinishKeeps DEF IInv, Finish
<1>2. IsFiniteSet(active') /\ Cardinality(active') <= Width
  <2>1. IsFiniteSet(active) /\ Cardinality(active) \in Nat /\ Cardinality(active) <= Width
    BY FS_CardinalityType DEF PoolInv
  <2>2. IsFiniteSet(active \ {e}) /\ Cardinality(active \ {e}) = Cardinality(active) - 1
    BY <1>1, <2>1, FS_RemoveElement
  <2> QED
    BY <1>1, <2>1, <2>2, ForAssumption
<1>3. \A c \in Caller : pc'[c] = "queued" => Own(c) \in Queued'
  BY <1>1 DEF PoolInv
<1> QED
  BY <1>1, <1>2, <1>3, PoolKeeps

LEMMA QuietPool ==
    ASSUME PoolInv, UNCHANGED <<inside, next, abstractVars>>,
           \A c \in Caller : pc'[c] \in {"idle", "queued"} => pc'[c] = pc[c]
    PROVE  PoolInv'
<1>1. UNCHANGED <<active, finished, backlog, state>>
  BY DEF abstractVars
<1>2. Queued' = Queued /\ Known' = Known
  BY <1>1 DEF Queued, Known
<1> QED
  BY <1>1, <1>2 DEF PoolInv

LEMMA CallerPool ==
    ASSUME IInv, PoolInv, NEW c \in Caller, CallerStep(c)
    PROVE  PoolInv'
<1>1. pc \in [Caller -> {"idle", "queued", "begin", "submit", "wait", "returned", "threw"}]
  BY DEF IInv, TypeOK
<1>2. CASE Enqueue(c)
  BY <1>2, EnqueuePool
<1>3. CASE Direct(c)
  <2>1. UNCHANGED <<inside, next, abstractVars>>
        /\ (pc' = [pc EXCEPT ![c] = "returned"] \/ pc' = [pc EXCEPT ![c] = "threw"])
    BY <1>3 DEF Direct, Goto, plan
  <2> QED
    BY <1>1, <2>1, QuietPool
<1>4. CASE Get(c)
  BY <1>4, QuietPool DEF Get, plan
<1>5. CASE ReturnAtOnce(c) \/ Begin(c) \/ EndOfLoop(c) \/ Rethrow(c) \/ Return(c)
  <2>1. PICK label \in {"submit", "wait", "returned", "threw"} : pc' = [pc EXCEPT ![c] = label]
    BY <1>5 DEF ReturnAtOnce, Begin, EndOfLoop, Rethrow, Return, Goto
  <2>2. UNCHANGED <<inside, next, abstractVars>>
    BY <1>5 DEF ReturnAtOnce, Begin, EndOfLoop, Rethrow, Return, plan
  <2> QED
    BY <1>1, <2>1, <2>2, QuietPool
<1> QED
  BY <1>2, <1>3, <1>4, <1>5 DEF CallerStep

LEMMA PoolAlways == SafetySpec => []PoolInv
<1>1. Init => PoolInv
  <2>1. SUFFICES ASSUME Init
                 PROVE  PoolInv
    OBVIOUS
  <2>2. /\ backlog = <<>> /\ active = {} /\ finished = {} /\ state = "open"
        /\ pc = [c \in Caller |-> IF c \in inside THEN "idle" ELSE "begin"]
        /\ next = [c \in Caller |-> 0]
    BY <2>1 DEF Init, AbstractInit
  <2>3. Queued = {} /\ Known = {}
    <3>1. DOMAIN backlog = {}
      BY <2>2
    <3> QED
      BY <2>2, <3>1 DEF Queued, Known
  <2>4. IsFiniteSet(active) /\ Cardinality(active) = 0
    BY <2>2, FS_EmptySet
  <2>5. 0..(0 - 1) = {}
    OBVIOUS
  <2> QED
    BY <2>2, <2>3, <2>4, <2>5, ForAssumption DEF PoolInv
<1>2. IInv /\ PoolInv /\ [Next]_vars => PoolInv'
  <2>1. SUFFICES ASSUME IInv, PoolInv, [Next]_vars
                 PROVE  PoolInv'
    OBVIOUS
  <2>2. ASSUME NEW c \in Caller, Post(c) \/ CallerStep(c)
        PROVE  PoolInv'
    BY <2>1, <2>2, PostPool, CallerPool
  <2>3. ASSUME NEW c \in Caller, FinishCaller(c)
        PROVE  PoolInv'
    BY <2>1, <2>3, FinishPool DEF FinishCaller, forVars, plan
  <2>4. ASSUME NEW c \in Caller, NEW t \in 0..next[c], FinishChunk(c, t)
        PROVE  PoolInv'
    BY <2>1, <2>4, FinishPool DEF FinishChunk, forVars, plan
  <2>5. CASE StartTask
    BY <2>1, <2>5, StartPool
  <2>6. CASE UNCHANGED vars
    BY <2>1, <2>6, QuietPool DEF vars, forVars, plan
  <2> QED
    BY <2>1, <2>2, <2>3, <2>4, <2>5, <2>6 DEF Next, Terminated
<1> QED
  BY <1>1, <1>2, Invariance, PTL DEF SafetySpec

\* The guards of the steps, one by one.
CallerMoves(c) ==
    \/ pc[c] = "idle" /\ state # "gone" /\ Own(c) \notin Known
    \/ pc[c] = "begin"
    \/ pc[c] = "submit" /\ state # "gone" /\ (Exhausted(call[c], next[c]) \/ <<c, next[c]>> \notin Known)
    \/ pc[c] = "wait" /\ (got[c] = next[c] \/ <<c, got[c]>> \in finished)
WorkerMoves ==
    \/ backlog # <<>> /\ Cardinality(active) < Width
    \/ \E c \in Caller : \E t \in 0..next[c] : <<c, t>> \in active
    \/ \E c \in Caller : Over(c) /\ Own(c) \in active
Moves == WorkerMoves \/ \E c \in Caller : CallerMoves(c)

AllOver == backlog = <<>> /\ active = {} /\ \A c \in Caller : Over(c)

\* ParallelFor.h:29-40: as long as fewer tasks of the pool make calls
\* than it has workers, somebody can go on until everything is over: nobody
\* waits for a chunk that waits for him.
NeverAtAStandstill ==
    /\ Moves \/ AllOver \/ Stuck
    /\ IsFiniteSet(inside) /\ Cardinality(inside) < Width => ~Stuck

\* A caller that waits and cannot go on waits for a chunk that is still queued.
LEMMA WaitsForQueued ==
    ASSUME IInv, PoolInv, ~Moves, NEW c \in Caller, pc[c] = "wait"
    PROVE  <<c, got[c]>> \in Queued
<1>1. got[c] \in Nat /\ next[c] \in Nat /\ got[c] <= next[c]
  BY DEF IInv, TypeOK
<1>2. got[c] # next[c] /\ <<c, got[c]>> \notin finished
  BY DEF Moves, CallerMoves
<1>3. got[c] \in 0..(next[c] - 1) /\ got[c] \in 0..next[c]
  BY <1>1, <1>2
<1>4. <<c, got[c]>> \notin active
  BY <1>3 DEF Moves, WorkerMoves
<1>5. <<c, got[c]>> \in Known
  BY <1>3 DEF PoolInv
<1> QED
  BY <1>2, <1>4, <1>5 DEF Known

\* A caller in its loop can go on.
LEMMA LoopMoves ==
    ASSUME IInv, PoolInv, NEW c \in Caller, pc[c] = "submit"
    PROVE  CallerMoves(c)
<1>1. next[c] \in Nat /\ state = "open"
  BY DEF IInv, TypeOK, PoolInv
<1>2. next[c] \in Int /\ next[c] # -1 /\ next[c] \notin 0..(next[c] - 1)
  BY <1>1
<1>3. <<c, next[c]>> \notin Known
  BY <1>2 DEF IInv, KnownInv
<1> QED
  BY <1>1, <1>3 DEF CallerMoves

\* When nobody can go on, a task that is active makes a call that waits.
LEMMA OnlyWaiters ==
    ASSUME IInv, PoolInv, ~Moves, NEW e \in active
    PROVE  \E c \in inside : e = Own(c) /\ pc[c] = "wait" /\ <<c, got[c]>> \in Queued
<1>1. e \in Known /\ inside \subseteq Caller
  BY DEF Known, IInv, TypeOK
<1>2. ASSUME NEW c \in Caller, NEW t \in 0..(next[c] - 1), e = <<c, t>>
      PROVE  FALSE
  <2>1. next[c] \in Nat
    BY DEF IInv, TypeOK
  <2>2. t \in 0..next[c]
    BY <2>1
  <2> QED
    BY <1>2, <2>2 DEF Moves, WorkerMoves
<1>3. PICK c \in inside : e = Own(c)
  BY <1>1, <1>2 DEF PoolInv
<1>4. c \in Caller /\ pc[c] \notin {"idle", "queued"}
  BY <1>1, <1>3 DEF PoolInv, Known, IInv, Distinct
<1>5. pc[c] = "wait"
  <2>1. ~Over(c)
    BY <1>3, <1>4 DEF Moves, WorkerMoves
  <2>2. pc[c] # "begin"
    BY <1>4 DEF Moves, CallerMoves
  <2>3. pc[c] # "submit"
    BY <1>4, LoopMoves DEF Moves
  <2>4. pc[c] \in {"idle", "queued", "begin", "submit", "wait", "returned", "threw"}
    BY <1>4 DEF IInv, TypeOK
  <2> QED
    BY <1>4, <2>1, <2>2, <2>3, <2>4 DEF Over
<1> QED
  BY <1>3, <1>4, <1>5, WaitsForQueued

\* When nobody can go on and no task is active, all calls are over.
LEMMA QuietIsOver ==
    ASSUME IInv, PoolInv, ~Moves, backlog = <<>>
    PROVE  AllOver
<1>1. Queued = {}
  <2>1. DOMAIN backlog = {}
    OBVIOUS
  <2> QED
    BY <2>1 DEF Queued
<1>2. active = {}
  BY <1>1, OnlyWaiters
<1>3. ASSUME NEW c \in Caller
      PROVE  Over(c)
  <2>1. pc[c] # "queued" /\ pc[c] # "wait"
    BY <1>1, WaitsForQueued DEF PoolInv
  <2>2. pc[c] # "idle" /\ pc[c] # "begin"
    BY DEF Moves, CallerMoves, PoolInv
  <2>3. pc[c] # "submit"
    BY LoopMoves DEF Moves
  <2>4. pc[c] \in {"idle", "queued", "begin", "submit", "wait", "returned", "threw"}
    BY DEF IInv, TypeOK
  <2> QED
    BY <2>1, <2>2, <2>3, <2>4 DEF Over
<1> QED
  BY <1>2, <1>3 DEF AllOver

\* ParallelFor.h:29-40, ThreadPool.hpp:78-101: with callers outside the pool and inside
\* it, some thread can go on until all is over, unless waiting callers hold every worker.
THEOREM ForNeverAtAStandstill == SafetySpec => []NeverAtAStandstill
<1>1. ASSUME IInv, PoolInv
      PROVE  Moves \/ AllOver \/ Stuck
  <2>1. SUFFICES ASSUME ~Moves, backlog # <<>>
                 PROVE  Stuck
    BY <1>1, QuietIsOver
  <2>2. Cardinality(active) \in Nat /\ Cardinality(active) <= Width
    BY <1>1, FS_CardinalityType DEF PoolInv
  <2>3. ~(Cardinality(active) < Width)
    BY <2>1 DEF Moves, WorkerMoves
  <2>4. Cardinality(active) = Width
    BY <2>2, <2>3, ForAssumption
  <2>5. \A e \in active :
            \E c \in inside : e = Own(c) /\ pc[c] = "wait" /\ <<c, got[c]>> \in Queued
    BY <1>1, <2>1, OnlyWaiters
  <2> QED
    BY <2>4, <2>5 DEF Stuck
<1>2. IsFiniteSet(inside) /\ Cardinality(inside) < Width => ~Stuck
  <2>1. SUFFICES ASSUME IsFiniteSet(inside), Stuck
                 PROVE  ~(Cardinality(inside) < Width)
    OBVIOUS
  <2> DEFINE own == {Own(c) : c \in inside}
  <2>2. active \subseteq own /\ Cardinality(active) = Width
    BY <2>1 DEF Stuck
  <2>3. IsFiniteSet(own) /\ Cardinality(own) <= Cardinality(inside)
    <3> DEFINE f == [c \in inside |-> Own(c)]
    <3>1. f \in Surjection(inside, own)
      BY DEF Surjection
    <3> HIDE DEF f, own
    <3> QED
      BY <2>1, <3>1, FS_Surjection
  <2>4. Cardinality(active) <= Cardinality(own)
    BY <2>2, <2>3, FS_Subset
  <2> HIDE DEF own
  <2>5. Cardinality(own) \in Nat /\ Cardinality(inside) \in Nat
    BY <2>1, <2>3, FS_CardinalityType
  <2> QED
    BY <2>2, <2>3, <2>4, <2>5, ForAssumption
<1>3. IInv /\ PoolInv => NeverAtAStandstill
  BY <1>1, <1>2 DEF NeverAtAStandstill
<1> QED
  BY <1>3, Invariance, PoolAlways, PTL

=============================================================================
