--------------------------- MODULE TrainingProofs ----------------------------
(* For every network and every order of calls: an orderly backward succeeds*)
(* and a step of training is of one input.                                 *)
EXTENDS Training, SequenceTheorems, TLAPS

-----------------------------------------------------------------------------
(* Shapes.                                                                 *)

LEMMA EmptyIsNoShape == ~IsShape(Empty)
  BY DEF IsShape, Empty

LEMMA LayerSize ==
    ASSUME NEW l \in Layer, IsDense(l)
    PROVE  IsShape(l.size) /\ Len(l.size) = 2
  BY TrainingAssumption DEF Layer, IsDense

\* A matrix is its rows and columns.
LEMMA PairShape ==
    ASSUME NEW a \in Nat, NEW b \in Nat, a > 0, b > 0
    PROVE  IsShape(<<a, b>>) /\ Len(<<a, b>>) = 2
  BY DEF IsShape

LEMMA Matrix ==
    ASSUME NEW s, IsShape(s), Len(s) = 2
    PROVE  /\ s[1] \in Nat /\ s[1] > 0 /\ s[2] \in Nat /\ s[2] > 0
           /\ s = <<s[1], s[2]>>
<1>1. s \in Seq(Nat) /\ Len(s) = 2 /\ \A i \in 1..2 : s[i] > 0
  BY DEF IsShape
<1>2. s[1] \in Nat /\ s[2] \in Nat
  BY <1>1, ElementOfSeq
<1>3. s = <<s[1], s[2]>>
  BY <1>1, <1>2, SeqEqual
<1> QED
  BY <1>1, <1>2, <1>3

LEMMA DotShape ==
    ASSUME NEW a, NEW b, IsShape(a), IsShape(b), CanDot(a, b)
    PROVE  IsShape(Dot(a, b))
<1>1. CASE Len(a) = 1
  BY <1>1 DEF Dot, IsShape
<1>2. CASE Len(a) = 2 /\ Len(b) = 2
  BY <1>2, Matrix, PairShape DEF Dot
<1> QED
  BY <1>1, <1>2 DEF CanDot

LEMMA TransposeShape ==
    ASSUME NEW a, IsShape(a), Len(a) = 2
    PROVE  IsShape(Transpose(a)) /\ Len(Transpose(a)) = 2
  BY Matrix, PairShape DEF Transpose

\* What comes back to a Dense layer, if it has the shape of what the layer has
\* passed on, can be used: for the step back, and as what comes back to the
\* layer before it.
LEMMA DenseFits ==
    ASSUME NEW k, NEW w, IsShape(k), IsShape(w), Len(w) = 2, CanDot(k, w)
    PROVE  LET g == Dot(k, w)
           IN  /\ CanDot(g, Transpose(w)) /\ CanTranspose(k) /\ CanDot(Transpose(k), g)
               /\ Length(w) <= Floats(Dot(Transpose(k), g))
               /\ Dot(g, Transpose(w)) = k
<1>1. Len(k) = 2 /\ k[2] = w[1]
  BY DEF CanDot
<1>2. k[1] \in Nat /\ k[2] \in Nat /\ w[1] \in Nat /\ w[2] \in Nat
  BY <1>1, Matrix
<1>3. /\ Dot(k, w) = <<k[1], w[2]>>
      /\ Transpose(w) = <<w[2], w[1]>>
      /\ Transpose(k) = <<k[2], k[1]>>
  BY <1>1 DEF Dot, Transpose
<1>4. /\ Dot(Dot(k, w), Transpose(w)) = <<k[1], w[1]>>
      /\ Dot(Transpose(k), Dot(k, w)) = <<k[2], w[2]>>
  BY <1>3, <1>2 DEF Dot
<1>5. k = <<k[1], k[2]>>
  BY <1>1, Matrix
<1>6. /\ CanDot(Dot(k, w), Transpose(w)) /\ CanTranspose(k)
      /\ CanDot(Transpose(k), Dot(k, w))
  BY <1>1, <1>2, <1>3 DEF CanDot, CanTranspose
<1>7. Length(w) = w[1] * w[2] /\ Floats(<<k[2], w[2]>>) = k[2] * w[2]
  <2>1. /\ w # Empty /\ Len(w) # 1
        /\ <<k[2], w[2]>> # Empty /\ Len(<<k[2], w[2]>>) # 1
    BY DEF Empty
  <2> QED
    BY <2>1 DEF Length, Floats
<1>8. w[1] * w[2] \in Nat
  BY <1>2
<1> QED
  BY <1>1, <1>4, <1>5, <1>6, <1>7, <1>8

LEMMA FloatsOfShape ==
    ASSUME NEW s, IsShape(s)
    PROVE  Length(s) \in Nat /\ Length(s) <= Floats(s)
<1>1. Length(s) \in Nat
  <2>1. CASE Len(s) = 1
    BY <2>1 DEF IsShape, Length, Empty
  <2>2. CASE Len(s) = 2
    BY <2>2 DEF IsShape, Length, Empty
  <2> QED
    BY <2>1, <2>2 DEF IsShape
<1> QED
  BY <1>1, EmptyIsNoShape DEF Floats

-----------------------------------------------------------------------------
(* The inductive invariant.                                                *)

\* What layer l passes on of a tensor of shape s.
Fits(l, s) == IsDense(l) => CanDot(s, l.size)
Out(l, s) == IF IsDense(l) THEN Dot(s, l.size) ELSE s

\* The first m layers hold the shapes of the latest input on its way up, and
\* what layer m has passed on is s.
Chain(m, s) ==
    \A i \in 1..m :
        /\ i \in current /\ IsShape(kept[i]) /\ Fits(layers[i], kept[i])
        /\ Out(layers[i], kept[i]) = IF i = m THEN s ELSE kept[i + 1]

\* The gradient on its way down has the shape of what went up there.
Descent == x = IF at = 0 THEN result ELSE kept[Len(layers) - at + 1]

ForwardInv == pc = "forward" => outcome = "none" /\ result = Empty /\ Chain(at, x)
ResultInv == result # Empty => Chain(Len(layers), result)
BackwardInv ==
    pc = "backward" =>
        /\ outcome \in {"none", "strayed"}
        /\ orderly => outcome = "none" /\ result # Empty /\ Descent
        /\ result # Empty =>
              \A i \in (Len(layers) - at + 1)..Len(layers) :
                  IsDense(layers[i]) => i \in updated
CrashInv == pc = "crashed" => outcome = "strayed"

IInv ==
    /\ TypeOK /\ ForwardInv /\ ResultInv /\ BackwardInv /\ CrashInv
    /\ OrderlyBackwardSucceeds /\ StepIsOfOneInput

-----------------------------------------------------------------------------
(* Type correctness.                                                       *)

Moving == pc \in {"forward", "backward"}

\* The layer whose turn it is exists.
LEMMA TurnInRange ==
    ASSUME TypeOK, Moving, at < Len(layers)
    PROVE  /\ Turn \in 1..Len(layers) /\ Turn \in DOMAIN layers /\ Turn \in DOMAIN kept
           /\ layers[Turn] \in Layer
           /\ IsShape(x)
           /\ kept[Turn] = Empty \/ IsShape(kept[Turn])
<1>1. Turn \in 1..Len(layers)
  BY DEF TypeOK, Moving, Turn
<1>2. DOMAIN layers = 1..Len(layers) /\ DOMAIN kept = 1..Len(layers)
  BY LenProperties DEF TypeOK
<1>3. layers[Turn] \in Layer
  BY <1>1, ElementOfSeq DEF TypeOK
<1> QED
  BY <1>1, <1>2, <1>3 DEF TypeOK, Moving

\* What the layers remember has its type, and is there for each of them.
Memory ==
    /\ kept \in Seq(Seq(Nat)) /\ Len(kept) = Len(layers)
    /\ \A i \in DOMAIN kept : kept[i] = Empty \/ IsShape(kept[i])
    /\ current \subseteq DOMAIN layers

LEMMA KeepType ==
    ASSUME TypeOK, NEW i \in 1..Len(layers), IsShape(x), Keep(i), UNCHANGED layers
    PROVE  /\ Memory'
           /\ kept'[i] = x /\ current' = current \cup {i}
           /\ \A j \in 1..Len(layers) :
                 j # i => kept'[j] = kept[j]
<1>1. x \in Seq(Nat)
  BY DEF IsShape
<1>2. /\ kept' \in Seq(Seq(Nat)) /\ Len(kept') = Len(layers)
      /\ \A j \in 1..Len(layers) : kept'[j] = IF j = i THEN x ELSE kept[j]
  BY <1>1, ExceptSeq DEF TypeOK, Keep
<1>3. current' \subseteq DOMAIN layers' /\ current' = current \cup {i}
  BY LenProperties DEF TypeOK, Keep
<1>4. DOMAIN kept' = 1..Len(layers) /\ DOMAIN kept = 1..Len(layers)
  BY <1>2, LenProperties DEF TypeOK
<1>5. \A j \in DOMAIN kept' : kept'[j] = Empty \/ IsShape(kept'[j])
  BY <1>2, <1>4 DEF TypeOK
<1> QED
  BY <1>2, <1>3, <1>5 DEF Memory

\* A network that grows by one layer.
LEMMA AddType ==
    ASSUME TypeOK, NEW l \in Layer, Add(l)
    PROVE  TypeOK'
<1>1. Empty \in Seq(Nat)
  BY DEF Empty
<1>2. layers' \in Seq(Layer) /\ Len(layers') = Len(layers) + 1 /\ Len(layers') <= MaxLayers
  BY TrainingAssumption DEF TypeOK, Add
<1>3. kept' \in Seq(Seq(Nat)) /\ Len(kept') = Len(layers) + 1
  BY <1>1 DEF TypeOK, Add
<1>4. current' \subseteq DOMAIN layers' /\ updated' \subseteq DOMAIN layers'
  <2>1. DOMAIN layers = 1..Len(layers) /\ DOMAIN layers' = 1..(Len(layers) + 1)
    BY <1>2, LenProperties DEF TypeOK
  <2>2. Len(layers) \in Nat /\ UNCHANGED <<current, updated>>
    BY DEF TypeOK, Add
  <2> QED
    BY <2>1, <2>2 DEF TypeOK
<1>5. \A i \in DOMAIN kept' : kept'[i] = Empty \/ IsShape(kept'[i])
  <2>1. kept \in Seq(Seq(Nat)) /\ kept' = Append(kept, Empty)
    BY DEF TypeOK, Add
  <2>2. DOMAIN kept = 1..Len(kept) /\ DOMAIN kept' = 1..(Len(kept) + 1)
    BY <1>3, <2>1, LenProperties DEF TypeOK
  <2>3. \A i \in 1..Len(kept) : kept'[i] = kept[i]
    BY <1>1, <2>1
  <2>4. kept'[Len(kept) + 1] = Empty
    BY <1>1, <2>1
  <2>5. \A i \in 1..(Len(kept) + 1) : i \in 1..Len(kept) \/ i = Len(kept) + 1
    BY <2>1
  <2> QED
    BY <2>2, <2>3, <2>4, <2>5 DEF TypeOK
<1>6. Len(layers) \in Nat /\ pc = "idle" /\ at \in 0..Len(layers)
  BY DEF TypeOK, Add
<1> QED
  BY <1>2, <1>3, <1>4, <1>5, <1>6 DEF TypeOK, Add

LEMMA TypeStep == TypeOK /\ [Next]_vars => TypeOK'
<1> SUFFICES ASSUME TypeOK, [Next]_vars
             PROVE  TypeOK'
  OBVIOUS
<1>1. ASSUME NEW l \in Layer, Add(l)
      PROVE  TypeOK'
  BY <1>1, AddType
<1>2. ASSUME NEW s \in Inputs, CallForward(s) \/ CallBackward(s)
      PROVE  TypeOK'
  <2>1. IsShape(s)
    BY TrainingAssumption
  <2>2. 0 \in 0..Len(layers)
    BY DEF TypeOK
  <2> QED
    BY <1>2, <2>1, <2>2 DEF TypeOK, CallForward, CallBackward
<1>3. ASSUME NEW i \in DOMAIN layers, DenseForward(i) \/ MapForward(i)
      PROVE  TypeOK'
  <2>1. /\ i \in 1..Len(layers) /\ layers[i] \in Layer /\ IsShape(x)
        /\ Len(layers) \in Nat /\ at \in Nat /\ at < Len(layers)
    BY <1>3, TurnInRange DEF DenseForward, MapForward, Moving, TypeOK
  <2>2. Memory'
    BY <1>3, <2>1, KeepType DEF DenseForward, MapForward
  <2>3. IsDense(layers[i]) /\ CanDot(x, layers[i].size) => IsShape(Dot(x, layers[i].size))
    BY <2>1, DotShape, LayerSize
  <2>4. \/ \E s : IsShape(s) /\ Pass(s)
        \/ Throw
    BY <1>3, <2>1, <2>3 DEF DenseForward, MapForward
  <2>5. /\ at' \in 0..Len(layers)
        /\ pc' \in {"idle", "forward"}
        /\ IF pc' \in {"forward", "backward"} THEN IsShape(x') ELSE x' = Empty
    BY <1>3, <2>1, <2>4 DEF DenseForward, MapForward, Pass, Throw, Leave
  <2>6. UNCHANGED <<layers, result, orderly, updated, outcome>>
    BY <1>3 DEF DenseForward, MapForward
  <2> QED
    BY <2>2, <2>5, <2>6 DEF TypeOK, Memory
<1>4. ASSUME NEW i \in DOMAIN layers, DenseBackward(i) \/ MapBackward(i)
      PROVE  TypeOK'
  <2>1. /\ i \in 1..Len(layers) /\ layers[i] \in Layer /\ IsShape(x)
        /\ Len(layers) \in Nat /\ at \in Nat /\ at < Len(layers) /\ pc = "backward"
    BY <1>4, TurnInRange DEF DenseBackward, MapBackward, Moving, TypeOK
  <2>2. IsDense(layers[i]) /\ CanStepBack(layers[i], kept[i], x)
            => IsShape(Dot(x, Transpose(layers[i].size)))
    BY <2>1, DotShape, LayerSize, TransposeShape DEF CanStepBack
  <2>3. \/ \E s : IsShape(s) /\ Pass(s)
        \/ Throw
        \/ Leave("crashed")
    BY <1>4, <2>1, <2>2 DEF DenseBackward, MapBackward, ReadAndPass
  <2>4. /\ at' \in 0..Len(layers)
        /\ pc' \in {"idle", "backward", "crashed"}
        /\ IF pc' \in {"forward", "backward"} THEN IsShape(x') ELSE x' = Empty
    BY <2>1, <2>3 DEF Pass, Throw, Leave
  <2>5. /\ updated' \subseteq DOMAIN layers
        /\ outcome' \in {"none", "returned", "threw", "strayed"}
    BY <1>4 DEF DenseBackward, MapBackward, ReadAndPass, TypeOK
  <2>6. UNCHANGED <<layers, kept, current, result, orderly>>
    BY <1>4 DEF DenseBackward, MapBackward
  <2> QED
    BY <2>4, <2>5, <2>6 DEF TypeOK
<1>5. CASE ForwardReturns
  BY <1>5 DEF ForwardReturns, Leave, TypeOK
<1>6. CASE BackwardReturns
  BY <1>6 DEF BackwardReturns, Leave, TypeOK
<1>7. CASE UNCHANGED vars
  BY <1>7 DEF TypeOK, vars
<1>8. CASE CopyNothing
  BY <1>8 DEF CopyNothing, TypeOK
<1> QED
  BY <1>1, <1>2, <1>3, <1>4, <1>5, <1>6, <1>7, <1>8 DEF Next, LayerStep, Crashed

-----------------------------------------------------------------------------
(* The invariant is kept, one lemma per direction.                         *)

\* A layer adds itself to the chain of those below it.
LEMMA ChainGrows ==
    ASSUME TypeOK, NEW i, i = at + 1, i \in 1..Len(layers), IsShape(x), Keep(i),
           UNCHANGED layers, Chain(at, x), Fits(layers[i], x), Pass(Out(layers[i], x))
    PROVE  Chain(at, x)'
<1>1. /\ kept'[i] = x /\ current' = current \cup {i}
      /\ \A j \in 1..Len(layers) : j # i => kept'[j] = kept[j]
  BY KeepType
<1>2. at \in Nat /\ Len(layers) \in Nat
  BY DEF TypeOK
<1>3. ASSUME NEW j \in 1..at
      PROVE  /\ j \in current' /\ IsShape(kept'[j]) /\ Fits(layers[j], kept'[j])
             /\ Out(layers[j], kept'[j]) = kept'[j + 1]
  <2>1. j \in 1..Len(layers) /\ j # i /\ kept'[j] = kept[j]
    BY <1>1, <1>2
  <2>2. kept'[j + 1] = IF j = at THEN x ELSE kept[j + 1]
    BY <1>1, <1>2
  <2> QED
    BY <1>1, <2>1, <2>2 DEF Chain
<1>4. \A j \in 1..i : j = i \/ j \in 1..at
  BY <1>2
<1>5. \A j \in 1..at : j # i
  BY <1>2
<1>6. Fits(layers[i], kept'[i]) /\ Out(layers[i], kept'[i]) = x' /\ at' = i
  BY <1>1 DEF Pass
<1>7. ASSUME NEW j \in 1..i
      PROVE  /\ j \in current' /\ IsShape(kept'[j]) /\ Fits(layers[j], kept'[j])
             /\ Out(layers[j], kept'[j]) = IF j = i THEN x' ELSE kept'[j + 1]
  BY <1>1, <1>3, <1>4, <1>5, <1>6
<1> QED
  BY <1>6, <1>7 DEF Chain, Fits, Out

LEMMA ForwardStep ==
    ASSUME IInv, NEW i \in DOMAIN layers, DenseForward(i) \/ MapForward(i)
    PROVE  /\ ForwardInv' /\ ResultInv' /\ BackwardInv' /\ CrashInv'
           /\ OrderlyBackwardSucceeds' /\ StepIsOfOneInput'
<1>1. /\ i \in 1..Len(layers) /\ i = at + 1 /\ IsShape(x) /\ at \in Nat
      /\ pc = "forward" /\ outcome = "none" /\ result = Empty /\ Chain(at, x)
      /\ Keep(i) /\ UNCHANGED <<layers, result, orderly, updated, outcome>>
  BY TurnInRange DEF IInv, ForwardInv, DenseForward, MapForward, Moving, Turn, TypeOK
<1>2. \/ Throw
      \/ Fits(layers[i], x) /\ Pass(Out(layers[i], x))
  BY DEF DenseForward, MapForward, Fits, Out
<1>3. ForwardInv'
  <2>1. CASE Throw
    BY <2>1 DEF Throw, Leave, ForwardInv
  <2>2. CASE Fits(layers[i], x) /\ Pass(Out(layers[i], x))
    <3>1. Chain(at, x)'
      BY <1>1, <2>2, ChainGrows DEF IInv
    <3> QED
      BY <1>1, <3>1 DEF ForwardInv
  <2> QED
    BY <1>2, <2>1, <2>2
<1>4. pc' \in {"idle", "forward"}
  BY <1>1, <1>2 DEF Throw, Leave, Pass
<1> QED
  BY <1>1, <1>3, <1>4
     DEF ResultInv, BackwardInv, CrashInv, OrderlyBackwardSucceeds, StepIsOfOneInput

\* An orderly gradient comes to a layer in the shape of what the layer has passed
\* on; it is let through, and in the shape of what the layer has kept.
LEMMA OrderlyStep ==
    ASSUME IInv, NEW i \in DOMAIN layers, DenseBackward(i) \/ MapBackward(i), orderly
    PROVE  outcome' = "none" /\ Pass(kept[i])
<1>1. /\ i \in 1..Len(layers) /\ i = Len(layers) - at /\ layers[i] \in Layer
      /\ at \in Nat /\ Len(layers) \in Nat /\ pc = "backward"
      /\ outcome = "none" /\ result # Empty /\ Descent /\ Chain(Len(layers), result)
  <2>1. pc = "backward" /\ at < Len(layers) /\ i = Turn
    BY DEF DenseBackward, MapBackward
  <2>2. /\ i \in 1..Len(layers) /\ i = Len(layers) - at /\ layers[i] \in Layer
        /\ at \in Nat /\ Len(layers) \in Nat
    BY <2>1, TurnInRange DEF IInv, Moving, Turn, TypeOK
  <2>3. outcome = "none" /\ result # Empty /\ Descent
    BY <2>1 DEF IInv, BackwardInv
  <2> QED
    BY <2>1, <2>2, <2>3 DEF IInv, ResultInv
<1>2. /\ IsShape(kept[i]) /\ Fits(layers[i], kept[i]) /\ Out(layers[i], kept[i]) = x
  <2>1. x = IF i = Len(layers) THEN result ELSE kept[i + 1]
    BY <1>1 DEF Descent
  <2> QED
    BY <1>1, <2>1 DEF Chain
<1>3. CASE DenseBackward(i)
  <2>1. /\ IsDense(layers[i]) /\ IsShape(layers[i].size) /\ Len(layers[i].size) = 2
        /\ CanDot(kept[i], layers[i].size) /\ x = Dot(kept[i], layers[i].size)
    BY <1>1, <1>2, <1>3, LayerSize DEF Fits, Out, DenseBackward
  <2>2. /\ CanStepBack(layers[i], kept[i], x)
        /\ Length(layers[i].size) <= Floats(Dot(Transpose(kept[i]), x))
        /\ Dot(x, Transpose(layers[i].size)) = kept[i]
    BY <1>2, <2>1, DenseFits DEF CanStepBack
  <2>3. Length(layers[i].size) \in Nat /\ Floats(Dot(Transpose(kept[i]), x)) \in Nat
    <3>1. IsShape(Dot(Transpose(kept[i]), x))
      <4>1. Len(kept[i]) = 2
        BY <2>1 DEF CanDot
      <4>2. IsShape(x)
        BY <1>2, <2>1, DotShape
      <4> QED
        BY <1>2, <2>2, <4>1, <4>2, TransposeShape, DotShape DEF CanStepBack
    <3> QED
      BY <2>1, <3>1, FloatsOfShape, EmptyIsNoShape DEF Floats
  <2>4. ReadAndPass(Length(layers[i].size), Floats(Dot(Transpose(kept[i]), x)),
                    Dot(x, Transpose(layers[i].size)))
    BY <1>3, <2>2 DEF DenseBackward
  <2> QED
    BY <1>1, <2>2, <2>3, <2>4 DEF ReadAndPass
<1>4. CASE MapBackward(i)
  <2>1. x = kept[i]
    BY <1>2, <1>4 DEF Out, MapBackward
  <2>2. Length(x) \in Nat /\ Floats(x) \in Nat /\ Length(x) <= Floats(x)
    BY <1>2, <2>1, FloatsOfShape, EmptyIsNoShape DEF Floats
  <2> QED
    BY <1>1, <1>4, <2>1, <2>2 DEF MapBackward, ReadAndPass
<1> QED
  BY <1>3, <1>4

LEMMA BackwardStep ==
    ASSUME IInv, NEW i \in DOMAIN layers, DenseBackward(i) \/ MapBackward(i)
    PROVE  /\ ForwardInv' /\ ResultInv' /\ BackwardInv' /\ CrashInv'
           /\ OrderlyBackwardSucceeds' /\ StepIsOfOneInput'
<1>1. /\ i \in 1..Len(layers) /\ i = Len(layers) - at /\ layers[i] \in Layer
      /\ at \in Nat /\ Len(layers) \in Nat /\ pc = "backward"
      /\ outcome \in {"none", "strayed"}
      /\ UNCHANGED <<layers, kept, current, result, orderly>>
  BY TurnInRange DEF IInv, BackwardInv, DenseBackward, MapBackward, Moving, Turn, TypeOK
<1>2. \/ Pass(x') /\ outcome' \in {"none", "strayed"}
      \/ Throw /\ outcome' = "threw"
      \/ Leave("crashed") /\ outcome' = "strayed"
  BY <1>1 DEF DenseBackward, MapBackward, ReadAndPass, Pass
<1>3. orderly => outcome' = "none" /\ Pass(kept[i])
  BY OrderlyStep
<1>4. ResultInv'
  BY <1>1 DEF IInv, ResultInv, Chain
<1>5. BackwardInv'
  <2>1. CASE Pass(x') /\ outcome' \in {"none", "strayed"}
    <3>1. at' = at + 1 /\ pc' = "backward" /\ Len(layers) - at' + 1 = i
      BY <1>1, <2>1 DEF Pass
    <3>2. orderly' => outcome' = "none" /\ result' # Empty /\ Descent'
      BY <1>1, <1>3, <3>1 DEF IInv, BackwardInv, Descent, Pass
    <3>3. ASSUME result' # Empty, NEW j \in i..Len(layers), IsDense(layers[j])
          PROVE  j \in updated'
      <4>1. updated \subseteq updated'
        BY DEF DenseBackward, MapBackward
      <4>2. CASE j = i
        <5>1. i \in current
          BY <1>1, <3>3 DEF IInv, ResultInv, Chain
        <5>2. DenseBackward(i) /\ ~Throw
          BY <1>1, <3>1, <3>3, <4>2 DEF MapBackward, Throw, Leave
        <5> QED
          BY <4>2, <5>1, <5>2 DEF DenseBackward
      <4>3. CASE j # i
        <5>1. j \in (Len(layers) - at + 1)..Len(layers)
          BY <1>1, <4>3
        <5> QED
          BY <1>1, <3>3, <4>1, <5>1 DEF IInv, BackwardInv
      <4> QED
        BY <4>2, <4>3
    <3> QED
      BY <1>1, <2>1, <3>1, <3>2, <3>3 DEF BackwardInv
  <2>2. CASE Throw \/ Leave("crashed")
    BY <2>2 DEF Throw, Leave, BackwardInv
  <2> QED
    BY <1>2, <2>1, <2>2
<1>6. pc' # "forward" /\ outcome' # "returned" /\ CrashInv'
  BY <1>1, <1>2 DEF Pass, Throw, Leave, CrashInv
<1> QED
  BY <1>1, <1>3, <1>4, <1>5, <1>6 DEF ForwardInv, OrderlyBackwardSucceeds, StepIsOfOneInput

-----------------------------------------------------------------------------
(* The theorems.                                                           *)

LEMMA InitInv == Init => IInv
<1> SUFFICES ASSUME Init
             PROVE  IInv
  OBVIOUS
<1>1. TypeOK
  <2>1. /\ layers \in Seq(Layer) /\ Len(layers) = 0 /\ kept \in Seq(Seq(Nat)) /\ Len(kept) = 0
    BY EmptySeq DEF Init
  <2>2. DOMAIN kept = {}
    <3>1. DOMAIN kept = 1..Len(kept)
      BY <2>1, LenProperties
    <3> QED
      BY <2>1, <3>1
  <2>3. Len(layers) <= MaxLayers
    BY <2>1, TrainingAssumption
  <2>4. \A i \in DOMAIN kept : kept[i] = Empty \/ IsShape(kept[i])
    BY <2>2
  <2>5. /\ current = {} /\ updated = {} /\ pc = "idle" /\ at \in 0..Len(layers)
        /\ x = Empty /\ result = Empty /\ orderly = FALSE /\ outcome = "none"
    BY <2>1 DEF Init
  <2> QED
    BY <2>1, <2>3, <2>4, <2>5 DEF TypeOK
<1> QED
  BY <1>1 DEF Init, IInv, ForwardInv, ResultInv, BackwardInv, CrashInv,
              OrderlyBackwardSucceeds, StepIsOfOneInput

LEMMA StepInv == IInv /\ [Next]_vars => IInv'
<1> SUFFICES ASSUME IInv, [Next]_vars
             PROVE  IInv'
  OBVIOUS
<1>1. TypeOK'
  BY TypeStep DEF IInv
<1>2. ASSUME NEW l \in Layer, Add(l)
      PROVE  IInv'
  BY <1>1, <1>2 DEF Add, IInv, ForwardInv, ResultInv, BackwardInv, CrashInv,
                    OrderlyBackwardSucceeds, StepIsOfOneInput
<1>3. ASSUME NEW s \in Inputs, CallForward(s)
      PROVE  IInv'
  <2>1. Chain(0, s)'
    BY DEF Chain
  <2> QED
    BY <1>1, <1>3, <2>1 DEF CallForward, IInv, ForwardInv, ResultInv, BackwardInv, CrashInv,
                            OrderlyBackwardSucceeds, StepIsOfOneInput, Chain
<1>4. ASSUME NEW s \in Inputs, CallBackward(s)
      PROVE  IInv'
  <2>1. s # Empty
    BY TrainingAssumption, EmptyIsNoShape
  <2>2. ResultInv'
    BY <1>4 DEF CallBackward, IInv, ResultInv, Chain
  <2>3. Len(layers) \in Nat
    BY DEF IInv, TypeOK
  <2>4. BackwardInv'
    <3>1. (Len(layers) - 0 + 1)..Len(layers) = {}
      BY <2>3
    <3>2. /\ at' = 0 /\ layers' = layers /\ outcome' = "none"
          /\ orderly' => result' = x' /\ result' # Empty
      BY <1>4, <2>1 DEF CallBackward
    <3> QED
      BY <3>1, <3>2 DEF BackwardInv, Descent
  <2> QED
    BY <1>1, <1>4, <2>2, <2>4 DEF CallBackward, IInv, ForwardInv, CrashInv,
                                  OrderlyBackwardSucceeds, StepIsOfOneInput
<1>5. ASSUME NEW i \in DOMAIN layers, DenseForward(i) \/ MapForward(i)
      PROVE  IInv'
  BY <1>1, <1>5, ForwardStep DEF IInv
<1>6. ASSUME NEW i \in DOMAIN layers, DenseBackward(i) \/ MapBackward(i)
      PROVE  IInv'
  BY <1>1, <1>6, BackwardStep DEF IInv
<1>7. CASE ForwardReturns
  <2>1. ResultInv'
    BY <1>7 DEF ForwardReturns, IInv, ForwardInv, ResultInv, Chain
  <2> QED
    BY <1>1, <1>7, <2>1 DEF ForwardReturns, Leave, IInv, ForwardInv, BackwardInv, CrashInv,
                            OrderlyBackwardSucceeds, StepIsOfOneInput
<1>8. CASE BackwardReturns
  <2>1. Len(layers) \in Nat /\ DOMAIN layers = 1..Len(layers)
    BY LenProperties DEF IInv, TypeOK
  <2>2. StepIsOfOneInput'
    BY <1>8, <2>1 DEF BackwardReturns, IInv, BackwardInv, StepIsOfOneInput
  <2>3. ResultInv'
    BY <1>8 DEF BackwardReturns, IInv, ResultInv, Chain
  <2> QED
    BY <1>1, <1>8, <2>2, <2>3
       DEF BackwardReturns, Leave, IInv, ForwardInv, BackwardInv, CrashInv,
           OrderlyBackwardSucceeds
<1>9. CASE UNCHANGED vars
  BY <1>1, <1>9 DEF vars, IInv, ForwardInv, ResultInv, BackwardInv, CrashInv, Descent, Chain,
                    OrderlyBackwardSucceeds, StepIsOfOneInput
<1>10. CASE CopyNothing
  BY <1>1, <1>10 DEF CopyNothing, IInv, ForwardInv, ResultInv, BackwardInv, CrashInv,
                     OrderlyBackwardSucceeds, StepIsOfOneInput
<1> QED
  BY <1>2, <1>3, <1>4, <1>5, <1>6, <1>7, <1>8, <1>9, <1>10 DEF Next, LayerStep, Crashed

\* NeuralNetwork.cpp:20-528: every tensor has the shape the code takes it to have.
THEOREM TrainingTypeCorrect == Spec => []TypeOK
<1>1. Spec => []IInv
  BY InitInv, StepInv, PTL DEF Spec
<1>2. IInv => TypeOK
  BY DEF IInv
<1> QED
  BY <1>1, <1>2, PTL

\* NeuralNetwork.cpp:353-387, 423-430, 453-462, 487-494, 518-527: for networks of any
\* layers of any sizes, and after any calls, also failed ones.
THEOREM OrderlyBackwardAlwaysSucceeds == Spec => []OrderlyBackwardSucceeds
<1>1. Spec => []IInv
  BY InitInv, StepInv, PTL DEF Spec
<1>2. IInv => OrderlyBackwardSucceeds
  BY DEF IInv
<1> QED
  BY <1>1, <1>2, PTL

\* NeuralNetwork.cpp:337-387, 510-527: no step of training mixes two inputs.
THEOREM StepIsAlwaysOfOneInput == Spec => []StepIsOfOneInput
<1>1. Spec => []IInv
  BY InitInv, StepInv, PTL DEF Spec
<1>2. IInv => StepIsOfOneInput
  BY DEF IInv
<1> QED
  BY <1>1, <1>2, PTL

=============================================================================
