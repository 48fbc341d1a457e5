------------------------------ MODULE Training -------------------------------
(***************************************************************************)
(* Libraries/NeuralNetwork.cpp: a Sequential, the layers added to it, and  *)
(* the calls of forward and backward that one thread makes in any order,   *)
(* catching what they throw.  Each layer is one step.  Of a Tensor its     *)
(* shape is kept; of the weights of a Dense layer whether backward has     *)
(* updated them, and from which input.                                     *)
(*                                                                         *)
(* The operations on elements run on the pool; ParallelFor shows that such *)
(* a call is over, element by element and once each, when it returns, so   *)
(* that they appear here as one step.  Nothing in the repository makes     *)
(* these calls yet.                                                        *)
(***************************************************************************)
EXTENDS Tensor, Naturals, Sequences

CONSTANTS Inputs,     \* shapes of the tensors passed to forward and to backward
          DenseSizes, \* pairs <<input_size, output_size>>
          MaxLayers   \* bound: how many layers are added

\* ReLu, Sigmoid and LeakyReLU are alike: "map" applies to every element.
Layer == [kind : {"dense"}, size : DenseSizes] \cup [kind : {"map"}, size : {Empty}]
IsDense(l) == l.kind = "dense"

\* The shape of a tensor with data: a constructor makes it of positive numbers.
IsShape(s) == s \in Seq(Nat) /\ Len(s) \in 1..2 /\ \A i \in DOMAIN s : s[i] > 0

ASSUME TrainingAssumption ==
    /\ \A s \in Inputs : IsShape(s)
    /\ \A s \in DenseSizes : IsShape(s) /\ Len(s) = 2
    /\ MaxLayers \in Nat

VARIABLES
    layers,    \* the layers in the order of add
    kept,      \* per layer: the shape of last_input (last_output of a Sigmoid)
    current,   \* history: the layers that have kept a tensor of the latest forward
    pc,        \* "idle", "forward", "backward", or "crashed"
    at,        \* how many layers the running call has left behind
    x,         \* the shape of the tensor on its way through the layers
    result,    \* history: the shape the latest forward has returned, Empty if it
               \* threw or a layer has been added since
    orderly,   \* history: the latest backward was given a gradient of that shape
    updated,   \* history: the layers whose weights the latest backward has updated from
               \* an input of the latest forward
    outcome    \* history: how a backward has ended that no forward or add has followed
               \* yet: "returned", "threw", or "strayed" (it has read beyond the end of
               \* a tensor); "none" otherwise

vars == <<layers, kept, current, pc, at, x, result, orderly, updated, outcome>>

TypeOK ==
    /\ layers \in Seq(Layer) /\ Len(layers) <= MaxLayers
    /\ kept \in Seq(Seq(Nat)) /\ Len(kept) = Len(layers)
    /\ \A i \in DOMAIN kept : kept[i] = Empty \/ IsShape(kept[i])
    /\ current \subseteq DOMAIN layers
    /\ updated \subseteq DOMAIN layers
    /\ pc \in {"idle", "forward", "backward", "crashed"}
    /\ at \in 0..Len(layers)
    /\ IF pc \in {"forward", "backward"} THEN IsShape(x) ELSE x = Empty
    /\ result = Empty \/ IsShape(result)
    /\ orderly \in BOOLEAN
    /\ outcome \in {"none", "returned", "threw", "strayed"}

Init ==
    /\ layers = <<>> /\ kept = <<>> /\ current = {} /\ updated = {}
    /\ pc = "idle" /\ at = 0 /\ x = Empty
    /\ result = Empty /\ orderly = FALSE /\ outcome = "none"

-----------------------------------------------------------------------------
Add(l) ==
    /\ pc = "idle" /\ Len(layers) < MaxLayers
    /\ layers' = Append(layers, l)
    /\ kept' = Append(kept, Empty)
    /\ result' = Empty /\ outcome' = "none"
    /\ UNCHANGED <<current, pc, at, x, orderly, updated>>

CallForward(s) ==
    /\ pc = "idle"
    /\ pc' = "forward" /\ at' = 0 /\ x' = s
    /\ current' = {}
    /\ result' = Empty /\ outcome' = "none"
    /\ UNCHANGED <<layers, kept, orderly, updated>>

CallBackward(s) ==
    /\ pc = "idle"
    /\ pc' = "backward" /\ at' = 0 /\ x' = s
    /\ orderly' = (s = result)
    /\ updated' = {}
    /\ outcome' = "none"
    /\ UNCHANGED <<layers, kept, current, result>>

\* forward or backward is passed a tensor that was default-constructed or moved from:
\* each begins with a copy, which takes as many elements as length() says.
CopyNothing ==
    /\ pc = "idle" /\ Length(Empty) > Floats(Empty)
    /\ pc' = "crashed" /\ outcome' = "strayed"
    /\ orderly' = FALSE /\ result' = Empty
    /\ UNCHANGED <<layers, kept, current, at, x, updated>>

\* Mutant: backward goes up as well.
TurnUp == at + 1

\* The layer whose turn it is: forward goes up, backward down.
Turn == IF pc = "forward" THEN at + 1 ELSE Len(layers) - at

\* Mutant: a call leaves its tensor behind for the next one.
LeaveTensor(to) == pc' = to /\ at' = 0 /\ UNCHANGED x

Pass(s) == at' = at + 1 /\ x' = s /\ UNCHANGED pc
Leave(to) == pc' = to /\ at' = 0 /\ x' = Empty
Throw == Leave("idle")

\* Mutant: the input is copied only by a layer that has none yet.
KeepFirst(i) ==
    /\ kept' = IF kept[i] = Empty THEN [kept EXCEPT ![i] = x] ELSE kept
    /\ current' = IF kept[i] = Empty THEN current \cup {i} ELSE current

\* The layer copies its input before it looks at it.
Keep(i) ==
    /\ kept' = [kept EXCEPT ![i] = x]
    /\ current' = current \cup {i}

DenseForward(i) ==
    /\ pc = "forward" /\ at < Len(layers) /\ i = Turn /\ IsDense(layers[i])
    /\ Keep(i)
    /\ IF CanDot(x, layers[i].size) THEN Pass(Dot(x, layers[i].size)) ELSE Throw
    /\ UNCHANGED <<layers, result, orderly, updated, outcome>>

MapForward(i) ==
    /\ pc = "forward" /\ at < Len(layers) /\ i = Turn /\ ~IsDense(layers[i])
    /\ Keep(i) /\ Pass(x)
    /\ UNCHANGED <<layers, result, orderly, updated, outcome>>

ForwardReturns ==
    /\ pc = "forward" /\ at = Len(layers)
    /\ Leave("idle") /\ result' = x
    /\ UNCHANGED <<layers, kept, current, orderly, updated, outcome>>

-----------------------------------------------------------------------------
\* A layer has read n elements of a tensor that has m: beyond its end nothing is
\* promised, the process crashes there or goes on with what it has found.  It does
\* crash if the tensor has no data at all, which is a null pointer.
ReadAndPass(n, m, s) ==
    \/ n <= m /\ Pass(s) /\ UNCHANGED outcome
    \/ n > m /\ outcome' = "strayed" /\ ((m > 0 /\ Pass(s)) \/ Leave("crashed"))

\* The products of the gradient with the transposed weights, and of the transposed
\* input with the gradient, are both formed: their shapes are what is checked.
CanStepBack(l, k, g) ==
    /\ CanDot(g, Transpose(l.size))
    /\ CanTranspose(k)
    /\ CanDot(Transpose(k), g)

\* The update walks over the weights and takes as many elements of their gradient.
DenseBackward(i) ==
    /\ pc = "backward" /\ at < Len(layers) /\ i = Turn /\ IsDense(layers[i])
    /\ \/ /\ CanStepBack(layers[i], kept[i], x)
          /\ ReadAndPass(Length(layers[i].size), Floats(Dot(Transpose(kept[i]), x)),
                         Dot(x, Transpose(layers[i].size)))
          /\ updated' = updated \cup ({i} \cap current)
       \/ /\ ~CanStepBack(layers[i], kept[i], x)
          /\ Throw /\ outcome' = "threw" /\ UNCHANGED updated
    /\ UNCHANGED <<layers, kept, current, result, orderly>>

\* As many elements of what is kept are read as the gradient has.
MapBackward(i) ==
    /\ pc = "backward" /\ at < Len(layers) /\ i = Turn /\ ~IsDense(layers[i])
    /\ ReadAndPass(Length(x), Floats(kept[i]), x)
    /\ UNCHANGED <<layers, kept, current, result, orderly, updated>>

BackwardReturns ==
    /\ pc = "backward" /\ at = Len(layers)
    /\ Leave("idle")
    /\ outcome' = IF outcome = "none" THEN "returned" ELSE outcome
    /\ UNCHANGED <<layers, kept, current, result, orderly, updated>>

Crashed == pc = "crashed" /\ UNCHANGED vars

LayerStep ==
    \E i \in DOMAIN layers :
        DenseForward(i) \/ MapForward(i) \/ DenseBackward(i) \/ MapBackward(i)

Next ==
    \/ \E l \in Layer : Add(l)
    \/ \E s \in Inputs : CallForward(s) \/ CallBackward(s)
    \/ CopyNothing
    \/ LayerStep \/ ForwardReturns \/ BackwardReturns
    \/ Crashed

Spec == Init /\ [][Next]_vars

-----------------------------------------------------------------------------
\* A backward that gets a gradient of the shape the latest forward has returned, with
\* no layer added since, neither throws nor reads beyond a tensor, whatever calls have
\* failed before: the shapes each layer has kept fit those that come back to it.
OrderlyBackwardSucceeds == orderly => outcome \in {"none", "returned"}

\* No step of training mixes two inputs.  If the latest forward has returned, then a
\* backward that returns, whatever gradient it was given, has updated every Dense layer
\* from the input of that forward.  (After a forward that has thrown, the layers behind
\* the one that threw still hold an older input, and backward uses it.)
StepIsOfOneInput ==
    outcome = "returned" /\ result # Empty
        => \A i \in DOMAIN layers : IsDense(layers[i]) => i \in updated

=============================================================================
