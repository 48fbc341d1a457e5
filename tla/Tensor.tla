------------------------------- MODULE Tensor --------------------------------
(***************************************************************************)
(* Shapes and indices of the Tensor of Libraries/NeuralNetwork.cpp, for    *)
(* the tensors its layers make: vectors <<n>> and matrices <<r, c>>.  The  *)
(* shape <<>> is that of a Tensor that was default-constructed or moved    *)
(* from.  Numbers are those of the code as long as they fit into an int.   *)
(***************************************************************************)
EXTENDS Naturals, Sequences

Empty == <<>>

\* length(): a product over the dimensions, 1 when there are none.
Length(s) == IF s = Empty THEN 1 ELSE IF Len(s) = 1 THEN s[1] ELSE s[1] * s[2]

\* How many floats `data` points to: none when it is null.
Floats(s) == IF s = Empty THEN 0 ELSE Length(s)

Strides(s) == IF Len(s) = 1 THEN <<1>> ELSE <<s[2], 1>>

\* Where element (i, j) of a matrix of shape s lies in its data.
LinearIndex(s, i, j) == i * Strides(s)[1] + j * Strides(s)[2]

\* dot() of shapes a and b returns; otherwise it throws.
CanDot(a, b) ==
    \/ Len(a) = 1 /\ Len(b) = 1 /\ a[1] = b[1]
    \/ Len(a) = 2 /\ Len(b) = 2 /\ a[2] = b[1]

Dot(a, b) == IF Len(a) = 1 THEN <<1>> ELSE <<a[1], b[2]>>

\* transpose() throws for anything but a matrix.
CanTranspose(s) == Len(s) = 2
Transpose(s) == <<s[2], s[1]>>

=============================================================================
