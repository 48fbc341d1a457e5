----------------------------- MODULE MCTraining ------------------------------
(***************************************************************************)
(* Training for TLC: a batch of one or two rows, vectors, and Dense layers *)
(* that fit after one another in some orders and not in others.            *)
(***************************************************************************)
EXTENDS Training

MCInputs == {<<2>>, <<1, 1>>, <<1, 2>>, <<2, 1>>, <<2, 2>>}
MCDenseSizes == {<<1, 2>>, <<2, 1>>, <<2, 2>>}

=============================================================================
