--------------------------- MODULE MCParallelFor ----------------------------
(* A call on its own: ranges that are empty, shorter than the pool is      *)
(* wide, that start off zero, with and without a wish for a number of      *)
(* tasks, one of which (4 for 9 indices) leaves the last chunk empty;      *)
(* matrices; fewer rows and more rows than parts to deal them to.  Two     *)
(* short calls at the same time, where either or both may be inside.       *)
EXTENDS ParallelFor

CONSTANTS a, b

MCCaller == {a, b}
MCTask == MCCaller \X (-1..3)

Nothing == MapCall(TRUE, 5, 3, 2)
Alone ==
    {MapCall(p, 3, 3 + n, d) : p \in BOOLEAN, n \in {1, 5}, d \in {-1, 2, 6}}
    \cup {MapCall(TRUE, -1, 8, 4), RowsCall(TRUE, 5, 3), RowsCall(FALSE, 1, 3)}
    \cup {ReduceCall(p, r) : p \in BOOLEAN, r \in {0, 3, 11}}
Together == {MapCall(TRUE, 0, 4, -1), MapCall(FALSE, 0, 2, -1), RowsCall(TRUE, 3, 2)}

MCPlans ==
    {[c \in MCCaller |-> IF c = a THEN k ELSE Nothing] : k \in Alone}
    \cup [MCCaller -> Together]

=============================================================================
