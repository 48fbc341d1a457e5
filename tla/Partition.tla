----------------------------- MODULE Partition ------------------------------
(***************************************************************************)
(* The arithmetic by which Libraries/ParallelFor.h cuts a range of indices *)
(* into chunks, and by which reduce_sum_rows and the vector dot product    *)
(* deal out rows.  Integers are those of the code as long as they fit: a   *)
(* range of less than 2^31 grains.                                         *)
(***************************************************************************)
EXTENDS Integers

CONSTANT MinChunk   \* minChunk, 8192 in the code

ASSUME PartitionAssumption == MinChunk \in Nat \ {0}

Lesser(a, b) == IF a <= b THEN a ELSE b
Greater(a, b) == IF a >= b THEN a ELSE b
CeilDiv(a, b) == (a + b - 1) \div b

\* How many chunks a range of n > 0 indices is cut into.  The grain limit is
\* never 0 for such a range.
NumTasks(n, threads, desired) ==
    LET wanted == IF desired > 0 THEN desired ELSE 4 * Greater(1, threads)
    IN  Lesser(Greater(1, Lesser(wanted, n)), CeilDiv(n, MinChunk))

Chunk(n, k) == CeilDiv(n, k)

\* The bounds s and e of chunk number t when chunks have size c.
ChunkStart(begin, c, t) == begin + t * c

\* Mutant: e counts as part of the chunk.
ChunkEndIncluded(begin, end, c, t) == Lesser(begin + t * c + c + 1, end)

ChunkEnd(begin, end, c, t) == Lesser(begin + t * c + c, end)

\* Where part t of T begins when b rows are dealt out to T parts.
PartStart(b, T, t) == (b * t) \div T

=============================================================================
