---------------------------- MODULE ParallelFor -----------------------------
(***************************************************************************)
(* Libraries/ParallelFor.h and the callers of it in Ops_Parallel.h: threads*)
(* that make a call of ForEachRange, or of reduce_sum_rows, on one pool at *)
(* the same time.  A caller is a thread of its own or, if it is `inside`,  *)
(* a task of that very pool, which keeps its worker until the call is      *)
(* over.  The pool is TaskExecutor, which ThreadPool is shown to           *)
(* implement; chunk number t of caller c is known to it as <<c, t>>, the   *)
(* task an inside caller runs in as <<c, -1>>.                             *)
(*                                                                         *)
(* What fn does to the data of an index is abstracted to the fact that it  *)
(* was done.  The function that a caller passes to unary_map or binary_map *)
(* may throw at any index; the kernels of the repository do not.           *)
(***************************************************************************)
EXTENDS Partition, TaskExecutor, Tensor

CONSTANTS Caller,   \* the threads and tasks that make a call
          Plans     \* what they call, at most once each: functions from Caller to calls

\* tasks of reduce_sum_rows.
Parts == Greater(1, 4 * Width)

\* ForEachRange over begin..end-1, by unary_map and binary_map; over the rows
\* of a matrix that is written, by matmul_rows and add_bias_broadcast; and over
\* the parts to which reduce_sum_rows deals the rows it sums.  `pooled`: the
\* pool that is passed is not nullptr.
MapCall(pooled, begin, end, desired) ==
    [kind |-> "map", pooled |-> pooled, begin |-> begin, end |-> end, desired |-> desired,
     shape |-> Empty]
RowsCall(pooled, rows, cols) ==
    [kind |-> "rows", pooled |-> pooled, begin |-> 0, end |-> rows, desired |-> -1,
     shape |-> <<rows, cols>>]
ReduceCall(pooled, rows) ==
    [kind |-> "reduce", pooled |-> pooled, begin |-> 0, end |-> Parts, desired |-> -1,
     shape |-> <<rows, 1>>]

Size(k) == k.end - k.begin
TasksOf(k) == NumTasks(Size(k), Width, k.desired)
ChunkSize(k) == Chunk(Size(k), TasksOf(k))
Own(c) == <<c, -1>>

IsCall(k) ==
    /\ k.pooled \in BOOLEAN
    /\ \/ /\ k.begin \in Int /\ k.end \in Int /\ k.desired \in Int
          /\ k = MapCall(k.pooled, k.begin, k.end, k.desired)
       \/ k.shape \in Nat \X Nat /\ k = RowsCall(k.pooled, k.shape[1], k.shape[2])
       \/ k.shape \in Nat \X {1} /\ k = ReduceCall(k.pooled, k.shape[1])

ASSUME ForAssumption ==
    /\ Width \in Nat \ {0}
    /\ \A p \in Plans, c \in Caller :
          /\ IsCall(p[c])
          /\ Own(c) \in Task
          /\ Size(p[c]) > 0 => {c} \X (0..(TasksOf(p[c]) - 1)) \subseteq Task

VARIABLES
    inside,   \* the callers that are tasks of the pool
    call,     \* the call each of them makes
    pc,       \* Caller -> "idle" or "queued" (inside), "begin", "submit", "wait",
              \* "returned", "threw"
    next,     \* Caller -> t, the number of the next chunk to enqueue
    got,      \* Caller -> how many futures have been waited for
    failed,   \* chunks whose future holds an exception
    once,     \* history: Caller -> elements whose work has been done
    again     \* history: Caller -> elements whose work has been done more than once

plan == <<inside, call>>
forVars == <<plan, pc, next, got>>
workVars == <<failed, once, again>>
vars == <<forVars, workVars, abstractVars>>

\* What one index of the range stands for: itself, the cells of a row, or the
\* rows of a part.
Elements(k, i) ==
    IF k.kind = "map" THEN {i}
    ELSE IF k.kind = "rows" THEN {LinearIndex(k.shape, i, j) : j \in 0..(k.shape[2] - 1)}
    ELSE PartStart(k.shape[1], Parts, i)..(PartStart(k.shape[1], Parts, i + 1) - 1)

\* All the work of a call.
Work(k) == IF k.kind = "map" THEN k.begin..(k.end - 1) ELSE 0..(Length(k.shape) - 1)

ChunkFrom(k, t) == ChunkStart(k.begin, ChunkSize(k), t)
ChunkTo(k, t) == ChunkEnd(k.begin, k.end, ChunkSize(k), t)
Indices(k, t) == ChunkFrom(k, t)..(ChunkTo(k, t) - 1)

Over(c) == pc[c] \in {"returned", "threw"}

\* Every worker runs a caller that waits for a chunk nobody is left to run.
Stuck ==
    /\ Cardinality(active) = Width
    /\ \A t \in active :
          \E c \in inside : t = Own(c) /\ pc[c] = "wait" /\ <<c, got[c]>> \in Queued

TypeOK ==
    /\ inside \subseteq Caller /\ call \in Plans
    /\ pc \in [Caller -> {"idle", "queued", "begin", "submit", "wait", "returned", "threw"}]
    /\ next \in [Caller -> Nat] /\ got \in [Caller -> Nat]
    /\ \A c \in Caller : got[c] <= next[c]
    /\ failed \subseteq finished
    /\ finished \cup active \cup Queued \subseteq Task
    /\ backlog \in Seq(Task)
    /\ once \in [Caller -> SUBSET Int] /\ again \in [Caller -> SUBSET Int]

Init ==
    /\ inside \in SUBSET Caller /\ call \in Plans
    /\ pc = [c \in Caller |-> IF c \in inside THEN "idle" ELSE "begin"]
    /\ next = [c \in Caller |-> 0] /\ got = [c \in Caller |-> 0]
    /\ failed = {}
    /\ once = [c \in Caller |-> {}] /\ again = [c \in Caller |-> {}]
    /\ AbstractInit

-----------------------------------------------------------------------------
Goto(c, label) == pc' = [pc EXCEPT ![c] = label]

\* fn of caller c is applied to the indices of S.
Apply(c, S) ==
    LET done == UNION {Elements(call[c], i) : i \in S}
    IN  /\ once' = [once EXCEPT ![c] = @ \cup done]
        /\ again' = [again EXCEPT ![c] = @ \cup (once[c] \cap done)]

\* Somebody enqueues the task that is going to make the call.
Post(c) ==
    /\ pc[c] = "idle"
    /\ Submit(Own(c))
    /\ Goto(c, "queued")
    /\ UNCHANGED <<plan, next, got, workVars>>

\* Nothing to do.
ReturnAtOnce(c) ==
    /\ pc[c] = "begin" /\ Size(call[c]) <= 0
    /\ Goto(c, "returned")
    /\ UNCHANGED <<plan, next, got, workVars, abstractVars>>

MayThrow(k) == k.kind = "map"

\* No pool: everything on the calling thread.
Direct(c) ==
    /\ pc[c] = "begin" /\ Size(call[c]) > 0 /\ ~call[c].pooled
    /\ \/ Goto(c, "returned") /\ Apply(c, call[c].begin..(call[c].end - 1))
       \/ \E i \in call[c].begin..(call[c].end - 1) :
             /\ MayThrow(call[c]) /\ Goto(c, "threw")
             /\ Apply(c, call[c].begin..(i - 1))
    /\ UNCHANGED <<plan, next, got, failed, abstractVars>>

Begin(c) ==
    /\ pc[c] = "begin" /\ Size(call[c]) > 0 /\ call[c].pooled
    /\ Goto(c, "submit")
    /\ UNCHANGED <<plan, next, got, workVars, abstractVars>>

\* Mutant: one turn too many, and no look at s >= e.
EnqueuePastEnd(c) ==
    /\ pc[c] = "submit"
    /\ next[c] <= TasksOf(call[c])
    /\ Submit(<<c, next[c]>>)
    /\ next' = [next EXCEPT ![c] = @ + 1]
    /\ UNCHANGED <<plan, pc, got, workVars>>

Enqueue(c) ==
    /\ pc[c] = "submit"
    /\ next[c] < TasksOf(call[c]) /\ Indices(call[c], next[c]) # {}
    /\ Submit(<<c, next[c]>>)
    /\ next' = [next EXCEPT ![c] = @ + 1]
    /\ UNCHANGED <<plan, pc, got, workVars>>

\* The loop ends, or breaks at the first empty chunk.
EndOfLoop(c) ==
    /\ pc[c] = "submit"
    /\ next[c] = TasksOf(call[c]) \/ Indices(call[c], next[c]) = {}
    /\ Goto(c, "wait")
    /\ UNCHANGED <<plan, next, got, workVars, abstractVars>>

\* Mutant: the first future is not waited for.
GetSkipsFirst(c) ==
    /\ pc[c] = "wait" /\ got[c] < next[c]
    /\ got[c] = 0 \/ <<c, got[c]>> \in finished \ failed
    /\ got' = [got EXCEPT ![c] = @ + 1]
    /\ UNCHANGED <<plan, pc, next, workVars, abstractVars>>

\* future.get() of the chunks in order.
Get(c) ==
    /\ pc[c] = "wait" /\ got[c] < next[c]
    /\ <<c, got[c]>> \in finished \ failed
    /\ got' = [got EXCEPT ![c] = @ + 1]
    /\ UNCHANGED <<plan, pc, next, workVars, abstractVars>>

\* Mutant: the exception is swallowed and the same future asked again.
RethrowForgotten(c) ==
    /\ pc[c] = "wait" /\ got[c] < next[c]
    /\ <<c, got[c]>> \in failed
    /\ UNCHANGED vars

\* Mutant: the first exception in time is rethrown.
RethrowAny(c) ==
    /\ pc[c] = "wait" /\ got[c] < next[c]
    /\ \E t \in 0..next[c] : <<c, t>> \in failed
    /\ Goto(c, "threw")
    /\ UNCHANGED <<plan, next, got, workVars, abstractVars>>

\* get() rethrows; the futures that are left are dropped without a wait.
Rethrow(c) ==
    /\ pc[c] = "wait" /\ got[c] < next[c]
    /\ <<c, got[c]>> \in failed
    /\ Goto(c, "threw")
    /\ UNCHANGED <<plan, next, got, workVars, abstractVars>>

Return(c) ==
    /\ pc[c] = "wait" /\ got[c] = next[c]
    /\ Goto(c, "returned")
    /\ UNCHANGED <<plan, next, got, workVars, abstractVars>>

CallerStep(c) ==
    \/ ReturnAtOnce(c) \/ Direct(c) \/ Begin(c) \/ Enqueue(c) \/ EndOfLoop(c)
    \/ Get(c) \/ Rethrow(c) \/ Return(c)

\* A worker begins the oldest task: a chunk, or one that makes a call.
StartTask ==
    /\ Start
    /\ pc' = [c \in Caller |-> IF Own(c) = Head(backlog) THEN "begin" ELSE pc[c]]
    /\ UNCHANGED <<plan, next, got, workVars>>

\* A worker ends a chunk, with all of it done or at the index that throws.
FinishChunk(c, t) ==
    /\ Finish(<<c, t>>)
    /\ \/ /\ Apply(c, Indices(call[c], t))
          /\ failed' = failed
       \/ \E i \in Indices(call[c], t) :
             /\ MayThrow(call[c])
             /\ Apply(c, ChunkFrom(call[c], t)..(i - 1))
             /\ failed' = failed \cup {<<c, t>>}
    /\ UNCHANGED forVars

\* The task that made the call ends with it.
FinishCaller(c) ==
    /\ Over(c) /\ Finish(Own(c))
    /\ UNCHANGED <<forVars, workVars>>

Terminated ==
    /\ Stuck \/ (backlog = <<>> /\ active = {} /\ \A c \in Caller : Over(c))
    /\ UNCHANGED vars

Next ==
    \/ \E c \in Caller : Post(c) \/ CallerStep(c) \/ FinishCaller(c)
    \/ StartTask
    \/ \E c \in Caller : \E t \in 0..next[c] : FinishChunk(c, t)
    \/ Terminated

(* A calling thread goes on when it can, and the pool keeps the promise of *)
(* TaskExecutor.                                                           *)
Fairness ==
    /\ \A c \in Caller : WF_vars(CallerStep(c)) /\ WF_vars(FinishCaller(c))
    /\ WF_vars(StartTask)
    /\ \A e \in Task \ {Own(c) : c \in Caller} : WF_vars(FinishChunk(e[1], e[2]))

SafetySpec == Init /\ [][Next]_vars
Spec == SafetySpec /\ Fairness

-----------------------------------------------------------------------------
(* Properties                                                              *)

\* ParallelFor, matmul_rows, add_bias_broadcast, reduce_sum_rows: when a call
\* returns, the work of every element has been done, exactly once, and no
\* other work: the chunks, rows and parts leave no gap and do not overlap.
\* Nothing of the call is left behind on the pool.
EachOnce ==
    \A c \in Caller : pc[c] = "returned" =>
        /\ once[c] = Work(call[c]) /\ again[c] = {}
        /\ \A t \in 0..next[c] : <<c, t>> \notin Queued \cup active

\* The chunks of a call that run at the same time, and those that ran before,
\* share no element: the kernels write without locks.
NoSharedElement ==
    \A c \in Caller :
        LET running == {t \in 0..next[c] : <<c, t>> \in active}
        IN  /\ again[c] = {}
            /\ \A t \in running : \A i \in Indices(call[c], t) :
                  Elements(call[c], i) \cap once[c] = {}
            /\ \A t, u \in running : t # u =>
                  \A i \in Indices(call[c], t), j \in Indices(call[c], u) :
                      Elements(call[c], i) \cap Elements(call[c], j) = {}

\* The exception that reaches the caller is that of the first chunk in the
\* order of the range that failed, whichever chunk failed first in time.  The
\* chunks that may still run on the data of the caller come after that one.
FirstExceptionWins ==
    \A c \in Caller : pc[c] = "threw" /\ call[c].pooled =>
        /\ <<c, got[c]>> \in failed
        /\ \A t \in 0..(got[c] - 1) : <<c, t>> \in finished \ failed

\* A call ends, by return or by exception, unless every worker of the pool is
\* taken by a task that makes such a call itself.  In particular, calls from
\* outside return, and calls from inside do as long as one worker is spared.
Returns ==
    \A c \in Caller : (pc[c] \in {"queued", "begin"}) ~> (Over(c) \/ Stuck)

=============================================================================
