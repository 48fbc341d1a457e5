----------------------------- MODULE ThreadPool -----------------------------
(***************************************************************************)
(* Libraries/ThreadPool.hpp: a queue of tasks, a mutex, a condition        *)
(* variable and a fixed set of worker threads.                             *)
(*                                                                         *)
(* A critical section of mEventMutex is one action: the state it reads and *)
(* writes is touched nowhere else.  What happens outside the mutex is an   *)
(* action of its own: the notify_one of enqueue, the notify_all of stop,   *)
(* the run of a task and the joins of the destructor.                      *)
(*                                                                         *)
(* Each member of Task is one call of enqueue, made at most once by any    *)
(* thread, a worker included.                                              *)
(***************************************************************************)
EXTENDS Naturals, Sequences, FiniteSets

CONSTANTS Worker,   \* the threads that start() creates
          Task,     \* the calls of enqueue
          NoTask    \* the empty std::function of a worker without a task

ASSUME PoolAssumption ==
    /\ Worker # {}
    /\ IsFiniteSet(Worker)
    /\ NoTask \notin Task

VARIABLES
    mTasks,     \* std::queue of tasks not yet taken
    mStopping,  \* the flag that stop() sets
    phase,      \* how far the owner is: constructor, use, stop(), end
    call,       \* each enqueue: "idle", "notify" (pushed, not notified), "returned"
    pc,         \* each worker: "unborn", "lock", "waiting", "running", "exited"
    task,       \* the task a worker has moved out of the queue
    future,     \* each task's shared state: "pending", "value", "exception", "broken"
    pushed,     \* history: the tasks in the order they were pushed
    taken,      \* history: the tasks in the order they were popped
    atStop      \* history: how many had been pushed when mStopping was set

vars == <<mTasks, mStopping, phase, call, pc, task, future, pushed, taken, atStop>>

Phase == {"constructing", "live", "stopping", "joining", "destroyed"}

TypeOK ==
    /\ mTasks \in Seq(Task)
    /\ mStopping \in BOOLEAN
    /\ phase \in Phase
    /\ call \in [Task -> {"idle", "notify", "returned"}]
    /\ pc \in [Worker -> {"unborn", "lock", "waiting", "running", "exited"}]
    /\ task \in [Worker -> Task \cup {NoTask}]
    /\ future \in [Task -> {"pending", "value", "exception", "broken"}]
    /\ pushed \in Seq(Task)
    /\ taken \in Seq(Task)
    /\ atStop \in Nat
    /\ \A w \in Worker : pc[w] = "running" <=> task[w] # NoTask

Init ==
    /\ mTasks = <<>>
    /\ mStopping = FALSE
    /\ phase = "constructing"
    /\ call = [t \in Task |-> "idle"]
    /\ pc = [w \in Worker |-> "unborn"]
    /\ task = [w \in Worker |-> NoTask]
    /\ future = [t \in Task |-> "pending"]
    /\ pushed = <<>> /\ taken = <<>>
    /\ atStop = 0

-----------------------------------------------------------------------------
(* The constructor: start() creates the threads one by one, and a thread   *)
(* may be at its mutex before the next one exists.                         *)

Spawn(w) ==
    /\ phase = "constructing"
    /\ pc[w] = "unborn"
    /\ pc' = [pc EXCEPT ![w] = "lock"]
    /\ UNCHANGED <<mTasks, mStopping, phase, call, task, future, pushed, taken, atStop>>

Constructed ==
    /\ phase = "constructing"
    /\ \A w \in Worker : pc[w] # "unborn"
    /\ phase' = "live"
    /\ UNCHANGED <<mTasks, mStopping, call, pc, task, future, pushed, taken, atStop>>

-----------------------------------------------------------------------------
(* enqueue: push under the mutex, notify after it is released.  Nothing in *)
(* enqueue looks at mStopping, so a push may also follow stop().           *)

Waiting == {w \in Worker : pc[w] = "waiting"}
AtLock == {w \in Worker : pc[w] = "lock"}
Notifying == {t \in Task : call[t] = "notify"}

\* Mutant: a push on a stack instead of a queue.
PushFront(t) ==
    /\ phase \in {"live", "stopping", "joining"}
    /\ call[t] = "idle"
    /\ mTasks' = <<t>> \o mTasks
    /\ pushed' = Append(pushed, t)
    /\ call' = [call EXCEPT ![t] = "notify"]
    /\ UNCHANGED <<mStopping, phase, pc, task, future, taken, atStop>>

Push(t) ==
    /\ phase \in {"live", "stopping", "joining"}
    /\ call[t] = "idle"
    /\ mTasks' = Append(mTasks, t)
    /\ pushed' = Append(pushed, t)
    /\ call' = [call EXCEPT ![t] = "notify"]
    /\ UNCHANGED <<mStopping, phase, pc, task, future, taken, atStop>>

\* Mutant: the notification is lost.
NotifyNobody(t) ==
    /\ call[t] = "notify"
    /\ call' = [call EXCEPT ![t] = "returned"]
    /\ UNCHANGED <<mTasks, mStopping, phase, pc, task, future, pushed, taken, atStop>>

NotifyOne(t) ==
    /\ call[t] = "notify"
    /\ call' = [call EXCEPT ![t] = "returned"]
    /\ \/ /\ Waiting = {}
          /\ pc' = pc
       \/ \E w \in Waiting : pc' = [pc EXCEPT ![w] = "lock"]
    /\ UNCHANGED <<mTasks, mStopping, phase, task, future, pushed, taken, atStop>>

-----------------------------------------------------------------------------
(* A worker.  At "lock" it acquires the mutex and evaluates the predicate  *)
(* of wait(): it sleeps, leaves the loop, or takes the oldest task.        *)

Wait(w) ==
    /\ pc[w] = "lock"
    /\ ~mStopping /\ mTasks = <<>>
    /\ pc' = [pc EXCEPT ![w] = "waiting"]
    /\ UNCHANGED <<mTasks, mStopping, phase, call, task, future, pushed, taken, atStop>>

\* Mutant: the worker leaves as soon as it sees the flag.
ExitOnFlag(w) ==
    /\ pc[w] = "lock"
    /\ mStopping
    /\ pc' = [pc EXCEPT ![w] = "exited"]
    /\ UNCHANGED <<mTasks, mStopping, phase, call, task, future, pushed, taken, atStop>>

Exit(w) ==
    /\ pc[w] = "lock"
    /\ mStopping /\ mTasks = <<>>
    /\ pc' = [pc EXCEPT ![w] = "exited"]
    /\ UNCHANGED <<mTasks, mStopping, phase, call, task, future, pushed, taken, atStop>>

\* Mutant: the front is copied and the pop forgotten.
TakeNoPop(w) ==
    /\ pc[w] = "lock"
    /\ mTasks # <<>>
    /\ task' = [task EXCEPT ![w] = Head(mTasks)]
    /\ mTasks' = mTasks
    /\ taken' = IF Len(taken) < Cardinality(Task) THEN Append(taken, Head(mTasks)) ELSE taken
    /\ pc' = [pc EXCEPT ![w] = "running"]
    /\ UNCHANGED <<mStopping, phase, call, future, pushed, atStop>>

Take(w) ==
    /\ pc[w] = "lock"
    /\ mTasks # <<>>
    /\ task' = [task EXCEPT ![w] = Head(mTasks)]
    /\ mTasks' = Tail(mTasks)
    /\ taken' = Append(taken, Head(mTasks))
    /\ pc' = [pc EXCEPT ![w] = "running"]
    /\ UNCHANGED <<mStopping, phase, call, future, pushed, atStop>>

\* Mutant: the worker keeps the task it has run.
RunKeepsTask(w) ==
    /\ pc[w] = "running"
    /\ \E outcome \in {"value", "exception"} : future' = [future EXCEPT ![task[w]] = outcome]
    /\ task' = task
    /\ pc' = [pc EXCEPT ![w] = "lock"]
    /\ UNCHANGED <<mTasks, mStopping, phase, call, pushed, taken, atStop>>

\* task(): the packaged_task keeps the value or the exception in its future.
Run(w) ==
    /\ pc[w] = "running"
    /\ \E outcome \in {"value", "exception"} : future' = [future EXCEPT ![task[w]] = outcome]
    /\ task' = [task EXCEPT ![w] = NoTask]
    /\ pc' = [pc EXCEPT ![w] = "lock"]
    /\ UNCHANGED <<mTasks, mStopping, phase, call, pushed, taken, atStop>>

\* A condition variable may wake a waiter that nobody notified.
SpuriousWake(w) ==
    /\ pc[w] = "waiting"
    /\ pc' = [pc EXCEPT ![w] = "lock"]
    /\ UNCHANGED <<mTasks, mStopping, phase, call, task, future, pushed, taken, atStop>>

-----------------------------------------------------------------------------
(* The destructor: stop() sets the flag under the mutex, notifies all      *)
(* workers, joins them; then the queue is destroyed with what it holds.    *)

SetStopping ==
    /\ phase = "live"
    /\ phase' = "stopping"
    /\ mStopping' = TRUE
    /\ atStop' = Len(pushed)
    /\ UNCHANGED <<mTasks, call, pc, task, future, pushed, taken>>

\* Mutant: notify_one where every worker has to be told.
NotifyAllOnlyOne ==
    /\ phase = "stopping"
    /\ phase' = "joining"
    /\ \/ Waiting = {} /\ pc' = pc
       \/ \E w \in Waiting : pc' = [pc EXCEPT ![w] = "lock"]
    /\ UNCHANGED <<mTasks, mStopping, call, task, future, pushed, taken, atStop>>

NotifyAll ==
    /\ phase = "stopping"
    /\ phase' = "joining"
    /\ pc' = [w \in Worker |-> IF pc[w] = "waiting" THEN "lock" ELSE pc[w]]
    /\ UNCHANGED <<mTasks, mStopping, call, task, future, pushed, taken, atStop>>

\* The joins return once every worker has left its loop.  No enqueue may be
\* between its push and its notify: that is the caller's duty towards any
\* object it shares, and the pool does not check it.
Destroy ==
    /\ phase = "joining"
    /\ \A w \in Worker : pc[w] = "exited"
    /\ \A t \in Task : call[t] # "notify"
    /\ phase' = "destroyed"
    /\ mTasks' = <<>>
    /\ future' = [t \in Task |->
                    IF \E i \in DOMAIN mTasks : mTasks[i] = t THEN "broken" ELSE future[t]]
    /\ UNCHANGED <<mStopping, call, pc, task, pushed, taken, atStop>>

\* The pool is gone; the only state in which nothing is left to do.
Terminated == phase = "destroyed" /\ UNCHANGED vars

-----------------------------------------------------------------------------
WorkerStep(w) == Wait(w) \/ Exit(w) \/ Take(w) \/ Run(w)

Next ==
    \/ \E w \in Worker : Spawn(w) \/ WorkerStep(w) \/ SpuriousWake(w)
    \/ \E t \in Task : Push(t) \/ NotifyOne(t)
    \/ Constructed \/ SetStopping \/ NotifyAll \/ Destroy
    \/ Terminated

(* A started thread runs on, a call in progress continues, and stop() goes *)
(* on once begun.  Nobody has to call enqueue or to destroy the pool, and  *)
(* no wake-up is owed to a waiter that nobody notified.                    *)
Fairness ==
    /\ \A w \in Worker : WF_vars(Spawn(w)) /\ WF_vars(WorkerStep(w))
    /\ \A t \in Task : WF_vars(NotifyOne(t))
    /\ WF_vars(Constructed) /\ WF_vars(NotifyAll) /\ WF_vars(Destroy)

Spec == Init /\ [][Next]_vars /\ Fairness

-----------------------------------------------------------------------------
(* Properties                                                              *)

Elems(s) == {s[i] : i \in DOMAIN s}
Done(t) == future[t] \in {"value", "exception"}

\* enqueue and the worker loop: no task is lost, duplicated or overtaken on
\* its way through the queue, whatever the order of producers and workers.
FifoNoLoss == phase # "destroyed" => pushed = taken \o mTasks

\* A popped task is either in the hands of exactly one worker or has run,
\* and no worker holds a task that is still queued or has run before.
TakenOnce ==
    \A t \in Task :
        LET holders == {w \in Worker : task[w] = t}
        IN  /\ t \in Elems(taken) <=> (Done(t) \/ holders # {})
            /\ holders # {} => ~Done(t)
            /\ \A v, w \in holders : v = w

\* enqueue notifies after it has released the mutex, and still no wake-up is
\* lost: while any worker sleeps, each queued task has a worker of its own
\* on the way to the queue or a notification on its way to a sleeper.
NoLostWakeup ==
    Waiting # {} => Len(mTasks) <= Cardinality(AtLock) + Cardinality(Notifying)

\* stop(): when the destructor returns, every task pushed before the flag
\* was set has run.
DrainedAtDestroy ==
    phase = "destroyed" => \A i \in 1..atStop : Done(pushed[i])

\* A task pushed while the pool was not stopping eventually runs, whether
\* or not the pool is destroyed meanwhile.
AcceptedRuns ==
    \A t \in Task : (~mStopping /\ call[t] # "idle") ~> Done(t)

\* stop() returns: every worker is told, drains the queue and leaves.
StopReturns == (phase = "stopping") ~> (phase = "destroyed")

\* The pool does what TaskExecutor promises.
Executor == INSTANCE TaskExecutor WITH
    Width    <- Cardinality(Worker),
    backlog  <- mTasks,
    active   <- {task[w] : w \in Worker} \ {NoTask},
    finished <- {t \in Task : Done(t)},
    late     <- IF mStopping THEN {pushed[i] : i \in (atStop + 1)..Len(pushed)} ELSE {},
    state    <- IF phase = "destroyed" THEN "gone" ELSE IF mStopping THEN "closed" ELSE "open"

\* enqueue, the worker loop and stop() together implement the promise.
ImplementsExecutor == Executor!AbstractSpec

=============================================================================
