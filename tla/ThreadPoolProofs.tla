-------------------------- MODULE ThreadPoolProofs --------------------------
(***************************************************************************)
(* Theorems about ThreadPool, for any number of workers and tasks.         *)
(***************************************************************************)
EXTENDS ThreadPool, SequenceTheorems, FiniteSetTheorems, TLAPS

\* Pop and push at the two ends of a queue of tasks.
LEMMA PushType ==
    ASSUME NEW S, NEW s \in Seq(S), NEW x \in S
    PROVE  Append(s, x) \in Seq(S)
  OBVIOUS

LEMMA PopType ==
    ASSUME NEW S, NEW s \in Seq(S), s # <<>>
    PROVE  /\ Head(s) \in S
           /\ Tail(s) \in Seq(S)
  OBVIOUS

\* TypeOK: the fields of the pool keep their types through enqueue, the
\* worker loop, and the destructor, for any set of workers and of calls.
LEMMA TypeInit == Init => TypeOK
<1> SUFFICES ASSUME Init
             PROVE  TypeOK
  OBVIOUS
<1>1. mTasks \in Seq(Task) /\ pushed \in Seq(Task) /\ taken \in Seq(Task) /\ atStop \in Nat
  BY DEF Init
<1>2. mStopping \in BOOLEAN
  BY DEF Init
<1>3. phase \in Phase
  BY DEF Init, Phase
<1>4. /\ call \in [Task -> {"idle", "notify", "returned"}]
      /\ pc \in [Worker -> {"unborn", "lock", "waiting", "running", "exited"}]
      /\ task \in [Worker -> Task \cup {NoTask}]
      /\ future \in [Task -> {"pending", "value", "exception", "broken"}]
  BY DEF Init
<1>5. \A w \in Worker : pc[w] = "running" <=> task[w] # NoTask
  BY DEF Init
<1> QED
  BY <1>1, <1>2, <1>3, <1>4, <1>5 DEF TypeOK

LEMMA TypeNext == TypeOK /\ [Next]_vars => TypeOK'
<1> SUFFICES ASSUME TypeOK, [Next]_vars
             PROVE  TypeOK'
  OBVIOUS
<1> USE PoolAssumption DEF TypeOK, Phase
<1>1. ASSUME NEW w \in Worker, Spawn(w)
      PROVE  TypeOK'
  BY <1>1 DEF Spawn
<1>2. ASSUME NEW w \in Worker, Wait(w)
      PROVE  TypeOK'
  BY <1>2 DEF Wait
<1>3. ASSUME NEW w \in Worker, Exit(w)
      PROVE  TypeOK'
  BY <1>3 DEF Exit
<1>4. ASSUME NEW w \in Worker, Take(w)
      PROVE  TypeOK'
  <2>1. Head(mTasks) \in Task /\ Tail(mTasks) \in Seq(Task)
    BY <1>4, PopType DEF Take
  <2> QED
    BY <1>4, <2>1, PushType DEF Take
<1>5. ASSUME NEW w \in Worker, Run(w)
      PROVE  TypeOK'
  BY <1>5 DEF Run
<1>6. ASSUME NEW w \in Worker, SpuriousWake(w)
      PROVE  TypeOK'
  BY <1>6 DEF SpuriousWake
<1>7. ASSUME NEW t \in Task, Push(t)
      PROVE  TypeOK'
  BY <1>7, PushType DEF Push
<1>8. ASSUME NEW t \in Task, NotifyOne(t)
      PROVE  TypeOK'
  BY <1>8 DEF NotifyOne, Waiting
<1>9. CASE Constructed
  BY <1>9 DEF Constructed
<1>10. CASE SetStopping
  BY <1>10 DEF SetStopping
<1>11. CASE NotifyAll
  BY <1>11 DEF NotifyAll
<1>12. CASE Destroy
  BY <1>12 DEF Destroy
<1>13. CASE UNCHANGED vars
  BY <1>13 DEF vars
<1> QED
  BY <1>1, <1>2, <1>3, <1>4, <1>5, <1>6, <1>7, <1>8, <1>9, <1>10, <1>11, <1>12, <1>13
     DEF Next, WorkerStep, Terminated

THEOREM Typing == Spec => []TypeOK
<1>1. Init => TypeOK
  BY TypeInit
<1>2. TypeOK /\ [Next]_vars => TypeOK'
  BY TypeNext
<1> QED
  BY <1>1, <1>2, PTL DEF Spec

-----------------------------------------------------------------------------
(* The queue.  What has been pushed is what has been popped followed by    *)
(* what is waiting, so the history `pushed` can be read by index.          *)

LEMMA PopConcat ==
    ASSUME NEW S, NEW a \in Seq(S), NEW b \in Seq(S), b # <<>>
    PROVE  a \o b = Append(a, Head(b)) \o Tail(b)
  OBVIOUS

\* FifoNoLoss: enqueue and the worker loop lose, duplicate and reorder no
\* task, for any number of producers and workers.
LEMMA FifoNext == TypeOK /\ FifoNoLoss /\ [Next]_vars => FifoNoLoss'
<1> SUFFICES ASSUME TypeOK, FifoNoLoss, [Next]_vars
             PROVE  FifoNoLoss'
  OBVIOUS
<1>1. mTasks \in Seq(Task) /\ taken \in Seq(Task)
  BY DEF TypeOK
<1>2. ASSUME NEW w \in Worker, Take(w)
      PROVE  FifoNoLoss'
  BY <1>1, <1>2, PopConcat DEF Take, FifoNoLoss
<1>3. ASSUME NEW t \in Task, Push(t)
      PROVE  FifoNoLoss'
  <2>1. Append(taken \o mTasks, t) = taken \o Append(mTasks, t)
    BY <1>1
  <2> QED
    BY <1>3, <2>1 DEF Push, FifoNoLoss
<1>4. CASE Destroy
  BY <1>4 DEF Destroy, FifoNoLoss
<1>5. CASE UNCHANGED <<pushed, taken, mTasks>> /\ (phase = "destroyed" => phase' = "destroyed")
  BY <1>5 DEF FifoNoLoss
<1>6. ASSUME NEW w \in Worker, Spawn(w) \/ Wait(w) \/ Exit(w) \/ Run(w) \/ SpuriousWake(w)
      PROVE  FifoNoLoss'
  BY <1>5, <1>6 DEF Spawn, Wait, Exit, Run, SpuriousWake
<1>7. ASSUME NEW t \in Task, NotifyOne(t)
      PROVE  FifoNoLoss'
  BY <1>5, <1>7 DEF NotifyOne
<1>8. CASE Constructed \/ SetStopping \/ NotifyAll
  BY <1>5, <1>8 DEF Constructed, SetStopping, NotifyAll
<1>9. CASE UNCHANGED vars
  BY <1>5, <1>9 DEF vars
<1> QED
  BY <1>2, <1>3, <1>4, <1>6, <1>7, <1>8, <1>9 DEF Next, WorkerStep, Terminated

THEOREM Fifo == Spec => []FifoNoLoss
<1>1. Init => FifoNoLoss
  BY DEF Init, FifoNoLoss
<1>2. TypeOK /\ FifoNoLoss /\ [Next]_vars => FifoNoLoss'
  BY FifoNext
<1> QED
  BY <1>1, <1>2, Typing, PTL DEF Spec

-----------------------------------------------------------------------------
(* The life of one task.  A call of enqueue pushes once, so no task occurs *)
(* twice in `pushed`; the popped tasks are a prefix of it, also after the  *)
(* queue has been destroyed.                                               *)

Unique == \A i, j \in 1..Len(pushed) : pushed[i] = pushed[j] => i = j
Fresh == \A t \in Task : call[t] = "idle" => \A i \in 1..Len(pushed) : pushed[i] # t
Prefix == Len(taken) <= Len(pushed) /\ \A i \in 1..Len(taken) : taken[i] = pushed[i]
AllLeft == phase = "destroyed" => \A w \in Worker : pc[w] = "exited"

QueueInv == TypeOK /\ FifoNoLoss /\ Unique /\ Fresh /\ Prefix /\ AllLeft

LEMMA ConcatPrefix ==
    ASSUME NEW S, NEW a \in Seq(S), NEW b \in Seq(S)
    PROVE  /\ Len(a) <= Len(a \o b)
           /\ \A i \in 1..Len(a) : a[i] = (a \o b)[i]
           /\ \A i \in 1..Len(b) : /\ Len(a) + i \in 1..Len(a \o b)
                                    /\ b[i] = (a \o b)[Len(a) + i]
<1>1. Len(a) \in Nat /\ Len(b) \in Nat
  BY LenProperties
<1> QED
  BY <1>1, ConcatProperties

LEMMA QueueInit == Init => QueueInv
<1> SUFFICES ASSUME Init
             PROVE  QueueInv
  OBVIOUS
<1>1. TypeOK
  BY TypeInit
<1>2. FifoNoLoss /\ AllLeft
  BY DEF Init, FifoNoLoss, AllLeft
<1>3. Len(pushed) = 0 /\ Len(taken) = 0
  BY DEF Init
<1>4. Unique /\ Fresh /\ Prefix
  BY <1>3 DEF Unique, Fresh, Prefix
<1> QED
  BY <1>1, <1>2, <1>4 DEF QueueInv

\* Pushing t, which the history does not hold, keeps it free of repetitions.
LEMMA PushUnique ==
    ASSUME TypeOK, Unique, Fresh, NEW t \in Task, call[t] = "idle",
           pushed' = Append(pushed, t), call' = [call EXCEPT ![t] = "notify"]
    PROVE  Unique' /\ Fresh'
<1>1. /\ Len(pushed) \in Nat /\ Len(pushed') = Len(pushed) + 1
      /\ \A i \in 1..Len(pushed) : pushed'[i] = pushed[i]
      /\ pushed'[Len(pushed) + 1] = t
  BY DEF TypeOK
<1>2. \A i \in 1..Len(pushed) : pushed[i] # t
  BY DEF Fresh
<1>3. \A i \in 1..Len(pushed') : i \in 1..Len(pushed) \/ i = Len(pushed) + 1
  BY <1>1
<1>4. Unique'
  BY <1>1, <1>2, <1>3 DEF Unique
<1>5. Fresh'
  BY <1>1, <1>3 DEF Fresh, TypeOK
<1> QED
  BY <1>4, <1>5

LEMMA QueueNext == QueueInv /\ [Next]_vars => QueueInv'
<1> SUFFICES ASSUME QueueInv, [Next]_vars
             PROVE  QueueInv'
  OBVIOUS
<1>1. TypeOK' /\ FifoNoLoss'
  BY TypeNext, FifoNext DEF QueueInv
<1>2. phase' # "destroyed" => Prefix'
  <2> SUFFICES ASSUME phase' # "destroyed"
               PROVE  Prefix'
    OBVIOUS
  <2>1. taken' \in Seq(Task) /\ mTasks' \in Seq(Task) /\ pushed' = taken' \o mTasks'
    BY <1>1 DEF TypeOK, FifoNoLoss
  <2> QED
    BY <2>1, ConcatPrefix DEF Prefix
<1> USE DEF QueueInv
<1>3. ASSUME NEW t \in Task, Push(t)
      PROVE  QueueInv'
  BY <1>1, <1>2, <1>3, PushUnique DEF Push, AllLeft
<1>4. CASE Destroy
  BY <1>1, <1>4 DEF Destroy, Unique, Fresh, Prefix, AllLeft
<1>5. ASSUME NEW w \in Worker, Take(w)
      PROVE  QueueInv'
  <2>1. phase # "destroyed" /\ phase' # "destroyed"
    BY <1>5 DEF Take, AllLeft
  <2> QED
    BY <1>1, <1>2, <1>5, <2>1 DEF Take, Unique, Fresh, AllLeft
<1>6. ASSUME UNCHANGED <<pushed, taken>>,
             \A t \in Task : call'[t] = "idle" => call[t] = "idle",
             phase' = "destroyed" => phase = "destroyed",
             \A w \in Worker : pc[w] = "exited" => pc'[w] = "exited"
      PROVE  QueueInv'
  BY <1>1, <1>6 DEF Unique, Fresh, Prefix, AllLeft
<1>7. ASSUME NEW w \in Worker, Spawn(w) \/ Wait(w) \/ Exit(w) \/ Run(w) \/ SpuriousWake(w)
      PROVE  QueueInv'
  <2>1. UNCHANGED <<pushed, taken, call, phase>>
    BY <1>7 DEF Spawn, Wait, Exit, Run, SpuriousWake
  <2>2. \A v \in Worker : pc[v] = "exited" => pc'[v] = "exited"
    BY <1>7 DEF Spawn, Wait, Exit, Run, SpuriousWake, TypeOK
  <2> QED
    BY <2>1, <2>2, <1>6
<1>8. ASSUME NEW t \in Task, NotifyOne(t)
      PROVE  QueueInv'
  <2>1. UNCHANGED <<pushed, taken, phase>>
    BY <1>8 DEF NotifyOne
  <2>2. \A u \in Task : call'[u] = "idle" => call[u] = "idle"
    BY <1>8 DEF NotifyOne, TypeOK
  <2>3. \A v \in Worker : pc[v] = "exited" => pc'[v] = "exited"
    BY <1>8 DEF NotifyOne, Waiting, TypeOK
  <2> QED
    BY <2>1, <2>2, <2>3, <1>6
<1>9. CASE Constructed \/ SetStopping \/ NotifyAll
  <2>1. UNCHANGED <<pushed, taken, call>> /\ phase' # "destroyed"
    BY <1>9 DEF Constructed, SetStopping, NotifyAll
  <2>2. \A v \in Worker : pc[v] = "exited" => pc'[v] = "exited"
    BY <1>9 DEF Constructed, SetStopping, NotifyAll, TypeOK
  <2> QED
    BY <2>1, <2>2, <1>6
<1>10. CASE UNCHANGED vars
  BY <1>6, <1>10 DEF vars
<1> HIDE DEF QueueInv
<1> QED
  BY <1>3, <1>4, <1>5, <1>7, <1>8, <1>9, <1>10 DEF Next, WorkerStep, Terminated

\* What waits in the queue has not been popped before.
LEMMA QueuedNotTaken ==
    ASSUME QueueInv, phase # "destroyed", NEW i \in 1..Len(mTasks)
    PROVE  mTasks[i] \notin Elems(taken)
<1>1. mTasks \in Seq(Task) /\ taken \in Seq(Task) /\ pushed = taken \o mTasks
  BY DEF QueueInv, TypeOK, FifoNoLoss
<1>2. Len(taken) \in Nat /\ Len(mTasks) \in Nat /\ DOMAIN taken = 1..Len(taken)
  BY <1>1, LenProperties
<1>3. Len(taken) + i \in 1..Len(pushed) /\ mTasks[i] = pushed[Len(taken) + i]
  BY <1>1, ConcatPrefix
<1>4. ASSUME NEW j \in 1..Len(taken), taken[j] = mTasks[i]
      PROVE  FALSE
  <2>1. j \in 1..Len(pushed) /\ pushed[j] = taken[j] /\ Len(pushed) \in Nat
    BY <1>1, <1>2, <1>4 DEF QueueInv, Prefix, TypeOK
  <2>2. j = Len(taken) + i
    BY <1>3, <1>4, <2>1 DEF QueueInv, Unique
  <2> QED
    BY <1>2, <2>2
<1> QED
  BY <1>2, <1>4 DEF Elems

LEMMA AppendElems ==
    ASSUME NEW S, NEW s \in Seq(S), NEW x \in S
    PROVE  Elems(Append(s, x)) = Elems(s) \cup {x}
<1>1. /\ Len(s) \in Nat /\ DOMAIN s = 1..Len(s)
      /\ DOMAIN Append(s, x) = 1..(Len(s) + 1)
      /\ \A i \in 1..Len(s) : Append(s, x)[i] = s[i]
      /\ Append(s, x)[Len(s) + 1] = x
  OBVIOUS
<1>2. \A i \in 1..(Len(s) + 1) : i \in 1..Len(s) \/ i = Len(s) + 1
  BY <1>1
<1>3. \A i \in 1..Len(s) : i \in 1..(Len(s) + 1)
  BY <1>1
<1>4. Len(s) + 1 \in 1..(Len(s) + 1)
  BY <1>1
<1> HIDE DEF Elems
<1>5. \A y : y \in Elems(Append(s, x)) <=> \E i \in 1..(Len(s) + 1) : y = Append(s, x)[i]
  BY <1>1 DEF Elems
<1>6. \A y : y \in Elems(s) <=> \E i \in 1..Len(s) : y = s[i]
  BY <1>1 DEF Elems
<1>7. \A y : y \in Elems(Append(s, x)) <=> y \in Elems(s) \/ y = x
  BY <1>1, <1>2, <1>3, <1>4, <1>5, <1>6
<1> QED
  BY <1>7

-----------------------------------------------------------------------------
(* TakenOnce, task by task.                                                *)

Once(t) ==
    /\ t \in Elems(taken) <=> (Done(t) \/ \E w \in Worker : task[w] = t)
    /\ \A w \in Worker : task[w] = t =>
          ~Done(t) /\ \A v \in Worker : task[v] = t => v = w

LEMMA OnceNext ==
    ASSUME QueueInv, QueueInv', TakenOnce, [Next]_vars
    PROVE  TakenOnce'
<1>1. \A t \in Task : Once(t)
  BY DEF TakenOnce, Once
<1>2. SUFFICES ASSUME NEW t \in Task
               PROVE  Once(t)'
  BY DEF TakenOnce, Once
<1>3. Once(t)
  BY <1>1
<1>4. TypeOK
  BY DEF QueueInv
<1>5. CASE UNCHANGED <<taken, task, future>>
  BY <1>3, <1>5 DEF Once, Done
<1>6. ASSUME NEW w \in Worker, Take(w)
      PROVE  Once(t)'
  <2>1. phase # "destroyed" /\ task[w] = NoTask /\ UNCHANGED future
    BY <1>4, <1>6 DEF Take, QueueInv, AllLeft, TypeOK
  <2>2. Head(mTasks) \in Task /\ Head(mTasks) = mTasks[1] /\ 1 \in 1..Len(mTasks)
    BY <1>4, <1>6 DEF Take, TypeOK
  <2>3. Head(mTasks) \notin Elems(taken)
    BY <2>1, <2>2, QueuedNotTaken
  <2>4. Elems(taken') = Elems(taken) \cup {Head(mTasks)}
    BY <1>4, <1>6, <2>2, AppendElems DEF Take, TypeOK
  <2>5. /\ task'[w] = Head(mTasks)
        /\ \A v \in Worker : v # w => task'[v] = task[v]
    BY <1>4, <1>6 DEF Take, TypeOK
  <2>6. Done(t)' <=> Done(t)
    BY <2>1 DEF Done
  <2>7. t # NoTask
    BY PoolAssumption
  <2>8. CASE t = Head(mTasks)
    BY <1>3, <2>3, <2>4, <2>5, <2>6, <2>8 DEF Once
  <2>9. CASE t # Head(mTasks)
    BY <1>3, <2>1, <2>4, <2>5, <2>6, <2>7, <2>9 DEF Once
  <2> QED
    BY <2>8, <2>9
<1>7. ASSUME NEW w \in Worker, Run(w)
      PROVE  Once(t)'
  <2>1. task[w] \in Task /\ task[w] # NoTask /\ UNCHANGED taken
    BY <1>4, <1>7 DEF Run, TypeOK
  <2>2. /\ task'[w] = NoTask
        /\ \A v \in Worker : v # w => task'[v] = task[v]
    BY <1>4, <1>7 DEF Run, TypeOK
  <2>3. Done(t)' <=> (Done(t) \/ t = task[w])
    BY <1>4, <1>7, <2>1 DEF Run, TypeOK, Done
  <2>4. t # NoTask
    BY PoolAssumption
  <2> QED
    BY <1>3, <2>1, <2>2, <2>3, <2>4 DEF Once
<1>8. CASE Destroy
  <2>1. UNCHANGED <<taken, task>> /\ phase # "destroyed"
    BY <1>8 DEF Destroy
  <2>2. DOMAIN mTasks = 1..Len(mTasks)
    BY <1>4 DEF TypeOK
  <2>3. CASE \E i \in DOMAIN mTasks : mTasks[i] = t
    <3>1. t \notin Elems(taken)
      BY <2>1, <2>2, <2>3, QueuedNotTaken
    <3>2. ~Done(t)'
      BY <1>8, <2>3 DEF Destroy, Done
    <3> QED
      BY <1>3, <2>1, <3>1, <3>2 DEF Once
  <2>4. CASE ~\E i \in DOMAIN mTasks : mTasks[i] = t
    <3>1. Done(t)' <=> Done(t)
      BY <1>8, <2>4 DEF Destroy, Done
    <3> QED
      BY <1>3, <2>1, <3>1 DEF Once
  <2> QED
    BY <2>3, <2>4
<1>9. ASSUME NEW w \in Worker, Spawn(w) \/ Wait(w) \/ Exit(w) \/ SpuriousWake(w)
      PROVE  Once(t)'
  BY <1>5, <1>9 DEF Spawn, Wait, Exit, SpuriousWake
<1>10. ASSUME NEW u \in Task, Push(u) \/ NotifyOne(u)
       PROVE  Once(t)'
  BY <1>5, <1>10 DEF Push, NotifyOne
<1>11. CASE Constructed \/ SetStopping \/ NotifyAll
  BY <1>5, <1>11 DEF Constructed, SetStopping, NotifyAll
<1>12. CASE UNCHANGED vars
  BY <1>5, <1>12 DEF vars
<1> QED
  BY <1>6, <1>7, <1>8, <1>9, <1>10, <1>11, <1>12 DEF Next, WorkerStep, Terminated

\* TakenOnce: a popped task is in the hands of one worker or has run, never
\* both, for any number of workers and of concurrent calls of enqueue.
THEOREM TakenOnceTheorem == Spec => []TakenOnce
<1>1. Init => QueueInv
  BY QueueInit
<1>2. QueueInv /\ [Next]_vars => QueueInv'
  BY QueueNext
<1>3. Init => TakenOnce
  BY PoolAssumption DEF Init, TakenOnce, Done, Elems
<1>4. QueueInv /\ QueueInv' /\ TakenOnce /\ [Next]_vars => TakenOnce'
  BY OnceNext
<1> QED
  BY <1>1, <1>2, <1>3, <1>4, PTL DEF Spec

-----------------------------------------------------------------------------
(* The destructor.  A worker leaves only when the flag is set and nothing  *)
(* is queued: by then it sees as many tasks popped as had been pushed when *)
(* the flag was set.                                                       *)

DrainInv ==
    /\ phase \in {"constructing", "live"} => ~mStopping
    /\ atStop <= Len(pushed)
    /\ \A w \in Worker : pc[w] = "exited" => mStopping /\ atStop <= Len(taken)

LEMMA DrainNext ==
    ASSUME QueueInv, QueueInv', DrainInv, [Next]_vars
    PROVE  DrainInv'
<1>1. /\ TypeOK /\ TypeOK'
      /\ Len(pushed) \in Nat /\ Len(taken) \in Nat /\ atStop \in Nat
      /\ Len(pushed)' \in Nat /\ Len(taken)' \in Nat /\ atStop' \in Nat
  BY LenProperties DEF QueueInv, TypeOK
<1>2. ASSUME NEW w \in Worker, Exit(w)
      PROVE  DrainInv'
  <2>1. phase # "destroyed"
    BY <1>2 DEF Exit, QueueInv, AllLeft
  <2>2. Len(pushed) = Len(taken)
    BY <1>1, <1>2, <2>1, ConcatEmptySeq DEF Exit, QueueInv, FifoNoLoss, TypeOK
  <2> QED
    BY <1>1, <1>2, <2>2 DEF Exit, DrainInv, TypeOK
<1>3. ASSUME NEW t \in Task, Push(t)
      PROVE  DrainInv'
  <2>1. Len(pushed') = Len(pushed) + 1
    BY <1>1, <1>3 DEF Push, TypeOK
  <2> QED
    BY <1>1, <1>3, <2>1 DEF Push, DrainInv
<1>4. ASSUME NEW w \in Worker, Take(w)
      PROVE  DrainInv'
  <2>1. Len(taken') = Len(taken) + 1
    BY <1>1, <1>4 DEF Take, TypeOK
  <2>2. \A v \in Worker : pc'[v] = "exited" => pc[v] = "exited"
    BY <1>1, <1>4 DEF Take, TypeOK
  <2> QED
    BY <1>1, <1>4, <2>1, <2>2 DEF Take, DrainInv
<1>5. CASE SetStopping
  BY <1>1, <1>5 DEF SetStopping, DrainInv
<1>6. ASSUME UNCHANGED <<mStopping, atStop, pushed, taken>>,
             phase' \in {"constructing", "live"} => phase \in {"constructing", "live"},
             \A v \in Worker : pc'[v] = "exited" => pc[v] = "exited"
      PROVE  DrainInv'
  BY <1>6 DEF DrainInv
<1>7. ASSUME NEW w \in Worker, Spawn(w) \/ Wait(w) \/ Run(w) \/ SpuriousWake(w)
      PROVE  DrainInv'
  <2>1. UNCHANGED <<mStopping, atStop, pushed, taken, phase>>
    BY <1>7 DEF Spawn, Wait, Run, SpuriousWake
  <2>2. \A v \in Worker : pc'[v] = "exited" => pc[v] = "exited"
    BY <1>1, <1>7 DEF Spawn, Wait, Run, SpuriousWake, TypeOK
  <2> QED
    BY <2>1, <2>2, <1>6
<1>8. ASSUME NEW t \in Task, NotifyOne(t)
      PROVE  DrainInv'
  <2>1. UNCHANGED <<mStopping, atStop, pushed, taken, phase>>
    BY <1>8 DEF NotifyOne
  <2>2. \A v \in Worker : pc'[v] = "exited" => pc[v] = "exited"
    BY <1>1, <1>8 DEF NotifyOne, TypeOK
  <2> QED
    BY <2>1, <2>2, <1>6
<1>9. CASE Constructed \/ NotifyAll \/ Destroy
  <2>1. /\ UNCHANGED <<mStopping, atStop, pushed, taken>>
        /\ phase' \in {"constructing", "live"} => phase \in {"constructing", "live"}
    BY <1>9 DEF Constructed, NotifyAll, Destroy
  <2>2. \A v \in Worker : pc'[v] = "exited" => pc[v] = "exited"
    BY <1>1, <1>9 DEF Constructed, NotifyAll, Destroy, TypeOK
  <2> QED
    BY <2>1, <2>2, <1>6
<1>10. CASE UNCHANGED vars
  BY <1>6, <1>10 DEF vars
<1> QED
  BY <1>2, <1>3, <1>4, <1>5, <1>7, <1>8, <1>9, <1>10 DEF Next, WorkerStep, Terminated

LEMMA DrainedFromInv ==
    ASSUME QueueInv, TakenOnce, DrainInv
    PROVE  DrainedAtDestroy
<1> SUFFICES ASSUME phase = "destroyed", NEW i \in 1..atStop
             PROVE  Done(pushed[i])
  BY DEF DrainedAtDestroy
<1>1. PICK w \in Worker : TRUE
  BY PoolAssumption
<1>2. atStop <= Len(taken)
  BY <1>1 DEF DrainInv, QueueInv, AllLeft
<1>3. Len(taken) \in Nat /\ Len(pushed) \in Nat /\ atStop \in Nat /\ DOMAIN taken = 1..Len(taken)
  BY LenProperties DEF QueueInv, TypeOK
<1>4. i \in 1..Len(taken) /\ pushed[i] = taken[i] /\ pushed[i] \in Task
  BY <1>2, <1>3, ElementOfSeq DEF QueueInv, Prefix, TypeOK
<1>5. pushed[i] \in Elems(taken)
  BY <1>3, <1>4 DEF Elems
<1>6. \A v \in Worker : task[v] = NoTask
  BY DEF QueueInv, AllLeft, TypeOK
<1>7. pushed[i] # NoTask
  BY <1>4, PoolAssumption
<1> QED
  BY <1>4, <1>5, <1>6, <1>7 DEF TakenOnce

\* DrainedAtDestroy: whatever was pushed before stop() set its flag has run
\* when the destructor returns, for any number of workers and tasks.
THEOREM Drained == Spec => []DrainedAtDestroy
<1>1. Init => QueueInv
  BY QueueInit
<1>2. QueueInv /\ [Next]_vars => QueueInv'
  BY QueueNext
<1>3. Init => DrainInv
  BY DEF Init, DrainInv
<1>4. QueueInv /\ QueueInv' /\ DrainInv /\ [Next]_vars => DrainInv'
  BY DrainNext
<1>5. QueueInv /\ TakenOnce /\ DrainInv => DrainedAtDestroy
  BY DrainedFromInv
<1> QED
  BY <1>1, <1>2, <1>3, <1>4, <1>5, TakenOnceTheorem, PTL DEF Spec

-----------------------------------------------------------------------------
(* The condition variable.  Each step moves at most one worker to or from  *)
(* its mutex and at most one call to or from its notify_one.               *)

LEMMA OneMoreAtLock ==
    ASSUME TypeOK, NEW w \in Worker, pc[w] # "lock", pc' = [pc EXCEPT ![w] = "lock"]
    PROVE  Cardinality(AtLock') = Cardinality(AtLock) + 1
<1>1. AtLock' = AtLock \cup {w} /\ w \notin AtLock
  BY DEF AtLock, TypeOK
<1>2. IsFiniteSet(AtLock)
  BY PoolAssumption, FS_Subset DEF AtLock
<1> QED
  BY <1>1, <1>2, FS_AddElement

LEMMA OneLessAtLock ==
    ASSUME TypeOK, NEW w \in Worker, pc[w] = "lock", NEW next, next # "lock",
           pc' = [pc EXCEPT ![w] = next]
    PROVE  Cardinality(AtLock') = Cardinality(AtLock) - 1
<1>1. AtLock' = AtLock \ {w} /\ w \in AtLock
  BY DEF AtLock, TypeOK
<1>2. IsFiniteSet(AtLock)
  BY PoolAssumption, FS_Subset DEF AtLock
<1> QED
  BY <1>1, <1>2, FS_RemoveElement

WakeInv == IsFiniteSet(Notifying) /\ NoLostWakeup

LEMMA WakeNext ==
    ASSUME QueueInv, QueueInv', WakeInv, [Next]_vars
    PROVE  WakeInv'
<1>1. TypeOK /\ TypeOK'
  BY DEF QueueInv
<1>2. IsFiniteSet(AtLock) /\ IsFiniteSet(AtLock')
  BY PoolAssumption, FS_Subset DEF AtLock
<1>3. /\ Cardinality(AtLock) \in Nat /\ Cardinality(AtLock') \in Nat
      /\ Cardinality(Notifying) \in Nat
      /\ Len(mTasks) \in Nat /\ Len(mTasks') \in Nat
  BY <1>1, <1>2, FS_CardinalityType, LenProperties DEF WakeInv, TypeOK
<1>4. ASSUME NEW t \in Task, Push(t)
      PROVE  WakeInv'
  <2>1. Notifying' = Notifying \cup {t} /\ t \notin Notifying
    BY <1>1, <1>4 DEF Push, Notifying, TypeOK
  <2>2. IsFiniteSet(Notifying') /\ Cardinality(Notifying') = Cardinality(Notifying) + 1
    BY <2>1, FS_AddElement DEF WakeInv
  <2>3. AtLock' = AtLock /\ Waiting' = Waiting
    BY <1>4 DEF Push, AtLock, Waiting
  <2>4. Len(mTasks') = Len(mTasks) + 1
    BY <1>1, <1>4 DEF Push, TypeOK
  <2> QED
    BY <1>3, <2>2, <2>3, <2>4 DEF WakeInv, NoLostWakeup
<1>5. ASSUME NEW t \in Task, NotifyOne(t)
      PROVE  WakeInv'
  <2>1. Notifying' = Notifying \ {t} /\ t \in Notifying /\ UNCHANGED mTasks
    BY <1>1, <1>5 DEF NotifyOne, Notifying, TypeOK
  <2>2. IsFiniteSet(Notifying') /\ Cardinality(Notifying') = Cardinality(Notifying) - 1
    BY <2>1, FS_RemoveElement DEF WakeInv
  <2>3. CASE Waiting = {} /\ UNCHANGED pc
    BY <2>2, <2>3 DEF WakeInv, NoLostWakeup, Waiting
  <2>4. ASSUME NEW w \in Waiting, pc' = [pc EXCEPT ![w] = "lock"]
        PROVE  WakeInv'
    <3>1. Cardinality(AtLock') = Cardinality(AtLock) + 1
      BY <1>1, <2>4, OneMoreAtLock DEF Waiting
    <3> QED
      BY <1>3, <2>1, <2>2, <2>4, <3>1 DEF WakeInv, NoLostWakeup
  <2> QED
    BY <1>5, <2>3, <2>4 DEF NotifyOne
<1>6. ASSUME NEW w \in Worker, Take(w)
      PROVE  WakeInv'
  <2>1. Cardinality(AtLock') = Cardinality(AtLock) - 1
    BY <1>1, <1>6, OneLessAtLock DEF Take
  <2>2. Notifying' = Notifying /\ Waiting' = Waiting
    BY <1>1, <1>6 DEF Take, Notifying, Waiting, TypeOK
  <2>3. Len(mTasks') = Len(mTasks) - 1
    BY <1>1, <1>6, HeadTailProperties DEF Take, TypeOK
  <2> QED
    BY <1>3, <2>1, <2>2, <2>3 DEF WakeInv, NoLostWakeup
<1>7. ASSUME NEW w \in Worker, Wait(w) \/ Exit(w)
      PROVE  WakeInv'
  <2>1. Notifying' = Notifying /\ mTasks' = <<>>
    BY <1>7 DEF Wait, Exit, Notifying
  <2> QED
    BY <1>3, <2>1 DEF WakeInv, NoLostWakeup
<1>8. ASSUME NEW w \in Worker, Spawn(w) \/ Run(w) \/ SpuriousWake(w)
      PROVE  WakeInv'
  <2>1. Cardinality(AtLock') = Cardinality(AtLock) + 1
    BY <1>1, <1>8, OneMoreAtLock DEF Spawn, Run, SpuriousWake
  <2>2. Notifying' = Notifying /\ Waiting' \subseteq Waiting /\ UNCHANGED mTasks
    BY <1>1, <1>8 DEF Spawn, Run, SpuriousWake, Notifying, Waiting, TypeOK
  <2> QED
    BY <1>3, <2>1, <2>2 DEF WakeInv, NoLostWakeup
<1>9. CASE NotifyAll
  <2>1. Notifying' = Notifying /\ Waiting' = {}
    BY <1>1, <1>9 DEF NotifyAll, Notifying, Waiting, TypeOK
  <2> QED
    BY <2>1 DEF WakeInv, NoLostWakeup
<1>10. CASE Destroy
  <2>1. Notifying' = Notifying /\ Waiting' = {}
    BY <1>1, <1>10 DEF Destroy, Notifying, Waiting, TypeOK
  <2> QED
    BY <2>1 DEF WakeInv, NoLostWakeup
<1>11. CASE UNCHANGED <<pc, call, mTasks>>
  BY <1>11 DEF WakeInv, NoLostWakeup, Notifying, Waiting, AtLock
<1>12. CASE Constructed \/ SetStopping \/ UNCHANGED vars
  BY <1>11, <1>12 DEF Constructed, SetStopping, vars
<1> QED
  BY <1>4, <1>5, <1>6, <1>7, <1>8, <1>9, <1>10, <1>12 DEF Next, WorkerStep, Terminated

\* NoLostWakeup: notify_one outside the mutex loses no wake-up, for any
\* number of producers and workers and with spurious wake-ups.
THEOREM Wakeup == Spec => []NoLostWakeup
<1>1. Init => QueueInv
  BY QueueInit
<1>2. QueueInv /\ [Next]_vars => QueueInv'
  BY QueueNext
<1>3. Init => WakeInv
  BY FS_EmptySet DEF Init, WakeInv, NoLostWakeup, Notifying, Waiting
<1>4. QueueInv /\ QueueInv' /\ WakeInv /\ [Next]_vars => WakeInv'
  BY WakeNext
<1>5. WakeInv => NoLostWakeup
  BY DEF WakeInv
<1> QED
  BY <1>1, <1>2, <1>3, <1>4, <1>5, PTL DEF Spec

-----------------------------------------------------------------------------
(* The safety part of ThreadPool implementing TaskExecutor, for any number *)
(* of workers and tasks: initial states map to initial states and every    *)
(* step maps to a step or a stutter.  The liveness part stays with TLC.    *)

\* What the refinement mapping of ThreadPool makes of the pool's state.
Active == {task[w] : w \in Worker} \ {NoTask}
Finished == {t \in Task : Done(t)}
Late == IF mStopping THEN {pushed[i] : i \in (atStop + 1)..Len(pushed)} ELSE {}
State == IF phase = "destroyed" THEN "gone" ELSE IF mStopping THEN "closed" ELSE "open"

\* Everything known of a reachable state.
PoolInv == QueueInv /\ TakenOnce /\ DrainInv

LEMMA PoolInvariant == Spec => []PoolInv
<1>1. Init => QueueInv
  BY QueueInit
<1>2. QueueInv /\ [Next]_vars => QueueInv'
  BY QueueNext
<1>3. Init => DrainInv
  BY DEF Init, DrainInv
<1>4. QueueInv /\ QueueInv' /\ DrainInv /\ [Next]_vars => DrainInv'
  BY DrainNext
<1>5. QueueInv /\ TakenOnce /\ DrainInv => PoolInv
  BY DEF PoolInv
<1> QED
  BY <1>1, <1>2, <1>3, <1>4, <1>5, TakenOnceTheorem, PTL DEF Spec

LEMMA MapInit == Init => Executor!AbstractInit
<1> SUFFICES ASSUME Init
             PROVE  Executor!AbstractInit
  OBVIOUS
<1>1. {task[w] : w \in Worker} \ {NoTask} = {}
  BY DEF Init
<1>2. {t \in Task : Done(t)} = {}
  BY DEF Init, Done
<1> QED
  BY <1>1, <1>2 DEF Init, Executor!AbstractInit

\* A step that leaves what the mapping reads alone is a stutter.
LEMMA MapStutter ==
    ASSUME UNCHANGED <<mTasks, task, future, mStopping, pushed, atStop>>,
           phase' = "destroyed" <=> phase = "destroyed"
    PROVE  UNCHANGED Executor!abstractVars
  BY DEF Executor!abstractVars, Done

LEMMA MapPush ==
    ASSUME PoolInv, NEW t \in Task, Push(t)
    PROVE  Executor!Submit(t)
<1>1. /\ TypeOK /\ pushed \in Seq(Task) /\ mTasks \in Seq(Task) /\ taken \in Seq(Task)
      /\ phase # "destroyed" /\ pushed = taken \o mTasks
  BY DEF PoolInv, QueueInv, TypeOK, FifoNoLoss, Push
<1>2. /\ Len(pushed) \in Nat /\ Len(taken) \in Nat /\ atStop \in Nat /\ atStop <= Len(pushed)
      /\ DOMAIN taken = 1..Len(taken) /\ DOMAIN mTasks = 1..Len(mTasks)
  BY <1>1 DEF TypeOK, PoolInv, DrainInv
<1>3. \A i \in 1..Len(pushed) : pushed[i] # t
  BY DEF Push, PoolInv, QueueInv, Fresh
<1>4. t \notin {mTasks[i] : i \in DOMAIN mTasks}
  <2>1. \A i \in 1..Len(mTasks) : /\ Len(taken) + i \in 1..Len(pushed)
                                  /\ mTasks[i] = pushed[Len(taken) + i]
    BY <1>1, ConcatPrefix
  <2> QED
    BY <1>2, <1>3, <2>1
<1>5. t \notin Elems(taken)
  <2>1. \A i \in DOMAIN taken : i \in 1..Len(pushed) /\ taken[i] = pushed[i]
    BY <1>2 DEF PoolInv, QueueInv, Prefix
  <2> QED
    BY <1>3, <2>1 DEF Elems
<1>6. t \notin {task[w] : w \in Worker} \ {NoTask} /\ t \notin {u \in Task : Done(u)}
  BY <1>5 DEF PoolInv, TakenOnce
<1>7. Late' = IF mStopping THEN Late \cup {t} ELSE Late
  <2>1. /\ Len(pushed') = Len(pushed) + 1 /\ pushed'[Len(pushed) + 1] = t
        /\ \A i \in 1..Len(pushed) : pushed'[i] = pushed[i]
    BY <1>1, <1>2 DEF Push
  <2>2. /\ \A i \in (atStop + 1)..(Len(pushed) + 1) :
              i \in (atStop + 1)..Len(pushed) \/ i = Len(pushed) + 1
        /\ \A i \in (atStop + 1)..Len(pushed) :
              i \in 1..Len(pushed) /\ i \in (atStop + 1)..(Len(pushed) + 1)
        /\ Len(pushed) + 1 \in (atStop + 1)..(Len(pushed) + 1)
    BY <1>2
  <2>3. {pushed'[i] : i \in (atStop + 1)..(Len(pushed) + 1)}
          = {pushed[i] : i \in (atStop + 1)..Len(pushed)} \cup {t}
    BY <2>1, <2>2
  <2>4. UNCHANGED <<mStopping, atStop>>
    BY DEF Push
  <2> QED
    BY <2>1, <2>3, <2>4 DEF Late
<1>8. UNCHANGED <<Active, Finished, State>>
  BY DEF Push, Active, Finished, State, Done
<1> QED
  BY <1>1, <1>4, <1>6, <1>7, <1>8
     DEF Push, Executor!Submit, Executor!Queued, Active, Finished, Late, State

LEMMA SameCardinality ==
    ASSUME NEW S
    PROVE  Executor!Cardinality(S) = Cardinality(S)
  BY DEF Executor!Cardinality, Cardinality

\* A worker that takes a task holds none, so fewer than all were at work.
LEMMA MapTake ==
    ASSUME PoolInv, NEW w \in Worker, Take(w)
    PROVE  Executor!Start
<1>1. TypeOK /\ Head(mTasks) \in Task /\ task[w] = NoTask
  BY DEF PoolInv, QueueInv, TypeOK, Take
<1>2. Cardinality(Active) < Cardinality(Worker)
  <2> DEFINE Busy == {v \in Worker : task[v] # NoTask}
             held == [v \in Busy |-> task[v]]
  <2>1. Busy \in SUBSET (Worker \ {w})
    BY <1>1
  <2>2. held \in Surjection(Busy, Active)
    BY DEF Surjection, Active
  <2>3. IsFiniteSet(Worker \ {w}) /\ Cardinality(Worker \ {w}) = Cardinality(Worker) - 1
    BY PoolAssumption, FS_RemoveElement
  <2>4. IsFiniteSet(Busy) /\ Cardinality(Busy) <= Cardinality(Worker \ {w})
    BY <2>1, <2>3, FS_Subset
  <2>5. IsFiniteSet(Active) /\ Cardinality(Active) <= Cardinality(Busy)
    BY <2>2, <2>4, FS_Surjection
  <2>6. /\ Cardinality(Active) \in Nat /\ Cardinality(Busy) \in Nat
        /\ Cardinality(Worker) \in Nat
    BY <2>4, <2>5, PoolAssumption, FS_CardinalityType
  <2> QED
    BY <2>3, <2>4, <2>5, <2>6
<1>3. Active' = Active \cup {Head(mTasks)}
  <2>1. /\ task'[w] = Head(mTasks) /\ task'[w] # NoTask
        /\ \A v \in Worker : v # w => task'[v] = task[v]
    BY <1>1, PoolAssumption DEF Take, TypeOK
  <2> QED
    BY <1>1, <2>1 DEF Active
<1>4. UNCHANGED <<Finished, Late, State>>
  BY DEF Take, Finished, Late, State, Done
<1>5. mTasks # <<>> /\ mTasks' = Tail(mTasks)
  BY DEF Take
<1> QED
  BY <1>2, <1>3, <1>4, <1>5, SameCardinality DEF Executor!Start, Active, Finished, Late, State

LEMMA MapRun ==
    ASSUME PoolInv, NEW w \in Worker, Run(w), NEW t \in Task, t = task[w]
    PROVE  Executor!Finish(t)
<1>1. TypeOK /\ task[w] \in Task /\ task[w] # NoTask
  BY DEF PoolInv, QueueInv, TypeOK, Run
<1>2. t \in Active
  BY <1>1 DEF Active
<1>3. \A v \in Worker : task[v] = task[w] => v = w
  BY <1>1 DEF PoolInv, TakenOnce
<1>4. Active' = Active \ {t}
  <2>1. task'[w] = NoTask /\ \A v \in Worker : v # w => task'[v] = task[v]
    BY <1>1 DEF Run, TypeOK
  <2> QED
    BY <1>1, <1>3, <2>1 DEF Active
<1>5. Finished' = Finished \cup {t}
  <2>1. \A u \in Task : Done(u)' <=> Done(u) \/ u = t
    BY <1>1 DEF Run, Done, TypeOK
  <2> QED
    BY <1>1, <2>1 DEF Finished
<1>6. UNCHANGED <<mTasks, Late, State>>
  BY DEF Run, Late, State
<1> QED
  BY <1>2, <1>4, <1>5, <1>6 DEF Run, Executor!Finish, Active, Finished, Late, State

LEMMA MapStop ==
    ASSUME PoolInv, SetStopping
    PROVE  Executor!Close
<1>1. ~mStopping /\ mStopping' /\ phase # "destroyed" /\ phase' # "destroyed"
  BY DEF PoolInv, DrainInv, SetStopping
<1>2. State = "open" /\ State' = "closed"
  BY <1>1 DEF State
<1>3. Late' = Late
  <2>1. Len(pushed) \in Nat /\ atStop' = Len(pushed) /\ pushed' = pushed
    BY DEF PoolInv, QueueInv, TypeOK, SetStopping
  <2>2. (atStop' + 1)..Len(pushed') = {}
    BY <2>1
  <2> QED
    BY <1>1, <2>2 DEF Late
<1>4. UNCHANGED <<mTasks, Active, Finished>>
  BY DEF SetStopping, Active, Finished, Done
<1> QED
  BY <1>2, <1>3, <1>4 DEF Executor!Close, Active, Finished, Late, State

\* Whatever is destroyed unrun was pushed after the flag was set.
LEMMA MapDestroy ==
    ASSUME PoolInv, Destroy
    PROVE  Executor!Vanish
<1>1. /\ TypeOK /\ phase = "joining" /\ phase' = "destroyed"
      /\ \A w \in Worker : pc[w] = "exited" /\ task[w] = NoTask
  BY DEF PoolInv, QueueInv, TypeOK, Destroy
<1>2. mStopping /\ atStop <= Len(taken)
  <2>1. PICK w \in Worker : TRUE
    BY PoolAssumption
  <2> QED
    BY <1>1, <2>1 DEF PoolInv, DrainInv
<1>3. State = "closed" /\ State' = "gone"
  BY <1>1, <1>2 DEF State
<1>4. Active = {} /\ Active' = {}
  BY <1>1 DEF Active, Destroy
<1>5. /\ mTasks \in Seq(Task) /\ taken \in Seq(Task) /\ pushed = taken \o mTasks
      /\ Len(taken) \in Nat /\ atStop \in Nat /\ DOMAIN mTasks = 1..Len(mTasks)
      /\ Len(pushed) \in Nat /\ Len(mTasks) \in Nat
  BY <1>1 DEF TypeOK, PoolInv, QueueInv, FifoNoLoss
<1>6. {mTasks[i] : i \in DOMAIN mTasks} \subseteq Late
  <2>1. \A i \in 1..Len(mTasks) : /\ Len(taken) + i \in 1..Len(pushed)
                                  /\ mTasks[i] = pushed[Len(taken) + i]
    BY <1>5, ConcatPrefix
  <2>2. \A i \in 1..Len(mTasks) : Len(taken) + i \in (atStop + 1)..Len(pushed)
    BY <1>2, <1>5, <2>1
  <2> QED
    BY <1>2, <1>5, <2>1, <2>2 DEF Late
<1>7. Finished' = Finished
  <2>1. ASSUME NEW t \in Task
        PROVE  Done(t)' <=> Done(t)
    <3>1. CASE \E i \in DOMAIN mTasks : mTasks[i] = t
      <4>1. t \notin Elems(taken)
        BY <1>1, <1>5, <3>1, QueuedNotTaken DEF PoolInv
      <4>2. ~Done(t)
        BY <4>1 DEF PoolInv, TakenOnce
      <4>3. ~Done(t)'
        BY <3>1 DEF Destroy, Done
      <4> QED
        BY <4>2, <4>3
    <3>2. CASE ~\E i \in DOMAIN mTasks : mTasks[i] = t
      BY <3>2 DEF Destroy, Done
    <3> QED
      BY <3>1, <3>2
  <2> QED
    BY <2>1 DEF Finished
<1>8. Late' = Late /\ mTasks' = <<>>
  BY DEF Destroy, Late
<1> QED
  BY <1>3, <1>4, <1>6, <1>7, <1>8
     DEF Executor!Vanish, Executor!Queued, Active, Finished, Late, State

LEMMA MapStep ==
    ASSUME PoolInv, [Next]_vars
    PROVE  [Executor!AbstractNext]_(Executor!abstractVars)
<1>1. ASSUME NEW t \in Task, Push(t)
      PROVE  Executor!AbstractNext
  BY <1>1, MapPush DEF Executor!AbstractNext
<1>2. ASSUME NEW w \in Worker, Take(w)
      PROVE  Executor!AbstractNext
  BY <1>2, MapTake DEF Executor!AbstractNext
<1>3. ASSUME NEW w \in Worker, Run(w)
      PROVE  Executor!AbstractNext
  <2>1. PICK t \in Task : t = task[w]
    BY <1>3 DEF PoolInv, QueueInv, TypeOK, Run
  <2>2. Executor!Finish(t)
    BY <1>3, <2>1, MapRun
  <2> QED
    BY <2>2 DEF Executor!AbstractNext
<1>4. CASE SetStopping
  BY <1>4, MapStop DEF Executor!AbstractNext
<1>5. CASE Destroy
  BY <1>5, MapDestroy DEF Executor!AbstractNext
<1>6. ASSUME NEW w \in Worker, Spawn(w) \/ Wait(w) \/ Exit(w) \/ SpuriousWake(w)
      PROVE  UNCHANGED Executor!abstractVars
  BY <1>6, MapStutter DEF Spawn, Wait, Exit, SpuriousWake
<1>7. ASSUME NEW t \in Task, NotifyOne(t)
      PROVE  UNCHANGED Executor!abstractVars
  BY <1>7, MapStutter DEF NotifyOne
<1>8. CASE Constructed \/ NotifyAll
  BY <1>8, MapStutter DEF Constructed, NotifyAll
<1>9. CASE UNCHANGED vars
  BY <1>9, MapStutter DEF vars
<1> QED
  BY <1>1, <1>2, <1>3, <1>4, <1>5, <1>6, <1>7, <1>8, <1>9 DEF Next, WorkerStep, Terminated

\* The safety half of ImplementsExecutor: tasks start in the order of
\* enqueue, each at most once, no more at a time than there are workers, and
\* none accepted before stop() is abandoned.
THEOREM Refinement == Spec => Executor!AbstractSafety
<1>1. Init => Executor!AbstractInit
  BY MapInit
<1>2. PoolInv /\ [Next]_vars => [Executor!AbstractNext]_(Executor!abstractVars)
  BY MapStep
<1> QED
  BY <1>1, <1>2, PoolInvariant, PTL DEF Spec, Executor!AbstractSafety

-----------------------------------------------------------------------------
(* The futures, and who is still able to take a step.                      *)

\* Where the owner is, against what the callers, the workers and the futures say.
OwnerInv ==
    /\ phase = "constructing" => mTasks = <<>>
    /\ phase # "constructing" => \A w \in Worker : pc[w] # "unborn"
    /\ phase \in {"stopping", "joining", "destroyed"} => mStopping
    /\ phase \in {"joining", "destroyed"} => Waiting = {}
    /\ \A t \in Task : call[t] # "idle" => t \in Elems(pushed)
    /\ \A t \in Task : future[t] = "broken" => phase = "destroyed"

\* ThreadPool.hpp:65-76, a packaged_task is called once, and its shared state is
\* abandoned only if it was never called: a future that has an answer keeps it.
FutureIsFinal == \A t \in Task : future[t] # "pending" => future'[t] = future[t]
FuturesAreFinal == [][FutureIsFinal]_vars

\* ThreadPool.hpp:46-49, the destructor: once it has returned, the future of every
\* task that was ever pushed has an answer, the exception of a broken promise if
\* need be.  A thread in get() never waits for a pool that is gone.
NoFutureLeftPending ==
    phase = "destroyed" => \A t \in Task : call[t] # "idle" => future[t] # "pending"

\* stop() and the worker loop: a queued task always has a worker on its way to
\* the mutex, one that comes back to it, or a notification still to be made,
\* unless all workers have left; and no worker that is being joined sleeps.
SomebodyTakes ==
    /\ mTasks # <<>> =>
          \/ AtLock # {} \/ Notifying # {}
          \/ \E w \in Worker : pc[w] = "running"
          \/ mStopping /\ \A w \in Worker : pc[w] = "exited"
    /\ phase = "joining" => mStopping /\ \A w \in Worker : pc[w] \in {"lock", "running", "exited"}

LEMMA OwnerInit == Init => OwnerInv
<1>1. Init => mTasks = <<>> /\ phase = "constructing" /\ Waiting = {}
  BY DEF Init, Waiting
<1>2. Init => \A t \in Task : call[t] = "idle" /\ future[t] = "pending"
  BY DEF Init
<1> QED
  BY <1>1, <1>2 DEF OwnerInv

LEMMA OwnerNext ==
    ASSUME PoolInv, OwnerInv, [Next]_vars
    PROVE  OwnerInv'
<1>1. TypeOK
  BY DEF PoolInv, QueueInv
<1>2. ASSUME NEW w \in Worker, Spawn(w) \/ Wait(w) \/ Exit(w) \/ Take(w) \/ Run(w) \/ SpuriousWake(w)
      PROVE  OwnerInv'
  <2>1. UNCHANGED <<phase, mStopping, call, pushed>>
    BY <1>2 DEF Spawn, Wait, Exit, Take, Run, SpuriousWake
  <2>2. phase = "constructing" => mTasks' = <<>>
    BY <1>2 DEF OwnerInv, Spawn, Wait, Exit, Take, Run, SpuriousWake
  <2>3. \A v \in Worker : /\ pc'[v] = "unborn" => pc[v] = "unborn"
                          /\ pc'[v] = "waiting" => pc[v] = "waiting" \/ ~mStopping
    BY <1>1, <1>2 DEF Spawn, Wait, Exit, Take, Run, SpuriousWake, TypeOK
  <2>4. phase \in {"joining", "destroyed"} => Waiting' = {}
    BY <2>1, <2>3 DEF OwnerInv, Waiting
  <2>5. \A t \in Task : future'[t] = "broken" => future[t] = "broken"
    BY <1>1, <1>2 DEF Spawn, Wait, Exit, Take, Run, SpuriousWake, TypeOK
  <2> QED
    BY <2>1, <2>2, <2>3, <2>4, <2>5 DEF OwnerInv, Elems
<1>3. ASSUME NEW t \in Task, Push(t)
      PROVE  OwnerInv'
  <2>1. /\ phase \in {"live", "stopping", "joining"} /\ pushed' = Append(pushed, t)
        /\ call' = [call EXCEPT ![t] = "notify"]
        /\ UNCHANGED <<phase, mStopping, pc, future>>
    BY <1>3 DEF Push
  <2>2. Elems(pushed') = Elems(pushed) \cup {t}
    BY <1>1, <2>1, AppendElems DEF TypeOK
  <2>3. \A u \in Task : call'[u] # "idle" => u \in Elems(pushed')
    BY <1>1, <2>1, <2>2 DEF OwnerInv, TypeOK
  <2> QED
    BY <2>1, <2>3 DEF OwnerInv, Waiting
<1>4. ASSUME NEW t \in Task, NotifyOne(t)
      PROVE  OwnerInv'
  <2>1. UNCHANGED <<mTasks, phase, mStopping, pushed, future>>
    BY <1>4 DEF NotifyOne
  <2>2. \A v \in Worker : /\ pc'[v] = "unborn" => pc[v] = "unborn"
                          /\ pc'[v] = "waiting" => pc[v] = "waiting"
    BY <1>1, <1>4 DEF NotifyOne, Waiting, TypeOK
  <2>3. \A u \in Task : call'[u] # "idle" => call[u] # "idle"
    BY <1>1, <1>4 DEF NotifyOne, TypeOK
  <2> QED
    BY <2>1, <2>2, <2>3 DEF OwnerInv, Waiting, Elems
<1>5. CASE Constructed
  BY <1>5 DEF Constructed, OwnerInv, Waiting, Elems
<1>6. CASE SetStopping
  BY <1>6 DEF SetStopping, OwnerInv, Waiting, Elems
<1>7. CASE NotifyAll
  <2>1. Waiting' = {}
    BY <1>1, <1>7 DEF NotifyAll, Waiting, TypeOK
  <2>2. \A v \in Worker : pc'[v] = "unborn" => pc[v] = "unborn"
    BY <1>1, <1>7 DEF NotifyAll, TypeOK
  <2> QED
    BY <1>7, <2>1, <2>2 DEF NotifyAll, OwnerInv, Elems
<1>8. CASE Destroy
  BY <1>8 DEF Destroy, OwnerInv, Waiting, Elems
<1>9. CASE UNCHANGED vars
  BY <1>9 DEF vars, OwnerInv, Waiting, Elems
<1> QED
  BY <1>2, <1>3, <1>4, <1>5, <1>6, <1>7, <1>8, <1>9 DEF Next, WorkerStep, Terminated

LEMMA OwnerAlways == Spec => []OwnerInv
<1>1. PoolInv /\ OwnerInv /\ [Next]_vars => OwnerInv'
  BY OwnerNext
<1> QED
  BY <1>1, OwnerInit, PoolInvariant, PTL DEF Spec

LEMMA FinalStep ==
    ASSUME PoolInv, OwnerInv, [Next]_vars
    PROVE  FutureIsFinal
<1> SUFFICES ASSUME NEW t \in Task, future[t] # "pending"
             PROVE  future'[t] = future[t]
  BY DEF FutureIsFinal
<1>1. TypeOK /\ (Done(t) \/ future[t] = "broken")
  BY DEF PoolInv, QueueInv, TypeOK, Done
<1>2. ASSUME NEW w \in Worker, Run(w)
      PROVE  future'[t] = future[t]
  <2>1. task[w] # t
    <3>1. CASE Done(t)
      BY <3>1 DEF PoolInv, TakenOnce
    <3>2. CASE future[t] = "broken"
      BY <1>2, <3>2 DEF Run, OwnerInv, PoolInv, QueueInv, AllLeft
    <3> QED
      BY <1>1, <3>1, <3>2
  <2> QED
    BY <1>1, <1>2, <2>1 DEF Run, TypeOK
<1>3. CASE Destroy
  <2>1. phase = "joining" /\ future[t] # "broken"
    BY <1>3 DEF Destroy, OwnerInv
  <2>2. t \in Elems(taken)
    BY <1>1, <2>1 DEF PoolInv, TakenOnce
  <2>3. \A i \in DOMAIN mTasks : mTasks[i] # t
    <3>1. DOMAIN mTasks = 1..Len(mTasks)
      BY <1>1 DEF TypeOK
    <3> QED
      BY <2>1, <2>2, <3>1, QueuedNotTaken DEF PoolInv
  <2> QED
    BY <1>3, <2>3 DEF Destroy
<1>4. ASSUME NEW w \in Worker, Spawn(w) \/ Wait(w) \/ Exit(w) \/ Take(w) \/ SpuriousWake(w)
      PROVE  future' = future
  BY <1>4 DEF Spawn, Wait, Exit, Take, SpuriousWake
<1>5. ASSUME NEW u \in Task, Push(u) \/ NotifyOne(u)
      PROVE  future' = future
  BY <1>5 DEF Push, NotifyOne
<1>6. CASE Constructed \/ SetStopping \/ NotifyAll \/ UNCHANGED vars
  BY <1>6 DEF Constructed, SetStopping, NotifyAll, vars
<1> QED
  BY <1>2, <1>3, <1>4, <1>5, <1>6 DEF Next, WorkerStep, Terminated

\* ThreadPool.hpp:65-76, 85-99: a future that has its result, or that was broken with
\* its pool, never changes again, whatever workers and callers do.
THEOREM FuturesFinal == Spec => FuturesAreFinal
<1>1. PoolInv /\ OwnerInv /\ [Next]_vars => FutureIsFinal
  BY FinalStep
<1> QED
  BY <1>1, PoolInvariant, OwnerAlways, PTL DEF Spec, FuturesAreFinal

LEMMA SettledNext ==
    ASSUME PoolInv, OwnerInv, NoFutureLeftPending, [Next]_vars
    PROVE  NoFutureLeftPending'
<1> SUFFICES ASSUME phase' = "destroyed", NEW t \in Task, call'[t] # "idle"
             PROVE  future'[t] # "pending"
  BY DEF NoFutureLeftPending
<1>1. TypeOK
  BY DEF PoolInv, QueueInv
<1>2. CASE phase = "destroyed"
  <2>1. call[t] # "idle"
    <3>1. \A u \in Task : ~Push(u)
      BY <1>2 DEF Push
    <3>2. ASSUME NEW u \in Task, NotifyOne(u)
          PROVE  call[t] # "idle"
      BY <1>1, <3>2 DEF NotifyOne, TypeOK
    <3>3. CASE UNCHANGED call
      BY <3>3
    <3>4. UNCHANGED call \/ \E u \in Task : NotifyOne(u)
      BY <3>1 DEF Next, WorkerStep, Spawn, Wait, Exit, Take, Run, SpuriousWake, Constructed,
                  SetStopping, NotifyAll, Destroy, Terminated, vars
    <3> QED
      BY <3>2, <3>3, <3>4
  <2> QED
    BY <1>2, <2>1, FinalStep DEF NoFutureLeftPending, FutureIsFinal
<1>3. CASE phase # "destroyed"
  <2>1. Destroy
    BY <1>3 DEF Next, WorkerStep, Spawn, Wait, Exit, Take, Run, SpuriousWake, Push, NotifyOne,
                Constructed, SetStopping, NotifyAll, Terminated, vars
  <2>2. /\ call[t] # "idle" /\ pushed = taken \o mTasks
        /\ taken \in Seq(Task) /\ mTasks \in Seq(Task)
        /\ \A w \in Worker : task[w] = NoTask
    BY <1>1, <1>3, <2>1 DEF Destroy, PoolInv, QueueInv, FifoNoLoss, TypeOK
  <2>3. t \in Elems(taken) \/ \E i \in DOMAIN mTasks : mTasks[i] = t
    <3>1. PICK i \in DOMAIN pushed : pushed[i] = t
      BY <2>2 DEF OwnerInv, Elems
    <3>2. /\ Len(taken) \in Nat /\ Len(mTasks) \in Nat /\ DOMAIN taken = 1..Len(taken)
          /\ DOMAIN mTasks = 1..Len(mTasks) /\ DOMAIN pushed = 1..(Len(taken) + Len(mTasks))
      BY <2>2, LenProperties, ConcatProperties
    <3>3. CASE i <= Len(taken)
      <4>1. i \in 1..Len(taken) /\ taken[i] = t
        BY <2>2, <3>1, <3>2, <3>3, ConcatProperties
      <4> QED
        BY <3>2, <4>1 DEF Elems
    <3>4. CASE i > Len(taken)
      <4>1. i - Len(taken) \in 1..Len(mTasks) /\ mTasks[i - Len(taken)] = t
        BY <2>2, <3>1, <3>2, <3>4, ConcatProperties
      <4> QED
        BY <3>2, <4>1
    <3> QED
      BY <3>2, <3>3, <3>4
  <2>4. CASE t \in Elems(taken)
    <3>1. Done(t)
      BY <2>2, <2>4, PoolAssumption DEF PoolInv, TakenOnce
    <3> QED
      BY <3>1, FinalStep DEF Done, FutureIsFinal
  <2>5. CASE \E i \in DOMAIN mTasks : mTasks[i] = t
    BY <2>1, <2>5 DEF Destroy
  <2> QED
    BY <2>3, <2>4, <2>5
<1> QED
  BY <1>2, <1>3

\* ThreadPool.hpp:60-76, 103-114: when the destructor has returned, every future of a
\* task that was pushed has its result or is broken.
THEOREM FuturesSettled == Spec => []NoFutureLeftPending
<1>1. Init => NoFutureLeftPending
  BY DEF Init, NoFutureLeftPending
<1>2. PoolInv /\ OwnerInv /\ NoFutureLeftPending /\ [Next]_vars => NoFutureLeftPending'
  BY SettledNext
<1> QED
  BY <1>1, <1>2, PoolInvariant, OwnerAlways, PTL DEF Spec

LEMMA TakerExists ==
    ASSUME PoolInv, OwnerInv, NoLostWakeup, IsFiniteSet(Notifying)
    PROVE  SomebodyTakes
<1>1. TypeOK
  BY DEF PoolInv, QueueInv
<1>2. ASSUME mTasks # <<>>, AtLock = {}, Notifying = {}, \A w \in Worker : pc[w] # "running"
      PROVE  mStopping /\ \A w \in Worker : pc[w] = "exited"
  <2>1. Waiting = {}
    <3>1. Len(mTasks) \in Nat \ {0}
      BY <1>1, <1>2, EmptySeq DEF TypeOK
    <3>2. Cardinality(AtLock) = 0 /\ Cardinality(Notifying) = 0
      BY <1>2, FS_EmptySet
    <3> QED
      BY <3>1, <3>2 DEF NoLostWakeup
  <2>2. \A w \in Worker : pc[w] # "unborn"
    BY <1>2 DEF OwnerInv
  <2>3. \A w \in Worker : pc[w] = "exited"
    BY <1>1, <1>2, <2>1, <2>2 DEF AtLock, Waiting, TypeOK
  <2>4. PICK w \in Worker : TRUE
    BY PoolAssumption
  <2> QED
    BY <2>3, <2>4 DEF PoolInv, DrainInv
<1>3. ASSUME phase = "joining"
      PROVE  mStopping /\ \A w \in Worker : pc[w] \in {"lock", "running", "exited"}
  BY <1>1, <1>3 DEF OwnerInv, Waiting, TypeOK
<1> QED
  BY <1>2, <1>3 DEF SomebodyTakes

\* ThreadPool.hpp:85-99, 103-114: no queued task is stranded, no join waits for a sleeper.
THEOREM TakerTheorem == Spec => []SomebodyTakes
<1>1. Init => QueueInv
  BY QueueInit
<1>2. QueueInv /\ [Next]_vars => QueueInv'
  BY QueueNext
<1>3. Init => WakeInv
  BY FS_EmptySet DEF Init, WakeInv, NoLostWakeup, Notifying, Waiting
<1>4. QueueInv /\ QueueInv' /\ WakeInv /\ [Next]_vars => WakeInv'
  BY WakeNext
<1>5. PoolInv /\ OwnerInv /\ WakeInv => SomebodyTakes
  BY TakerExists DEF WakeInv
<1> QED
  BY <1>1, <1>2, <1>3, <1>4, <1>5, PoolInvariant, OwnerAlways, PTL DEF Spec

=============================================================================
