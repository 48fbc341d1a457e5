# Formal model of GeneticNeuralEvolution

TLA+ modules beside the C++ code of this repository, the TLC configurations
that check them on small instances, and proofs that TLAPS checks for every
value of the constants. Paths are relative to `src/Examples/` unless they
start with `src/`.

## 1. The system

A master process accepts worker nodes over TCP, learns what each can do, sends
them heartbeats and drops the silent ones. A thread pool shared by the
networking and the numeric code, tensor operations cut into chunks for that
pool, a small neural network on top of them, and an older stand-alone
`select()` server make up the rest.

| Component | State it keeps | Operations | Talks to | What makes it correct |
|---|---|---|---|---|
| `Libraries/ThreadPool.hpp` | task queue, stop flag, mutex, condition variable, threads | constructor, `enqueue` (two), worker loop, `stop` in the destructor | everyone who enqueues; futures | nothing lost, repeated or overtaken; no lost wake-up; `stop` drains and returns |
| `Libraries/ParallelFor.h`, `Ops_Parallel.h` | futures of one call | cut a range into chunks, enqueue, wait | `ThreadPool` | every index once; chunks share nothing; returns; the first exception reaches the caller |
| `Libraries/NeuralNetwork.{hpp,cpp}` | weights, what each layer keeps for `backward` | `dot`, `transpose`, `add`, `forward`, `backward` | `Ops_Parallel.h` | backward fits the forward before it and uses its inputs, whatever calls have failed |
| `Linux/network/net/Protocol.hpp` | none | byte order helpers, report codec | `NodeClient`, `MasterServer` | decode inverts encode, on two hosts too |
| `Linux/network/net/Connection.hpp` | a socket | `sendMessage`, `recvMessage`, `close` | kernel | frames arrive whole and in order |
| `Linux/network/net/Registry.hpp` | map from descriptor number to `NodeInfo` | `insert`, `erase`, `markDead`, `update`, `get`, `snapshot`, `size` | all threads of the master | an entry describes the connection it was made for, and goes when that goes |
| `Linux/network/MasterServer.{hpp,cpp}`, `Linux/Master.cpp` | listener, `running_`, `stopping_`, two threads, detached connection loops, registry, pool | `start`, `stop`, `acceptLoop`, `connectionLoop`, `heartbeatLoop`, message handler | kernel, registry, pool, nodes | each thread acts on its own socket, the limit holds, descriptors come back, silent nodes go, `stop` returns |
| `Linux/network/NodeClient.{hpp,cpp}`, `Linux/Node.cpp` | one connection | `connect`, `sendSpecsAndAwaitConfig` | master | the handshake ends and reports what happened |
| `Linux/SocketServer.cpp`, `SocketClient.cpp` (and `Windows/`) | eight slots, descriptor sets, highest descriptor | accept and greet, read and answer, drop; the client's lines and replies | kernel | slots and descriptors agree; the one thread never blocks in `recv()` and no orderly client ends it; clients are answered and released |
| `System_Info`, `Logger.hpp`, `ModelPartitioner.hpp`, `src/Blob.c++`, `src/Game.c++`, `Third_Party/json.hpp`, CMake files | - | - | - | input and output, declarations, toys, vendored code: not modelled |

The hard behaviours are in the master. Five kinds of thread share a registry
and the descriptor table of the process, and the key of the registry is the
descriptor *number*. A number is free as soon as it is closed and `accept()`
hands out the lowest free one, so what a thread remembers by number (the
snapshot of the heartbeat, the `id` of a connection loop, the `id` captured by
a pool task) may stand for somebody else when it is used.

Elsewhere: an exception or a slow chunk among the futures that `ParallelFor`
waits for in order, and callers that are themselves tasks of the pool; a
`forward` that throws after some layers have already kept its input; the heartbeat's sleep, which depends on how long its turn
took; a node whose 500 ms window is looked at only between blocking reads;
`send()` and `recv()` that stop at any byte; and, in the `select()` server, a
descriptor set that is filled before an accept and read after it.
`PROJECT.json` lists each hazard at its line.

## 2. Modules

    TaskExecutor              what a thread pool promises (abstract)
      ThreadPool              Libraries/ThreadPool.hpp, implements it
        MCThreadPool, ThreadPoolProofs
    Partition                 how a range is cut: pure operators
    Tensor                    shapes, strides, dot, transpose: pure operators
      ParallelFor             ParallelFor.h, Ops_Parallel.h on TaskExecutor
        MCParallelFor, ParallelForProofs
      Training                Libraries/NeuralNetwork.cpp
        MCTraining, TrainingProofs
    Membership                what the master promises of its registry (abstract)
    Sockets                   kernel and peers (external)
      Registry                net/Registry.hpp
        MasterServer          network/MasterServer.cpp, Linux/Master.cpp,
                              implements Membership
          MCMasterServer, MasterServerProofs
      NodeClient              network/NodeClient.cpp, Linux/Node.cpp
        Cluster               MasterServer with NodeClients as its peers
          MCCluster, ClusterProofs
    Heartbeat                 heartbeatLoop against a clock
      MCHeartbeat, HeartbeatProofs
    FrameChannel              what a Connection promises (abstract)
    Protocol                  net/Protocol.hpp: pure operators
      Framing                 net/Connection.hpp by the byte, implements FrameChannel
        MCFraming, FramingProofs
    SelectServer              Linux/SocketServer.cpp, SocketClient.cpp
      MCSelectServer, SelectServerProofs

Each `MC` module only gives constants their values. Definitions whose comment
begins with "Mutant" are wrong variants of the one after them; no
specification uses them, and `PROJECT.json` names the property each violates.

### ThreadPool

| code | model |
|---|---|
| `mTasks`, `mStopping` | variables of those names |
| a critical section of `mEventMutex` | one action |
| `enqueue` | `Push` (under the mutex), then `NotifyOne` (after it) |
| worker loop | `Wait`, `Exit`, `Take`, `Run`; `SpuriousWake` for the condition variable |
| `start`, constructor | `Spawn` once per worker, then `Constructed` |
| `stop`, destructor | `SetStopping`, `NotifyAll`, `Destroy` |
| the shared state of a `packaged_task` | `future` |

`pushed`, `taken` and `atStop` are history variables: no guard reads them.
A task is one call of `enqueue`, by any thread, at most once. An enqueue after
`stop()` has begun is possible in the code and in the model; it may never run
(`future` becomes `"broken"`). `Destroy` waits for calls of `enqueue` already
past their push: using an object while it is destroyed is the caller's error.
The plain `enqueue(std::function)` lets an exception of the task end the
process; `Run` models the overload with a future. `Libraries/ThreadPool.cpp` is
an earlier copy of the class, equal to the header statement by statement: what
is said of one holds of the other.

### Partition, ParallelFor

| code | model |
|---|---|
| number of tasks, chunk size, `s` and `e` of a chunk | `NumTasks`, `Chunk`, `ChunkStart`, `ChunkEnd` |
| the rows of a part in `reduce_sum_rows` | `PartStart` |
| a call by `unary_map` or `binary_map`; by `matmul_rows` or `add_bias_broadcast`; by `reduce_sum_rows` | `MapCall`, `RowsCall`, `ReduceCall` |
| `ForEachRange` with nothing to do, without a pool, with one | `ReturnAtOnce`, `Direct`, `Begin` |
| the enqueueing loop | `Enqueue`, `EndOfLoop` |
| `future.get()` in order | `Get`, or `Rethrow` for a chunk that has failed; `Return` |
| a task on a worker | `StartTask`, then `FinishChunk`, or the steps of a caller and `FinishCaller`; `Width` at a time |

Several callers make one call each at the same time. A caller is a thread of
its own or, if it is `inside`, a task of the same pool (`Post` enqueues it),
which keeps its worker until its call is over. The data of an index is
abstracted to whether its work has been done (`once`) or done twice (`again`);
`Elements` says which cells or rows an index stands for, so that two rows of a
matrix share nothing only because their strides keep them apart. The function
passed to `unary_map` and `binary_map` may throw at any index. Workers are those
of `TaskExecutor`, so chunks run in any order the pool promises to allow. After
an exception the chunks that are left go on running, and are followed: the call
has then left chunks behind that still use the caller's data, and
`FirstExceptionWins` says which. `Stuck` is the state in which every worker
runs a caller that waits for a chunk in the queue: nothing moves any more. The
code does nothing to avoid it; it is up to the programs that use the pool.

### Tensor, Training

| code | model |
|---|---|
| `shape` of a vector or matrix, `length()`, `strides`, `toLinearIndex` | `Length`, `Strides`, `LinearIndex` |
| when `dot` and `transpose` throw, and the shape they return | `CanDot`, `Dot`, `CanTranspose`, `Transpose` |
| `Sequential::add` | `Add` |
| `Sequential::forward` | `CallForward`, a layer at a time `DenseForward` or `MapForward`, `ForwardReturns` |
| `Sequential::backward` | `CallBackward`, `DenseBackward` or `MapBackward`, `BackwardReturns` |
| either of them called with a tensor that has no data | `CopyNothing` |
| an exception on its way to the caller | `Throw` |
| `last_input`, `last_output` | `kept` |

Values are left out: a tensor is its shape, an update of weights the fact that
it was made from an input of the latest forward. A tensor without data has the
shape `Empty`; its `length()` is 1 in the code and in the model, and it has no
element, so that whoever trusts `length()` reads beyond it. What such a read
does is open: the process ends (`"crashed"`) or, unless the pointer is null, goes
on (`outcome` is `"strayed"`). Nothing in the repository trains a network yet; the calls come in
any order, as a program that uses the class may make them, one thread at a time.
`current`, `result`, `orderly`, `updated` and `outcome` are history.

Left out: the values, tensors of more than two dimensions (no layer makes one),
`length()` beyond what an `int` holds (the callers cut it down to one), running
out of memory, and `NeuralNetwork.hpp`: it declares another `Tensor`, without a
pool and with other constructors, which the `.cpp` neither includes nor defines.

### Sockets, Registry, MasterServer

| code | model |
|---|---|
| `Master.cpp` `main` with `start()`, `stop()`, `~MasterServer` | `mainPc`: `StartServer`, `StopServer`, `TeardownListener`, `JoinAccept`, `JoinHeartbeat`, `DestroyServer`; `running_` is folded into it |
| `stopping_` | `stopping` |
| `acceptLoop` | `acceptPc`, one action per access to shared state: `AcceptTop`, `AcceptConn`, `AcceptFail`, `AcceptReject`/`AcceptAdmit`, `AcceptInsert`, `AcceptSpawn` |
| `connectionLoop` of connection `c` | `loop[c]`, with `id[c]` = `conn->raw()`: `LoopTop`, `LoopRecv`, `LoopMessage`/`LoopEof`/`LoopEmptyFrame`, `LoopHandoff`, `LoopErase`, `LoopShut`, `LoopClose` |
| `heartbeatLoop` | `hbPc`, `hbTodo` (its snapshot): `HbTop`, `HbPing`, `HbSnapshot`, `HbErase`, `HbShut`, `HbClose`, `HbSleep` |
| `pool_` and the handler | `queue`, `job`: `LoopHandoff` enqueues, `PoolTake`, `PoolRun` |
| descriptor table, listen queue, receive buffers, peers | `Sockets` |
| `NodeInfo` | `specs` (whose report filled it), `expired` (`heartbeatTimeout` has passed), `owner` (history: the connection it was inserted for) |

A system call names a descriptor *number* and acts on whatever it stands for at
that moment; only a `recv()` that is already blocked stays with its socket
(`reading[c]`). The pool is modelled as what `ThreadPool` is shown to be.

`Membership` is what all this comes to for somebody who looks only at who is
registered: `Join` (a connection that never was a member, within the limit),
`Leave` (for good), `Disturb` (the heartbeat removes for the first time) and,
only after that, `Replace`: an entry that is inserted takes the place of another
one. `MasterServer` implements it with the owners of the entries as members.

What is abstracted: time (`Expire` may happen to any entry, and `Update` undoes
it), payloads (a report is known by the connection it came from), the cutting
of a frame into pieces (see `Framing`), `alive` (written and never read), the
listener's own number (not in `Fd`), the output of `print_resource_table`. A
report that does not decode is an `OTHER` frame, which changes nothing. After
shutdown the model lets buffered frames still be read, as Linux does, and drops
what the peer would send later. `accept()` waits when no number is free:
running out of descriptors is `AcceptFail`. `StartFails` is a listener that
cannot be set up: `start()` returns `false` and leaves nothing behind. After
`"destroyed"` the process has ended; that detached loops outlive the
`MasterServer` object for the rest of `main` is not followed.

### Heartbeat

`heartbeatLoop` alone, with a discrete clock and one entry: `Wake`, `Ping`,
`Check` (`now` and the second snapshot), `Reap`, `Rest` (the computed sleep).
`Work`, `Jitter` and `Delay` bound the length of a turn, the oversleeping and
the time from a PING to the handling of its PONG; `Tick` stops at those bounds.
The node answers every PING until `FallSilent`.

### NodeClient, Cluster

`nodePc[c]` is where the `main` of node `c` is: `NodeConnect`, `NodeReport`,
`NodePing`, `NodeRecvFails`, `NodeExit`, `NodeDialFails` for a dial that comes
to nothing, and `NodeCrash`. A node of `Flaky` may fail to dial, crash in the
handshake, or be held up until its window is over.
`windowOver[c]` says that 500 ms have passed, and is read only before a
`recvMessage` (`AfterLook`), as in the code: a node that is PINGed before
`WindowCloses` answers and blocks again, until the next PING or the end of the
connection. PINGs that wait together are answered as one. `Cluster` is `MasterServer` with its free peers
replaced by such nodes; `NodesArePeers` says that this is a special case of
what `MasterServer` was checked with. The branches for messages that no code of
the repository sends, and the JSON helpers, are left out.

### Protocol, Framing, FrameChannel

`Protocol` translates the byte-order helpers literally: an integer is the
sequence of its bytes, most significant first, and `Memory`/`Load` are the
`memcpy` of a little- or big-endian host. `Framing` is one direction of a
`Connection`: `SendSome` and `RecvSome` are one turn of the loops of `sendAll`
and `recvAll`, `Header` and `Body` the two halves of `recvMessage`. Either end
may go at any moment; a crash of the node's host takes any tail of what is
under way with it. `FrameChannel` is the promise: whole messages, in order.

### SelectServer

| code | model |
|---|---|
| `nArrClient`, `nMaxFd`, `fr` | variables of those names; 0 marks an empty slot |
| one turn of `main` | `Select` (with what `FD_SET` puts in), `TimeOut` |
| `ProcessTheNewRequest` | `Serve` or `Refuse`, then slot by slot `Turn`, `EndOfScan` |
| `ProcessNewMessage` | `Receive` then `Reply`, or `Drop` |
| the client | `Connect`, `SendLine`, `ReceiveReply`, `Quit`; `KillClient` |

Bytes are counted in pieces: a line that is longer than the buffer of `recv()`,
or that the network cuts up, is more than one. `reset` holds the clients whose
system has answered with a reset, after which `send()` fails or raises
`SIGPIPE` (`pc = "dead"`). `refused` and `long` are history.

`accept()` may fail (`AcceptFails`): the client stays in the backlog, and the
slots are read all the same. A line may be empty: nothing is sent, and the
client waits for a reply, which is the greeting if that is still unread and
nothing otherwise. A client that waits so waits for good, as in the code; the
liveness of the others does not depend on it.

Left out: failures of the set-up and of `select()`, running out of descriptors
(an assumption gives each client a number), and the time-out value that Linux's
`select()` counts down, so that the loop polls after the first second: it
changes nothing the model can see. `Windows/SocketServer.C++` and its client
differ in the set-up of Winsock, in the calls that close, and in that nothing
like `SIGPIPE` exists.

## 3. What the runs check

| run | instance | shows |
|---|---|---|
| `thread_pool` | 2 workers, 3 tasks | all properties of the pool, and `ImplementsExecutor` |
| `parallel_for` | 2 workers or none; one call: ranges empty, of 1, 5 and 9 indices, off zero, with and without a wished number of tasks, matrices, sums of 0, 3 and 11 rows; or two short calls at the same time, each from outside or inside | `EachOnce`, `NoSharedElement`, `FirstExceptionWins`, `Returns` |
| `training` | up to 4 layers, 3 sizes of `Dense`, 5 shapes of inputs and gradients | `OrderlyBackwardSucceeds`, `StepIsOfOneInput` |
| `master_safety` | 2 connections, 2 numbers, room for 1 node, a frame each, time-outs | `ImplementsMembership`, `NoOrphanEntry`, `NoDescriptorLeak`, `OwnershipUntilReap` |
| `master_liveness` | 2 connections, 1 number, signal, time-outs, `accept` errors | `StopReturns`, `PeerGoneReleased`, `SilentReaped` |
| `heartbeat` | interval 3, work and jitter 1, delay 6, the shortest time-out that `LiveNodeKept` allows, 32 ticks | `LiveNodeKept`, `SilentReapedInTime` |
| `cluster_ending` | 2 nodes, room for 1, an early PING and a late one each | `HandshakeEnds` |
| `cluster_stopping` | 1 node that may crash, be held up or fail to dial, an early PING and a late one, signal, time-outs | `NodesArePeers`, `HandshakeEnds`, `ExitedNodeForgotten` |
| `framing` | 3 messages, 2 reports, a buffer of 9 bytes, every pair of byte orders | `ImplementsChannel`, `ReportUnderstood` |
| `select_server` | 3 clients on 2 slots and 3 numbers; one sends two lines, one an empty line, one a line in two pieces and may be killed; `accept()` may fail | `SlotsMatchSockets`, `NeverBlocksInRecv`, `OrderlyClientsHarmless`, `ServedClientAnswered`, `GoneClientReleased` |
| `stale_specs`, `double_close` | 2 connections, 1 number | a counterexample each, see section 5 |

Every run but the last two, `master_liveness` and the two of the cluster also
checks a type invariant; that of the cluster is a theorem.

Bounds.
* Pool: two workers and three tasks are the least for a task that waits while
  another overtakes a sleeper, with one more to arrive after each step of
  `stop()`.
* Master: two connections over one number show every reuse between a past and
  a present connection, over two a connection that is refused beside one that
  is served. `MaxNodes` is 1 so that the limit is reached. `MaxMsgs` (frames a
  connection sends) is 1: a second one meets the same handler in the same state
  of the registry. In `master_safety` it is a PONG or an empty frame: a report
  takes the way of a PONG and differs in the specs it fills in, which none of the
  properties of that run reads; `stale_specs` and the runs of the cluster have
  reports. `Replace` needs three connections and room for two, which
  `master_safety` does not have. Larger numbers of connections are covered by the
  theorems of section 4, `MembershipRefined` among them. `Events` selects the rare
  events of a run; no run forbids an interleaving of the events it has.
  `master_safety` has no signal: with one it has 5.4 million states and does not
  fit its time. That no stop leaves an entry or a descriptor without its thread
  is proved (`NoOrphan`, `NoLeak`), not run. `master_liveness` has `MaxMsgs` 0: its
  peers are silent, so that the pool stays idle and no entry is refreshed. Its
  three properties are about ends, refusals, removals and the stop. A busy pool and
  refreshed entries are in the runs of the cluster, under `HandshakeEnds` and
  `ExitedNodeForgotten`; that the pool drains when it is destroyed is checked in
  `thread_pool`, not together with `StopReturns`.
* Cluster: `MaxMsgs` is 3, the report and two PONGs. One PING is answered before
  the window is over, after which the node blocks again, and one after it, which
  ends the handshake. `RoomToAnswer` keeps the last frame for that PING; with the
  heartbeats 2 s apart and a window of 500 ms the code has no room for a second
  early one either. The largest number of nodes that may fail or be removed is
  one: with two nodes, time-outs are beyond what TLC can enumerate.
  `cluster_ending` has the second node, for refusals and reused numbers, and no
  failures. `accept()` errors are left out, since after one a node in the listen queue
  waits for a signal that nothing owes.
* Heartbeat: the numbers keep the order of the real ones and let a PING
  overtake the answers to earlier ones; 32 ticks are several turns after a
  node has fallen silent. The theorems need no bound.
* ParallelFor: `MinChunk` is 2 instead of 8192, so that short ranges reach the
  grain limit; one wish (4 tasks for 9 indices) leaves the last chunk empty.
  Two callers on two workers are the least for one inside caller to be helped
  by a free worker and for two to take both and be stuck. The theorems need no
  bound.
* Training: `MaxLayers` is 4, so that there is a layer before, behind and
  between two that keep different inputs; the sizes fit in some orders and not
  in others, and batches have one row or two. The theorems need no bound.
* Framing: 9 bytes hold one PONG and a part of the next frame, so that every
  split of a header, a body and a frame boundary occurs.
* Select server: three clients on two slots reach the full server and the reuse
  of a slot and of a number while another client is served; the first client
  sends two lines, the least for a reply to lag behind.

Safety runs of the master use symmetry of connections; liveness runs none.

Fairness. Every thread the code starts is scheduled (`WF` per thread); a call
in progress goes on. Nothing is owed by peers, by the clock, by the signal, by
`accept()` errors, by callers of `enqueue`, by users of the select client, nor
by spurious wake-ups. For `SilentReaped` the clock is the environment's: what
has expired stays expired until a message is handled. In `Cluster` a node that
has connected is scheduled, or at least its clock goes on while it waits: a
window that is open closes in the end, since `steady_clock` does not stand
still, but any PING may come first. Whether a node connects is open. A `send()`
to a peer is taken not to block (section 6). In `Framing` each side goes on while its call can, and nobody is
made to close. In `SelectServer` the one server thread is scheduled, and a client whose
`recv()` has returned; an `accept()` that fails is not owed to come back, and a
server that turns for ever around one that always fails is allowed. In
`ParallelFor` a caller goes on when it can and the pool keeps the promise of
`TaskExecutor`; nobody is made to `Post` a call. `Training` claims no liveness:
it is one thread in a loop over its layers.

## 4. What is proved

All theorems hold for every value of the constants that meets the named
assumptions of the modules; TLC evaluates those on every run.

* `ThreadPoolProofs`: `TypeOK`, `FifoNoLoss`, `TakenOnce`, `DrainedAtDestroy`
  and `NoLostWakeup`. `FifoNoLoss` and `TakenOnce` rest on one invariant of the
  queue (`pushed` is `taken` followed by the queue and repeats nothing, and the
  holders and futures agree with it). `DrainedAtDestroy` needs that a worker
  leaves only when the flag is set and the tasks accepted before have been
  popped. `NoLostWakeup` counts: tasks in the queue against workers at the lock
  plus notifications under way; each step of a sleeper pays with one of them.
  `Refinement` shows that initial states map to initial states and each step to
  a step or a stutter of `TaskExecutor`: `Spec => Executor!AbstractSafety`. The
  liveness half of `ImplementsExecutor` is model-checked. `FuturesFinal`: a future
  that has its result, or is broken, never changes again; `FuturesSettled`: none
  is pending when the pool is gone. Both need `OwnerInv` (what each phase of the
  constructor and of `stop` has brought about; no future is broken before the
  pool is destroyed). `TakerTheorem` is the core of
  `AcceptedRuns` without fairness: a queued task always has a worker that is on
  its way to it, or a notification still to come, unless all workers have left
  after `stop`; and nobody who is joined sleeps.
* `ParallelForProofs`: the number of tasks lies between 1 and the number of
  indices; every index lies in exactly one chunk and every row in exactly one
  part (`ChunksPartition`, `PartsPartition`), by division with remainder, once in
  its general form and once for the rounded-up quotient. From that, for any
  callers, inside and outside, on any pool: `TypeOK`, `EachOnce`,
  `NoSharedElement` and `FirstExceptionWins`. The invariant has three parts:
  `KnownInv` (what the pool holds are the chunks enqueued and the tasks of inside
  callers, none twice), `PlaceInv` (where a caller is agrees with its `next` and
  `got`; the chunks before `got` have finished and not failed) and `DoneInv` (the
  work done is that of the finished chunks, and of failed ones a part). The last
  needs that different indices have disjoint `Elements`: rows by their strides,
  parts by `PartsPartition`. `ForAfterTheEnd` is an action property: nothing is
  done to the data of a call that has returned, and after one that has thrown
  only the chunks after the one that failed do anything. `ForNeverAtAStandstill`
  is the core of `Returns`: the guard of some step of a caller or a worker holds,
  or all is over, or the callers that wait hold every worker (`Stuck`); the last
  cannot be with fewer inside callers than workers. Its invariant `PoolInv`
  says that no more is active than there are workers, and that every chunk and
  every inside caller that has been enqueued is still known to the pool.
* `TrainingProofs`: `TypeOK`, `OrderlyBackwardSucceeds`, `StepIsOfOneInput`. `Chain`
  is what makes them inductive: up to the layer that a forward has reached, each
  layer has kept what the one before passed on. A forward builds it up, a
  backward with a gradient of the right shape walks down along it, and a Dense
  layer hands on the shape that the layer before expects (`DenseFits`). For
  `StepIsOfOneInput` it is enough that a forward that returned has passed every
  layer.
* `MasterServerProofs`: `TypeOK`, strengthened by `OneLife` (a connection is
  away, queued, in the hands of the accept thread or in its loop, never two of
  them) and `NotStarted`. `NoOrphanEntry`, `NoDescriptorLeak` and
  `InsertNeverRefused` (the test of the limit still holds when `acceptLoop`
  inserts) are inductive together with the types. `OwnershipUntilReap`
  is not: `OwnInv` adds what the accept thread holds between `accept()` and the
  start of the loop, and that the heartbeat closes nothing before it has removed
  something. The key lemma, `Apart`, says that two threads which each own their
  socket hold two different numbers.
  `MembershipRefined` is `ImplementsMembership`, step by step: no connection has
  two entries and whoever has one has entered (`OneEntryEach`), and before the
  first removal the number that `accept()` has returned has no entry
  (`InsertIsFresh`, from `OwnInv`), so that an insertion replaces nobody.
  `UpdatesCommute` is about the message handler: two messages of one connection
  leave the same entry in either order; two of different connections that meet
  on one number do unless both are reports.
  `StopIsFinal`, an action property: between the return of `stop()` and the end
  of the process nobody is added to the registry or accepted, and descriptors
  are only closed. `JoinsReturn` is the core of `StopReturns`: from the closing
  of the listener on, each step of `acceptLoop` and of `heartbeatLoop` lowers a
  rank that no other step raises, and `accept()` no longer blocks, so that each
  of the two needs only a few steps more. Both rest on `StopInv`, what each stage
  of `stop()` has already brought about.
* `HeartbeatProofs`: `TypeOK`, `LiveKept` and `SilentReaped`, from `LoopInTime` (what the
  clock may be in each phase of the turn), `HeardOf` (a node that answers has
  been heard of at most one beat before its oldest open PING) and `NotYetOld`.
  The first theorem states the condition on the configuration that the code
  relies on and nowhere checks: the time-out leaves room for one turn and one
  answer. 2000 and 6000 ms leave almost 4 s for the answer. `Paces` bounds the time
  between the beginnings of two turns, after the first, from below by the interval
  and from above by the longest turn plus the oversleeping: delays do not add up
  (`Paced`, which fixes what the computed sleep may be).
* `ClusterProofs`: `PeersKept` is `NodesArePeers`, step by step; it carries the
  theorems of `MasterServerProofs` over to a master with real nodes
  (`ClusterOwnership`, `ClusterTypeCorrect`, `ClusterRegistry`). `NodesHeard` says
  what nodes add to that: a node's report is its first frame and its only
  report, nothing but reports and PONGs reaches a worker, and no connection loop
  gives up on an empty frame. Its invariant `NodesSpeak` follows each frame from
  the node through the socket, the loop and the queue to the worker.
* `SelectServerProofs`: `TypeOK`, `SlotsMatchSockets`, `NeverBlocksInRecv` and
  `OrderlyClientsHarmless`. The first three need
  `OneSocketEach` (a client is on one descriptor only, so that dropping one slot
  cannot take the input of another) and `StillReadable` (what `select()` reported
  is readable until its slot's turn is over). The last needs a count, `Counted`:
  for an orderly client, what may still reach it (pieces not yet read by the
  server, the answer being made, the greeting, answers it has not read) is
  nothing before it connects, at most two while it waits and one otherwise; when it has
  left with that one unread, and its system answers with a reset, nothing is
  under way to it any more. So none of them ends the server (`OrderlyTheorem`),
  none that is about to be greeted or answered has been reset (`ResetTheorem`),
  and at its prompt it is at most one answer behind (`LagTheorem`): the lag that
  the greeting causes never grows.
* `FramingProofs`: the 32-bit field arrives unchanged between any two hosts, the
  64-bit field only between hosts of one byte order. `FramingImplementsChannel`
  is the safety half of `ImplementsChannel`: `Spec => Channel!ChannelSafety`, for
  any messages and any cuts. Its invariant is about the bytes under way: what
  the receiver has got of the current header or body, what is on the wire, and
  what is still to be sent or has been lost with a host are together the rest of
  the stream of frames of the messages accepted. A message delivered is then the
  next one of that stream. `ReportUnderstood` follows, since every message of the
  stream is one of the node's own and its report is what `Protocol` encodes.

Only model-checked: everything with fairness (`AcceptedRuns`, `StopReturns`,
`Returns`, `PeerGoneReleased`, the `SilentReaped` of `MasterServer`,
`HandshakeEnds`, `ExitedNodeForgotten`, `ServedClientAnswered`,
`GoneClientReleased`, the fairness of `TaskExecutor` and of `FrameChannel`):
liveness is out of the prover's reach, and so is `ENABLED`. Where a theorem says
that somebody can go on (`ForNeverAtAStandstill`, `TakerTheorem`, `JoinsReturn`) it
says so with the guards written out. Every other property of a run that holds
is a theorem; `InsertNeverRefused` is one without a run of its own, since
`ImplementsMembership` is violated when it is.

## 5. Where the code differs from what it says

Found by a run:

* `stale_specs`: a report handled by the pool after its connection has ended
  fills the entry of the connection that reused the number (`:184`, `:217-228`).
* `double_close`: the heartbeat closes a number that the removed node's loop
  still believes to own; the loop then closes the next connection (`:146`,
  `:311-312`, `:212`/`:266`). `OwnershipUntilReap` says that this needs a
  removal by the heartbeat: without one, the loops never confuse numbers.

Met while modelling, without a run of their own:

* `MasterServer.cpp:142` says that `stop()` closes the remaining connections; the
  loop over the snapshot does nothing, and a connection loop may stay in `recv()`
  after `stop()` has returned and the server is destroyed.
* A `ParallelFor` that throws returns before its other chunks have ended, while
  they still use data of the caller (`ParallelFor.h:39-40`); one made from tasks
  that take every worker never returns.
* `Dense::forward` keeps its input before `dot` may throw
  (`NeuralNetwork.cpp:339-340`), so that after a failed forward the layers hold
  the inputs of two; a backward made all the same mixes them.
* The `length()` of a tensor without dimensions is 1 (`NeuralNetwork.cpp:254-260`),
  so that copying one that was default-constructed or moved from reads a null
  pointer (`:75`, `:79`).
* The backward of an activation compares no shapes and reads as many elements of
  what it kept as the gradient has (`NeuralNetwork.cpp:426`, `:457`, `:491`); a
  backward of a `Dense` that throws leaves the layers behind it updated (`:526`).
* The heartbeat removes by a snapshot: a node that has answered, or a new one
  with the same number, may be removed for the age of the old entry
  (`MasterServer.cpp:302-312`).
* A node that the master refuses, or whose master has died, takes the end of
  the connection for silence and reports success (`NodeClient.cpp:212-215`).
* The window of 500 ms does not end a blocked `recvMessage`: a node stays in
  the handshake until the first PING after it, up to a heartbeat interval later;
  one that comes within the window is answered and awaited again
  (`NodeClient.cpp:206-212`).
* `Protocol.hpp:28` calls the helpers portable. `hostToNet64` changes nothing,
  so `ramBytes` is understood only between hosts of one byte order
  (`RamOnOneByteOrder`).
* A full select server accepts the client all the same, never answers and never
  closes it (`SocketServer.cpp:88-103`, with a comment to that effect).
* The greeting makes each client take the answer to its previous line for the
  answer to this one (`SocketServer.cpp:93`, `SocketClient.cpp:61`).
* A client that is killed, or that quits after a line in several pieces, can
  end the select server by `SIGPIPE` (`SocketServer.cpp:35`);
  `OrderlyClientsHarmless` says that others cannot.

## 6. Not modelled

* `Third_Party/json.hpp` is a vendored library of 25677 lines, most of the lines
  of this repository. Two helpers of `NodeClient.cpp` (263-288) use it and
  nothing calls them, so no behaviour of the system depends on it. Of the other
  3200 lines, the header files of the system and its set-up, logging and output
  are what the modules leave out.
* `System_Info.cpp`, `totalRamBytes`: figures read from the operating system in one
  step, without state. The report carries whatever they are.
* `Logger.hpp`: printing under one mutex, taken by nobody who holds another.
* `ModelPartitioner.hpp`, `Windows/Master.cpp`, `Windows/Node.cpp`, the hooks at
  `MasterServer.cpp:327-386`: declarations without definitions, empty files and
  placeholders that only log.
* `src/Blob.c++`, `src/Game.c++`: no build file names them. `Blob.c++` uses
  `pickOne` before it is declared and does not compile; `Game.c++` prints a
  vector.
* The Windows branches: the same calls under other names.
* A bind address that does not parse, a second `start()`: no code passes one or
  makes one. The branches of the node for messages that the master never sends.
* A `send()` of the heartbeat that blocks (`MasterServer.cpp:294`). It would hold up
  `heartbeatLoop`, and `stop()` in its join, on the full buffer of a peer that goes
  on sending but reads nothing, after very many PINGs of five bytes. A peer that
  sends nothing either is removed after the time-out, and the node program
  reads what it is sent or leaves. `StopReturns`, `SilentReaped` and the
  properties of the cluster assume that it does not happen.
* Running out of memory. `Connection.hpp:83` allocates the length that a frame
  names without a check; `bad_alloc` in a detached connection loop would end the
  master. `Framing` shows that the length read is the one that was sent, and no
  frame of this program is longer than 17 bytes.
* Floating-point arithmetic: what a layer computes, as opposed to the shapes and
  the order in which it does.

## 7. Plan

Done: the modules of section 2, with every safety property that a run checks
proved. What is left:

1. `MasterServer`: a PING sent in part (`MasterServer.cpp:296`), which needs the
   bytes of `Framing` in the composition, and a full socket buffer to occur.
2. A run of `MasterServer` with three connections and room for two, small enough
   to be complete, in which `Replace` of `Membership` happens.
