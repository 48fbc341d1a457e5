---------------------------- MODULE MasterServer ----------------------------
(***************************************************************************)
(* network/MasterServer.cpp with the main program Linux/Master.cpp: the    *)
(* accept thread, the heartbeat thread, one detached connection loop per   *)
(* accepted connection, the workers of the pool, and the main thread that  *)
(* starts and stops them.  They share the registry, the descriptor table   *)
(* and the flag stopping_; each action is one access to what they share.   *)
(*                                                                         *)
(* The pool appears as what ThreadPool is shown to be: tasks start in the  *)
(* order of enqueue, one per worker at a time, and its destructor drains.  *)
(***************************************************************************)
EXTENDS Registry

CONSTANTS Worker,   \* the threads of pool_
          Events    \* what may befall the master: "signal" to end it, an "error" of
                    \* accept(), the "timeout" of an entry

ASSUME ServerAssumption ==
    /\ IsFiniteSet(Worker)
    /\ Events \subseteq {"signal", "error", "timeout"}

VARIABLES
    mainPc,      \* the main thread, from start() to the end of the process
    stopping,    \* stopping_
    acceptPc, acceptFd, acceptConn,   \* acceptLoop, its local s and the connection behind it
    hbPc, hbTodo, hbVictim,           \* heartbeatLoop, its snapshot and the node it removes
    loop, id, reading, held,          \* per connectionLoop: pc, conn->raw(), the connection its
                                      \* recv() is on, and the frame it is about to hand off
    queue, job,                       \* pool_: tasks waiting, and the task of each worker
    reaped                            \* history: the heartbeat has removed some node

mainVars == <<mainPc, stopping>>
acceptVars == <<acceptPc, acceptFd, acceptConn>>
hbVars == <<hbPc, hbTodo, hbVictim, reaped>>
loopVars == <<loop, id, reading, held>>
poolVars == <<queue, job>>
vars == <<netVars, nodes, mainVars, acceptVars, hbVars, loopVars, poolVars>>

Task == [id : Fd, from : Conn, msg : Message]
LoopPc == {"none", "top", "recv", "blocked", "handoff", "erase", "shut", "close", "exited"}

MainTypeOK ==
    /\ mainPc \in {"idle", "serving", "teardown", "joinAccept", "joinHeartbeat",
                   "stopped", "destroyed"}
    /\ stopping \in BOOLEAN

AcceptTypeOK ==
    /\ acceptPc \in {"none", "top", "accept", "check", "insert", "spawn", "exited"}
    /\ acceptFd \in Fd \cup {None}
    /\ acceptConn \in Conn \cup {None}
    /\ acceptPc \in {"check", "insert", "spawn"} <=> acceptFd # None
    /\ acceptPc \in {"check", "insert", "spawn"} <=> acceptConn # None

HbTypeOK ==
    /\ hbPc \in {"none", "top", "ping", "reap", "shut", "close", "exited"}
    /\ hbTodo \subseteq Fd
    /\ hbVictim \in Fd \cup {None}
    /\ hbPc \in {"shut", "close"} <=> hbVictim # None
    /\ reaped \in BOOLEAN

LoopTypeOK ==
    /\ loop \in [Conn -> LoopPc]
    /\ id \in [Conn -> Fd \cup {None}]
    /\ reading \in [Conn -> Conn \cup {None}]
    /\ held \in [Conn -> Message \cup {None}]
    /\ \A c \in Conn :
        /\ loop[c] \notin {"none", "exited"} <=> id[c] # None
        /\ loop[c] \in {"blocked", "handoff"} <=> reading[c] # None
        /\ loop[c] = "handoff" <=> held[c] # None

PoolTypeOK ==
    /\ queue \in Seq(Task)
    /\ job \in [Worker -> Task \cup {None}]

TypeOK ==
    /\ NetTypeOK /\ RegistryTypeOK
    /\ MainTypeOK /\ AcceptTypeOK /\ HbTypeOK /\ LoopTypeOK /\ PoolTypeOK

Init ==
    /\ NetInit /\ RegistryInit
    /\ mainPc = "idle" /\ stopping = FALSE
    /\ acceptPc = "none" /\ acceptFd = None /\ acceptConn = None
    /\ hbPc = "none" /\ hbTodo = {} /\ hbVictim = None /\ reaped = FALSE
    /\ loop = [c \in Conn |-> "none"]
    /\ id = [c \in Conn |-> None]
    /\ reading = [c \in Conn |-> None]
    /\ held = [c \in Conn |-> None]
    /\ queue = <<>>
    /\ job = [w \in Worker |-> None]

-----------------------------------------------------------------------------
(* The main thread: start(), and stop() once a signal has set g_stop.      *)

StartServer ==
    /\ mainPc = "idle"
    /\ mainPc' = "serving" /\ stopping' = FALSE
    /\ listening' = TRUE
    /\ acceptPc' = "top" /\ hbPc' = "top"
    /\ UNCHANGED <<fdTable, backlog, shut, peerVars, nodes, acceptFd, acceptConn,
                   hbTodo, hbVictim, reaped, loopVars, poolVars>>

\* setupListener() returns false: main returns, and nothing is left behind.
StartFails ==
    /\ mainPc = "idle"
    /\ mainPc' = "destroyed"
    /\ UNCHANGED <<netVars, stopping, nodes, acceptVars, hbVars, loopVars, poolVars>>

StopServer ==
    /\ "signal" \in Events
    /\ mainPc = "serving"
    /\ mainPc' = "teardown" /\ stopping' = TRUE
    /\ UNCHANGED <<netVars, nodes, acceptVars, hbVars, loopVars, poolVars>>

\* Mutant: the listener is left open.
TeardownForgotten ==
    /\ mainPc = "teardown"
    /\ mainPc' = "joinAccept"
    /\ UNCHANGED <<netVars, stopping, nodes, acceptVars, hbVars, loopVars, poolVars>>

TeardownListener ==
    /\ mainPc = "teardown"
    /\ mainPc' = "joinAccept"
    /\ listening' = FALSE /\ backlog' = {}
    /\ UNCHANGED <<fdTable, shut, peerVars, stopping, nodes, acceptVars, hbVars,
                   loopVars, poolVars>>

JoinAccept ==
    /\ mainPc = "joinAccept" /\ acceptPc = "exited"
    /\ mainPc' = "joinHeartbeat"
    /\ UNCHANGED <<netVars, stopping, nodes, acceptVars, hbVars, loopVars, poolVars>>

JoinHeartbeat ==
    /\ mainPc = "joinHeartbeat" /\ hbPc = "exited"
    /\ mainPc' = "stopped"
    /\ UNCHANGED <<netVars, stopping, nodes, acceptVars, hbVars, loopVars, poolVars>>

\* main returns: pool_ is destroyed first, which drains it, and the process
\* ends with whatever connection loops are still there.
DestroyServer ==
    /\ mainPc = "stopped"
    /\ queue = <<>> /\ \A w \in Worker : job[w] = None
    /\ mainPc' = "destroyed"
    /\ UNCHANGED <<netVars, stopping, nodes, acceptVars, hbVars, loopVars, poolVars>>

MainStep == TeardownListener \/ JoinAccept \/ JoinHeartbeat \/ DestroyServer

-----------------------------------------------------------------------------
(* acceptLoop.                                                             *)

AcceptTop ==
    /\ acceptPc = "top"
    /\ acceptPc' = IF stopping THEN "exited" ELSE "accept"
    /\ UNCHANGED <<netVars, nodes, mainVars, acceptFd, acceptConn, hbVars, loopVars, poolVars>>

AcceptConn(c, f) ==
    /\ acceptPc = "accept" /\ listening
    /\ c \in backlog /\ LowestFree(f)
    /\ backlog' = backlog \ {c}
    /\ fdTable' = [fdTable EXCEPT ![f] = c]
    /\ acceptFd' = f /\ acceptConn' = c
    /\ acceptPc' = "check"
    /\ UNCHANGED <<listening, shut, peerVars, nodes, mainVars, hbVars, loopVars, poolVars>>

\* accept() returns INVALID_SOCKET: the listener is closed, or any error.
AcceptFail ==
    /\ acceptPc = "accept"
    /\ ~listening \/ "error" \in Events
    /\ acceptPc' = "exited"
    /\ UNCHANGED <<netVars, nodes, mainVars, acceptFd, acceptConn, hbVars, loopVars, poolVars>>

Full == Cardinality(Registered) >= MaxNodes

\* Mutant: the connection is dropped and its descriptor forgotten.
RejectWithoutClose ==
    /\ acceptPc = "check" /\ Full
    /\ acceptPc' = "top" /\ acceptFd' = None /\ acceptConn' = None
    /\ UNCHANGED <<netVars, nodes, mainVars, hbVars, loopVars, poolVars>>

AcceptReject ==
    /\ acceptPc = "check" /\ Full
    /\ CloseFd(acceptFd)
    /\ acceptPc' = "top" /\ acceptFd' = None /\ acceptConn' = None
    /\ UNCHANGED <<listening, backlog, peerVars, nodes, mainVars, hbVars, loopVars, poolVars>>

\* Mutant: > for >= in the test of the limit.
AdmitOneTooMany ==
    /\ acceptPc = "check" /\ Cardinality(Registered) <= MaxNodes
    /\ acceptPc' = "insert"
    /\ UNCHANGED <<netVars, nodes, mainVars, acceptFd, acceptConn, hbVars, loopVars, poolVars>>

AcceptAdmit ==
    /\ acceptPc = "check" /\ ~Full
    /\ acceptPc' = "insert"
    /\ UNCHANGED <<netVars, nodes, mainVars, acceptFd, acceptConn, hbVars, loopVars, poolVars>>

AcceptInsert ==
    /\ acceptPc = "insert"
    /\ Insert(acceptFd, [owner |-> acceptConn, specs |-> None, expired |-> FALSE])
    /\ acceptPc' = "spawn"
    /\ UNCHANGED <<netVars, mainVars, acceptFd, acceptConn, hbVars, loopVars, poolVars>>

\* Mutant: the loop is not told its descriptor.
SpawnWithoutId ==
    /\ acceptPc = "spawn"
    /\ loop' = [loop EXCEPT ![acceptConn] = "top"]
    /\ acceptPc' = "top" /\ acceptFd' = None /\ acceptConn' = None
    /\ UNCHANGED <<netVars, nodes, mainVars, hbVars, id, reading, held, poolVars>>

AcceptSpawn ==
    /\ acceptPc = "spawn"
    /\ loop' = [loop EXCEPT ![acceptConn] = "top"]
    /\ id' = [id EXCEPT ![acceptConn] = acceptFd]
    /\ acceptPc' = "top" /\ acceptFd' = None /\ acceptConn' = None
    /\ UNCHANGED <<netVars, nodes, mainVars, hbVars, reading, held, poolVars>>

AcceptStep ==
    \/ AcceptTop
    \/ \E c \in Conn, f \in Fd : AcceptConn(c, f)
    \/ AcceptReject \/ AcceptAdmit \/ AcceptInsert \/ AcceptSpawn
    \/ ~listening /\ AcceptFail

-----------------------------------------------------------------------------
(* connectionLoop for the connection accepted as c.  Every system call it  *)
(* makes names the descriptor number id[c], whatever that number stands    *)
(* for by then; a recv() that is blocked stays with the socket it is on.   *)

\* The end of the process ends the loops as well.
Goto(c, pc) ==
    /\ mainPc # "destroyed"
    /\ loop' = [loop EXCEPT ![c] = pc]

LoopTop(c) ==
    /\ loop[c] = "top"
    /\ Goto(c, IF stopping THEN "erase" ELSE "recv")
    /\ UNCHANGED <<netVars, nodes, mainVars, acceptVars, hbVars, id, reading, held, poolVars>>

LoopRecv(c) ==
    /\ loop[c] = "recv"
    /\ reading' = [reading EXCEPT ![c] = fdTable[id[c]]]
    /\ Goto(c, IF fdTable[id[c]] = None THEN "erase" ELSE "blocked")
    /\ UNCHANGED <<netVars, nodes, mainVars, acceptVars, hbVars, id, held, poolVars>>

\* The frame's length is taken as it comes; that memory for it runs out, and
\* the exception ends the process, is left out.
LoopMessage(c) ==
    /\ loop[c] = "blocked" /\ inbox[reading[c]] # <<>>
    /\ Head(inbox[reading[c]]) # "EMPTY"
    /\ held' = [held EXCEPT ![c] = Head(inbox[reading[c]])]
    /\ inbox' = [inbox EXCEPT ![reading[c]] = Tail(@)]
    /\ Goto(c, "handoff")
    /\ UNCHANGED <<fdTable, listening, backlog, shut, peer, sent, pinged, nodes, mainVars,
                   acceptVars, hbVars, id, reading, poolVars>>

\* Mutant: end of file taken for "nothing yet".
LoopIgnoreEof(c) ==
    /\ loop[c] = "blocked" /\ AtEof(reading[c])
    /\ reading' = [reading EXCEPT ![c] = None]
    /\ Goto(c, "top")
    /\ UNCHANGED <<netVars, nodes, mainVars, acceptVars, hbVars, id, held, poolVars>>

LoopEof(c) ==
    /\ loop[c] = "blocked" /\ AtEof(reading[c])
    /\ reading' = [reading EXCEPT ![c] = None]
    /\ Goto(c, "erase")
    /\ UNCHANGED <<netVars, nodes, mainVars, acceptVars, hbVars, id, held, poolVars>>

\* recvMessage gives up on a frame that says it is empty.
LoopEmptyFrame(c) ==
    /\ loop[c] = "blocked" /\ inbox[reading[c]] # <<>>
    /\ Head(inbox[reading[c]]) = "EMPTY"
    /\ inbox' = [inbox EXCEPT ![reading[c]] = Tail(@)]
    /\ reading' = [reading EXCEPT ![c] = None]
    /\ Goto(c, "erase")
    /\ UNCHANGED <<fdTable, listening, backlog, shut, peer, sent, pinged, nodes, mainVars,
                   acceptVars, hbVars, id, held, poolVars>>

LoopHandoff(c) ==
    /\ loop[c] = "handoff"
    /\ queue' = Append(queue, [id |-> id[c], from |-> reading[c], msg |-> held[c]])
    /\ held' = [held EXCEPT ![c] = None]
    /\ reading' = [reading EXCEPT ![c] = None]
    /\ Goto(c, "top")
    /\ UNCHANGED <<netVars, nodes, mainVars, acceptVars, hbVars, id, job>>

\* Mutant: the clean-up begins by closing the socket.
LoopCloseThenErase(c) ==
    /\ loop[c] = "erase"
    /\ CloseFd(id[c])
    /\ Goto(c, "shut")
    /\ UNCHANGED <<listening, backlog, peerVars, nodes, mainVars, acceptVars, hbVars,
                   id, reading, held, poolVars>>

\* registry_.markDead(id) changes only `alive`; registry_.erase(id).
LoopErase(c) ==
    /\ loop[c] = "erase"
    /\ Erase(id[c])
    /\ Goto(c, "shut")
    /\ UNCHANGED <<netVars, mainVars, acceptVars, hbVars, id, reading, held, poolVars>>

LoopShut(c) ==
    /\ loop[c] = "shut"
    /\ ShutdownFd(id[c])
    /\ Goto(c, "close")
    /\ UNCHANGED <<fdTable, listening, backlog, peerVars, nodes, mainVars, acceptVars, hbVars,
                   id, reading, held, poolVars>>

LoopClose(c) ==
    /\ loop[c] = "close"
    /\ CloseFd(id[c])
    /\ id' = [id EXCEPT ![c] = None]
    /\ Goto(c, "exited")
    /\ UNCHANGED <<listening, backlog, peerVars, nodes, mainVars, acceptVars, hbVars,
                   reading, held, poolVars>>

LoopStep(c) ==
    \/ LoopTop(c) \/ LoopRecv(c) \/ LoopMessage(c) \/ LoopEof(c)
    \/ LoopEmptyFrame(c) \/ LoopHandoff(c) \/ LoopErase(c) \/ LoopShut(c) \/ LoopClose(c)

-----------------------------------------------------------------------------
(* heartbeatLoop: PING every node of one snapshot, remove the expired ones *)
(* of a second snapshot, sleep.  Nothing ties a descriptor number in a     *)
(* snapshot to the connection it stood for when the snapshot was taken.    *)

HbTop ==
    /\ hbPc = "top"
    /\ hbPc' = IF stopping THEN "exited" ELSE "ping"
    /\ hbTodo' = IF stopping THEN {} ELSE Registered
    /\ UNCHANGED <<netVars, nodes, mainVars, acceptVars, hbVictim, reaped, loopVars, poolVars>>

HbPing(f) ==
    /\ hbPc = "ping" /\ f \in hbTodo
    /\ SendPing(f)
    /\ hbTodo' = hbTodo \ {f}
    /\ UNCHANGED <<fdTable, listening, backlog, shut, peer, inbox, sent, nodes, mainVars,
                   acceptVars, hbPc, hbVictim, reaped, loopVars, poolVars>>

\* Mutant: nobody is ever too old.
HbSnapshotNobody ==
    /\ hbPc = "ping" /\ hbTodo = {}
    /\ hbPc' = "reap" /\ hbTodo' = {}
    /\ UNCHANGED <<netVars, nodes, mainVars, acceptVars, hbVictim, reaped, loopVars, poolVars>>

\* `now` and lastSeen are both of the past when the loop body runs.
HbSnapshot ==
    /\ hbPc = "ping" /\ hbTodo = {}
    /\ hbPc' = "reap"
    /\ hbTodo' = {f \in Registered : nodes[f].expired}
    /\ UNCHANGED <<netVars, nodes, mainVars, acceptVars, hbVictim, reaped, loopVars, poolVars>>

HbErase(f) ==
    /\ hbPc = "reap" /\ f \in hbTodo
    /\ Erase(f)
    /\ hbTodo' = hbTodo \ {f}
    /\ hbVictim' = f /\ reaped' = TRUE
    /\ hbPc' = "shut"
    /\ UNCHANGED <<netVars, mainVars, acceptVars, loopVars, poolVars>>

HbShut ==
    /\ hbPc = "shut"
    /\ ShutdownFd(hbVictim)
    /\ hbPc' = "close"
    /\ UNCHANGED <<fdTable, listening, backlog, peerVars, nodes, mainVars, acceptVars,
                   hbTodo, hbVictim, reaped, loopVars, poolVars>>

HbClose ==
    /\ hbPc = "close"
    /\ CloseFd(hbVictim)
    /\ hbPc' = "reap"
    /\ hbVictim' = None
    /\ UNCHANGED <<listening, backlog, peerVars, nodes, mainVars, acceptVars,
                   hbTodo, reaped, loopVars, poolVars>>

HbSleep ==
    /\ hbPc = "reap" /\ hbTodo = {}
    /\ hbPc' = "top"
    /\ UNCHANGED <<netVars, nodes, mainVars, acceptVars, hbTodo, hbVictim, reaped, loopVars,
                   poolVars>>

HbStep ==
    \/ HbTop \/ HbSnapshot \/ HbShut \/ HbClose \/ HbSleep
    \/ \E f \in Fd : HbPing(f) \/ HbErase(f)

-----------------------------------------------------------------------------
(* The workers of pool_ and the message handler they run.                  *)

PoolTake(w) ==
    /\ job[w] = None /\ queue # <<>>
    /\ job' = [job EXCEPT ![w] = Head(queue)]
    /\ queue' = Tail(queue)
    /\ UNCHANGED <<netVars, nodes, mainVars, acceptVars, hbVars, loopVars>>

PoolRun(w) ==
    /\ job[w] # None
    /\ Update(job[w].id, job[w].from, job[w].msg)
    /\ job' = [job EXCEPT ![w] = None]
    /\ UNCHANGED <<netVars, mainVars, acceptVars, hbVars, loopVars, queue>>

PoolStep(w) == PoolTake(w) \/ PoolRun(w)

-----------------------------------------------------------------------------
Environment ==
    \/ Peers /\ UNCHANGED <<nodes, mainVars, acceptVars, hbVars, loopVars, poolVars>>
    \/ \E f \in Fd :
          /\ "timeout" \in Events /\ mainPc # "destroyed"
          /\ Expire(f)
          /\ UNCHANGED <<netVars, mainVars, acceptVars, hbVars, loopVars, poolVars>>

Server ==
    \/ StartServer \/ StartFails \/ StopServer \/ MainStep
    \/ AcceptStep \/ AcceptFail \/ HbStep
    \/ \E c \in Conn : LoopStep(c)
    \/ \E w \in Worker : PoolStep(w)

Terminated == mainPc = "destroyed" /\ UNCHANGED vars

Next == Environment \/ Server \/ Terminated

(* Threads are scheduled: each goes on when it can.  The peers, the clock, *)
(* the signal that stops the master and transient accept() errors owe      *)
(* nothing.                                                                *)
Fairness ==
    /\ WF_vars(MainStep) /\ WF_vars(AcceptStep) /\ WF_vars(HbStep)
    /\ \A c \in Conn : WF_vars(LoopStep(c))
    /\ \A w \in Worker : WF_vars(PoolStep(w))

SafetySpec == Init /\ [][Next]_vars
Spec == SafetySpec /\ Fairness

-----------------------------------------------------------------------------
(* Properties                                                              *)

\* connectionLoop c has not begun its clean-up / has not ended.
Serving(c) == loop[c] \in {"top", "recv", "blocked", "handoff", "erase"}
Live(c) == loop[c] \notin {"none", "exited"}

\* acceptLoop tests size() and inserts in two critical sections of the
\* registry, and ignores what insert returns: the test still holds when the
\* insertion happens, whatever the other threads did in between.
InsertNeverRefused == acceptPc = "insert" => Cardinality(Registered) < MaxNodes

\* Every entry of the registry has a connection loop that is going to erase
\* it (or is about to be given one): no thread leaves an entry behind, and
\* no late message of the pool brings an erased one back.
NoOrphanEntry ==
    \A f \in Registered :
        LET c == nodes[f].owner
        IN  \/ acceptPc = "spawn" /\ acceptConn = c /\ acceptFd = f
            \/ Serving(c) /\ id[c] = f

\* An open descriptor has a thread that is going to close it: the accept
\* thread that has just received it or the loop of its connection.
NoDescriptorLeak ==
    \A f \in Fd :
        LET c == fdTable[f]
        IN  c # None =>
              \/ acceptPc \in {"check", "insert", "spawn"} /\ acceptConn = c /\ acceptFd = f
              \/ Live(c) /\ id[c] = f

\* As long as the heartbeat has removed nobody, descriptor numbers are not
\* confused: the loop of a connection acts on the socket of that connection
\* and its registry entry is the one inserted for it, through reuse of the
\* number by earlier and later connections and with the pool running late.
OwnershipUntilReap ==
    ~reaped =>
        \A c \in Conn :
            /\ Live(c) => fdTable[id[c]] = c
            /\ loop[c] \in {"blocked", "handoff"} => reading[c] = c
            /\ Serving(c) => nodes[id[c]] # None /\ nodes[id[c]].owner = c

\* stop() joins the accept thread and the heartbeat thread: both see that
\* they have to end, the one that is blocked in accept() included.
StopReturns == (mainPc = "teardown") ~> (mainPc = "destroyed")

\* connectionLoop: once a peer has gone, the descriptor of its connection
\* is released, whatever else was going on with the number.
PeerGoneReleased ==
    \A c \in Conn, f \in Fd :
        (peer[c] = "gone" /\ fdTable[f] = c) ~> (fdTable[f] # c \/ mainPc = "destroyed")

\* heartbeatLoop: an entry whose lastSeen is too old is removed, refreshed
\* or replaced while the master is running.
SilentReaped ==
    \A c \in Conn, f \in Fd :
        (nodes[f] # None /\ nodes[f].owner = c /\ nodes[f].expired)
            ~> (nodes[f] = None \/ nodes[f].owner # c \/ ~nodes[f].expired \/ stopping)

-----------------------------------------------------------------------------
(* What the registry is, seen from outside.                                *)

Members == {nodes[f].owner : f \in Registered}
HasEntered(c) == loop[c] # "none" \/ (acceptPc = "spawn" /\ acceptConn = c)

\* acceptLoop, the connection loops, the heartbeat and the pool together: each
\* connection is registered once at most, never again after it was removed,
\* and within the limit; before the heartbeat has removed anybody, no entry
\* that is inserted takes the place of another one.
Membership == INSTANCE Membership WITH
    Candidate <- Conn,
    Limit     <- MaxNodes,
    members   <- Members,
    entered   <- {c \in Conn : HasEntered(c)},
    disturbed <- reaped

ImplementsMembership == Membership!MemberSpec

-----------------------------------------------------------------------------
(* What comments of the code say and the code does not do.                 *)

\* MasterServer.cpp:184: the entry of a connection has "empty specs; will be
\* filled after RESOURCE_REPORT", a report that its own peer sends.
EntryDescribesItsNode ==
    \A f \in Registered : nodes[f].specs \in {None, nodes[f].owner}

\* MasterServer.cpp:146: "actual Connection instances are owned per-connection
\* loops": a loop shuts down and closes the socket of its own connection.
LoopOwnsItsSocket ==
    \A c \in Conn : loop[c] \in {"shut", "close"} => fdTable[id[c]] \in {None, c}

=============================================================================
