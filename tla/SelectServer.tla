---------------------------- MODULE SelectServer ----------------------------
(***************************************************************************)
(* The stand-alone server Examples/Linux/SocketServer.cpp with its clients,*)
(* SocketClient.cpp beside it.  The server is one thread around select():  *)
(* it accepts, greets each client that finds a free slot, and answers every*)
(* read with one reply.  A client sends a line and waits for whatever comes*)
(* next.  Examples/Windows/ holds the same two programs, on a socket library*)
(* without SIGPIPE.                                                        *)
(*                                                                         *)
(* Bytes on their way are counted in pieces and in replies.  A line is one *)
(* piece, or several when it is longer than the 256 bytes of one recv() or *)
(* the network has cut it up; one recv() returns one piece or more.  The   *)
(* descriptor 0 is standard input and marks an empty slot, in the code too.*)
(***************************************************************************)
EXTENDS Naturals, FiniteSets

CONSTANTS Client,    \* the client processes; each connects at most once
          nSocket,   \* the listening descriptor
          Fd,        \* the descriptor numbers accept() may return
          Slots,     \* the length of nArrClient, 8 in the code
          Lengths,   \* Client -> the lengths of its lines, in pieces; 0 is
                     \* an empty line, of which send() sends nothing
          MaxLines,  \* bound: how many lines each client sends
          Killable,  \* the clients that may be killed; the others type "quit"
          None

ASSUME SelectAssumption ==
    /\ nSocket \in Nat \ {0}
    /\ Fd \subseteq Nat \ (0..nSocket)
    /\ Slots \in Nat
    /\ IsFiniteSet(Client) /\ IsFiniteSet(Fd) /\ Cardinality(Fd) >= Cardinality(Client)
    /\ Lengths \in [Client -> SUBSET Nat]
    /\ MaxLines \in [Client -> Nat]
    /\ Killable \subseteq Client
    /\ None \notin Client

VARIABLES
    pc,          \* the server: the call of main() or ProcessTheNewRequest() it is at
    nArrClient,  \* slot -> descriptor, or 0
    nMaxFd,
    fr,          \* the descriptors select() has found readable
    nIndex,      \* the slot ProcessTheNewRequest() is at
    fdTable,     \* Fd -> the client at the other end, or None
    backlog,     \* clients connected and not yet accepted
    clientPc,    \* "quit" and "killed" are the two ways a client ends
    lines,       \* Client -> lines sent
    toServer,    \* Client -> pieces under way
    toClient,    \* Client -> greetings and replies under way
    reset,       \* clients whose system has answered with a reset
    refused,     \* history: accepted when no slot was free
    long         \* history: sent a line of several pieces

serverVars == <<pc, nArrClient, nMaxFd, fr, nIndex, fdTable, refused>>
clientVars == <<clientPc, lines, long>>
wireVars == <<backlog, toServer, toClient, reset>>
vars == <<serverVars, clientVars, wireVars>>

Index == 1..Slots
Number == Fd \cup {0}
Ended == {"quit", "killed"}

TypeOK ==
    /\ pc \in {"select", "accept", "scan", "reply", "dead"}
    /\ nArrClient \in [Index -> Number]
    /\ nMaxFd \in Fd \cup {nSocket}
    /\ fr \subseteq Fd \cup {nSocket}
    /\ nIndex \in 1..(Slots + 1)
    /\ fdTable \in [Fd -> Client \cup {None}]
    /\ backlog \subseteq Client
    /\ clientPc \in [Client -> {"away", "typing", "waiting"} \cup Ended]
    /\ lines \in [Client -> Nat] /\ \A c \in Client : lines[c] <= MaxLines[c]
    /\ toServer \in [Client -> Nat] /\ toClient \in [Client -> Nat]
    /\ reset \subseteq Client /\ refused \subseteq Client /\ long \subseteq Client

Init ==
    /\ pc = "select"
    /\ nArrClient = [i \in Index |-> 0]
    /\ nMaxFd = nSocket /\ fr = {} /\ nIndex = 1
    /\ fdTable = [f \in Fd |-> None]
    /\ backlog = {} /\ reset = {} /\ refused = {} /\ long = {}
    /\ clientPc = [c \in Client |-> "away"]
    /\ lines = [c \in Client |-> 0]
    /\ toServer = [c \in Client |-> 0] /\ toClient = [c \in Client |-> 0]

-----------------------------------------------------------------------------
(* The system calls of the server.                                         *)

\* recv() on this descriptor returns at once: data, end of file or an error.
Readable(f) ==
    /\ f \in Fd /\ fdTable[f] # None
    /\ toServer[fdTable[f]] > 0 \/ clientPc[fdTable[f]] \in Ended

\* What main() puts into fr, as far as select(nMaxFd + 1) looks.
Watched == {nSocket} \cup ({nArrClient[i] : i \in Index} \ {0})
Ready ==
    {f \in Watched : f <= nMaxFd /\ IF f = nSocket THEN backlog # {} ELSE Readable(f)}

\* send() without MSG_NOSIGNAL.  The first one to a client that has gone is
\* answered with a reset; after that send() returns an error, or the signal
\* SIGPIPE ends the server.
Send(c, next) ==
    \/ /\ clientPc[c] \notin Ended
       /\ toClient' = [toClient EXCEPT ![c] = @ + 1]
       /\ pc' = next /\ UNCHANGED reset
    \/ /\ clientPc[c] \in Ended /\ c \notin reset
       /\ reset' = reset \cup {c}
       /\ pc' = next /\ UNCHANGED toClient
    \/ /\ c \in reset
       /\ pc' \in {next, "dead"}
       /\ UNCHANGED <<toClient, reset>>

-----------------------------------------------------------------------------
(* main().                                                                 *)

Select ==
    /\ pc = "select" /\ Ready # {}
    /\ fr' = Ready
    /\ nIndex' = 1
    /\ pc' = IF nSocket \in Ready THEN "accept" ELSE "scan"
    /\ UNCHANGED <<nArrClient, nMaxFd, fdTable, refused, clientVars, wireVars>>

\* select() returns 0 and the loop goes round.
TimeOut == pc = "select" /\ Ready = {} /\ UNCHANGED vars

-----------------------------------------------------------------------------
(* ProcessTheNewRequest(): the new client.                                 *)

\* accept(), up to the descriptor; f is the lowest free number.
Accepted(c, f) ==
    /\ pc = "accept" /\ c \in backlog
    /\ fdTable[f] = None /\ \A g \in Fd : fdTable[g] = None => f <= g
    /\ fdTable' = [fdTable EXCEPT ![f] = c]
    /\ backlog' = backlog \ {c}

FirstFree(i) == nArrClient[i] = 0 /\ \A j \in 1..(i - 1) : nArrClient[j] # 0

\* Mutant: nMaxFd follows the last client instead of the highest number.
ServeLast(c, f, i) ==
    /\ Accepted(c, f) /\ FirstFree(i)
    /\ nMaxFd' = f
    /\ nArrClient' = [nArrClient EXCEPT ![i] = f]
    /\ Send(c, "scan")
    /\ UNCHANGED <<fr, nIndex, refused, clientVars, toServer>>

\* Mutant: the new client is put into the set that select() has filled.
ServeInSet(c, f, i) ==
    /\ Accepted(c, f) /\ FirstFree(i)
    /\ nMaxFd' = IF f > nMaxFd THEN f ELSE nMaxFd
    /\ nArrClient' = [nArrClient EXCEPT ![i] = f]
    /\ fr' = fr \cup {f}
    /\ Send(c, "scan")
    /\ UNCHANGED <<nIndex, refused, clientVars, toServer>>

Serve(c, f, i) ==
    /\ Accepted(c, f) /\ FirstFree(i)
    /\ nMaxFd' = IF f > nMaxFd THEN f ELSE nMaxFd
    /\ nArrClient' = [nArrClient EXCEPT ![i] = f]
    /\ Send(c, "scan")
    /\ UNCHANGED <<fr, nIndex, refused, clientVars, toServer>>

\* Mutant: the loop over the slots is left unchecked, and the store goes past
\* the end of the array.
RefusePastEnd(c, f) ==
    /\ Accepted(c, f) /\ \A i \in Index : nArrClient[i] # 0
    /\ nMaxFd' = IF f > nMaxFd THEN f ELSE nMaxFd
    /\ nArrClient' = [i \in 1..(Slots + 1) |-> IF i \in Index THEN nArrClient[i] ELSE f]
    /\ refused' = refused \cup {c}
    /\ pc' = "scan"
    /\ UNCHANGED <<fr, nIndex, clientVars, toServer, toClient, reset>>

\* "No space for a new connection": the descriptor stays open.
Refuse(c, f) ==
    /\ Accepted(c, f) /\ \A i \in Index : nArrClient[i] # 0
    /\ nMaxFd' = IF f > nMaxFd THEN f ELSE nMaxFd
    /\ refused' = refused \cup {c}
    /\ pc' = "scan"
    /\ UNCHANGED <<nArrClient, fr, nIndex, clientVars, toServer, toClient, reset>>

\* accept() returns -1, whatever the reason, and the client stays where it is.
AcceptFails ==
    /\ pc = "accept"
    /\ pc' = "scan"
    /\ UNCHANGED <<nArrClient, nMaxFd, fr, nIndex, fdTable, refused, clientVars, wireVars>>

-----------------------------------------------------------------------------
(* ProcessTheNewRequest(): the slots, each readable one through            *)
(* ProcessNewMessage().                                                    *)

\* The next slot whose descriptor is in fr.
Turn(i) ==
    /\ pc = "scan" /\ i >= nIndex
    /\ nArrClient[i] \in fr
    /\ \A j \in nIndex..(i - 1) : nArrClient[j] \notin fr

PeerAt(i) == fdTable[nArrClient[i]]

Receive(i) ==
    /\ Turn(i) /\ toServer[PeerAt(i)] > 0
    /\ \E n \in 1..toServer[PeerAt(i)] :
          toServer' = [toServer EXCEPT ![PeerAt(i)] = @ - n]
    /\ nIndex' = i /\ pc' = "reply"
    /\ UNCHANGED <<nArrClient, nMaxFd, fr, fdTable, refused, clientVars,
                   backlog, toClient, reset>>

Reply ==
    /\ pc = "reply"
    /\ Send(PeerAt(nIndex), "scan")
    /\ nIndex' = nIndex + 1
    /\ UNCHANGED <<nArrClient, nMaxFd, fr, fdTable, refused, clientVars,
                   backlog, toServer>>

Over(c) == clientPc[c] \in Ended /\ (toServer[c] = 0 \/ c \in reset)

\* close(): the number is free, and what was under way is lost.
Close(c, f) ==
    /\ fdTable' = [fdTable EXCEPT ![f] = None]
    /\ toServer' = [toServer EXCEPT ![c] = 0]
    /\ reset' = reset \ {c}

\* Mutant: the slot of a client that has gone is not given back.
DropKeepsSlot(i) ==
    /\ Turn(i) /\ Over(PeerAt(i))
    /\ Close(PeerAt(i), nArrClient[i])
    /\ nIndex' = i + 1
    /\ UNCHANGED <<pc, nArrClient, nMaxFd, fr, refused, clientVars, backlog, toClient>>

\* recv() returns 0 or an error: close(), and the first slot with that
\* descriptor is free.
Drop(i) ==
    /\ Turn(i) /\ Over(PeerAt(i))
    /\ Close(PeerAt(i), nArrClient[i])
    /\ \E k \in Index :
          /\ nArrClient[k] = nArrClient[i]
          /\ \A j \in 1..(k - 1) : nArrClient[j] # nArrClient[i]
          /\ nArrClient' = [nArrClient EXCEPT ![k] = 0]
    /\ nIndex' = i + 1
    /\ UNCHANGED <<pc, nMaxFd, fr, refused, clientVars, backlog, toClient>>

\* fr and nIndex are set anew before they are read again.
EndOfScan ==
    /\ pc = "scan"
    /\ \A i \in nIndex..Slots : nArrClient[i] \notin fr
    /\ pc' = "select" /\ fr' = {} /\ nIndex' = 1
    /\ UNCHANGED <<nArrClient, nMaxFd, fdTable, refused, clientVars, wireVars>>

ServerStep ==
    \/ Select \/ Reply \/ EndOfScan
    \/ \E c \in Client, f \in Fd : Refuse(c, f) \/ \E i \in Index : Serve(c, f, i)
    \/ \E i \in Index : Receive(i) \/ Drop(i)

-----------------------------------------------------------------------------
(* The clients.                                                            *)

Become(c, state) == clientPc' = [clientPc EXCEPT ![c] = state]

Connect(c) ==
    /\ clientPc[c] = "away"
    /\ Become(c, "typing")
    /\ backlog' = backlog \cup {c}
    /\ UNCHANGED <<serverVars, lines, long, toServer, toClient, reset>>

SendLine(c) ==
    /\ clientPc[c] = "typing" /\ lines[c] < MaxLines[c]
    /\ Become(c, "waiting")
    /\ lines' = [lines EXCEPT ![c] = @ + 1]
    /\ \E n \in Lengths[c] :
          /\ toServer' = [toServer EXCEPT ![c] = @ + n]
          /\ long' = IF n > 1 THEN long \cup {c} ELSE long
    /\ UNCHANGED <<serverVars, backlog, toClient, reset>>

\* recv() returns what has come, as much of it as it likes.
ReceiveReply(c) ==
    /\ clientPc[c] = "waiting" /\ toClient[c] > 0
    /\ \E n \in 1..toClient[c] : toClient' = [toClient EXCEPT ![c] = @ - n]
    /\ Become(c, "typing")
    /\ UNCHANGED <<serverVars, lines, long, backlog, toServer, reset>>

\* close() with something unread is answered with a reset at once.
Leave(c, state) ==
    /\ Become(c, state)
    /\ reset' = IF toClient[c] > 0 THEN reset \cup {c} ELSE reset
    /\ toClient' = [toClient EXCEPT ![c] = 0]
    /\ UNCHANGED <<serverVars, lines, long, backlog, toServer>>

\* Mutant: the user may quit without waiting for the reply.
QuitAnyTime(c) == clientPc[c] \in {"typing", "waiting"} /\ Leave(c, "quit")

Quit(c) == clientPc[c] = "typing" /\ Leave(c, "quit")

KillClient(c) ==
    c \in Killable /\ clientPc[c] \in {"typing", "waiting"} /\ Leave(c, "killed")

\* The clients are not followed beyond the end of the server.
ClientStep(c) ==
    /\ pc # "dead"
    /\ Connect(c) \/ SendLine(c) \/ ReceiveReply(c) \/ Quit(c) \/ KillClient(c)

-----------------------------------------------------------------------------
ServerDead == pc = "dead" /\ UNCHANGED vars

Next == ServerStep \/ AcceptFails \/ TimeOut \/ ServerDead \/ \E c \in Client : ClientStep(c)

\* The server is scheduled, and so is a client whose recv() has returned;
\* accept() need not fail.
Fairness ==
    /\ WF_vars(ServerStep)
    /\ \A c \in Client : WF_vars(pc # "dead" /\ ReceiveReply(c))

SafetySpec == Init /\ [][Next]_vars
Spec == SafetySpec /\ Fairness

-----------------------------------------------------------------------------
(* Properties                                                              *)

\* The three records of who is served agree, through every reuse of numbers:
\* a used slot holds an open descriptor that select() looks at, no two slots
\* the same; an open descriptor has a slot unless its client was refused.
SlotsMatchSockets ==
    /\ \A i \in Index : nArrClient[i] # 0 =>
          /\ nArrClient[i] <= nMaxFd
          /\ fdTable[nArrClient[i]] \notin refused \cup {None}
          /\ \A j \in Index : nArrClient[i] = nArrClient[j] => i = j
    /\ \A f \in Fd : fdTable[f] # None =>
          \/ fdTable[f] \in refused
          \/ \E i \in Index : nArrClient[i] = f

\* The thread that serves everybody is never blocked in the recv() of
\* ProcessNewMessage(): what select() has reported is still true when its
\* turn comes, after an accept and after other slots have been dropped.
NeverBlocksInRecv == \A i \in Index : Turn(i) => Readable(nArrClient[i])

\* Clients whose lines arrive whole and that quit only when they have been
\* answered cannot bring SIGPIPE on the server, although their replies lag
\* one behind, because of the greeting.
OrderlyClientsHarmless == pc = "dead" => long # {} \/ \E c \in Client : clientPc[c] = "killed"

Served(c) == \E i \in Index : nArrClient[i] # 0 /\ fdTable[nArrClient[i]] = c

\* SocketClient.cpp, "Receive reply": a client that has a slot is answered,
\* whatever the others do, unless it has sent an empty line: with that it may
\* wait for a reply that nobody owes it.
ServedClientAnswered ==
    \A c \in Client :
        (Served(c) /\ clientPc[c] = "waiting" /\ 0 \notin Lengths[c])
            ~> (clientPc[c] # "waiting" \/ pc = "dead")

\* A served client that has gone gives its slot and descriptor back.
GoneClientReleased ==
    \A c \in Client :
        (Served(c) /\ clientPc[c] \in Ended) ~> (~Served(c) \/ pc = "dead")

=============================================================================
