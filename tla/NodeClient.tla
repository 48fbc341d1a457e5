----------------------------- MODULE NodeClient -----------------------------
(***************************************************************************)
(* The node program: Linux/Node.cpp with network/NodeClient.cpp.  A node   *)
(* is known by the connection it opens.  It dials, sends its report,       *)
(* answers PINGs for a window of 500 ms, and exits.                        *)
(*                                                                         *)
(* The branches for SHUTDOWN and for other messages of the master are left *)
(* out: no code of the repository sends them.  Reading a PING and sending  *)
(* the PONG is one action, since nothing the two ends share is looked at   *)
(* in between.                                                             *)
(***************************************************************************)
EXTENDS Sockets

CONSTANT Flaky   \* the nodes that may fail to dial, be held up for the whole of
                 \* their window, or crash in the handshake

VARIABLES
    nodePc,      \* where main() of each node is; "succeeded" and "failed" are what
                 \* sendSpecsAndAwaitConfig has returned
    windowOver   \* more than 500 ms have passed since the report was sent

clientVars == <<nodePc, windowOver>>

InHandshake == {"report", "recv"}

ClientTypeOK ==
    /\ nodePc \in [Conn -> {"idle", "succeeded", "failed", "exited"} \cup InHandshake]
    /\ windowOver \in [Conn -> BOOLEAN]

ClientInit ==
    /\ nodePc = [c \in Conn |-> "idle"]
    /\ windowOver = [c \in Conn |-> FALSE]

NodeGoto(c, pc) == nodePc' = [nodePc EXCEPT ![c] = pc] /\ UNCHANGED windowOver

\* The master's end of an established connection is no more: it was closed,
\* or the listener went before it was accepted.
Ended(c) ==
    /\ peer[c] = "open"
    /\ c \in shut \/ (c \notin backlog /\ \A f \in Fd : fdTable[f] # c)

-----------------------------------------------------------------------------
(* `over` says that the process of the master has ended.                   *)

NodeConnect(c) ==
    /\ nodePc[c] = "idle"
    /\ PeerConnect(c)
    /\ NodeGoto(c, "report")

Gone(c) ==
    /\ nodePc' = [nodePc EXCEPT ![c] = "exited"]
    /\ windowOver' = [windowOver EXCEPT ![c] = FALSE]

\* The name does not resolve, or connect() fails: dialTcpIPv4 closes the socket
\* that was never connected, connect() returns false and main 2.
NodeDialFails(c) ==
    /\ c \in Flaky /\ nodePc[c] = "idle"
    /\ Gone(c)
    /\ UNCHANGED netVars

\* The window begins when the report has been sent; a node that is held up
\* until it is over leaves at the first look.
FirstLook(c) ==
    \/ NodeGoto(c, "recv")
    \/ c \in Flaky /\ NodeGoto(c, "succeeded")

\* A send() to an end that is no more may still be accepted by the kernel.
NodeReport(c, over) ==
    /\ nodePc[c] = "report"
    /\ \/ PeerSend(c, "REPORT") /\ FirstLook(c)
       \/ /\ over \/ Ended(c)
          /\ UNCHANGED netVars
          /\ FirstLook(c) \/ NodeGoto(c, "failed")

\* The head of the loop: the clock is looked at before each recvMessage, and
\* nowhere else.
AfterLook(c) == IF windowOver[c] THEN "succeeded" ELSE "recv"

\* Bound: the PINGs that come before the window is over leave room for one
\* more frame, the answer to the PING that ends the handshake.
RoomToAnswer(c) == windowOver[c] \/ sent[c] + 1 < MaxMsgs

\* Mutant: a PONG whether there was a PING or not.
NodePongUnasked(c) ==
    /\ nodePc[c] = "recv"
    /\ RoomToAnswer(c) /\ PeerSend(c, "PONG")
    /\ NodeGoto(c, AfterLook(c))

\* Mutant: the next frame is awaited without a look at the clock.
NodePingNoLook(c) ==
    /\ nodePc[c] = "recv"
    /\ RoomToAnswer(c) /\ PeerPong(c)
    /\ NodeGoto(c, "recv")

\* recvMessage returns a PING; what sendMessage returns is ignored.  A PING
\* read after the connection has ended cannot be answered: it changes nothing
\* but the turn in which the end is noticed.
NodePing(c) ==
    /\ nodePc[c] = "recv"
    /\ RoomToAnswer(c) /\ PeerPong(c)
    /\ NodeGoto(c, AfterLook(c))

\* Mutant: a false from recvMessage is taken for no message yet.
NodeRecvRetries(c, over) ==
    /\ nodePc[c] = "recv"
    /\ over \/ Ended(c)
    /\ NodeGoto(c, "recv")
    /\ UNCHANGED netVars

\* recvMessage returns false: end of file, or a reset.
NodeRecvFails(c, over) ==
    /\ nodePc[c] = "recv"
    /\ over \/ Ended(c)
    /\ NodeGoto(c, "succeeded")
    /\ UNCHANGED netVars

\* main returns and ~NodeClient closes the socket.  Closing it with a PING
\* unread resets the connection.
NodeExit(c) ==
    /\ nodePc[c] \in {"succeeded", "failed"}
    /\ Gone(c)
    /\ IF c \in shut THEN UNCHANGED netVars
       ELSE PeerLeave(c) /\ (c \in pinged \/ inbox' = inbox)

NodeCrash(c) ==
    /\ c \in Flaky /\ nodePc[c] \in InHandshake
    /\ Gone(c)
    /\ IF c \in shut THEN UNCHANGED netVars ELSE PeerLeave(c)

NodeStep(c, over) ==
    \/ NodeReport(c, over) \/ NodePing(c)
    \/ NodeRecvFails(c, over) \/ NodeExit(c)

\* steady_clock passes start + 500 ms.
WindowCloses(c) ==
    /\ nodePc[c] = "recv" /\ ~windowOver[c]
    /\ windowOver' = [windowOver EXCEPT ![c] = TRUE]
    /\ UNCHANGED <<netVars, nodePc>>

=============================================================================
