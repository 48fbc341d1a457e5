------------------------------ MODULE Sockets -------------------------------
(***************************************************************************)
(* What the operating system and the peers do with the sockets of the      *)
(* master: the descriptor table, the listen queue, the bytes that have     *)
(* arrived (one element per protocol frame) and the peers that connect,    *)
(* send, answer PINGs and go away.  None of it is code of the repository;  *)
(* it is modelled from how network/MasterServer.cpp and                    *)
(* network/net/Connection.hpp use it.                                      *)
(*                                                                         *)
(* A descriptor is a number that is free again as soon as it is closed,    *)
(* and accept() returns the lowest free one: the same number may stand for *)
(* several connections, one after the other.                               *)
(***************************************************************************)
EXTENDS Naturals, Sequences, FiniteSets

CONSTANTS Conn,     \* the connections that peers may open, each at most once
          Fd,       \* the descriptor numbers accept() may return
          None,     \* no connection, no descriptor, no entry
          Unasked,  \* the frames a peer may send of its own accord
          MaxMsgs   \* bound: how many frames a peer sends on one connection

\* REPORT and PONG change the registry, a frame of length zero ends the
\* connection; every other frame is OTHER.
Message == {"REPORT", "PONG", "OTHER", "EMPTY"}

ASSUME SocketAssumption ==
    /\ Fd \subseteq Nat
    /\ None \notin Conn /\ None \notin Fd /\ None \notin Message
    /\ Unasked \subseteq Message
    /\ MaxMsgs \in Nat

VARIABLES
    fdTable,    \* Fd -> the connection the descriptor is open on, or None
    listening,  \* the listening socket is open
    backlog,    \* connections established and not yet accepted
    shut,       \* connections the master has shut down or closed
    peer,       \* Conn -> "away", "open" or "gone" at the other end
    inbox,      \* Conn -> frames received and not yet read
    sent,       \* Conn -> how many frames the peer has sent
    pinged      \* connections whose peer has a PING to answer

netVars == <<fdTable, listening, backlog, shut, peer, inbox, sent, pinged>>
peerVars == <<peer, inbox, sent, pinged>>

NetTypeOK ==
    /\ fdTable \in [Fd -> Conn \cup {None}]
    /\ listening \in BOOLEAN
    /\ backlog \subseteq Conn
    /\ shut \subseteq Conn
    /\ peer \in [Conn -> {"away", "open", "gone"}]
    /\ inbox \in [Conn -> Seq(Message)]
    /\ sent \in [Conn -> 0..MaxMsgs]
    /\ pinged \subseteq Conn

NetInit ==
    /\ fdTable = [f \in Fd |-> None]
    /\ listening = FALSE
    /\ backlog = {} /\ shut = {} /\ pinged = {}
    /\ peer = [c \in Conn |-> "away"]
    /\ inbox = [c \in Conn |-> <<>>]
    /\ sent = [c \in Conn |-> 0]

-----------------------------------------------------------------------------
(* The peers.                                                              *)

PeerConnect(c) ==
    /\ listening
    /\ peer[c] = "away"
    /\ peer' = [peer EXCEPT ![c] = "open"]
    /\ backlog' = backlog \cup {c}
    /\ UNCHANGED <<fdTable, listening, shut, inbox, sent, pinged>>

PeerSend(c, m) ==
    /\ peer[c] = "open" /\ c \notin shut
    /\ sent[c] < MaxMsgs
    /\ sent' = [sent EXCEPT ![c] = @ + 1]
    /\ inbox' = [inbox EXCEPT ![c] = Append(@, m)]
    /\ UNCHANGED <<fdTable, listening, backlog, shut, peer, pinged>>

PeerPong(c) ==
    /\ peer[c] = "open" /\ c \notin shut
    /\ c \in pinged /\ sent[c] < MaxMsgs
    /\ pinged' = pinged \ {c}
    /\ sent' = [sent EXCEPT ![c] = @ + 1]
    /\ inbox' = [inbox EXCEPT ![c] = Append(@, "PONG")]
    /\ UNCHANGED <<fdTable, listening, backlog, shut, peer>>

\* The peer closes, or crashes and its reset discards what was not read.
\* What it does once the master has ended the connection no longer matters.
PeerLeave(c) ==
    /\ peer[c] = "open" /\ c \notin shut
    /\ peer' = [peer EXCEPT ![c] = "gone"]
    /\ \/ inbox' = inbox
       \/ inbox' = [inbox EXCEPT ![c] = <<>>]
    /\ pinged' = pinged \ {c}
    /\ UNCHANGED <<fdTable, listening, backlog, shut, sent>>

Peers ==
    \E c \in Conn :
        \/ PeerConnect(c)
        \/ \E m \in Unasked : PeerSend(c, m)
        \/ PeerPong(c)
        \/ PeerLeave(c)

-----------------------------------------------------------------------------
(* System calls, by descriptor number.                                     *)

LowestFree(f) == fdTable[f] = None /\ \A g \in Fd : fdTable[g] = None => f <= g

\* recv() on connection e has nothing more to deliver.
AtEof(e) == inbox[e] = <<>> /\ (peer[e] = "gone" \/ e \in shut)

\* ::shutdown(f, SHUT_RDWR): wakes whoever is blocked in recv() on it.
ShutdownFd(f) == shut' = IF fdTable[f] = None THEN shut ELSE shut \cup {fdTable[f]}

\* ::close(f): the number is free and its connection, if any, has ended;
\* every caller ignores EBADF.
CloseFd(f) == fdTable' = [fdTable EXCEPT ![f] = None] /\ ShutdownFd(f)

\* ::send(f, PING): reaches the peer if the descriptor is open on it.  PINGs
\* that wait together at a peer count as one.  The call would block, and the
\* heartbeat with it, on a full send buffer; buffers are taken to be larger
\* than the PINGs that a peer leaves unread.
SendPing(f) ==
    pinged' = IF fdTable[f] = None THEN pinged
              ELSE pinged \cup ({fdTable[f]} \cap {c \in Conn : peer[c] = "open" /\ c \notin shut})

=============================================================================
