--------------------------- MODULE ClusterProofs ----------------------------
(* The nodes keep to what MasterServer assumes of its peers, so what is    *)
(* proved of MasterServer holds of the master with its nodes.              *)
EXTENDS Cluster, MasterServerProofs

LEMMA NodeStepsArePeers ==
    ASSUME NEW c \in Conn, NodeSide(c)
    PROVE  Next \/ UNCHANGED vars
<1> USE ClusterAssumption
<1>1. \/ PeerConnect(c) \/ PeerSend(c, "REPORT") \/ PeerPong(c) \/ PeerLeave(c)
      \/ UNCHANGED netVars
  <2>1. CASE NodeConnect(c)
    BY <2>1 DEF NodeConnect
  <2>2. CASE NodeReport(c, Over)
    BY <2>2 DEF NodeReport
  <2>3. CASE NodePing(c)
    BY <2>3 DEF NodePing
  <2>4. CASE NodeRecvFails(c, Over)
    BY <2>4 DEF NodeRecvFails
  <2>5. CASE NodeExit(c)
    BY <2>5 DEF NodeExit
  <2>6. CASE NodeCrash(c)
    BY <2>6 DEF NodeCrash
  <2>7. CASE WindowCloses(c)
    BY <2>7 DEF WindowCloses
  <2>8. CASE NodeDialFails(c)
    BY <2>8 DEF NodeDialFails
  <2> QED
    BY <2>1, <2>2, <2>3, <2>4, <2>5, <2>6, <2>7, <2>8 DEF NodeSide, NodeStep
<1>2. UNCHANGED <<nodes, mainVars, acceptVars, hbVars, loopVars, poolVars>>
  BY DEF NodeSide, MasterWaits
<1>3. CASE UNCHANGED netVars
  BY <1>2, <1>3 DEF vars
<1>4. CASE PeerConnect(c) \/ PeerSend(c, "REPORT") \/ PeerPong(c) \/ PeerLeave(c)
  <2>1. Peers
    BY <1>4 DEF Peers
  <2> QED
    BY <1>2, <2>1 DEF Next, Environment
<1> QED
  BY <1>1, <1>3, <1>4

LEMMA MasterSteps ==
    ASSUME MasterSide
    PROVE  Next
<1>1. CASE Server
  BY <1>1 DEF Next
<1>2. CASE ~Server
  BY <1>2 DEF MasterSide, Next, Environment, Over
<1> QED
  BY <1>1, <1>2

\* NodeClient.cpp against MasterServer.cpp: every behaviour of the master
\* with its nodes is one of MasterServer, for any number of nodes.
THEOREM PeersKept == ClusterSafety => NodesArePeers
<1>1. ClusterInit => Init
  BY DEF ClusterInit
<1>2. [ClusterNext]_clusterVars => [Next]_vars
  <2>1. SUFFICES ASSUME [ClusterNext]_clusterVars
                 PROVE  Next \/ UNCHANGED vars
    OBVIOUS
  <2>2. CASE UNCHANGED clusterVars
    BY <2>2 DEF clusterVars
  <2>3. CASE MasterSide
    BY <2>3, MasterSteps
  <2>4. CASE \E c \in Conn : NodeSide(c)
    BY <2>4, NodeStepsArePeers
  <2>5. CASE ClusterTerminated
    BY <2>5 DEF ClusterTerminated, clusterVars
  <2> QED
    BY <2>1, <2>2, <2>3, <2>4, <2>5 DEF ClusterNext
<1> QED
  BY <1>1, <1>2, PTL DEF ClusterSafety, NodesArePeers, SafetySpec

\* Every variable of the master with its nodes keeps its type.
THEOREM ClusterTypeCorrect == ClusterSafety => []ClusterTypeOK
<1>1. ClusterInit => ClientTypeOK
  BY DEF ClusterInit, ClientInit, ClientTypeOK
<1>2. ClientTypeOK /\ [ClusterNext]_clusterVars => ClientTypeOK'
  <2>1. SUFFICES ASSUME ClientTypeOK, [ClusterNext]_clusterVars
                 PROVE  ClientTypeOK'
    OBVIOUS
  <2>2. CASE UNCHANGED clientVars
    BY <2>1, <2>2 DEF ClientTypeOK, clientVars
  <2>3. ASSUME NEW c \in Conn, NodeSide(c)
        PROVE  ClientTypeOK'
    <3> USE <2>1 DEF ClientTypeOK, InHandshake
    <3>1. CASE NodeConnect(c)
      BY <3>1 DEF NodeConnect, NodeGoto
    <3>2. CASE NodeReport(c, Over)
      BY <3>2 DEF NodeReport, FirstLook, NodeGoto
    <3>3. CASE NodePing(c)
      BY <3>3 DEF NodePing, NodeGoto, AfterLook
    <3>4. CASE NodeRecvFails(c, Over)
      BY <3>4 DEF NodeRecvFails, NodeGoto
    <3>5. CASE NodeExit(c)
      BY <3>5 DEF NodeExit, Gone
    <3>6. CASE NodeCrash(c)
      BY <3>6 DEF NodeCrash, Gone
    <3>7. CASE WindowCloses(c)
      BY <3>7 DEF WindowCloses
    <3>8. CASE NodeDialFails(c)
      BY <3>8 DEF NodeDialFails, Gone
    <3> QED
      BY <2>3, <3>1, <3>2, <3>3, <3>4, <3>5, <3>6, <3>7, <3>8 DEF NodeSide, NodeStep
  <2> QED
    BY <2>1, <2>2, <2>3 DEF ClusterNext, MasterSide, ClusterTerminated, clusterVars
<1> QED
  BY <1>1, <1>2, PeersKept, Typing, PTL DEF ClusterSafety, NodesArePeers, ClusterTypeOK

\* With real nodes as its peers, the master leaves no entry and no open
\* descriptor without a thread that answers for it.
THEOREM ClusterOwnership == ClusterSafety => [](NoOrphanEntry /\ NoDescriptorLeak)
<1> QED
  BY PeersKept, NoOrphan, NoLeak, PTL DEF NodesArePeers

\* And what was proved of MasterServer otherwise: the registry as seen from
\* outside is Membership, descriptors are not confused before the heartbeat's
\* first removal, and stop() leaves nothing behind that adds or accepts.
THEOREM ClusterRegistry ==
    ClusterSafety => ImplementsMembership /\ []OwnershipUntilReap /\ QuietAfterStop
<1> QED
  BY PeersKept, MembershipRefined, Ownership, StopIsFinal, PTL DEF NodesArePeers

-----------------------------------------------------------------------------
(* What the nodes say, from the wire to the workers of the master.         *)

Spoken == {"REPORT", "PONG"}

\* A node says nothing before its report.
NotYet == \A c \in Conn : nodePc[c] \in {"idle", "report"} => sent[c] = 0 /\ inbox[c] = <<>>

\* Of all the frames of a connection the report is the first.
ReportFirst ==
    \A c \in Conn : \A i \in 1..Len(inbox[c]) :
        /\ inbox[c][i] \in Spoken
        /\ inbox[c][i] = "REPORT" => i = 1 /\ sent[c] = Len(inbox[c])

OnlySpoken ==
    /\ \A c \in Conn : held[c] \in Spoken \cup {None}
    /\ \A i \in 1..Len(queue) : queue[i].msg \in Spoken
    /\ \A w \in Worker : job[w] # None => job[w].msg \in Spoken

NodesSpeak == NotYet /\ ReportFirst /\ OnlySpoken

NoFrameGivenUp == [][\A c \in Conn : ~LoopEmptyFrame(c)]_clusterVars

LEMMA SpeakSend ==
    ASSUME TypeOK, NotYet, ReportFirst, NEW c \in Conn, NEW m \in Spoken,
           m = "REPORT" => sent[c] = 0 /\ inbox[c] = <<>>,
           sent' = [sent EXCEPT ![c] = @ + 1],
           inbox' = [inbox EXCEPT ![c] = Append(@, m)]
    PROVE  ReportFirst'
<1>1. NetTypeOK
  BY DEF TypeOK
<1>2. \A d \in Conn : inbox[d] \in Seq(Message) /\ sent[d] \in Nat
  BY <1>1, SocketAssumption DEF NetTypeOK
<1>3. /\ inbox'[c] = Append(inbox[c], m) /\ sent'[c] = sent[c] + 1
      /\ \A d \in Conn : d # c => inbox'[d] = inbox[d] /\ sent'[d] = sent[d]
  BY <1>1 DEF NetTypeOK
<1>4. m \in Message
  BY DEF Spoken, Message
<1>5. /\ Len(inbox'[c]) = Len(inbox[c]) + 1
      /\ \A i \in 1..Len(inbox[c]) : inbox'[c][i] = inbox[c][i]
      /\ inbox'[c][Len(inbox[c]) + 1] = m
  BY <1>2, <1>3, <1>4
<1>6. ASSUME NEW i \in 1..Len(inbox'[c])
      PROVE  /\ inbox'[c][i] \in Spoken
             /\ inbox'[c][i] = "REPORT" => i = 1 /\ sent'[c] = Len(inbox'[c])
  <2>1. CASE i \in 1..Len(inbox[c])
    BY <1>2, <1>3, <1>5, <2>1 DEF ReportFirst
  <2>2. CASE i = Len(inbox[c]) + 1
    BY <1>2, <1>3, <1>5, <2>2
  <2>3. Len(inbox[c]) \in Nat
    BY <1>2
  <2> QED
    BY <1>5, <1>6, <2>1, <2>2, <2>3
<1> QED
  BY <1>3, <1>6 DEF ReportFirst

LEMMA SpeakNode ==
    ASSUME TypeOK, ClientTypeOK, NodesSpeak, NEW c \in Conn, NodeSide(c)
    PROVE  NodesSpeak'
<1>1. /\ NetTypeOK /\ NotYet /\ ReportFirst /\ OnlySpoken
      /\ nodePc \in [Conn -> {"idle", "succeeded", "failed", "exited"} \cup InHandshake]
  BY DEF TypeOK, NodesSpeak, ClientTypeOK
<1>2. OnlySpoken'
  BY <1>1 DEF NodeSide, MasterWaits, loopVars, poolVars, OnlySpoken
<1>3. ASSUME UNCHANGED <<sent, inbox>>,
             \A d \in Conn : nodePc'[d] \in {"idle", "report"} => nodePc[d] \in {"idle", "report"}
      PROVE  NodesSpeak'
  BY <1>1, <1>2, <1>3 DEF NodesSpeak, NotYet, ReportFirst
<1>4. ASSUME NEW pc, NodeGoto(c, pc) \/ nodePc' = [nodePc EXCEPT ![c] = pc],
             pc \notin {"idle", "report"} \/ nodePc[c] = "idle"
      PROVE  /\ \A d \in Conn : nodePc'[d] = IF d = c THEN pc ELSE nodePc[d]
             /\ \A d \in Conn : nodePc'[d] \in {"idle", "report"} => nodePc[d] \in {"idle", "report"}
  BY <1>1, <1>4 DEF NodeGoto
<1>5. CASE NodeConnect(c) \/ NodeDialFails(c)
  <2>1. UNCHANGED <<sent, inbox>>
    BY <1>5 DEF NodeConnect, PeerConnect, NodeDialFails, netVars
  <2>2. PICK pc : nodePc' = [nodePc EXCEPT ![c] = pc] /\ nodePc[c] = "idle"
    BY <1>5 DEF NodeConnect, NodeGoto, NodeDialFails, Gone
  <2> QED
    BY <1>3, <1>4, <2>1, <2>2
<1>6. ASSUME NEW m \in Spoken, NEW pc \in {"succeeded", "recv", "failed"},
             m = "REPORT" => nodePc[c] = "report", m = "PONG" => nodePc[c] = "recv",
             sent' = [sent EXCEPT ![c] = @ + 1],
             inbox' = [inbox EXCEPT ![c] = Append(@, m)],
             nodePc' = [nodePc EXCEPT ![c] = pc]
      PROVE  NodesSpeak'
  <2>1. m = "REPORT" => sent[c] = 0 /\ inbox[c] = <<>>
    BY <1>1, <1>6 DEF NotYet
  <2>2. ReportFirst'
    BY <1>1, <1>6, <2>1, SpeakSend
  <2>3. \A d \in Conn : /\ nodePc'[d] = IF d = c THEN pc ELSE nodePc[d]
                        /\ d # c => sent'[d] = sent[d] /\ inbox'[d] = inbox[d]
    BY <1>1, <1>6 DEF NetTypeOK
  <2>4. NotYet'
    BY <1>1, <2>3 DEF NotYet
  <2> QED
    BY <1>2, <2>2, <2>4 DEF NodesSpeak
<1>7. AfterLook(c) \in {"succeeded", "recv", "failed"}
  BY DEF AfterLook
<1>8. CASE NodeReport(c, Over)
  <2>1. PICK pc \in {"recv", "succeeded", "failed"} : NodeGoto(c, pc)
    BY <1>8 DEF NodeReport, FirstLook
  <2>2. CASE PeerSend(c, "REPORT")
    BY <1>6, <1>8, <2>1, <2>2 DEF NodeReport, PeerSend, NodeGoto, Spoken
  <2>3. CASE UNCHANGED netVars
    BY <1>3, <1>4, <2>1, <2>3 DEF netVars
  <2> QED
    BY <1>8, <2>2, <2>3 DEF NodeReport
<1>9. CASE NodePing(c)
  BY <1>6, <1>7, <1>9 DEF NodePing, PeerPong, NodeGoto, Spoken
<1>10. CASE NodeRecvFails(c, Over)
  BY <1>3, <1>4, <1>10 DEF NodeRecvFails, netVars
<1>11. ASSUME Gone(c), UNCHANGED netVars \/ PeerLeave(c)
       PROVE  NodesSpeak'
  <2>1. \A d \in Conn : nodePc'[d] = IF d = c THEN "exited" ELSE nodePc[d]
    BY <1>1, <1>11 DEF Gone
  <2>2. /\ sent' = sent
        /\ inbox' = inbox \/ inbox' = [inbox EXCEPT ![c] = <<>>]
    BY <1>11 DEF PeerLeave, netVars
  <2>3. \A d \in Conn : inbox'[d] = inbox[d] \/ inbox'[d] = <<>>
    BY <1>1, <2>2 DEF NetTypeOK
  <2>4. NotYet'
    BY <1>1, <2>1, <2>2, <2>3 DEF NotYet
  <2>5. ReportFirst'
    BY <1>1, <2>2, <2>3 DEF ReportFirst
  <2> QED
    BY <1>2, <2>4, <2>5 DEF NodesSpeak
<1>12. CASE NodeExit(c) \/ NodeCrash(c)
  BY <1>11, <1>12 DEF NodeExit, NodeCrash
<1>13. CASE WindowCloses(c)
  BY <1>3, <1>13 DEF WindowCloses, netVars
<1> QED
  BY <1>5, <1>8, <1>9, <1>10, <1>12, <1>13 DEF NodeSide, NodeStep

LEMMA SpeakMaster ==
    ASSUME TypeOK, NodesSpeak, MasterSide
    PROVE  NodesSpeak' /\ \A c \in Conn : ~LoopEmptyFrame(c)
<1>1. /\ NetTypeOK /\ LoopTypeOK /\ PoolTypeOK /\ NotYet /\ ReportFirst /\ OnlySpoken
      /\ UNCHANGED nodePc
  BY DEF TypeOK, NodesSpeak, MasterSide, clientVars
<1>2. ASSUME NEW c \in Conn
      PROVE  ~LoopEmptyFrame(c)
  <2> SUFFICES ASSUME loop[c] = "blocked", inbox[reading[c]] # <<>>,
                      Head(inbox[reading[c]]) = "EMPTY"
               PROVE  FALSE
    BY DEF LoopEmptyFrame
  <2>1. reading[c] \in Conn
    BY <1>1, SocketAssumption DEF LoopTypeOK
  <2>2. inbox[reading[c]] \in Seq(Message)
    BY <1>1, <2>1 DEF NetTypeOK
  <2>3. 1 \in 1..Len(inbox[reading[c]]) /\ Head(inbox[reading[c]]) = inbox[reading[c]][1]
    BY <2>2
  <2> QED
    BY <1>1, <2>1, <2>3 DEF ReportFirst, Spoken
<1>3. ASSUME UNCHANGED <<sent, inbox, held, queue, job>>
      PROVE  NodesSpeak'
  BY <1>1, <1>3 DEF NodesSpeak, NotYet, ReportFirst, OnlySpoken
<1>4. ASSUME NEW c \in Conn, LoopMessage(c)
      PROVE  NodesSpeak'
  <2>1. reading[c] \in Conn /\ inbox[reading[c]] \in Seq(Message) /\ inbox[reading[c]] # <<>>
    BY <1>1, <1>4, SocketAssumption DEF LoopMessage, LoopTypeOK, NetTypeOK
  <2> DEFINE e == reading[c]
             rest == Tail(inbox[e])
  <2>2. /\ Head(inbox[e]) = inbox[e][1] /\ Len(inbox[e]) \in Nat \ {0}
        /\ rest \in Seq(Message) /\ Len(rest) = Len(inbox[e]) - 1
        /\ \A i \in 1..Len(rest) : rest[i] = inbox[e][i + 1]
    BY <2>1
  <2>3. /\ UNCHANGED <<sent, queue, job>>
        /\ \A d \in Conn : inbox'[d] = IF d = e THEN rest ELSE inbox[d]
        /\ \A d \in Conn : held'[d] = IF d = c THEN Head(inbox[e]) ELSE held[d]
    BY <1>1, <1>4, <2>1 DEF LoopMessage, NetTypeOK, LoopTypeOK, poolVars
  <2>4. inbox[e][1] \in Spoken
    BY <1>1, <2>1, <2>2 DEF ReportFirst
  <2>5. OnlySpoken'
    BY <1>1, <2>2, <2>3, <2>4 DEF OnlySpoken
  <2>6. NotYet'
    BY <1>1, <2>1, <2>3 DEF NotYet
  <2>7. \A i \in 1..Len(rest) : i + 1 \in 1..Len(inbox[e]) /\ i + 1 # 1
    BY <2>2
  <2>8. \A i \in 1..Len(rest) : rest[i] \in Spoken /\ rest[i] # "REPORT"
    BY <1>1, <2>1, <2>2, <2>7 DEF ReportFirst
  <2> HIDE DEF rest
  <2>9. ReportFirst'
    BY <1>1, <2>3, <2>8 DEF ReportFirst
  <2> QED
    BY <2>5, <2>6, <2>9 DEF NodesSpeak
<1>5. ASSUME NEW c \in Conn, LoopHandoff(c)
      PROVE  NodesSpeak'
  <2>1. UNCHANGED <<sent, inbox, job>> /\ loop[c] = "handoff"
    BY <1>5 DEF LoopHandoff, netVars
  <2>2. held[c] \in Spoken /\ id[c] \in Fd /\ reading[c] \in Conn
    BY <1>1, <2>1 DEF LoopTypeOK, OnlySpoken
  <2> DEFINE t == [id |-> id[c], from |-> reading[c], msg |-> held[c]]
  <2>3. t \in Task /\ t.msg \in Spoken
    BY <2>2 DEF Task, Spoken, Message
  <2>4. queue \in Seq(Task) /\ queue' = Append(queue, t)
    BY <1>1, <1>5 DEF PoolTypeOK, LoopHandoff
  <2> HIDE DEF t
  <2>5. \A i \in 1..Len(queue') : queue'[i].msg \in Spoken
    BY <1>1, <2>3, <2>4 DEF OnlySpoken
  <2>6. \A d \in Conn : held'[d] \in Spoken \cup {None}
    BY <1>1, <1>5 DEF LoopHandoff, LoopTypeOK, OnlySpoken
  <2>7. OnlySpoken'
    BY <1>1, <2>1, <2>5, <2>6 DEF OnlySpoken
  <2> QED
    BY <1>1, <2>1, <2>7 DEF NodesSpeak, NotYet, ReportFirst
<1>6. ASSUME NEW w \in Worker, PoolTake(w)
      PROVE  NodesSpeak'
  <2>1. queue \in Seq(Task) /\ queue # <<>> /\ UNCHANGED <<sent, inbox, held>>
    BY <1>1, <1>6 DEF PoolTake, PoolTypeOK, netVars, loopVars
  <2>2. /\ queue' = Tail(queue)
        /\ \A v \in Worker : job'[v] = IF v = w THEN Head(queue) ELSE job[v]
    BY <1>1, <1>6 DEF PoolTake, PoolTypeOK
  <2>3. Head(queue) = queue[1] /\ 1 \in 1..Len(queue)
    BY <2>1
  <2>4. \A i \in 1..Len(Tail(queue)) : Tail(queue)[i] = queue[i + 1] /\ i + 1 \in 1..Len(queue)
    BY <2>1
  <2>5. OnlySpoken'
    BY <1>1, <2>1, <2>2, <2>3, <2>4 DEF OnlySpoken
  <2> QED
    BY <1>1, <2>1, <2>5 DEF NodesSpeak, NotYet, ReportFirst
<1>7. ASSUME NEW w \in Worker, PoolRun(w)
      PROVE  NodesSpeak'
  <2>1. /\ UNCHANGED <<sent, inbox, held, queue>>
        /\ \A v \in Worker : job'[v] = IF v = w THEN None ELSE job[v]
    BY <1>1, <1>7 DEF PoolRun, PoolTypeOK, netVars, loopVars
  <2> QED
    BY <1>1, <2>1 DEF NodesSpeak, NotYet, ReportFirst, OnlySpoken
<1>8. CASE StartServer \/ StartFails \/ StopServer \/ MainStep
  BY <1>2, <1>3, <1>8
     DEF StartServer, StartFails, StopServer, MainStep, TeardownListener, JoinAccept,
         JoinHeartbeat, DestroyServer, netVars, peerVars, loopVars, poolVars
<1>9. CASE AcceptStep \/ AcceptFail
  BY <1>2, <1>3, <1>9
     DEF AcceptStep, AcceptTop, AcceptFail, AcceptReject, AcceptAdmit, AcceptConn, AcceptInsert,
         AcceptSpawn, netVars, peerVars, loopVars, poolVars
<1>10. CASE HbStep
  BY <1>2, <1>3, <1>10
     DEF HbStep, HbTop, HbSnapshot, HbShut, HbClose, HbSleep, HbPing, HbErase, netVars, peerVars,
         loopVars, poolVars
<1>11. ASSUME NEW c \in Conn,
              LoopTop(c) \/ LoopRecv(c) \/ LoopEof(c) \/ LoopErase(c) \/ LoopShut(c)
              \/ LoopClose(c)
       PROVE  NodesSpeak'
  BY <1>3, <1>11
     DEF LoopTop, LoopRecv, LoopEof, LoopErase, LoopShut, LoopClose, netVars, peerVars, poolVars
<1>12. CASE UNCHANGED <<netVars, loopVars, poolVars>>
  BY <1>2, <1>3, <1>12 DEF netVars, loopVars, poolVars
<1>13. NodesSpeak'
  BY <1>2, <1>4, <1>5, <1>6, <1>7, <1>8, <1>9, <1>10, <1>11, <1>12
     DEF MasterSide, Server, LoopStep, PoolStep
<1> QED
  BY <1>2, <1>13

\* NodeClient.cpp against MasterServer.cpp: a node's report is the first of
\* its frames and the only one, and nothing but reports and PONGs is ever on
\* its way to a worker; so no connection loop meets a frame of length zero,
\* and a connection ends only because one of its ends has closed it.
THEOREM NodesHeard == ClusterSafety => []NodesSpeak /\ NoFrameGivenUp
<1>1. ClusterInit => NodesSpeak
  BY DEF ClusterInit, Init, NetInit, ClientInit, NodesSpeak, NotYet, ReportFirst, OnlySpoken
<1>2. ClusterTypeOK /\ NodesSpeak /\ [ClusterNext]_clusterVars => NodesSpeak'
  <2>1. SUFFICES ASSUME TypeOK, ClientTypeOK, NodesSpeak, [ClusterNext]_clusterVars
                 PROVE  NodesSpeak'
    BY DEF ClusterTypeOK
  <2>2. CASE UNCHANGED clusterVars
    BY <2>1, <2>2
       DEF clusterVars, clientVars, vars, netVars, loopVars, poolVars, NodesSpeak, NotYet,
           ReportFirst, OnlySpoken
  <2> QED
    BY <2>1, <2>2, SpeakNode, SpeakMaster DEF ClusterNext, ClusterTerminated
<1>3. ClusterTypeOK /\ NodesSpeak /\ [ClusterNext]_clusterVars
        => [\A c \in Conn : ~LoopEmptyFrame(c)]_clusterVars
  <2>1. SUFFICES ASSUME TypeOK, NodesSpeak, ClusterNext, NEW c \in Conn, LoopEmptyFrame(c),
                        ~UNCHANGED clusterVars
                 PROVE  FALSE
    BY DEF ClusterTypeOK
  <2>2. ASSUME NEW d \in Conn, NodeSide(d)
        PROVE  FALSE
    <3>1. loop' = loop
      BY <2>2 DEF NodeSide, MasterWaits, loopVars
    <3>2. loop' = [loop EXCEPT ![c] = "erase"] /\ loop[c] = "blocked"
      BY <2>1 DEF LoopEmptyFrame, Goto
    <3> QED
      BY <2>1, <3>1, <3>2 DEF TypeOK, LoopTypeOK
  <2> QED
    BY <2>1, <2>2, SpeakMaster DEF ClusterNext, ClusterTerminated
<1> QED
  BY <1>1, <1>2, <1>3, ClusterTypeCorrect, PTL DEF ClusterSafety, NoFrameGivenUp

=============================================================================
