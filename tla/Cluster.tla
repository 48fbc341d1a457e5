------------------------------ MODULE Cluster -------------------------------
(***************************************************************************)
(* The master together with the nodes it is made for: MasterServer with    *)
(* each of its peers replaced by a NodeClient.                             *)
(***************************************************************************)
EXTENDS MasterServer, NodeClient

ASSUME ClusterAssumption == "REPORT" \in Unasked

clusterVars == <<vars, clientVars>>

ClusterInit == Init /\ ClientInit

Over == mainPc = "destroyed"

MasterWaits == UNCHANGED <<nodes, mainVars, acceptVars, hbVars, loopVars, poolVars>>

NodeSide(c) ==
    /\ MasterWaits
    /\ \/ NodeConnect(c) \/ NodeDialFails(c)
       \/ NodeStep(c, Over) \/ NodeCrash(c) \/ WindowCloses(c)

MasterSide ==
    /\ UNCHANGED clientVars
    /\ \/ Server
       \/ \E f \in Fd :
             /\ "timeout" \in Events /\ ~Over
             /\ Expire(f)
             /\ UNCHANGED <<netVars, mainVars, acceptVars, hbVars, loopVars, poolVars>>

ClusterTerminated == Over /\ UNCHANGED clusterVars

ClusterNext ==
    \/ MasterSide
    \/ \E c \in Conn : NodeSide(c)
    \/ ClusterTerminated

(* The threads of the master as in MasterServer.  Each node that has       *)
(* connected is scheduled, or at least its clock goes on while it waits.   *)
(* A step of a thread changes what the thread keeps, which is therefore    *)
(* the subscript of its fairness.                                          *)
ClusterFairness ==
    /\ WF_mainVars(MainStep /\ UNCHANGED clientVars)
    /\ WF_acceptVars(AcceptStep /\ UNCHANGED clientVars)
    /\ WF_hbVars(HbStep /\ UNCHANGED clientVars)
    /\ \A c \in Conn : WF_loopVars(LoopStep(c) /\ UNCHANGED clientVars)
    /\ \A w \in Worker : WF_poolVars(PoolStep(w) /\ UNCHANGED clientVars)
    /\ \A c \in Conn :
         WF_<<clientVars, sent>>((NodeStep(c, Over) \/ WindowCloses(c)) /\ MasterWaits)

ClusterSafety == ClusterInit /\ [][ClusterNext]_clusterVars
ClusterSpec == ClusterSafety /\ ClusterFairness

-----------------------------------------------------------------------------
(* Properties                                                              *)

ClusterTypeOK == TypeOK /\ ClientTypeOK

\* NodeClient.cpp against the assumption that MasterServer is checked under:
\* whatever a node does on its connection, in the handshake, on its way out
\* or crashing, some peer of MasterServer may do.
NodesArePeers == SafetySpec

\* sendSpecsAndAwaitConfig returns as long as accept() works, although its
\* recvMessage blocks without limit and may do so again after a PING that came
\* early: a node that is admitted is PINGed or removed, and one that is
\* refused, or waits when the master stops, sees the end of its connection.
HandshakeEnds ==
    (\E c \in Conn : nodePc[c] \in InHandshake)
        ~> (\A c \in Conn : nodePc[c] \notin InHandshake)

\* Once a node has exited, after its handshake, by a crash or because it was
\* removed or could not dial, the master forgets it: its entry goes and so
\* does its descriptor, with the PINGs, time-outs and late messages of the
\* pool that may then be under way.
ExitedNodeForgotten ==
    \A c \in Conn :
        (nodePc[c] = "exited")
            ~> \/ Over
               \/ /\ \A f \in Registered : nodes[f].owner # c
                  /\ \A f \in Fd : fdTable[f] # c

=============================================================================
