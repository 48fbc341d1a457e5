------------------------------ MODULE Registry ------------------------------
(***************************************************************************)
(* network/net/Registry.hpp: the map from descriptor number to NodeInfo    *)
(* that the accept thread, the heartbeat thread, the connection loops and  *)
(* the pool workers share.  Every method holds mu_ for all of its body and *)
(* is one atomic change of `nodes`.                                        *)
(*                                                                         *)
(* NodeInfo keeps what the properties tell apart: `specs` names the        *)
(* connection whose report filled ramBytes and threads (None: still        *)
(* empty), `expired` says that heartbeatTimeout has passed since lastSeen. *)
(* `owner`, a history field, names the connection that was inserted.  The  *)
(* field `alive` is left out: the code writes it and nothing reads it.     *)
(***************************************************************************)
EXTENDS Sockets

CONSTANT MaxNodes   \* setMax(cfg_.maxNodes)

VARIABLE nodes      \* Fd -> NodeInfo, or None where the map has no key

NodeInfo == [owner : Conn, specs : Conn \cup {None}, expired : BOOLEAN]

ASSUME RegistryAssumption ==
    /\ MaxNodes \in Nat \ {0}
    /\ IsFiniteSet(Fd)
    /\ None \notin NodeInfo

RegistryTypeOK == nodes \in [Fd -> NodeInfo \cup {None}]

RegistryInit == nodes = [f \in Fd |-> None]

Registered == {f \in Fd : nodes[f] # None}

\* insert refuses only when the map is full, even for a key it holds.
Insert(f, info) ==
    nodes' = IF Cardinality(Registered) >= MaxNodes THEN nodes
             ELSE [nodes EXCEPT ![f] = info]

Erase(f) == nodes' = [nodes EXCEPT ![f] = None]

\* Mutant: nodes_[id] in place of find(id), which creates a missing entry.
UpdateOrCreate(f, from, msg) ==
    nodes' = IF msg = "OTHER" THEN nodes
             ELSE [nodes EXCEPT ![f] = [owner |-> from, specs |-> None, expired |-> FALSE]]

\* update with the functions the message handler passes: any message that
\* counts refreshes lastSeen, a report also fills in the specs.
Update(f, from, msg) ==
    nodes' = IF nodes[f] = None \/ msg = "OTHER" THEN nodes
             ELSE [nodes EXCEPT ![f].expired = FALSE,
                                ![f].specs = IF msg = "REPORT" THEN from ELSE @]

\* steady_clock passes lastSeen + heartbeatTimeout.
Expire(f) ==
    /\ nodes[f] # None
    /\ ~nodes[f].expired
    /\ nodes' = [nodes EXCEPT ![f].expired = TRUE]

=============================================================================
