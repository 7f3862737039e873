---------------------------- MODULE NodeRegistry ----------------------------
(***************************************************************************)
(* The registry of nodes in memory (core/registry/node_registry.go) and    *)
(* the handlers of touch/peer/registry.go.  The storage keeps pointers:    *)
(* GetNode gives out the object of the map, an update writes into it       *)
(* without the lock, then registers that object again.  The other handlers *)
(* take the lock once; a request for an unknown node changes nothing.      *)
(*                                                                         *)
(* Of an object the model keeps for which identifier it was made and the   *)
(* heartbeats it has got; the fields of an update, the filters and the     *)
(* pages of a listing are left out.  There is one registry from the start: *)
(* GetNodeRegistry makes it at its first call, without a lock, so two      *)
(* first calls at once may work on two registries, which is left out too.  *)
(***************************************************************************)
EXTENDS Naturals

CONSTANTS
    NodeIds,    \* identifiers of nodes
    Objects,    \* objects made by RegisterNodeHandler; bounds its calls
    Updaters,   \* concurrent calls of UpdateNodeHandler
    MaxBeats,   \* bound: heartbeats of an object
    NoNode      \* "no value"

ASSUME NodeRegistryAssumption ==
    /\ NoNode \notin NodeIds \cup Objects
    /\ MaxBeats \in Nat

VARIABLES
    nodes,      \* the map of memoryNodeStorage
    madeFor,    \* identifier of an object, or NoNode while it is not made
    beats,      \* heartbeats an object has got
    updating,   \* object an update works on, or NoNode
    updPc,      \* rest, bind, or store
    newest,     \* object of the last registration, or NoNode after the last removal
    beaten,     \* heartbeats answered for an identifier since then
    raced       \* a registration or removal overlapped an update

nodeVars == <<nodes, madeFor, beats, updating, updPc, newest, beaten, raced>>

NodeInit ==
    /\ nodes = [i \in NodeIds |-> NoNode]
    /\ madeFor = [o \in Objects |-> NoNode]
    /\ beats = [o \in Objects |-> 0]
    /\ updating = [u \in Updaters |-> NoNode]
    /\ updPc = [u \in Updaters |-> "rest"]
    /\ newest = [i \in NodeIds |-> NoNode]
    /\ beaten = [i \in NodeIds |-> 0]
    /\ raced = [i \in NodeIds |-> FALSE]

(* Some update has an object that was made for i in its hands. *)
UnderUpdate(i) ==
    \E u \in Updaters : updating[u] # NoNode /\ madeFor[updating[u]] = i

-----------------------------------------------------------------------------
RegisterNode(i) ==
    \E o \in Objects :
        /\ madeFor[o] = NoNode
        /\ madeFor' = [madeFor EXCEPT ![o] = i]
        /\ nodes' = [nodes EXCEPT ![i] = o]
        /\ newest' = [newest EXCEPT ![i] = o]
        /\ beaten' = [beaten EXCEPT ![i] = 0]
        /\ raced' = [raced EXCEPT ![i] = UnderUpdate(i)]
        /\ UNCHANGED <<beats, updating, updPc>>

UnregisterNode(i) ==
    /\ nodes' = [nodes EXCEPT ![i] = NoNode]
    /\ newest' = [newest EXCEPT ![i] = NoNode]
    /\ beaten' = [beaten EXCEPT ![i] = 0]
    /\ raced' = [raced EXCEPT ![i] = UnderUpdate(i)]
    /\ UNCHANGED <<madeFor, beats, updating, updPc>>

(* UpdateNodeHandler: GetNode, the body of the request, the new values and  *)
(* Register.  The body may not be valid.                                    *)
UpdateGet(u, i) ==
    /\ updPc[u] = "rest"
    /\ nodes[i] # NoNode
    /\ updating' = [updating EXCEPT ![u] = nodes[i]]
    /\ updPc' = [updPc EXCEPT ![u] = "bind"]
    /\ UNCHANGED <<nodes, madeFor, beats, newest, beaten, raced>>

UpdateRefused(u) ==
    /\ updPc[u] = "bind"
    /\ updating' = [updating EXCEPT ![u] = NoNode]
    /\ updPc' = [updPc EXCEPT ![u] = "rest"]
    /\ UNCHANGED <<nodes, madeFor, beats, newest, beaten, raced>>

UpdateFields(u) ==
    /\ updPc[u] = "bind"
    /\ updPc' = [updPc EXCEPT ![u] = "store"]
    /\ UNCHANGED <<nodes, madeFor, beats, updating, newest, beaten, raced>>

(* As a mutant: the update stores an object of its own, with the heartbeats *)
(* of the moment it read them.                                              *)
UpdateStoreCopy(u) ==
    /\ updPc[u] = "store"
    /\ \E o \in Objects :
          /\ madeFor[o] = NoNode
          /\ madeFor' = [madeFor EXCEPT ![o] = madeFor[updating[u]]]
          /\ nodes' = [nodes EXCEPT ![madeFor[updating[u]]] = o]
    /\ updating' = [updating EXCEPT ![u] = NoNode]
    /\ updPc' = [updPc EXCEPT ![u] = "rest"]
    /\ UNCHANGED <<beats, newest, beaten, raced>>

UpdateStore(u) ==
    /\ updPc[u] = "store"
    /\ nodes' = [nodes EXCEPT ![madeFor[updating[u]]] = updating[u]]
    /\ updating' = [updating EXCEPT ![u] = NoNode]
    /\ updPc' = [updPc EXCEPT ![u] = "rest"]
    /\ UNCHANGED <<madeFor, beats, newest, beaten, raced>>

Heartbeat(i) ==
    /\ nodes[i] # NoNode
    /\ beats[nodes[i]] < MaxBeats
    /\ beats' = [beats EXCEPT ![nodes[i]] = @ + 1]
    /\ beaten' = [beaten EXCEPT ![i] = @ + 1]
    /\ UNCHANGED <<nodes, madeFor, updating, updPc, newest, raced>>

NodeNext ==
    \/ \E i \in NodeIds : RegisterNode(i) \/ UnregisterNode(i) \/ Heartbeat(i)
    \/ \E u \in Updaters : \/ \E i \in NodeIds : UpdateGet(u, i)
                           \/ UpdateRefused(u) \/ UpdateFields(u) \/ UpdateStore(u)

NodeSpec == NodeInit /\ [][NodeNext]_nodeVars

-----------------------------------------------------------------------------
(* The type of the state. *)
NodeTypeOK ==
    /\ nodes \in [NodeIds -> Objects \cup {NoNode}]
    /\ madeFor \in [Objects -> NodeIds \cup {NoNode}]
    /\ beats \in [Objects -> Nat]
    /\ updating \in [Updaters -> Objects \cup {NoNode}]
    /\ updPc \in [Updaters -> {"rest", "bind", "store"}]
    /\ newest \in [NodeIds -> Objects \cup {NoNode}]
    /\ beaten \in [NodeIds -> Nat]
    /\ raced \in [NodeIds -> BOOLEAN]

(* The registry shows of a node what was registered last, and nothing once  *)
(* it was removed, with every heartbeat that was answered since: an update  *)
(* brings an older object back, or drops a heartbeat, only where a          *)
(* registration or a removal came in while it waited for its body.          *)
NodesAreNewest ==
    \A i \in NodeIds : ~raced[i] =>
        /\ nodes[i] = newest[i]
        /\ nodes[i] # NoNode => beats[nodes[i]] = beaten[i]
=============================================================================
