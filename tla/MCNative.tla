----------------------------- MODULE MCNative -----------------------------
(* What a station runs beside its handlers: the node's own life, its        *)
(* registry on the DHT and the connection table of the bootstrap            *)
(* subserver.  The modules share no variable, so one of them moves in a     *)
(* behaviour and the run checks each.                                       *)
(*                                                                          *)
(* TURN and two other subservers, so that the random order in which they    *)
(* are stopped has something to differ in; two signals, because the first   *)
(* may be caught before main listens.  Two refresh goroutines, so that they *)
(* meet over a row.                                                         *)
EXTENDS NodeLifecycle, NativeRegistry, Bootstrap

CONSTANTS turn, bootstrap, aibox, client, peer, loop1, loop2, conn1, conn2
MCOthers == {bootstrap, aibox}
MCRegClients == {client}
MCIds == {peer}
MCLoops == {loop1, loop2}
MCLinks == {conn1, conn2}

VARIABLE part
nativeVars == <<part, vars, regVars, bootVars>>

NativeInit ==
    /\ part \in {"node", "registry", "bootstrap"}
    /\ Init /\ RegInit /\ BootInit

NativeNext ==
    /\ UNCHANGED part
    /\ \/ part = "node" /\ Next /\ UNCHANGED <<regVars, bootVars>>
       \/ part = "registry" /\ RegNext /\ UNCHANGED <<vars, bootVars>>
       \/ part = "bootstrap" /\ BootNext /\ UNCHANGED <<vars, regVars>>

(* Fairness and RegFairness, of the part that moves. *)
NativeFairness ==
    /\ WF_vars(part = "node" /\ Start) /\ WF_vars(part = "node" /\ Server)
    /\ WF_vars(part = "node" /\ Stop) /\ WF_vars(part = "node" /\ Goroutines)
    /\ \A l \in RegLoops :
          /\ WF_regVars(part = "registry" /\ LoopWork(l))
          /\ SF_regVars(part = "registry" /\ LoopNow(l))
          /\ SF_regVars(part = "registry" /\ LoopLock(l))
          /\ SF_regVars(part = "registry" /\ LoopEnd(l))
    /\ \A c \in RegClients :
          /\ SF_regVars(part = "registry" /\ RegLocks(c))
          /\ WF_regVars(part = "registry" /\ RegWork(c))
    /\ WF_regVars(part = "registry" /\ RefreshReturns)
    /\ WF_regVars(part = "registry" /\ BootEnd)
    /\ WF_regVars(part = "registry" /\ MdnsEnd)

NativeSpec == NativeInit /\ [][NativeNext]_nativeVars /\ NativeFairness

(* Type: the state of the node's life, of the registry and of the           *)
(* bootstrap subserver's table.                                             *)
NativeTypeOK == TypeOK /\ RegTypeOK /\ BootTypeOK
=============================================================================
