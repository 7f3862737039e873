--------------------------- MODULE NativeRegistry ---------------------------
(***************************************************************************)
(* The registry of a station on its DHT                                    *)
(* (core/plugin/native/registry/native.go, store.go).  Register leaves a   *)
(* goroutine behind that publishes the registration at every tick until    *)
(* the context is over; the first time is asked for on the channel doNow.  *)
(* Deregister overwrites the record, Query reads it, all under r.mu.       *)
(*                                                                         *)
(* The DHT and the database are outside: a put or a write may fail, a      *)
(* lookup may find nothing.  A lookup ignores an empty record, so "empty"  *)
(* is what Deregister leaves.  r.peers is never filled, and the delete in  *)
(* Deregister never finds anything; TURN is off.  Definitions and          *)
(* variables carry a prefix, since MCNative puts parts beside each other.  *)
(***************************************************************************)
EXTENDS Naturals, FiniteSets

CONSTANTS
    RegClients,  \* goroutines that call the registry; Init is one of them
    RegIds,      \* peer identifiers
    RegLoops,    \* refresh goroutines; bounds the number of calls of Register
    MaxRefresh,  \* bound: refreshes of the routing table at a time
    NoOne        \* "no value"

ASSUME RegistryAssumption ==
    /\ RegClients \cap RegLoops = {}
    /\ NoOne \notin RegClients \cup RegLoops \cup RegIds \cup {"in", "out"}
    /\ MaxRefresh \in Nat

VARIABLES
    regCtx,      \* the context of the registry is done
    regPc,       \* program counter of each client
    regArg,      \* identifier it asks about
    regWriter,   \* who holds r.mu for writing, or NoOne
    regReaders,  \* who holds it for reading
    loopPc,      \* program counter of each refresh goroutine
    loopId,      \* identifier it publishes
    loopOf,      \* client that waits on its doNow, or NoOne
    loopNew,     \* what its select of the database said: no such row
    rows,        \* rows of core_register_record of each identifier
    dht,         \* record under the identifier's key: none, record or empty
    status,      \* of an identifier: what the last call for it that answered nil
                 \* promised, in or out
    bootPc,      \* the goroutine of bootstrap: running or done
    refreshing,  \* goroutines in refreshRoutingTable
    regMdns      \* the mDNS service of the registry runs

callVars == <<regPc, regArg>>
muVars   == <<regWriter, regReaders>>
loopVars == <<loopPc, loopId, loopOf, loopNew>>
dataVars == <<rows, dht, status>>
hostVars == <<bootPc, refreshing, regMdns>>
regVars  == <<regCtx, callVars, muVars, loopVars, dataVars, hostVars>>

RegInit ==
    /\ regCtx = FALSE
    /\ regPc = [c \in RegClients |-> "idle"]
    /\ regArg = [c \in RegClients |-> NoOne]
    /\ regWriter = NoOne
    /\ regReaders = {}
    /\ loopPc = [l \in RegLoops |-> "none"]
    /\ loopId = [l \in RegLoops |-> NoOne]
    /\ loopOf = [l \in RegLoops |-> NoOne]
    /\ loopNew = [l \in RegLoops |-> FALSE]
    /\ rows = [i \in RegIds |-> 0]
    /\ dht = [i \in RegIds |-> "none"]
    /\ status = [i \in RegIds |-> NoOne]
    /\ bootPc = "run"
    /\ refreshing = 0
    /\ regMdns = TRUE

-----------------------------------------------------------------------------
(* r.mu: a sync.RWMutex.  A writer that waits holds new readers back. *)
Free == regWriter = NoOne /\ regReaders = {}
LockBy(x) == Free /\ regWriter' = x /\ UNCHANGED regReaders
WriterWaits == \/ \E l \in RegLoops : loopPc[l] = "lock"
               \/ \E c \in RegClients : regPc[c] = "deregister"
Unlock == regWriter' = NoOne /\ UNCHANGED regReaders

-----------------------------------------------------------------------------
(* Register: the goroutine starts and the caller waits on doNow.  A        *)
(* registration without ID or name is refused before anything happens.     *)
RegisterPeer(c, i) ==
    /\ regPc[c] = "idle"
    /\ \E l \in RegLoops : loopPc[l] = "none"
    /\ LET l == CHOOSE k \in RegLoops : loopPc[k] = "none" IN
          /\ loopPc' = [loopPc EXCEPT ![l] = "wait"]
          /\ loopId' = [loopId EXCEPT ![l] = i]
          /\ loopOf' = [loopOf EXCEPT ![l] = c]
    /\ regPc' = [regPc EXCEPT ![c] = "send"]
    /\ UNCHANGED <<regCtx, regArg, muVars, loopNew, dataVars, hostVars>>

(* The select of the refresh goroutine, and the call of register.  As a    *)
(* mutant: a goroutine that publishes once and returns.                    *)
LoopNowOnce(l) ==
    /\ loopPc[l] = "wait"
    /\ loopOf[l] # NoOne
    /\ loopPc' = [loopPc EXCEPT ![l] = "done"]
    /\ regPc' = [regPc EXCEPT ![loopOf[l]] = "idle"]
    /\ loopOf' = [loopOf EXCEPT ![l] = NoOne]
    /\ status' = [status EXCEPT ![loopId[l]] = "in"]
    /\ UNCHANGED <<regCtx, regArg, muVars, loopId, loopNew, rows, dht, hostVars>>

LoopNow(l) ==
    /\ loopPc[l] = "wait"
    /\ loopOf[l] # NoOne
    /\ loopPc' = [loopPc EXCEPT ![l] = "lock"]
    /\ regPc' = [regPc EXCEPT ![loopOf[l]] = "idle"]
    /\ loopOf' = [loopOf EXCEPT ![l] = NoOne]
    /\ status' = [status EXCEPT ![loopId[l]] = "in"]
    /\ UNCHANGED <<regCtx, regArg, muVars, loopId, loopNew, rows, dht, hostVars>>

LoopTick(l) ==
    /\ loopPc[l] = "wait"
    /\ loopPc' = [loopPc EXCEPT ![l] = "lock"]
    /\ UNCHANGED <<regCtx, callVars, muVars, loopId, loopOf, loopNew, dataVars, hostVars>>

LoopEnd(l) ==
    /\ loopPc[l] = "wait"
    /\ regCtx
    /\ loopPc' = [loopPc EXCEPT ![l] = "done"]
    /\ UNCHANGED <<regCtx, callVars, muVars, loopId, loopOf, loopNew, dataVars, hostVars>>

(* register locks r.mu first.  As a mutant: it does not. *)
LoopLockNot(l) ==
    /\ loopPc[l] = "lock"
    /\ loopPc' = [loopPc EXCEPT ![l] = "select"]
    /\ UNCHANGED <<regCtx, callVars, muVars, loopId, loopOf, loopNew, dataVars, hostVars>>

LoopLock(l) ==
    /\ loopPc[l] = "lock"
    /\ LockBy(l)
    /\ loopPc' = [loopPc EXCEPT ![l] = "select"]
    /\ UNCHANGED <<regCtx, callVars, loopId, loopOf, loopNew, dataVars, hostVars>>

(* setRegisterRecord looks for the row, then creates or updates it; an     *)
(* error of either is only logged.                                         *)
LoopSelect(l) ==
    /\ loopPc[l] = "select"
    /\ \/ /\ loopNew' = [loopNew EXCEPT ![l] = rows[loopId[l]] = 0]
          /\ loopPc' = [loopPc EXCEPT ![l] = "write"]
       \/ /\ loopPc' = [loopPc EXCEPT ![l] = "put"]
          /\ UNCHANGED loopNew
    /\ UNCHANGED <<regCtx, callVars, muVars, loopId, loopOf, dataVars, hostVars>>

LoopWrite(l) ==
    /\ loopPc[l] = "write"
    /\ loopPc' = [loopPc EXCEPT ![l] = "put"]
    /\ rows' \in {rows} \cup
         {[rows EXCEPT ![loopId[l]] = IF loopNew[l] THEN @ + 1 ELSE @]}
    /\ loopNew' = [loopNew EXCEPT ![l] = FALSE]
    /\ UNCHANGED <<regCtx, callVars, muVars, loopId, loopOf, dht, status, hostVars>>

(* With an empty routing table there is nobody to tell; the record may not *)
(* be signed; a put may fail, before or after the value was stored.        *)
LoopPut(l) ==
    /\ loopPc[l] = "put"
    /\ dht' \in {dht, [dht EXCEPT ![loopId[l]] = "record"]}
    /\ loopPc' = [loopPc EXCEPT ![l] = "wait"]
    /\ Unlock
    /\ UNCHANGED <<regCtx, callVars, loopId, loopOf, loopNew, rows, status, hostVars>>

-----------------------------------------------------------------------------
Deregister(c, i) ==
    /\ regPc[c] = "idle"
    /\ regPc' = [regPc EXCEPT ![c] = "deregister"]
    /\ regArg' = [regArg EXCEPT ![c] = i]
    /\ UNCHANGED <<regCtx, muVars, loopVars, dataVars, hostVars>>

DeregisterLock(c) ==
    /\ regPc[c] = "deregister"
    /\ LockBy(c)
    /\ regPc' = [regPc EXCEPT ![c] = "clear"]
    /\ UNCHANGED <<regCtx, regArg, loopVars, dataVars, hostVars>>

DeregisterPut(c) ==
    /\ regPc[c] = "clear"
    /\ \/ /\ dht' = [dht EXCEPT ![regArg[c]] = "empty"]
          /\ status' = [status EXCEPT ![regArg[c]] = "out"]
       \/ /\ dht' \in {dht, [dht EXCEPT ![regArg[c]] = "empty"]}
          /\ UNCHANGED status
    /\ Unlock
    /\ regPc' = [regPc EXCEPT ![c] = "idle"]
    /\ regArg' = [regArg EXCEPT ![c] = NoOne]
    /\ UNCHANGED <<regCtx, loopVars, rows, hostVars>>

(* As a mutant of QueryAnswer: a return that leaves the lock behind. *)
QueryKeep(c) ==
    /\ regPc[c] = "read"
    /\ regPc' = [regPc EXCEPT ![c] = "idle"]
    /\ UNCHANGED <<regCtx, regArg, muVars, loopVars, dataVars, hostVars>>

Query(c) ==
    /\ regPc[c] = "idle"
    /\ regPc' = [regPc EXCEPT ![c] = "query"]
    /\ UNCHANGED <<regCtx, regArg, muVars, loopVars, dataVars, hostVars>>

QueryLock(c) ==
    /\ regPc[c] = "query"
    /\ regWriter = NoOne
    /\ regReaders = {} \/ ~WriterWaits
    /\ regReaders' = regReaders \cup {c}
    /\ regPc' = [regPc EXCEPT ![c] = "read"]
    /\ UNCHANGED <<regCtx, regArg, regWriter, loopVars, dataVars, hostVars>>

QueryAnswer(c) ==
    /\ regPc[c] = "read"
    /\ regReaders' = regReaders \ {c}
    /\ regPc' = [regPc EXCEPT ![c] = "idle"]
    /\ UNCHANGED <<regCtx, regArg, regWriter, loopVars, dataVars, hostVars>>

-----------------------------------------------------------------------------
(* bootstrap and refreshRoutingTable, and the goroutine that stops mDNS.  *)
BootTick ==
    /\ bootPc = "run"
    /\ refreshing < MaxRefresh
    /\ refreshing' = refreshing + 1
    /\ UNCHANGED <<regCtx, callVars, muVars, loopVars, dataVars, bootPc, regMdns>>

(* As a mutant: a refresh that only waits for its answer, which does not   *)
(* come any more once the DHT is shut down with the context.               *)
RefreshWaits ==
    /\ refreshing > 0
    /\ ~regCtx
    /\ refreshing' = refreshing - 1
    /\ UNCHANGED <<regCtx, callVars, muVars, loopVars, dataVars, bootPc, regMdns>>

(* The refresh answers, or gives up after thirty seconds. *)
RefreshReturns ==
    /\ refreshing > 0
    /\ refreshing' = refreshing - 1
    /\ UNCHANGED <<regCtx, callVars, muVars, loopVars, dataVars, bootPc, regMdns>>

BootEnd ==
    /\ bootPc = "run"
    /\ regCtx
    /\ bootPc' = "done"
    /\ UNCHANGED <<regCtx, callVars, muVars, loopVars, dataVars, refreshing, regMdns>>

MdnsEnd ==
    /\ regCtx
    /\ regMdns
    /\ regMdns' = FALSE
    /\ UNCHANGED <<regCtx, callVars, muVars, loopVars, dataVars, bootPc, refreshing>>

RegCancel ==
    /\ ~regCtx
    /\ regCtx' = TRUE
    /\ UNCHANGED <<callVars, muVars, loopVars, dataVars, hostVars>>

-----------------------------------------------------------------------------
LoopWork(l) == LoopNow(l) \/ LoopTick(l) \/ LoopSelect(l) \/ LoopWrite(l) \/ LoopPut(l)
RegCall(c) ==
    \/ \E i \in RegIds : RegisterPeer(c, i) \/ Deregister(c, i)
    \/ Query(c)
RegLocks(c) == DeregisterLock(c) \/ QueryLock(c)
RegWork(c) == DeregisterPut(c) \/ QueryAnswer(c)

RegNext ==
    \/ \E c \in RegClients : RegCall(c) \/ RegLocks(c) \/ RegWork(c)
    \/ \E l \in RegLoops : LoopWork(l) \/ LoopLock(l) \/ LoopEnd(l)
    \/ BootTick \/ RefreshReturns \/ BootEnd \/ MdnsEnd \/ RegCancel

RegSpec == RegInit /\ [][RegNext]_regVars

(* Goroutines run; a select with several ready cases chooses at random, and *)
(* a mutex goes to everyone who waits for it, hence SF.  Ticks come, and    *)
(* nobody outside has to call, to answer or to cancel.                      *)
RegFairness ==
    /\ \A l \in RegLoops : /\ WF_regVars(LoopWork(l)) /\ SF_regVars(LoopNow(l))
                           /\ SF_regVars(LoopLock(l)) /\ SF_regVars(LoopEnd(l))
    /\ \A c \in RegClients : SF_regVars(RegLocks(c)) /\ WF_regVars(RegWork(c))
    /\ WF_regVars(RefreshReturns) /\ WF_regVars(BootEnd) /\ WF_regVars(MdnsEnd)
RegFairSpec == RegSpec /\ RegFairness

-----------------------------------------------------------------------------
(* The type of the state. *)
RegTypeOK ==
    /\ regCtx \in BOOLEAN
    /\ regPc \in [RegClients -> {"idle", "send", "deregister", "clear", "query", "read"}]
    /\ regArg \in [RegClients -> RegIds \cup {NoOne}]
    /\ regWriter \in RegClients \cup RegLoops \cup {NoOne}
    /\ regReaders \subseteq RegClients
    /\ loopPc \in [RegLoops -> {"none", "wait", "lock", "select", "write", "put", "done"}]
    /\ loopId \in [RegLoops -> RegIds \cup {NoOne}]
    /\ loopOf \in [RegLoops -> RegClients \cup {NoOne}]
    /\ loopNew \in [RegLoops -> BOOLEAN]
    /\ rows \in [RegIds -> Nat]
    /\ dht \in [RegIds -> {"none", "record", "empty"}]
    /\ regMdns \in BOOLEAN
    /\ status \in [RegIds -> {"in", "out", NoOne}]
    /\ bootPc \in {"run", "done"}
    /\ refreshing \in Nat

(* A peer has one row at most.  peer_id has no unique index, and           *)
(* setRegisterRecord looks first and creates afterwards: only r.mu, held   *)
(* from before the look, keeps two refresh goroutines of one peer apart.   *)
OneRowPerPeer == \A i \in RegIds : rows[i] <= 1

(* A registration that was answered is republished until the context is    *)
(* over, whatever failed meanwhile: a goroutine for it is alive, and no    *)
(* failed put or row ends it.                                              *)
RegisteredIsRefreshed ==
    \A i \in RegIds : status[i] = "in" =>
        regCtx \/ \E l \in RegLoops : loopId[l] = i /\ loopPc[l] \notin {"none", "done"}

(* "Deregister removes a peer from the registry" (native.go:447): once it  *)
(* has answered nil, nobody finds the record until somebody registers.     *)
DeregisteredStaysOut == \A i \in RegIds : status[i] = "out" => dht[i] # "record"

(* Every call returns: the mutex is always given back, and a refresh       *)
(* goroutine comes round to its doNow.  Only a Register that meets the end *)
(* of the context may wait for ever.                                       *)
RegistryCallsReturn ==
    \A c \in RegClients :
        regPc[c] # "idle" ~>
            regPc[c] = "idle" \/ (regCtx /\ regPc[c] = "send")

(* The end of the context ends every goroutine the registry has started.  *)
CancelEndsRegistry ==
    regCtx ~> /\ \A l \in RegLoops : loopPc[l] \in {"none", "done"}
              /\ bootPc = "done" /\ refreshing = 0 /\ ~regMdns
=============================================================================
