---------------------------- MODULE NativeProofs ----------------------------
(***************************************************************************)
(* The tables of the registry and of the bootstrap subserver, for any      *)
(* number of clients, peers, refresh goroutines and connections: what      *)
(* r.mu protects in setRegisterRecord, and what the order of the           *)
(* statements protects in savePeerInfo, which has no lock.                 *)
(***************************************************************************)
EXTENDS MCNative, NodeLifecycleProofs

-----------------------------------------------------------------------------
(* The connection table. *)

(* Events of one connection come one by one: the closing is reported after  *)
(* the opening, and once.                                                   *)
EventOrder ==
    \A k \in Links :
        /\ savePc[k] # "rest" /\ ~saveUp[k] => link[k] = "down"
        /\ ended[k] => savePc[k] = "rest" /\ link[k] = "down"

(* What an event has deleted stays deleted until it creates its row: no     *)
(* other event writes a row of this connection.                             *)
Cleared ==
    \A k \in Links : savePc[k] = "create" => \A r \in connRows : r.conn # k

BootInv == BootTypeOK /\ EventOrder /\ Cleared /\ OneRowPerConnection /\ NoGhostConnection

(* The model of savePeerInfo keeps its types, and no interleaving of events *)
(* and failures of statements leaves two rows of one connection or a closed *)
(* connection listed as active (store.go, savePeerInfo).                    *)
LEMMA BootInductive == BootSpec => []BootInv
<1>1. BootInit => BootInv
  BY DEF BootInit, BootInv, BootTypeOK, EventOrder, Cleared, OneRowPerConnection,
         NoGhostConnection, Row
<1>2. BootInv /\ [BootNext]_bootVars => BootInv'
  <2>. SUFFICES ASSUME BootInv, [BootNext]_bootVars PROVE BootInv'
    OBVIOUS
  <2>. USE DEF BootInv, BootTypeOK
  <2>1. ASSUME NEW k \in Links, Connected(k) PROVE BootInv'
    BY <2>1 DEF Connected, EventOrder, Cleared, OneRowPerConnection, NoGhostConnection, Row
  <2>2. ASSUME NEW k \in Links, LinkBreaks(k) PROVE BootInv'
    BY <2>2 DEF LinkBreaks, EventOrder, Cleared, OneRowPerConnection, NoGhostConnection, Row
  <2>3. ASSUME NEW k \in Links, Disconnected(k) PROVE BootInv'
    BY <2>3 DEF Disconnected, EventOrder, Cleared, OneRowPerConnection, NoGhostConnection, Row
  <2>4. ASSUME NEW k \in Links, Fails(k) PROVE BootInv'
    BY <2>4 DEF Fails, Return, EventOrder, Cleared, OneRowPerConnection, NoGhostConnection, Row
  <2>5. ASSUME NEW k \in Links, FindPeer(k) PROVE BootInv'
    BY <2>5 DEF FindPeer, Goto, EventOrder, Cleared, OneRowPerConnection, NoGhostConnection, Row
  <2>6. ASSUME NEW k \in Links, SavePeer(k) PROVE BootInv'
    BY <2>6 DEF SavePeer, Goto, EventOrder, Cleared, OneRowPerConnection, NoGhostConnection, Row
  <2>7. ASSUME NEW k \in Links, PeerExists(k) PROVE BootInv'
    BY <2>7 DEF PeerExists, Return, EventOrder, Cleared, OneRowPerConnection, NoGhostConnection, Row
  <2>8. ASSUME NEW k \in Links, DeleteRows(k) PROVE BootInv'
    <3>1. /\ connRows' = {} /\ savePc' = [savePc EXCEPT ![k] = "create"] /\ Meets(k)
          /\ UNCHANGED <<link, saveUp, known, ended, saveFailed, peerRows>>
      BY <2>8 DEF DeleteRows, Goto
    <3>2. \A j \in Links : Row(j, saveUp[j]) \in [conn : Links, active : BOOLEAN]
      BY DEF Row
    <3>3. met' \subseteq SUBSET [conn : Links, active : BOOLEAN]
      BY <3>1, <3>2 DEF Meets, Coming
    <3>4. BootTypeOK'
      BY <3>1, <3>3
    <3>. QED
      BY <2>8, <3>1, <3>4 DEF DeleteRows, EventOrder, Cleared, OneRowPerConnection, NoGhostConnection, Row
  <2>9. ASSUME NEW k \in Links, CreateRow(k) PROVE BootInv'
    <3>. DEFINE new == Row(k, saveUp[k])
    <3>1. /\ savePc[k] = "create" /\ connRows' = connRows \cup {new}
          /\ savePc' = [savePc EXCEPT ![k] = "rest"]
          /\ ended' = [ended EXCEPT ![k] = ~saveUp[k]]
          /\ saveFailed' = [saveFailed EXCEPT ![k] = FALSE]
          /\ known' = [known EXCEPT ![k] = FALSE]
          /\ UNCHANGED <<link, saveUp, peerRows, met>>
      BY <2>9 DEF CreateRow, Return
    <3>2. new.conn = k /\ new.active = saveUp[k] /\ new \in [conn : Links, active : BOOLEAN]
      BY DEF Row
    <3>3. \A r \in connRows : r.conn # k
      BY <3>1 DEF Cleared
    <3>4. BootTypeOK'
      BY <3>1, <3>2
    <3>5. EventOrder'
      BY <3>1 DEF EventOrder
    <3>6. Cleared'
      BY <3>1, <3>2 DEF Cleared
    <3>7. OneRowPerConnection'
      BY <3>1, <3>2, <3>3 DEF OneRowPerConnection
    <3>8. NoGhostConnection'
      BY <3>1, <3>2, <3>3 DEF NoGhostConnection, Row
    <3>. QED
      BY <3>4, <3>5, <3>6, <3>7, <3>8
  <2>10. CASE UNCHANGED bootVars
    BY <2>10 DEF bootVars, EventOrder, Cleared, OneRowPerConnection, NoGhostConnection, Row
  <2>. QED
    BY <2>1, <2>2, <2>3, <2>4, <2>5, <2>6, <2>7, <2>8, <2>9, <2>10 DEF BootNext
<1>. QED
  BY <1>1, <1>2, PTL DEF BootSpec

(* An event that is about to create its row has met every other such event  *)
(* and every row there is.                                                  *)
Window ==
    \A k \in Links : savePc[k] = "create" =>
        /\ \A r \in connRows : {Row(k, saveUp[k]), r} \in met
        /\ \A j \in Links \ {k} :
              savePc[j] = "create" => {Row(k, saveUp[k]), Row(j, saveUp[j])} \in met

LEMMA MetInductive == BootSpec => [](Window /\ TwoRowsMet)
<1>1. BootInit => Window /\ TwoRowsMet
  BY DEF BootInit, Window, TwoRowsMet
<1>2. BootInv /\ (Window /\ TwoRowsMet) /\ [BootNext]_bootVars => (Window /\ TwoRowsMet)'
  <2>. SUFFICES ASSUME BootInv, Window, TwoRowsMet, [BootNext]_bootVars
                PROVE  Window' /\ TwoRowsMet'
    OBVIOUS
  <2>0. savePc \in [Links -> {"rest", "find", "upsert", "delete", "create"}]
        /\ saveUp \in [Links -> BOOLEAN]
    BY DEF BootInv, BootTypeOK
  <2>1. ASSUME NEW k \in Links,
               Connected(k) \/ Disconnected(k) \/ Fails(k) \/ FindPeer(k) \/ SavePeer(k) \/ PeerExists(k)
        PROVE  Window' /\ TwoRowsMet'
    <3>1. UNCHANGED <<connRows, met>>
      BY <2>1 DEF Connected, Disconnected, Fails, FindPeer, SavePeer, PeerExists
    <3>2. savePc'[k] # "create"
      BY <2>0, <2>1 DEF Connected, Disconnected, Fails, FindPeer, SavePeer, PeerExists, Return, Goto
    <3>3. \A j \in Links \ {k} : savePc'[j] = savePc[j] /\ saveUp'[j] = saveUp[j]
      BY <2>0, <2>1 DEF Connected, Disconnected, Fails, FindPeer, SavePeer, PeerExists, Return, Goto
    <3>4. \A j \in Links \ {k} : Row(j, saveUp'[j]) = Row(j, saveUp[j])
      BY <3>3
    <3>. QED
      BY <3>1, <3>2, <3>3, <3>4 DEF Window, TwoRowsMet
  <2>2. ASSUME NEW k \in Links, DeleteRows(k) PROVE Window' /\ TwoRowsMet'
    <3>. DEFINE own == Row(k, saveUp[k])
    <3>1. connRows' = {} /\ saveUp' = saveUp
          /\ \A j \in Links \ {k} : savePc'[j] = savePc[j]
      BY <2>0, <2>2 DEF DeleteRows, Goto
    <3>2. met \subseteq met' /\ \A r \in Coming(k) : {own, r} \in met'
      BY <2>2 DEF DeleteRows, Meets
    <3>3. \A j \in Links \ {k} : savePc[j] = "create" => Row(j, saveUp[j]) \in Coming(k)
      BY DEF Coming
    <3>4. \A j \in Links \ {k} : savePc[j] = "create" =>
             {own, Row(j, saveUp[j])} \in met' /\ {Row(j, saveUp[j]), own} \in met'
      <4>1. \A j \in Links : {own, Row(j, saveUp[j])} = {Row(j, saveUp[j]), own}
        OBVIOUS
      <4>. QED
        BY <3>2, <3>3, <4>1
    <3>5. \A i \in Links \ {k} : \A j \in Links \ {i, k} : savePc[i] = "create" /\ savePc[j] = "create" =>
             {Row(i, saveUp[i]), Row(j, saveUp[j])} \in met'
      BY <3>2 DEF Window
    <3>. QED
      BY <3>1, <3>4, <3>5 DEF Window, TwoRowsMet
  <2>3. ASSUME NEW k \in Links, CreateRow(k) PROVE Window' /\ TwoRowsMet'
    <3>. DEFINE new == Row(k, saveUp[k])
    <3>1. /\ savePc[k] = "create" /\ connRows' = connRows \cup {new} /\ saveUp' = saveUp /\ met' = met
          /\ savePc'[k] = "rest" /\ \A j \in Links \ {k} : savePc'[j] = savePc[j]
      BY <2>0, <2>3 DEF CreateRow, Return
    <3>2. \A r \in connRows : {new, r} \in met /\ {r, new} \in met
      <4>1. \A r \in connRows : {new, r} = {r, new}
        OBVIOUS
      <4>. QED
        BY <3>1, <4>1 DEF Window
    <3>3. TwoRowsMet'
      BY <3>1, <3>2 DEF TwoRowsMet
    <3>4. \A j \in Links \ {k} : savePc[j] = "create" => {Row(j, saveUp[j]), new} \in met
      BY <3>1 DEF Window
    <3>. QED
      BY <3>1, <3>3, <3>4 DEF Window
  <2>4. CASE (\E k \in Links : LinkBreaks(k)) \/ UNCHANGED bootVars
    <3>1. UNCHANGED <<savePc, saveUp, connRows, met>>
      BY <2>4 DEF LinkBreaks, bootVars
    <3>. QED
      BY <3>1 DEF Window, TwoRowsMet
  <2>. QED
    BY <2>1, <2>2, <2>3, <2>4 DEF BootNext
<1>. QED
  BY <1>1, <1>2, BootInductive, PTL DEF BootSpec

(* One row per connection, a second row only where two events stood         *)
(* together between deletion and creation, and none that lists a saved,     *)
(* closed connection as active unless its own closing event failed: for any *)
(* number of connections of the peer (store.go:57-69).                      *)
THEOREM TableTells == BootSpec => []RowsOfEvents
<1>1. BootInv /\ Window /\ TwoRowsMet => RowsOfEvents
  BY DEF BootInv, RowsOfEvents
<1>. QED
  BY <1>1, BootInductive, MetInductive, PTL

-----------------------------------------------------------------------------
(* The registry. *)

InRegister == {"select", "write", "put"}

(* r.mu: who is past Lock is the writer it names.                           *)
Exclusion ==
    /\ \A l \in RegLoops : loopPc[l] \in InRegister => regWriter = l
    /\ \A c \in RegClients : regPc[c] = "clear" => regWriter = c

(* A goroutine has the identifier it was started with, and what it saw of   *)
(* the table is still true when it writes.                                  *)
LoopKnows ==
    \A l \in RegLoops :
        /\ loopPc[l] # "none" => loopId[l] \in RegIds
        /\ loopNew[l] => loopPc[l] = "write" /\ rows[loopId[l]] = 0

ArgKnown == \A c \in RegClients : regPc[c] \in {"deregister", "clear"} => regArg[c] \in RegIds

RegInv == RegTypeOK /\ Exclusion /\ LoopKnows /\ ArgKnown /\ OneRowPerPeer

(* The registry keeps its types and r.mu excludes, so that what             *)
(* setRegisterRecord has seen of the table holds when it writes             *)
(* (native.go:723, store.go:26-43).                                         *)
LEMMA RegInductive == RegSpec => []RegInv
<1>. USE RegistryAssumption
<1>1. RegInit => RegInv
  <2>. SUFFICES ASSUME RegInit PROVE RegInv
    OBVIOUS
  <2>1. RegTypeOK
    BY DEF RegInit, RegTypeOK
  <2>2. OneRowPerPeer
    BY DEF RegInit, OneRowPerPeer
  <2>3. Exclusion /\ LoopKnows /\ ArgKnown
    BY DEF RegInit, Exclusion, LoopKnows, ArgKnown, InRegister
  <2>. QED
    BY <2>1, <2>2, <2>3 DEF RegInv
<1>2. RegInv /\ [RegNext]_regVars => RegInv'
  <2>. SUFFICES ASSUME RegInv, [RegNext]_regVars PROVE RegInv'
    OBVIOUS
  <2>. USE DEF RegInv, RegTypeOK, callVars, muVars, loopVars, dataVars, hostVars
  <2>1. ASSUME NEW c \in RegClients, NEW i \in RegIds, RegisterPeer(c, i)
        PROVE  RegInv'
    <3>1. PICK l \in RegLoops :
             /\ loopPc[l] = "none"
             /\ loopPc' = [loopPc EXCEPT ![l] = "wait"]
             /\ loopId' = [loopId EXCEPT ![l] = i]
             /\ loopOf' = [loopOf EXCEPT ![l] = c]
      BY <2>1 DEF RegisterPeer
    <3>2. /\ regPc' = [regPc EXCEPT ![c] = "send"]
          /\ UNCHANGED <<regCtx, regArg, regWriter, regReaders, loopNew, rows, dht,
                         status, bootPc, refreshing, regMdns>>
      BY <2>1 DEF RegisterPeer
    <3>. QED
      BY <3>1, <3>2 DEF Exclusion, LoopKnows, ArgKnown, OneRowPerPeer, InRegister
  <2>2. ASSUME NEW l \in RegLoops, LoopNow(l) PROVE RegInv'
    BY <2>2 DEF LoopNow, Exclusion, LoopKnows, ArgKnown, OneRowPerPeer, InRegister
  <2>3. ASSUME NEW l \in RegLoops, LoopTick(l) PROVE RegInv'
    BY <2>3 DEF LoopTick, Exclusion, LoopKnows, ArgKnown, OneRowPerPeer, InRegister
  <2>4. ASSUME NEW l \in RegLoops, LoopEnd(l) PROVE RegInv'
    BY <2>4 DEF LoopEnd, Exclusion, LoopKnows, ArgKnown, OneRowPerPeer, InRegister
  <2>5. ASSUME NEW l \in RegLoops, LoopLock(l) PROVE RegInv'
    BY <2>5 DEF LoopLock, LockBy, Free, Exclusion, LoopKnows, ArgKnown, OneRowPerPeer, InRegister
  <2>6. ASSUME NEW l \in RegLoops, LoopSelect(l) PROVE RegInv'
    <3>1. /\ loopPc[l] = "select"
          /\ UNCHANGED <<regCtx, regPc, regArg, regWriter, regReaders, loopId, loopOf, rows,
                         dht, status, bootPc, refreshing, regMdns>>
      BY <2>6 DEF LoopSelect
    <3>2. CASE /\ loopNew' = [loopNew EXCEPT ![l] = rows[loopId[l]] = 0]
               /\ loopPc' = [loopPc EXCEPT ![l] = "write"]
      <4>1. loopNew' \in [RegLoops -> BOOLEAN]
        BY <3>2
      <4>2. /\ \A k \in RegLoops \ {l} : loopNew'[k] = loopNew[k] /\ loopPc'[k] = loopPc[k]
            /\ loopNew'[l] => rows[loopId[l]] = 0
            /\ loopPc'[l] = "write"
        BY <3>2
      <4>. QED
        BY <3>1, <3>2, <4>1, <4>2
        DEF Exclusion, LoopKnows, ArgKnown, OneRowPerPeer, InRegister
    <3>3. CASE loopNew' = loopNew /\ loopPc' = [loopPc EXCEPT ![l] = "put"]
      BY <3>1, <3>3 DEF Exclusion, LoopKnows, ArgKnown, OneRowPerPeer, InRegister
    <3>. QED
      BY <2>6, <3>2, <3>3 DEF LoopSelect
  <2>7. ASSUME NEW l \in RegLoops, LoopWrite(l) PROVE RegInv'
    <3>1. /\ loopPc[l] = "write" /\ loopId[l] \in RegIds
          /\ loopPc' = [loopPc EXCEPT ![l] = "put"]
          /\ loopNew' = [loopNew EXCEPT ![l] = FALSE]
          /\ UNCHANGED <<regCtx, regPc, regArg, regWriter, regReaders, loopId, loopOf,
                         dht, status, bootPc, refreshing, regMdns>>
      BY <2>7 DEF LoopWrite, LoopKnows
    <3>2. CASE rows' = rows
      BY <3>1, <3>2 DEF Exclusion, LoopKnows, ArgKnown, OneRowPerPeer, InRegister
    <3>3. CASE loopNew[l] /\ rows' = [rows EXCEPT ![loopId[l]] = @ + 1]
      <4>1. \A k \in RegLoops \ {l} : ~loopNew[k]
        BY <3>1 DEF Exclusion, LoopKnows, InRegister
      <4>2. rows' \in [RegIds -> Nat] /\ OneRowPerPeer'
        BY <3>1, <3>3 DEF LoopKnows, OneRowPerPeer
      <4>. QED
        BY <3>1, <4>1, <4>2 DEF Exclusion, LoopKnows, ArgKnown, InRegister
    <3>. QED
      BY <2>7, <3>1, <3>2, <3>3 DEF LoopWrite
  <2>8. ASSUME NEW l \in RegLoops, LoopPut(l) PROVE RegInv'
    BY <2>8 DEF LoopPut, Unlock, Exclusion, LoopKnows, ArgKnown, OneRowPerPeer, InRegister
  <2>9. ASSUME NEW c \in RegClients, NEW i \in RegIds, Deregister(c, i)
        PROVE  RegInv'
    BY <2>9 DEF Deregister, Exclusion, LoopKnows, ArgKnown, OneRowPerPeer, InRegister
  <2>10. ASSUME NEW c \in RegClients, DeregisterLock(c) PROVE RegInv'
    BY <2>10 DEF DeregisterLock, LockBy, Free, Exclusion, LoopKnows, ArgKnown, OneRowPerPeer, InRegister
  <2>11. ASSUME NEW c \in RegClients, DeregisterPut(c) PROVE RegInv'
    BY <2>11 DEF DeregisterPut, Unlock, Exclusion, LoopKnows, ArgKnown, OneRowPerPeer, InRegister
  <2>12. ASSUME NEW c \in RegClients, Query(c) \/ QueryLock(c) \/ QueryAnswer(c)
         PROVE  RegInv'
    BY <2>12 DEF Query, QueryLock, QueryAnswer, Exclusion, LoopKnows, ArgKnown, OneRowPerPeer, InRegister
  <2>13. CASE BootTick \/ RefreshReturns \/ BootEnd \/ MdnsEnd \/ RegCancel
    <3>1. UNCHANGED <<regPc, regArg, regWriter, regReaders, loopPc, loopId, loopOf, loopNew,
                      rows, dht, status>>
      BY <2>13 DEF BootTick, RefreshReturns, BootEnd, MdnsEnd, RegCancel
    <3>2. regCtx' \in BOOLEAN /\ regMdns' \in BOOLEAN /\ bootPc' \in {"run", "done"}
      BY <2>13 DEF BootTick, RefreshReturns, BootEnd, MdnsEnd, RegCancel
    <3>3. refreshing' \in Nat
      BY <2>13 DEF BootTick, RefreshReturns, BootEnd, MdnsEnd, RegCancel
    <3>. QED
      BY <3>1, <3>2, <3>3 DEF Exclusion, LoopKnows, ArgKnown, OneRowPerPeer
  <2>14. CASE UNCHANGED regVars
    BY <2>14 DEF regVars, Exclusion, LoopKnows, ArgKnown, OneRowPerPeer, InRegister
  <2>. QED
    BY <2>1, <2>2, <2>3, <2>4, <2>5, <2>6, <2>7, <2>8, <2>9, <2>10, <2>11, <2>12, <2>13, <2>14
    DEF RegNext, RegCall, RegLocks, RegWork, LoopWork
<1>. QED
  BY <1>1, <1>2, PTL DEF RegSpec

(* One row per peer, although peer_id has no unique index.                  *)
THEOREM PeersOnce == RegSpec => []OneRowPerPeer
BY RegInductive, PTL DEF RegInv

(* An answered registration is refreshed until the context is over,         *)
(* whatever puts and rows fail (native.go:416-443).                         *)
THEOREM RegistrationsLast == RegSpec => []RegisteredIsRefreshed
<1>1. RegInit => RegisteredIsRefreshed
  BY RegistryAssumption DEF RegInit, RegisteredIsRefreshed
<1>2. RegTypeOK /\ RegisteredIsRefreshed /\ [RegNext]_regVars => RegisteredIsRefreshed'
  <2>. SUFFICES ASSUME RegTypeOK, RegisteredIsRefreshed, [RegNext]_regVars,
                       NEW i \in RegIds, status'[i] = "in", ~regCtx'
                PROVE  \E l \in RegLoops : loopId'[l] = i /\ loopPc'[l] \notin {"none", "done"}
    BY DEF RegisteredIsRefreshed
  <2>. USE DEF RegTypeOK, callVars, muVars, loopVars, dataVars, hostVars
  <2>1. CASE UNCHANGED <<loopPc, loopId>> /\ ~regCtx /\ status[i] = "in"
    BY <2>1 DEF RegisteredIsRefreshed
  <2>2. ASSUME NEW c \in RegClients, NEW j \in RegIds, RegisterPeer(c, j)
        PROVE  \E l \in RegLoops : loopId'[l] = i /\ loopPc'[l] \notin {"none", "done"}
    <3>1. PICK l \in RegLoops :
             /\ loopPc[l] = "none"
             /\ loopPc' = [loopPc EXCEPT ![l] = "wait"]
             /\ loopId' = [loopId EXCEPT ![l] = j]
      BY <2>2 DEF RegisterPeer
    <3>2. status[i] = "in" /\ ~regCtx
      BY <2>2 DEF RegisterPeer
    <3>. QED
      BY <3>1, <3>2 DEF RegisteredIsRefreshed
  <2>3. ASSUME NEW l \in RegLoops, LoopNow(l)
        PROVE  \E k \in RegLoops : loopId'[k] = i /\ loopPc'[k] \notin {"none", "done"}
    BY <2>3 DEF LoopNow, RegisteredIsRefreshed
  <2>4. ASSUME NEW l \in RegLoops,
               LoopTick(l) \/ LoopLock(l) \/ LoopSelect(l) \/ LoopWrite(l) \/ LoopPut(l)
        PROVE  \E k \in RegLoops : loopId'[k] = i /\ loopPc'[k] \notin {"none", "done"}
    BY <2>4 DEF LoopTick, LoopLock, LoopSelect, LoopWrite, LoopPut, RegisteredIsRefreshed
  <2>5. ASSUME NEW l \in RegLoops, LoopEnd(l) PROVE FALSE
    BY <2>5 DEF LoopEnd
  <2>6. ASSUME NEW c \in RegClients, NEW j \in RegIds, Deregister(c, j) \/ DeregisterLock(c) \/ DeregisterPut(c)
        PROVE  UNCHANGED <<loopPc, loopId>> /\ ~regCtx /\ status[i] = "in"
    BY <2>6 DEF Deregister, DeregisterLock, DeregisterPut
  <2>. QED
    BY <2>1, <2>2, <2>3, <2>4, <2>5, <2>6
    DEF RegNext, regVars, RegCall, RegLocks, RegWork, LoopWork, Query, QueryLock, QueryAnswer,
        BootTick, RefreshReturns, BootEnd, MdnsEnd, RegCancel
<1>3. RegInv => RegTypeOK
  BY DEF RegInv
<1>. QED
  BY <1>1, <1>2, <1>3, RegInductive, PTL DEF RegSpec

-----------------------------------------------------------------------------
(* r.mu, seen from the mutex: a writer it names is inside register or       *)
(* Deregister, the readers it counts are the calls of Query that read, and  *)
(* the two exclude each other.                                              *)
MutexHeld ==
    /\ regWriter # NoOne => regReaders = {}
    /\ regWriter \in RegLoops => loopPc[regWriter] \in InRegister
    /\ regWriter \in RegClients => regPc[regWriter] = "clear"
    /\ regReaders = {c \in RegClients : regPc[c] = "read"}

(* A Register that waits on doNow has a goroutine at the other end, which   *)
(* leaves it alone only when the context is over (native.go:416-443).       *)
Heard ==
    \A c \in RegClients : regPc[c] = "send" =>
        \E l \in RegLoops : /\ loopOf[l] = c /\ loopPc[l] # "none"
                            /\ loopPc[l] = "done" => regCtx
(* Nobody but the caller it was started for waits on a goroutine's doNow.   *)
Awaited ==
    /\ \A l \in RegLoops : loopOf[l] # NoOne => loopPc[l] # "none" /\ regPc[loopOf[l]] = "send"
    /\ \A k, l \in RegLoops : loopOf[k] # NoOne /\ loopOf[k] = loopOf[l] => k = l

MuInv == MutexHeld /\ Heard /\ Awaited

LEMMA MuInductive == RegSpec => []MuInv
<1>. USE RegistryAssumption
<1>1. RegInit => MuInv
  BY DEF RegInit, MuInv, MutexHeld, Heard, Awaited
<1>2. RegInv /\ MuInv /\ [RegNext]_regVars => MuInv'
  <2>. SUFFICES ASSUME RegTypeOK, Exclusion, MuInv, [RegNext]_regVars PROVE MuInv'
    BY DEF RegInv
  <2>. USE DEF RegTypeOK, callVars, muVars, loopVars, dataVars, hostVars
  <2>1. ASSUME NEW c \in RegClients, NEW i \in RegIds, RegisterPeer(c, i)
        PROVE  MuInv'
    <3>1. PICK l \in RegLoops :
             /\ loopPc[l] = "none"
             /\ loopPc' = [loopPc EXCEPT ![l] = "wait"]
             /\ loopOf' = [loopOf EXCEPT ![l] = c]
      BY <2>1 DEF RegisterPeer
    <3>2. /\ regPc[c] = "idle" /\ regPc' = [regPc EXCEPT ![c] = "send"]
          /\ UNCHANGED <<regCtx, regWriter, regReaders>>
      BY <2>1 DEF RegisterPeer
    <3>3. MutexHeld'
      BY <3>1, <3>2 DEF MuInv, MutexHeld, InRegister
    <3>4. Awaited'
      BY <3>1, <3>2 DEF MuInv, Awaited
    <3>5. Heard'
      <4>1. ASSUME NEW d \in RegClients, d # c, regPc[d] = "send"
            PROVE  \E k \in RegLoops : /\ loopOf'[k] = d /\ loopPc'[k] # "none"
                                       /\ loopPc'[k] = "done" => regCtx'
        BY <3>1, <3>2, <4>1 DEF MuInv, Heard
      <4>2. loopOf'[l] = c /\ loopPc'[l] = "wait"
        BY <3>1
      <4>. QED
        BY <3>2, <4>1, <4>2 DEF Heard
    <3>. QED
      BY <3>3, <3>4, <3>5 DEF MuInv
  <2>2. ASSUME NEW l \in RegLoops, LoopNow(l) PROVE MuInv'
    <3>1. /\ loopPc[l] = "wait" /\ loopOf[l] \in RegClients
          /\ regPc[loopOf[l]] = "send"
          /\ loopPc' = [loopPc EXCEPT ![l] = "lock"]
          /\ regPc' = [regPc EXCEPT ![loopOf[l]] = "idle"]
          /\ loopOf' = [loopOf EXCEPT ![l] = NoOne]
          /\ UNCHANGED <<regCtx, regWriter, regReaders>>
      BY <2>2 DEF LoopNow, MuInv, Awaited
    <3>2. MutexHeld'
      BY <3>1 DEF MuInv, MutexHeld, InRegister
    <3>3. Awaited'
      BY <3>1 DEF MuInv, Awaited
    <3>4. Heard'
      <4>1. ASSUME NEW d \in RegClients, regPc'[d] = "send"
            PROVE  \E k \in RegLoops : /\ loopOf'[k] = d /\ loopPc'[k] # "none"
                                       /\ loopPc'[k] = "done" => regCtx'
        <5>1. d # loopOf[l] /\ regPc[d] = "send"
          BY <3>1, <4>1
        <5>2. PICK k \in RegLoops : /\ loopOf[k] = d /\ loopPc[k] # "none"
                                    /\ loopPc[k] = "done" => regCtx
          BY <5>1 DEF MuInv, Heard
        <5>. QED
          BY <3>1, <5>1, <5>2
      <4>. QED
        BY <4>1 DEF Heard
    <3>. QED
      BY <3>2, <3>3, <3>4 DEF MuInv
  <2>3. ASSUME NEW l \in RegLoops,
               LoopTick(l) \/ LoopEnd(l) \/ LoopSelect(l) \/ LoopWrite(l)
        PROVE  MuInv'
    <3>1. /\ UNCHANGED <<regCtx, regPc, regWriter, regReaders, loopOf>>
          /\ \E to \in {"lock", "done", "write", "put"} : loopPc' = [loopPc EXCEPT ![l] = to]
          /\ loopPc[l] \in {"wait", "select", "write"}
          /\ loopPc'[l] = "done" => regCtx
          /\ loopPc[l] \in InRegister => loopPc'[l] \in InRegister
      BY <2>3 DEF LoopTick, LoopEnd, LoopSelect, LoopWrite, InRegister
    <3>. QED
      BY <3>1 DEF MuInv, MutexHeld, Heard, Awaited, InRegister
  <2>4. ASSUME NEW l \in RegLoops, LoopLock(l) PROVE MuInv'
    BY <2>4 DEF LoopLock, LockBy, Free, MuInv, MutexHeld, Heard, Awaited, InRegister
  <2>5. ASSUME NEW l \in RegLoops, LoopPut(l) PROVE MuInv'
    <3>1. regWriter = l
      BY <2>5 DEF LoopPut, Exclusion, InRegister
    <3>. QED
      BY <2>5, <3>1 DEF LoopPut, Unlock, MuInv, MutexHeld, Heard, Awaited, InRegister
  <2>6. ASSUME NEW c \in RegClients, NEW i \in RegIds, Deregister(c, i)
        PROVE  MuInv'
    BY <2>6 DEF Deregister, MuInv, MutexHeld, Heard, Awaited
  <2>7. ASSUME NEW c \in RegClients, DeregisterLock(c) PROVE MuInv'
    BY <2>7 DEF DeregisterLock, LockBy, Free, MuInv, MutexHeld, Heard, Awaited
  <2>8. ASSUME NEW c \in RegClients, DeregisterPut(c) PROVE MuInv'
    <3>1. regWriter = c
      BY <2>8 DEF DeregisterPut, Exclusion
    <3>. QED
      BY <2>8, <3>1 DEF DeregisterPut, Unlock, MuInv, MutexHeld, Heard, Awaited
  <2>9. ASSUME NEW c \in RegClients, Query(c) \/ QueryLock(c) \/ QueryAnswer(c)
        PROVE  MuInv'
    BY <2>9 DEF Query, QueryLock, QueryAnswer, MuInv, MutexHeld, Heard, Awaited
  <2>10. CASE BootTick \/ RefreshReturns \/ BootEnd \/ MdnsEnd \/ RegCancel
    <3>1. /\ UNCHANGED <<regPc, regWriter, regReaders, loopPc, loopOf>>
          /\ regCtx => regCtx'
      BY <2>10 DEF BootTick, RefreshReturns, BootEnd, MdnsEnd, RegCancel
    <3>. QED
      BY <3>1 DEF MuInv, MutexHeld, Heard, Awaited
  <2>11. CASE UNCHANGED regVars
    BY <2>11 DEF regVars, MuInv, MutexHeld, Heard, Awaited
  <2>. QED
    BY <2>1, <2>2, <2>3, <2>4, <2>5, <2>6, <2>7, <2>8, <2>9, <2>10, <2>11
    DEF RegNext, RegCall, RegLocks, RegWork, LoopWork
<1>. QED
  BY <1>1, <1>2, RegInductive, PTL DEF RegSpec

(* r.mu is never left behind, and a Register never waits on a goroutine     *)
(* that is gone while the context lives: the two things every call of the   *)
(* registry waits for.                                                      *)
THEOREM RegistryCallsAreHeard == RegSpec => [](MutexHeld /\ Heard)
BY MuInductive, PTL DEF MuInv
-----------------------------------------------------------------------------
(* What a station runs beside its handlers: every step is a step of the     *)
(* node's life, of the registry or of the subserver, which share nothing    *)
(* here, so each keeps what is proved of it alone.                          *)
THEOREM NativeRunsItsParts == NativeSpec => Spec /\ RegSpec /\ BootSpec
<1>1. NativeInit => Init /\ RegInit /\ BootInit
  BY DEF NativeInit
<1>2. [NativeNext]_nativeVars => [Next]_vars /\ [RegNext]_regVars /\ [BootNext]_bootVars
  BY DEF NativeNext, nativeVars
<1>. QED
  BY <1>1, <1>2, PTL DEF NativeSpec, Spec, RegSpec, BootSpec

(* The state of the three is of the declared type.                          *)
THEOREM NativeTypes == NativeSpec => []NativeTypeOK
<1>1. TypeOK /\ RegInv /\ BootInv => NativeTypeOK
  BY DEF RegInv, BootInv, NativeTypeOK
<1>. QED
  BY <1>1, NativeRunsItsParts, NodeTypes, RegInductive, BootInductive, PTL
=============================================================================
