---------------------------- MODULE TouchProofs ----------------------------
(***************************************************************************)
(* The handlers of the station that read, wait and write without a lock or *)
(* a transaction: what each leaves behind, for any number of calls at any  *)
(* distance from each other.                                               *)
(***************************************************************************)
EXTENDS MCTouch, WellFoundedInduction, TLAPS

(* The registry of nodes: an object is in the map under the identifier it   *)
(* was made for, and an update of a node that nothing raced with holds the  *)
(* object of the map.                                                       *)
NodeInv ==
    /\ NodeTypeOK
    /\ \A i \in NodeIds : nodes[i] # NoNode => madeFor[nodes[i]] = i
    /\ \A u \in Updaters : updPc[u] # "rest" => updating[u] # NoNode
    /\ \A u \in Updaters : updating[u] # NoNode =>
          /\ madeFor[updating[u]] \in NodeIds
          /\ ~raced[madeFor[updating[u]]] => nodes[madeFor[updating[u]]] = updating[u]
    /\ \A o \in Objects : madeFor[o] = NoNode => beats[o] = 0
    /\ NodesAreNewest

LEMMA NodeInductive == NodeSpec => []NodeInv
<1>. USE NodeRegistryAssumption DEF NodeInv, NodeTypeOK, NodesAreNewest
<1>1. NodeInit => NodeInv
  <2>. SUFFICES ASSUME NodeInit PROVE NodeInv
    OBVIOUS
  <2>1. raced \in [NodeIds -> BOOLEAN]
    BY DEF NodeInit
  <2>. QED
    BY <2>1 DEF NodeInit
<1>2. NodeInv /\ [NodeNext]_nodeVars => NodeInv'
  <2>. SUFFICES ASSUME NodeInv, [NodeNext]_nodeVars PROVE NodeInv'
    OBVIOUS
  <2>1. ASSUME NEW i \in NodeIds, RegisterNode(i) PROVE NodeInv'
    <3>1. PICK o \in Objects :
             /\ madeFor[o] = NoNode
             /\ madeFor' = [madeFor EXCEPT ![o] = i]
             /\ nodes' = [nodes EXCEPT ![i] = o]
             /\ newest' = [newest EXCEPT ![i] = o]
             /\ beaten' = [beaten EXCEPT ![i] = 0]
             /\ raced' = [raced EXCEPT ![i] = UnderUpdate(i)]
             /\ UNCHANGED <<beats, updating, updPc>>
      BY <2>1 DEF RegisterNode
    <3>2. UnderUpdate(i) \in BOOLEAN
      BY DEF UnderUpdate
    <3>3. NodeTypeOK'
      BY <3>1, <3>2
    <3>4. \A u \in Updaters : updating[u] # NoNode => updating[u] # o
      BY <3>1
    <3>5. ASSUME NEW u \in Updaters, updating[u] # NoNode
          PROVE /\ madeFor'[updating[u]] = madeFor[updating[u]]
                /\ ~raced'[madeFor[updating[u]]] =>
                      nodes'[madeFor[updating[u]]] = updating[u]
      <4>1. CASE madeFor[updating[u]] = i
        BY <3>1, <3>4, <3>5, <4>1 DEF UnderUpdate
      <4>2. CASE madeFor[updating[u]] # i
        BY <3>1, <3>4, <3>5, <4>2
      <4>. QED
        BY <4>1, <4>2
    <3>6. \A j \in NodeIds : j # i =>
             /\ nodes'[j] = nodes[j] /\ newest'[j] = newest[j]
             /\ beaten'[j] = beaten[j] /\ raced'[j] = raced[j]
             /\ nodes[j] # NoNode => madeFor'[nodes[j]] = j
      BY <3>1
    <3>7. nodes'[i] = o /\ newest'[i] = o /\ beaten'[i] = 0 /\ madeFor'[o] = i /\ beats'[o] = 0
      BY <3>1
    <3>8. \A q \in Objects : madeFor'[q] = NoNode => beats'[q] = 0
      BY <3>1
    <3>9. NodesAreNewest'
      BY <3>1, <3>6, <3>7
    <3>. QED
      BY <3>1, <3>3, <3>5, <3>6, <3>7, <3>8, <3>9
  <2>2. ASSUME NEW i \in NodeIds, UnregisterNode(i) PROVE NodeInv'
    <3>1. UnderUpdate(i) \in BOOLEAN
      BY DEF UnderUpdate
    <3>2. NodeTypeOK'
      BY <2>2, <3>1 DEF UnregisterNode
    <3>3. ASSUME NEW u \in Updaters, updating[u] # NoNode
          PROVE ~raced'[madeFor[updating[u]]] =>
                      nodes'[madeFor[updating[u]]] = updating[u]
      <4>1. CASE madeFor[updating[u]] = i
        BY <2>2, <3>3, <4>1 DEF UnregisterNode, UnderUpdate
      <4>2. CASE madeFor[updating[u]] # i
        BY <2>2, <3>3, <4>2 DEF UnregisterNode
      <4>. QED
        BY <4>1, <4>2
    <3>. QED
      BY <2>2, <3>2, <3>3 DEF UnregisterNode
  <2>3. ASSUME NEW i \in NodeIds, Heartbeat(i) PROVE NodeInv'
    <3>1. nodes[i] \in Objects /\ beats[nodes[i]] \in Nat
      BY <2>3 DEF Heartbeat
    <3>2. NodeTypeOK'
      BY <2>3, <3>1 DEF Heartbeat
    <3>3. \A j \in NodeIds : j # i /\ nodes[j] # NoNode =>
             beats'[nodes[j]] = beats[nodes[j]] /\ beaten'[j] = beaten[j]
      BY <2>3 DEF Heartbeat
    <3>4. beats'[nodes[i]] = beats[nodes[i]] + 1 /\ beaten'[i] = beaten[i] + 1
      BY <2>3, <3>1 DEF Heartbeat
    <3>5. NodesAreNewest'
      BY <2>3, <3>3, <3>4 DEF Heartbeat
    <3>. QED
      BY <2>3, <3>2, <3>5 DEF Heartbeat
  <2>4. ASSUME NEW u \in Updaters, NEW i \in NodeIds, UpdateGet(u, i) PROVE NodeInv'
    BY <2>4 DEF UpdateGet
  <2>5. ASSUME NEW u \in Updaters, UpdateRefused(u) \/ UpdateFields(u) PROVE NodeInv'
    BY <2>5 DEF UpdateRefused, UpdateFields
  <2>6. ASSUME NEW u \in Updaters, UpdateStore(u) PROVE NodeInv'
    <3>. DEFINE i == madeFor[updating[u]]
    <3>1. updating[u] \in Objects /\ i \in NodeIds
      BY <2>6 DEF UpdateStore
    <3>2. nodes' = [nodes EXCEPT ![i] = updating[u]]
      BY <2>6 DEF UpdateStore
    <3>3. ~raced[i] => nodes' = nodes
      BY <3>1, <3>2
    <3>4. UNCHANGED <<madeFor, beats, newest, beaten, raced>>
      BY <2>6 DEF UpdateStore
    <3>5. NodeTypeOK'
      BY <2>6, <3>1, <3>2 DEF UpdateStore
    <3>6. \A j \in NodeIds : nodes'[j] # NoNode => madeFor[nodes'[j]] = j
      BY <3>1, <3>2
    <3>7. \A j \in NodeIds : ~raced[j] => nodes'[j] = nodes[j]
      BY <3>1, <3>2, <3>3
    <3>8. \A v \in Updaters :
             /\ updPc'[v] # "rest" => updating'[v] # NoNode
             /\ updating'[v] # NoNode => updating'[v] = updating[v]
      BY <2>6 DEF UpdateStore
    <3>. HIDE DEF i
    <3>. QED
      BY <3>4, <3>5, <3>6, <3>7, <3>8
  <2>7. CASE UNCHANGED nodeVars
    BY <2>7 DEF nodeVars
  <2>. QED
    BY <2>1, <2>2, <2>3, <2>4, <2>5, <2>6, <2>7 DEF NodeNext
<1>. QED
  BY <1>1, <1>2, PTL DEF NodeSpec

(* What the registry shows of a node (registry.go:60, node_registry.go:40). *)
THEOREM NodesNewest == NodeSpec => []NodesAreNewest
BY NodeInductive, PTL DEF NodeInv

-----------------------------------------------------------------------------
(* The providers: while no two calls overlapped, the copy an update holds   *)
(* is the row but for the field it changes.                                 *)
ProvInv ==
    /\ ProvTypeOK
    /\ \A e \in Editors : edPc[e] = "save" =>
          edCopy[e] \in [Fields -> Nat] /\ edField[e] \in Fields
    /\ ~provMade => provRow = NoRow /\ \A e \in Editors : edPc[e] = "rest"
    /\ ~overlap => \A e \in Editors : edPc[e] = "save" =>
          /\ provRow # NoRow
          /\ edCopy[e] = [provRow EXCEPT ![edField[e]] = edCopy[e][edField[e]]]
    /\ ProviderAsAsked

LEMMA ProvInductive == ProvSpec => []ProvInv
<1>. USE ProvidersAssumption DEF ProvInv, ProvTypeOK, ProviderAsAsked, Rows
<1>1. ProvInit => ProvInv
  BY DEF ProvInit
<1>2. ProvInv /\ [ProvNext]_provVars => ProvInv'
  <2>. SUFFICES ASSUME ProvInv, [ProvNext]_provVars PROVE ProvInv'
    OBVIOUS
  <2>1. CASE CreateProvider
    BY <2>1 DEF CreateProvider, Blank
  <2>2. CASE DeleteProvider
    BY <2>2 DEF DeleteProvider
  <2>3. ASSUME NEW e \in Editors, NEW f \in Fields, UpdateFind(e, f) PROVE ProvInv'
    <3>1. provRow \in [Fields -> Nat] /\ [provRow EXCEPT ![f] = provRow[f] + 1] \in [Fields -> Nat]
      BY <2>3 DEF UpdateFind
    <3>. DEFINE copy == [provRow EXCEPT ![f] = provRow[f] + 1]
    <3>2. copy = [provRow EXCEPT ![f] = copy[f]]
      BY <3>1
    <3>3. edCopy' = [edCopy EXCEPT ![e] = copy]
      BY <2>3 DEF UpdateFind
    <3>4. copy \in [Fields -> Nat]
      BY <3>1
    <3>. HIDE DEF copy
    <3>5. /\ edPc[e] = "rest" /\ provRow # NoRow /\ provMade
          /\ edPc' = [edPc EXCEPT ![e] = "save"] /\ edField' = [edField EXCEPT ![e] = f]
          /\ UNCHANGED <<provRow, provMade, wanted, overlap>>
      BY <2>3 DEF UpdateFind
    <3>6. ProvTypeOK'
      BY <3>3, <3>4, <3>5
    <3>7. \A d \in Editors : d # e =>
             edPc'[d] = edPc[d] /\ edCopy'[d] = edCopy[d] /\ edField'[d] = edField[d]
      BY <3>3, <3>5
    <3>8. edCopy'[e] = copy /\ edField'[e] = f
      BY <3>3, <3>5
    <3>9. \A d \in Editors : edPc'[d] = "save" =>
             edCopy'[d] \in [Fields -> Nat] /\ edField'[d] \in Fields
      BY <3>4, <3>7, <3>8
    <3>10. ~overlap' => \A d \in Editors : edPc'[d] = "save" =>
             /\ provRow' # NoRow
             /\ edCopy'[d] = [provRow' EXCEPT ![edField'[d]] = edCopy'[d][edField'[d]]]
      <4>1. edCopy'[e] = [provRow' EXCEPT ![edField'[e]] = edCopy'[e][edField'[e]]]
        BY <3>2, <3>5, <3>8
      <4>2. ASSUME NEW d \in Editors, d # e, ~overlap', edPc'[d] = "save"
            PROVE  edCopy'[d] = [provRow' EXCEPT ![edField'[d]] = edCopy'[d][edField'[d]]]
        BY <3>5, <3>7, <4>2
      <4>. QED
        BY <3>5, <4>1, <4>2
    <3>11. (~provMade => provRow = NoRow /\ \A d \in Editors : edPc[d] = "rest")'
      BY <3>5
    <3>12. ProviderAsAsked'
      BY <3>5
    <3>. QED
      BY <3>6, <3>9, <3>10, <3>11, <3>12
  <2>4. ASSUME NEW e \in Editors, UpdateFailed(e) PROVE ProvInv'
    BY <2>4 DEF UpdateFailed, Forget
  <2>5. ASSUME NEW e \in Editors, UpdateSave(e) PROVE ProvInv'
    <3>1. edCopy[e] \in [Fields -> Nat] /\ edField[e] \in Fields
      BY <2>5 DEF UpdateSave
    <3>2. wanted' \in Rows
      BY <2>5, <3>1 DEF UpdateSave, Promise
    <3>3. ASSUME ~overlap' PROVE wanted' = provRow'
      <4>1. ~overlap /\ ~Busy(e)
        BY <2>5, <3>3 DEF UpdateSave, Promise
      <4>2. wanted = provRow /\ provRow # NoRow
        BY <2>5, <4>1 DEF UpdateSave
      <4>3. wanted' = [provRow EXCEPT ![edField[e]] = edCopy[e][edField[e]]]
        BY <2>5, <4>2 DEF UpdateSave, Promise
      <4>. QED
        BY <2>5, <4>1, <4>3 DEF UpdateSave
    <3>4. ~overlap' => \A d \in Editors : edPc'[d] = "rest"
      BY <2>5 DEF UpdateSave, Promise, Busy, Forget
    <3>5. overlap' \in BOOLEAN
      BY <2>5 DEF UpdateSave, Promise, Busy
    <3>6. edPc' = [edPc EXCEPT ![e] = "rest"] /\ edCopy' = [edCopy EXCEPT ![e] = NoRow]
          /\ edField' = [edField EXCEPT ![e] = NoRow] /\ provRow' = edCopy[e]
          /\ provMade' = provMade /\ provMade
      BY <2>5 DEF UpdateSave, Forget
    <3>. QED
      BY <3>1, <3>2, <3>3, <3>4, <3>5, <3>6
  <2>6. CASE UNCHANGED provVars
    BY <2>6 DEF provVars
  <2>. QED
    BY <2>1, <2>2, <2>3, <2>4, <2>5, <2>6 DEF ProvNext
<1>. QED
  BY <1>1, <1>2, PTL DEF ProvSpec

(* An answered update is in the row, a deleted row stays away               *)
(* (provider_service.go:86).                                                *)
THEOREM ProvidersAsAsked == ProvSpec => []ProviderAsAsked
BY ProvInductive, PTL DEF ProvInv

-----------------------------------------------------------------------------
MsgInv == MsgTypeOK /\ clock \in Nat /\ clock > 0 /\ MissedOnlyLateOrTied

LEMMA MsgInductive == MsgSpec => []MsgInv
<1>. USE MessagingAssumption DEF MsgInv, MsgTypeOK, MissedOnlyLateOrTied
<1>1. MsgInit => MsgInv
  BY DEF MsgInit
<1>2. MsgInv /\ [MsgNext]_msgVars => MsgInv'
  <2>. SUFFICES ASSUME MsgInv, [MsgNext]_msgVars PROVE MsgInv'
    OBVIOUS
  <2>1. CASE MsgTick
    BY <2>1 DEF MsgTick
  <2>2. ASSUME NEW s \in Senders, NEW u \in Ulids, AppendStamp(s, u) PROVE MsgInv'
    BY <2>2 DEF AppendStamp
  <2>3. ASSUME NEW s \in Senders, AppendInsert(s) PROVE MsgInv'
    <3>. DEFINE u == sendUlid[s]
    <3>1. u \in Ulids /\ sendTs[s] \in Nat
      BY <2>3 DEF AppendInsert
    <3>2. MsgTypeOK'
      BY <2>3 DEF AppendInsert
    <3>3. CASE u \notin stored /\ stored' = stored \cup {u} /\ tsOf' = [tsOf EXCEPT ![u] = sendTs[s]]
               /\ late' = IF sendTs[s] <= cursor THEN late \cup {u} ELSE late
      <4>1. \A w \in stored : tsOf'[w] = tsOf[w]
        BY <3>1, <3>3
      <4>2. tsOf'[u] = sendTs[s] /\ (sendTs[s] <= cursor => u \in late') /\ late \subseteq late'
        BY <3>1, <3>3
      <4>3. cursor' = cursor /\ got' = got /\ clock' = clock
        BY <2>3 DEF AppendInsert
      <4>. QED
        BY <3>1, <3>2, <3>3, <4>1, <4>2, <4>3
    <3>4. CASE UNCHANGED <<stored, tsOf, late>>
      BY <2>3, <3>2, <3>4 DEF AppendInsert
    <3>. QED
      BY <2>3, <3>3, <3>4 DEF AppendInsert
  <2>4. CASE ListMessages
    <3>1. PICK p \in SUBSET Later :
             /\ IsPage(p) /\ got' = got \cup p
             /\ \E u \in p : (\A w \in p : tsOf[w] <= tsOf[u]) /\ cursor' = tsOf[u]
      BY <2>4 DEF ListMessages
    <3>2. PICK last \in p : (\A w \in p : tsOf[w] <= tsOf[last]) /\ cursor' = tsOf[last]
      BY <3>1
    <3>3. p \subseteq stored /\ UNCHANGED <<clock, sendUlid, sendTs, stored, tsOf, late>>
      BY <2>4 DEF ListMessages, Later
    <3>4. MsgTypeOK'
      BY <3>1, <3>2, <3>3
    <3>5. ASSUME NEW u \in stored \ got', tsOf[u] <= cursor'
          PROVE u \in late \/ \E w \in got' : tsOf[w] = tsOf[u]
      <4>1. CASE tsOf[u] <= cursor
        BY <3>1, <3>5, <4>1
      <4>2. CASE ~(tsOf[u] <= cursor)
        <5>1. u \in Later \ p
          BY <3>1, <3>5, <4>2 DEF Later
        <5>2. tsOf[last] <= tsOf[u]
          BY <3>1, <3>2, <5>1 DEF IsPage
        <5>3. tsOf[last] = tsOf[u]
          BY <3>2, <3>3, <3>5, <5>2
        <5>. QED
          BY <3>1, <3>2, <5>3
      <4>. QED
        BY <4>1, <4>2
    <3>. QED
      BY <3>3, <3>4, <3>5
  <2>5. CASE UNCHANGED msgVars
    BY <2>5 DEF msgVars
  <2>. QED
    BY <2>1, <2>2, <2>3, <2>4, <2>5 DEF MsgNext
<1>. QED
  BY <1>1, <1>2, PTL DEF MsgSpec

(* What a reader who pages by time misses (message_repo.go).                *)
THEOREM MissedLateOrTied == MsgSpec => []MissedOnlyLateOrTied
BY MsgInductive, PTL DEF MsgInv

-----------------------------------------------------------------------------
(* Sign-ups and peer addresses: two calls that are under way have met, so a *)
(* call that found nothing has met every call that writes after its look.   *)
AccInv ==
    /\ AccTypeOK
    /\ \A c \in Calls : met[c] \subseteq Calls /\ (accPc[c] = "new" => met[c] = {})
    /\ \A c, d \in Calls : d \in met[c] => c \in met[d]
    /\ \A c, d \in Underway : c # d => d \in met[c]
    /\ \A c \in SignUps : accPc[c] \in Answered \cup {"check", "create", "profile"}
    /\ \A c \in AddrSets : accPc[c] \in Answered \cup {"look", "save"}
    /\ \A c \in actors : accPc[c] \in {"profile", "ok", "error"}
    /\ \A c \in addrs : accPc[c] \in {"ok"}
    /\ \A c \in SignUps : accPc[c] = "profile" => c \in actors
    /\ \A c \in SignUps, d \in actors : c # d /\ accPc[c] = "create"
          /\ (name[d] = name[c] \/ email[d] = email[c]) => d \in met[c]
    /\ \A c \in AddrSets, d \in addrs : c # d /\ accPc[c] = "save"
          /\ peerAddr[d] = peerAddr[c] => d \in met[c]
    /\ SignupOutcome
    /\ AddressRowsMet

(* A call that starts meets those under way, and they meet it.              *)
LEMMA Meeting ==
    ASSUME AccInv, NEW c \in Calls, NEW to, to \notin {"new", "ok", "exists", "error"},
           Goes(c, "new", to), Meets(c)
    PROVE  /\ met' \in [Calls -> SUBSET Calls]
           /\ \A d \in Calls : met[d] \subseteq met'[d] /\ (accPc'[d] = "new" => met'[d] = {})
           /\ \A d, e \in Calls : e \in met'[d] => d \in met'[e]
           /\ \A d, e \in Underway' : d # e => e \in met'[d]
<1>. USE DEF AccInv, AccTypeOK, Underway, Answered
<1>1. c \notin Underway /\ met[c] = {} /\ Underway' = Underway \cup {c}
  BY DEF Goes
<1>2. met'[c] = Underway /\ \A d \in Calls : d # c =>
         met'[d] = IF d \in Underway THEN met[d] \cup {c} ELSE met[d]
  BY DEF Meets
<1>3. met' \in [Calls -> SUBSET Calls]
  BY DEF Meets
<1>4. \A d \in Calls : accPc'[d] = "new" => d # c /\ d \notin Underway /\ met[d] = {}
  BY DEF Goes
<1>5. \A d \in Calls : c \notin met[d]
  BY <1>1
<1>6. (\A d, e \in Calls : e \in met[d] => d \in met[e])
      /\ Underway \subseteq Calls /\ \A d, e \in Underway : d # e => e \in met[d]
  OBVIOUS
<1>. HIDE DEF Underway, AccInv, AccTypeOK
<1>7. \A d, e \in Calls : e \in met'[d] => d \in met'[e]
  <2>. SUFFICES ASSUME NEW d \in Calls, NEW e \in Calls, e \in met'[d]
                PROVE  d \in met'[e]
    OBVIOUS
  <2>1. CASE d = c
    <3>1. e \in Underway /\ e # c
      BY <1>1, <1>2, <2>1
    <3>2. met'[e] = met[e] \cup {c}
      BY <1>2, <3>1
    <3>. QED
      BY <2>1, <3>2
  <2>2. CASE d # c /\ e = c
    BY <1>2, <1>5, <2>2
  <2>3. CASE d # c /\ e # c
    <3>1. e \in met[d]
      BY <1>2, <2>3
    <3>2. d \in met[e]
      BY <1>6, <3>1
    <3>3. met[e] \subseteq met'[e]
      BY <1>2, <2>3
    <3>. QED
      BY <3>2, <3>3
  <2>. QED
    BY <2>1, <2>2, <2>3
<1>8. \A d, e \in Underway' : d # e => e \in met'[d]
  <2>. SUFFICES ASSUME NEW d \in Underway', NEW e \in Underway', d # e
                PROVE  e \in met'[d]
    OBVIOUS
  <2>1. CASE d = c
    BY <1>1, <1>2, <2>1
  <2>2. CASE d # c
    <3>1. d \in Underway /\ d \in Calls /\ (e = c \/ e \in Underway)
      BY <1>1, <1>6, <2>2
    <3>2. met'[d] = met[d] \cup {c}
      BY <1>2, <2>2, <3>1
    <3>. QED
      BY <1>6, <3>1, <3>2
  <2>. QED
    BY <2>1, <2>2
<1>. QED
  BY <1>1, <1>2, <1>3, <1>4, <1>7, <1>8

(* A step of a call under way adds no call to those under way.              *)
LEMMA GoingOn ==
    ASSUME AccInv, NEW c \in Calls, NEW from, NEW to, from \notin {"new", "ok", "exists", "error"},
           to # "new", Goes(c, from, to)
    PROVE  /\ Underway' \subseteq Underway /\ c \in Underway
           /\ accPc'[c] = to /\ \A d \in Calls : d # c => accPc'[d] = accPc[d]
BY DEF AccInv, AccTypeOK, Underway, Answered, Goes

(* What the calls leave behind (actor.go:20, peer.go:17).                   *)
LEMMA AccInductive == AccSpec => []AccInv
<1>. USE AccountsAssumption DEF AccTypeOK, SignupOutcome, AddressRowsMet, accArgs, accRows
<1>1. AccInit => AccInv
  BY DEF AccInit, AccInv, Underway, Answered, Calls
<1>2. AccInv /\ [AccNext]_accVars => AccInv'
  <2>. SUFFICES ASSUME AccInv, [AccNext]_accVars PROVE AccInv'
    OBVIOUS
  <2>1. ASSUME NEW c \in SignUps, NEW n \in Names, NEW e \in Emails, SignUp(c, n, e)
        PROVE  AccInv'
    <3>1. c \in Calls /\ c \notin AddrSets /\ Goes(c, "new", "check") /\ Meets(c)
      BY <2>1 DEF SignUp, Calls
    <3>2. /\ met' \in [Calls -> SUBSET Calls]
          /\ \A d \in Calls : met[d] \subseteq met'[d] /\ (accPc'[d] = "new" => met'[d] = {})
          /\ \A d, f \in Calls : f \in met'[d] => d \in met'[f]
          /\ \A d, f \in Underway' : d # f => f \in met'[d]
      BY <3>1, Meeting
    <3>3. accPc' = [accPc EXCEPT ![c] = "check"] /\ accPc[c] = "new"
      BY <3>1 DEF Goes
    <3>4. c \notin actors
      BY <3>3 DEF AccInv
    <3>5. /\ name' = [name EXCEPT ![c] = n] /\ email' = [email EXCEPT ![c] = e]
          /\ UNCHANGED <<peerAddr, actors, profiles, addrs>>
      BY <2>1 DEF SignUp
    <3>6. AccTypeOK'
      BY <3>2, <3>3, <3>5 DEF AccInv
    <3>7. \A d \in SignUps : d # c => name'[d] = name[d] /\ email'[d] = email[d]
      BY <3>5 DEF AccInv
    <3>8. accPc'[c] = "check" /\ \A d \in Calls : d # c => accPc'[d] = accPc[d]
      BY <3>1, <3>3 DEF AccInv
    <3>9. /\ \A d \in SignUps : accPc'[d] \in Answered \cup {"check", "create", "profile"}
          /\ \A d \in AddrSets : accPc'[d] \in Answered \cup {"look", "save"}
          /\ \A d \in actors' : accPc'[d] \in {"profile", "ok", "error"}
          /\ \A d \in SignUps : accPc'[d] = "profile" => d \in actors'
          /\ \A d \in addrs' : accPc'[d] \in {"ok"}
      BY <3>1, <3>4, <3>5, <3>8 DEF AccInv, Calls
    <3>10. \A d \in SignUps, f \in actors' : d # f /\ accPc'[d] = "create"
              /\ (name'[f] = name'[d] \/ email'[f] = email'[d]) => f \in met'[d]
      BY <3>2, <3>4, <3>5, <3>7, <3>8 DEF AccInv, Calls
    <3>11. \A d \in AddrSets, f \in addrs' : d # f /\ accPc'[d] = "save"
              /\ peerAddr'[f] = peerAddr'[d] => f \in met'[d]
      BY <3>1, <3>2, <3>5, <3>8 DEF AccInv, Calls
    <3>12. SignupOutcome'
      BY <3>2, <3>4, <3>5, <3>7, <3>8 DEF AccInv, Calls
    <3>13. AddressRowsMet'
      BY <3>2, <3>5 DEF AccInv, Calls
    <3>. QED
      BY <3>2, <3>6, <3>9, <3>10, <3>11, <3>12, <3>13 DEF AccInv
  <2>2. ASSUME NEW c \in AddrSets, NEW a \in PeerAddrs, SetPeerAddr(c, a)
        PROVE  AccInv'
    <3>1. c \in Calls /\ c \notin SignUps /\ Goes(c, "new", "look") /\ Meets(c)
      BY <2>2 DEF SetPeerAddr, Calls
    <3>2. /\ met' \in [Calls -> SUBSET Calls]
          /\ \A d \in Calls : met[d] \subseteq met'[d] /\ (accPc'[d] = "new" => met'[d] = {})
          /\ \A d, f \in Calls : f \in met'[d] => d \in met'[f]
          /\ \A d, f \in Underway' : d # f => f \in met'[d]
      BY <3>1, Meeting
    <3>3. accPc' = [accPc EXCEPT ![c] = "look"] /\ accPc[c] = "new"
      BY <3>1 DEF Goes
    <3>4. c \notin addrs
      BY <3>3 DEF AccInv
    <3>5. /\ peerAddr' = [peerAddr EXCEPT ![c] = a]
          /\ UNCHANGED <<name, email, actors, profiles, addrs>>
      BY <2>2 DEF SetPeerAddr
    <3>6. AccTypeOK'
      BY <3>2, <3>3, <3>5 DEF AccInv
    <3>7. \A d \in AddrSets : d # c => peerAddr'[d] = peerAddr[d]
      BY <3>5 DEF AccInv
    <3>8. accPc'[c] = "look" /\ \A d \in Calls : d # c => accPc'[d] = accPc[d]
      BY <3>1, <3>3 DEF AccInv
    <3>9. /\ \A d \in SignUps : accPc'[d] \in Answered \cup {"check", "create", "profile"}
          /\ \A d \in AddrSets : accPc'[d] \in Answered \cup {"look", "save"}
          /\ \A d \in actors' : accPc'[d] \in {"profile", "ok", "error"}
          /\ \A d \in SignUps : accPc'[d] = "profile" => d \in actors'
          /\ \A d \in addrs' : accPc'[d] \in {"ok"}
      BY <3>1, <3>4, <3>5, <3>8 DEF AccInv, Calls
    <3>10. \A d \in SignUps, f \in actors' : d # f /\ accPc'[d] = "create"
              /\ (name'[f] = name'[d] \/ email'[f] = email'[d]) => f \in met'[d]
      BY <3>1, <3>2, <3>5, <3>8 DEF AccInv, Calls
    <3>11. \A d \in AddrSets, f \in addrs' : d # f /\ accPc'[d] = "save"
              /\ peerAddr'[f] = peerAddr'[d] => f \in met'[d]
      BY <3>2, <3>4, <3>5, <3>7, <3>8 DEF AccInv, Calls
    <3>12. SignupOutcome'
      BY <3>1, <3>2, <3>5, <3>8 DEF AccInv, Calls
    <3>13. AddressRowsMet'
      BY <3>2, <3>4, <3>5, <3>7 DEF AccInv, Calls
    <3>. QED
      BY <3>2, <3>6, <3>9, <3>10, <3>11, <3>12, <3>13 DEF AccInv
  <2>3. ASSUME NEW c \in SignUps, CheckExisting(c) PROVE AccInv'
    <3>1. PICK to \in {"exists", "create", "error"} :
             /\ Goes(c, "check", to)
             /\ to = "exists" => Taken(c)
             /\ to = "create" => ~Taken(c)
      BY <2>3 DEF CheckExisting
    <3>2. c \in Calls /\ c \notin AddrSets /\ UNCHANGED <<name, email, peerAddr, met, actors, profiles, addrs>>
      BY <2>3 DEF CheckExisting, Calls
    <3>3. /\ Underway' \subseteq Underway
          /\ accPc'[c] = to /\ \A d \in Calls : d # c => accPc'[d] = accPc[d]
      BY <3>1, <3>2, GoingOn
    <3>4. accPc[c] = "check" /\ c \notin actors /\ accPc' = [accPc EXCEPT ![c] = to]
      BY <3>1 DEF Goes, AccInv
    <3>5. AccTypeOK'
      BY <3>2, <3>4 DEF AccInv, Answered
    <3>6. /\ \A d \in SignUps : accPc'[d] \in Answered \cup {"check", "create", "profile"}
          /\ \A d \in AddrSets : accPc'[d] \in Answered \cup {"look", "save"}
          /\ \A d \in actors' : accPc'[d] \in {"profile", "ok", "error"}
          /\ \A d \in SignUps : accPc'[d] = "profile" => d \in actors'
          /\ \A d \in addrs' : accPc'[d] \in {"ok"}
          /\ \A d \in Calls : accPc'[d] = "new" => accPc[d] = "new"
      BY <3>1, <3>2, <3>3, <3>4 DEF AccInv, Calls, Answered
    <3>7. SignupOutcome'
      BY <3>1, <3>2, <3>3, <3>4 DEF AccInv, Calls, Taken
    <3>8. \A d \in SignUps, f \in actors' : d # f /\ accPc'[d] = "create"
              /\ (name'[f] = name'[d] \/ email'[f] = email'[d]) => f \in met'[d]
      BY <3>1, <3>2, <3>3, <3>4 DEF AccInv, Calls, Taken
    <3>. QED
      BY <3>2, <3>3, <3>5, <3>6, <3>7, <3>8 DEF AccInv, Calls
  <2>4. ASSUME NEW c \in SignUps, CreateActor(c) PROVE AccInv'
    <3>1. PICK to \in {"profile", "error"} :
             /\ Goes(c, "create", to)
             /\ to = "profile" => actors' = actors \cup {c} /\ \A d \in actors : email[d] # email[c]
             /\ to = "error" => actors' = actors
      BY <2>4 DEF CreateActor
    <3>2. c \in Calls /\ c \notin AddrSets /\ UNCHANGED <<name, email, peerAddr, met, profiles, addrs>>
      BY <2>4 DEF CreateActor, Calls
    <3>3. /\ Underway' \subseteq Underway /\ c \in Underway
          /\ accPc'[c] = to /\ \A d \in Calls : d # c => accPc'[d] = accPc[d]
      BY <3>1, <3>2, GoingOn
    <3>4. accPc[c] = "create" /\ c \notin actors /\ accPc' = [accPc EXCEPT ![c] = to]
      BY <3>1 DEF Goes, AccInv
    <3>5. AccTypeOK'
      BY <3>1, <3>2, <3>4 DEF AccInv, Answered
    <3>6. /\ \A d \in SignUps : accPc'[d] \in Answered \cup {"check", "create", "profile"}
          /\ \A d \in AddrSets : accPc'[d] \in Answered \cup {"look", "save"}
          /\ \A d \in actors' : accPc'[d] \in {"profile", "ok", "error"}
          /\ \A d \in SignUps : accPc'[d] = "profile" => d \in actors'
          /\ \A d \in addrs' : accPc'[d] \in {"ok"}
          /\ \A d \in Calls : accPc'[d] = "new" => accPc[d] = "new"
      BY <3>1, <3>2, <3>3, <3>4 DEF AccInv, Calls, Answered
    <3>7. \A d \in SignUps : d # c /\ accPc[d] = "create" => c \in met[d]
      <4>1. \A d \in SignUps : accPc[d] = "create" => d \in Underway
        BY DEF Underway, Answered, Calls
      <4>. QED
        BY <3>3, <4>1 DEF AccInv
    <3>8. \A d \in SignUps, f \in actors' : d # f /\ accPc'[d] = "create"
              /\ (name'[f] = name'[d] \/ email'[f] = email'[d]) => f \in met'[d]
      BY <3>1, <3>2, <3>3, <3>7 DEF AccInv, Calls
    <3>9. SignupOutcome'
      <4>1. \A d, f \in actors' : d # f =>
               email'[d] # email'[f] /\ (name'[d] = name'[f] => f \in met'[d])
        <5>1. \A d \in actors : name[d] = name[c] => d \in met[c] /\ c \in met[d]
          BY <3>2, <3>4 DEF AccInv, Calls
        <5>. QED
          BY <3>1, <3>2, <5>1 DEF AccInv
      <4>2. \A d \in actors' \ profiles' : accPc'[d] \in {"profile", "error"}
        BY <3>1, <3>2, <3>3 DEF AccInv, Calls
      <4>3. \A d \in SignUps : accPc'[d] = "exists" =>
               \E f \in actors' \ {d} : name'[f] = name'[d] \/ email'[f] = email'[d]
        BY <3>1, <3>2, <3>3 DEF AccInv, Calls
      <4>. QED
        BY <4>1, <4>2, <4>3
    <3>. QED
      BY <3>2, <3>3, <3>5, <3>6, <3>8, <3>9 DEF AccInv, Calls
  <2>5. ASSUME NEW c \in SignUps, CreateProfile(c) PROVE AccInv'
    <3>1. PICK to \in {"ok", "error"} :
             /\ Goes(c, "profile", to)
             /\ to = "ok" => profiles' = profiles \cup {c}
             /\ to = "error" => profiles' = profiles
      BY <2>5 DEF CreateProfile
    <3>2. c \in Calls /\ c \notin AddrSets /\ UNCHANGED <<name, email, peerAddr, met, actors, addrs>>
      BY <2>5 DEF CreateProfile, Calls
    <3>3. /\ Underway' \subseteq Underway
          /\ accPc'[c] = to /\ \A d \in Calls : d # c => accPc'[d] = accPc[d]
      BY <3>1, <3>2, GoingOn
    <3>4. accPc[c] = "profile" /\ accPc' = [accPc EXCEPT ![c] = to]
      BY <3>1 DEF Goes
    <3>5. AccTypeOK'
      BY <3>1, <3>2, <3>4 DEF AccInv, Answered
    <3>. QED
      BY <3>1, <3>2, <3>3, <3>4, <3>5 DEF AccInv, Calls, Answered
  <2>6. ASSUME NEW c \in AddrSets, FindAddr(c) PROVE AccInv'
    <3>1. PICK to \in {"exists", "save", "error"} :
             /\ Goes(c, "look", to)
             /\ to = "save" => \A d \in addrs : peerAddr[d] # peerAddr[c]
      BY <2>6 DEF FindAddr
    <3>2. c \in Calls /\ c \notin SignUps /\ UNCHANGED <<name, email, peerAddr, met, actors, profiles, addrs>>
      BY <2>6 DEF FindAddr, Calls
    <3>3. /\ Underway' \subseteq Underway
          /\ accPc'[c] = to /\ \A d \in Calls : d # c => accPc'[d] = accPc[d]
      BY <3>1, <3>2, GoingOn
    <3>4. accPc[c] = "look" /\ c \notin addrs /\ accPc' = [accPc EXCEPT ![c] = to]
      BY <3>1 DEF Goes, AccInv
    <3>5. AccTypeOK'
      BY <3>2, <3>4 DEF AccInv, Answered
    <3>. QED
      BY <3>1, <3>2, <3>3, <3>4, <3>5 DEF AccInv, Calls, Answered
  <2>7. ASSUME NEW c \in AddrSets, CreateAddr(c) PROVE AccInv'
    <3>1. PICK to \in {"ok", "error"} :
             /\ Goes(c, "save", to)
             /\ to = "ok" => addrs' = addrs \cup {c}
             /\ to = "error" => addrs' = addrs
      BY <2>7 DEF CreateAddr
    <3>2. c \in Calls /\ c \notin SignUps /\ UNCHANGED <<name, email, peerAddr, met, actors, profiles>>
      BY <2>7 DEF CreateAddr, Calls
    <3>3. /\ Underway' \subseteq Underway /\ c \in Underway
          /\ accPc'[c] = to /\ \A d \in Calls : d # c => accPc'[d] = accPc[d]
      BY <3>1, <3>2, GoingOn
    <3>4. accPc[c] = "save" /\ c \notin addrs /\ accPc' = [accPc EXCEPT ![c] = to]
      BY <3>1 DEF Goes, AccInv
    <3>5. AccTypeOK'
      BY <3>1, <3>2, <3>4 DEF AccInv, Answered
    <3>6. \A d \in AddrSets : d # c /\ accPc[d] = "save" => c \in met[d]
      <4>1. \A d \in AddrSets : accPc[d] = "save" => d \in Underway
        BY DEF Underway, Answered, Calls
      <4>. QED
        BY <3>3, <4>1 DEF AccInv
    <3>7. \A d \in AddrSets, f \in addrs' : d # f /\ accPc'[d] = "save"
              /\ peerAddr'[f] = peerAddr'[d] => f \in met'[d]
      BY <3>1, <3>2, <3>3, <3>6 DEF AccInv, Calls
    <3>8. AddressRowsMet'
      <4>1. \A d \in addrs : peerAddr[d] = peerAddr[c] => d \in met[c] /\ c \in met[d]
        BY <3>2, <3>4 DEF AccInv, Calls
      <4>. QED
        BY <3>1, <3>2, <4>1 DEF AccInv
    <3>9. SignupOutcome'
      BY <3>2, <3>3 DEF AccInv, Calls
    <3>10. /\ \A d \in SignUps : accPc'[d] \in Answered \cup {"check", "create", "profile"}
           /\ \A d \in AddrSets : accPc'[d] \in Answered \cup {"look", "save"}
           /\ \A d \in actors' : accPc'[d] \in {"profile", "ok", "error"}
           /\ \A d \in addrs' : accPc'[d] \in {"ok"}
           /\ \A d \in Calls : accPc'[d] = "new" => accPc[d] = "new"
      BY <3>1, <3>2, <3>3, <3>4 DEF AccInv, Calls, Answered
    <3>. QED
      BY <3>2, <3>3, <3>5, <3>7, <3>8, <3>9, <3>10 DEF AccInv, Calls
  <2>8. CASE UNCHANGED accVars
    BY <2>8 DEF accVars, AccInv, Underway
  <2>. QED
    BY <2>1, <2>2, <2>3, <2>4, <2>5, <2>6, <2>7, <2>8 DEF AccNext, SignUpSteps, AddrSteps
<1>. QED
  BY <1>1, <1>2, PTL DEF AccSpec

(* No email has two actors; two actors of one name come of sign-ups that    *)
(* overlapped; "exists" is true (actor.go:20).                              *)
THEOREM SignupsEnd == AccSpec => []SignupOutcome
BY AccInductive, PTL DEF AccInv

(* One address has two rows only from calls that overlapped (peer.go:17).   *)
THEOREM AddressesMet == AccSpec => []AddressRowsMet
BY AccInductive, PTL DEF AccInv

-----------------------------------------------------------------------------
(* The sessions of users: one that was created and is in the map no more    *)
(* was removed or has expired, and a validator that saw one expired or live *)
(* still may say so.                                                        *)
StoreInv ==
    /\ time \in Nat /\ time > 0
    /\ live \subseteq SessionIds /\ removed \subseteq SessionIds
    /\ expiresAt \in [SessionIds -> Nat]
    /\ \A s \in live : expiresAt[s] # 0 /\ s \notin removed
    /\ \A s \in removed : expiresAt[s] # 0
    /\ \A s \in SessionIds : s \in live \/ expiresAt[s] = 0 \/ s \in removed \/ IsExpired(s)

CallsInv ==
    /\ valPc \in [Validators -> {"idle", "get", "expired", "check"}]
    /\ valId \in [Validators -> SessionIds \cup {NoSession}]
    /\ knewGone \in [Validators -> BOOLEAN]
    /\ answer \in [Validators -> {"none", "not found", "expired", "ok"}]
    /\ \A v \in Validators : valPc[v] # "idle" =>
          /\ valId[v] \in SessionIds
          /\ knewGone[v] => valId[v] \in removed
          /\ valPc[v] = "expired" => expiresAt[valId[v]] # 0 /\ IsExpired(valId[v])
          /\ valPc[v] = "check" => ~knewGone[v]

AuthInv == StoreInv /\ CallsInv

(* Time only passes: what is created and expired stays expired.             *)
LEMMA StaysExpired ==
    ASSUME StoreInv, AuthNext, NEW s \in SessionIds, expiresAt[s] # 0
    PROVE  expiresAt'[s] = expiresAt[s] /\ (IsExpired(s) => IsExpired(s)')
<1>1. expiresAt'[s] = expiresAt[s]
  BY DEF StoreInv, AuthNext, Passes, Cleanup, CreateSession, DeleteSession, ValidateSession,
         Get, GetDeletes, CheckExpiry
<1>2. time' = time \/ time' = time + 1
  BY DEF AuthNext, Passes, Cleanup, CreateSession, DeleteSession, ValidateSession,
         Get, GetDeletes, CheckExpiry
<1>. QED
  BY <1>1, <1>2 DEF StoreInv, IsExpired

LEMMA AuthInductive == AuthSpec => []AuthInv
<1>. USE AuthAssumption DEF AuthInv
<1>1. AuthInit => AuthInv
  <2>. SUFFICES ASSUME AuthInit PROVE AuthInv
    OBVIOUS
  <2>1. StoreInv
    BY DEF AuthInit, StoreInv, IsExpired
  <2>2. CallsInv
    BY DEF AuthInit, CallsInv
  <2>. QED
    BY <2>1, <2>2
<1>2. AuthInv /\ [AuthNext]_authVars => AuthInv'
  <2>. SUFFICES ASSUME AuthInv, [AuthNext]_authVars PROVE AuthInv'
    OBVIOUS
  <2>1. ASSUME AuthNext PROVE StoreInv'
    <3>1. CASE Passes
      BY <2>1, <3>1, StaysExpired DEF StoreInv, Passes
    <3>2. CASE Cleanup
      BY <2>1, <3>2, StaysExpired DEF StoreInv, Cleanup
    <3>3. ASSUME NEW s \in SessionIds, CreateSession(s) PROVE StoreInv'
      <4>1. expiresAt[s] = 0 /\ expiresAt' = [expiresAt EXCEPT ![s] = time + Ttl]
            /\ live' = live \cup {s} /\ time' = time /\ removed' = removed
        BY <3>3 DEF CreateSession
      <4>2. time + Ttl \in Nat /\ time + Ttl # 0
        BY DEF StoreInv
      <4>. QED
        BY <2>1, <4>1, <4>2, StaysExpired DEF StoreInv
    <3>4. ASSUME NEW s \in SessionIds, DeleteSession(s) PROVE StoreInv'
      <4>1. expiresAt[s] # 0
        BY <3>4 DEF DeleteSession, StoreInv
      <4>. QED
        BY <2>1, <3>4, <4>1, StaysExpired DEF StoreInv, DeleteSession
    <3>5. ASSUME NEW v \in Validators, NEW s \in SessionIds, ValidateSession(v, s)
          PROVE  StoreInv'
      BY <2>1, <3>5, StaysExpired DEF StoreInv, ValidateSession
    <3>6. ASSUME NEW v \in Validators, Get(v) PROVE StoreInv'
      BY <2>1, <3>6, StaysExpired DEF StoreInv, Get
    <3>7. ASSUME NEW v \in Validators, GetDeletes(v) PROVE StoreInv'
      <4>1. IsExpired(valId[v]) /\ expiresAt[valId[v]] # 0 /\ valId[v] \in SessionIds
        BY <3>7 DEF GetDeletes, CallsInv
      <4>. QED
        BY <2>1, <3>7, <4>1, StaysExpired DEF StoreInv, GetDeletes
    <3>8. ASSUME NEW v \in Validators, CheckExpiry(v) PROVE StoreInv'
      BY <2>1, <3>8, StaysExpired DEF StoreInv, CheckExpiry
    <3>. QED
      BY <2>1, <3>1, <3>2, <3>3, <3>4, <3>5, <3>6, <3>7, <3>8 DEF AuthNext
  <2>2. ASSUME AuthNext PROVE CallsInv'
    <3>1. CASE Passes \/ Cleanup
      BY <2>2, <3>1, StaysExpired DEF CallsInv, Passes, Cleanup
    <3>2. ASSUME NEW s \in SessionIds, CreateSession(s) \/ DeleteSession(s) PROVE CallsInv'
      BY <2>2, <3>2, StaysExpired DEF CallsInv, CreateSession, DeleteSession
    <3>3. ASSUME NEW v \in Validators, NEW s \in SessionIds, ValidateSession(v, s)
          PROVE  CallsInv'
      <4>1. knewGone' \in [Validators -> BOOLEAN]
        <5>1. PICK b \in BOOLEAN : b <=> s \in removed
          OBVIOUS
        <5>2. knewGone' = [knewGone EXCEPT ![v] = b]
          BY <3>3, <5>1 DEF ValidateSession
        <5>. QED
          BY <5>2 DEF CallsInv
      <4>. QED
        BY <2>2, <3>3, <4>1, StaysExpired DEF CallsInv, ValidateSession
    <3>4. ASSUME NEW v \in Validators, Get(v) PROVE CallsInv'
      <4>1. valId[v] \in SessionIds /\ (knewGone[v] => valId[v] \in removed)
        BY <3>4 DEF CallsInv, Get
      <4>2. valId[v] \in live => expiresAt[valId[v]] # 0 /\ ~knewGone[v]
        BY <4>1 DEF StoreInv
      <4>3. UNCHANGED <<time, live, expiresAt, removed, valId, knewGone>>
        BY <3>4 DEF Get
      <4>4. valPc' \in [Validators -> {"idle", "get", "expired", "check"}]
            /\ answer' \in [Validators -> {"none", "not found", "expired", "ok"}]
        BY <3>4 DEF CallsInv, Get, Answers, Step
      <4>5. /\ \A w \in Validators : w # v => valPc'[w] = valPc[w]
            /\ valPc'[v] = "expired" => valId[v] \in live /\ IsExpired(valId[v])
            /\ valPc'[v] = "check" => valId[v] \in live
        BY <3>4 DEF CallsInv, Get, Answers, Step
      <4>. QED
        BY <4>1, <4>2, <4>3, <4>4, <4>5 DEF CallsInv, IsExpired
    <3>5. ASSUME NEW v \in Validators, GetDeletes(v) PROVE CallsInv'
      <4>1. /\ valPc' = [valPc EXCEPT ![v] = "idle"]
            /\ answer' = [answer EXCEPT ![v] = "expired"]
            /\ UNCHANGED <<time, expiresAt, removed, valId, knewGone>>
        BY <3>5 DEF GetDeletes, Answers, Step
      <4>2. valPc' \in [Validators -> {"idle", "get", "expired", "check"}]
            /\ answer' \in [Validators -> {"none", "not found", "expired", "ok"}]
        BY <4>1 DEF CallsInv
      <4>. QED
        BY <4>1, <4>2 DEF CallsInv, IsExpired
    <3>6. ASSUME NEW v \in Validators, CheckExpiry(v) PROVE CallsInv'
      BY <2>2, <3>6, StaysExpired DEF CallsInv, CheckExpiry, Answers, Step
    <3>. QED
      BY <2>2, <3>1, <3>2, <3>3, <3>4, <3>5, <3>6 DEF AuthNext
  <2>3. CASE UNCHANGED authVars
    BY <2>3 DEF authVars, StoreInv, CallsInv, IsExpired
  <2>. QED
    BY <2>1, <2>2, <2>3
<1>. QED
  BY <1>1, <1>2, PTL DEF AuthSpec

(* ValidateSession answers truly (session.go:203).                          *)
THEOREM SessionsAreHonest == AuthSpec => SessionsHonest
<1>1. AuthInv /\ [AuthNext]_authVars =>
        [\A v \in Validators : answer'[v] # answer[v] =>
          LET s == valId[v] IN
          /\ answer'[v] = "ok" => ~IsExpired(s) /\ ~knewGone[v]
          /\ answer'[v] = "expired" => IsExpired(s)
          /\ answer'[v] = "not found" =>
                expiresAt[s] = 0 \/ s \in removed \/ IsExpired(s)]_authVars
  <2>. SUFFICES ASSUME AuthInv, AuthNext, NEW v \in Validators, answer'[v] # answer[v]
                PROVE  LET s == valId[v] IN
                       /\ answer'[v] = "ok" => ~IsExpired(s) /\ ~knewGone[v]
                       /\ answer'[v] = "expired" => IsExpired(s)
                       /\ answer'[v] = "not found" =>
                             expiresAt[s] = 0 \/ s \in removed \/ IsExpired(s)
    OBVIOUS
  <2>. USE DEF AuthInv, StoreInv, CallsInv
  <2>1. CASE Passes \/ Cleanup \/ \E s \in SessionIds : CreateSession(s) \/ DeleteSession(s)
    BY <2>1 DEF Passes, Cleanup, CreateSession, DeleteSession
  <2>2. ASSUME NEW w \in Validators, NEW s \in SessionIds, ValidateSession(w, s)
        PROVE  answer'[v] = "none"
    BY <2>2 DEF ValidateSession
  <2>3. ASSUME NEW w \in Validators, Get(w)
        PROVE  /\ w = v /\ answer'[v] = "not found" /\ valPc[v] = "get" /\ valId[v] \notin live
    BY <2>3 DEF Get, Answers, Step
  <2>4. ASSUME NEW w \in Validators, GetDeletes(w)
        PROVE  w = v /\ answer'[v] = "expired" /\ valPc[v] = "expired"
    BY <2>4 DEF GetDeletes, Answers, Step
  <2>5. ASSUME NEW w \in Validators, CheckExpiry(w)
        PROVE  /\ w = v /\ valPc[v] = "check"
               /\ \/ IsExpired(valId[v]) /\ answer'[v] = "expired"
                  \/ ~IsExpired(valId[v]) /\ answer'[v] = "ok"
    BY <2>5 DEF CheckExpiry, Answers, Step
  <2>. QED
    BY <2>1, <2>2, <2>3, <2>4, <2>5 DEF AuthNext
<1>. QED
  BY <1>1, AuthInductive, PTL DEF AuthSpec, SessionsHonest

-----------------------------------------------------------------------------
(* A list has a first place for what it holds; without that place it is     *)
(* one shorter and holds what it held, but what was there alone.            *)
LEMMA FirstPlace ==
  ASSUME NEW T, NEW s \in Seq(T), NEW x, \E k \in DOMAIN s : s[k] = x
  PROVE  First(s, x) \in DOMAIN s /\ s[First(s, x)] = x
<1>. DEFINE Places == {k \in DOMAIN s : s[k] = x}
<1>1. Places \subseteq Nat /\ Places # {} /\ DOMAIN s = 1..Len(s) /\ Len(s) \in Nat
  OBVIOUS
<1>2. PICK k \in Places : \A j \in Places : ~(<<j, k>> \in OpToRel(<, Nat))
  BY <1>1, NatLessThanWellFounded, WFMin, Zenon
<1>3. ASSUME NEW j \in Places PROVE ~(j < k)
  <2>1. j \in Nat /\ k \in Nat
    BY <1>1
  <2>2. <<j, k>> \in Nat \X Nat /\ <<j, k>>[1] = j /\ <<j, k>>[2] = k
    BY <2>1
  <2>. QED
    BY <1>2, <2>2, Zenon DEF OpToRel
<1>4. \A j \in 1..(k - 1) : s[j] # x
  BY <1>1, <1>3
<1>. QED
  BY <1>2, <1>4 DEF First

(* r is the list s without its k-th place.                                 *)
Without(s, k, r) ==
    /\ DOMAIN r = 1..(Len(s) - 1)
    /\ \A i \in 1..(Len(s) - 1) : r[i] = IF i < k THEN s[i] ELSE s[i + 1]
    /\ \A i \in DOMAIN r : \E j \in DOMAIN s \ {k} : r[i] = s[j]
    /\ \A j \in DOMAIN s \ {k} : \E i \in DOMAIN r : r[i] = s[j]

LEMMA Dropped ==
  ASSUME NEW T, NEW s \in Seq(T), NEW k \in DOMAIN s
  PROVE  /\ DropAt(s, k) \in Seq(T) /\ Len(DropAt(s, k)) = Len(s) - 1
         /\ Without(s, k, DropAt(s, k))
<1>1. Len(s) \in Nat /\ DOMAIN s = 1..Len(s) /\ k \in 1..Len(s)
  OBVIOUS
<1>2. DOMAIN DropAt(s, k) = 1..(Len(s) - 1)
  BY DEF DropAt
<1>3. \A i \in 1..(Len(s) - 1) : DropAt(s, k)[i] = IF i < k THEN s[i] ELSE s[i + 1]
  BY DEF DropAt
<1>4. \A i \in 1..(Len(s) - 1) : DropAt(s, k)[i] \in T
  BY <1>1, <1>3
<1>5. DropAt(s, k) \in Seq(T) /\ Len(DropAt(s, k)) = Len(s) - 1
  BY <1>1, <1>4 DEF DropAt
<1>6. ASSUME NEW i \in 1..(Len(s) - 1)
      PROVE  \E j \in DOMAIN s \ {k} : DropAt(s, k)[i] = s[j]
  <2>1. CASE i < k
    BY <2>1, <1>1, <1>3
  <2>2. CASE ~(i < k)
    <3>1. i + 1 \in DOMAIN s \ {k} /\ DropAt(s, k)[i] = s[i + 1]
      BY <2>2, <1>1, <1>3
    <3>. QED
      BY <3>1
  <2>. QED
    BY <2>1, <2>2
<1>7. ASSUME NEW j \in DOMAIN s \ {k}
      PROVE  \E i \in 1..(Len(s) - 1) : DropAt(s, k)[i] = s[j]
  <2>1. CASE j < k
    BY <2>1, <1>1, <1>3
  <2>2. CASE ~(j < k)
    <3>1. j - 1 \in 1..(Len(s) - 1) /\ DropAt(s, k)[j - 1] = s[j]
      BY <2>2, <1>1, <1>3
    <3>. QED
      BY <3>1
  <2>. QED
    BY <2>1, <2>2
<1>. QED
  BY <1>2, <1>3, <1>5, <1>6, <1>7 DEF Without

(* Nothing is twice in a list, no listener is registered twice; one that is *)
(* not registered, or has gone astray, has nothing in its account.          *)
Ledger ==
    /\ collType \in Lists =>
          \A j, k \in DOMAIN items : items[j] = items[k] => j = k
    /\ collType \in Boxes => ears = <<>>
    /\ \A j, k \in DOMAIN ears : ears[j] = ears[k] => j = k
    /\ astray \subseteq Listening
    /\ \A l \in Ears : l \notin Listening \/ l \in astray => heard[l] = Silence

(* What the reader has not seen yet lies behind its offset.                 *)
Ahead == {items[k] : k \in {j \in DOMAIN items : j > offset}}
Walking ==
    ~pulled => IF reading THEN before \subseteq seen \cup Ahead ELSE before \subseteq seen

CollInv == CollTypeOK /\ Ledger /\ ListenersKeepUp /\ Walking

-----------------------------------------------------------------------------
(* The loop over the listeners: who is reached counts one call, who is not  *)
(* goes astray.                                                             *)
LEMMA Telling ==
  ASSUME CollInv, NEW n \in Reached, NEW x \in Items, NEW d \in Int, Tell(n, x, d)
  PROVE  /\ ears' = ears /\ astray \subseteq astray' /\ astray' \subseteq Listening
         /\ heard' \in [Ears -> [Items -> Int]]
         /\ \A l \in Ears : l \notin Listening \/ l \in astray' => heard'[l] = Silence
         /\ \A l \in Listening \ astray', y \in Items :
               heard'[l][y] = IF y = x THEN heard[l][x] + d ELSE heard[l][y]
<1>. USE DEF CollInv
<1>1. /\ ears' = ears
      /\ astray' = astray \cup {ears[k] : k \in (n + 1)..Len(ears)}
      /\ heard' = [l \in Ears |->
                     IF l \in astray' THEN Silence
                     ELSE IF l \in Listening THEN [heard[l] EXCEPT ![x] = @ + d] ELSE heard[l]]
  BY DEF Tell, Known
<1>2. Listening \subseteq Ears
  BY DEF Listening, CollTypeOK
<1>3. {ears[k] : k \in (n + 1)..Len(ears)} \subseteq Listening
  BY DEF Listening, CollTypeOK, Reached
<1>4. \A l \in Ears : heard[l] \in [Items -> Int] /\ Silence \in [Items -> Int]
  BY DEF CollTypeOK, Silence
<1>5. heard' \in [Ears -> [Items -> Int]]
  BY <1>1, <1>4
<1>6. \A l \in Ears : l \notin Listening \/ l \in astray' => heard'[l] = Silence
  BY <1>1 DEF Ledger
<1>7. \A l \in Listening \ astray', y \in Items :
        heard'[l][y] = IF y = x THEN heard[l][x] + d ELSE heard[l][y]
  BY <1>1, <1>2, <1>4
<1>. QED
  BY <1>1, <1>3, <1>5, <1>6, <1>7 DEF Ledger

LEMMA TakeKeeps == ASSUME CollInv, NEW x \in Items, collType \in Lists, Take(x) PROVE CollInv'
<1>. USE DEF CollInv
<1>1. /\ x \notin Members /\ items' = Append(items, x)
      /\ UNCHANGED <<collType, total, reading, offset, seen, before, pulled>>
  BY DEF Take, readVars
<1>2. PICK n \in Reached : Tell(n, x, 1)
  BY DEF Take
<1>3. /\ Len(items') = Len(items) + 1 /\ items' \in Seq(Items)
      /\ DOMAIN items' = DOMAIN items \cup {Len(items) + 1}
      /\ items'[Len(items) + 1] = x
      /\ \A k \in DOMAIN items : items'[k] = items[k]
      /\ DOMAIN items = 1..Len(items) /\ Len(items) \in Nat
  BY <1>1 DEF CollTypeOK
<1>4. Members' = Members \cup {x} /\ \A k \in DOMAIN items : items[k] # x
  BY <1>1, <1>3 DEF Members
<1>5. Listening' = Listening /\ 1 \in Int
  BY <1>2, Telling DEF Listening
<1>. HIDE DEF CollInv
<1>6. /\ ears' = ears /\ astray' \subseteq Listening /\ astray \subseteq astray'
      /\ heard' \in [Ears -> [Items -> Int]]
      /\ \A l \in Ears : l \notin Listening \/ l \in astray' => heard'[l] = Silence
      /\ \A l \in Listening \ astray', y \in Items :
            heard'[l][y] = IF y = x THEN heard[l][x] + 1 ELSE heard[l][y]
  BY <1>2, <1>5, Telling
<1>. USE DEF CollInv
<1>7. Lists \cap Boxes = {}
  BY DEF Lists, Boxes
<1>8. CollTypeOK'
  BY <1>1, <1>3, <1>5, <1>6, <1>7 DEF CollTypeOK, Listening
<1>9. Ledger'
  BY <1>1, <1>3, <1>4, <1>5, <1>6, <1>7 DEF Ledger
<1>10. ListenersKeepUp'
  BY <1>1, <1>4, <1>5, <1>6 DEF ListenersKeepUp
<1>11. Walking'
  BY <1>1, <1>3 DEF Walking, Ahead
<1>. QED
  BY <1>8, <1>9, <1>10, <1>11

LEMMA GiveKeeps == ASSUME CollInv, NEW x \in Items, collType \in Lists, Give(x) PROVE CollInv'
<1>. DEFINE k0 == First(items, x)
<1>1. /\ x \in Members /\ items' = DropAt(items, k0) /\ pulled' = TRUE
      /\ UNCHANGED <<collType, total, reading, offset, seen, before>>
  BY DEF Give, readVars
<1>2. PICK n \in Reached : Tell(n, x, -1)
  BY DEF Give
<1>3. k0 \in DOMAIN items /\ items[k0] = x
  BY <1>1, FirstPlace DEF Members, CollInv, CollTypeOK
<1>. HIDE DEF k0
<1>4. items' \in Seq(Items) /\ Without(items, k0, items')
      /\ DOMAIN items = 1..Len(items) /\ Len(items) \in Nat
  <2>1. items \in Seq(Items) /\ DOMAIN items = 1..Len(items) /\ Len(items) \in Nat
    BY DEF CollInv, CollTypeOK
  <2>. QED
    BY <1>1, <1>3, <2>1, Dropped
<1>5. Members' = Members \ {x}
  <2>. USE DEF Without
  <2>1. \A j \in DOMAIN items \ {k0} : items[j] # x
    BY <1>3 DEF CollInv, Ledger
  <2>2. ASSUME NEW y \in Members' PROVE y \in Members /\ y # x
    BY <1>4, <2>1 DEF Members
  <2>3. ASSUME NEW y \in Members, y # x PROVE y \in Members'
    <3>1. PICK j \in DOMAIN items : items[j] = y
      BY <2>3 DEF Members
    <3>2. j \in DOMAIN items \ {k0}
      BY <3>1, <2>3, <1>3
    <3>. QED
      BY <3>1, <3>2, <1>4 DEF Members
  <2>. QED
    BY <2>2, <2>3
<1>. USE DEF Without
<1>6. \A i, j \in DOMAIN items' : items'[i] = items'[j] => i = j
  <2>. SUFFICES ASSUME NEW i \in DOMAIN items', NEW j \in DOMAIN items', items'[i] = items'[j]
                PROVE  i = j
    OBVIOUS
  <2>. DEFINE p(a) == IF a < k0 THEN a ELSE a + 1
  <2>0. /\ Len(items) \in Nat /\ DOMAIN items = 1..Len(items) /\ k0 \in 1..Len(items)
        /\ i \in 1..(Len(items) - 1) /\ j \in 1..(Len(items) - 1)
    BY <1>3, <1>4
  <2>1. p(i) \in DOMAIN items /\ p(j) \in DOMAIN items
    BY <2>0
  <2>3. items'[i] = items[p(i)] /\ items'[j] = items[p(j)]
    BY <2>0, <1>4
  <2>2. p(i) = p(j)
    BY <2>1, <2>3 DEF CollInv, Ledger
  <2>. QED
    BY <2>2, <2>0
<1>7. /\ ears' = ears /\ astray' \subseteq Listening /\ astray \subseteq astray'
      /\ heard' \in [Ears -> [Items -> Int]]
      /\ \A l \in Ears : l \notin Listening \/ l \in astray' => heard'[l] = Silence
      /\ \A l \in Listening \ astray', y \in Items :
            heard'[l][y] = IF y = x THEN heard[l][x] + (-1) ELSE heard[l][y]
  BY <1>2, Telling
<1>8. Listening' = Listening /\ Lists \cap Boxes = {}
  BY <1>7 DEF Listening, Lists, Boxes
<1>. USE DEF CollInv
<1>9. CollTypeOK'
  BY <1>1, <1>4, <1>7, <1>8 DEF CollTypeOK, Listening
<1>10. Ledger'
  BY <1>1, <1>6, <1>7, <1>8 DEF Ledger
<1>11. ListenersKeepUp'
  BY <1>1, <1>5, <1>7, <1>8 DEF ListenersKeepUp
<1>12. Walking'
  BY <1>1 DEF Walking
<1>. QED
  BY <1>9, <1>10, <1>11, <1>12

(* The boxes: no listeners, so only the pages matter. *)
LEMMA PutKeeps == ASSUME CollInv, NEW x \in Items, collType \in Boxes, Put(x) PROVE CollInv'
<1>. USE DEF CollInv
<1>1. /\ items' = <<x>> \o items /\ total' = total + 1
      /\ UNCHANGED <<collType, ears, heard, astray, reading, offset, seen, before, pulled>>
  BY DEF Put, readVars, noiseVars
<1>2. /\ Len(items') = Len(items) + 1 /\ items' \in Seq(Items) /\ DOMAIN items' = 1..(Len(items) + 1)
      /\ \A k \in DOMAIN items : items'[k + 1] = items[k]
      /\ DOMAIN items = 1..Len(items) /\ Len(items) \in Nat
  BY <1>1 DEF CollTypeOK
<1>3. Lists \cap Boxes = {} /\ Listening' = Listening
  BY <1>1 DEF Lists, Boxes, Listening
<1>4. CollTypeOK'
  BY <1>1, <1>2, <1>3 DEF CollTypeOK
<1>5. Ledger' /\ ListenersKeepUp'
  BY <1>1, <1>3 DEF Ledger, ListenersKeepUp
<1>6. Ahead \subseteq Ahead'
  <2>. SUFFICES ASSUME NEW k \in DOMAIN items, k > offset PROVE items[k] \in Ahead'
    BY DEF Ahead
  <2>1. k + 1 \in DOMAIN items' /\ k + 1 > offset' /\ items'[k + 1] = items[k]
    BY <1>1, <1>2 DEF CollTypeOK
  <2>. QED
    BY <2>1 DEF Ahead
<1>7. Walking'
  BY <1>1, <1>6 DEF Walking
<1>. QED
  BY <1>4, <1>5, <1>7

LEMMA RemoveKeeps == ASSUME CollInv, NEW x \in Items, collType \in Boxes, Remove(x) PROVE CollInv'
<1>. DEFINE k0 == First(items, x)
<1>1. /\ x \in Members /\ items' = DropAt(items, k0) /\ total' = total - 1 /\ pulled' = TRUE
      /\ UNCHANGED <<collType, ears, heard, astray, reading, offset, seen, before>>
  BY DEF Remove, readVars, noiseVars
<1>2. k0 \in DOMAIN items
  BY <1>1, FirstPlace DEF Members, CollInv, CollTypeOK
<1>. HIDE DEF k0
<1>3. items' \in Seq(Items) /\ Len(items') = Len(items) - 1
  BY <1>1, <1>2, Dropped DEF CollInv, CollTypeOK
<1>. USE DEF CollInv
<1>4. Lists \cap Boxes = {} /\ Listening' = Listening
  BY <1>1 DEF Lists, Boxes, Listening
<1>5. CollTypeOK'
  BY <1>1, <1>3, <1>4 DEF CollTypeOK
<1>6. Ledger' /\ ListenersKeepUp' /\ Walking'
  BY <1>1, <1>4 DEF Ledger, ListenersKeepUp, Walking
<1>. QED
  BY <1>5, <1>6

LEMMA ClearKeeps == ASSUME CollInv, Clear PROVE CollInv'
<1>. USE DEF CollInv
<1>1. /\ items' = <<>> /\ total' = 0 /\ pulled' = TRUE
      /\ astray' = IF items = <<>> THEN astray ELSE astray \cup Listening
      /\ heard' = [l \in Ears |-> IF l \in astray' THEN Silence ELSE heard[l]]
      /\ UNCHANGED <<collType, ears, reading, offset, seen, before>>
  BY DEF Clear, readVars, Known
<1>2. Listening' = Listening /\ Listening \subseteq Ears /\ Members' = {}
  BY <1>1 DEF Listening, Members, CollTypeOK
<1>3. Silence \in [Items -> Int]
  BY DEF Silence
<1>4. CollTypeOK'
  BY <1>1, <1>2, <1>3 DEF CollTypeOK
<1>5. Ledger'
  BY <1>1, <1>2 DEF Ledger
<1>6. ListenersKeepUp'
  <2>. SUFFICES ASSUME NEW l \in Listening \ astray', NEW y \in Items, collType \in Lists
                PROVE  heard'[l][y] = 0
    BY <1>1, <1>2 DEF ListenersKeepUp
  <2>1. items = <<>> /\ l \in Listening \ astray /\ heard'[l] = heard[l]
    BY <1>1, <1>2
  <2>2. Members = {}
    BY <2>1 DEF Members
  <2>. QED
    BY <2>1, <2>2 DEF ListenersKeepUp
<1>7. Walking'
  BY <1>1 DEF Walking
<1>. QED
  BY <1>4, <1>5, <1>6, <1>7

LEMMA ListenerKeeps ==
  ASSUME CollInv, NEW l \in Ears, AddListener(l) \/ RemoveListener(l)
  PROVE  CollInv'
<1>. USE DEF CollInv
<1>1. /\ collType \in Lists
      /\ UNCHANGED <<collType, items, total, reading, offset, seen, before, pulled>>
  BY DEF AddListener, RemoveListener, readVars
<1>2. Walking' /\ Members' = Members /\ Lists \cap Boxes = {}
  BY <1>1 DEF Walking, Ahead, Members, Lists, Boxes
<1>3. CASE AddListener(l)
  <2>1. /\ l \notin Listening /\ ears' = Append(ears, l) /\ heard' = heard
        /\ astray' = IF items = <<>> THEN astray ELSE astray \cup {l}
    BY <1>3 DEF AddListener
  <2>2. /\ ears' \in Seq(Ears) /\ DOMAIN ears' = DOMAIN ears \cup {Len(ears) + 1}
        /\ ears'[Len(ears) + 1] = l /\ \A k \in DOMAIN ears : ears'[k] = ears[k]
        /\ DOMAIN ears = 1..Len(ears) /\ Len(ears) \in Nat
    BY <2>1 DEF CollTypeOK
  <2>3. Listening' = Listening \cup {l} /\ \A k \in DOMAIN ears : ears[k] # l
    BY <2>1, <2>2 DEF Listening
  <2>4. heard[l] = Silence /\ l \notin astray /\ \A x \in Items : Silence[x] = 0
    BY <2>1 DEF Ledger, Silence
  <2>5. CollTypeOK'
    BY <1>1, <2>1, <2>2 DEF CollTypeOK
  <2>6. Ledger'
    BY <1>1, <1>2, <2>1, <2>2, <2>3, <2>4 DEF Ledger
  <2>7. ListenersKeepUp'
    <3>1. items = <<>> => Members = {}
      BY DEF Members
    <3>. QED
      BY <1>1, <1>2, <2>1, <2>3, <2>4, <3>1 DEF ListenersKeepUp
  <2>. QED
    BY <1>2, <2>5, <2>6, <2>7
<1>4. CASE RemoveListener(l)
  <2>. DEFINE k0 == First(ears, l)
  <2>1. /\ l \in Listening /\ ears' = DropAt(ears, k0)
        /\ heard' = [heard EXCEPT ![l] = Silence] /\ astray' = astray \ {l}
    BY <1>4 DEF RemoveListener
  <2>2. k0 \in DOMAIN ears /\ ears[k0] = l
    BY <2>1, FirstPlace DEF Listening, CollTypeOK
  <2>. HIDE DEF k0
  <2>3. ears' \in Seq(Ears) /\ Without(ears, k0, ears')
        /\ DOMAIN ears = 1..Len(ears) /\ Len(ears) \in Nat
    <3>1. ears \in Seq(Ears) /\ DOMAIN ears = 1..Len(ears) /\ Len(ears) \in Nat
      BY DEF CollTypeOK
    <3>. QED
      BY <2>1, <2>2, <3>1, Dropped
  <2>4. Listening' = Listening \ {l}
    <3>1. \A j \in DOMAIN ears \ {k0} : ears[j] # l
      BY <2>2 DEF Ledger
    <3>2. ASSUME NEW y \in Listening' PROVE y \in Listening /\ y # l
      BY <2>3, <3>1 DEF Listening, Without
    <3>3. ASSUME NEW y \in Listening, y # l PROVE y \in Listening'
      <4>1. PICK j \in DOMAIN ears : ears[j] = y
        BY <3>3 DEF Listening
      <4>2. j \in DOMAIN ears \ {k0}
        BY <4>1, <3>3, <2>2
      <4>. QED
        BY <4>1, <4>2, <2>3 DEF Listening, Without
    <3>. QED
      BY <3>2, <3>3
  <2>5. \A i, j \in DOMAIN ears' : ears'[i] = ears'[j] => i = j
    <3>. USE DEF Without
    <3>. SUFFICES ASSUME NEW i \in DOMAIN ears', NEW j \in DOMAIN ears', ears'[i] = ears'[j]
                  PROVE  i = j
      OBVIOUS
    <3>. DEFINE p(a) == IF a < k0 THEN a ELSE a + 1
    <3>1. /\ Len(ears) \in Nat /\ DOMAIN ears = 1..Len(ears) /\ k0 \in 1..Len(ears)
          /\ i \in 1..(Len(ears) - 1) /\ j \in 1..(Len(ears) - 1)
      BY <2>2, <2>3
    <3>2. p(i) \in DOMAIN ears /\ p(j) \in DOMAIN ears
      BY <3>1
    <3>3. ears'[i] = ears[p(i)] /\ ears'[j] = ears[p(j)]
      BY <3>1, <2>3
    <3>4. p(i) = p(j)
      BY <3>2, <3>3 DEF Ledger
    <3>. QED
      BY <3>4, <3>1
  <2>6. Silence \in [Items -> Int]
    BY DEF Silence
  <2>7. CollTypeOK'
    BY <1>1, <2>1, <2>3, <2>6 DEF CollTypeOK
  <2>8. Ledger'
    BY <1>1, <1>2, <2>1, <2>4, <2>5 DEF Ledger, CollTypeOK
  <2>9. ListenersKeepUp'
    BY <1>1, <1>2, <2>1, <2>4 DEF ListenersKeepUp, CollTypeOK, Ledger
  <2>. QED
    BY <1>2, <2>7, <2>8, <2>9
<1>. QED
  BY <1>3, <1>4

LEMMA PageKeeps == ASSUME CollInv, Begin \/ Page PROVE CollInv'
<1>. USE CollectionsAssumption DEF CollInv
<1>1. UNCHANGED <<collType, items, total, ears, heard, astray>>
  BY DEF Begin, Page, noiseVars
<1>2. Ledger' /\ ListenersKeepUp' /\ Members' = Members /\ Members \subseteq Items
  BY <1>1 DEF Ledger, Listening, ListenersKeepUp, Members, CollTypeOK
<1>3. Len(items) \in Nat /\ DOMAIN items = 1..Len(items) /\ \A k \in DOMAIN items : items[k] \in Items
  BY DEF CollTypeOK
<1>4. CASE Begin
  <2>1. reading' = TRUE /\ offset' = 0 /\ seen' = {} /\ before' = Members /\ pulled' = FALSE
    BY <1>4 DEF Begin
  <2>2. CollTypeOK'
    BY <1>1, <1>2, <2>1 DEF CollTypeOK
  <2>3. Ahead' = Members
    BY <1>1, <1>3, <2>1 DEF Ahead, Members
  <2>. QED
    BY <1>2, <2>1, <2>2, <2>3 DEF Walking
<1>5. CASE Page
  <2>. DEFINE end == Least(offset + PageSize, Len(items))
  <2>1. reading /\ UNCHANGED <<before, pulled>>
    BY <1>5 DEF Page
  <2>2. CASE offset >= Len(items)
    <3>1. reading' = FALSE /\ UNCHANGED <<offset, seen>>
      BY <1>5, <2>2 DEF Page
    <3>2. Ahead = {}
      BY <1>3, <2>2 DEF Ahead, CollTypeOK
    <3>. QED
      BY <1>1, <1>2, <2>1, <3>1, <3>2 DEF Walking, CollTypeOK
  <2>3. CASE ~(offset >= Len(items))
    <3>1. /\ seen' = seen \cup {items[k] : k \in (offset + 1)..end}
          /\ offset' = end /\ reading' = reading
      BY <1>5, <2>3 DEF Page
    <3>2. end \in Nat /\ end <= Len(items) /\ offset \in Nat
      BY <1>3 DEF Least, CollTypeOK
    <3>. HIDE DEF end
    <3>3. seen' \subseteq Items
      BY <1>3, <3>1, <3>2 DEF CollTypeOK
    <3>4. Ahead \subseteq {items[k] : k \in (offset + 1)..end} \cup Ahead'
      BY <1>1, <1>3, <3>1, <3>2 DEF Ahead
    <3>5. CollTypeOK'
      BY <1>1, <2>1, <3>1, <3>2, <3>3 DEF CollTypeOK
    <3>6. Walking'
      BY <2>1, <3>1, <3>4 DEF Walking
    <3>. QED
      BY <1>2, <3>5, <3>6
  <2>. QED
    BY <2>2, <2>3
<1>. QED
  BY <1>4, <1>5

LEMMA CollInductive == CollSpec => []CollInv
<1>1. CollInit => CollInv
  <2>. SUFFICES ASSUME CollInit PROVE CollInv
    OBVIOUS
  <2>1. Listening = {} /\ Members = {} /\ Silence \in [Items -> Int]
    BY DEF CollInit, Listening, Members, Silence
  <2>2. items \in Seq(Items) /\ ears \in Seq(Ears) /\ Len(items) = 0
    BY DEF CollInit
  <2>3. total = 0 /\ collType \in Lists \cup Boxes /\ heard \in [Ears -> [Items -> Int]]
    BY <2>1 DEF CollInit
  <2>4. CollTypeOK
    BY <2>2, <2>3 DEF CollInit, CollTypeOK
  <2>5. Ledger /\ ListenersKeepUp /\ Walking
    BY <2>1 DEF CollInit, Ledger, ListenersKeepUp, Walking
  <2>. QED
    BY <2>4, <2>5 DEF CollInv
<1>2. CollInv /\ [CollNext]_collVars => CollInv'
  <2>. SUFFICES ASSUME CollInv, [CollNext]_collVars PROVE CollInv'
    OBVIOUS
  <2>1. CASE UNCHANGED collVars
    BY <2>1 DEF collVars, noiseVars, readVars, CollInv, CollTypeOK, Ledger, Listening,
               ListenersKeepUp, Members, Walking, Ahead
  <2>2. ASSUME NEW x \in Items, Follow(x) \/ AddFollower(x) \/ Like(x) PROVE CollInv'
    BY <2>2, TakeKeeps DEF Follow, AddFollower, Like, Lists
  <2>3. ASSUME NEW x \in Items, Unfollow(x) \/ RemoveFollower(x) \/ Unlike(x) PROVE CollInv'
    BY <2>3, GiveKeeps DEF Unfollow, RemoveFollower, Unlike, Lists
  <2>4. ASSUME NEW x \in Items, ReceiveActivity(x) \/ SendActivity(x) PROVE CollInv'
    BY <2>4, PutKeeps DEF ReceiveActivity, SendActivity, Boxes
  <2>5. ASSUME NEW x \in Items, InboxRemove(x) \/ OutboxRemove(x) PROVE CollInv'
    BY <2>5, RemoveKeeps DEF InboxRemove, OutboxRemove, Boxes
  <2>6. ASSUME NEW l \in Ears, AddListener(l) \/ RemoveListener(l) PROVE CollInv'
    BY <2>6, ListenerKeeps
  <2>7. CASE Clear
    BY <2>7, ClearKeeps
  <2>8. CASE WalkBegin \/ GetLikedPaginated \/ GetActivities
    BY <2>8, PageKeeps DEF WalkBegin, GetLikedPaginated, GetActivities
  <2>. QED
    BY <2>1, <2>2, <2>3, <2>4, <2>5, <2>6, <2>7, <2>8 DEF CollNext
<1>. QED
  BY <1>1, <1>2, PTL DEF CollSpec

(* A listener that no error of an earlier one left out knows the collection *)
(* (follow.go, liked.go), for any items and listeners.                      *)
THEOREM ListenersAgree == CollSpec => []ListenersKeepUp
BY CollInductive, PTL DEF CollInv

(* A reader that pages by offset misses only what was taken out meanwhile   *)
(* (GetLikedPaginated, GetActivities), for any page size and any additions. *)
THEOREM WalksAreComplete == CollSpec => []WalkMissesNothing
<1>1. CollInv => WalkMissesNothing
  BY DEF CollInv, CollTypeOK, Walking, WalkMissesNothing
<1>. QED
  BY <1>1, CollInductive, PTL

-----------------------------------------------------------------------------
(* The handlers side by side: every step of the service is a step of the    *)
(* part that moves and leaves the state of the others alone, so what is     *)
(* proved of a part holds beside the others.                                *)
THEOREM TouchRunsItsParts ==
  TouchSpec => /\ Spec /\ CollSpec /\ NodeSpec /\ ProvSpec
               /\ MsgSpec /\ AccSpec /\ AuthSpec
<1>1. TouchInit => /\ Init /\ CollInit /\ NodeInit /\ ProvInit
                   /\ MsgInit /\ AccInit /\ AuthInit
  BY DEF TouchInit
<1>2. [TouchNext]_touchVars =>
         /\ [Next]_vars /\ [CollNext]_collVars /\ [NodeNext]_nodeVars /\ [ProvNext]_provVars
         /\ [MsgNext]_msgVars /\ [AccNext]_accVars /\ [AuthNext]_authVars
  BY DEF TouchNext, Rest, touchVars, AccNext
<1>. QED
  BY <1>1, <1>2, PTL
     DEF TouchSpec, Spec, CollSpec, NodeSpec, ProvSpec, MsgSpec, AccSpec, AuthSpec

(* The state of every handler is of the declared type.                      *)
THEOREM TouchTypes == TouchSpec => []TouchTypeOK
<1>1. CollInv /\ NodeInv /\ ProvInv /\ MsgInv /\ AccInv /\ AuthInv => TouchTypeOK
  <2>1. ASSUME AuthInv PROVE AuthTypeOK
    <3>1. \A s \in live : expiresAt[s] > 0 /\ s \notin removed
      BY <2>1 DEF AuthInv, StoreInv
    <3>. QED
      BY <2>1, <3>1 DEF AuthInv, StoreInv, CallsInv, AuthTypeOK
  <2>. QED
    BY <2>1 DEF CollInv, NodeInv, ProvInv, MsgInv, AccInv, TouchTypeOK
<1>. QED
  BY <1>1, TouchRunsItsParts, CollInductive, NodeInductive, ProvInductive, MsgInductive,
     AccInductive, AuthInductive, PTL
=============================================================================
