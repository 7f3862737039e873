------------------------- MODULE PeerSessionProofs -------------------------
(***************************************************************************)
(* The safety of Touch sessions for any callers, addresses, session        *)
(* identifiers, channel capacity and number of messages.                   *)
(***************************************************************************)
EXTENDS PeerSession, TLAPS

(* What the message channels and the hands of two goroutines are built by.  *)
LEMMA QueueTypes ==
    /\ <<>> \in Seq(Nat)
    /\ \A q, r \in Seq(Nat) : q \o r \in Seq(Nat)
    /\ \A q \in Seq(Nat) : q # <<>> =>
          <<Head(q)>> \in Seq(Nat) /\ Tail(q) \in Seq(Nat)
    /\ \A q \in Seq(Nat), m \in Nat : Append(q, m) \in Seq(Nat)
  OBVIOUS

(* How a step of a session moves its goroutines: one of them, inside its    *)
(* loop or out of it (LoopMoves), or through Close.                         *)
LoopMoves(s, r) ==
    \/ TouchActivity(s, r) \/ ReadOk(s) \/ ReadEnd(s)
    \/ WriteTake(s) \/ WriteStop(s) \/ WriteOk(s) \/ WriteFailed(s)
    \/ ProcessTake(s) \/ Forward(s) \/ Drop(s) \/ ProcessStop(s) \/ Manager(s)
InLoop == {"top", "touch", "write", "forward"}
GoType == go \in [Sids -> [Roles -> RolePc]]

LEMMA OneMoves ==
  ASSUME GoType, NEW s \in Sids, NEW r \in Roles, NEW from \in RolePc, NEW to \in RolePc,
         Moves(s, r, from, to)
  PROVE  /\ GoType' /\ go[s][r] = from /\ go'[s][r] = to
         /\ \A t \in Sids, p \in Roles : t # s \/ p # r => go'[t][p] = go[t][p]
<1>1. go[s][r] = from /\ go' = [go EXCEPT ![s] = [go[s] EXCEPT ![r] = to]]
  BY DEF Moves
<1>2. go[s] \in [Roles -> RolePc]
  BY DEF GoType
<1>. DEFINE h == [go[s] EXCEPT ![r] = to]
<1>3. h \in [Roles -> RolePc] /\ h[r] = to /\ \A p \in Roles : p # r => h[p] = go[s][p]
  BY <1>2
<1>. HIDE DEF h
<1>4. GoType' /\ go'[s] = h /\ \A t \in Sids : t # s => go'[t] = go[t]
  BY <1>1, <1>3 DEF GoType, h
<1>. QED
  BY <1>1, <1>3, <1>4

LEMMA LoopStep ==
  ASSUME GoType, NEW s \in Sids, NEW r \in Roles, LoopMoves(s, r)
  PROVE  /\ GoType'
         /\ UNCHANGED <<sessMux, pc, arg, mine, reply, addrOf, closeVars, ctxDone, accepted>>
         /\ \A t \in Sids, p \in Roles :
               \/ go'[t][p] = go[t][p]
               \/ go[t][p] \in InLoop /\ go'[t][p] \in InLoop \cup {"close", "done"}
<1>1. PICK p \in Roles, from \in InLoop, to \in InLoop \cup {"close", "done"} : Moves(s, p, from, to)
  BY DEF LoopMoves, TouchActivity, ReadOk, ReadEnd, WriteTake, WriteStop, WriteOk, WriteFailed,
         ProcessTake, Forward, Drop, ProcessStop, Manager, Roles, InLoop
<1>2. from \in RolePc /\ to \in RolePc
  BY DEF InLoop, RolePc
<1>3. UNCHANGED <<sessMux, pc, arg, mine, reply, addrOf, closeVars, ctxDone, accepted>>
  BY DEF LoopMoves, TouchActivity, ReadOk, ReadEnd, WriteTake, WriteStop, WriteOk, WriteFailed,
         ProcessTake, Forward, Drop, ProcessStop, Manager, callerVars, flowVars
<1>. QED
  BY <1>1, <1>2, <1>3, OneMoves

LEMMA CloseStep ==
  ASSUME GoType, NEW s \in Sids, NEW r \in Roles, Close(s, r)
  PROVE  /\ GoType'
         /\ UNCHANGED <<callerVars, addrOf, ctxDone, idle, flowVars>>
         /\ go[s][r] \in {"close", "examine", "shut"} /\ go'[s][r] \in {"examine", "shut", "done"}
         /\ \A t \in Sids, p \in Roles : t # s \/ p # r => go'[t][p] = go[t][p]
<1>1. PICK from \in {"close", "examine", "shut"}, to \in {"examine", "shut", "done"} : Moves(s, r, from, to)
  BY DEF Close, CloseLock, CloseAgain, CloseFirst, CloseShut
<1>2. from \in RolePc /\ to \in RolePc
  BY DEF RolePc
<1>3. UNCHANGED <<callerVars, addrOf, ctxDone, idle, flowVars>>
  BY DEF Close, CloseLock, CloseAgain, CloseFirst, CloseShut
<1>. QED
  BY <1>1, <1>2, <1>3, OneMoves

(* HiDialed and HiStore start two goroutines of the caller's session each.  *)
LEMMA DialedStarts ==
  ASSUME GoType, NEW c \in Callers, mine[c] \in Sids, HiDialed(c)
  PROVE  /\ GoType' /\ go'[mine[c]]["reader"] = "top" /\ go'[mine[c]]["writer"] = "top"
         /\ \A u \in Sids, r \in Roles :
               u # mine[c] \/ r \notin {"reader", "writer"} => go'[u][r] = go[u][r]
<1>1. "reader" \in Roles /\ "writer" \in Roles /\ "reader" # "writer"
  BY DEF Roles
<1>. DEFINE h == [go[mine[c]] EXCEPT !["reader"] = "top", !["writer"] = "top"]
<1>2. go' = [go EXCEPT ![mine[c]] = h] /\ go[mine[c]] \in [Roles -> RolePc]
  BY DEF HiDialed, GoType
<1>3. /\ h \in [Roles -> RolePc] /\ h["reader"] = "top" /\ h["writer"] = "top"
      /\ \A r \in Roles : r \notin {"reader", "writer"} => h[r] = go[mine[c]][r]
  BY <1>1, <1>2 DEF RolePc
<1>. HIDE DEF h
<1>4. GoType' /\ go'[mine[c]] = h /\ \A u \in Sids : u # mine[c] => go'[u] = go[u]
  BY <1>2, <1>3 DEF GoType
<1>. QED
  BY <1>3, <1>4

LEMMA StoredStarts ==
  ASSUME GoType, NEW c \in Callers, mine[c] \in Sids, HiStore(c)
  PROVE  /\ GoType' /\ go'[mine[c]]["manager"] = "top" /\ go'[mine[c]]["processor"] = "top"
         /\ \A u \in Sids, r \in Roles :
               u # mine[c] \/ r \notin {"manager", "processor"} => go'[u][r] = go[u][r]
<1>1. "manager" \in Roles /\ "processor" \in Roles /\ "manager" # "processor"
  BY DEF Roles
<1>. DEFINE h == [go[mine[c]] EXCEPT !["manager"] = "top", !["processor"] = "top"]
<1>2. go' = [go EXCEPT ![mine[c]] = h] /\ go[mine[c]] \in [Roles -> RolePc]
  BY DEF HiStore, GoType
<1>3. /\ h \in [Roles -> RolePc] /\ h["manager"] = "top" /\ h["processor"] = "top"
      /\ \A r \in Roles : r \notin {"manager", "processor"} => h[r] = go[mine[c]][r]
  BY <1>1, <1>2 DEF RolePc
<1>. HIDE DEF h
<1>4. GoType' /\ go'[mine[c]] = h /\ \A u \in Sids : u # mine[c] => go'[u] = go[u]
  BY <1>2, <1>3 DEF GoType
<1>. QED
  BY <1>3, <1>4

(* Every variable keeps its type, and a caller that dials or stores has     *)
(* generated its identifier.  The variables are typed in three groups: what *)
(* a caller writes, the program counters of the goroutines, and the rest.   *)
Generated == \A c \in Callers : pc[c] \in {"dial", "store"} => mine[c] \in Sids
CallersTyped ==
    /\ sessMux \in Callers \cup {None}
    /\ sessions \in [Keys -> Sids \cup {None}]
    /\ pc \in [Callers -> CallerPc]
    /\ arg \in [Callers -> Addrs \cup {None}]
    /\ \A c \in Callers : pc[c] # "idle" => arg[c] \in Addrs
    /\ mine \in [Callers -> Sids \cup {None}]
    /\ reply \in [Callers -> Sids \cup {None}]
    /\ addrOf \in [Sids -> Addrs \cup {None}]
CloseTyped ==
    /\ streamMu \in [Sids -> Roles \cup {None}]
    /\ closes \in [Sids -> Nat]
    /\ ctxDone \in [Sids -> BOOLEAN]
    /\ idle \in [Sids -> BOOLEAN]
FlowTyped ==
    /\ inbox \in [Sids -> Seq(Nat)]
    /\ outbox \in [Sids -> Seq(Nat)]
    /\ pHand \in [Sids -> Seq(Nat)]
    /\ wHand \in [Sids -> Seq(Nat)]
    /\ wire \in [Sids -> Seq(Nat)]
    /\ accepted \in [Sids -> Nat]
AllTyped == CallersTyped /\ Generated /\ GoType /\ CloseTyped /\ FlowTyped

LEMMA TypeParts == AllTyped => TypeOK
  BY DEF AllTyped, TypeOK, CallersTyped, GoType, CloseTyped, FlowTyped

LEMMA FlowTypedStep ==
  ASSUME FlowTyped, NEW s \in Sids, NEW r \in Roles, LoopMoves(s, r)
  PROVE  FlowTyped'
<1>1. CASE WriteTake(s)
  <2>1. <<Head(outbox[s])>> \in Seq(Nat) /\ Tail(outbox[s]) \in Seq(Nat)
    BY <1>1, QueueTypes DEF WriteTake, FlowTyped
  <2>. QED
    BY <1>1, <2>1 DEF WriteTake, FlowTyped
<1>2. CASE WriteOk(s)
  <2>1. wire[s] \o wHand[s] \in Seq(Nat) /\ <<>> \in Seq(Nat)
    BY QueueTypes DEF FlowTyped
  <2>. QED
    BY <1>2, <2>1 DEF WriteOk, FlowTyped
<1>3. CASE ProcessTake(s)
  <2>1. <<Head(inbox[s])>> \in Seq(Nat) /\ Tail(inbox[s]) \in Seq(Nat)
    BY <1>3, QueueTypes DEF ProcessTake, FlowTyped
  <2>. QED
    BY <1>3, <2>1 DEF ProcessTake, FlowTyped
<1>4. CASE Forward(s)
  <2>1. outbox[s] \o pHand[s] \in Seq(Nat) /\ <<>> \in Seq(Nat)
    BY QueueTypes DEF FlowTyped
  <2>. QED
    BY <1>4, <2>1 DEF Forward, FlowTyped
<1>5. CASE WriteFailed(s) \/ Drop(s)
  BY <1>5, QueueTypes DEF WriteFailed, Drop, FlowTyped
<1>6. CASE UNCHANGED flowVars
  BY <1>6 DEF flowVars, FlowTyped
<1>. QED
  BY <1>1, <1>2, <1>3, <1>4, <1>5, <1>6
  DEF LoopMoves, TouchActivity, ReadOk, ReadEnd, WriteStop, ProcessStop, Manager

LEMMA TypesInductive == Spec => [](TypeOK /\ Generated)
<1>. USE ConstantsAssumption
<1>1. Init => AllTyped
  BY DEF Init, AllTyped, CallersTyped, Generated, GoType, CloseTyped, FlowTyped, CallerPc, RolePc
<1>2. AllTyped /\ [Next]_vars => AllTyped'
  <2>. SUFFICES ASSUME AllTyped, [Next]_vars PROVE AllTyped'
    OBVIOUS
  <2>. USE DEF AllTyped
  <2>1. ASSUME UNCHANGED <<go, closeVars, ctxDone, idle, flowVars>>
        PROVE  GoType' /\ CloseTyped' /\ FlowTyped'
    BY <2>1 DEF GoType, CloseTyped, FlowTyped, closeVars, flowVars
  <2>2. ASSUME NEW c \in Callers, NEW a \in Addrs, Request(c, a)
        PROVE  AllTyped'
    <3>1. CallersTyped'
      BY <2>2 DEF Request, CallersTyped, CallerPc
    <3>2. Generated'
      BY <2>2 DEF Request, CallersTyped, Generated
    <3>. QED
      BY <2>1, <2>2, <3>1, <3>2 DEF Request
  <2>3. ASSUME NEW c \in Callers, HiLock(c)
        PROVE  AllTyped'
    <3>1. CallersTyped'
      BY <2>3 DEF HiLock, CallersTyped, CallerPc
    <3>2. Generated'
      BY <2>3 DEF HiLock, CallersTyped, Generated
    <3>. QED
      BY <2>1, <2>3, <3>1, <3>2 DEF HiLock
  <2>4. ASSUME NEW c \in Callers, NEW x \in Sids \cup {None}, Return(c, x)
        PROVE  /\ (sessMux \in Callers \cup {None})'
               /\ (pc \in [Callers -> CallerPc])'
               /\ (arg \in [Callers -> Addrs \cup {None}])'
               /\ (\A d \in Callers : pc[d] # "idle" => arg[d] \in Addrs)'
               /\ (mine \in [Callers -> Sids \cup {None}])'
               /\ (reply \in [Callers -> Sids \cup {None}])'
               /\ Generated'
    <3>1. sessMux' \in Callers \cup {None} /\ pc' \in [Callers -> CallerPc]
      BY <2>4 DEF Return, CallersTyped, CallerPc
    <3>2. /\ arg' \in [Callers -> Addrs \cup {None}]
          /\ mine' \in [Callers -> Sids \cup {None}]
          /\ reply' \in [Callers -> Sids \cup {None}]
      BY <2>4 DEF Return, CallersTyped
    <3>3. /\ pc'[c] = "idle"
          /\ \A d \in Callers : d # c => /\ pc'[d] = pc[d] /\ arg'[d] = arg[d]
                                         /\ mine'[d] = mine[d]
      BY <2>4 DEF Return, CallersTyped
    <3>. QED
      BY <3>1, <3>2, <3>3 DEF CallersTyped, Generated
  <2>5. ASSUME NEW c \in Callers, HiNoInfo(c) \/ HiDialFailed(c)
        PROVE  AllTyped'
    <3>1. Return(c, None) /\ UNCHANGED <<sessions, addrOf, go, closeVars, ctxDone, idle, flowVars>>
      BY <2>5 DEF HiNoInfo, HiDialFailed
    <3>. QED
      BY <2>1, <2>4, <3>1 DEF CallersTyped
  <2>6. ASSUME NEW c \in Callers, HiFound(c)
        PROVE  AllTyped'
    <3>1. Return(c, sessions[arg[c]])
          /\ UNCHANGED <<sessions, addrOf, go, closeVars, ctxDone, idle, flowVars>>
      BY <2>6 DEF HiFound
    <3>2. sessions[arg[c]] \in Sids \cup {None}
      BY <2>6 DEF HiFound, CallersTyped, Keys
    <3>. QED
      BY <2>1, <2>4, <3>1, <3>2 DEF CallersTyped
  <2>7. ASSUME NEW c \in Callers, NEW s \in Sids, HiNew(c, s)
        PROVE  AllTyped'
    <3>1. CallersTyped'
      BY <2>7 DEF HiNew, CallersTyped, CallerPc
    <3>2. Generated'
      BY <2>7 DEF HiNew, CallersTyped, Generated
    <3>. QED
      BY <2>1, <2>7, <3>1, <3>2 DEF HiNew
  <2>8. ASSUME NEW c \in Callers, HiDialed(c)
        PROVE  AllTyped'
    <3>1. mine[c] \in Sids /\ arg[c] \in Addrs
      BY <2>8 DEF HiDialed, Generated, CallersTyped
    <3>2. GoType'
      BY <2>8, <3>1, DialedStarts
    <3>3. CallersTyped'
      BY <2>8, <3>1 DEF HiDialed, CallersTyped, CallerPc
    <3>4. Generated'
      BY <2>8, <3>1 DEF HiDialed, CallersTyped, Generated
    <3>5. CloseTyped' /\ FlowTyped'
      BY <2>8 DEF HiDialed, CloseTyped, FlowTyped, closeVars, flowVars
    <3>. QED
      BY <3>2, <3>3, <3>4, <3>5
  <2>9. ASSUME NEW c \in Callers, HiStore(c)
        PROVE  AllTyped'
    <3>1. mine[c] \in Sids /\ arg[c] \in Addrs /\ Return(c, mine[c])
      BY <2>9 DEF HiStore, Generated, CallersTyped
    <3>2. GoType'
      BY <2>9, <3>1, StoredStarts
    <3>3. sessions' \in [Keys -> Sids \cup {None}] /\ addrOf' = addrOf
      BY <2>9, <3>1 DEF HiStore, CallersTyped
    <3>4. CallersTyped' /\ Generated'
      BY <2>4, <3>1, <3>3 DEF CallersTyped
    <3>5. CloseTyped' /\ FlowTyped'
      BY <2>9 DEF HiStore, CloseTyped, FlowTyped, closeVars, flowVars
    <3>. QED
      BY <3>2, <3>4, <3>5
  <2>10. ASSUME NEW s \in Sids, NEW r \in Roles, LoopMoves(s, r)
         PROVE  AllTyped'
    <3>1. /\ GoType'
          /\ UNCHANGED <<sessMux, pc, arg, mine, reply, addrOf, closeVars, ctxDone, accepted>>
      BY <2>10, LoopStep
    <3>2. sessions' \in [Keys -> Sids \cup {None}]
      BY <2>10 DEF LoopMoves, TouchActivity, ReadOk, ReadEnd, WriteTake, WriteStop, WriteOk,
                   WriteFailed, ProcessTake, Forward, Drop, ProcessStop, Manager, callerVars,
                   CallersTyped
    <3>3. idle' \in [Sids -> BOOLEAN]
      BY <2>10, Zenon
      DEF LoopMoves, TouchActivity, ReadOk, ReadEnd, WriteTake, WriteStop, WriteOk,
          WriteFailed, ProcessTake, Forward, Drop, ProcessStop, Manager, CloseTyped
    <3>4. CallersTyped' /\ Generated' /\ CloseTyped'
      BY <3>1, <3>2, <3>3 DEF CallersTyped, Generated, CloseTyped, closeVars
    <3>5. FlowTyped'
      BY <2>10, FlowTypedStep
    <3>. QED
      BY <3>1, <3>4, <3>5
  <2>11. ASSUME NEW s \in Sids, NEW r \in Roles, Close(s, r)
         PROVE  AllTyped'
    <3>1. GoType' /\ UNCHANGED <<callerVars, addrOf, ctxDone, idle, flowVars>>
      BY <2>11, CloseStep
    <3>2. streamMu' \in [Sids -> Roles \cup {None}] /\ closes' \in [Sids -> Nat]
      BY <2>11 DEF Close, CloseLock, CloseAgain, CloseFirst, CloseShut, CloseTyped, closeVars
    <3>3. CallersTyped' /\ Generated'
      BY <3>1 DEF CallersTyped, Generated, callerVars
    <3>4. CloseTyped' /\ FlowTyped'
      BY <3>1, <3>2 DEF CloseTyped, FlowTyped, flowVars
    <3>. QED
      BY <3>1, <3>3, <3>4
  <2>12. ASSUME NEW s \in Sids, MinutePasses(s) \/ ContextEnds(s)
         PROVE  AllTyped'
    <3>1. CallersTyped' /\ Generated' /\ GoType' /\ FlowTyped'
      BY <2>12 DEF MinutePasses, ContextEnds, CallersTyped, Generated, GoType, FlowTyped,
                   callerVars, flowVars
    <3>2. CloseTyped'
      BY <2>12 DEF MinutePasses, ContextEnds, CloseTyped, closeVars
    <3>. QED
      BY <3>1, <3>2
  <2>13. ASSUME NEW s \in Sids, Send(s)
         PROVE  AllTyped'
    <3>1. Append(inbox[s], accepted[s] + 1) \in Seq(Nat) /\ accepted[s] + 1 \in Nat
      BY QueueTypes DEF FlowTyped
    <3>2. FlowTyped'
      BY <2>13, <3>1 DEF Send, FlowTyped
    <3>3. CallersTyped' /\ Generated' /\ GoType' /\ CloseTyped'
      BY <2>13 DEF Send, CallersTyped, Generated, GoType, CloseTyped, callerVars, closeVars
    <3>. QED
      BY <3>2, <3>3
  <2>14. CASE UNCHANGED vars
    BY <2>1, <2>14 DEF vars, CallersTyped, Generated, callerVars
  <2>. QED
    BY <2>2, <2>3, <2>5, <2>6, <2>7, <2>8, <2>9, <2>10, <2>11, <2>12, <2>13, <2>14
    DEF Next, TouchHiTo, Session, Reader, Writer, Processor, LoopMoves, Environment, Roles
<1>3. AllTyped => TypeOK /\ Generated
  BY TypeParts DEF AllTyped
<1>. QED
  BY <1>1, <1>2, <1>3, PTL DEF Spec

(* Every variable keeps its type, whatever callers and goroutines do.       *)
THEOREM TypeInvariant == Spec => []TypeOK
BY TypesInductive, PTL

-----------------------------------------------------------------------------
(* Every step is a caller's, one of a loop, one of Close, or one of the     *)
(* environment.                                                             *)
CallerMoves(c) == (\E a \in Addrs : Request(c, a)) \/ TouchHiTo(c)

LEMMA StepKinds ==
  ASSUME [Next]_vars
  PROVE  \/ \E c \in Callers : CallerMoves(c)
         \/ \E s \in Sids, r \in Roles : LoopMoves(s, r) \/ Close(s, r)
         \/ \E s \in Sids : Environment(s)
         \/ UNCHANGED vars
BY DEF Next, CallerMoves, Session, Reader, Writer, Processor, LoopMoves, Roles

(* What the registry invariants speak of is left alone by the goroutines of *)
(* a session: sessionManager's delete names a key nothing is stored under.  *)
LEMMA RegistryUntouched ==
  ASSUME TypeOK, RegistryInv, UNCHANGED <<sessMux, sessions, pc, arg, mine, addrOf>>,
         \A t \in Sids, p \in Roles : go[t][p] = "none" => go'[t][p] = "none"
  PROVE  RegistryInv'
<1>1. CallsHoldMutex' /\ CallsKnow' /\ EntriesMatch' /\ StreamRegistered'
  BY DEF RegistryInv, CallsHoldMutex, CallsKnow, EntriesMatch, StreamRegistered, Fresh
<1>2. StartedOnce'
  BY DEF RegistryInv, CallsKnow, StartedOnce, Fresh, Roles
<1>. QED
  BY <1>1, <1>2 DEF RegistryInv

LEMMA ManagerDeletesNothing ==
  ASSUME TypeOK, EntriesMatch, NEW s \in Sids, Manager(s)
  PROVE  sessions' = sessions
<1>1. sessions[s] = None
  BY ConstantsAssumption DEF EntriesMatch, Keys
<1>2. sessions' = [sessions EXCEPT ![s] = None] /\ sessions \in [Keys -> Sids \cup {None}]
  BY DEF Manager, TypeOK
<1>. QED
  BY <1>1, <1>2

(* A caller that neither dials nor stores in this step leaves the registry  *)
(* and the goroutines alone.                                                *)
LEMMA RegistryRead ==
  ASSUME RegistryInv, UNCHANGED <<sessions, addrOf, go>>, CallsHoldMutex',
         \A d \in Callers : pc[d] = "store" \/ pc'[d] = "store" =>
             pc'[d] = pc[d] /\ mine'[d] = mine[d] /\ arg'[d] = arg[d],
         \A d \in Callers : pc'[d] = "dial" =>
             mine'[d] \in Sids /\ Fresh(mine'[d]) /\ sessions[arg'[d]] = None
  PROVE  RegistryInv'
<1>1. CallsKnow'
  BY DEF RegistryInv, CallsKnow, Fresh
<1>2. EntriesMatch' /\ StreamRegistered'
  BY DEF RegistryInv, EntriesMatch, StreamRegistered, Fresh
<1>3. StartedOnce'
  BY DEF RegistryInv, StartedOnce, Fresh
<1>. QED
  BY <1>1, <1>2, <1>3 DEF RegistryInv

(* The registry: RegistryInv is inductive given the types.                  *)
LEMMA RegistryInvariant == Spec => []RegistryInv
<1>. USE ConstantsAssumption
<1>1. Init => RegistryInv
  BY DEF Init, RegistryInv, CallsHoldMutex, CallsKnow, EntriesMatch,
         StreamRegistered, StartedOnce, Fresh
<1>2. TypeOK /\ RegistryInv /\ [Next]_vars => RegistryInv'
  <2>. SUFFICES ASSUME TypeOK, RegistryInv, [Next]_vars PROVE RegistryInv'
    OBVIOUS
  <2>0. GoType
    BY DEF TypeOK, GoType
  <2>1. ASSUME NEW c \in Callers, NEW a \in Addrs, Request(c, a)
        PROVE  RegistryInv'
    <3>1. \A d \in Callers : d # c => pc'[d] = pc[d] /\ arg'[d] = arg[d]
      BY <2>1 DEF Request, TypeOK
    <3>2. pc[c] = "idle" /\ pc'[c] = "lock" /\ UNCHANGED <<sessMux, sessions, mine, addrOf, go>>
      BY <2>1 DEF Request, TypeOK
    <3>. QED
      BY <3>1, <3>2, RegistryRead DEF RegistryInv, CallsHoldMutex, CallsKnow
  <2>2. ASSUME NEW c \in Callers, HiLock(c)
        PROVE  RegistryInv'
    <3>1. \A d \in Callers : d # c => pc'[d] = pc[d] /\ pc[d] \notin {"load", "dial", "store"}
      BY <2>2 DEF HiLock, TypeOK, RegistryInv, CallsHoldMutex
    <3>2. /\ pc[c] = "lock" /\ pc'[c] = "load" /\ sessMux' = c
          /\ UNCHANGED <<sessions, arg, mine, addrOf, go>>
      BY <2>2 DEF HiLock, TypeOK
    <3>. QED
      BY <3>1, <3>2, RegistryRead DEF RegistryInv, CallsHoldMutex, CallsKnow
  <2>3. ASSUME NEW c \in Callers, HiNoInfo(c) \/ HiFound(c) \/ HiDialFailed(c)
        PROVE  RegistryInv'
    <3>1. \A d \in Callers : d # c => pc'[d] = pc[d] /\ pc[d] \notin {"load", "dial", "store"}
      BY <2>3 DEF HiNoInfo, HiFound, HiDialFailed, Return, TypeOK, RegistryInv, CallsHoldMutex
    <3>2. /\ pc[c] \in {"load", "dial"} /\ pc'[c] = "idle"
          /\ UNCHANGED <<sessions, addrOf, go>>
      BY <2>3 DEF HiNoInfo, HiFound, HiDialFailed, Return, TypeOK
    <3>. QED
      BY <3>1, <3>2, RegistryRead DEF CallsHoldMutex
  <2>4. ASSUME NEW c \in Callers, NEW s \in Sids, HiNew(c, s)
        PROVE  RegistryInv'
    <3>1. \A d \in Callers : d # c => pc'[d] = pc[d] /\ pc[d] \notin {"load", "dial", "store"}
      BY <2>4 DEF HiNew, TypeOK, RegistryInv, CallsHoldMutex
    <3>2. /\ pc[c] = "load" /\ pc'[c] = "dial" /\ mine'[c] = s /\ Fresh(s)
          /\ sessions[arg[c]] = None /\ UNCHANGED <<sessMux, sessions, arg, addrOf, go>>
      BY <2>4 DEF HiNew, TypeOK
    <3>. QED
      BY <3>1, <3>2, RegistryRead DEF RegistryInv, CallsHoldMutex
  <2>5. ASSUME NEW c \in Callers, HiDialed(c)
        PROVE  RegistryInv'
    <3>. DEFINE s == mine[c]
    <3>1. /\ s \in Sids /\ Fresh(s) /\ arg[c] \in Addrs /\ sessions[arg[c]] = None
          /\ \A r \in Roles : go[s][r] = "none"
      BY <2>5 DEF HiDialed, RegistryInv, CallsKnow, StartedOnce, TypeOK
    <3>2. /\ pc[c] = "dial" /\ pc'[c] = "store" /\ addrOf'[s] = arg[c]
          /\ \A t \in Sids : t # s => addrOf'[t] = addrOf[t]
          /\ UNCHANGED <<sessMux, sessions, arg, mine>>
      BY <2>5, <3>1 DEF HiDialed, TypeOK
    <3>3. \A d \in Callers : d # c => pc'[d] = pc[d] /\ pc[d] \notin {"load", "dial", "store"}
      BY <2>5 DEF HiDialed, TypeOK, RegistryInv, CallsHoldMutex
    <3>4. \A t \in Sids, r \in Roles : t # s \/ r \in {"processor", "manager"} => go'[t][r] = go[t][r]
      BY <2>0, <2>5, <3>1, DialedStarts
    <3>. HIDE DEF s
    <3>5. CallsHoldMutex' /\ CallsKnow'
      BY <3>1, <3>2, <3>3 DEF s, RegistryInv, CallsHoldMutex, CallsKnow
    <3>6. \A k \in Keys : sessions[k] # None => sessions[k] \in Sids /\ sessions[k] # s
      BY <3>1 DEF RegistryInv, EntriesMatch, TypeOK, Fresh
    <3>7. EntriesMatch'
      BY <3>2, <3>6 DEF RegistryInv, EntriesMatch
    <3>8. StreamRegistered'
      <4>1. ASSUME NEW t \in Sids, t # s, ~Fresh(t)
            PROVE  sessions[addrOf[t]] = t
        BY <3>1, <3>2, <3>3, <4>1 DEF s, RegistryInv, StreamRegistered, Fresh
      <4>. QED
        BY <3>2, <4>1 DEF s, StreamRegistered, Fresh
    <3>9. StartedOnce'
      BY <3>1, <3>2, <3>3, <3>4 DEF s, RegistryInv, StartedOnce, Fresh, Roles
    <3>. QED
      BY <3>5, <3>7, <3>8, <3>9 DEF RegistryInv
  <2>6. ASSUME NEW c \in Callers, HiStore(c)
        PROVE  RegistryInv'
    <3>. DEFINE s == mine[c]  a == arg[c]
    <3>1. s \in Sids /\ a \in Addrs /\ addrOf[s] = a /\ sessions[a] = None
      BY <2>6 DEF HiStore, RegistryInv, CallsKnow, TypeOK
    <3>2. /\ pc[c] = "store" /\ pc'[c] = "idle" /\ sessions'[a] = s /\ addrOf' = addrOf
          /\ \A k \in Keys : k # a => sessions'[k] = sessions[k]
      BY <2>6, <3>1 DEF HiStore, Return, TypeOK, Keys
    <3>3. \A d \in Callers : d # c => pc'[d] = pc[d] /\ pc[d] \notin {"load", "dial", "store"}
      BY <2>6 DEF HiStore, Return, TypeOK, RegistryInv, CallsHoldMutex
    <3>4. \A t \in Sids, r \in Roles : t # s => go'[t][r] = go[t][r]
      BY <2>0, <2>6, <3>1, StoredStarts
    <3>. HIDE DEF s, a
    <3>5. CallsHoldMutex' /\ CallsKnow'
      BY <3>2, <3>3 DEF CallsHoldMutex, CallsKnow
    <3>6. EntriesMatch'
      BY <3>1, <3>2 DEF RegistryInv, EntriesMatch
    <3>7. StreamRegistered'
      <4>1. ASSUME NEW t \in Sids, t # s, ~Fresh(t)
            PROVE  sessions'[addrOf[t]] = t
        <5>1. sessions[addrOf[t]] = t /\ addrOf[t] \in Keys
          BY <3>2, <3>3, <4>1 DEF s, RegistryInv, StreamRegistered, Fresh, TypeOK, Keys
        <5>2. addrOf[t] # a
          BY <3>1, <5>1
        <5>. QED
          BY <3>2, <5>1, <5>2
      <4>. QED
        BY <3>1, <3>2, <4>1 DEF StreamRegistered, Fresh
    <3>8. StartedOnce'
      BY <3>1, <3>2, <3>3, <3>4 DEF RegistryInv, StartedOnce, Fresh
    <3>. QED
      BY <3>5, <3>6, <3>7, <3>8 DEF RegistryInv
  <2>7. ASSUME NEW s \in Sids, NEW r \in Roles, LoopMoves(s, r)
        PROVE  RegistryInv'
    <3>1. sessions' = sessions
      BY <2>7, ManagerDeletesNothing
      DEF LoopMoves, TouchActivity, ReadOk, ReadEnd, WriteTake, WriteStop, WriteOk, WriteFailed,
          ProcessTake, Forward, Drop, ProcessStop, callerVars, RegistryInv
    <3>. QED
      BY <2>0, <2>7, <3>1, LoopStep, RegistryUntouched DEF InLoop
  <2>8. ASSUME NEW s \in Sids, NEW r \in Roles, Close(s, r)
        PROVE  RegistryInv'
    BY <2>0, <2>8, CloseStep, RegistryUntouched DEF callerVars
  <2>9. ASSUME NEW s \in Sids, Environment(s)
        PROVE  RegistryInv'
    BY <2>9, RegistryUntouched DEF Environment, MinutePasses, ContextEnds, Send, callerVars
  <2>10. CASE UNCHANGED vars
    BY <2>10, RegistryUntouched DEF vars, callerVars
  <2>. QED
    BY <2>1, <2>2, <2>3, <2>4, <2>5, <2>6, <2>7, <2>8, <2>9, <2>10, StepKinds
    DEF CallerMoves, TouchHiTo
<1>. QED
  BY <1>1, <1>2, TypeInvariant, PTL DEF Spec

(* Every open stream is in the registry or in the hands of its opener.      *)
THEOREM StreamsAreRegistered == Spec => []StreamRegistered
  BY RegistryInvariant, PTL DEF RegistryInv

(* At most one stream per remote address: two of them would both be entries *)
(* of that address, or be held by two callers inside sessMux, or one of     *)
(* each.                                                                    *)
THEOREM OneSessionEach == Spec => []OneSessionPerPeer
<1>1. ASSUME TypeOK, RegistryInv, NEW s \in Sids, NEW t \in Sids,
             ~Fresh(s), addrOf[s] = addrOf[t]
      PROVE  s = t
  <2>. DEFINE Held(u) == \E c \in Callers : pc[c] = "store" /\ mine[c] = u
  <2>1. \A u \in {s, t} : sessions[addrOf[s]] = u \/ Held(u)
    BY <1>1 DEF RegistryInv, StreamRegistered, Fresh
  <2>2. \A u \in {s, t} : Held(u) => sessions[addrOf[s]] = None
    BY <1>1 DEF RegistryInv, CallsKnow
  <2>3. Held(s) /\ Held(t) => s = t
    BY <1>1 DEF RegistryInv, CallsHoldMutex
  <2>4. None \notin {s, t}
    BY ConstantsAssumption
  <2>. QED
    BY <2>1, <2>2, <2>3, <2>4
<1>2. TypeOK /\ RegistryInv => OneSessionPerPeer
  BY <1>1 DEF OneSessionPerPeer
<1>. QED
  BY <1>2, TypeInvariant, RegistryInvariant, PTL

-----------------------------------------------------------------------------
(* A caller starts goroutines that did not run and touches no other one.    *)
LEMMA CallerStep ==
  ASSUME TypeOK, RegistryInv, NEW c \in Callers, CallerMoves(c)
  PROVE  /\ UNCHANGED <<closeVars, ctxDone, idle, flowVars>>
         /\ \A t \in Sids, p \in Roles :
               \/ go'[t][p] = go[t][p]
               \/ go[t][p] = "none" /\ go'[t][p] = "top"
<1>1. UNCHANGED <<closeVars, ctxDone, idle, flowVars>>
  BY DEF CallerMoves, Request, TouchHiTo, HiLock, HiNoInfo, HiFound, HiNew, HiDialFailed,
         HiDialed, HiStore
<1>2. GoType
  BY DEF TypeOK, GoType
<1>3. CASE HiDialed(c)
  <2>1. mine[c] \in Sids /\ \A p \in Roles : go[mine[c]][p] = "none"
    BY <1>3 DEF HiDialed, RegistryInv, CallsKnow, StartedOnce
  <2>2. /\ go'[mine[c]]["reader"] = "top" /\ go'[mine[c]]["writer"] = "top"
        /\ \A u \in Sids, r \in Roles :
              u # mine[c] \/ r \notin {"reader", "writer"} => go'[u][r] = go[u][r]
    BY <1>2, <1>3, <2>1, DialedStarts
  <2>. QED
    BY <1>1, <2>1, <2>2
<1>4. CASE HiStore(c)
  <2>1. mine[c] \in Sids /\ \A p \in {"processor", "manager"} : go[mine[c]][p] = "none"
    BY <1>4 DEF HiStore, RegistryInv, CallsKnow, StartedOnce
  <2>2. /\ go'[mine[c]]["manager"] = "top" /\ go'[mine[c]]["processor"] = "top"
        /\ \A u \in Sids, r \in Roles :
              u # mine[c] \/ r \notin {"manager", "processor"} => go'[u][r] = go[u][r]
    BY <1>2, <1>4, <2>1, StoredStarts
  <2>. QED
    BY <1>1, <2>1, <2>2
<1>5. CASE UNCHANGED go
  BY <1>1, <1>5
<1>. QED
  BY <1>3, <1>4, <1>5
  DEF CallerMoves, Request, TouchHiTo, HiLock, HiNoInfo, HiFound, HiNew, HiDialFailed

(* Outside Close nothing reaches its program counters or its variables.     *)
LEMMA CloseUntouched ==
  ASSUME CloseInv, CloseOnce, UNCHANGED closeVars,
         \A t \in Sids, p \in Roles :
            go'[t][p] \in {"examine", "shut"} => go'[t][p] = go[t][p]
  PROVE  CloseInv' /\ CloseOnce'
BY DEF CloseInv, CloseOnce, closeVars

(* stream.Close: the goroutine past the lock is the one stream.mu names.    *)
LEMMA CloseInvariant == Spec => [](CloseInv /\ CloseOnce)
<1>. USE ConstantsAssumption
<1>1. Init => CloseInv /\ CloseOnce
  BY DEF Init, CloseInv, CloseOnce
<1>2. TypeOK /\ RegistryInv /\ CloseInv /\ CloseOnce /\ [Next]_vars => CloseInv' /\ CloseOnce'
  <2>. SUFFICES ASSUME TypeOK, RegistryInv, CloseInv, CloseOnce, [Next]_vars
                PROVE  CloseInv' /\ CloseOnce'
    OBVIOUS
  <2>0. GoType
    BY DEF TypeOK, GoType
  <2>1. ASSUME NEW c \in Callers, CallerMoves(c)
        PROVE  CloseInv' /\ CloseOnce'
    BY <2>1, CallerStep, CloseUntouched
  <2>2. ASSUME NEW s \in Sids, NEW r \in Roles, LoopMoves(s, r)
        PROVE  CloseInv' /\ CloseOnce'
    BY <2>0, <2>2, LoopStep, CloseUntouched DEF InLoop
  <2>3. ASSUME NEW s \in Sids, NEW r \in Roles, Close(s, r)
        PROVE  CloseInv' /\ CloseOnce'
    <3>1. \A t \in Sids, p \in Roles : t # s \/ p # r => go'[t][p] = go[t][p]
      BY <2>0, <2>3, CloseStep
    <3>2. /\ \A t \in Sids : t # s => streamMu'[t] = streamMu[t] /\ closes'[t] = closes[t]
          /\ closes[s] \in Nat
      BY <2>3 DEF Close, CloseLock, CloseAgain, CloseFirst, CloseShut, closeVars, TypeOK
    <3>3. CASE CloseLock(s, r)
      <4>1. /\ streamMu[s] = None /\ streamMu'[s] = r /\ closes'[s] = closes[s]
            /\ go'[s][r] = "examine"
        BY <2>0, <3>3, OneMoves DEF CloseLock, RolePc, TypeOK
      <4>. QED
        BY <3>1, <3>2, <4>1 DEF CloseInv, CloseOnce
    <3>4. CASE CloseAgain(s, r)
      <4>1. /\ go[s][r] = "examine" /\ go'[s][r] = "done" /\ closes'[s] = closes[s]
        BY <2>0, <3>4, OneMoves DEF CloseAgain, RolePc, TypeOK
      <4>2. \A p \in Roles : p # r => go[s][p] \notin {"examine", "shut"}
        BY <4>1 DEF CloseInv
      <4>. QED
        BY <3>1, <3>2, <4>1, <4>2 DEF CloseInv, CloseOnce
    <3>5. CASE CloseFirst(s, r)
      <4>1. /\ go[s][r] = "examine" /\ go'[s][r] = "shut" /\ closes[s] = 0
            /\ UNCHANGED <<streamMu, closes>>
        BY <2>0, <3>2, <3>5, OneMoves DEF CloseFirst, Closed, RolePc, closeVars
      <4>. QED
        BY <3>1, <4>1 DEF CloseInv, CloseOnce
    <3>6. CASE CloseShut(s, r)
      <4>1. /\ go[s][r] = "shut" /\ go'[s][r] = "done" /\ closes'[s] = closes[s] + 1
        BY <2>0, <3>6, OneMoves DEF CloseShut, RolePc, TypeOK
      <4>2. closes[s] = 0 /\ \A p \in Roles : p # r => go[s][p] \notin {"examine", "shut"}
        BY <4>1 DEF CloseInv
      <4>. QED
        BY <3>1, <3>2, <4>1, <4>2 DEF CloseInv, CloseOnce
    <3>. QED
      BY <2>3, <3>3, <3>4, <3>5, <3>6 DEF Close
  <2>4. ASSUME NEW s \in Sids, Environment(s)
        PROVE  CloseInv' /\ CloseOnce'
    BY <2>4, CloseUntouched DEF Environment, MinutePasses, ContextEnds, Send
  <2>5. CASE UNCHANGED vars
    BY <2>5, CloseUntouched DEF vars
  <2>. QED
    BY <2>1, <2>2, <2>3, <2>4, <2>5, StepKinds
<1>. QED
  BY <1>1, <1>2, TypeInvariant, RegistryInvariant, PTL DEF Spec

(* closeChan is closed at most once, by whichever of the three goroutines   *)
(* came first.                                                              *)
THEOREM ClosedOnce == Spec => []CloseOnce
  BY CloseInvariant, PTL

-----------------------------------------------------------------------------
(* Taking the first message of a stage: where the stage was, the message    *)
(* followed by the rest can stand.                                          *)
LEMMA Taking ==
  ASSUME NEW q \in Seq(Nat), q # <<>>, NEW n \in Nat,
         NEW B, Leads(q, B, n)
  PROVE  /\ Leads(<<Head(q)>>, B \cup {Tail(q)}, n)
         /\ Leads(Tail(q), B, n)
         /\ \A p \in Seq(Nat) : Below(p, q) => Below(p, <<Head(q)>>) /\ Below(p, Tail(q))
<1>1. /\ DOMAIN q = 1..Len(q) /\ Len(q) \in Nat \ {0}
      /\ DOMAIN <<Head(q)>> = {1} /\ <<Head(q)>>[1] = q[1]
      /\ DOMAIN Tail(q) = 1..(Len(q) - 1)
      /\ \A i \in 1..(Len(q) - 1) : Tail(q)[i] = q[i + 1]
      /\ \A i \in 1..Len(q) : q[i] \in Nat
  OBVIOUS
<1>2. Ascending(<<Head(q)>>) /\ Ascending(Tail(q))
  <2>1. \A i, j \in 1..Len(q) : i < j => q[i] < q[j]
    BY <1>1 DEF Leads, Ascending
  <2>2. Ascending(<<Head(q)>>)
    BY <1>1 DEF Ascending
  <2>3. ASSUME NEW i \in 1..(Len(q) - 1), NEW j \in 1..(Len(q) - 1), i < j
        PROVE  Tail(q)[i] < Tail(q)[j]
    <3>1. i + 1 \in 1..Len(q) /\ j + 1 \in 1..Len(q) /\ i + 1 < j + 1
      BY <1>1, <2>3
    <3>. QED
      BY <1>1, <2>1, <3>1
  <2>. QED
    BY <1>1, <2>2, <2>3 DEF Ascending
<1>3. Below(<<Head(q)>>, Tail(q))
  BY <1>1 DEF Leads, Ascending, Below
<1>4. \A r \in B : Below(<<Head(q)>>, r) /\ Below(Tail(q), r)
  <2>. TAKE r \in B
  <2>1. Below(q, r)
    BY DEF Leads
  <2>. QED
    BY <1>1, <2>1 DEF Below
<1>5. /\ \A i \in DOMAIN <<Head(q)>> : <<Head(q)>>[i] <= n
      /\ \A i \in DOMAIN Tail(q) : Tail(q)[i] <= n
  BY <1>1 DEF Leads
<1>6. ASSUME NEW p \in Seq(Nat), Below(p, q)
      PROVE  Below(p, <<Head(q)>>) /\ Below(p, Tail(q))
  <2>1. \A i \in DOMAIN p, j \in 1..Len(q) : p[i] < q[j]
    BY <1>1, <1>6 DEF Below
  <2>2. 1 \in 1..Len(q) /\ \A j \in 1..(Len(q) - 1) : j + 1 \in 1..Len(q)
    BY <1>1
  <2>3. Below(p, <<Head(q)>>)
    BY <1>1, <2>1, <2>2 DEF Below
  <2>4. Below(p, Tail(q))
    BY <1>1, <2>1, <2>2 DEF Below
  <2>. QED
    BY <2>3, <2>4
<1>. QED
  BY <1>2, <1>3, <1>4, <1>5, <1>6 DEF Leads

(* Passing a message on: the stage in front of it grows by it.              *)
LEMMA Passing ==
  ASSUME NEW q \in Seq(Nat), NEW h \in Seq(Nat), NEW n \in Nat,
         NEW B, Leads(q, B, n), Leads(h, B, n), Below(q, h)
  PROVE  /\ Leads(q \o h, B, n)
         /\ \A p \in Seq(Nat) : Below(p, q) /\ Below(p, h) => Below(p, q \o h)
<1>. DEFINE qh == q \o h
<1>1. /\ DOMAIN q = 1..Len(q) /\ DOMAIN h = 1..Len(h) /\ Len(q) \in Nat /\ Len(h) \in Nat
      /\ DOMAIN qh = 1..(Len(q) + Len(h))
      /\ \A i \in DOMAIN qh :
            IF i <= Len(q) THEN i \in DOMAIN q /\ qh[i] = q[i]
                           ELSE i - Len(q) \in DOMAIN h /\ qh[i] = h[i - Len(q)]
      /\ \A i \in DOMAIN q : q[i] \in Nat
      /\ \A i \in DOMAIN h : h[i] \in Nat
  OBVIOUS
<1>. HIDE DEF qh
<1>2. Ascending(qh)
  <2>1. ASSUME NEW i \in DOMAIN qh, NEW j \in DOMAIN qh, i < j
        PROVE  qh[i] < qh[j]
    <3>1. CASE j <= Len(q)
      BY <1>1, <2>1, <3>1 DEF Leads, Ascending
    <3>2. CASE i <= Len(q) /\ ~(j <= Len(q))
      BY <1>1, <2>1, <3>2 DEF Below
    <3>3. CASE ~(i <= Len(q))
      BY <1>1, <2>1, <3>3 DEF Leads, Ascending
    <3>. QED
      BY <1>1, <2>1, <3>1, <3>2, <3>3
  <2>. QED
    BY <2>1 DEF Ascending
<1>3. \A r \in B : Below(qh, r)
  <2>. TAKE r \in B
  <2>1. Below(q, r) /\ Below(h, r)
    BY DEF Leads
  <2>. QED
    BY <1>1, <2>1 DEF Below
<1>4. \A i \in DOMAIN qh : qh[i] <= n
  BY <1>1 DEF Leads
<1>5. ASSUME NEW p \in Seq(Nat), Below(p, q), Below(p, h)
      PROVE  Below(p, qh)
  BY <1>1, <1>5 DEF Below
<1>. QED
  BY <1>2, <1>3, <1>4, <1>5 DEF Leads, qh

(* The same for a message the stage in front takes as it leaves its holder:  *)
(* joining two adjacent stages keeps the order of both.                     *)
LEMMA Joining ==
  \A q, h \in Seq(Nat), n \in Nat :
    Leads(q, {}, n) /\ Leads(h, {}, n) /\ Below(q, h) =>
      /\ q \o h \in Seq(Nat)
      /\ Leads(q \o h, {}, n)
      /\ \A p \in Seq(Nat) : Below(p, q) /\ Below(p, h) => Below(p, q \o h)
<1>. TAKE q, h \in Seq(Nat), n \in Nat
<1>. HAVE Leads(q, {}, n) /\ Leads(h, {}, n) /\ Below(q, h)
<1>1. q \o h \in Seq(Nat)
  OBVIOUS
<1>. QED
  BY <1>1, Passing

(* An empty stage leads anything and is above anything.                     *)
LEMMA EmptyStage ==
  /\ \A B, n : Leads(<<>>, B, n)
  /\ \A p : Below(p, <<>>)
  BY DEF Leads, Below, Ascending

(* The writer takes the first message of the stream's channel. *)
LEMMA OrderWriteTake ==
  \A w, wh, out, ph, in \in Seq(Nat), n \in Nat :
    InOrder(w, wh, out, ph, in, n) /\ wh = <<>> /\ out # <<>> => InOrder(w, <<Head(out)>>, Tail(out), ph, in, n)
<1>. TAKE w, wh, out, ph, in \in Seq(Nat), n \in Nat
<1>. HAVE InOrder(w, wh, out, ph, in, n) /\ wh = <<>> /\ out # <<>>
<1>1. Leads(out, {ph, in}, n) /\ Below(w, out)
  BY DEF InOrder, Leads
<1>2. /\ Leads(<<Head(out)>>, {ph, in} \cup {Tail(out)}, n)
      /\ Leads(Tail(out), {ph, in}, n)
      /\ Below(w, <<Head(out)>>) /\ Below(w, Tail(out))
  BY <1>1, Taking
<1>. QED
  BY <1>2 DEF InOrder, Leads

(* The writer puts the message it holds on the wire. *)
LEMMA OrderWriteOk ==
  \A w, wh, out, ph, in \in Seq(Nat), n \in Nat :
    InOrder(w, wh, out, ph, in, n) => InOrder(w \o wh, <<>>, out, ph, in, n)
<1>. TAKE w, wh, out, ph, in \in Seq(Nat), n \in Nat
<1>. HAVE InOrder(w, wh, out, ph, in, n)
<1>1. Leads(w, {out, ph, in}, n) /\ Leads(wh, {out, ph, in}, n) /\ Below(w, wh)
  BY DEF InOrder, Leads
<1>2. Leads(w \o wh, {out, ph, in}, n)
  BY <1>1, Passing
<1>. QED
  BY <1>2, EmptyStage DEF InOrder, Leads

(* The processor takes the first message of the session's channel. *)
LEMMA OrderProcessTake ==
  \A w, wh, out, ph, in \in Seq(Nat), n \in Nat :
    InOrder(w, wh, out, ph, in, n) /\ ph = <<>> /\ in # <<>> => InOrder(w, wh, out, <<Head(in)>>, Tail(in), n)
<1>. TAKE w, wh, out, ph, in \in Seq(Nat), n \in Nat
<1>. HAVE InOrder(w, wh, out, ph, in, n) /\ ph = <<>> /\ in # <<>>
<1>1. Leads(in, {}, n) /\ Below(w, in) /\ Below(wh, in) /\ Below(out, in)
  BY DEF InOrder, Leads
<1>2. /\ Leads(<<Head(in)>>, {} \cup {Tail(in)}, n)
      /\ Leads(Tail(in), {}, n)
      /\ \A p \in {w, wh, out} : Below(p, <<Head(in)>>) /\ Below(p, Tail(in))
  BY <1>1, Taking
<1>. QED
  BY <1>2 DEF InOrder, Leads

(* The processor passes the message it holds to the stream's channel. *)
LEMMA OrderForward ==
  \A w, wh, out, ph, in \in Seq(Nat), n \in Nat :
    InOrder(w, wh, out, ph, in, n) => InOrder(w, wh, out \o ph, <<>>, in, n)
<1>. TAKE w, wh, out, ph, in \in Seq(Nat), n \in Nat
<1>. HAVE InOrder(w, wh, out, ph, in, n)
<1>1. Leads(out, {in}, n) /\ Leads(ph, {in}, n) /\ Below(out, ph)
  BY DEF InOrder, Leads
<1>2. /\ Leads(out \o ph, {in}, n)
      /\ \A p \in Seq(Nat) : Below(p, out) /\ Below(p, ph) => Below(p, out \o ph)
  BY <1>1, Passing
<1>3. Below(w, out \o ph) /\ Below(wh, out \o ph)
  BY <1>2 DEF InOrder, Leads
<1>. QED
  BY <1>2, <1>3, EmptyStage DEF InOrder, Leads

(* The writer or the processor loses the message it holds. *)
LEMMA OrderLoss ==
  \A w, wh, out, ph, in \in Seq(Nat), n \in Nat :
    InOrder(w, wh, out, ph, in, n) => InOrder(w, <<>>, out, ph, in, n) /\ InOrder(w, wh, out, <<>>, in, n)
  BY EmptyStage DEF InOrder, Leads

(* A message with the next number enters the session's channel. *)
LEMMA OrderSend ==
  \A w, wh, out, ph, in \in Seq(Nat), n \in Nat :
    InOrder(w, wh, out, ph, in, n) => InOrder(w, wh, out, ph, Append(in, n + 1), n + 1)
<1>. TAKE w, wh, out, ph, in \in Seq(Nat), n \in Nat
<1>. HAVE InOrder(w, wh, out, ph, in, n)
<1>1. \A q \in {w, wh, out, ph, in} : \A i \in DOMAIN q : q[i] \in Nat /\ q[i] <= n
  BY DEF InOrder, Leads
<1>2. \A q \in {w, wh, out, ph, in} :
         /\ Below(q, <<n + 1>>)
         /\ \A i \in DOMAIN q : q[i] <= n + 1
  <2>. TAKE q \in {w, wh, out, ph, in}
  <2>1. \A i \in DOMAIN q : q[i] \in Nat /\ q[i] <= n
    BY <1>1
  <2>2. \A i \in DOMAIN q : q[i] < n + 1 /\ q[i] <= n + 1
    BY <2>1
  <2>3. DOMAIN <<n + 1>> = {1} /\ <<n + 1>>[1] = n + 1
    OBVIOUS
  <2>4. Below(q, <<n + 1>>)
    BY <2>2, <2>3 DEF Below
  <2>. QED
    BY <2>2, <2>4
<1>3. /\ Leads(in, {}, n + 1)
      /\ \A p \in {w, wh, out, ph} : Below(p, in)
  BY <1>2 DEF InOrder, Leads
<1>4. /\ <<n + 1>> \in Seq(Nat) /\ n + 1 \in Nat
      /\ Leads(<<n + 1>>, {}, n + 1)
  BY DEF Leads, Ascending
<1>5. /\ Leads(in \o <<n + 1>>, {}, n + 1)
      /\ \A p \in {w, wh, out, ph} : Below(p, in \o <<n + 1>>)
  <2>1. Leads(in \o <<n + 1>>, {}, n + 1)
    BY <1>2, <1>3, <1>4, Joining
  <2>2. \A p \in Seq(Nat) : Below(p, in) /\ Below(p, <<n + 1>>) => Below(p, in \o <<n + 1>>)
    BY <1>2, <1>3, <1>4, Joining
  <2>. QED
    BY <1>2, <1>3, <2>1, <2>2
<1>6. Append(in, n + 1) = in \o <<n + 1>>
  OBVIOUS
<1>. QED
  BY <1>2, <1>5, <1>6 DEF InOrder, Leads

(* A step that moves no message and neither the writer nor the processor    *)
(* out of the place where it may hold one.                                  *)
LEMMA FlowUntouched ==
  ASSUME FlowInv, UNCHANGED flowVars,
         \A t \in Sids, p \in {"writer", "processor"} :
            go[t][p] \in {"write", "forward"} => go'[t][p] = go[t][p]
  PROVE  FlowInv'
<1>1. \A t \in Sids : StagesOrdered(t)'
  BY DEF FlowInv, StagesOrdered, flowVars
<1>2. \A t \in Sids : HandsInUse(t)'
  BY DEF FlowInv, HandsInUse, flowVars
<1>. QED
  BY <1>1, <1>2 DEF FlowInv

(* A step that moves a message of one session leaves the others alone: the  *)
(* new order of its stages is one of the lemmas above.                      *)
MovesMessage(s) ==
    WriteTake(s) \/ WriteOk(s) \/ WriteFailed(s) \/ ProcessTake(s) \/ Forward(s) \/ Drop(s)

LEMMA StageStep ==
  ASSUME TypeOK, FlowInv, NEW s \in Sids, MovesMessage(s)
  PROVE  StagesOrdered(s)'
<1>0. FlowTyped
  BY DEF TypeOK, FlowTyped
<1>1. /\ wire[s] \in Seq(Nat) /\ wHand[s] \in Seq(Nat) /\ outbox[s] \in Seq(Nat)
      /\ pHand[s] \in Seq(Nat) /\ inbox[s] \in Seq(Nat) /\ accepted[s] \in Nat
      /\ InOrder(wire[s], wHand[s], outbox[s], pHand[s], inbox[s], accepted[s])
  BY <1>0 DEF FlowTyped, FlowInv, StagesOrdered
<1>2. CASE WriteTake(s)
  <2>1. outbox[s] # <<>> /\ wHand[s] = <<>>
    BY <1>2 DEF WriteTake, Moves, FlowInv, HandsInUse
  <2>2. /\ wHand'[s] = <<Head(outbox[s])>> /\ outbox'[s] = Tail(outbox[s])
        /\ UNCHANGED <<wire, pHand, inbox, accepted>>
    BY <1>0, <1>2 DEF WriteTake, FlowTyped
  <2>3. InOrder(wire[s], <<Head(outbox[s])>>, Tail(outbox[s]), pHand[s], inbox[s], accepted[s])
    BY <1>1, <2>1, OrderWriteTake
  <2>. QED
    BY <2>2, <2>3 DEF StagesOrdered
<1>3. CASE WriteOk(s)
  <2>1. /\ wire'[s] = wire[s] \o wHand[s] /\ wHand'[s] = <<>>
        /\ UNCHANGED <<outbox, pHand, inbox, accepted>>
    BY <1>0, <1>3 DEF WriteOk, FlowTyped
  <2>3. InOrder(wire[s] \o wHand[s], <<>>, outbox[s], pHand[s], inbox[s], accepted[s])
    BY <1>1, OrderWriteOk
  <2>. QED
    BY <2>1, <2>3 DEF StagesOrdered
<1>4. CASE WriteFailed(s)
  <2>1. wHand'[s] = <<>> /\ UNCHANGED <<wire, outbox, pHand, inbox, accepted>>
    BY <1>0, <1>4 DEF WriteFailed, FlowTyped
  <2>3. InOrder(wire[s], <<>>, outbox[s], pHand[s], inbox[s], accepted[s])
    BY <1>1, OrderLoss
  <2>. QED
    BY <2>1, <2>3 DEF StagesOrdered
<1>5. CASE ProcessTake(s)
  <2>1. inbox[s] # <<>> /\ pHand[s] = <<>>
    BY <1>5 DEF ProcessTake, Moves, FlowInv, HandsInUse
  <2>2. /\ pHand'[s] = <<Head(inbox[s])>> /\ inbox'[s] = Tail(inbox[s])
        /\ UNCHANGED <<wire, wHand, outbox, accepted>>
    BY <1>0, <1>5 DEF ProcessTake, FlowTyped
  <2>3. InOrder(wire[s], wHand[s], outbox[s], <<Head(inbox[s])>>, Tail(inbox[s]), accepted[s])
    BY <1>1, <2>1, OrderProcessTake
  <2>. QED
    BY <2>2, <2>3 DEF StagesOrdered
<1>6. CASE Forward(s)
  <2>1. /\ outbox'[s] = outbox[s] \o pHand[s] /\ pHand'[s] = <<>>
        /\ UNCHANGED <<wire, wHand, inbox, accepted>>
    BY <1>0, <1>6 DEF Forward, FlowTyped
  <2>3. InOrder(wire[s], wHand[s], outbox[s] \o pHand[s], <<>>, inbox[s], accepted[s])
    BY <1>1, OrderForward
  <2>. QED
    BY <2>1, <2>3 DEF StagesOrdered
<1>7. CASE Drop(s)
  <2>1. pHand'[s] = <<>> /\ UNCHANGED <<wire, wHand, outbox, inbox, accepted>>
    BY <1>0, <1>7 DEF Drop, FlowTyped
  <2>3. InOrder(wire[s], wHand[s], outbox[s], <<>>, inbox[s], accepted[s])
    BY <1>1, OrderLoss
  <2>. QED
    BY <2>1, <2>3 DEF StagesOrdered
<1>. QED
  BY <1>2, <1>3, <1>4, <1>5, <1>6, <1>7 DEF MovesMessage

(* A hand is filled by the move to the place where it is used, and emptied  *)
(* by the move away from it.                                                *)
LEMMA HandStep ==
  ASSUME TypeOK, FlowInv, NEW s \in Sids, MovesMessage(s)
  PROVE  HandsInUse(s)'
<1>0. GoType /\ FlowTyped /\ {"writer", "processor"} \subseteq Roles
  BY DEF TypeOK, GoType, FlowTyped, Roles
<1>1. HandsInUse(s)
  BY DEF FlowInv
<1>2. CASE WriteTake(s)
  <2>1. /\ go'[s]["writer"] = "write" /\ go'[s]["processor"] = go[s]["processor"]
        /\ pHand' = pHand
    BY <1>0, <1>2, OneMoves DEF WriteTake, RolePc
  <2>. QED
    BY <1>1, <2>1 DEF HandsInUse
<1>3. CASE WriteOk(s)
  <2>1. wHand'[s] = <<>> /\ pHand' = pHand
    BY <1>0, <1>3 DEF WriteOk, FlowTyped
  <2>2. go'[s]["processor"] = go[s]["processor"]
    BY <1>0, <1>3, OneMoves DEF WriteOk, RolePc
  <2>. QED
    BY <1>1, <2>1, <2>2 DEF HandsInUse
<1>4. CASE WriteFailed(s)
  <2>1. wHand'[s] = <<>> /\ pHand' = pHand
    BY <1>0, <1>4 DEF WriteFailed, FlowTyped
  <2>2. go'[s]["processor"] = go[s]["processor"]
    BY <1>0, <1>4, OneMoves DEF WriteFailed, RolePc
  <2>. QED
    BY <1>1, <2>1, <2>2 DEF HandsInUse
<1>5. CASE ProcessTake(s)
  <2>1. /\ go'[s]["processor"] = "forward" /\ go'[s]["writer"] = go[s]["writer"]
        /\ wHand' = wHand
    BY <1>0, <1>5, OneMoves DEF ProcessTake, RolePc
  <2>. QED
    BY <1>1, <2>1 DEF HandsInUse
<1>6. CASE Forward(s)
  <2>1. pHand'[s] = <<>> /\ wHand' = wHand
    BY <1>0, <1>6 DEF Forward, FlowTyped
  <2>2. go'[s]["writer"] = go[s]["writer"]
    BY <1>0, <1>6, OneMoves DEF Forward, RolePc
  <2>. QED
    BY <1>1, <2>1, <2>2 DEF HandsInUse
<1>7. CASE Drop(s)
  <2>1. pHand'[s] = <<>> /\ wHand' = wHand
    BY <1>0, <1>7 DEF Drop, FlowTyped
  <2>2. go'[s]["writer"] = go[s]["writer"]
    BY <1>0, <1>7, OneMoves DEF Drop, RolePc
  <2>. QED
    BY <1>1, <2>1, <2>2 DEF HandsInUse
<1>. QED
  BY <1>2, <1>3, <1>4, <1>5, <1>6, <1>7 DEF MovesMessage

(* Every step of every goroutine keeps the stages of every session in order. *)
LEMMA FlowInvariant == Spec => []FlowInv
<1>1. Init => FlowInv
  BY EmptyStage DEF Init, FlowInv, StagesOrdered, InOrder, HandsInUse, Leads, Below
<1>2. TypeOK /\ RegistryInv /\ FlowInv /\ [Next]_vars => FlowInv'
  <2>. SUFFICES ASSUME TypeOK, RegistryInv, FlowInv, [Next]_vars PROVE FlowInv'
    OBVIOUS
  <2>0. GoType /\ FlowTyped /\ {"writer", "processor"} \subseteq Roles
    BY DEF TypeOK, GoType, FlowTyped, Roles
  <2>1. ASSUME NEW c \in Callers, CallerMoves(c)
        PROVE  FlowInv'
    BY <2>0, <2>1, CallerStep, FlowUntouched
  <2>2. ASSUME NEW s \in Sids, NEW r \in Roles, LoopMoves(s, r), ~MovesMessage(s)
        PROVE  FlowInv'
    <3>1. PICK p \in Roles, from \in {"top", "touch"}, to \in RolePc : Moves(s, p, from, to)
      BY <2>2 DEF LoopMoves, MovesMessage, TouchActivity, ReadOk, ReadEnd, WriteStop, ProcessStop,
                  Manager, Roles, RolePc
    <3>2. \A t \in Sids, q \in Roles :
             go[t][q] \in {"write", "forward"} => go'[t][q] = go[t][q]
      BY <2>0, <3>1, OneMoves DEF RolePc
    <3>3. UNCHANGED flowVars
      BY <2>2 DEF LoopMoves, MovesMessage, TouchActivity, ReadOk, ReadEnd, WriteStop, ProcessStop,
                  Manager
    <3>. QED
      BY <2>0, <3>2, <3>3, FlowUntouched
  <2>3. ASSUME NEW s \in Sids, NEW r \in Roles, MovesMessage(s)
        PROVE  FlowInv'
    <3>1. PICK p \in Roles, from \in RolePc, to \in RolePc : Moves(s, p, from, to)
      BY <2>3 DEF MovesMessage, WriteTake, WriteOk, WriteFailed, ProcessTake, Forward, Drop,
                  Roles, RolePc
    <3>2. \A t \in Sids \ {s} :
             UNCHANGED <<wire[t], wHand[t], outbox[t], pHand[t], inbox[t], accepted[t]>>
      BY <2>0, <2>3
      DEF MovesMessage, WriteTake, WriteOk, WriteFailed, ProcessTake, Forward, Drop, FlowTyped
    <3>3. \A t \in Sids \ {s}, q \in Roles : go'[t][q] = go[t][q]
      BY <2>0, <3>1, OneMoves
    <3>4. \A t \in Sids \ {s} : StagesOrdered(t)' /\ HandsInUse(t)'
      BY <2>0, <3>2, <3>3 DEF FlowInv, StagesOrdered, HandsInUse
    <3>. QED
      BY <2>3, <3>4, StageStep, HandStep DEF FlowInv
  <2>4. ASSUME NEW s \in Sids, NEW r \in Roles, Close(s, r)
        PROVE  FlowInv'
    <3>1. /\ UNCHANGED flowVars /\ go[s][r] \in {"close", "examine", "shut"}
          /\ \A t \in Sids, p \in Roles : t # s \/ p # r => go'[t][p] = go[t][p]
      BY <2>0, <2>4, CloseStep
    <3>. QED
      BY <2>0, <3>1, FlowUntouched
  <2>5. ASSUME NEW s \in Sids, MinutePasses(s) \/ ContextEnds(s)
        PROVE  FlowInv'
    BY <2>5, FlowUntouched DEF MinutePasses, ContextEnds
  <2>6. ASSUME NEW s \in Sids, Send(s)
        PROVE  FlowInv'
    <3>1. /\ inbox'[s] = Append(inbox[s], accepted[s] + 1) /\ accepted'[s] = accepted[s] + 1
          /\ UNCHANGED <<go, wire, wHand, outbox, pHand>>
          /\ \A t \in Sids \ {s} : UNCHANGED <<inbox[t], accepted[t]>>
      BY <2>6 DEF Send, TypeOK
    <3>2. StagesOrdered(s)'
      BY <3>1, OrderSend DEF FlowInv, StagesOrdered, TypeOK
    <3>3. \A t \in Sids \ {s} : StagesOrdered(t)'
      BY <3>1 DEF FlowInv, StagesOrdered
    <3>4. \A t \in Sids : HandsInUse(t)'
      BY <3>1 DEF FlowInv, HandsInUse
    <3>. QED
      BY <3>2, <3>3, <3>4 DEF FlowInv
  <2>7. CASE UNCHANGED vars
    BY <2>7, FlowUntouched DEF vars
  <2>. QED
    BY <2>1, <2>2, <2>3, <2>4, <2>5, <2>6, <2>7, StepKinds DEF Environment
<1>. QED
  BY <1>1, <1>2, TypeInvariant, RegistryInvariant, PTL DEF Spec

(* A message is never written twice nor overtaken: what is on the wire and  *)
(* what is still on its way is ascending, whatever was dropped.             *)
THEOREM MessagesInOrder == Spec => []FlowOrdered
<1>1. ASSUME TypeOK, FlowInv, NEW s \in Sids
      PROVE  Ascending(Flow(s))
  <2>. DEFINE w == wire[s]  wh == wHand[s]  out == outbox[s]  ph == pHand[s]  in == inbox[s]
              n == accepted[s]
  <2>1. /\ w \in Seq(Nat) /\ wh \in Seq(Nat) /\ out \in Seq(Nat)
        /\ ph \in Seq(Nat) /\ in \in Seq(Nat) /\ n \in Nat
    BY <1>1 DEF TypeOK
  <2>2. InOrder(w, wh, out, ph, in, n)
    BY <1>1 DEF FlowInv, StagesOrdered
  <2>. HIDE DEF w, wh, out, ph, in, n
  <2>3. /\ \A q \in {w, wh, out, ph, in} : Leads(q, {}, n)
        /\ Below(ph, in)
        /\ Below(out, ph) /\ Below(out, in)
        /\ Below(wh, out) /\ Below(wh, ph) /\ Below(wh, in)
        /\ Below(w, wh) /\ Below(w, out) /\ Below(w, ph) /\ Below(w, in)
    BY <2>2 DEF InOrder, Leads
  <2>4. \E t1 \in Seq(Nat) : /\ t1 = ph \o in /\ Leads(t1, {}, n)
                             /\ \A p \in {w, wh, out} : Below(p, t1)
    <3>1. ph \o in \in Seq(Nat) /\ Leads(ph \o in, {}, n)
      BY <2>1, <2>3, Joining
    <3>2. \A p \in Seq(Nat) : Below(p, ph) /\ Below(p, in) => Below(p, ph \o in)
      BY <2>1, <2>3, Joining
    <3>. QED
      BY <2>1, <2>3, <3>1, <3>2
  <2>. PICK t1 \in Seq(Nat) : /\ t1 = ph \o in /\ Leads(t1, {}, n)
                             /\ \A p \in {w, wh, out} : Below(p, t1)
    BY <2>4
  <2>5. \E t2 \in Seq(Nat) : /\ t2 = out \o t1 /\ Leads(t2, {}, n)
                             /\ \A p \in {w, wh} : Below(p, t2)
    <3>1. Below(out, t1)
      BY <2>1
    <3>2. out \o t1 \in Seq(Nat) /\ Leads(out \o t1, {}, n)
      BY <2>1, <2>3, <3>1, Joining
    <3>3. \A p \in Seq(Nat) : Below(p, out) /\ Below(p, t1) => Below(p, out \o t1)
      BY <2>1, <2>3, <3>1, Joining
    <3>. QED
      BY <2>1, <2>3, <3>2, <3>3
  <2>. PICK t2 \in Seq(Nat) : /\ t2 = out \o t1 /\ Leads(t2, {}, n)
                             /\ \A p \in {w, wh} : Below(p, t2)
    BY <2>5
  <2>6. \E t3 \in Seq(Nat) : t3 = wh \o t2 /\ Leads(t3, {}, n) /\ Below(w, t3)
    <3>1. wh \o t2 \in Seq(Nat) /\ Leads(wh \o t2, {}, n)
      BY <2>1, <2>3, Joining
    <3>2. \A p \in Seq(Nat) : Below(p, wh) /\ Below(p, t2) => Below(p, wh \o t2)
      BY <2>1, <2>3, Joining
    <3>. QED
      BY <2>1, <2>3, <3>1, <3>2
  <2>. PICK t3 \in Seq(Nat) : t3 = wh \o t2 /\ Leads(t3, {}, n) /\ Below(w, t3)
    BY <2>6
  <2>7. Leads(w \o t3, {}, n)
    BY <2>1, <2>3, <2>6, Joining
  <2>. QED
    BY <2>7 DEF Leads, Flow, w, wh, out, ph, in
<1>2. TypeOK /\ FlowInv => FlowOrdered
  BY <1>1 DEF FlowOrdered
<1>. QED
  BY <1>2, TypeInvariant, FlowInvariant, PTL
-----------------------------------------------------------------------------
(* The mutexes, seen from what they name: a caller between taking sessMux   *)
(* and its return, a goroutine inside Close.                                *)
MutexesHeld ==
    /\ sessMux # None => pc[sessMux] \in {"load", "dial", "store"}
    /\ \A s \in Sids : streamMu[s] # None => go[s][streamMu[s]] \in {"examine", "shut"}

LEMMA MutexesInvariant == Spec => []MutexesHeld
<1>. USE ConstantsAssumption
<1>1. Init => MutexesHeld
  BY DEF Init, MutexesHeld
<1>2. TypeOK /\ RegistryInv /\ CloseInv /\ MutexesHeld /\ [Next]_vars => MutexesHeld'
  <2>. SUFFICES ASSUME TypeOK, RegistryInv, CloseInv, MutexesHeld, [Next]_vars
                PROVE  MutexesHeld'
    OBVIOUS
  <2>0. GoType /\ \A s \in Sids : streamMu[s] # None => streamMu[s] \in Roles
    BY DEF TypeOK, GoType
  <2>1. ASSUME UNCHANGED streamMu,
               \A t \in Sids, p \in Roles :
                  go[t][p] \in {"examine", "shut"} => go'[t][p] = go[t][p]
        PROVE  \A s \in Sids : streamMu'[s] # None => go'[s][streamMu'[s]] \in {"examine", "shut"}
    BY <2>0, <2>1 DEF MutexesHeld
  <2>2. ASSUME NEW c \in Callers, CallerMoves(c)
        PROVE  MutexesHeld'
    <3>1. \A s \in Sids : streamMu'[s] # None => go'[s][streamMu'[s]] \in {"examine", "shut"}
      BY <2>1, <2>2, CallerStep DEF closeVars
    <3>2. sessMux' # None => pc'[sessMux'] \in {"load", "dial", "store"}
      <4>1. CASE sessMux' = None
        BY <4>1
      <4>2. CASE HiLock(c)
        BY <4>2 DEF HiLock, TypeOK
      <4>3. CASE UNCHANGED sessMux /\ sessMux # c
        <5>1. \A d \in Callers : d # c => pc'[d] = pc[d]
          BY <2>2 DEF CallerMoves, Request, TouchHiTo, HiLock, HiNoInfo, HiFound, HiNew,
                      HiDialFailed, HiDialed, HiStore, Return, TypeOK
        <5>. QED
          BY <4>3, <5>1 DEF MutexesHeld, TypeOK
      <4>4. CASE UNCHANGED sessMux /\ sessMux = c /\ ~HiLock(c)
        <5>1. pc[c] \in {"load", "dial", "store"}
          BY <4>4 DEF MutexesHeld
        <5>2. HiDialed(c) \/ (\E s \in Sids : HiNew(c, s)) \/ sessMux' = None
          BY <2>2, <4>4, <5>1 DEF CallerMoves, Request, TouchHiTo, HiLock, HiNoInfo, HiFound,
                                  HiDialFailed, HiStore, Return
        <5>3. HiDialed(c) \/ (\E s \in Sids : HiNew(c, s)) => pc'[c] \in {"dial", "store"}
          BY DEF HiDialed, HiNew, TypeOK
        <5>. QED
          BY <4>4, <5>2, <5>3
      <4>5. HiLock(c) \/ UNCHANGED sessMux \/ sessMux' = None
        BY <2>2 DEF CallerMoves, Request, TouchHiTo, HiNoInfo, HiFound, HiNew,
                    HiDialFailed, HiDialed, HiStore, Return
      <4>. QED
        BY <4>1, <4>2, <4>3, <4>4, <4>5
    <3>. QED
      BY <3>1, <3>2 DEF MutexesHeld
  <2>3. ASSUME NEW s \in Sids, NEW r \in Roles, LoopMoves(s, r)
        PROVE  MutexesHeld'
    <3>1. /\ UNCHANGED <<sessMux, pc, streamMu>>
          /\ \A t \in Sids, p \in Roles :
                go[t][p] \in {"examine", "shut"} => go'[t][p] = go[t][p]
      BY <2>0, <2>3, LoopStep DEF InLoop, closeVars
    <3>. QED
      BY <2>1, <3>1 DEF MutexesHeld
  <2>4. ASSUME NEW s \in Sids, NEW r \in Roles, Close(s, r)
        PROVE  MutexesHeld'
    <3>1. UNCHANGED <<sessMux, pc>>
      BY <2>0, <2>4, CloseStep DEF callerVars
    <3>2. \A t \in Sids \ {s} :
             streamMu'[t] = streamMu[t] /\ \A p \in Roles : go'[t][p] = go[t][p]
      <4>1. \A t \in Sids \ {s} : streamMu'[t] = streamMu[t]
        BY <2>4 DEF Close, CloseLock, CloseAgain, CloseFirst, CloseShut, TypeOK, closeVars
      <4>. QED
        BY <2>0, <2>4, <4>1, CloseStep
    <3>3. CASE CloseLock(s, r) \/ CloseFirst(s, r)
      <4>1. streamMu'[s] = r /\ go'[s][r] \in {"examine", "shut"}
        BY <2>0, <3>3, OneMoves
        DEF CloseLock, CloseFirst, TypeOK, CloseInv, RolePc, closeVars
      <4>. QED
        BY <2>0, <3>1, <3>2, <4>1 DEF MutexesHeld
    <3>4. CASE CloseAgain(s, r) \/ CloseShut(s, r)
      <4>1. streamMu'[s] = None
        BY <3>4 DEF CloseAgain, CloseShut, TypeOK
      <4>. QED
        BY <2>0, <3>1, <3>2, <4>1 DEF MutexesHeld
    <3>. QED
      BY <2>4, <3>3, <3>4 DEF Close
  <2>5. ASSUME NEW s \in Sids, Environment(s)
        PROVE  MutexesHeld'
    BY <2>5 DEF Environment, MinutePasses, ContextEnds, Send, MutexesHeld, callerVars, closeVars
  <2>6. CASE UNCHANGED vars
    BY <2>6 DEF vars, MutexesHeld, callerVars, closeVars
  <2>. QED
    BY <2>2, <2>3, <2>4, <2>5, <2>6, StepKinds
<1>. QED
  BY <1>1, <1>2, TypeInvariant, RegistryInvariant, CloseInvariant, PTL DEF Spec

(* Neither sessMux nor stream.mu is ever left behind: whoever it names is   *)
(* on its way to the unlock (peer_msg.go:13-67, stream.go:98-109).          *)
THEOREM MutexesAreGivenBack == Spec => []MutexesHeld
BY MutexesInvariant

-----------------------------------------------------------------------------
(* Why a dead session is handed out again: the registry never lets go of an *)
(* entry.  sessionManager deletes under the session identifier, a key       *)
(* nothing is stored under (session.go:22-26), and no call replaces what    *)
(* it found.                                                                *)
EntriesStay == [][\A a \in Addrs : sessions[a] # None => sessions'[a] = sessions[a]]_vars

(* An entry of the registry stays what it is for good.                      *)
THEOREM RegistryForgetsNothing == Spec => EntriesStay
<1>1. TypeOK /\ RegistryInv /\ [Next]_vars
        => [\A a \in Addrs : sessions[a] # None => sessions'[a] = sessions[a]]_vars
  <2>. SUFFICES ASSUME TypeOK, RegistryInv, Next, NEW a \in Addrs, sessions[a] # None
                PROVE  sessions'[a] = sessions[a]
    OBVIOUS
  <2>1. ASSUME NEW c \in Callers, HiStore(c) PROVE sessions'[a] = sessions[a]
    <3>1. sessions[arg[c]] = None /\ sessions' = [sessions EXCEPT ![arg[c]] = mine[c]]
      BY <2>1 DEF HiStore, RegistryInv, CallsKnow
    <3>. QED
      BY <3>1
  <2>2. ASSUME NEW s \in Sids, Manager(s) PROVE sessions'[a] = sessions[a]
    BY <2>2, ConstantsAssumption DEF Manager
  <2>3. CASE UNCHANGED sessions
    BY <2>3
  <2>. QED
    BY <2>1, <2>2, <2>3
    DEF Next, TouchHiTo, Request, HiLock, HiNoInfo, HiFound, HiNew, HiDialFailed, HiDialed,
        Session, Reader, Writer, Processor, Environment, Close, CloseLock, CloseAgain,
        CloseFirst, CloseShut, TouchActivity, ReadOk, ReadEnd, WriteTake, WriteStop, WriteOk,
        WriteFailed, ProcessTake, Forward, Drop, ProcessStop, MinutePasses, ContextEnds, Send,
        Return, callerVars
<1>. QED
  BY <1>1, TypeInvariant, RegistryInvariant, PTL DEF Spec, EntriesStay
=============================================================================
