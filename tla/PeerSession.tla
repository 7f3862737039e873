---------------------------- MODULE PeerSession ----------------------------
(***************************************************************************)
(* Touch sessions of the station (station/frame/touch/peer).  A handler    *)
(* goroutine calls TouchHiTo(addr); the first call for an address dials it *)
(* and leaves four goroutines behind: the stream's readLoop and writeLoop, *)
(* the session's sessionManager and processMessages.  Later calls return   *)
(* the identifier found in the registry.                                   *)
(*                                                                         *)
(* The local peer id is the same in every key, so a composite key          *)
(* "me|addr" is the address; the registry is nevertheless a map over every *)
(* key the code passes to it, session identifiers included, because        *)
(* sessionManager deletes by session identifier.                           *)
(*                                                                         *)
(* session.lastActive is written and read without a lock.  A reader sees   *)
(* the old or the new monotonic reading, which is one of the two orders of *)
(* Forward and ManagerTick, so the race adds no outcome of its own.        *)
(***************************************************************************)
EXTENDS Naturals, Sequences

CONSTANTS
    Callers,  \* goroutines that run TouchHiToHandler
    Addrs,    \* remote peer addresses
    Sids,     \* session identifiers (uuid.New)
    ChanCap,  \* capacity of both message channels (100 in the code)
    MaxMsgs,  \* bound: messages handed to one session
    None      \* "no value": a free mutex, an absent map entry, an error reply

Roles == {"reader", "writer", "processor", "manager"}

ASSUME ConstantsAssumption ==
    /\ ChanCap \in Nat \ {0}
    /\ MaxMsgs \in Nat
    /\ None \notin Callers \cup Addrs \cup Sids \cup Roles
    /\ Addrs \cap Sids = {}

VARIABLES
    sessMux,   \* the caller that holds the package mutex, or None
    sessions,  \* sync.Map: key -> session identifier, or None
    pc,        \* program counter of each caller
    arg,       \* address each caller asked for
    mine,      \* session identifier the caller generated
    reply,     \* what the last call returned: an identifier, or None for an error
    addrOf,    \* address a stream is connected to; None before createStream
    go,        \* program counters of the goroutines of a session
    streamMu,  \* the goroutine that holds stream.mu, or None
    closes,    \* how often closeChan was closed (a second time panics)
    ctxDone,   \* the session's context is done
    idle,      \* time.Since(lastActive) > time.Minute
    inbox,     \* session.messageChan
    pHand,     \* message processMessages holds
    outbox,    \* stream.messageChan
    wHand,     \* message writeLoop holds
    wire,      \* messages written to the connection
    accepted   \* number of messages handed to the session

callerVars == <<sessMux, sessions, pc, arg, mine, reply>>
flowVars   == <<inbox, pHand, outbox, wHand, wire, accepted>>
closeVars  == <<streamMu, closes>>
vars == <<callerVars, addrOf, go, closeVars, ctxDone, idle, flowVars>>

Keys  == Addrs \cup Sids
Closed(s) == closes[s] > 0
Fresh(s)  == addrOf[s] = None

Init ==
    /\ sessMux = None
    /\ sessions = [k \in Keys |-> None]
    /\ pc = [c \in Callers |-> "idle"]
    /\ arg = [c \in Callers |-> None]
    /\ mine = [c \in Callers |-> None]
    /\ reply = [c \in Callers |-> None]
    /\ addrOf = [s \in Sids |-> None]
    /\ go = [s \in Sids |-> [r \in Roles |-> "none"]]
    /\ streamMu = [s \in Sids |-> None]
    /\ closes = [s \in Sids |-> 0]
    /\ ctxDone = [s \in Sids |-> FALSE]
    /\ idle = [s \in Sids |-> FALSE]
    /\ inbox = [s \in Sids |-> <<>>]
    /\ pHand = [s \in Sids |-> <<>>]
    /\ outbox = [s \in Sids |-> <<>>]
    /\ wHand = [s \in Sids |-> <<>>]
    /\ wire = [s \in Sids |-> <<>>]
    /\ accepted = [s \in Sids |-> 0]

-----------------------------------------------------------------------------
(* TouchHiTo, one action between two points where another goroutine can    *)
(* see a difference.                                                       *)

Request(c, a) ==      \* a request for a non-empty address reaches the handler
    /\ pc[c] = "idle"
    /\ pc' = [pc EXCEPT ![c] = "lock"]
    /\ arg' = [arg EXCEPT ![c] = a]
    /\ reply' = [reply EXCEPT ![c] = None]
    /\ UNCHANGED <<sessMux, sessions, mine, addrOf, go, closeVars, ctxDone, idle, flowVars>>

(* Mutant: the handler goes on without waiting for sessMux. *)
HiLockUnguarded(c) ==
    /\ pc[c] = "lock"
    /\ sessMux' = c
    /\ pc' = [pc EXCEPT ![c] = "load"]
    /\ UNCHANGED <<sessions, arg, mine, reply, addrOf, go, closeVars, ctxDone, idle, flowVars>>

HiLock(c) ==
    /\ pc[c] = "lock"
    /\ sessMux = None
    /\ sessMux' = c
    /\ pc' = [pc EXCEPT ![c] = "load"]
    /\ UNCHANGED <<sessions, arg, mine, reply, addrOf, go, closeVars, ctxDone, idle, flowVars>>

Return(c, r) ==       \* every return runs the deferred Unlock; the locals are gone
    /\ pc' = [pc EXCEPT ![c] = "idle"]
    /\ arg' = [arg EXCEPT ![c] = None]
    /\ mine' = [mine EXCEPT ![c] = None]
    /\ reply' = [reply EXCEPT ![c] = r]
    /\ sessMux' = None

HiNoInfo(c) ==        \* GetMyPeerInfos failed
    /\ pc[c] = "load"
    /\ Return(c, None)
    /\ UNCHANGED <<sessions, addrOf, go, closeVars, ctxDone, idle, flowVars>>

HiFound(c) ==
    /\ pc[c] = "load"
    /\ sessions[arg[c]] # None
    /\ Return(c, sessions[arg[c]])
    /\ UNCHANGED <<sessions, addrOf, go, closeVars, ctxDone, idle, flowVars>>

HiNew(c, s) ==        \* no entry: generate an identifier, go on to dial
    /\ pc[c] = "load"
    /\ sessions[arg[c]] = None
    /\ Fresh(s)
    /\ mine' = [mine EXCEPT ![c] = s]
    /\ pc' = [pc EXCEPT ![c] = "dial"]
    /\ UNCHANGED <<sessMux, sessions, arg, reply, addrOf, go, closeVars, ctxDone, idle, flowVars>>

(* Mutant: the error path of the dial forgets to unlock. *)
HiDialFailedLocked(c) ==
    /\ pc[c] = "dial"
    /\ pc' = [pc EXCEPT ![c] = "idle"]
    /\ UNCHANGED <<sessMux, arg, mine, reply>>
    /\ UNCHANGED <<sessions, addrOf, go, closeVars, ctxDone, idle, flowVars>>

HiDialFailed(c) ==
    /\ pc[c] = "dial"
    /\ Return(c, None)
    /\ UNCHANGED <<sessions, addrOf, go, closeVars, ctxDone, idle, flowVars>>

HiDialed(c) ==        \* createStream starts the loops before the session is stored
    /\ pc[c] = "dial"
    /\ addrOf' = [addrOf EXCEPT ![mine[c]] = arg[c]]
    /\ go' = [go EXCEPT ![mine[c]]["reader"] = "top", ![mine[c]]["writer"] = "top"]
    /\ pc' = [pc EXCEPT ![c] = "store"]
    /\ UNCHANGED <<sessMux, sessions, arg, mine, reply, closeVars, ctxDone, idle, flowVars>>

(* Mutants: the session is stored under its identifier; the key is returned. *)
HiStoreById(c) ==
    /\ pc[c] = "store"
    /\ sessions' = [sessions EXCEPT ![mine[c]] = mine[c]]
    /\ go' = [go EXCEPT ![mine[c]]["manager"] = "top", ![mine[c]]["processor"] = "top"]
    /\ Return(c, mine[c])
    /\ UNCHANGED <<addrOf, closeVars, ctxDone, idle, flowVars>>

HiStoreReturnsKey(c) ==
    /\ pc[c] = "store"
    /\ sessions' = [sessions EXCEPT ![arg[c]] = mine[c]]
    /\ go' = [go EXCEPT ![mine[c]]["manager"] = "top", ![mine[c]]["processor"] = "top"]
    /\ Return(c, arg[c])
    /\ UNCHANGED <<addrOf, closeVars, ctxDone, idle, flowVars>>

HiStore(c) ==
    /\ pc[c] = "store"
    /\ sessions' = [sessions EXCEPT ![arg[c]] = mine[c]]
    /\ go' = [go EXCEPT ![mine[c]]["manager"] = "top", ![mine[c]]["processor"] = "top"]
    /\ Return(c, mine[c])
    /\ UNCHANGED <<addrOf, closeVars, ctxDone, idle, flowVars>>

TouchHiTo(c) ==
    \/ HiLock(c) \/ HiNoInfo(c) \/ HiFound(c) \/ \E s \in Sids : HiNew(c, s)
    \/ HiDialFailed(c) \/ HiDialed(c) \/ HiStore(c)

-----------------------------------------------------------------------------
(* stream.Close, run by readLoop and writeLoop (deferred) and by           *)
(* processMessages.  closeChan is examined and closed under stream.mu.     *)

Moves(s, r, from, to) ==
    /\ go[s][r] = from
    /\ go' = [go EXCEPT ![s][r] = to]

(* Mutant: Close does not take stream.mu. *)
CloseUnlocked(s, r) ==
    /\ Moves(s, r, "close", "examine")
    /\ UNCHANGED <<callerVars, addrOf, closeVars, ctxDone, idle, flowVars>>

CloseLock(s, r) ==
    /\ Moves(s, r, "close", "examine")
    /\ streamMu[s] = None
    /\ streamMu' = [streamMu EXCEPT ![s] = r]
    /\ UNCHANGED <<callerVars, addrOf, closes, ctxDone, idle, flowVars>>

CloseAgain(s, r) ==        \* closeChan is closed already: unlock and return
    /\ Closed(s)
    /\ Moves(s, r, "examine", "done")
    /\ streamMu' = [streamMu EXCEPT ![s] = None]
    /\ UNCHANGED <<callerVars, addrOf, closes, ctxDone, idle, flowVars>>

CloseFirst(s, r) ==
    /\ ~Closed(s)
    /\ Moves(s, r, "examine", "shut")
    /\ UNCHANGED <<callerVars, addrOf, closeVars, ctxDone, idle, flowVars>>

CloseShut(s, r) ==         \* close(closeChan); conn.Close(); unlock
    /\ Moves(s, r, "shut", "done")
    /\ closes' = [closes EXCEPT ![s] = @ + 1]
    /\ streamMu' = [streamMu EXCEPT ![s] = None]
    /\ UNCHANGED <<callerVars, addrOf, ctxDone, idle, flowVars>>

Close(s, r) ==
    CloseLock(s, r) \/ CloseAgain(s, r) \/ CloseFirst(s, r) \/ CloseShut(s, r)

TouchActivity(s, r) ==     \* s.mu.Lock; lastActivity = now; s.mu.Unlock
    /\ Moves(s, r, "touch", "top")
    /\ streamMu[s] = None
    /\ UNCHANGED <<callerVars, addrOf, closeVars, ctxDone, idle, flowVars>>

(* readLoop: a read succeeds on an open connection; it fails at EOF, at    *)
(* the 30 second deadline, or because the connection was closed.           *)

ReadOk(s) ==
    /\ ~Closed(s)
    /\ Moves(s, "reader", "top", "touch")
    /\ UNCHANGED <<callerVars, addrOf, closeVars, ctxDone, idle, flowVars>>

ReadEnd(s) ==
    /\ Moves(s, "reader", "top", "close")
    /\ UNCHANGED <<callerVars, addrOf, closeVars, ctxDone, idle, flowVars>>

Reader(s) ==
    \/ ReadOk(s) \/ ReadEnd(s)
    \/ TouchActivity(s, "reader") \/ Close(s, "reader")

(* writeLoop: the select takes either ready case; a write on a closed      *)
(* connection fails, one on an open connection may (10 second deadline).   *)

WriteTake(s) ==
    /\ outbox[s] # <<>>
    /\ Moves(s, "writer", "top", "write")
    /\ wHand' = [wHand EXCEPT ![s] = <<Head(outbox[s])>>]
    /\ outbox' = [outbox EXCEPT ![s] = Tail(@)]
    /\ UNCHANGED <<callerVars, addrOf, closeVars, ctxDone, idle, inbox, pHand, wire, accepted>>

WriteStop(s) ==
    /\ Closed(s)
    /\ Moves(s, "writer", "top", "close")
    /\ UNCHANGED <<callerVars, addrOf, closeVars, ctxDone, idle, flowVars>>

WriteOk(s) ==
    /\ ~Closed(s)
    /\ Moves(s, "writer", "write", "touch")
    /\ wire' = [wire EXCEPT ![s] = @ \o wHand[s]]
    /\ wHand' = [wHand EXCEPT ![s] = <<>>]
    /\ UNCHANGED <<callerVars, addrOf, closeVars, ctxDone, idle, inbox, pHand, outbox, accepted>>

WriteFailed(s) ==
    /\ Moves(s, "writer", "write", "close")
    /\ wHand' = [wHand EXCEPT ![s] = <<>>]
    /\ UNCHANGED <<callerVars, addrOf, closeVars, ctxDone, idle, inbox, pHand, outbox, wire, accepted>>

Writer(s) ==
    \/ WriteTake(s) \/ WriteStop(s) \/ WriteOk(s) \/ WriteFailed(s)
    \/ TouchActivity(s, "writer") \/ Close(s, "writer")

-----------------------------------------------------------------------------
(* processMessages moves a message from the session's channel to the       *)
(* stream's, or drops it when that one is full; only a forwarded message   *)
(* refreshes lastActive.                                                   *)

ProcessTake(s) ==
    /\ inbox[s] # <<>>
    /\ Moves(s, "processor", "top", "forward")
    /\ pHand' = [pHand EXCEPT ![s] = <<Head(inbox[s])>>]
    /\ inbox' = [inbox EXCEPT ![s] = Tail(@)]
    /\ UNCHANGED <<callerVars, addrOf, closeVars, ctxDone, idle, outbox, wHand, wire, accepted>>

Forward(s) ==
    /\ Len(outbox[s]) < ChanCap
    /\ Moves(s, "processor", "forward", "top")
    /\ outbox' = [outbox EXCEPT ![s] = @ \o pHand[s]]
    /\ pHand' = [pHand EXCEPT ![s] = <<>>]
    /\ idle' = [idle EXCEPT ![s] = FALSE]
    /\ UNCHANGED <<callerVars, addrOf, closeVars, ctxDone, inbox, wHand, wire, accepted>>

(* Mutant: a message that does not fit goes back to the session's channel. *)
DropRequeues(s) ==
    /\ Len(outbox[s]) = ChanCap
    /\ Moves(s, "processor", "forward", "top")
    /\ pHand' = [pHand EXCEPT ![s] = <<>>]
    /\ inbox' = [inbox EXCEPT ![s] = @ \o pHand[s]]
    /\ UNCHANGED <<callerVars, addrOf, closeVars, ctxDone, idle, outbox, wHand, wire, accepted>>

Drop(s) ==
    /\ Len(outbox[s]) = ChanCap
    /\ Moves(s, "processor", "forward", "top")
    /\ pHand' = [pHand EXCEPT ![s] = <<>>]
    /\ UNCHANGED <<callerVars, addrOf, closeVars, ctxDone, idle, inbox, outbox, wHand, wire, accepted>>

(* Mutant: the processor returns without closing the stream. *)
ProcessStopOnly(s) ==
    /\ ctxDone[s]
    /\ Moves(s, "processor", "top", "done")
    /\ UNCHANGED <<callerVars, addrOf, closeVars, ctxDone, idle, flowVars>>

ProcessStop(s) ==
    /\ ctxDone[s]
    /\ Moves(s, "processor", "top", "close")
    /\ UNCHANGED <<callerVars, addrOf, closeVars, ctxDone, idle, flowVars>>

Processor(s) ==
    \/ ProcessTake(s) \/ Forward(s) \/ Drop(s) \/ ProcessStop(s)
    \/ Close(s, "processor")

(* sessionManager: at an idle tick it evaluates ctx.Done(), which cancels  *)
(* nothing, deletes the key sessionID and returns; likewise when the       *)
(* context is done.  A tick of an active session changes nothing.          *)

Manager(s) ==
    /\ idle[s] \/ ctxDone[s]
    /\ Moves(s, "manager", "top", "done")
    /\ sessions' = [sessions EXCEPT ![s] = None]
    /\ UNCHANGED <<sessMux, pc, arg, mine, reply, addrOf, closeVars, ctxDone, idle, flowVars>>

-----------------------------------------------------------------------------
(* The environment: a minute without a forwarded message, the end of the   *)
(* context the caller passed in, and the sender on session.messageChan     *)
(* (the repository has the channel but no sender yet).                     *)

MinutePasses(s) ==
    /\ ~Fresh(s) /\ ~idle[s]
    /\ idle' = [idle EXCEPT ![s] = TRUE]
    /\ UNCHANGED <<callerVars, addrOf, go, closeVars, ctxDone, flowVars>>

ContextEnds(s) ==
    /\ ~Fresh(s) /\ ~ctxDone[s]
    /\ ctxDone' = [ctxDone EXCEPT ![s] = TRUE]
    /\ UNCHANGED <<callerVars, addrOf, go, closeVars, idle, flowVars>>

Send(s) ==
    /\ go[s]["processor"] # "none"
    /\ accepted[s] < MaxMsgs
    /\ Len(inbox[s]) < ChanCap
    /\ accepted' = [accepted EXCEPT ![s] = @ + 1]
    /\ inbox' = [inbox EXCEPT ![s] = Append(@, accepted[s] + 1)]
    /\ UNCHANGED <<callerVars, addrOf, go, closeVars, ctxDone, idle, pHand, outbox, wHand, wire>>

Environment(s) == MinutePasses(s) \/ ContextEnds(s) \/ Send(s)
Session(s) == Reader(s) \/ Writer(s) \/ Processor(s) \/ Manager(s) \/ Environment(s)

Next ==
    \/ \E c \in Callers : (\E a \in Addrs : Request(c, a)) \/ TouchHiTo(c)
    \/ \E s \in Sids : Session(s)

(* Go schedules every runnable goroutine; a sync.Mutex hands itself over   *)
(* to a starving waiter, hence strong fairness on taking sessMux.  Nothing *)
(* makes requests, the clock, the context or the sender move.              *)
Fairness ==
    /\ \A c \in Callers : WF_vars(TouchHiTo(c)) /\ SF_vars(HiLock(c))
    /\ \A s \in Sids : WF_vars(Reader(s)) /\ WF_vars(Writer(s))
                       /\ WF_vars(Processor(s)) /\ WF_vars(Manager(s))

Spec == Init /\ [][Next]_vars
FairSpec == Spec /\ Fairness

-----------------------------------------------------------------------------
(* Program counters. *)
CallerPc == {"idle", "lock", "load", "dial", "store"}
RolePc == {"none", "top", "touch", "write", "forward", "close", "examine", "shut", "done"}

(* The type of the state. *)
TypeOK ==
    /\ sessMux \in Callers \cup {None}
    /\ sessions \in [Keys -> Sids \cup {None}]
    /\ pc \in [Callers -> CallerPc]
    /\ arg \in [Callers -> Addrs \cup {None}]
    /\ \A c \in Callers : pc[c] # "idle" => arg[c] \in Addrs
    /\ mine \in [Callers -> Sids \cup {None}]
    /\ reply \in [Callers -> Sids \cup {None}]
    /\ addrOf \in [Sids -> Addrs \cup {None}]
    /\ go \in [Sids -> [Roles -> RolePc]]
    /\ streamMu \in [Sids -> Roles \cup {None}]
    /\ closes \in [Sids -> Nat]
    /\ ctxDone \in [Sids -> BOOLEAN]
    /\ idle \in [Sids -> BOOLEAN]
    /\ inbox \in [Sids -> Seq(Nat)]
    /\ pHand \in [Sids -> Seq(Nat)]
    /\ outbox \in [Sids -> Seq(Nat)]
    /\ wHand \in [Sids -> Seq(Nat)]
    /\ wire \in [Sids -> Seq(Nat)]
    /\ accepted \in [Sids -> Nat]

(* TouchHiTo checks the registry and dials under one hold of sessMux: no    *)
(* two streams are ever opened to the same address, however many handlers   *)
(* ask for it at once and whatever the session goroutines do meanwhile.     *)
OneSessionPerPeer ==
    \A s, t \in Sids : ~Fresh(s) /\ addrOf[s] = addrOf[t] => s = t

(* Every stream that was opened can be found under the key of its peer, or  *)
(* the caller that opened it is about to store it: no connection with its   *)
(* two loops is out of reach of later calls.                                *)
StreamRegistered ==
    \A s \in Sids : ~Fresh(s) =>
        \/ sessions[addrOf[s]] = s
        \/ \E c \in Callers : pc[c] = "store" /\ mine[c] = s

(* Three goroutines call Close when their loops end; closeChan is closed    *)
(* once (a second close panics the process).                                *)
CloseOnce == \A s \in Sids : closes[s] <= 1

(* What has been written, is being written, waits for the writer, is being  *)
(* forwarded and waits for the processor, in that order, is an ascending    *)
(* sequence of message numbers: messages may be dropped, never reordered    *)
(* or sent twice.                                                           *)
Ascending(q) == \A i, j \in DOMAIN q : i < j => q[i] < q[j]
Flow(s) == wire[s] \o (wHand[s] \o (outbox[s] \o (pHand[s] \o inbox[s])))
FlowOrdered == \A s \in Sids : Ascending(Flow(s))

(* A caller that waits for sessMux or for the dial gets an answer: no path  *)
(* out of TouchHiTo keeps the mutex.                                        *)
CallersAnswered == \A c \in Callers : (pc[c] = "lock") ~> (pc[c] = "idle")

(* When the context of a session ends, all four goroutines of the session   *)
(* return, including the two loops of the stream, which do not watch it.    *)
ContextEndReleases ==
    \A s \in Sids : ctxDone[s] ~> (\A r \in Roles : go[s][r] = "done")

(* The strengthening that makes the two registry invariants inductive: who  *)
(* holds sessMux, what a call knows while it holds it, and that an entry    *)
(* under an address names a stream to that address.  sessionManager's       *)
(* Delete never touches such an entry: its key is an identifier.            *)
CallsHoldMutex ==
    \A c \in Callers : pc[c] \in {"load", "dial", "store"} => sessMux = c
CallsKnow ==
    \A c \in Callers :
        /\ pc[c] = "dial" =>
              mine[c] \in Sids /\ Fresh(mine[c]) /\ sessions[arg[c]] = None
        /\ pc[c] = "store" =>
              mine[c] \in Sids /\ addrOf[mine[c]] = arg[c] /\ sessions[arg[c]] = None
EntriesMatch ==
    \A k \in Keys : sessions[k] # None => k \in Addrs /\ addrOf[sessions[k]] = k
StartedOnce ==          \* a go statement never restarts a running goroutine
    /\ \A s \in Sids : Fresh(s) => \A r \in Roles : go[s][r] = "none"
    /\ \A c \in Callers : pc[c] = "store" =>
          \A r \in {"processor", "manager"} : go[mine[c]][r] = "none"
RegistryInv ==
    CallsHoldMutex /\ CallsKnow /\ EntriesMatch /\ StreamRegistered /\ StartedOnce

(* The strengthening of CloseOnce: stream.mu and who is inside Close.       *)
CloseInv ==
    \A s \in Sids : \A r \in Roles :
        /\ go[s][r] \in {"examine", "shut"} => streamMu[s] = r
        /\ go[s][r] = "shut" => closes[s] = 0

(* The strengthening of FlowOrdered, stage by stage: each stage ascends and *)
(* stays below the stages behind it, nothing exceeds the number of messages *)
(* accepted, and a hand is empty unless its goroutine is between taking a   *)
(* message and passing it on.                                               *)
Below(q, r) == \A i \in DOMAIN q, j \in DOMAIN r : q[i] < r[j]
Leads(q, behind, n) ==
    /\ Ascending(q)
    /\ \A i \in DOMAIN q : q[i] <= n
    /\ \A r \in behind : Below(q, r)
InOrder(w, wh, out, ph, in, n) ==
    /\ Leads(w, {wh, out, ph, in}, n)
    /\ Leads(wh, {out, ph, in}, n)
    /\ Leads(out, {ph, in}, n)
    /\ Leads(ph, {in}, n)
    /\ Leads(in, {}, n)
StagesOrdered(s) ==
    InOrder(wire[s], wHand[s], outbox[s], pHand[s], inbox[s], accepted[s])
HandsInUse(s) ==
    /\ wHand[s] # <<>> => go[s]["writer"] = "write"
    /\ pHand[s] # <<>> => go[s]["processor"] = "forward"
FlowInv == \A s \in Sids : StagesOrdered(s) /\ HandsInUse(s)

(* A call does not hand out a session that is over: its stream closed, both  *)
(* loops and its manager returned.  The handler's comment promises that the *)
(* call "establishes a stream".                                             *)
Over(s) == \A r \in {"reader", "writer", "manager"} : go[s][r] = "done"
DeadSessionNotReused ==
    [][\A c \in Callers :
          pc[c] = "load" /\ pc'[c] = "idle" /\ reply'[c] # None => ~Over(reply'[c])]_vars
=============================================================================
