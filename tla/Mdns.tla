-------------------------------- MODULE Mdns --------------------------------
(***************************************************************************)
(* The mDNS service (core/plugin/native/internal/mdns): goroutines call    *)
(* Start, Stop and AdvertiseNode; each Start leaves one discovery          *)
(* goroutine, and each of its rounds one query goroutine, all counted in   *)
(* the WaitGroup that Stop waits for while it holds mu.                    *)
(*                                                                         *)
(* options.TXT is written before mu is taken.  Go stores the slice word by *)
(* word, so a read or a second write that meets the write may leave a      *)
(* mixture: the value Torn.                                                *)
(*                                                                         *)
(* The service context is made once, in NewMDNSService; nothing renews it. *)
(***************************************************************************)
EXTENDS Integers

CONSTANTS
    Clients,   \* goroutines that call the service
    Nodes,     \* nodes they advertise, as TXT records
    MaxStarts, \* bound: successful calls of Start
    MaxStale,  \* bound: query goroutines a round may leave behind
    Torn,      \* a mixture of two TXT slices
    None       \* nobody, nothing advertised, the empty TXT

ASSUME MdnsAssumption ==
    /\ None \notin Clients \cup Nodes /\ Torn \notin Nodes \cup {None}
    /\ MaxStarts \in Nat /\ MaxStale \in Nat

VARIABLES
    mu,         \* client that holds mu for writing, or None
    running,    \* Service.running
    mdnsDone,   \* the service context is cancelled
    parentDone, \* the context given to NewMDNSService has ended
    txt,        \* options.TXT
    published,  \* TXT records the mDNS server answers with; None when down
    pc,         \* program counter of each client
    restart,    \* the client's Stop is the first half of AdvertiseNode
    node,       \* node the client advertises
    starts,     \* how often startDiscovery has run: its goroutines are 1..starts
    loop,       \* program counter of each discovery goroutine
    query,      \* state of the query of its current round
    entry,      \* entriesCh of that round holds an entry
    stale       \* query goroutines of rounds that were interrupted

clientVars == <<pc, restart, node>>
serverVars == <<mu, running, mdnsDone, parentDone, txt, published, starts>>
discVars == <<loop, query, entry, stale>>
mdnsVars == <<clientVars, serverVars, discVars>>

Loops == 1..MaxStarts

MdnsInit ==
    /\ mu = None /\ running = FALSE /\ mdnsDone = FALSE /\ parentDone = FALSE
    /\ txt = None /\ published = None /\ starts = 0
    /\ pc = [c \in Clients |-> "idle"]
    /\ restart = [c \in Clients |-> FALSE]
    /\ node = [c \in Clients |-> None]
    /\ loop = [g \in Loops |-> "none"]
    /\ query = [g \in Loops |-> "none"]
    /\ entry = [g \in Loops |-> FALSE]
    /\ stale = [g \in Loops |-> 0]

Moves(c, from, to) == pc[c] = from /\ pc' = [pc EXCEPT ![c] = to]
CallOver(c) ==
    /\ pc' = [pc EXCEPT ![c] = "idle"]
    /\ restart' = [restart EXCEPT ![c] = FALSE]
    /\ node' = [node EXCEPT ![c] = None]

Call(c) ==           \* a client calls Start or Stop
    /\ Moves(c, "idle", "start") \/ Moves(c, "idle", "stop")
    /\ UNCHANGED <<restart, node, serverVars, discVars>>

-----------------------------------------------------------------------------
(* Start *)

StartBusy(c) ==      \* "already running"
    /\ pc[c] = "start" /\ mu = None /\ running
    /\ CallOver(c)
    /\ UNCHANGED <<serverVars, discVars>>

StartFailed(c) ==    \* the mDNS server could not be created
    /\ pc[c] = "start" /\ mu = None /\ ~running
    /\ CallOver(c)
    /\ UNCHANGED <<serverVars, discVars>>

(* What a read of options.TXT may return, given the writes in progress. *)
Writing == {c \in Clients : pc[c] = "write"}
ReadTXT == {txt} \cup (IF Writing = {} THEN {} ELSE {Torn} \cup {node[c] : c \in Writing})

(* Mutant: a service that runs is started again. *)
StartServerAgain(c) ==
    /\ Moves(c, "start", "serve")
    /\ mu = None
    /\ starts < MaxStarts
    /\ mu' = c
    /\ published' \in ReadTXT
    /\ UNCHANGED <<restart, node, running, mdnsDone, parentDone, txt, starts, discVars>>

StartServer(c) ==    \* startMDNSServer
    /\ Moves(c, "start", "serve")
    /\ mu = None /\ ~running
    /\ starts < MaxStarts
    /\ mu' = c
    /\ published' \in ReadTXT
    /\ UNCHANGED <<restart, node, running, mdnsDone, parentDone, txt, starts, discVars>>

StartDiscovery(c) == \* startDiscovery, running, unlock
    /\ pc[c] = "serve"
    /\ starts' = starts + 1
    /\ loop' = [loop EXCEPT ![starts + 1] = "begin"]
    /\ running' = TRUE
    /\ mu' = None
    /\ CallOver(c)
    /\ UNCHANGED <<mdnsDone, parentDone, txt, published, query, entry, stale>>

(* Stop *)

StopNotRunning(c) ==
    /\ pc[c] = "stop" /\ mu = None /\ ~running
    /\ CallOver(c)
    /\ UNCHANGED <<serverVars, discVars>>

StopServer(c) ==     \* cancel, stop the ticker, shut the server down
    /\ Moves(c, "stop", "drain")
    /\ mu = None /\ running
    /\ mu' = c
    /\ mdnsDone' = TRUE
    /\ published' = None
    /\ UNCHANGED <<restart, node, running, parentDone, txt, starts, discVars>>

Busy(g) == loop[g] \notin {"none", "done"} \/ query[g] \in {"asking", "answered"} \/ stale[g] > 0

(* Mutant: Stop waits for the discovery goroutine and not for its queries. *)
StopDrainedLoop(c) ==
    /\ \A g \in Loops : loop[g] \in {"none", "done"}
    /\ Moves(c, "drain", IF restart[c] THEN "start" ELSE "idle")
    /\ running' = FALSE
    /\ mu' = None
    /\ UNCHANGED <<restart, node, mdnsDone, parentDone, txt, published, starts, discVars>>

StopDrained(c) ==    \* wg.Wait returned
    /\ \A g \in Loops : ~Busy(g)
    /\ Moves(c, "drain", IF restart[c] THEN "start" ELSE "idle")
    /\ running' = FALSE
    /\ mu' = None
    /\ UNCHANGED <<restart, node, mdnsDone, parentDone, txt, published, starts, discVars>>

(* AdvertiseNode *)

Advertise(c, n) ==
    /\ Moves(c, "idle", "write")
    /\ node' = [node EXCEPT ![c] = n]
    /\ UNCHANGED <<restart, serverVars, discVars>>

WriteTXT(c) ==
    /\ Moves(c, "write", "check")
    /\ txt' \in {node[c]} \cup (IF Writing = {c} THEN {} ELSE {Torn})
    /\ UNCHANGED <<restart, node, mu, running, mdnsDone, parentDone, published, starts, discVars>>

(* Mutant: running is read without the read lock. *)
CheckRunningUnlocked(c) ==
    /\ pc[c] = "check"
    /\ IF running THEN /\ Moves(c, "check", "stop")
                       /\ restart' = [restart EXCEPT ![c] = TRUE]
                       /\ UNCHANGED node
                  ELSE CallOver(c)
    /\ UNCHANGED <<serverVars, discVars>>

CheckRunning(c) ==   \* under the read lock
    /\ pc[c] = "check" /\ mu = None
    /\ IF running THEN /\ Moves(c, "check", "stop")
                       /\ restart' = [restart EXCEPT ![c] = TRUE]
                       /\ UNCHANGED node
                  ELSE CallOver(c)
    /\ UNCHANGED <<serverVars, discVars>>

Lock(c) ==           \* the steps that wait for mu
    \/ StartBusy(c) \/ StartFailed(c) \/ StartServer(c)
    \/ StopNotRunning(c) \/ StopServer(c) \/ CheckRunning(c)
Proceed(c) == StartDiscovery(c) \/ StopDrained(c) \/ WriteTXT(c)

-----------------------------------------------------------------------------
(* The discovery goroutine and performDiscovery.  A round sees at most one *)
(* entry; entries that are skipped change nothing.                         *)

LoopMoves(g, from, to) == loop[g] = from /\ loop' = [loop EXCEPT ![g] = to]

Discover(g) ==
    /\ LoopMoves(g, "begin", "round")
    /\ query' = [query EXCEPT ![g] = "asking"]
    /\ entry' = [entry EXCEPT ![g] = FALSE]
    /\ UNCHANGED <<clientVars, serverVars, stale>>

Receive(g) ==        \* the callback runs in the discovery goroutine
    /\ entry[g]
    /\ LoopMoves(g, "round", "callback")
    /\ entry' = [entry EXCEPT ![g] = FALSE]
    /\ UNCHANGED <<clientVars, serverVars, query, stale>>

Called(g) ==
    /\ LoopMoves(g, "callback", "round")
    /\ UNCHANGED <<clientVars, serverVars, query, entry, stale>>

RoundOver(g) ==      \* entriesCh is closed and drained
    /\ query[g] = "over" /\ ~entry[g]
    /\ LoopMoves(g, "round", "select")
    /\ query' = [query EXCEPT ![g] = "none"]
    /\ UNCHANGED <<clientVars, serverVars, entry, stale>>

Interrupted(g) ==    \* the query goroutine is left behind
    /\ mdnsDone
    /\ LoopMoves(g, "round", "select")
    /\ stale' = [stale EXCEPT ![g] = @ + (IF query[g] = "over" THEN 0 ELSE 1)]
    /\ query' = [query EXCEPT ![g] = "none"]
    /\ entry' = [entry EXCEPT ![g] = FALSE]
    /\ UNCHANGED <<clientVars, serverVars>>

Tick(g) ==           \* the select may take a tick although the context is done
    /\ stale[g] < MaxStale
    /\ LoopMoves(g, "select", "begin")
    /\ UNCHANGED <<clientVars, serverVars, query, entry, stale>>

(* Mutant: the goroutine watches running, which Stop resets last. *)
QuitWhenStopped(g) ==
    /\ ~running
    /\ LoopMoves(g, "select", "done")
    /\ UNCHANGED <<clientVars, serverVars, query, entry, stale>>

Quit(g) ==
    /\ mdnsDone
    /\ LoopMoves(g, "select", "done")
    /\ UNCHANGED <<clientVars, serverVars, query, entry, stale>>

(* The query goroutine: at most five seconds, then it closes entriesCh. *)

Answer(g) ==
    /\ query[g] = "asking"
    /\ query' = [query EXCEPT ![g] = "answered"]
    /\ entry' = [entry EXCEPT ![g] = TRUE]
    /\ UNCHANGED <<clientVars, serverVars, loop, stale>>

QueryOver(g) ==
    /\ query[g] \in {"asking", "answered"}
    /\ query' = [query EXCEPT ![g] = "over"]
    /\ UNCHANGED <<clientVars, serverVars, loop, entry, stale>>

StaleOver(g) ==
    /\ stale[g] > 0
    /\ stale' = [stale EXCEPT ![g] = @ - 1]
    /\ UNCHANGED <<clientVars, serverVars, loop, query, entry>>

Round(g) == Discover(g) \/ Receive(g) \/ Called(g) \/ RoundOver(g) \/ Interrupted(g)
QueryMoves(g) == Answer(g) \/ QueryOver(g) \/ StaleOver(g)

ParentEnds ==
    /\ ~parentDone
    /\ parentDone' = TRUE /\ mdnsDone' = TRUE
    /\ UNCHANGED <<clientVars, mu, running, txt, published, starts, discVars>>

MdnsNext ==
    \/ \E c \in Clients : \/ Call(c) \/ (\E n \in Nodes : Advertise(c, n))
                          \/ Lock(c) \/ Proceed(c)
    \/ \E g \in Loops : Round(g) \/ Tick(g) \/ Quit(g) \/ QueryMoves(g)
    \/ ParentEnds

(* Goroutines run; a sync.RWMutex hands itself over to a starving waiter;   *)
(* a query times out and a callback returns; a select that offers the ended *)
(* context again and again takes it, because Go chooses at random.          *)
MdnsFairness ==
    /\ \A c \in Clients : WF_mdnsVars(Proceed(c)) /\ SF_mdnsVars(Lock(c))
    /\ \A g \in Loops : /\ WF_mdnsVars(Round(g)) /\ SF_mdnsVars(Quit(g))
                        /\ WF_mdnsVars(QueryOver(g)) /\ WF_mdnsVars(StaleOver(g))

MdnsSpec == MdnsInit /\ [][MdnsNext]_mdnsVars
MdnsFairSpec == MdnsSpec /\ MdnsFairness

-----------------------------------------------------------------------------
(* The type of the state. *)
MdnsTypeOK ==
    /\ mu \in Clients \cup {None}
    /\ {running, mdnsDone, parentDone} \subseteq BOOLEAN
    /\ {txt, published} \subseteq Nodes \cup {Torn, None}
    /\ pc \in [Clients -> {"idle", "start", "serve", "stop", "drain", "write", "check"}]
    /\ restart \in [Clients -> BOOLEAN]
    /\ node \in [Clients -> Nodes \cup {None}]
    /\ starts \in 0..MaxStarts
    /\ loop \in [Loops -> {"none", "begin", "round", "callback", "select", "done"}]
    /\ query \in [Loops -> {"none", "asking", "answered", "over"}]
    /\ entry \in [Loops -> BOOLEAN]
    /\ stale \in [Loops -> Nat]

(* Once Stop has returned nothing of the service is left: no discovery      *)
(* goroutine, hence no callback, no query goroutine, no server.             *)
StoppedIsQuiet ==
    ~running /\ mu = None => published = None /\ \A g \in Loops : ~Busy(g)

(* The discovery goroutines of two starts never overlap, however Start,     *)
(* Stop and the restarts of AdvertiseNode interleave.                       *)
OneDiscovery == \A g, h \in Loops : Busy(g) /\ Busy(h) => g = h

(* AdvertiseNode writes the TXT records outside the lock and restarts only  *)
(* if it sees the service running.  Still, when no AdvertiseNode is in      *)
(* progress and the service runs, it answers with the records written last. *)
Advertising(c) == pc[c] \in {"write", "check"} \/ restart[c]
AdvertisedIsLatest ==
    running /\ mu = None /\ (\A c \in Clients : ~Advertising(c)) => published = txt

(* Every call returns, although Stop waits for the discovery goroutine, its *)
(* queries and its callback while it holds mu.                              *)
CallsReturn == \A c \in Clients : (pc[c] # "idle") ~> (pc[c] = "idle")

(* A running service looks for peers for as long as its context lives: its  *)
(* discovery goroutine has not returned.  TestMDNSIntegration advertises on *)
(* two running services and then waits for them to discover each other.     *)
RunningDiscovers ==
    running /\ mu = None /\ ~parentDone => \E g \in Loops : loop[g] \notin {"none", "done"}
=============================================================================
