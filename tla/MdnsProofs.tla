----------------------------- MODULE MdnsProofs -----------------------------
(***************************************************************************)
(* The safety of the mDNS service for any number of goroutines that call   *)
(* it and any number of starts: who holds mu, whose discovery goroutine is *)
(* busy, and what the server answers with.                                 *)
(***************************************************************************)
EXTENDS Mdns, TLAPS

(* Who holds mu: one client at a time is between StartServer and            *)
(* StartDiscovery, or between StopServer and StopDrained.                   *)
Holds ==
    \A c \in Clients :
       /\ pc[c] \in {"serve", "drain"} => mu = c
       /\ pc[c] = "serve" => ~running /\ starts < MaxStarts
       /\ pc[c] = "drain" => running /\ published = None

LEMMA HoldsInductive == MdnsSpec => [](MdnsTypeOK /\ Holds)
<1>. USE MdnsAssumption DEF MdnsTypeOK, Holds, Loops, clientVars, serverVars, discVars
<1>1. MdnsInit => MdnsTypeOK /\ Holds
  <2>. SUFFICES ASSUME MdnsInit PROVE MdnsTypeOK /\ Holds
    OBVIOUS
  <2>1. restart \in [Clients -> BOOLEAN] /\ entry \in [Loops -> BOOLEAN]
    BY DEF MdnsInit
  <2>2. stale \in [Loops -> Nat] /\ starts \in 0..MaxStarts
    BY DEF MdnsInit
  <2>. QED
    BY <2>1, <2>2 DEF MdnsInit
<1>2. MdnsTypeOK /\ Holds /\ [MdnsNext]_mdnsVars => (MdnsTypeOK /\ Holds)'
  <2>. SUFFICES ASSUME MdnsTypeOK, Holds, [MdnsNext]_mdnsVars PROVE (MdnsTypeOK /\ Holds)'
    OBVIOUS
  <2>0. ReadTXT \subseteq Nodes \cup {Torn, None}
    BY DEF ReadTXT, Writing
  <2>1. ASSUME NEW c \in Clients, Call(c) \/ \E n \in Nodes : Advertise(c, n)
        PROVE  (MdnsTypeOK /\ Holds)'
    <3>1. MdnsTypeOK'
      BY <2>1 DEF Call, Advertise, Moves
    <3>2. Holds'
      BY <2>1 DEF Call, Advertise, Moves
    <3>. QED
      BY <3>1, <3>2
  <2>2. ASSUME NEW c \in Clients, Lock(c) PROVE (MdnsTypeOK /\ Holds)'
    <3>1. CASE StartBusy(c) \/ StartFailed(c) \/ StopNotRunning(c)
      <4>1. CallOver(c) /\ UNCHANGED <<serverVars, discVars>>
        BY <3>1 DEF StartBusy, StartFailed, StopNotRunning
      <4>2. restart' \in [Clients -> BOOLEAN]
        BY <4>1 DEF CallOver
      <4>3. MdnsTypeOK'
        BY <4>1, <4>2 DEF CallOver
      <4>4. Holds'
        BY <4>1 DEF CallOver
      <4>. QED
        BY <4>3, <4>4
    <3>2. CASE StartServer(c)
      <4>1. MdnsTypeOK'
        BY <2>0, <3>2 DEF StartServer, Moves
      <4>2. Holds'
        BY <3>2 DEF StartServer, Moves
      <4>. QED
        BY <4>1, <4>2
    <3>3. CASE StopServer(c)
      <4>1. MdnsTypeOK'
        BY <3>3 DEF StopServer, Moves
      <4>2. Holds'
        BY <3>3 DEF StopServer, Moves
      <4>. QED
        BY <4>1, <4>2
    <3>4. CASE CheckRunning(c)
      <4>1. MdnsTypeOK'
        BY <3>4 DEF CheckRunning, Moves, CallOver
      <4>2. Holds'
        BY <3>4 DEF CheckRunning, Moves, CallOver
      <4>. QED
        BY <4>1, <4>2
    <3>. QED
      BY <2>2, <3>1, <3>2, <3>3, <3>4 DEF Lock
  <2>3. ASSUME NEW c \in Clients, Proceed(c) PROVE (MdnsTypeOK /\ Holds)'
    <3>1. CASE StartDiscovery(c)
      <4>1. mu = c /\ starts' = starts + 1 /\ starts' \in 0..MaxStarts
        BY <3>1 DEF StartDiscovery
      <4>2. \A d \in Clients : pc'[d] \notin {"serve", "drain"}
        BY <3>1, <4>1 DEF StartDiscovery, CallOver
      <4>3. MdnsTypeOK'
        BY <3>1, <4>1 DEF StartDiscovery, CallOver
      <4>. QED
        BY <4>2, <4>3
    <3>2. CASE StopDrained(c)
      <4>1. MdnsTypeOK'
        BY <3>2 DEF StopDrained, Moves
      <4>2. Holds'
        BY <3>2 DEF StopDrained, Moves
      <4>. QED
        BY <4>1, <4>2
    <3>3. CASE WriteTXT(c)
      <4>1. MdnsTypeOK'
        BY <3>3 DEF WriteTXT, Moves
      <4>2. Holds'
        BY <3>3 DEF WriteTXT, Moves
      <4>. QED
        BY <4>1, <4>2
    <3>. QED
      BY <2>3, <3>1, <3>2, <3>3 DEF Proceed
  <2>4. ASSUME NEW g \in Loops, Round(g) \/ Tick(g) \/ Quit(g) \/ QueryMoves(g)
        PROVE  (MdnsTypeOK /\ Holds)'
    <3>1. stale' \in [Loops -> Nat]
      BY <2>4 DEF Round, Tick, Quit, QueryMoves, Discover, Receive, Called, RoundOver,
                  Interrupted, Answer, QueryOver, StaleOver
    <3>2. entry' \in [Loops -> BOOLEAN]
      BY <2>4 DEF Round, Tick, Quit, QueryMoves, Discover, Receive, Called, RoundOver,
                  Interrupted, Answer, QueryOver, StaleOver
    <3>3. loop' \in [Loops -> {"none", "begin", "round", "callback", "select", "done"}]
      BY <2>4 DEF Round, Tick, Quit, QueryMoves, Discover, Receive, Called, RoundOver,
                  Interrupted, Answer, QueryOver, StaleOver, LoopMoves
    <3>4. query' \in [Loops -> {"none", "asking", "answered", "over"}]
      BY <2>4 DEF Round, Tick, Quit, QueryMoves, Discover, Receive, Called, RoundOver,
                  Interrupted, Answer, QueryOver, StaleOver
    <3>5. UNCHANGED <<clientVars, serverVars>>
      BY <2>4 DEF Round, Tick, Quit, QueryMoves, Discover, Receive, Called, RoundOver,
                  Interrupted, Answer, QueryOver, StaleOver
    <3>. QED
      BY <3>1, <3>2, <3>3, <3>4, <3>5
  <2>5. CASE ParentEnds
    BY <2>5 DEF ParentEnds
  <2>6. CASE UNCHANGED mdnsVars
    BY <2>6 DEF mdnsVars
  <2>. QED
    BY <2>1, <2>2, <2>3, <2>4, <2>5, <2>6 DEF MdnsNext
<1>. QED
  BY <1>1, <1>2, PTL DEF MdnsSpec

(* Every variable keeps its type.                                           *)
THEOREM MdnsTypes == MdnsSpec => []MdnsTypeOK
BY HoldsInductive, PTL

-----------------------------------------------------------------------------
(* Whose goroutines are busy: those of the newest start, and none once the  *)
(* service runs no more; a round is under way only while its goroutine is.  *)
Quiet ==
    /\ \A g \in Loops : query[g] # "none" => loop[g] \in {"round", "callback"}
    /\ \A g \in Loops : Busy(g) => running /\ g = starts
    /\ ~running /\ mu = None => published = None

LEMMA QuietInductive == MdnsSpec => []Quiet
<1>. USE MdnsAssumption DEF MdnsTypeOK, Holds, Quiet, Busy, Loops, clientVars, serverVars, discVars
<1>1. MdnsInit => Quiet
  BY DEF MdnsInit
<1>2. MdnsTypeOK /\ Holds /\ Quiet /\ [MdnsNext]_mdnsVars => Quiet'
  <2>. SUFFICES ASSUME MdnsTypeOK, Holds, Quiet, [MdnsNext]_mdnsVars PROVE Quiet'
    OBVIOUS
  <2>1. ASSUME NEW c \in Clients, Call(c) \/ \E n \in Nodes : Advertise(c, n)
        PROVE  Quiet'
    BY <2>1 DEF Call, Advertise
  <2>2. ASSUME NEW c \in Clients, Lock(c) PROVE Quiet'
    BY <2>2 DEF Lock, StartBusy, StartFailed, StartServer, StopNotRunning, StopServer,
                CheckRunning
  <2>3. ASSUME NEW c \in Clients, StartDiscovery(c) PROVE Quiet'
    <3>1. ~running /\ starts + 1 \in Loops
      BY <2>3 DEF StartDiscovery
    <3>2. /\ loop' = [loop EXCEPT ![starts + 1] = "begin"] /\ running' /\ starts' = starts + 1
          /\ UNCHANGED <<query, stale>>
      BY <2>3 DEF StartDiscovery
    <3>3. \A g \in Loops : g # starts + 1 => loop'[g] = loop[g]
      BY <3>2
    <3>4. query[starts + 1] = "none"
      BY <3>1
    <3>. QED
      BY <3>1, <3>2, <3>3, <3>4
  <2>4. ASSUME NEW c \in Clients, StopDrained(c) PROVE Quiet'
    BY <2>4 DEF StopDrained, Moves
  <2>5. ASSUME NEW c \in Clients, WriteTXT(c) PROVE Quiet'
    BY <2>5 DEF WriteTXT
  <2>6. ASSUME NEW g \in Loops, Round(g) PROVE Quiet'
    <3>1. Busy(g)
      BY <2>6 DEF Round, Discover, Receive, Called, RoundOver, Interrupted, LoopMoves
    <3>2. UNCHANGED <<running, starts, mu, published>>
      BY <2>6 DEF Round, Discover, Receive, Called, RoundOver, Interrupted
    <3>3. \A h \in Loops : h # g =>
             loop'[h] = loop[h] /\ query'[h] = query[h] /\ stale'[h] = stale[h]
      BY <2>6 DEF Round, Discover, Receive, Called, RoundOver, Interrupted, LoopMoves
    <3>4. query'[g] # "none" => loop'[g] \in {"round", "callback"}
      BY <2>6 DEF Round, Discover, Receive, Called, RoundOver, Interrupted, LoopMoves
    <3>. QED
      BY <3>1, <3>2, <3>3, <3>4
  <2>7. ASSUME NEW g \in Loops, Tick(g) \/ Quit(g) PROVE Quiet'
    <3>1. Busy(g) /\ query[g] = "none"
      BY <2>7 DEF Tick, Quit, LoopMoves
    <3>2. UNCHANGED <<running, starts, mu, published, query, stale>>
      BY <2>7 DEF Tick, Quit
    <3>3. \A h \in Loops : h # g => loop'[h] = loop[h]
      BY <2>7 DEF Tick, Quit, LoopMoves
    <3>. QED
      BY <3>1, <3>2, <3>3
  <2>8. ASSUME NEW g \in Loops, QueryMoves(g) PROVE Quiet'
    <3>1. UNCHANGED <<running, starts, mu, published, loop>>
      BY <2>8 DEF QueryMoves, Answer, QueryOver, StaleOver
    <3>2. \A h \in Loops : h # g => query'[h] = query[h] /\ stale'[h] = stale[h]
      BY <2>8 DEF QueryMoves, Answer, QueryOver, StaleOver
    <3>3. Busy(g) /\ (query'[g] # "none" => query[g] # "none")
      BY <2>8 DEF QueryMoves, Answer, QueryOver, StaleOver
    <3>. QED
      BY <3>1, <3>2, <3>3
  <2>9. CASE ParentEnds
    BY <2>9 DEF ParentEnds
  <2>10. CASE UNCHANGED mdnsVars
    BY <2>10 DEF mdnsVars
  <2>. QED
    BY <2>1, <2>2, <2>3, <2>4, <2>5, <2>6, <2>7, <2>8, <2>9, <2>10 DEF MdnsNext, Proceed
<1>. QED
  BY <1>1, <1>2, HoldsInductive, PTL DEF MdnsSpec

(* Nothing of a stopped service is left (mdns.go:184).                      *)
THEOREM StoppedQuiet == MdnsSpec => []StoppedIsQuiet
<1>1. Quiet => StoppedIsQuiet
  BY DEF Quiet, StoppedIsQuiet
<1>. QED
  BY <1>1, QuietInductive, PTL

(* Two starts never look for peers side by side (mdns.go:137).              *)
THEOREM DiscoveryOnce == MdnsSpec => []OneDiscovery
<1>1. Quiet => OneDiscovery
  BY DEF Quiet, OneDiscovery
<1>. QED
  BY <1>1, QuietInductive, PTL

-----------------------------------------------------------------------------
(* A client that has announced, or will announce, a restart: it wrote the   *)
(* TXT records, or is about to, and has not stopped the service yet.        *)
Pending(c) == pc[c] \in {"write", "check"} \/ (pc[c] = "stop" /\ restart[c])

(* While the server answers with anything but the newest records, somebody  *)
(* is still to restart it.                                                  *)
Announced ==
    \/ published = txt
    \/ \E c \in Clients : Pending(c)
    \/ ~running /\ mu = None
    \/ mu # None /\ \E c \in Clients : pc[c] = "drain"

LEMMA AnnouncedInductive == MdnsSpec => []Announced
<1>. USE MdnsAssumption DEF MdnsTypeOK, Holds, Announced, Pending, clientVars, serverVars, discVars
<1>1. MdnsInit => Announced
  BY DEF MdnsInit
<1>2. MdnsTypeOK /\ Holds /\ Announced /\ [MdnsNext]_mdnsVars => Announced'
  <2>. SUFFICES ASSUME MdnsTypeOK, Holds, Announced, [MdnsNext]_mdnsVars PROVE Announced'
    OBVIOUS
  <2>1. ASSUME NEW c \in Clients, Call(c) \/ \E n \in Nodes : Advertise(c, n)
        PROVE  Announced'
    BY <2>1 DEF Call, Advertise, Moves
  <2>2. ASSUME NEW c \in Clients, StartServer(c) PROVE Announced'
    <3>1. published' = txt' \/ \E d \in Clients : pc[d] = "write"
      BY <2>2 DEF StartServer, ReadTXT, Writing
    <3>. QED
      BY <2>2, <3>1 DEF StartServer, Moves
  <2>3. ASSUME NEW c \in Clients,
               StartBusy(c) \/ StartFailed(c) \/ StopNotRunning(c) \/ StopServer(c) \/ CheckRunning(c)
        PROVE  Announced'
    BY <2>3 DEF StartBusy, StartFailed, StopNotRunning, StopServer, CheckRunning, Moves, CallOver
  <2>4. ASSUME NEW c \in Clients, Proceed(c) PROVE Announced'
    BY <2>4 DEF Proceed, StartDiscovery, StopDrained, WriteTXT, Moves, CallOver
  <2>5. ASSUME NEW g \in Loops, Round(g) \/ Tick(g) \/ Quit(g) \/ QueryMoves(g)
        PROVE  Announced'
    <3>1. UNCHANGED <<clientVars, serverVars>>
      BY <2>5 DEF Round, Tick, Quit, QueryMoves, Discover, Receive, Called, RoundOver,
                  Interrupted, Answer, QueryOver, StaleOver
    <3>. QED
      BY <3>1
  <2>6. CASE ParentEnds
    BY <2>6 DEF ParentEnds
  <2>7. CASE UNCHANGED mdnsVars
    BY <2>7 DEF mdnsVars
  <2>. QED
    BY <2>1, <2>2, <2>3, <2>4, <2>5, <2>6, <2>7 DEF MdnsNext, Lock
<1>. QED
  BY <1>1, <1>2, HoldsInductive, PTL DEF MdnsSpec

(* With no AdvertiseNode under way the records written last are announced   *)
(* (mdns.go:278).                                                           *)
THEOREM LatestAdvertised == MdnsSpec => []AdvertisedIsLatest
<1>1. Announced => AdvertisedIsLatest
  BY DEF Announced, Pending, AdvertisedIsLatest, Advertising
<1>. QED
  BY <1>1, AnnouncedInductive, PTL
-----------------------------------------------------------------------------
(* Where RunningDiscovers holds and where it ends: the discovery goroutine  *)
(* of the newest start looks for peers until the service context is done,   *)
(* and while the parent context lives only a Stop ends the service context. *)
Looking ==
    /\ starts = 0 => ~running /\ (mdnsDone => parentDone)
    /\ running /\ ~mdnsDone => loop[starts] \notin {"none", "done"}
    /\ running /\ mdnsDone /\ ~parentDone => starts >= 2 \/ mu # None

(* mu, seen from the mutex: whoever it names is inside its critical section *)
(* and, when it waits for the goroutines, has cancelled their context.      *)
MuHasHolder == mu # None => pc[mu] \in {"serve", "drain"} /\ (pc[mu] = "drain" => mdnsDone)

LEMMA LookingInductive == MdnsSpec => [](Looking /\ MuHasHolder)
<1>. USE MdnsAssumption DEF MdnsTypeOK, Holds, Looking, MuHasHolder, Loops, clientVars, serverVars, discVars
<1>1. MdnsInit => Looking /\ MuHasHolder
  BY DEF MdnsInit
<1>2. MdnsTypeOK /\ Holds /\ Looking /\ MuHasHolder /\ [MdnsNext]_mdnsVars
         => Looking' /\ MuHasHolder'
  <2>. SUFFICES ASSUME MdnsTypeOK, Holds, Looking, MuHasHolder, [MdnsNext]_mdnsVars
                PROVE  Looking' /\ MuHasHolder'
    OBVIOUS
  <2>1. ASSUME NEW c \in Clients, Call(c) \/ \E n \in Nodes : Advertise(c, n)
        PROVE  Looking' /\ MuHasHolder'
    BY <2>1 DEF Call, Advertise, Moves
  <2>2. ASSUME NEW c \in Clients, Lock(c) PROVE Looking' /\ MuHasHolder'
    BY <2>2 DEF Lock, StartBusy, StartFailed, StartServer, StopNotRunning, StopServer,
                CheckRunning, Moves, CallOver
  <2>3. ASSUME NEW c \in Clients, StartDiscovery(c) PROVE Looking' /\ MuHasHolder'
    <3>1. /\ starts + 1 \in Loops /\ ~running /\ starts \in Nat
          /\ starts' = starts + 1 /\ running' /\ mu' = None
          /\ loop' = [loop EXCEPT ![starts + 1] = "begin"]
          /\ UNCHANGED <<mdnsDone, parentDone>>
      BY <2>3 DEF StartDiscovery
    <3>2. loop'[starts'] = "begin"
      BY <3>1
    <3>3. mdnsDone /\ ~parentDone => starts >= 1
      BY <3>1
    <3>. QED
      BY <3>1, <3>2, <3>3
  <2>4. ASSUME NEW c \in Clients, StopDrained(c) PROVE Looking' /\ MuHasHolder'
    BY <2>4 DEF StopDrained, Moves
  <2>5. ASSUME NEW c \in Clients, WriteTXT(c) PROVE Looking' /\ MuHasHolder'
    BY <2>5 DEF WriteTXT, Moves
  <2>6. ASSUME NEW g \in Loops, Round(g) \/ Tick(g) \/ Quit(g) \/ QueryMoves(g)
        PROVE  Looking' /\ MuHasHolder'
    <3>1. UNCHANGED <<clientVars, serverVars>>
      BY <2>6 DEF Round, Tick, Quit, QueryMoves, Discover, Receive, Called, RoundOver,
                  Interrupted, Answer, QueryOver, StaleOver
    <3>2. ASSUME ~mdnsDone, NEW h \in Loops, loop[h] \notin {"none", "done"}
          PROVE  loop'[h] \notin {"none", "done"}
      BY <2>6, <3>2 DEF Round, Tick, Quit, QueryMoves, Discover, Receive, Called, RoundOver,
                        Interrupted, Answer, QueryOver, StaleOver, LoopMoves
    <3>3. running => starts \in Loops
      OBVIOUS
    <3>. QED
      BY <3>1, <3>2, <3>3
  <2>7. CASE ParentEnds
    BY <2>7 DEF ParentEnds
  <2>8. CASE UNCHANGED mdnsVars
    BY <2>8 DEF mdnsVars
  <2>. QED
    BY <2>1, <2>2, <2>3, <2>4, <2>5, <2>6, <2>7, <2>8 DEF MdnsNext, Proceed
<1>. QED
  BY <1>1, <1>2, HoldsInductive, PTL DEF MdnsSpec

(* RunningDiscovers holds up to the first Stop: a service in its first      *)
(* start has its discovery goroutine.  Only a restarted one runs without.   *)
THEOREM FirstStartDiscovers ==
    MdnsSpec => [](starts <= 1 => RunningDiscovers)
<1>1. MdnsTypeOK /\ Looking => (starts <= 1 => RunningDiscovers)
  <2>. SUFFICES ASSUME MdnsTypeOK, Looking, starts <= 1, running, mu = None, ~parentDone
                PROVE  \E g \in Loops : loop[g] \notin {"none", "done"}
    BY DEF RunningDiscovers
  <2>1. starts \in Loops /\ ~mdnsDone
    BY MdnsAssumption DEF MdnsTypeOK, Looking, Loops
  <2>. QED
    BY <2>1 DEF Looking
<1>. QED
  BY <1>1, LookingInductive, HoldsInductive, PTL

(* Start and Stop never leave mu behind, and whoever waits for the          *)
(* goroutines while it holds mu has told them to end (mdns.go:115-210).     *)
THEOREM MuIsGivenBack == MdnsSpec => []MuHasHolder
BY LookingInductive, PTL
=============================================================================
