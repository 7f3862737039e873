------------------------ MODULE NodeLifecycleProofs ------------------------
(***************************************************************************)
(* The safety of a node's life for any set of subservers and any number of *)
(* signals: when it registers, and what becomes of the connections of TURN *)
(* when main and the signal goroutine close them side by side.             *)
(***************************************************************************)
EXTENDS NodeLifecycle, TLAPS

(* How turn.Server.Close works through its connections.                     *)
LEMMA ConnOrder ==
    /\ Conns \in Seq({"udp", "tcp"}) /\ Conns # <<>>
    /\ Head(Conns) = "udp" /\ Tail(Conns) = <<"tcp">>
    /\ <<"tcp">> # <<>> /\ Head(<<"tcp">>) = "tcp" /\ Tail(<<"tcp">>) = <<>>
    /\ <<>> \in Seq({"udp", "tcp"})
    /\ \A q \in Seq({"udp", "tcp"}) : q # <<>> =>
          Head(q) \in {"udp", "tcp"} /\ Tail(q) \in Seq({"udp", "tcp"})
  BY DEF Conns

(* Every variable keeps its type, one group of variables after the other.   *)
GoTyped ==
    /\ main \in {"hooks", "wait", "register", "hung", "after", "run", "stop",
                 "closing", "drain"} \cup Ended
    /\ srv \in {"none", "subs", "settle", "ready", "started", "error"}
    /\ spin \in {"none", "spawned", "serving", "closed"}
    /\ listener \in {"none", "spawned", "listening", "done"}
SubsTyped == subs \in [SubServers -> {"init", "running", "stopped"}]
TurnTyped ==
    /\ open \subseteq {"udp", "tcp"}
    /\ work \in [Closers -> Seq({"udp", "tcp"})]
    /\ failed \in [Closers -> BOOLEAN]
SignalsTyped == signals \in 0..MaxSignals /\ caught \subseteq Channels
FlagsTyped == ctxDone \in BOOLEAN /\ registered \in BOOLEAN /\ broken \in BOOLEAN

LEMMA NodeTypeParts == TypeOK <=> GoTyped /\ SubsTyped /\ TurnTyped /\ SignalsTyped /\ FlagsTyped
<1>1. FlagsTyped <=> {ctxDone, registered, broken} \subseteq BOOLEAN
  BY DEF FlagsTyped
<1>. QED
  BY <1>1 DEF TypeOK, GoTyped, SubsTyped, TurnTyped, SignalsTyped

(* The state of a node's life is of the declared type, for any subservers.  *)
THEOREM NodeTypes == Spec => []TypeOK
<1>. USE NodeAssumption
<1>. DEFINE Typed == GoTyped /\ SubsTyped /\ TurnTyped /\ SignalsTyped /\ FlagsTyped
<1>1. Init => Typed
  <2>. SUFFICES ASSUME Init PROVE Typed
    OBVIOUS
  <2>1. GoTyped /\ SubsTyped
    BY DEF Init, GoTyped, SubsTyped
  <2>2. TurnTyped
    <3>1. work \in [Closers -> Seq({"udp", "tcp"})]
      BY ConnOrder DEF Init
    <3>2. open \subseteq {"udp", "tcp"} /\ failed \in [Closers -> BOOLEAN]
      BY DEF Init
    <3>. QED
      BY <3>1, <3>2 DEF TurnTyped
  <2>3. SignalsTyped
    BY DEF Init, SignalsTyped
  <2>4. FlagsTyped
    BY DEF Init, FlagsTyped
  <2>. QED
    BY <2>1, <2>2, <2>3, <2>4
<1>2. Typed /\ [Next]_vars => Typed'
  <2>. SUFFICES ASSUME Typed, [Next]_vars PROVE Typed'
    OBVIOUS
  <2>1. GoTyped'
    <3>1. CASE Start
      BY <3>1 DEF Start, BeforeStart, HookFailed, Ready, WaitCancelled, Register, RegisterHangs,
                  AfterStart, Main, GoTyped, Ended
    <3>2. CASE Server \/ ServerFails
      BY <3>2 DEF Server, ServerFails, StartSub, Handlers, Settled, StartSubFailed,
                  HandlerUnsupported, GoTyped, Ended
    <3>3. CASE Stop \/ \E s \in Others : StopOtherFailed(s)
      BY <3>3 DEF Stop, Leave, StopOther, StopOtherFailed, StopTurn, CloseConn, TurnStopped,
                  TurnFailed, EngineClosed, TimedOut, Main, GoTyped, Ended, goVars
    <3>4. CASE Goroutines \/ SpinFailed
      BY <3>4 DEF Goroutines, Listen, ListenerStops, CloseConn, Spin, SpinFailed, GoTyped, Ended,
                  goVars
    <3>5. CASE Signal \/ Cancel \/ UNCHANGED vars
      BY <3>5 DEF Signal, Cancel, vars, goVars, GoTyped, Ended
    <3>. QED
      BY <3>1, <3>2, <3>3, <3>4, <3>5 DEF Next
  <2>2. SubsTyped'
    <3>1. CASE UNCHANGED subs
      BY <3>1 DEF SubsTyped
    <3>2. ASSUME NEW s \in SubServers, StartSub(s) PROVE SubsTyped'
      BY <3>2 DEF StartSub, SubsTyped
    <3>3. ASSUME NEW s \in Others, StopOther(s) PROVE SubsTyped'
      BY <3>3 DEF StopOther, SubsTyped
    <3>4. CASE TurnStopped
      BY <3>4 DEF TurnStopped, SubsTyped
    <3>. QED
      BY <3>1, <3>2, <3>3, <3>4
      DEF Next, Start, BeforeStart, HookFailed, Ready, WaitCancelled, Register, RegisterHangs,
          AfterStart, Server, ServerFails, Handlers, Settled, StartSubFailed, HandlerUnsupported,
          Stop, Leave, StopOtherFailed, StopTurn, CloseConn, TurnFailed, EngineClosed, TimedOut,
          Goroutines, Listen, ListenerStops, Spin, SpinFailed, Signal, Cancel, vars
  <2>3. TurnTyped'
    <3>1. CASE UNCHANGED turnVars
      BY <3>1 DEF TurnTyped, turnVars
    <3>2. CASE StopTurn \/ ListenerStops
      <4>1. work' \in [Closers -> Seq({"udp", "tcp"})] /\ UNCHANGED <<open, failed>>
        BY <3>2, ConnOrder DEF StopTurn, ListenerStops, TurnTyped
      <4>. QED
        BY <4>1 DEF TurnTyped
    <3>3. ASSUME NEW p \in Closers, CloseConn(p) PROVE TurnTyped'
      <4>1. Tail(work[p]) \in Seq({"udp", "tcp"})
        BY <3>3, ConnOrder DEF CloseConn, TurnTyped
      <4>2. work' \in [Closers -> Seq({"udp", "tcp"})] /\ open' \subseteq {"udp", "tcp"}
        BY <3>3, <4>1 DEF CloseConn, TurnTyped
      <4>3. failed' \in [Closers -> BOOLEAN]
        BY <3>3 DEF CloseConn, TurnTyped
      <4>. QED
        BY <4>2, <4>3 DEF TurnTyped
    <3>. QED
      BY <3>1, <3>2, <3>3
      DEF Next, Start, BeforeStart, HookFailed, Ready, WaitCancelled, Register, RegisterHangs,
          AfterStart, Server, ServerFails, StartSub, Handlers, Settled, StartSubFailed,
          HandlerUnsupported, Stop, Leave, StopOther, StopOtherFailed, TurnStopped, TurnFailed,
          EngineClosed, TimedOut, Goroutines, Listen, Spin, SpinFailed, Signal, Cancel, vars, Closers
  <2>4. SignalsTyped'
    <3>1. CASE UNCHANGED <<signals, caught>>
      BY <3>1 DEF SignalsTyped
    <3>2. CASE Signal
      <4>1. signals' \in 0..MaxSignals
        BY <3>2 DEF Signal, SignalsTyped
      <4>2. caught' \subseteq Channels
        BY <3>2 DEF Signal, SignalsTyped, Notified, Channels
      <4>. QED
        BY <4>1, <4>2 DEF SignalsTyped
    <3>. QED
      BY <3>1, <3>2
      DEF Next, Start, BeforeStart, HookFailed, Ready, WaitCancelled, Register, RegisterHangs,
          AfterStart, Server, ServerFails, StartSub, Handlers, Settled, StartSubFailed,
          HandlerUnsupported, Stop, Leave, StopOther, StopOtherFailed, StopTurn, CloseConn,
          TurnStopped, TurnFailed, EngineClosed, TimedOut, Goroutines, Listen, ListenerStops,
          Spin, SpinFailed, Cancel, vars, envVars
  <2>5. FlagsTyped'
    <3>1. \/ UNCHANGED <<ctxDone, registered, broken>>
          \/ registered' = TRUE /\ UNCHANGED <<ctxDone, broken>>
          \/ broken' = TRUE /\ UNCHANGED <<ctxDone, registered>>
          \/ ctxDone' = TRUE /\ UNCHANGED <<registered, broken>>
      BY Zenon
      DEF Next, Start, BeforeStart, HookFailed, Ready, WaitCancelled, Register, RegisterHangs,
          AfterStart, Server, ServerFails, StartSub, Handlers, Settled, StartSubFailed,
          HandlerUnsupported, Stop, Leave, StopOther, StopOtherFailed, StopTurn, CloseConn,
          TurnStopped, TurnFailed, EngineClosed, TimedOut, Goroutines, Listen, ListenerStops,
          Spin, SpinFailed, Signal, Cancel, vars, envVars
    <3>. QED
      BY <3>1 DEF FlagsTyped
  <2>. QED
    BY <2>1, <2>2, <2>3, <2>4, <2>5
<1>3. Typed <=> TypeOK
  BY NodeTypeParts
<1>. QED
  BY <1>1, <1>2, <1>3, PTL DEF Spec

-----------------------------------------------------------------------------
(* How far Server.Start is, seen from main.                                 *)
UpInv ==
    /\ main = "hooks" => srv = "none"
    /\ main \in {"register", "hung", "after", "run", "stop", "closing", "drain"}
          => srv = "started"
    /\ srv \in {"settle", "ready", "started"}
          => spin # "none" /\ \A s \in SubServers : subs[s] # "init"
    /\ registered => srv = "started"

(* Main is past the wait only when Server.Start has gone through            *)
(* (native.go:68-79, hertz.go:87-155).                                      *)
LEMMA UpInductive == Spec => []UpInv
<1>. USE NodeAssumption DEF TypeOK, Ended, goVars, turnVars, envVars
<1>1. Init => UpInv
  BY DEF Init, UpInv
<1>2. TypeOK /\ UpInv /\ [Next]_vars => UpInv'
  <2>. SUFFICES ASSUME TypeOK, UpInv, [Next]_vars PROVE UpInv'
    OBVIOUS
  <2>1. CASE Start
    BY <2>1 DEF UpInv, Start, BeforeStart, HookFailed, Ready, WaitCancelled, Register,
                RegisterHangs, AfterStart, Main
  <2>2. CASE Server \/ ServerFails
    BY <2>2 DEF UpInv, Server, ServerFails, StartSub, Handlers, Settled, StartSubFailed,
                HandlerUnsupported, Alive
  <2>3. CASE Leave \/ (\E s \in Others : StopOther(s) \/ StopOtherFailed(s))
    BY <2>3 DEF UpInv, Leave, StopOther, StopOtherFailed, Main, SubServers
  <2>4. CASE StopTurn \/ CloseConn("main") \/ CloseConn("listener") \/ ListenerStops
    BY <2>4 DEF UpInv, StopTurn, CloseConn, ListenerStops, Main
  <2>5. CASE TurnStopped \/ TurnFailed \/ EngineClosed \/ TimedOut
    BY <2>5 DEF UpInv, TurnStopped, TurnFailed, EngineClosed, TimedOut, Main
  <2>6. CASE Listen \/ Spin \/ SpinFailed
    BY <2>6 DEF UpInv, Listen, Spin, SpinFailed
  <2>7. CASE Signal \/ Cancel
    BY <2>7 DEF UpInv, Signal, Cancel, Alive
  <2>8. CASE UNCHANGED vars
    BY <2>8 DEF UpInv, vars
  <2>. QED
    BY <2>1, <2>2, <2>3, <2>4, <2>5, <2>6, <2>7, <2>8 DEF Next, Stop, Goroutines
<1>. QED
  BY <1>1, <1>2, NodeTypes, PTL DEF Spec

(* A registered node is up: whatever hooks, subservers, signals and         *)
(* failures do meanwhile, Register comes after the whole of Server.Start.   *)
THEOREM RegisteredUp == Spec => []RegisteredIsUp
<1>1. UpInv => RegisteredIsUp
  BY DEF UpInv, RegisteredIsUp
<1>. QED
  BY <1>1, UpInductive, PTL

-----------------------------------------------------------------------------
(* What main has still to close, and that the rest is closed, whoever did   *)
(* it: main goes through the connections in order and never skips one.      *)
Progress ==
    /\ \/ work["main"] = <<>> /\ (main = "closing" => open = {})
       \/ main = "closing" /\ work["main"] = <<"tcp">> /\ "udp" \notin open
       \/ main = "closing" /\ work["main"] = Conns
    /\ subs[Turn] = "stopped" => open = {}
    /\ main = "drain" => open = {}

(* Up to the moment at which the signal goroutine of TURN starts to close,  *)
(* main is alone: nobody else closes, so main finds every connection it has *)
(* not closed itself open, and only a broken subserver makes it panic.      *)
Alone ==
    /\ signals = 0 => caught = {} /\ listener # "done"
    /\ subs[Turn] = "init" => listener = "none"
    /\ listener # "done" =>
        /\ work["listener"] = <<>> /\ ~failed["main"]
        /\ subs[Turn] # "stopped" /\ main # "closing" => open = {"udp", "tcp"}
        /\ work["main"] = Conns => open = {"udp", "tcp"}
        /\ work["main"] = <<"tcp">> => open = {"tcp"}
        /\ main = "panicked" => broken

TurnInv == Progress /\ Alone

(* The connections of TURN under two closers (turn.go:80-105,               *)
(* server_base.go:61-69).                                                   *)
LEMMA TurnInductive == Spec => []TurnInv
<1>. USE NodeAssumption DEF TypeOK, Ended, goVars, turnVars, envVars
<1>1. Init => TurnInv
  BY ConnOrder DEF Init, TurnInv, Progress, Alone, Closers, SubServers
<1>2. TypeOK /\ UpInv /\ TurnInv /\ [Next]_vars => TurnInv'
  <2>. SUFFICES ASSUME TypeOK, UpInv, TurnInv, [Next]_vars PROVE TurnInv'
    OBVIOUS
  <2>. USE DEF TurnInv, Progress, Alone
  <2>1. CASE Start
    BY <2>1 DEF Start, BeforeStart, HookFailed, Ready, WaitCancelled, Register,
                RegisterHangs, AfterStart, Main
  <2>2. CASE Server \/ ServerFails
    <3>1. ASSUME NEW s \in SubServers, StartSub(s) PROVE TurnInv'
      <4>1. CASE s = Turn
        <5>1. listener = "none" /\ subs'[Turn] = "running"
          BY <3>1, <4>1 DEF StartSub
        <5>. QED
          BY <3>1, <5>1 DEF StartSub
      <4>2. CASE s # Turn
        <5>1. subs'[Turn] = subs[Turn] /\ UNCHANGED listener
          BY <3>1, <4>2 DEF StartSub, SubServers
        <5>. QED
          BY <3>1, <5>1 DEF StartSub
      <4>. QED
        BY <4>1, <4>2
    <3>2. ASSUME NEW s \in SubServers, StartSubFailed(s) PROVE TurnInv'
      <4>1. main # "closing"
        BY <3>2 DEF StartSubFailed, UpInv
      <4>. QED
        BY <3>2, <4>1 DEF StartSubFailed, Alive
    <3>3. CASE Handlers \/ Settled \/ HandlerUnsupported
      BY <3>3 DEF Handlers, Settled, HandlerUnsupported
    <3>. QED
      BY <2>2, <3>1, <3>2, <3>3 DEF Server, ServerFails
  <2>3. CASE Leave \/ (\E s \in Others : StopOther(s) \/ StopOtherFailed(s))
    BY <2>3 DEF Leave, StopOther, StopOtherFailed, Main, SubServers
  <2>4. CASE StopTurn
    <3>1. work'["main"] = Conns /\ work'["listener"] = work["listener"]
      BY <2>4 DEF StopTurn, Closers
    <3>. QED
      BY <2>4, <3>1, ConnOrder DEF StopTurn, Main
  <2>5. CASE CloseConn("main")
    <3>1. /\ work["main"] # <<>> /\ work'["main"] = Tail(work["main"])
          /\ work'["listener"] = work["listener"]
          /\ failed'["main"] = (failed["main"] \/ Head(work["main"]) \notin open)
          /\ open' = open \ {Head(work["main"])}
          /\ UNCHANGED <<main, srv, spin, listener, subs, signals, caught, ctxDone,
                         registered, broken>>
      BY <2>5 DEF CloseConn, Closers
    <3>2. CASE work["main"] = Conns
      BY <3>1, <3>2, ConnOrder
    <3>3. CASE work["main"] = <<"tcp">>
      BY <3>1, <3>3, ConnOrder
    <3>. QED
      BY <3>1, <3>2, <3>3
  <2>6. CASE CloseConn("listener")
    <3>1. /\ work["listener"] # <<>> /\ work'["main"] = work["main"]
          /\ open' \subseteq open
          /\ UNCHANGED <<main, srv, spin, listener, subs, signals, caught, ctxDone,
                         registered, broken>>
      BY <2>6 DEF CloseConn, Closers
    <3>2. listener = "done"
      BY <3>1
    <3>. QED
      BY <3>1, <3>2
  <2>7. CASE TurnStopped \/ TurnFailed \/ EngineClosed \/ TimedOut
    BY <2>7, ConnOrder DEF TurnStopped, TurnFailed, EngineClosed, TimedOut, Main, SubServers
  <2>8. CASE ListenerStops
    <3>1. signals # 0 /\ work'["main"] = work["main"]
      BY <2>8 DEF ListenerStops, Closers
    <3>. QED
      BY <2>8, <3>1 DEF ListenerStops
  <2>9. CASE Listen \/ Spin \/ SpinFailed
    BY <2>9 DEF Listen, Spin, SpinFailed
  <2>10. CASE Signal
    <3>1. signals' # 0
      BY <2>10 DEF Signal
    <3>2. main' = main \/ (main \notin {"run", "stop", "closing", "drain"} /\ main' = "killed")
      BY <2>10 DEF Signal, Notified
    <3>. QED
      BY <2>10, <3>1, <3>2 DEF Signal
  <2>11. CASE Cancel
    BY <2>11 DEF Cancel
  <2>12. CASE UNCHANGED vars
    BY <2>12 DEF vars
  <2>. QED
    BY <2>1, <2>2, <2>3, <2>4, <2>5, <2>6, <2>7, <2>8, <2>9, <2>10, <2>11, <2>12
    DEF Next, Stop, Goroutines
<1>. QED
  BY <1>1, <1>2, NodeTypes, UpInductive, PTL DEF Spec

(* No connection of TURN is open when native.Stop is past the subservers.   *)
THEOREM TurnIsReleased == Spec => []TurnReleased
BY TurnInductive, PTL DEF TurnInv, Progress, TurnReleased

(* A node that no signal reached panics only when another subserver broke.  *)
THEOREM CancelIsClean == Spec => []CancelStopsCleanly
<1>1. TypeOK /\ TurnInv => CancelStopsCleanly
  BY NodeAssumption DEF TypeOK, TurnInv, Alone, CancelStopsCleanly
<1>. QED
  BY <1>1, NodeTypes, TurnInductive, PTL

(* SignalStopsCleanly fails in one way only: a shutdown panics when another *)
(* subserver broke, or when the signal goroutine of TURN has begun to close *)
(* the connections main closes, too (turn.go:80-86).                        *)
PanicHasCause == main = "panicked" => broken \/ listener = "done"

(* A node panics at stop for no third reason.                               *)
THEOREM PanicsOnlyBesideTurn == Spec => []PanicHasCause
<1>1. TurnInv => PanicHasCause
  BY DEF TurnInv, Alone, PanicHasCause
<1>. QED
  BY <1>1, TurnInductive, PTL
=============================================================================
