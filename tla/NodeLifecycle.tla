---------------------------- MODULE NodeLifecycle ----------------------------
(***************************************************************************)
(* A node from Run to its end (plugin/native/node, server/server_base,     *)
(* plugin/server/hertz, subserver/turn): the main goroutine, the goroutine *)
(* that runs Server.Start, the goroutine of hertz.Spin, and the goroutine  *)
(* with which the TURN subserver waits for a signal of its own.            *)
(*                                                                         *)
(* A signal goes to every channel that signal.Notify knows at that moment; *)
(* when there is none it kills the process.  The program ends with main.   *)
(* hertz.Server.Stop has no successful return: its select waits for a five *)
(* second deadline and reports it as an error, so native.Stop returns      *)
(* before Config.Close and the AfterStop hooks, which are not modelled.    *)
(***************************************************************************)
EXTENDS Naturals, Sequences

CONSTANTS
    Others,      \* subservers other than TURN: no signal goroutine
    Turn,        \* the TURN subserver
    MaxSignals   \* bound: signals sent to the process

ASSUME NodeAssumption == Turn \notin Others /\ MaxSignals \in Nat

VARIABLES
    main,        \* program counter of Run, Start and Stop
    srv,         \* program counter of hertz Server.Start
    spin,        \* the goroutine of hertz.Spin
    listener,    \* the signal goroutine of the TURN subserver
    subs,        \* subservers: "init", "running", "stopped"
    open,        \* connections of the TURN server that are open
    work,        \* connections each closer has still to close
    failed,      \* each closer: a connection was closed already
    signals,     \* signals sent
    caught,      \* channels that hold a signal
    ctxDone,     \* the root context is done
    registered,  \* Registry.Register succeeded
    broken       \* a subserver itself reported an error

goVars == <<main, srv, spin, listener>>
turnVars == <<open, work, failed>>
envVars == <<signals, caught, ctxDone>>
vars == <<goVars, subs, turnVars, envVars, registered, broken>>

SubServers == Others \cup {Turn}
Closers == {"main", "listener"}
Channels == {"main", "listener", "spin"}
Conns == <<"udp", "tcp">>       \* the order of turn.Server.Close
Ended == {"returned", "panicked", "killed"}
Alive == main \notin Ended

Init ==
    /\ main = "hooks" /\ srv = "none" /\ spin = "none" /\ listener = "none"
    /\ subs = [s \in SubServers |-> "init"]
    /\ open = {"udp", "tcp"}      \* opened by the Init of the subserver
    /\ work = [p \in Closers |-> <<>>]
    /\ failed = [p \in Closers |-> FALSE]
    /\ signals = 0 /\ caught = {} /\ ctxDone = FALSE
    /\ registered = FALSE /\ broken = FALSE

Main(from, to) == main = from /\ main' = to

-----------------------------------------------------------------------------
(* native.Start *)

BeforeStart ==       \* the hooks pass: go Server.Start
    /\ Main("hooks", "wait")
    /\ srv' = "subs"
    /\ UNCHANGED <<spin, listener, subs, turnVars, envVars, registered, broken>>

HookFailed ==        \* a BeforeStart or AfterStart hook, or Register, failed
    /\ \E from \in {"hooks", "register", "after"} : Main(from, "returned")
    /\ UNCHANGED <<srv, spin, listener, subs, turnVars, envVars, registered, broken>>

Ready ==             \* the unbuffered ready channel
    /\ srv = "ready"
    /\ Main("wait", "register")
    /\ srv' = "started"
    /\ UNCHANGED <<spin, listener, subs, turnVars, envVars, registered, broken>>

WaitCancelled ==
    /\ ctxDone
    /\ Main("wait", "returned")
    /\ UNCHANGED <<srv, spin, listener, subs, turnVars, envVars, registered, broken>>

(* Mutant: Start registers without waiting for the server. *)
RegisterEarly ==
    /\ main \in {"wait", "register"}
    /\ main' = "after"
    /\ registered' = TRUE
    /\ UNCHANGED <<srv, spin, listener, subs, turnVars, envVars, broken>>

Register ==
    /\ Main("register", "after")
    /\ registered' = TRUE
    /\ UNCHANGED <<srv, spin, listener, subs, turnVars, envVars, broken>>

RegisterHangs ==     \* Register's goroutine saw the ended context: nobody takes doNow
    /\ ctxDone
    /\ Main("register", "hung")
    /\ UNCHANGED <<srv, spin, listener, subs, turnVars, envVars, registered, broken>>

AfterStart ==        \* the hooks, Finish, back in Run: signal.Notify
    /\ Main("after", "run")
    /\ UNCHANGED <<srv, spin, listener, subs, turnVars, envVars, registered, broken>>

Start == BeforeStart \/ HookFailed \/ Ready \/ WaitCancelled \/ Register \/ RegisterHangs \/ AfterStart

(* hertz Server.Start in its goroutine, with BaseServer.Start *)

StartSub(s) ==       \* a range over the map of subservers: any order
    /\ Alive
    /\ srv = "subs" /\ subs[s] = "init"
    /\ subs' = [subs EXCEPT ![s] = "running"]
    /\ listener' = IF s = Turn THEN "spawned" ELSE listener
    /\ UNCHANGED <<main, srv, spin, turnVars, envVars, registered, broken>>

StartSubFailed(s) ==
    /\ Alive
    /\ srv = "subs" /\ subs[s] = "init" /\ s \in Others
    /\ main' = "panicked" /\ broken' = TRUE
    /\ UNCHANGED <<srv, spin, listener, subs, turnVars, envVars, registered>>

Handlers ==          \* add the handlers, go hertz.Spin
    /\ Alive
    /\ srv = "subs" /\ \A s \in SubServers : subs[s] # "init"
    /\ srv' = "settle" /\ spin' = "spawned"
    /\ UNCHANGED <<main, listener, subs, turnVars, envVars, registered, broken>>

HandlerUnsupported == \* Start returns an error that only gets logged
    /\ Alive
    /\ srv = "subs" /\ \A s \in SubServers : subs[s] # "init"
    /\ srv' = "error"
    /\ UNCHANGED <<main, spin, listener, subs, turnVars, envVars, registered, broken>>

Settled ==           \* three seconds later, whatever became of hertz.Spin
    /\ Alive
    /\ srv = "settle"
    /\ srv' = "ready"
    /\ UNCHANGED <<main, spin, listener, subs, turnVars, envVars, registered, broken>>

Server == (\E s \in SubServers : StartSub(s)) \/ Handlers \/ Settled
ServerFails == (\E s \in SubServers : StartSubFailed(s)) \/ HandlerUnsupported

-----------------------------------------------------------------------------
(* Run and native.Stop *)

(* Mutant: Run waits for the signal only. *)
LeaveOnSignal ==
    /\ "main" \in caught
    /\ Main("run", "stop")
    /\ UNCHANGED <<srv, spin, listener, subs, turnVars, envVars, registered, broken>>

Leave ==             \* a signal or the end of the context; BeforeStop hooks
    /\ "main" \in caught \/ ctxDone
    /\ Main("run", "stop")
    /\ UNCHANGED <<srv, spin, listener, subs, turnVars, envVars, registered, broken>>

StopOther(s) ==
    /\ main = "stop" /\ s \in Others /\ subs[s] = "running"
    /\ subs' = [subs EXCEPT ![s] = "stopped"]
    /\ UNCHANGED <<goVars, turnVars, envVars, registered, broken>>

StopOtherFailed(s) ==
    /\ s \in Others /\ subs[s] = "running"
    /\ Main("stop", "panicked")
    /\ broken' = TRUE
    /\ UNCHANGED <<srv, spin, listener, subs, turnVars, envVars, registered>>

(* Mutant: the TCP listener is forgotten. *)
StopTurnUdp ==
    /\ subs[Turn] = "running"
    /\ Main("stop", "closing")
    /\ work' = [work EXCEPT !["main"] = <<"udp">>]
    /\ UNCHANGED <<srv, spin, listener, subs, open, failed, envVars, registered, broken>>

StopTurn ==
    /\ subs[Turn] = "running"
    /\ Main("stop", "closing")
    /\ work' = [work EXCEPT !["main"] = Conns]
    /\ UNCHANGED <<srv, spin, listener, subs, open, failed, envVars, registered, broken>>

CloseConn(p) ==      \* turn.Server.Close goes on after an error and reports it
    /\ Alive
    /\ work[p] # <<>>
    /\ failed' = [failed EXCEPT ![p] = @ \/ Head(work[p]) \notin open]
    /\ work' = [work EXCEPT ![p] = Tail(@)]
    /\ open' = open \ {Head(work[p])}
    /\ UNCHANGED <<goVars, subs, envVars, registered, broken>>

(* Mutant: the status stays at stopping. *)
TurnStopping ==
    /\ work["main"] = <<>> /\ ~failed["main"]
    /\ Main("closing", "stop")
    /\ subs' = [subs EXCEPT ![Turn] = "stopping"]
    /\ UNCHANGED <<srv, spin, listener, turnVars, envVars, registered, broken>>

TurnStopped ==
    /\ work["main"] = <<>> /\ ~failed["main"]
    /\ Main("closing", "stop")
    /\ subs' = [subs EXCEPT ![Turn] = "stopped"]
    /\ UNCHANGED <<srv, spin, listener, turnVars, envVars, registered, broken>>

TurnFailed ==        \* BaseServer.Stop panics
    /\ work["main"] = <<>> /\ failed["main"]
    /\ Main("closing", "panicked")
    /\ UNCHANGED <<srv, spin, listener, subs, turnVars, envVars, registered, broken>>

EngineClosed ==      \* Engine.Close; then the five seconds, or its error at once
    /\ \A s \in SubServers : subs[s] = "stopped"
    /\ main = "stop" /\ main' \in {"drain", "returned"}
    /\ UNCHANGED <<srv, spin, listener, subs, turnVars, envVars, registered, broken>>

TimedOut ==
    /\ Main("drain", "returned")
    /\ UNCHANGED <<srv, spin, listener, subs, turnVars, envVars, registered, broken>>

Stop ==
    \/ Leave \/ (\E s \in Others : StopOther(s)) \/ StopTurn \/ CloseConn("main")
    \/ TurnStopped \/ TurnFailed \/ EngineClosed \/ TimedOut

-----------------------------------------------------------------------------
(* The signal goroutine of TURN and hertz.Spin *)

Listen ==
    /\ Alive /\ listener = "spawned" /\ listener' = "listening"
    /\ UNCHANGED <<main, srv, spin, subs, turnVars, envVars, registered, broken>>

(* Mutant: the goroutine stops TURN when the context is done, too. *)
ListenerStopsOnCancel ==
    /\ Alive /\ listener = "listening" /\ ("listener" \in caught \/ ctxDone)
    /\ listener' = "done"
    /\ work' = [work EXCEPT !["listener"] = Conns]
    /\ UNCHANGED <<main, srv, spin, subs, open, failed, envVars, registered, broken>>

ListenerStops ==
    /\ Alive /\ listener = "listening" /\ "listener" \in caught
    /\ listener' = "done"
    /\ work' = [work EXCEPT !["listener"] = Conns]
    /\ UNCHANGED <<main, srv, spin, subs, open, failed, envVars, registered, broken>>

Spin ==              \* Spin listens and waits; it ends on a signal
    /\ Alive
    /\ \/ spin = "spawned" /\ spin' = "serving"
       \/ spin = "serving" /\ "spin" \in caught /\ spin' = "closed"
    /\ UNCHANGED <<main, srv, listener, subs, turnVars, envVars, registered, broken>>

SpinFailed ==        \* the address is in use
    /\ Alive /\ spin = "spawned" /\ spin' = "closed"
    /\ UNCHANGED <<main, srv, listener, subs, turnVars, envVars, registered, broken>>

Notified ==
    (IF main \in {"run", "stop", "closing", "drain"} THEN {"main"} ELSE {})
    \cup (IF listener \in {"listening", "done"} THEN {"listener"} ELSE {})
    \cup (IF spin \in {"serving", "closed"} THEN {"spin"} ELSE {})

Signal ==
    /\ Alive /\ signals < MaxSignals
    /\ signals' = signals + 1
    /\ caught' = caught \cup Notified
    /\ main' = IF Notified = {} THEN "killed" ELSE main
    /\ UNCHANGED <<srv, spin, listener, subs, turnVars, ctxDone, registered, broken>>

Cancel ==
    /\ Alive /\ ~ctxDone
    /\ ctxDone' = TRUE
    /\ UNCHANGED <<goVars, subs, turnVars, signals, caught, registered, broken>>

Goroutines == Listen \/ ListenerStops \/ CloseConn("listener") \/ Spin

Next ==
    \/ Start \/ Server \/ ServerFails
    \/ Stop \/ \E s \in Others : StopOtherFailed(s)
    \/ Goroutines \/ SpinFailed
    \/ Signal \/ Cancel

(* Every goroutine that can move does; hooks, timers and connections end.   *)
(* No failure, signal or cancellation has to happen.                        *)
Fairness == WF_vars(Start) /\ WF_vars(Server) /\ WF_vars(Stop) /\ WF_vars(Goroutines)

Spec == Init /\ [][Next]_vars
FairSpec == Spec /\ Fairness

-----------------------------------------------------------------------------
(* The type of the state. *)
TypeOK ==
    /\ main \in {"hooks", "wait", "register", "hung", "after", "run", "stop",
                 "closing", "drain"} \cup Ended
    /\ srv \in {"none", "subs", "settle", "ready", "started", "error"}
    /\ spin \in {"none", "spawned", "serving", "closed"}
    /\ listener \in {"none", "spawned", "listening", "done"}
    /\ subs \in [SubServers -> {"init", "running", "stopped"}]
    /\ open \subseteq {"udp", "tcp"}
    /\ work \in [Closers -> Seq({"udp", "tcp"})]
    /\ failed \in [Closers -> BOOLEAN]
    /\ signals \in 0..MaxSignals /\ caught \subseteq Channels
    /\ {ctxDone, registered, broken} \subseteq BOOLEAN

(* The node shows up in the registry only when Server.Start has gone        *)
(* through: every subserver was started and hertz was set off.              *)
RegisteredIsUp ==
    registered => /\ srv = "started" /\ spin # "none"
                  /\ \A s \in SubServers : subs[s] # "init"

(* However main and the signal goroutine of TURN share the closing, no      *)
(* connection of TURN is open when native.Stop is past the subservers.      *)
TurnReleased == main = "drain" => open = {}

(* A node that was stopped through its context does not panic, unless one   *)
(* of the other subservers reports an error.                                *)
CancelStopsCleanly == main = "panicked" => broken \/ signals > 0

(* The end of the root context ends the node in whatever phase it is, but   *)
(* for a Register that waits for its goroutine.                             *)
CancelEnds == ctxDone ~> (~Alive \/ main = "hung")

(* The signal goroutine of TURN is there for a "graceful shutdown": only a  *)
(* subserver that reports an error of its own makes the shutdown panic.     *)
SignalStopsCleanly == main = "panicked" => broken

(* The node traps TERM, INT and QUIT: a signal ends a node that comes up,   *)
(* also one that is sent while it starts.                                   *)
SignalEndsNode == (signals > 0 /\ registered) ~> ~Alive
=============================================================================
