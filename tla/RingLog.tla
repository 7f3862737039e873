------------------------------ MODULE RingLog ------------------------------
(***************************************************************************)
(* The in-memory debug log: the ring buffer of core/util/ring and the log  *)
(* of core/debug/log/memory on top of it.  Record n is the n-th one put;   *)
(* its number also stands for its timestamp, taken under the lock.         *)
(*                                                                         *)
(* Put holds the buffer's write lock while it offers the entry to every    *)
(* stream and blocks on a full one.  Get, Since and Stream are one step    *)
(* each: they hold the lock for a bounded time.  Slices Get and Since      *)
(* return are values here, because Put only appends and re-slices.         *)
(***************************************************************************)
EXTENDS Naturals, Sequences, FiniteSets

CONSTANTS
    Size,      \* size of the ring (DefaultSize is 1024)
    Writers,   \* goroutines that call Write
    Streams,   \* streams clients may open
    ChanCap,   \* capacity of Entries and of records (128)
    Last,      \* how many records a new stream replays (10)
    MaxPuts,   \* bound: records written
    Sinces,    \* bound: instants clients pass to ReadSince, 0 for none
    Counts,    \* bound: values clients pass to ReadCount, 0 for none
    None

ASSUME RingAssumption ==
    /\ Size \in Nat \ {0} /\ ChanCap \in Nat \ {0} /\ Last \in Nat /\ MaxPuts \in Nat
    /\ Sinces \subseteq Nat /\ Counts \subseteq Nat
    /\ None \notin Writers

VARIABLES
    vals,      \* Buffer.vals
    puts,      \* number of entries put so far
    lock,      \* the Put that holds the write lock, or None
    pending,   \* streams that Put has still to offer its entry to
    streams,   \* Buffer.streams
    entries,   \* Stream.Entries of each stream
    closed,    \* streams whose Entries channel was closed
    stopped,   \* streams whose Stop channel was closed
    opening,   \* progress of memoryLog.Stream: "no", "registered", "open", "ended"
    backlog,   \* what the forwarding goroutine still replays of last10
    hold,      \* the entry the forwarding goroutine took from Entries
    records,   \* the channel of the logStream
    got,       \* records the client has received
    readout    \* result of the last Read, with its arguments

ringVars == <<vals, puts, lock, pending, streams, entries, closed>>
feedVars == <<backlog, hold, records, got>>
vars == <<ringVars, stopped, opening, feedVars, readout>>

Init ==
    /\ vals = <<>> /\ puts = 0 /\ lock = None /\ pending = {} /\ streams = {}
    /\ entries = [s \in Streams |-> <<>>]
    /\ closed = {} /\ stopped = {}
    /\ opening = [s \in Streams |-> "no"]
    /\ backlog = [s \in Streams |-> <<>>]
    /\ hold = [s \in Streams |-> <<>>]
    /\ records = [s \in Streams |-> <<>>]
    /\ got = [s \in Streams |-> <<>>]
    /\ readout = [since |-> 0, count |-> 0, out |-> <<>>]

Min(a, b) == IF a < b THEN a ELSE b
LastOf(q, n) == SubSeq(q, Len(q) - Min(n, Len(q)) + 1, Len(q))

-----------------------------------------------------------------------------
(* Buffer.Put *)

(* Mutant: the ring is trimmed before the append. *)
PutStartTrimsFirst(w) ==
    /\ lock = None
    /\ puts < MaxPuts
    /\ lock' = w
    /\ puts' = puts + 1
    /\ vals' = Append(LastOf(vals, Size), puts + 1)
    /\ pending' = streams
    /\ UNCHANGED <<streams, entries, closed, stopped, opening, feedVars, readout>>

PutStart(w) ==       \* lock, append, trim
    /\ lock = None
    /\ puts < MaxPuts
    /\ lock' = w
    /\ puts' = puts + 1
    /\ vals' = LastOf(Append(vals, puts + 1), Size)
    /\ pending' = streams
    /\ UNCHANGED <<streams, entries, closed, stopped, opening, feedVars, readout>>

(* Mutant: a full channel is skipped (a default case in the select). *)
PutSendSkips(s) ==
    /\ lock # None /\ s \in pending
    /\ entries' = IF Len(entries[s]) < ChanCap
                  THEN [entries EXCEPT ![s] = Append(@, puts)] ELSE entries
    /\ pending' = pending \ {s}
    /\ UNCHANGED <<vals, puts, lock, streams, closed, stopped, opening, feedVars, readout>>

PutSend(s) ==        \* the select sends while there is room
    /\ lock # None /\ s \in pending
    /\ Len(entries[s]) < ChanCap
    /\ entries' = [entries EXCEPT ![s] = Append(@, puts)]
    /\ pending' = pending \ {s}
    /\ UNCHANGED <<vals, puts, lock, streams, closed, stopped, opening, feedVars, readout>>

(* Mutants: the stream stays in the map; the stop is looked at only when    *)
(* the channel has room.                                                    *)
PutDropKeeps(s) ==
    /\ lock # None /\ s \in pending
    /\ s \in stopped
    /\ closed' = closed \cup {s}
    /\ pending' = pending \ {s}
    /\ UNCHANGED <<vals, puts, lock, streams, entries, stopped, opening, feedVars, readout>>

PutDropWithRoom(s) ==
    /\ lock # None /\ s \in pending
    /\ s \in stopped /\ Len(entries[s]) < ChanCap
    /\ streams' = streams \ {s}
    /\ closed' = closed \cup {s}
    /\ pending' = pending \ {s}
    /\ UNCHANGED <<vals, puts, lock, entries, stopped, opening, feedVars, readout>>

PutDrop(s) ==        \* the select sees the stop; either case may win
    /\ lock # None /\ s \in pending
    /\ s \in stopped
    /\ streams' = streams \ {s}
    /\ closed' = closed \cup {s}
    /\ pending' = pending \ {s}
    /\ UNCHANGED <<vals, puts, lock, entries, stopped, opening, feedVars, readout>>

PutEnd ==
    /\ lock # None /\ pending = {}
    /\ lock' = None
    /\ UNCHANGED <<vals, puts, pending, streams, entries, closed, stopped, opening, feedVars, readout>>

Put == PutEnd \/ \E s \in Streams : PutSend(s) \/ PutDrop(s)

-----------------------------------------------------------------------------
(* Buffer.Get, Buffer.Since and memoryLog.Read *)

Get(n) == LastOf(vals, n)
Since(t) == LET newer == {i \in DOMAIN vals : vals[i] > t}   \* they are the last ones
            IN  LastOf(vals, Cardinality(newer))

(* Mutant: a read with a since constraint and no match returns no slice. *)
ReadEntriesNil(since, count) ==
    LET some == IF since # 0 THEN Since(since) ELSE <<>>
    IN  IF some # <<>> THEN some ELSE IF since = 0 THEN Get(count) ELSE None

ReadEntries(since, count) ==
    LET some == IF since # 0 THEN Since(since) ELSE <<>>
    IN  IF count = 0 THEN some
        ELSE IF some # <<>> THEN SubSeq(some, 1, Min(count, Len(some)))
        ELSE Get(count)

Read(since, count) ==
    /\ lock = None
    /\ readout' = [since |-> since, count |-> count, out |-> ReadEntries(since, count)]
    /\ UNCHANGED <<ringVars, stopped, opening, feedVars>>

-----------------------------------------------------------------------------
(* memoryLog.Stream: register, read the backlog, start the forwarder. *)

Register(s) ==
    /\ lock = None
    /\ opening[s] = "no"
    /\ opening' = [opening EXCEPT ![s] = "registered"]
    /\ streams' = streams \cup {s}
    /\ UNCHANGED <<vals, puts, lock, pending, entries, closed, stopped, feedVars, readout>>

Open(s) ==
    /\ lock = None
    /\ opening[s] = "registered"
    /\ opening' = [opening EXCEPT ![s] = "open"]
    /\ backlog' = [backlog EXCEPT ![s] = Get(Last)]
    /\ UNCHANGED <<ringVars, stopped, hold, records, got, readout>>

(* The forwarding goroutine *)

Replay(s) ==
    /\ opening[s] = "open" /\ backlog[s] # <<>>
    /\ Len(records[s]) < ChanCap
    /\ records' = [records EXCEPT ![s] = Append(@, Head(backlog[s]))]
    /\ backlog' = [backlog EXCEPT ![s] = Tail(@)]
    /\ UNCHANGED <<ringVars, stopped, opening, hold, got, readout>>

(* Mutant: entries are forwarded while the backlog is still replayed. *)
TakeEarly(s) ==
    /\ opening[s] = "open" /\ hold[s] = <<>>
    /\ entries[s] # <<>>
    /\ hold' = [hold EXCEPT ![s] = <<Head(entries[s])>>]
    /\ entries' = [entries EXCEPT ![s] = Tail(@)]
    /\ UNCHANGED <<vals, puts, lock, pending, streams, closed, stopped, opening, backlog, records, got, readout>>

Take(s) ==
    /\ opening[s] = "open" /\ backlog[s] = <<>> /\ hold[s] = <<>>
    /\ entries[s] # <<>>
    /\ hold' = [hold EXCEPT ![s] = <<Head(entries[s])>>]
    /\ entries' = [entries EXCEPT ![s] = Tail(@)]
    /\ UNCHANGED <<vals, puts, lock, pending, streams, closed, stopped, opening, backlog, records, got, readout>>

Pass(s) ==
    /\ hold[s] # <<>>
    /\ Len(records[s]) < ChanCap
    /\ records' = [records EXCEPT ![s] = @ \o hold[s]]
    /\ hold' = [hold EXCEPT ![s] = <<>>]
    /\ UNCHANGED <<ringVars, stopped, opening, backlog, got, readout>>

End(s) ==            \* Entries closed and drained; records is left open
    /\ opening[s] = "open" /\ backlog[s] = <<>> /\ hold[s] = <<>>
    /\ entries[s] = <<>> /\ s \in closed
    /\ opening' = [opening EXCEPT ![s] = "ended"]
    /\ UNCHANGED <<ringVars, stopped, feedVars, readout>>

Forwarder(s) == Replay(s) \/ Take(s) \/ Pass(s) \/ End(s)

(* The client: it receives, and calls logStream.Stop when it is done.  Stop *)
(* examines and closes the stop channel in one step: one goroutine owns a   *)
(* logStream.                                                               *)

Receive(s) ==
    /\ s \notin stopped
    /\ records[s] # <<>>
    /\ got' = [got EXCEPT ![s] = Append(@, Head(records[s]))]
    /\ records' = [records EXCEPT ![s] = Tail(@)]
    /\ UNCHANGED <<ringVars, stopped, opening, backlog, hold, readout>>

Stop(s) ==
    /\ opening[s] = "open"
    /\ s \notin stopped
    /\ stopped' = stopped \cup {s}
    /\ UNCHANGED <<ringVars, opening, feedVars, readout>>

Next ==
    \/ \E w \in Writers : PutStart(w)
    \/ Put
    \/ \E t \in Sinces, n \in Counts : Read(t, n)
    \/ \E s \in Streams : \/ Register(s) \/ Open(s) \/ Forwarder(s)
                          \/ Receive(s) \/ Stop(s)

(* The goroutines of the log run; a client that has not stopped its stream  *)
(* keeps receiving ("close it when done", memory.go).  Writers, readers and *)
(* the moment a client opens or stops a stream are free.                    *)
Fairness ==
    /\ WF_vars(Put)
    /\ \A s \in Streams : WF_vars(Open(s)) /\ WF_vars(Forwarder(s)) /\ WF_vars(Receive(s))

Spec == Init /\ [][Next]_vars
FairSpec == Spec /\ Fairness

-----------------------------------------------------------------------------
(* The type of the state.                                                   *)
TypeOK ==
    /\ vals \in Seq(Nat) /\ puts \in Nat
    /\ lock \in Writers \cup {None}
    /\ pending \subseteq Streams /\ streams \subseteq Streams
    /\ closed \subseteq Streams /\ stopped \subseteq Streams
    /\ entries \in [Streams -> Seq(Nat)] /\ records \in [Streams -> Seq(Nat)]
    /\ backlog \in [Streams -> Seq(Nat)] /\ hold \in [Streams -> Seq(Nat)]
    /\ got \in [Streams -> Seq(Nat)]
    /\ opening \in [Streams -> {"no", "registered", "open", "ended"}]
    /\ readout \in [since : Nat, count : Nat, out : Seq(Nat)]

(* The ring holds the newest Size entries, oldest first.                    *)
RingIsTail ==
    /\ Len(vals) = Min(puts, Size)
    /\ \A i \in DOMAIN vals : vals[i] = puts - Len(vals) + i

(* Put offers its entry to streams whose channel is open, and only a        *)
(* registered one is closed: no send on a closed channel, no second close.  *)
RegisteredOpen == (streams \cup pending) \cap closed = {}

(* Everything a stream has delivered or still carries, in the order the     *)
(* client will see it, skips no entry, and while the stream is registered   *)
(* it reaches the newest entry (the one before it while Put has the stream  *)
(* still ahead of it).                                                      *)
Pipe(s) == got[s] \o records[s] \o hold[s] \o backlog[s] \o entries[s]
Newest(s) == IF s \in pending THEN puts - 1 ELSE puts
StreamGapFree ==
    \A s \in Streams : opening[s] = "open" =>
        /\ \A i \in 2..Len(Pipe(s)) : Pipe(s)[i] <= Pipe(s)[i - 1] + 1
        /\ s \in streams => IF Pipe(s) = <<>> THEN Last = 0 \/ Newest(s) = 0
                                              ELSE Pipe(s)[Len(Pipe(s))] = Newest(s)

(* What the client of each stream has received is a behaviour of LogFeed.   *)
Feed == INSTANCE LogFeed WITH Subscribers <- Streams, BacklogLen <- Last,
                              written <- puts, seen <- got
FeedSpec == Feed!Spec

(* A Put that holds the lock lets go of it, as long as clients that do not  *)
(* stop keep receiving: everything that needs the log waits for it.  It     *)
(* holds for a Put whose streams all have their forwarding goroutine.       *)
AllForwarded == \A s \in pending : opening[s] # "registered"
PutReturns == (lock # None /\ AllForwarded) ~> (lock = None)

(* Stream returns ("Stream returns channel for reading log records").       *)
(* Between registering its channel and reading the backlog nothing drains   *)
(* the channel yet, and reading the backlog takes the lock.                 *)
StreamReturns == \A s \in Streams : (opening[s] = "registered") ~> (opening[s] # "registered")
=============================================================================
