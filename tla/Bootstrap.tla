----------------------------- MODULE Bootstrap -----------------------------
(***************************************************************************)
(* The connection table of the bootstrap subserver                         *)
(* (core/plugin/native/subserver/bootstrap/{store,host_notifee}.go).  For  *)
(* every connection that opens or closes libp2p calls the notifee, which   *)
(* runs savePeerInfo: look for the peer, create or update it, delete its   *)
(* connection rows, create a new one.  These are four statements without a *)
(* transaction, and each may fail.                                         *)
(*                                                                         *)
(* libp2p is outside.  It reports the end of a connection after its        *)
(* beginning, one event of a connection at a time; events of different     *)
(* connections run side by side.  The statements name one peer only, so    *)
(* the model has one, with several connections.                            *)
(***************************************************************************)
EXTENDS Naturals, FiniteSets

CONSTANT Links  \* connections of the peer

VARIABLES
    link,      \* of a connection: new, up or down
    savePc,    \* its event in savePeerInfo; rest when it has none
    saveUp,    \* that event reports an opened connection (isActive)
    known,     \* what its query for the peer answered
    ended,     \* the event of its closing has been dealt with ...
    saveFailed,\* ... and a statement of it failed
    peerRows,  \* rows of bootstrap_peer_info; peer_id has a unique index
    connRows,  \* rows of bootstrap_connection_info
    met        \* history: rows whose events stood together before Create

bootVars == <<link, savePc, saveUp, known, ended, saveFailed, peerRows, connRows, met>>

Row(k, up) == [conn |-> k, active |-> up]

BootInit ==
    /\ link = [k \in Links |-> "new"]
    /\ savePc = [k \in Links |-> "rest"]
    /\ saveUp = [k \in Links |-> FALSE]
    /\ known = [k \in Links |-> FALSE]
    /\ ended = [k \in Links |-> FALSE]
    /\ saveFailed = [k \in Links |-> FALSE]
    /\ peerRows = 0
    /\ connRows = {}
    /\ met = {}

-----------------------------------------------------------------------------
(* libp2p: Connected and Disconnected. *)
Connected(k) ==
    /\ link[k] = "new"
    /\ link' = [link EXCEPT ![k] = "up"]
    /\ savePc' = [savePc EXCEPT ![k] = "find"]
    /\ saveUp' = [saveUp EXCEPT ![k] = TRUE]
    /\ UNCHANGED <<known, ended, saveFailed, peerRows, connRows, met>>

LinkBreaks(k) ==
    /\ link[k] = "up"
    /\ link' = [link EXCEPT ![k] = "down"]
    /\ UNCHANGED <<savePc, saveUp, known, ended, saveFailed, peerRows, connRows, met>>

Disconnected(k) ==
    /\ link[k] = "down"
    /\ savePc[k] = "rest"
    /\ ~ended[k]
    /\ saveUp[k]
    /\ savePc' = [savePc EXCEPT ![k] = "find"]
    /\ saveUp' = [saveUp EXCEPT ![k] = FALSE]
    /\ UNCHANGED <<link, known, ended, saveFailed, peerRows, connRows, met>>

-----------------------------------------------------------------------------
(* savePeerInfo returns, with an error or without. *)
Return(k, err) ==
    /\ savePc' = [savePc EXCEPT ![k] = "rest"]
    /\ ended' = [ended EXCEPT ![k] = ~saveUp[k]]
    /\ saveFailed' = [saveFailed EXCEPT ![k] = err]
    /\ known' = [known EXCEPT ![k] = FALSE]

Goto(k, step) ==
    /\ savePc' = [savePc EXCEPT ![k] = step]
    /\ UNCHANGED <<ended, saveFailed>>

Fails(k) ==
    /\ savePc[k] # "rest"
    /\ Return(k, TRUE)
    /\ UNCHANGED <<link, saveUp, peerRows, connRows, met>>

FindPeer(k) ==
    /\ savePc[k] = "find"
    /\ known' = [known EXCEPT ![k] = peerRows = 1]
    /\ Goto(k, "upsert")
    /\ UNCHANGED <<link, saveUp, peerRows, connRows, met>>

(* The unique index refuses a second row: the loser returns before it has  *)
(* touched the connections.                                                *)
SavePeer(k) ==
    /\ savePc[k] = "upsert"
    /\ known[k] \/ peerRows = 0
    /\ peerRows' = 1
    /\ Goto(k, "delete")
    /\ UNCHANGED <<link, saveUp, known, connRows, met>>

PeerExists(k) ==
    /\ savePc[k] = "upsert"
    /\ ~known[k] /\ peerRows = 1
    /\ Return(k, TRUE)
    /\ UNCHANGED <<link, saveUp, peerRows, connRows, met>>

(* Of the history: the rows that other events are about to create. *)
Coming(k) == {Row(j, saveUp[j]) : j \in {j \in Links \ {k} : savePc[j] = "create"}}
Meets(k) == met' = met \cup {{Row(k, saveUp[k]), r} : r \in Coming(k)}

(* As a mutant: only the rows of the reported state are removed. *)
DeleteSame(k) ==
    /\ savePc[k] = "delete"
    /\ connRows' = {r \in connRows : r.active # saveUp[k]}
    /\ Meets(k)
    /\ Goto(k, "create")
    /\ UNCHANGED <<link, saveUp, known, peerRows>>

DeleteRows(k) ==
    /\ savePc[k] = "delete"
    /\ connRows' = {}
    /\ Meets(k)
    /\ Goto(k, "create")
    /\ UNCHANGED <<link, saveUp, known, peerRows>>

CreateRow(k) ==
    /\ savePc[k] = "create"
    /\ connRows' = connRows \cup {Row(k, saveUp[k])}
    /\ Return(k, FALSE)
    /\ UNCHANGED <<link, saveUp, peerRows, met>>

BootNext ==
    \E k \in Links :
        \/ Connected(k) \/ LinkBreaks(k) \/ Disconnected(k)
        \/ Fails(k) \/ FindPeer(k) \/ SavePeer(k) \/ PeerExists(k)
        \/ DeleteRows(k) \/ CreateRow(k)

BootSpec == BootInit /\ [][BootNext]_bootVars

-----------------------------------------------------------------------------
(* The type of the state. *)
BootTypeOK ==
    /\ link \in [Links -> {"new", "up", "down"}]
    /\ savePc \in [Links -> {"rest", "find", "upsert", "delete", "create"}]
    /\ saveUp \in [Links -> BOOLEAN]
    /\ known \in [Links -> BOOLEAN]
    /\ ended \in [Links -> BOOLEAN]
    /\ saveFailed \in [Links -> BOOLEAN]
    /\ peerRows \in {0, 1}
    /\ connRows \subseteq [conn : Links, active : BOOLEAN]
    /\ met \subseteq SUBSET [conn : Links, active : BOOLEAN]

(* A connection has one row at most, whatever events overlap and whatever  *)
(* statement fails: the row of its opening never stays beside the row of   *)
(* its closing.                                                            *)
OneRowPerConnection ==
    \A r, s \in connRows : r.conn = s.conn => r = s

(* A connection that is down and was reported is not listed as active,     *)
(* unless the event of its own closing failed: no other connection's       *)
(* events can bring the active row back.                                   *)
NoGhostConnection ==
    \A k \in Links :
        ended[k] /\ Row(k, TRUE) \in connRows => saveFailed[k]

(* Two rows stand side by side only if their two events stood at one time   *)
(* between the deletion and the creation: an event whose deletion follows   *)
(* the other's creation leaves its own row alone.                           *)
TwoRowsMet == \A r, s \in connRows : r # s => {r, s} \in met

(* What overlapping events and failing statements leave in the table        *)
(* (store.go:54-69).  The "peerId + direction uniqueness" of store.go:26    *)
(* does not hold: events that all delete before one of them creates leave a *)
(* row each, of one direction perhaps.  What holds is that nothing else     *)
(* leaves a second row, that no two rows are of one connection, and that    *)
(* the row of a connection whose end was saved is not an active one.        *)
RowsOfEvents == TwoRowsMet /\ OneRowPerConnection /\ NoGhostConnection
=============================================================================
