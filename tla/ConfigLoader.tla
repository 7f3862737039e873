---------------------------- MODULE ConfigLoader ----------------------------
(***************************************************************************)
(* Configuration files and the in-memory view of them (core/pkg/config):   *)
(* the loader with one watch goroutine per source, the config with the     *)
(* goroutine run that follows the loader, one call of Load and any calls   *)
(* of Sync and Close.  Options: Watch on, Storage off.  A loader is        *)
(* reached through a config, whose constructor has loaded it empty, so     *)
(* loaded() is true and Get and Snapshot never call Sync.                  *)
(*                                                                         *)
(* A file's content is a number that grows with every write; it is odd     *)
(* while a write is half done, and such content does not decode (a half    *)
(* that does is a content like any other).  Zero is no content: a source   *)
(* that is not in a set yet, or the nil set read from a watcher that was   *)
(* closed.  Files exist throughout.  Merging sets keeps what each source   *)
(* says and skips nil: a merged value is a function of the sources.        *)
(***************************************************************************)
EXTENDS Naturals, Sequences

CONSTANTS
    Sources,     \* file sources passed to Load
    MaxContent,  \* bound: contents of a file
    MaxSyncs     \* bound: calls of Sync

ASSUME ConfigAssumption == MaxContent \in Nat /\ MaxContent >= 2 /\ MaxSyncs \in Nat

VARIABLES
    content,   \* what each file holds
    watching,  \* the fsnotify watch of the source is in place
    events,    \* events in its queue
    unseen,    \* history: the file changed and no event says so
    watcher,   \* program counter of each watch goroutine
    hand,      \* change set a watch goroutine has read and not stored
    sets,      \* loader.sets
    values,    \* loader.values, and the change set of loader.snap
    lock,      \* Sync holds the loader's mutex while it reads the files
    loading,   \* program counter of Load
    fresh,     \* change set or snapshot Load holds
    syncing,   \* program counter of Sync
    syncs,     \* calls of Sync
    got,       \* sets or snapshot Sync holds
    unread,    \* sources Sync has still to read
    run,       \* program counter of config.run
    known,     \* value of run's loader watcher
    updates,   \* its channel of one place
    next,      \* snapshot ConfigNext returned to run
    view,      \* config.values: what config.Get reads
    exit       \* config.exit and loader.exit are closed

fileVars == <<content, watching, events, unseen>>
watchVars == <<watcher, hand>>
loadVars == <<loading, fresh>>
syncVars == <<lock, syncing, syncs, got, unread>>
runVars == <<run, known, next>>
configVars ==
    <<fileVars, watchVars, sets, values, loadVars, syncVars, runVars, updates, view, exit>>

Empty == [s \in Sources |-> 0]
Whole(n) == n % 2 = 0
Decodes(m) == \A s \in Sources : Whole(m[s])

ConfigInit ==
    /\ content = [s \in Sources |-> 2]
    /\ watching = [s \in Sources |-> FALSE]
    /\ events = [s \in Sources |-> 0]
    /\ unseen = [s \in Sources |-> FALSE]
    /\ watcher = [s \in Sources |-> "none"]
    /\ hand = Empty /\ sets = Empty /\ values = Empty
    /\ loading = "load" /\ fresh = Empty
    /\ lock = FALSE /\ syncing = "idle" /\ syncs = 0 /\ got = Empty /\ unread = {}
    /\ run = "get" /\ known = Empty /\ next = Empty
    /\ updates = <<>> /\ view = Empty /\ exit = FALSE

-----------------------------------------------------------------------------
(* Writers of the files *)

Write(s) ==          \* all at once, the first half, or the second half
    /\ content' \in {[content EXCEPT ![s] = @ + k] : k \in {1, 2}}
    /\ content[s] % 2 = 1 => Whole(content'[s])
    /\ content'[s] <= MaxContent
    /\ events' = IF watching[s] THEN [events EXCEPT ![s] = @ + 1] ELSE events
    /\ unseen' = [unseen EXCEPT ![s] = @ \/ ~watching[s]]
    /\ UNCHANGED <<watching, watchVars, sets, values, loadVars, syncVars, runVars, updates, view, exit>>

-----------------------------------------------------------------------------
(* What loader.update does: offer the current value to run's watcher, which *)
(* exists from the moment run waits on it; a full channel drops it.         *)
Offer ==
    updates' = IF run \in {"next", "set"} /\ updates = <<>> THEN <<values>> ELSE updates

(* loader.watch *)

Watch(s) ==          \* s.Watch()
    /\ watcher[s] = "watch"
    /\ watcher' = [watcher EXCEPT ![s] = "next"]
    /\ watching' = [watching EXCEPT ![s] = TRUE]
    /\ UNCHANGED <<content, events, unseen, hand, sets, values, loadVars, syncVars, runVars, updates, view, exit>>

NextSet(s) ==          \* an event, then the file is read
    /\ watcher[s] = "next" /\ events[s] > 0
    /\ watcher' = [watcher EXCEPT ![s] = "set"]
    /\ events' = [events EXCEPT ![s] = @ - 1]
    /\ hand' = [hand EXCEPT ![s] = content[s]]
    /\ unseen' = [unseen EXCEPT ![s] = FALSE]
    /\ UNCHANGED <<content, watching, sets, values, loadVars, syncVars, runVars, updates, view, exit>>

Unwatch(s) ==        \* the fsnotify watcher is closed with what it has queued
    /\ watching' = [watching EXCEPT ![s] = FALSE]
    /\ events' = [events EXCEPT ![s] = 0]
    /\ unseen' = [unseen EXCEPT ![s] = @ \/ events[s] > 0]

StopWatcher(s) ==    \* the stop func: fsnotify closes Events and Errors
    /\ exit /\ watching[s]
    /\ Unwatch(s)
    /\ UNCHANGED <<content, watchVars, sets, values, loadVars, syncVars, runVars, updates, view, exit>>

NextNil(s) ==        \* the closed Errors is received from: no set and no error
    /\ watcher[s] = "next" /\ ~watching[s]
    /\ watcher' = [watcher EXCEPT ![s] = "set"]
    /\ hand' = [hand EXCEPT ![s] = 0]
    /\ UNCHANGED <<fileVars, sets, values, loadVars, syncVars, runVars, updates, view, exit>>

NextClosed(s) ==     \* the closed Events is: fw.Add fails, and watch returns
    /\ watcher[s] = "next" /\ ~watching[s]
    /\ watcher' = [watcher EXCEPT ![s] = "done"]
    /\ UNCHANGED <<fileVars, hand, sets, values, loadVars, syncVars, runVars, updates, view, exit>>

Store(s) ==          \* m.sets[idx] = cs
    /\ watcher[s] = "set" /\ ~lock
    /\ watcher' = [watcher EXCEPT ![s] = "reload"]
    /\ sets' = [sets EXCEPT ![s] = hand[s]]
    /\ hand' = [hand EXCEPT ![s] = 0]
    /\ UNCHANGED <<fileVars, values, loadVars, syncVars, runVars, updates, view, exit>>

(* Mutant: only what the source itself says is replaced in the values. *)
ReloadOwn(s) ==
    /\ watcher[s] = "reload" /\ ~lock
    /\ Decodes(sets)
    /\ watcher' = [watcher EXCEPT ![s] = "update"]
    /\ values' = [values EXCEPT ![s] = sets[s]]
    /\ UNCHANGED <<fileVars, hand, sets, loadVars, syncVars, runVars, updates, view, exit>>

(* Mutant: the error of the merge is ignored, like that of Values. *)
ReloadAnyway(s) ==
    /\ watcher[s] = "reload" /\ ~lock
    /\ watcher' = [watcher EXCEPT ![s] = "update"]
    /\ values' = sets
    /\ UNCHANGED <<fileVars, hand, sets, loadVars, syncVars, runVars, updates, view, exit>>

Reload(s) ==
    /\ watcher[s] = "reload" /\ ~lock
    /\ Decodes(sets)
    /\ watcher' = [watcher EXCEPT ![s] = "update"]
    /\ values' = sets
    /\ UNCHANGED <<fileVars, hand, sets, loadVars, syncVars, runVars, updates, view, exit>>

ReloadFailed(s) ==   \* a set does not decode: after a second watch anew, or return
    /\ watcher[s] = "reload" /\ ~lock
    /\ ~Decodes(sets)
    /\ watcher' = [watcher EXCEPT ![s] = IF exit THEN "done" ELSE "watch"]
    /\ Unwatch(s)
    /\ UNCHANGED <<content, hand, sets, values, loadVars, syncVars, runVars, updates, view, exit>>

Update(s) ==
    /\ watcher[s] = "update" /\ ~lock
    /\ watcher' = [watcher EXCEPT ![s] = "next"]
    /\ Offer
    /\ UNCHANGED <<fileVars, hand, sets, values, loadVars, syncVars, runVars, view, exit>>

Watcher(s) ==
    \/ Watch(s) \/ NextSet(s) \/ Store(s) \/ Reload(s) \/ ReloadFailed(s) \/ Update(s)

Stopped(s) == StopWatcher(s) \/ NextNil(s) \/ NextClosed(s)

-----------------------------------------------------------------------------
(* config.Load with loader.Load *)

LoadRead(s) ==
    /\ loading = "load" /\ watcher[s] = "none"
    /\ loading' = "append"
    /\ fresh' = [fresh EXCEPT ![s] = content[s]]
    /\ unseen' = [unseen EXCEPT ![s] = FALSE]
    /\ UNCHANGED <<content, watching, events, watchVars, sets, values, syncVars, runVars, updates, view, exit>>

LoadAppend(s) ==     \* append to m.sets, go m.watch
    /\ loading = "append" /\ fresh[s] # 0 /\ sets[s] = 0
    /\ loading' = "load"
    /\ sets' = [sets EXCEPT ![s] = fresh[s]]
    /\ fresh' = [fresh EXCEPT ![s] = 0]
    /\ watcher' = [watcher EXCEPT ![s] = "watch"]
    /\ UNCHANGED <<fileVars, hand, values, syncVars, runVars, updates, view, exit>>

AllRead == \A s \in Sources : sets[s] # 0

LoadReload ==
    /\ loading = "load" /\ AllRead
    /\ Decodes(sets)
    /\ loading' = "update"
    /\ values' = sets
    /\ UNCHANGED <<fileVars, watchVars, sets, fresh, syncVars, runVars, updates, view, exit>>

LoadFailed ==        \* the error is returned, the goroutines stay
    /\ loading = "load" /\ AllRead
    /\ ~Decodes(sets)
    /\ loading' = "failed"
    /\ UNCHANGED <<fileVars, watchVars, sets, values, fresh, syncVars, runVars, updates, view, exit>>

LoadUpdate ==
    /\ loading = "update"
    /\ loading' = "snapshot"
    /\ Offer
    /\ UNCHANGED <<fileVars, watchVars, sets, values, fresh, syncVars, runVars, view, exit>>

LoadSnapshot ==
    /\ loading = "snapshot"
    /\ loading' = "view"
    /\ fresh' = values
    /\ UNCHANGED <<fileVars, watchVars, sets, values, syncVars, runVars, updates, view, exit>>

LoadView ==
    /\ loading = "view"
    /\ loading' = "done"
    /\ view' = fresh /\ fresh' = Empty
    /\ UNCHANGED <<fileVars, watchVars, sets, values, syncVars, runVars, updates, exit>>

Load ==
    \/ \E s \in Sources : LoadRead(s) \/ LoadAppend(s)
    \/ LoadReload \/ LoadFailed \/ LoadUpdate \/ LoadSnapshot \/ LoadView

-----------------------------------------------------------------------------
(* config.Sync with loader.Sync; it replaces the values and not m.sets. *)

SyncLock ==
    /\ loading = "done" /\ syncing = "idle" /\ syncs < MaxSyncs
    /\ syncing' = "read" /\ lock' = TRUE /\ syncs' = syncs + 1
    /\ unread' = Sources
    /\ UNCHANGED <<fileVars, watchVars, sets, values, loadVars, got, runVars, updates, view, exit>>

SyncRead(s) ==
    /\ syncing = "read" /\ s \in unread
    /\ unread' = unread \ {s}
    /\ got' = [got EXCEPT ![s] = content[s]]
    /\ UNCHANGED <<fileVars, watchVars, sets, values, loadVars, lock, syncing, syncs, runVars, updates, view, exit>>

(* Mutant: Sync also replaces m.sets by what it read. *)
SyncValuesAndSets ==
    /\ syncing = "read" /\ unread = {} /\ Decodes(got)
    /\ syncing' = "update" /\ lock' = FALSE
    /\ values' = got /\ sets' = got /\ got' = Empty
    /\ UNCHANGED <<fileVars, watchVars, loadVars, syncs, unread, runVars, updates, view, exit>>

SyncValues ==
    /\ syncing = "read" /\ unread = {} /\ Decodes(got)
    /\ syncing' = "update" /\ lock' = FALSE
    /\ values' = got /\ got' = Empty
    /\ UNCHANGED <<fileVars, watchVars, sets, loadVars, syncs, unread, runVars, updates, view, exit>>

SyncFailed ==
    /\ syncing = "read" /\ unread = {} /\ ~Decodes(got)
    /\ syncing' = "idle" /\ lock' = FALSE /\ got' = Empty
    /\ UNCHANGED <<fileVars, watchVars, sets, values, loadVars, syncs, unread, runVars, updates, view, exit>>

SyncUpdate ==
    /\ syncing = "update"
    /\ syncing' = "snapshot"
    /\ Offer
    /\ UNCHANGED <<fileVars, watchVars, sets, values, loadVars, lock, syncs, got, unread, runVars, view, exit>>

SyncSnapshot ==
    /\ syncing = "snapshot"
    /\ syncing' = "view"
    /\ got' = values
    /\ UNCHANGED <<fileVars, watchVars, sets, values, loadVars, lock, syncs, unread, runVars, updates, view, exit>>

SyncView ==
    /\ syncing = "view"
    /\ syncing' = "idle"
    /\ view' = got /\ got' = Empty
    /\ UNCHANGED <<fileVars, watchVars, sets, values, loadVars, lock, syncs, unread, runVars, updates, exit>>

Sync ==
    \/ \E s \in Sources : SyncRead(s)
    \/ SyncValues \/ SyncFailed \/ SyncUpdate \/ SyncSnapshot \/ SyncView

-----------------------------------------------------------------------------
(* config.run with loader.Watch and the loader watcher's ConfigNext *)

RunGet ==            \* loader.Watch: the value, then the entry in m.watchers
    /\ run = "get" /\ ~lock
    /\ run' = "push"
    /\ known' = values
    /\ UNCHANGED <<fileVars, watchVars, sets, values, loadVars, syncVars, next, updates, view, exit>>

RunPush ==
    /\ run = "push" /\ ~lock
    /\ run' = "next"
    /\ UNCHANGED <<fileVars, watchVars, sets, values, loadVars, syncVars, known, next, updates, view, exit>>

RunNext ==           \* an update equal to the last one is skipped
    /\ run = "next" /\ updates # <<>>
    /\ updates' = <<>>
    /\ IF Head(updates) = known
       THEN UNCHANGED <<run, known, next>>
       ELSE run' = "set" /\ known' = Head(updates) /\ next' = Head(updates)
    /\ UNCHANGED <<fileVars, watchVars, sets, values, loadVars, syncVars, view, exit>>

RunSet ==
    /\ run = "set"
    /\ run' = "next"
    /\ view' = next
    /\ UNCHANGED <<fileVars, watchVars, sets, values, loadVars, syncVars, known, next, updates, exit>>

RunStopped ==
    /\ run = "next" /\ exit
    /\ run' = "done"
    /\ UNCHANGED <<fileVars, watchVars, sets, values, loadVars, syncVars, known, next, updates, view, exit>>

Run == RunGet \/ RunPush \/ RunNext \/ RunSet

CloseConfig ==
    /\ loading \in {"done", "failed"} /\ ~exit
    /\ exit' = TRUE
    /\ UNCHANGED <<fileVars, watchVars, sets, values, loadVars, syncVars, runVars, updates, view>>

ConfigNext ==
    \/ \E s \in Sources : Write(s) \/ Watcher(s) \/ Stopped(s)
    \/ Load \/ SyncLock \/ Sync \/ Run \/ RunStopped \/ CloseConfig

ConfigSpec == ConfigInit /\ [][ConfigNext]_configVars

-----------------------------------------------------------------------------
Contents == [Sources -> 0..MaxContent]

(* The type of the state. *)
ConfigTypeOK ==
    /\ content \in Contents /\ hand \in Contents /\ sets \in Contents
    /\ fresh \in Contents /\ got \in Contents
    /\ {values, known, next, view} \subseteq {m \in Contents : Decodes(m)}
    /\ watching \in [Sources -> BOOLEAN] /\ unseen \in [Sources -> BOOLEAN]
    /\ events \in [Sources -> Nat]
    /\ watcher \in [Sources -> {"none", "watch", "next", "set", "reload", "update", "done"}]
    /\ loading \in {"load", "append", "update", "snapshot", "view", "done", "failed"}
    /\ syncing \in {"idle", "read", "update", "snapshot", "view"}
    /\ run \in {"get", "push", "next", "set", "done"}
    /\ lock \in BOOLEAN /\ exit \in BOOLEAN
    /\ syncs \in 0..MaxSyncs /\ unread \subseteq Sources
    /\ updates \in Seq(Contents) /\ Len(updates) <= 1

(* At rest: every watch goroutine waits for an event and none is due, no    *)
(* call is in progress and no change of a file went unnoticed.              *)
Rest ==
    /\ loading \in {"done", "failed"} /\ syncing = "idle" /\ ~exit
    /\ \A s \in Sources : watcher[s] = "next" /\ events[s] = 0 /\ ~unseen[s]

(* Whatever order goroutines store their sets and reload in, whichever      *)
(* reloads failed on a half-written file and wherever a Sync came between:  *)
(* at rest the loader holds what the files say.                             *)
LoaderCurrent == Rest /\ Decodes(content) => values = content

(* The set of a source never goes back to an older content of the file: it  *)
(* moves forward, or, only once the config is closed, it is emptied by the  *)
(* nil set of a closed watcher (loader.go:257).                             *)
SetsForward == [][\A s \in Sources : sets'[s] >= sets[s] \/ (exit /\ sets'[s] = 0)]_configVars

(* The view that run keeps follows the files ("just keep reading the        *)
(* config"): at rest, with nothing left for run to do, a view that run has  *)
(* set is the loader's current value.                                       *)
RunIdle == run = "next" /\ updates = <<>>
ViewFollows == Rest /\ RunIdle /\ next # Empty /\ view = next => view = values
=============================================================================
