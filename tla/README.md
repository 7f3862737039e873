# Verification of the Peers-Touch station

TLA+ models of the concurrent and failing parts of `src/station` (Go), the TLC
runs that check them on small instances, and TLAPS proofs about them. Paths
below are relative to `src/station/frame` unless they start with `src/`.

- [Inventory](#inventory): the system's parts and what makes each correct
- [Modules](#modules): what is modelled, how state and actions match the code
- [Runs](#runs): bounds, fairness, what each run shows
- [Findings](#findings): where the code does not do what it says
- [Proofs](#proofs): what holds for every value of the constants
- [Limits](#limits): what is only model-checked, what is left out
- [Not modelled](#not-modelled): which parts, and why
- [Plan](#plan): what would come next

To check a model: `tlc -config X.cfg MCModule.tla`; to check the proofs:
`tlapm XProofs.tla`.

## Inventory

The station is a node: a web server (hertz) with subservers, a registry on a
libp2p host, handlers for the Touch, ActivityPub and messaging interfaces, a
SQL store behind gorm, a configuration that follows its files, a debug log in
memory and a rolling log file. Concurrency is Go's: goroutines, channels,
mutexes, contexts. The SQL store and the log files survive a restart, nothing
else does. No handler uses a transaction.

| Part | State | Operations | Interacts by | Hard behaviour | Correct when |
|---|---|---|---|---|---|
| Touch sessions `touch/peer/{peer_msg,session,stream,types}.go` | registry of sessions under one mutex; per session two channels and four goroutines | `TouchHiTo`; read and write loop, message processor, session manager, `Close` | channels, `closeChan`, the context, `sync.Map` | two handlers for one peer; three goroutines closing one stream; dial under the mutex; idle sessions | one stream per peer, none lost, closed once, messages in order, callers answered |
| Debug log `core/util/ring`, `core/debug/log/memory` | ring of entries, channel per stream | `Put`, `Get`, `Since`, `Stream`; `Write`, `Read`, `Stream`, `Stop` | one RWMutex, channels | `Put` blocks on a slow stream with the lock held; a stream is registered before it is drained | ring is the tail of the log; a stream misses nothing; nobody waits for ever |
| Rolling log file `core/plugin/logger/logrus/lumberjack.v2` | the file, its backups and their compressed copies; one wake-up channel | `Write`, `Rotate`, `Close`; the mill removes and compresses | one mutex for the file, none for the mill | mill beside rotation; a crash or an error between renaming, copying and removing | no record is lost unless the limits ask for it; the directory stays within them |
| mDNS service `core/plugin/native/internal/mdns` | running flag, context, ticker, server, TXT records | `Start`, `Stop`, `AdvertiseNode`; discovery and query goroutines | RWMutex, WaitGroup, callback | `Stop` waits with the lock held; check, stop and start in three holds of the lock; an unlocked write | nothing outlives `Stop`; newest records advertised; calls return |
| Node lifecycle `core/plugin/native/node`, `core/server/server_base.go`, `core/plugin/server/hertz`, `.../subserver/turn` | phases of main, server and subservers; signal channels | `Run`, `Start`, `Stop`; start and stop of subservers | ready channel, contexts, signals | three signal handlers; panics in `BaseServer.Stop`; register after ready | registered nodes are up; a stop releases everything |
| Native registry `core/plugin/native/registry` | record in the DHT, row in SQL, refresh goroutines | `Register`, `Deregister`, `Query`, refresh loops | `r.mu`, `doNow`, DHT, context | a refresh goroutine nobody stops; select, then insert; failing puts | one row per peer; what is registered stays published; calls return; the context ends all |
| Bootstrap subserver `.../subserver/bootstrap` | tables of peers and connections | `Start`, `Stop`, connection events | libp2p notifiee, SQL | four statements per event, events side by side, each may fail | a second row only where events interleaved; no closed connection listed as active |
| Configuration `core/pkg/config`, `core/pkg/config/loader`, `.../source/file` | sets, merged values, watchers, the view | `Load`, `Sync`, `Watch`, `Close`; a watch goroutine per file, `run` | the loader's mutex, channels of one place, inotify | store and reload in two holds of the lock; half-written files; dropped updates; watchers closed under their goroutines | at rest the view is what the files say; Close ends the following |
| Auth sessions `touch/auth/session.go` | map of sessions with expiry | create, validate, delete, clean-up | RWMutex, the clock | lazy expiry releases the lock between look and delete | `ValidateSession` answers truly |
| HTTP node registry `core/registry/node_registry.go`, `touch/peer/registry.go` | map of node objects | register, update, unregister, heartbeat | handlers that share pointers | an update waits for its body between read and write | the registry shows the newest registration and every heartbeat |
| Messages `touch/message_handler.go`, `touch/message` | table of messages with times | append, list after a time | SQL, the clock | the time is read before the insert; ties at the end of a page | a reader misses only what came late or tied |
| Accounts and addresses `touch/actor`, `touch/peer/peer.go` | tables of actors, profiles, addresses | sign-up, set address | SQL | look, then insert; the second insert fails | no two of one kind unless the calls overlapped |
| ActivityPub collections `touch/model/actor` | following, followers, liked, inbox, outbox | add, remove, page, listeners | one mutex each, listeners | a listener's error ends the loop; pages by offset while others add | listeners keep up; a walk misses nothing |
| ai-box providers `src/station/app/subserver/ai-box/service` | table of providers | create, update, delete | SQL | an update saves all columns of an old copy | what was answered is in the row |
| Client and transport, identifier generator, federation and WebFinger, application shells, Dart clients, command line | | | | | see [Not modelled](#not-modelled) |

The parts meet in few places: `Run` starts the server, which starts the
subservers; once the server is ready the node registers; the registry and the
bootstrap subserver drive mDNS; the handlers meet in the SQL store, by tables
that only one of them writes; all of them log. Each model therefore takes its
neighbours as an environment with every behaviour their code allows.

## Modules

**How they are put together.** Components that share no variable are checked in
one run: `MCSafety`, `MCTouch`, `MCNative` and `MCLogs` extend several of them
and add a variable `part` that says which one moves in a behaviour, while the
others keep their initial state. The states are the sum of the parts', not
their product, and every invariant is checked in its part. Variables and
definitions carry a prefix where two modules would share a name.

One module per part; one action per stretch of code between two points where
another goroutine can see a difference. A lock held across several such points
is a variable; a section with a lock held throughout is one action. Program
counters name the point a goroutine has reached. Comments that say
"mutant" or "bug" mark variants of an action with a plausible bug; no specification uses
them, and each makes the property named in `PROJECT.json` fail.

**PeerSession** (`MCSafety`, `MCTouch`, `MCPeerSession`, `PeerSessionProofs`). `sessMux` and `sessions`
are the package's variables; `pc` follows each handler through `TouchHiTo`
(lock, look up, dial, store, unlock); `go[s]` follows the reader, writer,
processor and manager of session `s`; `inbox`, `pHand`, `outbox`, `wHand` and
`wire` are where a message can be. Keys of the registry are addresses, because
the local peer id is the same in all of them, and identifiers, because
`sessionManager` deletes by identifier. The dial may fail, reads and writes may
fail at any time; the end of the request context and a minute of idleness come
at any time. `session.lastActive` is read and written without a lock; either
order of `Forward` and the manager's tick is in the model, so the race adds no
outcome. Nobody sends on `session.messageChan` in this repository; `Send` stands
for the sender it is made for.

**RingLog** (`MCLogs`, `MCRingLog`, `RingLogProofs`), with the abstract **LogFeed**. Record *n* is the
*n*-th one put, its number also its timestamp. `PutStart`, then `PutSend` or
`PutDrop` for each registered stream in any order (Go's map range), then
`PutEnd`: the write lock is held across them. `Get`, `Since` and `Stream` are
single actions that need the lock free. `memoryLog.Stream` is `Register`, then
`Open`, whose `Get` waits for the lock, then the forwarding goroutine.
LogFeed says what a subscriber is promised: written records only, each the
successor of the one before, except that once, after a backlog of at most
`Last`, it may be taken back. The channel fills from the registration on and
the backlog is read later, so its first record may be older even than the first
of the backlog: the channel (128) is longer than the backlog (10). RingLog
implements LogFeed with `written <- puts` and `seen <- got`.

**LogFile** (`MCLogs`, `LogFileProofs`). Record *n* is the *n*-th write that
succeeded and fills one unit of `MaxSize`. A stamp is the time in the name of a
backup, and so its name. Write is `AppendRecord` when the file is open and has
room; otherwise `RotateFull`, or `Wake` and what `openExistingOrNew` finds, up to
`CreateNew`, in the order of the file operations, each of which may fail.
`moving` says what `openNew` has still to do. The mill (`MillTake`, `Remove`,
`Compress`, `Copy`, `DropSource`) works without the mutex on a list it made
before, and an error removes the copy and leaves the source. `Crash` forgets
everything but the files, at any point. `made` records what was rotated out
under each stamp, `twice` the stamps that were used twice: then one backup
overwrites the other, which the properties except.

**Mdns** (`MCMdns`, `MdnsProofs`). Clients go through `Start`, `Stop` and `AdvertiseNode`
(write the TXT records, look at `running`, stop, start, in separate holds of
`mu`). Every start has a discovery goroutine `loop[g]` and, per round, a query
goroutine; an interrupted round leaves its query behind (`stale`). The
WaitGroup is the set of these goroutines (`Busy`). The write of `options.TXT`
outside the lock is a data race: a concurrent reader or writer may get the value
`Torn`.

**NodeLifecycle** (`MCNative`, `MCNodeLifecycle`, `NodeLifecycleProofs`). `main` follows `Run`, `Start` and
`native.Stop`; `srv` is the goroutine of `Server.Start`; `spin` that of
`hertz.Spin`; `listener` the goroutine in which the TURN subserver waits for a
signal. A signal reaches every channel that is notified then, and kills the
process if there is none. TURN's two connections are closed one by one by main
and by `listener`. hertz's `Stop` waits for a deadline it has set itself and
reports it as an error on every path, so `Config.Close` and the `AfterStop`
hooks are unreachable and not modelled. The program ends with main.

**ConfigLoader** (`MCSafety`, `MCConfigLoader`, `ConfigLoaderProofs`). `content` is a file, as a number that grows
with each write and is odd while a write is half done (such content does not
decode). `watcher[s]` follows the watch goroutine of a source: an event, read,
store the set, reload, update. `values` is the merge: for each source what its
set says. Load and Sync are followed step by step; Sync holds the mutex while it
reads the files. `updates` is the channel of one place between the loader and
`config.run`; `view` is what `config.Get` reads. `unseen` is a history variable:
the file changed while no inotify watch was in place, or its event was thrown
away with a closed watcher. The watcher of a file is that of
`watcher_linux.go`, on fsnotify v1.8: after Close the stop func closes it
(`StopWatcher`), which closes both its channels, and the goroutine in `Next`
receives from either one, at random: from Errors nothing, which it takes for a change set
(`NextNil`), as often as that happens; from Events an event without a name, after
which adding the path again fails and the goroutine ends (`NextClosed`). The
watcher's own `exit` channel is never closed. Local change sets and snapshots
(`hand`, `fresh`, `got`) are forgotten where the code drops them.

**NativeRegistry** (`MCNative`, `MCNativeRegistry`, `NativeProofs`). `Register`
starts a refresh goroutine (`loopPc`) and waits on `doNow` (`loopOf`); the
goroutine publishes at once and at every tick: `r.mu`, the select of
`setRegisterRecord`, its insert or update, the put. `Deregister` puts an empty
record, `Query` reads under the read lock. The DHT and the database may fail at
each step. The goroutines of `bootstrap` and of `refreshRoutingTable` and the
one that stops mDNS end with the context. `NodeLifecycle` keeps its own view of
`Register`: it returns, fails or hangs.

**Bootstrap** (`MCNative`, `NativeProofs`). libp2p reports the opening and the
closing of each connection, one event of a connection at a time; each is
`savePeerInfo`: `FindPeer`, `SavePeer` or `PeerExists`, `DeleteRows`,
`CreateRow`, with a failure possible at each. `DeleteRows` deletes the rows of
the whole peer, as the code does. `met` is the history of which events stood
together between their deletion and their creation. The direction of a row is
left out, since no statement looks at it.

**AuthSessions** (`MCTouch`, `TouchProofs`). `Get` looks under the read lock,
`GetDeletes` deletes what it saw expired under the write lock, `CheckExpiry`
looks at the clock once more; `Passes` moves the clock between any two steps.

**NodeRegistry** (`MCTouch`, `TouchProofs`). Objects are pointers: an update
(`UpdateGet`, `UpdateFields`, `UpdateStore`) holds the object of the map while
it waits for the body of its request; `newest`, `beaten` and `raced` are history
variables for what was answered and what overlapped. There is one registry from
the start. In the code `GetNodeRegistry` makes it at its first call by a check
and an assignment without a lock (`touch/peer/registry.go:69-75`), and nothing
else calls `InitNodeRegistry`: two first calls at once may each get a registry
of their own, and what is registered in the one that loses is gone. This is not
modelled.

**Providers** (`MCTouch`, `TouchProofs`). One row. `UpdateFind` copies it,
`UpdateSave` writes all columns of the copy, and inserts it when the row is gone.

**Messaging** (`MCTouch`, `TouchProofs`). `AppendStamp` reads the clock,
`AppendInsert` inserts the row or is refused by the unique index over the ULID;
a reader takes pages ordered by time after the last time it has.

**Accounts** (`MCTouch`, `TouchProofs`). Sign-ups and `SetPeerAddr`, statement by
statement, over tables with the indexes the models of gorm declare; `met` is the
history of which calls overlapped.

**Collections** (`MCTouch`, `TouchProofs`). One collection of any of the five types. Every
method is a step, since it holds the lock throughout; `astray` are the
listeners the code has passed over, by an error of an earlier one or by `Clear`.

## Runs

Five runs pass, with 40 properties between them; seven show a finding.

| Run | Part and instance | Checks | Shows |
|---|---|---|---|
| Safety | sessions: 2 handlers, 1 address, 2 identifiers, channels of 1, 3 messages | `SafetyTypeOK` `OneSessionPerPeer` `StreamRegistered` `CloseOnce` `FlowOrdered` | concurrent calls share one stream, every stream can be found, `closeChan` is closed once, no reordering |
| | configuration: 2 files, each written whole or in halves, 2 Syncs or a Close, symmetry | `LoaderCurrent` `SetsForward` | no order of stores, reloads, failed reloads and Sync leaves the loader behind the files; a set never goes back to an older content, though Close may empty it |
| Touch | sessions: 2 handlers, 1 identifier, 1 message, fair | `CallersAnswered` `ContextEndReleases` | no path keeps the mutex; the end of the context ends all four goroutines |
| | collections: 2 items, up to 3 places, 2 listeners, pages of 1 | `TouchTypeOK` `ListenersKeepUp` `WalkMissesNothing` | counters, listeners and walks agree with the contents |
| | nodes: 2 identifiers, 3 objects, 2 updates, 1 heartbeat each | `NodesAreNewest` | an update loses something only when a registration or removal overlapped it |
| | providers: 2 updates, 2 fields | `ProviderAsAsked` | answered updates are in the row unless two calls overlapped |
| | messages: 2 senders, 3 messages, pages of 1, clock to 2 | `MissedOnlyLateOrTied` | the two ways in which a reader by time misses a row |
| | sign-ups and addresses: 3 calls each, 2 names, emails, addresses | `SignupOutcome` `AddressRowsMet` | what look-before-insert leaves behind |
| | users: 2 validators, 2 sessions, times to 3 | `SessionsHonest` | the answers of `ValidateSession` are true although it looks three times |
| Native | node: TURN and 2 others, 2 signals, fair | `NativeTypeOK` `RegisteredIsUp` `TurnReleased` `CancelStopsCleanly` `CancelEnds` | registration follows readiness; cancellation stops cleanly from every phase but one |
| | registry: 1 client, 1 peer, 2 refresh goroutines, fair | `OneRowPerPeer` `RegisteredIsRefreshed` `RegistryCallsReturn` `CancelEndsRegistry` | failures end neither the refreshing nor the lock; the context ends everything |
| | bootstrap: 2 connections | `RowsOfEvents` | a second row stays only where deletions and creations interleaved, never two of one connection, and no closed connection stays active |
| Mdns | 2 clients, 2 nodes, 3 starts, 1 query left behind, fair, deadlock checked | `StoppedIsQuiet` `OneDiscovery` `AdvertisedIsLatest` `CallsReturn` | nothing outlives Stop; the restart of `AdvertiseNode` loses no advertisement although its check is outside the lock |
| Logs | ring: 1 writer, 1 stream, ring 3, channels of 2, backlog 1, 6 records, fair | `LogsTypeOK` `RingIsTail` `RegisteredOpen` `StreamGapFree` `FeedSpec` `PutReturns` | the ring and the streams are the log; the feed is implemented; `Put` returns while clients receive |
| | file: files of 2 records, 2 backups, ages 0 and 1, both layouts, 3 records, clock to 2 | `RecordsKept` `ListedBounded` | crashes, failures and the mill lose nothing the limits keep; the directory ends within them |
| PeerSessionReuse | 2 handlers, 1 address, 1 message | `DeadSessionNotReused` fails | finding 1 |
| RingLogStream | the ring as in Logs, fair | `StreamReturns` fails | finding 2 |
| MdnsRestart | 2 starts | `RunningDiscovers` fails | finding 3 |
| NodeSignalPanic | 1 signal | `SignalStopsCleanly` fails | finding 4 |
| NodeSignalLost | 1 signal, fair | `SignalEndsNode` fails | finding 5 |
| ConfigView | as in Safety, 1 Sync | `ViewFollows` fails | finding 6 |
| RegistryStaysOut | as in Native | `DeregisteredStaysOut` fails | finding 7 |

Distinct states: Safety 1,900,000, Touch 250,000, Logs 700,000, Mdns 54,000,
Native 24,000, rounded; each takes one to two minutes with two workers.

**Bounds.** `MaxMsgs`, `MaxPuts`, `MaxStarts`, `MaxStale`, `MaxSignals`,
`MaxContent`, `MaxSyncs`, `MaxItems`, `MaxBeats`, `MaxEdits`, `MaxClock`,
`MaxTime`, `MaxRefresh`, `MaxRecords`, `MaxStamp`, `MaxTwice`, `Sinces` and
`Counts` limit how often the environment acts, and so do the sets of calls
(`SignUps`, `AddrSets`, `Ulids`, `Objects`, `RegLoops`, `Links`); they are guards
of its actions only. Channels have capacity one (100 in the sessions, one in the
configuration), so that full and empty are both reached at once. Those of the
log have capacity two (128) against a backlog of one (10): longer than the
backlog as in the code, so that the step back before the first replayed record
happens. A ring of three and six records make it wrap twice; three messages fill
a channel, a hand and the next channel. Two goroutines of a kind show every
pairwise interleaving; three sign-ups or addresses let a third meet what two left
behind; the address of the sessions is shared because contention for one address
is the case. A second identifier is there for a duplicate session to be possible.
Three starts of mDNS give a restart during a restart. Content 4 is one whole write
or a half and its completion, for each file. A behaviour
of the configuration in Safety has calls of Sync or a Close, not both, which
together give more than nine million states: two closed watchers hand out nil
again and again. `LoaderCurrent` speaks of the time before Close only, and what
a Sync and a Close together do to the sets is left to the theorem. Pages of one item make every other
step of a walk fall between two pages; three places let an activity be put in
front while the reader has one page and another item still lies ahead. Three records and three times give the
log file three backups where two are allowed, filled or empty ones;
`MaxTwice = 0` leaves out two rotations with one stamp (a millisecond in the
code), which a longer run admitted too (`MaxTwice = 1`, 3.1 million states).
`CHECK_DEADLOCK FALSE` stands where the system may stop: all records written,
the program ended, the configuration closed, nobody calls any more.

**Fairness.** Weak fairness for every goroutine's next step: Go runs every
runnable goroutine. Strong fairness for taking a mutex (`HiLock`, `Lock` in
Mdns, `LoopLock` and `RegLocks` in NativeRegistry): a waiter of `sync.Mutex` that
has starved for a millisecond is handed the lock, and a writer of `sync.RWMutex`
holds new readers back. Strong fairness for a case of a `select` that has
several ready ones (`Quit` in Mdns, `LoopNow` and `LoopEnd` in NativeRegistry): it
chooses at random. Timers run out and tickers tick, so a query ends, a dial returns and
a refresh of the routing table gives up. Nothing outside is obliged: no request, signal,
cancellation, failure, idle minute, write of a file or call of the API has
to happen. RingLog's `WF(Receive)` says that a client which has not stopped its
stream keeps receiving, as `memory.go` asks of it; a client that neither receives
nor stops blocks the whole log. `TouchFairness`, `NativeFairness` and
`LogsFairness` are those of the parts with a liveness property, restricted to
behaviours in which the part moves.

## Findings

1. *Dead sessions are reused* (PeerSessionReuse; `touch/peer/session.go:21`). The
   idle manager evaluates `ctx.Done()` and cancels nothing, and deletes the
   session by an identifier under which it was never stored. When the stream is
   closed, every later call for the peer gets the dead session.
2. *The log can lock up* (RingLogStream; `core/debug/log/memory/memory.go:93`).
   `Stream` registers a channel nobody drains yet and then needs the lock.
   If the channel fills first, `Put` waits on it with the lock held.
3. *A restarted mDNS service discovers nothing* (MdnsRestart;
   `core/plugin/native/internal/mdns/mdns.go:135`). Stop cancels the only context.
4. *A signal can panic the shutdown* (NodeSignalPanic;
   `.../subserver/turn/turn.go:88`). Two goroutines close the TURN server;
   whoever comes second gets an error, and `BaseServer.Stop` panics on it.
5. *A signal during the start is lost* (NodeSignalLost;
   `core/plugin/native/node/native.go:138`). TURN and hertz catch it, `Run` listens
   only later; the node comes up with TURN closed.
6. *The view can stay old* (ConfigView; `core/pkg/config/loader/loader.go:350`). An
   update that meets a full channel is dropped, and it is the newer one.
7. *A deregistered peer comes back* (RegistryStaysOut;
   `core/plugin/native/registry/native.go:447`). The goroutine that `Register`
   started publishes the record again at its next tick.

Also seen while reading, without a run of their own:

- Debug log: `Read` with both constraints falls back to the last entries when
  none is newer (`memory.go:68`), which its comment does not say;
  `logStream.Stop` is not safe for two goroutines.
- mDNS: a callback that calls the service waits for itself; `network_id` of a
  received record is sliced without a look at its length (`mdns.go:457`); a
  `Start` that fails inside `AdvertiseNode` leaves the service stopped (300).
- Registry: what `Provide` announces (`native.go:740`) is not what `listPeers`
  looks for (595); `r.peers` is never filled; the lists of TURN addresses are
  appended to without a lock (884); a `Register` that meets the end of the
  context waits on `doNow` for ever (441).
- Bootstrap: `savePeerInfo` deletes the rows of every connection of the peer, of
  either direction, so of two connections whose events do not overlap only the
  one stored last has a row. With overlap, two that both delete before either
  creates leave two rows, of one direction perhaps, although the comment at
  `store.go:26` promises "peerId + direction uniqueness" (`RowsOfEvents` says how
  far the table goes). It
  drops the error of `RDS` (`store.go:28`), so without a database it works on a
  nil handle (the model's `Fails` are the statements' errors only); Stop does not
  end the loop of Start. hertz reports ready after three seconds, listening or not
  (`hertz.go:144`).
- Configuration: `Next` of a closed file watcher may return neither a set nor an
  error (`watcher_linux.go:69`) instead of the `ErrWatcherStopped` that
  `source/source.go:11` speaks of. After Close the loader stores that nil, merges
  without the file and offers the rest, which `run` may set before it sees the exit:
  `config.Get` then answers without the file. `SetsForward` allows this and nothing
  more. The retry of a watcher outlives Close (`loader.go:268`); what is
  written during the pause after a failed reload causes no event (291);
  `config.Load` may store an older snapshot over a newer view (`config.go:300`).
- Node registry: nothing mounts the node handlers. `RegisterRegistryEndpoints`
  (`touch/peer/registry.go:18`) has no caller and `GetPeerHandlers`
  (`touch/peer_handler.go:19`) lists none of them; a second set of handlers
  (`touch/peer_router.go:235`) works on the same registry and makes its nodes
  without an identifier. The model is of the first set.
- Sessions of users: each login makes a store of its own and drops it with its
  clean-up goroutine (`touch/auth/auth.go:148`), the middleware makes another, and
  neither `ValidateSession` nor `DeleteSession` has a caller.
- Accounts: a retry after the profile failed is refused for ever; handlers work
  for the actor 123; the profile queries name a column `user_id`, the table has
  `actor_id` (`touch/actor/profile.go:26`).
- Messaging: queries name columns `did`, `cid`, `ulid` (`conversation_repo.go:57`,
  `attachment_repo.go:24`, `receipt_repo.go:26`), which gorm's naming gives the
  tables as `d_id`, `c_id`, `ul_id`; two unique indexes of
  `docs/message-storage-system.zh.md:562` and 565 are not in the models.
- Collections: a comment speaks of prepending (`liked.go:48`), the code appends.
- Log file: archives go to a directory of their own (`logrus.go:117-137`) that
  `oldLogFiles` does not list, so neither MaxBackups nor MaxAge ever removes one
  (in the model, `apart`); two rotations in one millisecond overwrite each other;
  `openExistingOrNew` asks for one byte more room than Write (278, 154); with
  LocalTime the stamps are parsed as UTC, so ages are off by the zone; and
  MaxBackupSize below MaxFileSize makes MaxBackups 0, which keeps all
  (`logrus.go:129`).
- Client: one mutex for Send, Recv and Close, so Close waits for a Recv.

## Proofs

`PeerSessionProofs` proves, for any sets of handlers, addresses and identifiers,
any channel capacity and any number of messages, from `ConstantsAssumption`
(capacity and bound are numbers, the capacity is not zero, `None` is nobody's
name, identifiers are not addresses):

| Theorem | Property | Argument |
|---|---|---|
| `TypeInvariant` | `TypeOK` | inductive as it stands, action by action |
| `StreamsAreRegistered` | `StreamRegistered` | part of `RegistryInv` |
| `OneSessionEach` | `OneSessionPerPeer` | two streams of one address would both be its entry, or a caller inside `sessMux` would hold one while the address has an entry |
| `ClosedOnce` | `CloseOnce` | `CloseInv`: whoever is past the lock in `Close` is the one `stream.mu` names, and found `closeChan` open |
| `MessagesInOrder` | `FlowOrdered` | `FlowInv` |
| `MutexesAreGivenBack` | | `MutexesHeld`: whoever a mutex names is on its way to the unlock |
| `RegistryForgetsNothing` | | an action property: an entry is neither replaced nor deleted |

The actions fall into four kinds (`StepKinds`: a caller, one of the loops,
`Close`, the environment), and a lemma per kind says which variables it can move
at all (`CallerStep`, `LoopStep`, `CloseStep`, `RegistryUntouched`,
`CloseUntouched`, `FlowUntouched`), so that each invariant is argued only for the
actions that can disturb it. None of the three safety properties is inductive. `RegistryInv` adds who holds
`sessMux`, what a call knows while it holds it (the address has no entry, the
identifier is fresh or connected to that address), and that every entry lies
under an address and names a stream to it. The last part is where the wrong key
in `sessionManager` shows: its delete never touches an entry, which keeps the
registry sound and is at the same time why entries never go away (finding 1).
`FlowInv` splits the pipeline into its five stages: each ascends and is below the
stages behind it, no number exceeds the count of accepted messages, and a hand is
empty unless its goroutine is between taking and passing. Lemmas `Taking`,
`Passing`, `Joining` and `EmptyStage` say what one message moving one stage does
to these relations; the action lemmas `Order...` apply them.

`RingLogProofs` proves, for any ring size, channel capacity, backlog, writers,
streams and number of records, from `RingAssumption` (size and capacity are
positive, the bounds are numbers, `None` is no writer):

| Theorem | Property | Argument |
|---|---|---|
| `TypeInvariant` | `TypeOK` | inductive; `ReadTypes` for the slices of Read |
| `RingHoldsTail` | `RingIsTail` | `PutKeepsTail`: append and trim keep the tail |
| `ClosedIsGone` | `RegisteredOpen` | part of `RingInv` |
| `StreamsMissNothing` | `StreamGapFree` | from `PipeInv` |
| `ImplementsLogFeed` | `FeedSpec` | the next record is at position `Len(got) + 1` of the pipe (`PipeFront`), where `PipeInv` says how it follows |
| `PutWaitsForNoneThatEnded` | | from `RingInv`: a stream Put waits for is registered, open and not past its forwarding |

`RingInv` is the ring's contents together with where a stream can be:
unregistered ones are in none of `streams`, `pending` and `closed`, pending
ones are registered, closed ones are neither. `PipeInv` is about what a stream
carries, seen as one sequence from the client back to the ring (`Pipe`). Before
the stream is open, its channel holds an unbroken run that reaches the newest
record offered. Opening puts the backlog in front of it: both ascend and end at
the same record (`BacklogFirst`), so the whole steps back once at most, within
the first `Last` and one. Afterwards a record that moves from stage to stage
leaves the pipe as it is (`HandedAcross`, `FlushedAcross`), and Put appends the
successor of its last (`PutNext`), or drops the stream. Nothing of this holds
in `StreamGapFree` alone: without the run before the opening, and without the
backlog being drained before the channel is read, the order breaks.

The other six modules, each for all values of the constants its components
declare, from the assumption named there: bounds are numbers, "no value" is a
value of its own; in LogFile the size is positive and the ages are numbers, in
ConfigLoader a file can hold content 2 (`MaxContent >= 2`), which is what each
holds at the start.

| Module | Theorem | Property | Argument |
|---|---|---|---|
| NodeLifecycleProofs | `NodeTypes` | the type of NodeLifecycle | inductive, one group of variables after the other |
| | `RegisteredUp` | `RegisteredIsUp` | `UpInv`: how far `Server.Start` is, by where main is |
| | `TurnIsReleased` | `TurnReleased` | `Progress`: what main has still to close covers what is open |
| | `CancelIsClean` | `CancelStopsCleanly` | `Alone`: without a signal main is the only one that closes |
| | `PanicsOnlyBesideTurn` | | a stop that panics met a broken subserver or the signal goroutine of TURN |
| NativeProofs | `TableTells` | `RowsOfEvents` | `BootInv`: what an event has deleted stays deleted until it creates its own row (`Cleared`), and the closing comes after the opening (`EventOrder`); `Window`: an event about to create has met every row there is |
| | `PeersOnce` | `OneRowPerPeer` | `Exclusion` by `r.mu`; what the select saw still holds at the insert (`LoopKnows`) |
| | `RegistrationsLast` | `RegisteredIsRefreshed` | a goroutine leaves its loop only when the context is done |
| | `RegistryCallsAreHeard` | | `MuInv`: whom `r.mu` names is inside, and a Register that waits on `doNow` has its own goroutine at the other end |
| | `NativeRunsItsParts` `NativeTypes` | `NativeTypeOK` | a step of the composition is a step of one part and a stutter of the others |
| MdnsProofs | `MdnsTypes` | the type of Mdns | with `Holds`: who holds `mu` in the middle of a start or stop |
| | `StoppedQuiet` `DiscoveryOnce` | `StoppedIsQuiet` `OneDiscovery` | `Quiet`: the busy goroutines are those of the newest start of a running service |
| | `LatestAdvertised` | `AdvertisedIsLatest` | `Announced`: while the server answers with old records, somebody is still to restart it |
| | `FirstStartDiscovers` | `RunningDiscovers`, while `starts <= 1` | `Looking`: only a Stop ends the context while the parent's lives |
| | `MuIsGivenBack` | | `MuHasHolder`: whom `mu` names is inside, and has cancelled what it waits for |
| ConfigLoaderProofs | `SetsGoForward` | `SetsForward` | `Contained`: what is in a hand is no older than the set it replaces, or it is nothing and the configuration is closed |
| | `LoaderIsCurrent` | `LoaderCurrent` | `Seen`: a change is in the set, in a hand, announced or unseen, until Close; `Owed`: values differ from the sets only while a reload is due, nothing decodes or a set is behind |
| | `ViewIsWhole` | | `Merged`: what is kept or passed on as a value has been merged, at every place between the loader and `config.Get` |
| | `ConfigTypes` | the type of ConfigLoader | `Merged` with `Places` |
| | `SafetyRunsBoth` `SafetyTypes` | `SafetyTypeOK` | as in NativeProofs |
| TouchProofs | `NodesNewest` | `NodesAreNewest` | `NodeInv`: an update nothing raced with holds the object of the map |
| | `ProvidersAsAsked` | `ProviderAsAsked` | `ProvInv`: without overlap a copy is the row but for one field |
| | `MissedLateOrTied` | `MissedOnlyLateOrTied` | inductive with the types (`MsgInv`) |
| | `SignupsEnd` `AddressesMet` | `SignupOutcome` `AddressRowsMet` | `AccInv`: two calls under way have met, so a call that found nothing has met whoever writes after its look |
| | `SessionsAreHonest` | `SessionsHonest` | `AuthInv`: a session created and gone from the map was removed or has expired, and an expired one stays so |
| | `ListenersAgree` `WalksAreComplete` | `ListenersKeepUp` `WalkMissesNothing` | `CollInv` |
| | `TouchRunsItsParts` `TouchTypes` | `TouchTypeOK` | as in NativeProofs |
| LogFileProofs | `NothingLost` | `RecordsKept` | `LogInv` |
| | `DirectoryBounded` | `ListedBounded` | `BoundInv` |
| | `LogTypes` | the type of LogFile | `FilesInv`, with `LogInv` |
| | `LogsRunBoth` `LogsTypes` | `LogsTypeOK` | as in NativeProofs |

`LogInv` adds to the property what each file operation relies on. `Emptied`:
what `openNew` creates or truncates holds nothing, because the file was renamed
first. `PlainWhole` and `Packing`: a plain backup is what was renamed, and the
source of a compression is there until its copy is complete, so it does not
matter after which step the process ends. `Justified`: what the mill still has
to remove was surplus or expired when it was listed and is so for good
(`GoneStays`), since the clock and the backups made only grow; and what is
surplus among the listed files is surplus among all that were made
(`SurplusGone`), so a limit that looks at fewer files never removes too much.

`BoundInv` speaks of what *will* be in the directory: the files listed without
those the mill is about to remove (`Left`) are at most `MaxBackups` once nothing
is owed. `Settled` is that: no wake-up waits in the channel and none is still to
be sent by a rotation under way or lost to a failed step. A wake-up that is
dropped meets a full channel, so one is waiting; what a rotation adds while the
mill works is owed until the mill has looked again. What a sweep leaves is few
(`FewNewest`: of a finite set of stamps, those with fewer than n newer ones
are at most n), and only a rotation or a crash makes it more, after which a sweep is
owed again: the first write of the next process wakes the mill.

`CollInv` adds to the two properties of the collections that nothing is listed
or registered twice and that whoever is not listening, or has gone astray, has an
empty account (`Ledger`), and for a reader in the middle of a walk that what it
has not seen yet lies behind its offset (`Walking`, `Ahead`): an addition in
front pushes items back, never forward. `FirstPlace` and `Dropped` say what
taking one place out of a list without doubles leaves.

**Composition.** TouchProofs, NativeProofs, LogFileProofs and ConfigLoaderProofs
extend `MCTouch`, `MCNative`, `MCLogs` and `MCSafety`, and prove that a behaviour
of the composed specification is one of every part (`TouchRunsItsParts`,
`NativeRunsItsParts`, `LogsRunBoth`, `SafetyRunsBoth`). What is proved of a part
therefore holds in the run that checks it, and the composed type invariants are
the conjunction of the parts' types.

**How far the refuted claims hold.** Findings 1 to 4 have a theorem that draws
the line: `RegistryForgetsNothing` (an entry stays for ever, and no call loses
or replaces one), `PutWaitsForNoneThatEnded` (Put never waits for a
stream whose goroutine has ended; the only dangerous one has not got its
goroutine yet), `FirstStartDiscovers` (a service that was never stopped does
discover) and `PanicsOnlyBesideTurn` (no panic without the signal goroutine of
TURN or a broken subserver). Findings 5 to 7 have none yet. Of the two
divergences without a run, `SetsGoForward` says that no set is emptied before Close,
and `TableTells` that a second row takes two events between their deletion and
their creation.

## Limits

Every invariant and every safety action property that a passing run checks
is proved, and so is the refinement of LogFeed. Only model-checked are the seven
liveness properties (`CallersAnswered`, `ContextEndReleases`, `PutReturns`,
`CallsReturn`, `CancelEnds`, `RegistryCallsReturn`, `CancelEndsRegistry`): tlapm
1.4.5 proves neither `ENABLED` nor liveness under fairness. The safety they rest
on is proved: mutexes name somebody who is about to give them back
(`MutexesAreGivenBack`, `MuIsGivenBack`, `RegistryCallsAreHeard`), and a Put or a
Register waits for a goroutine that exists (`PutWaitsForNoneThatEnded`,
`RegistryCallsAreHeard`); that the goroutine then moves is what TLC checks. No
module uses a `RECURSIVE` operator.

A composed run moves one part per behaviour. This loses no interleaving between
the parts, because they share no variable and no lock; it would if, say, the
registry and the bootstrap subserver were made to share their mDNS service.

Abstracted: contents of messages, records, TXT records, rows and files, to
numbers or model values; the conversions of received mDNS records; time, to
events that may come at any moment or to a counter where times are compared. A
half-written configuration always fails to decode: a half that decodes is a
content like any other. Options are those the station uses: config watch on,
storage off, compression on. Configuration files exist throughout.
`logStream.Stop` is one step, its stream having one owner. SQL statements are
atomic and each may fail without effect. A write to the log file or to an archive
fails as a whole or not at all; a half of an archive is what a crash leaves.

Within the modelled parts, left out: `Init` of the node's plugins; in the
registry, TURN relays, the peer listing and the conversion of answers; in the
bootstrap subserver, its own mDNS and DHT goroutines, which repeat the
registry's; conversations, members, receipts and attachments, whose statements
are single and partly name columns that do not exist.

## Not modelled

- *Client and transport* (`core/plugin/native/{client,transport}`): the codec is
  not implemented, `Stream` returns a stream whose context it has cancelled, and
  Call and Dial want different kinds of address; no call gets as far as a
  behaviour worth a model.
- *ActivityPub federation and WebFinger*: conversion of documents in one
  request, without state; `vendors/activitypub` is third-party vocabulary.
- *Identifier generator* (`core/util/id`): sequential under one mutex.
- *Application shells, command line, logrus and its hooks, plugin tables*:
  glue and vendored code.
- *Dart and Flutter clients*: another language and a user interface; what
  they ask of the station is the HTTP interface.
- *Generated code* (`*.pb.go`): no behaviour of its own. Together with the vendored
  vocabulary and command-line library it is a large part of the Go code, which is
  why the share of lines the models stand for is small although the concurrent
  components are covered.

## Plan

What would come next, the most useful first: theorems that draw the line for
findings 6 and 7 (an old view goes back to a dropped update, a peer that comes
back to a refresh goroutine of its own); the bootstrap subserver and the
registry sharing real mDNS services (composition with Mdns); ConfigLoader with
removable files and the storage backup; the conversations and key epochs of
messaging once their queries name the columns of their tables; the client's
streams once the codec exists; the identifier generator at the overflow of its
sequence.
