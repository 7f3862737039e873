------------------------- MODULE ConfigLoaderProofs -------------------------
(***************************************************************************)
(* The configuration loader for any set of files, any number of writes and *)
(* any number of calls of Sync: what each goroutine has read is a content  *)
(* the file had or, after Close, nothing; sets move forward or are emptied *)
(* after Close; and at rest the loader holds what the files say.           *)
(***************************************************************************)
EXTENDS MCSafety, PeerSessionProofs

(* Nothing the loader holds is newer than its file; what a watch goroutine  *)
(* has read is no older than the set it is about to replace, or it is the   *)
(* nil of a watcher that Close had stopped.                                 *)
Behind(m) == m \in [Sources -> Nat] /\ \A s \in Sources : m[s] <= content[s]

Contained ==
    /\ content \in [Sources -> Nat] /\ \A s \in Sources : content[s] # 0
    /\ Behind(hand) /\ Behind(sets) /\ Behind(values) /\ Behind(fresh) /\ Behind(got)
    /\ watcher \in [Sources -> {"none", "watch", "next", "set", "reload", "update", "done"}]
    /\ exit => loading \in {"done", "failed"}
    /\ watching \in [Sources -> BOOLEAN]
    /\ \A s \in Sources : watcher[s] \in {"next", "set", "reload", "update"} => watching[s] \/ exit
    /\ \A s \in Sources : watcher[s] = "none" => sets[s] = 0
    /\ \A s \in Sources : sets[s] = 0 => watcher[s] = "none" \/ exit
    /\ \A s \in Sources : watcher[s] = "set" =>
          IF hand[s] = 0 THEN exit ELSE sets[s] <= hand[s]

(* The files only grow, so what was behind them stays behind them.          *)
LEMMA StaysBehind ==
    ASSUME NEW m, Behind(m), content \in [Sources -> Nat], content' \in [Sources -> Nat],
           \A s \in Sources : content[s] <= content'[s]
    PROVE  m \in [Sources -> Nat] /\ \A s \in Sources : m[s] <= content'[s]
BY DEF Behind

(* A set or snapshot with one source read anew.                             *)
LEMMA ReadBehind ==
    ASSUME NEW m, Behind(m), content \in [Sources -> Nat], NEW s \in Sources
    PROVE  Behind([m EXCEPT ![s] = content[s]])
BY DEF Behind

LEMMA ContainedInductive == ConfigSpec => []Contained
<1>. USE ConfigAssumption DEF fileVars, watchVars, loadVars, syncVars, runVars
<1>1. ConfigInit => Contained
  BY DEF ConfigInit, Contained, Behind, Empty
<1>2. Contained /\ [ConfigNext]_configVars => Contained'
  <2>. SUFFICES ASSUME Contained, [ConfigNext]_configVars PROVE Contained'
    OBVIOUS
  <2>1. ASSUME NEW s \in Sources, Write(s) PROVE Contained'
    <3>1. PICK k \in {1, 2} : content' = [content EXCEPT ![s] = @ + k]
      BY <2>1 DEF Write
    <3>2. content' \in [Sources -> Nat] /\ \A r \in Sources : content[r] <= content'[r] /\ content'[r] # 0
      BY <3>1 DEF Contained
    <3>3. UNCHANGED <<watchVars, watching, exit, sets, values, loadVars, syncVars>>
      BY <2>1 DEF Write
    <3>4. Behind(hand)' /\ Behind(sets)' /\ Behind(values)' /\ Behind(fresh)' /\ Behind(got)'
      BY <3>2, <3>3, StaysBehind DEF Contained, Behind
    <3>. QED
      BY <3>2, <3>3, <3>4 DEF Contained
  <2>2. ASSUME NEW s \in Sources, NextSet(s) PROVE Contained'
    <3>1. Behind(hand)' /\ hand'[s] = content[s] /\ \A r \in Sources : r # s => hand'[r] = hand[r]
      BY <2>2 DEF NextSet, Contained, Behind
    <3>. QED
      BY <2>2, <3>1 DEF NextSet, Contained, Behind
  <2>3. ASSUME NEW s \in Sources, Store(s) PROVE Contained'
    <3>1. Behind(sets)' /\ sets'[s] = hand[s] /\ \A r \in Sources : r # s => sets'[r] = sets[r]
      BY <2>3 DEF Store, Contained, Behind
    <3>2. Behind(hand)' /\ \A r \in Sources : r # s => hand'[r] = hand[r]
      BY <2>3 DEF Store, Contained, Behind
    <3>. QED
      BY <2>3, <3>1, <3>2 DEF Store, Contained, Behind
  <2>4. ASSUME NEW s \in Sources, Watch(s) \/ Reload(s) \/ Update(s) \/ NextClosed(s)
        PROVE  Contained'
    <3>1. UNCHANGED <<content, hand, sets, loadVars, syncVars, exit>> /\ values' \in {values, sets}
      BY <2>4 DEF Watch, Reload, Update, NextClosed
    <3>2. watcher[s] \in {"watch", "next", "reload", "update"} /\
          \E w \in {"next", "update", "done"} : watcher' = [watcher EXCEPT ![s] = w]
      BY <2>4 DEF Watch, Reload, Update, NextClosed
    <3>3. watching' \in [Sources -> BOOLEAN] /\ \A r \in Sources : watching[r] => watching'[r]
      BY <2>4 DEF Watch, Reload, Update, NextClosed, Contained
    <3>4. watcher[s] = "watch" => watching'[s]
      BY <2>4 DEF Watch, Reload, Update, NextClosed, Contained
    <3>5. watcher'[s] \in {"next", "update", "done"} /\ \A r \in Sources : r # s => watcher'[r] = watcher[r]
      BY <3>2 DEF Contained
    <3>6. \A r \in Sources : watcher'[r] \in {"next", "set", "reload", "update"} => watching'[r] \/ exit'
      BY <3>1, <3>2, <3>3, <3>4, <3>5 DEF Contained
    <3>7. Behind(hand)' /\ Behind(sets)' /\ Behind(values)' /\ Behind(fresh)' /\ Behind(got)'
      BY <3>1 DEF Contained, Behind
    <3>8. watcher' \in [Sources -> {"none", "watch", "next", "set", "reload", "update", "done"}]
      BY <3>2 DEF Contained
    <3>. QED
      BY <3>1, <3>2, <3>3, <3>5, <3>6, <3>7, <3>8 DEF Contained
  <2>11. ASSUME NEW s \in Sources, StopWatcher(s) \/ ReloadFailed(s) PROVE Contained'
    <3>1. UNCHANGED <<content, hand, sets, values, loadVars, syncVars, exit>>
      BY <2>11 DEF StopWatcher, ReloadFailed
    <3>2. watching' \in [Sources -> BOOLEAN] /\ \A r \in Sources : r # s => watching'[r] = watching[r]
      BY <2>11 DEF StopWatcher, ReloadFailed, Unwatch, Contained
    <3>3. \/ watcher' = watcher /\ exit
          \/ watcher[s] = "reload" /\ \E w \in {"done", "watch"} : watcher' = [watcher EXCEPT ![s] = w]
      BY <2>11 DEF StopWatcher, ReloadFailed
    <3>. QED
      BY <3>1, <3>2, <3>3 DEF Contained, Behind
  <2>12. ASSUME NEW s \in Sources, NextNil(s) PROVE Contained'
    <3>1. Behind(hand)' /\ hand'[s] = 0 /\ \A r \in Sources : r # s => hand'[r] = hand[r]
      BY <2>12 DEF NextNil, Contained, Behind
    <3>2. exit
      BY <2>12 DEF NextNil, Contained
    <3>. QED
      BY <2>12, <3>1, <3>2 DEF NextNil, Contained, Behind
  <2>5. ASSUME NEW s \in Sources, LoadRead(s) PROVE Contained'
    BY <2>5, ReadBehind DEF LoadRead, Contained, Behind
  <2>6. ASSUME NEW s \in Sources, LoadAppend(s) PROVE Contained'
    <3>1. Behind(sets)' /\ sets'[s] = fresh[s] /\ \A r \in Sources : r # s => sets'[r] = sets[r]
      BY <2>6 DEF LoadAppend, Contained, Behind
    <3>2. Behind(fresh)'
      BY <2>6 DEF LoadAppend, Contained, Behind
    <3>. QED
      BY <2>6, <3>1, <3>2 DEF LoadAppend, Contained, Behind
  <2>7. CASE LoadReload \/ LoadFailed \/ LoadUpdate \/ LoadSnapshot \/ LoadView
    <3>1. UNCHANGED <<content, watchVars, watching, exit, sets, syncVars>> /\ values' \in {values, sets}
          /\ fresh' \in {fresh, values, Empty}
      BY <2>7 DEF LoadReload, LoadFailed, LoadUpdate, LoadSnapshot, LoadView
    <3>2. ~exit
      BY <2>7 DEF LoadReload, LoadFailed, LoadUpdate, LoadSnapshot, LoadView, Contained
    <3>. QED
      BY <3>1, <3>2 DEF Contained, Behind, Empty
  <2>8. ASSUME NEW s \in Sources, SyncRead(s) PROVE Contained'
    BY <2>8, ReadBehind DEF SyncRead, Contained, Behind
  <2>9. CASE SyncLock \/ SyncValues \/ SyncFailed \/ SyncUpdate \/ SyncSnapshot \/ SyncView
    <3>1. UNCHANGED <<content, watchVars, watching, exit, sets, loadVars>> /\ values' \in {values, got}
          /\ got' \in {got, values, Empty}
      BY <2>9 DEF SyncLock, SyncValues, SyncFailed, SyncUpdate, SyncSnapshot, SyncView
    <3>. QED
      BY <3>1 DEF Contained, Behind, Empty
  <2>10. CASE Run \/ RunStopped \/ CloseConfig \/ UNCHANGED configVars
    <3>1. /\ UNCHANGED <<content, watchVars, watching, sets, values, loadVars, syncVars>>
          /\ (exit => exit') /\ (exit' => exit \/ loading \in {"done", "failed"})
      BY <2>10 DEF Run, RunGet, RunPush, RunNext, RunSet, RunStopped, CloseConfig, configVars
    <3>. QED
      BY <3>1 DEF Contained, Behind
  <2>. QED
    BY <2>1, <2>2, <2>3, <2>4, <2>5, <2>6, <2>7, <2>8, <2>9, <2>10, <2>11, <2>12
    DEF ConfigNext, Watcher, Stopped, Load, Sync
<1>. QED
  BY <1>1, <1>2, PTL DEF ConfigSpec

(* The set of a source never goes back to an older content: it moves        *)
(* forward or, once the config is closed, is emptied (loader.go:257).       *)
THEOREM SetsGoForward == ConfigSpec => SetsForward
<1>. USE DEF fileVars, watchVars, loadVars, syncVars, runVars
<1>1. Contained /\ [ConfigNext]_configVars
        => [\A s \in Sources : sets'[s] >= sets[s] \/ (exit /\ sets'[s] = 0)]_configVars
  <2>. DEFINE SetsStep(r) == sets'[r] >= sets[r] \/ (exit /\ sets'[r] = 0)
  <2>. SUFFICES ASSUME Contained, ConfigNext PROVE \A r \in Sources : SetsStep(r)
    OBVIOUS
  <2>0. sets \in [Sources -> Nat]
    BY DEF Contained, Behind
  <2>1. ASSUME NEW s \in Sources, Store(s) PROVE \A r \in Sources : SetsStep(r)
    <3>1. sets'[s] = hand[s] /\ \A r \in Sources : r # s => sets'[r] = sets[r]
      BY <2>0, <2>1 DEF Store
    <3>2. hand[s] >= sets[s] \/ (exit /\ hand[s] = 0)
      BY <2>1 DEF Store, Contained, Behind
    <3>. QED
      BY <2>0, <3>1, <3>2
  <2>2. ASSUME NEW s \in Sources, LoadAppend(s) PROVE \A r \in Sources : SetsStep(r)
    <3>1. sets'[s] = fresh[s] /\ sets[s] = 0 /\ \A r \in Sources : r # s => sets'[r] = sets[r]
      BY <2>0, <2>2 DEF LoadAppend
    <3>2. fresh[s] \in Nat
      BY DEF Contained, Behind
    <3>. QED
      BY <2>0, <3>1, <3>2
  <2>3. CASE sets' = sets
    BY <2>0, <2>3
  <2>4. \/ \E s \in Sources : Store(s) \/ LoadAppend(s)
        \/ sets' = sets
    BY DEF ConfigNext, Write, Watcher, Watch, NextSet, Reload, ReloadFailed, Update,
           Stopped, StopWatcher, NextNil, NextClosed,
           Load, LoadRead, LoadReload, LoadFailed, LoadUpdate, LoadSnapshot, LoadView,
           SyncLock, Sync, SyncRead, SyncValues, SyncFailed, SyncUpdate, SyncSnapshot, SyncView,
           Run, RunGet, RunPush, RunNext, RunSet, RunStopped, CloseConfig
  <2>. QED
    BY <2>1, <2>2, <2>3, <2>4
<1>. QED
  BY <1>1, ContainedInductive, PTL DEF ConfigSpec, SetsForward

-----------------------------------------------------------------------------
(* A change of a file is in the set of its source, in the hands of its      *)
(* goroutine, announced by an event, or unseen, until the config is closed. *)
Told ==
    /\ events \in [Sources -> Nat]
    /\ unseen \in [Sources -> BOOLEAN] /\ watching \in [Sources -> BOOLEAN]

Newest(s) ==
    events[s] = 0 /\ ~unseen[s] =>
       /\ watcher[s] \in {"watch", "next", "reload", "update"} => sets[s] = content[s]
       /\ watcher[s] = "set" => hand[s] = content[s]
       /\ watcher[s] = "none" /\ fresh[s] # 0 => fresh[s] = content[s]

Seen ==
    /\ Told
    /\ ~exit => \A s \in Sources : Newest(s)
    /\ ~exit /\ loading \notin {"load", "append"} => AllRead

LEMMA ToldStep == ASSUME Told, ConfigNext PROVE Told'
<1>. USE DEF Told, fileVars, watchVars, loadVars, syncVars, runVars
<1>1. ASSUME NEW s \in Sources, Write(s) PROVE Told'
  <2>1. PICK b \in BOOLEAN : b <=> (unseen[s] \/ ~watching[s])
    OBVIOUS
  <2>2. unseen' = [unseen EXCEPT ![s] = b] /\ watching' = watching
    BY <1>1, <2>1 DEF Write
  <2>3. events' \in [Sources -> Nat]
    BY <1>1 DEF Write
  <2>. QED
    BY <2>2, <2>3
<1>2. ASSUME NEW s \in Sources, Unwatch(s) PROVE Told'
  <2>1. PICK b \in BOOLEAN : b <=> (unseen[s] \/ events[s] > 0)
    OBVIOUS
  <2>2. unseen' = [unseen EXCEPT ![s] = b]
    BY <1>2, <2>1 DEF Unwatch
  <2>3. events' \in [Sources -> Nat]
    BY <1>2 DEF Unwatch
  <2>4. watching' \in [Sources -> BOOLEAN]
    BY <1>2 DEF Unwatch
  <2>. QED
    BY <2>2, <2>3, <2>4
<1>3. ASSUME NEW s \in Sources, Watch(s) \/ NextSet(s) \/ LoadRead(s) PROVE Told'
  <2>1. events' \in [Sources -> Nat]
    BY <1>3 DEF Watch, NextSet, LoadRead
  <2>2. watching' \in [Sources -> BOOLEAN]
    BY <1>3 DEF Watch, NextSet, LoadRead
  <2>3. unseen' \in [Sources -> BOOLEAN]
    BY <1>3 DEF Watch, NextSet, LoadRead
  <2>. QED
    BY <2>1, <2>2, <2>3
<1>4. CASE UNCHANGED <<watching, events, unseen>>
  BY <1>4
<1>5. \/ \E s \in Sources : Write(s) \/ Unwatch(s) \/ Watch(s) \/ NextSet(s) \/ LoadRead(s)
      \/ UNCHANGED <<watching, events, unseen>>
  BY DEF ConfigNext, Watcher, Store, Reload, ReloadFailed, Update,
         Stopped, StopWatcher, NextNil, NextClosed, Load, LoadAppend, LoadReload, LoadFailed, LoadUpdate, LoadSnapshot, LoadView,
         SyncLock, Sync, SyncRead, SyncValues, SyncFailed, SyncUpdate, SyncSnapshot, SyncView,
         Run, RunGet, RunPush, RunNext, RunSet, RunStopped, CloseConfig
<1>. QED
  BY <1>1, <1>2, <1>3, <1>4, <1>5

LEMMA SeenInductive == ConfigSpec => []Seen
<1>. USE DEF fileVars, watchVars, loadVars, syncVars, runVars
<1>1. ConfigInit => Seen
  <2>. SUFFICES ASSUME ConfigInit PROVE Seen
    OBVIOUS
  <2>1. Told
    BY DEF ConfigInit, Told
  <2>. QED
    BY <2>1 DEF ConfigInit, Seen, Newest, Empty
<1>2. Contained /\ Seen /\ [ConfigNext]_configVars => Seen'
  <2>. SUFFICES ASSUME Contained, Seen, ConfigNext PROVE Seen'
    BY DEF configVars, Seen, Told, Newest, AllRead
  <2>0. Told /\ Told'
    BY ToldStep DEF Seen
  <2>. SUFFICES ASSUME ~exit'
                PROVE  /\ \A s \in Sources : Newest(s)'
                       /\ loading' \notin {"load", "append"} => AllRead'
    BY <2>0 DEF Seen
  <2>a. exit' = exit \/ exit' = TRUE
    BY DEF ConfigNext, Write, Watcher, Watch, NextSet, Store, Reload, ReloadFailed, Update,
           Stopped, StopWatcher, NextNil, NextClosed,
           Load, LoadRead, LoadAppend, LoadReload, LoadFailed, LoadUpdate, LoadSnapshot, LoadView,
           SyncLock, Sync, SyncRead, SyncValues, SyncFailed, SyncUpdate, SyncSnapshot, SyncView,
           Run, RunGet, RunPush, RunNext, RunSet, RunStopped, CloseConfig
  <2>b. /\ \A s \in Sources : Newest(s)
        /\ loading \notin {"load", "append"} => AllRead
    BY <2>a DEF Seen
  <2>c. ASSUME NEW s \in Sources PROVE ~Stopped(s)
    BY <2>a DEF Stopped, StopWatcher, NextNil, NextClosed, Contained
  <2>1. ASSUME NEW s \in Sources, Write(s)
        PROVE  (\A r \in Sources : Newest(r)') /\ UNCHANGED <<loading, sets>>
    <3>1. \A r \in Sources : r # s =>
             content'[r] = content[r] /\ events'[r] = events[r] /\ (unseen'[r] <=> unseen[r])
      BY <2>0, <2>1 DEF Write, Told, Contained
    <3>2. events'[s] # 0 \/ unseen'[s]
      <4>1. CASE watching[s]
        <5>1. events' = [events EXCEPT ![s] = @ + 1]
          BY <2>1, <4>1 DEF Write
        <5>2. events \in [Sources -> Nat]
          BY <2>0 DEF Told
        <5>. QED
          BY <5>1, <5>2
      <4>2. CASE ~watching[s]
        <5>1. unseen' = [unseen EXCEPT ![s] = unseen[s] \/ ~watching[s]]
          BY <2>1 DEF Write
        <5>2. unseen \in [Sources -> BOOLEAN]
          BY <2>0 DEF Told
        <5>. QED
          BY <4>2, <5>1, <5>2
      <4>. QED
        BY <4>1, <4>2
    <3>3. UNCHANGED <<watchVars, sets, loadVars>>
      BY <2>1 DEF Write
    <3>. QED
      BY <2>b, <3>1, <3>2, <3>3 DEF Newest
  <2>2. ASSUME NEW s \in Sources, NextSet(s)
        PROVE  (\A r \in Sources : Newest(r)') /\ UNCHANGED <<loading, sets>>
    <3>1. \A r \in Sources : r # s =>
             /\ hand'[r] = hand[r] /\ events'[r] = events[r] /\ (unseen'[r] <=> unseen[r])
             /\ watcher'[r] = watcher[r]
      BY <2>0, <2>2 DEF NextSet, Told, Contained, Behind
    <3>2. watcher'[s] = "set" /\ hand'[s] = content[s]
      BY <2>2 DEF NextSet, Contained, Behind
    <3>3. UNCHANGED <<content, sets, loadVars>>
      BY <2>2 DEF NextSet
    <3>. QED
      BY <2>b, <3>1, <3>2, <3>3 DEF Newest
  <2>3. ASSUME NEW s \in Sources, Store(s)
        PROVE  (\A r \in Sources : Newest(r)') /\ loading' = loading /\ (AllRead => AllRead')
    <3>1. sets'[s] = hand[s] /\ hand[s] # 0 /\ \A r \in Sources : r # s =>
             sets'[r] = sets[r] /\ hand'[r] = hand[r]
      BY <2>3, <2>a DEF Store, Contained, Behind
    <3>2. watcher[s] = "set" /\ watcher'[s] = "reload"
          /\ \A r \in Sources : r # s => watcher'[r] = watcher[r]
      BY <2>3 DEF Store, Contained
    <3>3. UNCHANGED <<fileVars, loadVars>>
      BY <2>3 DEF Store
    <3>. QED
      BY <2>b, <3>1, <3>2, <3>3 DEF Newest, AllRead
  <2>4. ASSUME NEW s \in Sources, Watch(s) \/ Reload(s) \/ Update(s)
        PROVE  (\A r \in Sources : Newest(r)') /\ UNCHANGED <<loading, sets>>
    <3>1. UNCHANGED <<content, events, unseen, hand, sets, loadVars>>
      BY <2>4 DEF Watch, Reload, Update
    <3>2. /\ watcher[s] \in {"watch", "reload", "update"}
          /\ watcher'[s] \in {"next", "update"}
          /\ \A r \in Sources : r # s => watcher'[r] = watcher[r]
      BY <2>4 DEF Watch, Reload, Update, Contained
    <3>. QED
      BY <2>b, <3>1, <3>2 DEF Newest
  <2>5. ASSUME NEW s \in Sources, ReloadFailed(s)
        PROVE  (\A r \in Sources : Newest(r)') /\ UNCHANGED <<loading, sets>>
    <3>1. UNCHANGED <<content, hand, sets, loadVars>> /\ Unwatch(s)
      BY <2>5 DEF ReloadFailed
    <3>2. \A r \in Sources : r # s => events'[r] = events[r] /\ (unseen'[r] <=> unseen[r])
      BY <2>0, <3>1 DEF Unwatch, Told
    <3>3. ~unseen'[s] => events[s] = 0 /\ ~unseen[s]
      <4>1. unseen' = [unseen EXCEPT ![s] = unseen[s] \/ events[s] > 0]
        BY <3>1 DEF Unwatch
      <4>2. unseen'[s] <=> (unseen[s] \/ events[s] > 0)
        BY <2>0, <4>1 DEF Told
      <4>3. events[s] \in Nat
        BY <2>0 DEF Told
      <4>. QED
        BY <4>2, <4>3
    <3>4. /\ watcher[s] = "reload" /\ watcher'[s] \in {"done", "watch"}
          /\ \A r \in Sources : r # s => watcher'[r] = watcher[r]
      BY <2>5 DEF ReloadFailed, Contained
    <3>. QED
      BY <2>b, <3>1, <3>2, <3>3, <3>4 DEF Newest
  <2>6. ASSUME NEW s \in Sources, LoadRead(s)
        PROVE  (\A r \in Sources : Newest(r)') /\ loading' = "append"
    <3>1. fresh'[s] = content[s] /\ \A r \in Sources : r # s =>
             fresh'[r] = fresh[r] /\ (unseen'[r] <=> unseen[r])
      BY <2>0, <2>6 DEF LoadRead, Contained, Behind, Told
    <3>2. watcher[s] = "none" /\ UNCHANGED <<content, events, watchVars, sets>> /\ loading' = "append"
      BY <2>6 DEF LoadRead
    <3>. QED
      BY <2>b, <3>1, <3>2 DEF Newest
  <2>7. ASSUME NEW s \in Sources, LoadAppend(s)
        PROVE  (\A r \in Sources : Newest(r)') /\ loading' = "load"
    <3>1. sets'[s] = fresh[s] /\ \A r \in Sources : r # s => sets'[r] = sets[r] /\ fresh'[r] = fresh[r]
      BY <2>7 DEF LoadAppend, Contained, Behind
    <3>2. /\ watcher[s] = "none" /\ watcher'[s] = "watch" /\ fresh[s] # 0
          /\ \A r \in Sources : r # s => watcher'[r] = watcher[r]
      BY <2>7 DEF LoadAppend, Contained
    <3>3. UNCHANGED <<fileVars, hand>> /\ loading' = "load"
      BY <2>7 DEF LoadAppend
    <3>. QED
      BY <2>b, <3>1, <3>2, <3>3 DEF Newest
  <2>8. CASE LoadReload \/ LoadFailed \/ LoadUpdate \/ LoadSnapshot \/ LoadView
    <3>1. UNCHANGED <<fileVars, watchVars, sets>> /\ AllRead
      BY <2>8, <2>b DEF LoadReload, LoadFailed, LoadUpdate, LoadSnapshot, LoadView
    <3>2. \A r \in Sources : watcher[r] # "none"
      BY <3>1 DEF AllRead, Contained
    <3>. QED
      BY <2>b, <3>1, <3>2 DEF Newest, AllRead
  <2>9. CASE UNCHANGED <<fileVars, watchVars, sets, loadVars>>
    BY <2>b, <2>9 DEF Newest, AllRead
  <2>10. \/ \E s \in Sources : Write(s) \/ Watcher(s) \/ Stopped(s)
         \/ Load \/ UNCHANGED <<fileVars, watchVars, sets, loadVars>>
    BY DEF ConfigNext, SyncLock, Sync, SyncRead, SyncValues, SyncFailed, SyncUpdate,
           SyncSnapshot, SyncView, Run, RunGet, RunPush, RunNext, RunSet, RunStopped, CloseConfig
  <2>. QED
    BY <2>1, <2>2, <2>3, <2>4, <2>5, <2>6, <2>7, <2>8, <2>9, <2>10, <2>b, <2>c
    DEF Watcher, Load, AllRead
<1>. QED
  BY <1>1, <1>2, ContainedInductive, PTL DEF ConfigSpec

-----------------------------------------------------------------------------
(* Why the values are not the sets: Load is not there yet, a set does not   *)
(* decode, a reload is due, or a set is behind its file.  A Sync that read  *)
(* something else than the sets has read something newer.                   *)
Owed ==
    /\ lock <=> syncing = "read"
    /\ syncing # "idle" => loading = "done"
    /\ unread \subseteq Sources
    /\ syncing = "read" => \A s \in Sources \ unread : sets[s] <= got[s]
    /\ \/ loading \in {"load", "append"}
       \/ values = sets
       \/ ~Decodes(sets)
       \/ \E s \in Sources : watcher[s] = "reload"
       \/ \E s \in Sources : sets[s] # content[s]

LEMMA OwedInductive == ConfigSpec => []Owed
<1>. USE DEF fileVars, watchVars, loadVars, syncVars, runVars
<1>1. ConfigInit => Owed
  BY DEF ConfigInit, Owed
<1>2. Contained /\ Contained' /\ Owed /\ [ConfigNext]_configVars => Owed'
  <2>. SUFFICES ASSUME Contained, Contained', Owed, [ConfigNext]_configVars PROVE Owed'
    OBVIOUS
  <2>1. ASSUME NEW s \in Sources, Write(s) PROVE Owed'
    <3>1. UNCHANGED <<watchVars, sets, values, loadVars, syncVars>>
      BY <2>1 DEF Write
    <3>2. \A r \in Sources : content'[r] = content[r] \/ content'[r] > content[r]
      <4>1. PICK k \in {1, 2} : content' = [content EXCEPT ![s] = @ + k]
        BY <2>1 DEF Write
      <4>. QED
        BY <4>1 DEF Contained
    <3>3. \A r \in Sources : sets[r] # content[r] => sets[r] # content'[r]
      BY <3>2 DEF Contained, Behind
    <3>. QED
      BY <3>1, <3>3 DEF Owed, Decodes
  <2>2. ASSUME NEW s \in Sources, Store(s) PROVE Owed'
    <3>1. watcher'[s] = "reload"
      BY <2>2 DEF Store, Contained
    <3>. QED
      BY <2>2, <3>1 DEF Store, Owed
  <2>3. ASSUME NEW s \in Sources, Reload(s) PROVE Owed'
    BY <2>3 DEF Reload, Owed
  <2>4. ASSUME NEW s \in Sources, ReloadFailed(s) PROVE Owed'
    BY <2>4 DEF ReloadFailed, Owed, Decodes
  <2>5. ASSUME NEW s \in Sources, Watch(s) \/ NextSet(s) \/ Update(s) \/ NextNil(s) \/ NextClosed(s)
        PROVE  Owed'
    <3>1. UNCHANGED <<content, sets, values, loadVars, syncVars>> /\ watcher[s] # "reload"
          /\ \A r \in Sources : r # s => watcher'[r] = watcher[r]
      BY <2>5 DEF Watch, NextSet, Update, NextNil, NextClosed, Contained
    <3>. QED
      BY <3>1 DEF Owed, Decodes
  <2>15. ASSUME NEW s \in Sources, StopWatcher(s) PROVE Owed'
    BY <2>15 DEF StopWatcher, Owed, Decodes
  <2>6. ASSUME NEW s \in Sources, LoadRead(s) \/ LoadAppend(s) PROVE Owed'
    BY <2>6 DEF LoadRead, LoadAppend, Owed
  <2>7. CASE LoadReload
    BY <2>7 DEF LoadReload, Owed
  <2>8. CASE LoadFailed
    BY <2>8 DEF LoadFailed, Owed, Decodes
  <2>9. CASE LoadUpdate \/ LoadSnapshot \/ LoadView
    <3>1. UNCHANGED <<content, watchVars, sets, values, syncVars>> /\ loading # "done"
          /\ loading \notin {"load", "append"}
      BY <2>9 DEF LoadUpdate, LoadSnapshot, LoadView
    <3>. QED
      BY <3>1 DEF Owed, Decodes
  <2>10. CASE SyncLock
    BY <2>10 DEF SyncLock, Owed, Decodes
  <2>11. ASSUME NEW s \in Sources, SyncRead(s) PROVE Owed'
    <3>1. got'[s] = content[s] /\ \A r \in Sources : r # s => got'[r] = got[r]
      BY <2>11 DEF SyncRead, Contained, Behind
    <3>2. UNCHANGED <<content, watchVars, sets, values, loadVars, lock, syncing>>
          /\ unread' = unread \ {s}
      BY <2>11 DEF SyncRead
    <3>3. sets[s] <= content[s]
      BY DEF Contained, Behind
    <3>. QED
      BY <3>1, <3>2, <3>3 DEF Owed, Decodes
  <2>12. CASE SyncValues
    <3>1. values' = got /\ UNCHANGED <<content, watchVars, sets, loadVars>>
          /\ \A s \in Sources : sets[s] <= got[s]
      BY <2>12 DEF SyncValues, Owed
    <3>2. \A s \in Sources : got[s] # sets[s] => sets[s] # content[s]
      BY <3>1 DEF Contained, Behind
    <3>3. got = sets \/ \E s \in Sources : got[s] # sets[s]
      BY DEF Contained, Behind
    <3>. QED
      BY <2>12, <3>1, <3>2, <3>3 DEF SyncValues, Owed
  <2>13. CASE SyncFailed \/ SyncUpdate \/ SyncSnapshot \/ SyncView
    BY <2>13 DEF SyncFailed, SyncUpdate, SyncSnapshot, SyncView, Owed, Decodes
  <2>14. CASE Run \/ RunStopped \/ CloseConfig \/ UNCHANGED configVars
    <3>1. UNCHANGED <<fileVars, watchVars, sets, values, loadVars, syncVars>>
      BY <2>14 DEF Run, RunGet, RunPush, RunNext, RunSet, RunStopped, CloseConfig, configVars
    <3>. QED
      BY <3>1 DEF Owed, Decodes
  <2>. QED
    BY <2>1, <2>2, <2>3, <2>4, <2>5, <2>6, <2>7, <2>8, <2>9, <2>10, <2>11, <2>12, <2>13, <2>14, <2>15
    DEF ConfigNext, Watcher, Stopped, Load, Sync
<1>. QED
  BY <1>1, <1>2, ContainedInductive, PTL DEF ConfigSpec

(* At rest the loader holds what the files say (loader.go:248-301,          *)
(* loader.go:156-189, loader.go:319-366).                                   *)
THEOREM LoaderIsCurrent == ConfigSpec => []LoaderCurrent
<1>1. Contained /\ Seen /\ Owed => LoaderCurrent
  <2>. SUFFICES ASSUME Contained, Seen, Owed, Rest, Decodes(content) PROVE values = content
    BY DEF LoaderCurrent
  <2>1. \A s \in Sources : sets[s] = content[s]
    BY DEF Rest, Seen, Newest
  <2>2. sets = content
    BY <2>1 DEF Contained, Behind
  <2>. QED
    BY <2>1, <2>2 DEF Owed, Rest
<1>. QED
  BY <1>1, ContainedInductive, SeenInductive, OwedInductive, PTL

-----------------------------------------------------------------------------
(* Contents that decode, and the channel of run: what Load, Sync and the    *)
(* watch goroutines pass on as a value has been merged.                     *)
Decoded == {m \in Contents : Decodes(m)}
Merged ==
    /\ content \in Contents /\ hand \in Contents /\ sets \in Contents
    /\ fresh \in Contents /\ got \in Contents
    /\ values \in Decoded /\ known \in Decoded /\ next \in Decoded /\ view \in Decoded
    /\ loading = "view" => fresh \in Decoded
    /\ syncing = "view" => got \in Decoded
    /\ updates = <<>> \/ \E m \in Decoded : updates = <<m>>

Places ==
    /\ Told
    /\ watcher \in [Sources -> {"none", "watch", "next", "set", "reload", "update", "done"}]
    /\ loading \in {"load", "append", "update", "snapshot", "view", "done", "failed"}
    /\ syncing \in {"idle", "read", "update", "snapshot", "view"}
    /\ run \in {"get", "push", "next", "set", "done"}
    /\ lock \in BOOLEAN /\ exit \in BOOLEAN
    /\ syncs \in 0..MaxSyncs /\ unread \subseteq Sources

LEMMA ReplacedContent ==
  ASSUME NEW m \in Contents, NEW s \in Sources, NEW n \in 0..MaxContent
  PROVE  [m EXCEPT ![s] = n] \in Contents
BY DEF Contents

LEMMA MergedStep == ASSUME Merged, [ConfigNext]_configVars PROVE Merged'
<1>. USE DEF fileVars, watchVars, loadVars, syncVars, runVars
<1>0. \A s \in Sources : content[s] \in 0..MaxContent /\ hand[s] \in 0..MaxContent
                         /\ fresh[s] \in 0..MaxContent
  BY DEF Merged, Contents
<1>1. ASSUME NEW s \in Sources, Write(s) PROVE Merged'
  <2>1. PICK k \in {1, 2} : content' = [content EXCEPT ![s] = @ + k]
    BY <1>1 DEF Write
  <2>2. content[s] + k \in 0..MaxContent
    BY <2>1, <1>1, <1>0, ConfigAssumption DEF Write, Merged, Contents
  <2>3. content' \in Contents
    BY <2>1, <2>2, ReplacedContent DEF Merged
  <2>. QED
    BY <1>1, <2>3 DEF Write, Merged
<1>2. ASSUME NEW s \in Sources, NextSet(s) \/ NextNil(s) \/ Store(s) \/ LoadRead(s) \/ LoadAppend(s) \/ SyncRead(s)
      PROVE  Merged'
  <2>0. 0 \in 0..MaxContent
    BY ConfigAssumption
  <2>1. CASE NextSet(s) \/ NextNil(s) \/ Store(s)
    BY <2>0, <2>1, <1>0, ReplacedContent DEF NextSet, NextNil, Store, Merged
  <2>2. CASE LoadRead(s) \/ LoadAppend(s)
    BY <2>0, <2>2, <1>0, ReplacedContent DEF LoadRead, LoadAppend, Merged
  <2>3. CASE SyncRead(s)
    BY <2>3, <1>0, ReplacedContent DEF SyncRead, Merged
  <2>. QED
    BY <1>2, <2>1, <2>2, <2>3
<1>3. ASSUME NEW s \in Sources, Watch(s) \/ Reload(s) \/ ReloadFailed(s) \/ StopWatcher(s) \/ NextClosed(s)
      PROVE  Merged'
  BY <1>3 DEF Watch, Reload, ReloadFailed, StopWatcher, NextClosed, Merged, Decoded
<1>4. CASE (\E s \in Sources : Update(s)) \/ LoadUpdate \/ SyncUpdate
  <2>1. updates' = updates \/ updates' = <<values>>
    BY <1>4 DEF Update, LoadUpdate, SyncUpdate, Offer
  <2>2. /\ UNCHANGED <<content, hand, sets, fresh, got, values, known, next, view>>
        /\ loading' = loading \/ loading' = "snapshot"
        /\ syncing' = syncing \/ syncing' = "snapshot"
    BY <1>4 DEF Update, LoadUpdate, SyncUpdate
  <2>. QED
    BY <2>1, <2>2 DEF Merged
<1>a. Empty \in Contents
  BY ConfigAssumption DEF Empty, Contents
<1>5. CASE LoadReload \/ LoadFailed \/ LoadSnapshot \/ LoadView
  BY <1>5, <1>a DEF LoadReload, LoadFailed, LoadSnapshot, LoadView, Merged, Decoded
<1>6. CASE SyncLock \/ SyncValues \/ SyncFailed \/ SyncSnapshot \/ SyncView
  BY <1>6, <1>a DEF SyncLock, SyncValues, SyncFailed, SyncSnapshot, SyncView, Merged, Decoded
<1>7. CASE RunNext
  <2>1. PICK m \in Decoded : updates = <<m>>
    BY <1>7 DEF RunNext, Merged
  <2>2. Head(updates) = m
    BY <2>1
  <2>. QED
    BY <1>7, <2>2 DEF RunNext, Merged
<1>8. CASE RunGet \/ RunPush \/ RunSet \/ RunStopped \/ CloseConfig \/ UNCHANGED configVars
  BY <1>8 DEF RunGet, RunPush, RunSet, RunStopped, CloseConfig, Merged, configVars
<1>. QED
  BY <1>1, <1>2, <1>3, <1>4, <1>5, <1>6, <1>7, <1>8 DEF ConfigNext, Watcher, Stopped, Load, Sync, Run

LEMMA PlacesStep == ASSUME Places, ConfigNext PROVE Places'
<1>. USE DEF Places, fileVars, watchVars, loadVars, syncVars, runVars
<1>0. Told'
  BY ToldStep
<1>1. ASSUME NEW s \in Sources, Write(s) PROVE Places'
  BY <1>0, <1>1 DEF Write
<1>2. ASSUME NEW s \in Sources, Watcher(s) \/ Stopped(s) PROVE Places'
  <2>1. watcher' = watcher \/ \E w \in {"watch", "next", "set", "reload", "update", "done"} :
           watcher' = [watcher EXCEPT ![s] = w]
    BY <1>2 DEF Watcher, Watch, NextSet, Store, Reload, ReloadFailed, Update,
                Stopped, StopWatcher, NextNil, NextClosed
  <2>2. UNCHANGED <<loading, syncing, run, lock, exit, syncs, unread>>
    BY <1>2 DEF Watcher, Watch, NextSet, Store, Reload, ReloadFailed, Update,
                Stopped, StopWatcher, NextNil, NextClosed
  <2>. QED
    BY <1>0, <2>1, <2>2
<1>3. ASSUME NEW s \in Sources, LoadRead(s) \/ LoadAppend(s) \/ SyncRead(s) PROVE Places'
  BY <1>0, <1>3 DEF LoadRead, LoadAppend, SyncRead
<1>4. CASE LoadReload \/ LoadFailed \/ LoadUpdate \/ LoadSnapshot \/ LoadView
  BY <1>0, <1>4 DEF LoadReload, LoadFailed, LoadUpdate, LoadSnapshot, LoadView
<1>5. CASE SyncLock \/ SyncValues \/ SyncFailed \/ SyncUpdate \/ SyncSnapshot \/ SyncView
  <2>1. syncs' \in 0..MaxSyncs
    BY <1>5, ConfigAssumption
       DEF SyncLock, SyncValues, SyncFailed, SyncUpdate, SyncSnapshot, SyncView
  <2>. QED
    BY <1>0, <1>5, <2>1 DEF SyncLock, SyncValues, SyncFailed, SyncUpdate, SyncSnapshot, SyncView
<1>6. CASE Run \/ RunStopped \/ CloseConfig
  BY <1>0, <1>6 DEF Run, RunGet, RunPush, RunNext, RunSet, RunStopped, CloseConfig
<1>. QED
  BY <1>1, <1>2, <1>3, <1>4, <1>5, <1>6 DEF ConfigNext, Load, Sync

LEMMA MergedInductive == ConfigSpec => [](Merged /\ Places)
<1>1. ConfigInit => Merged /\ Places
  <2>. SUFFICES ASSUME ConfigInit PROVE Merged /\ Places
    OBVIOUS
  <2>1. Empty \in Decoded /\ [s \in Sources |-> 2] \in Contents
    BY ConfigAssumption DEF Empty, Decoded, Contents, Decodes, Whole
  <2>2. Decoded \subseteq Contents
    BY DEF Decoded
  <2>3. Merged
    BY <2>1, <2>2 DEF ConfigInit, Merged
  <2>4. Told
    BY DEF ConfigInit, Told
  <2>5. /\ watcher \in [Sources -> {"none", "watch", "next", "set", "reload", "update", "done"}]
        /\ loading = "load" /\ syncing = "idle" /\ run = "get"
    BY DEF ConfigInit
  <2>6. syncs \in 0..MaxSyncs /\ unread \subseteq Sources
    BY ConfigAssumption DEF ConfigInit
  <2>7. lock \in BOOLEAN /\ exit \in BOOLEAN
    BY DEF ConfigInit
  <2>8. Places
    BY <2>4, <2>5, <2>6, <2>7 DEF Places
  <2>. QED
    BY <2>3, <2>8
<1>2. (Merged /\ Places) /\ [ConfigNext]_configVars => (Merged /\ Places)'
  <2>1. ASSUME Places, UNCHANGED configVars PROVE Places'
    BY <2>1 DEF Places, Told, configVars, fileVars, watchVars, loadVars, syncVars, runVars
  <2>. QED
    BY <2>1, MergedStep, PlacesStep
<1>. QED
  BY <1>1, <1>2, PTL DEF ConfigSpec

(* Whatever writers leave half done and goroutines interleave, only merged  *)
(* values are kept and passed on (loader.go:296): what config.Get reads was *)
(* never taken from a file that does not decode.                            *)
THEOREM ViewIsWhole == ConfigSpec => [](Decodes(view) /\ Decodes(values))
<1>1. Merged => Decodes(view) /\ Decodes(values)
  BY DEF Merged, Decoded
<1>. QED
  BY <1>1, MergedInductive, PTL

(* The state of the configuration is of the declared type.                  *)
THEOREM ConfigTypes == ConfigSpec => []ConfigTypeOK
<1>1. Merged /\ Places => ConfigTypeOK
  <2>. SUFFICES ASSUME Merged, Places PROVE ConfigTypeOK
    OBVIOUS
  <2>1. updates \in Seq(Contents) /\ Len(updates) <= 1
    <3>1. CASE updates = <<>>
      BY <3>1
    <3>2. ASSUME NEW m \in Decoded, updates = <<m>> PROVE updates \in Seq(Contents) /\ Len(updates) <= 1
      BY <3>2 DEF Decoded
    <3>. QED
      BY <3>1, <3>2 DEF Merged
  <2>. QED
    BY <2>1 DEF Merged, Places, Told, Decoded, ConfigTypeOK
<1>. QED
  BY <1>1, MergedInductive, PTL

-----------------------------------------------------------------------------
(* Sessions and configuration in one behaviour: every step is a step of one *)
(* of them and leaves the other alone.                                      *)
THEOREM SafetyRunsBoth == SafetySpec => Spec /\ ConfigSpec
<1>1. SafetyInit => Init /\ ConfigInit
  BY DEF SafetyInit
<1>2. [SafetyNext]_safetyVars => [Next]_vars /\ [ConfigNext]_configVars
  BY DEF SafetyNext, safetyVars
<1>. QED
  BY <1>1, <1>2, PTL DEF SafetySpec, Spec, ConfigSpec

(* The state of both is of the declared type.                               *)
THEOREM SafetyTypes == SafetySpec => []SafetyTypeOK
<1>1. TypeOK /\ ConfigTypeOK => SafetyTypeOK
  BY DEF SafetyTypeOK
<1>. QED
  BY <1>1, SafetyRunsBoth, TypeInvariant, ConfigTypes, PTL
=============================================================================
