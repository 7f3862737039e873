--------------------------- MODULE LogFileProofs ---------------------------
(* The rolling log file for every size, limit and layout of the             *)
(* directories, whatever crashes and fails: it loses no record and keeps no *)
(* more backups than it should; and the two logs of the station together.   *)
EXTENDS MCLogs, RingLogProofs

(* Every backup has a stamp under which something was rotated out, and      *)
(* there are finitely many of those.                                        *)
Stamped ==
    /\ wrote \in Nat /\ clock \in Nat /\ maxAge \in Nat
    /\ IsFiniteSet(DOMAIN made) /\ DOMAIN made \subseteq Nat
    /\ DOMAIN plain \subseteq DOMAIN made /\ DOMAIN zip \subseteq DOMAIN made

(* What openNew is about to create or empty holds nothing, and an open file *)
(* is there, but none while openNew works.                                  *)
Creating == moving \in {"rotate", "write", "open"}
Emptied ==
    /\ ~exists \/ Creating => live = {}
    /\ open => exists /\ moving = "no"

(* The two halves of RecordsKept.                                           *)
AllWritten ==
    \A r \in 1..wrote : r \in live \/ \E t \in DOMAIN made : r \in made[t] \/ t \in twice
Kept == \A t \in DOMAIN made : Readable(t) \/ t \in twice \/ Gone(t)

(* A plain backup is what was renamed.                                      *)
PlainWhole == \A t \in DOMAIN plain : t \notin twice => plain[t] = made[t]

(* The source of a compression is there until its copy is complete.         *)
Packing ==
    /\ mill \in {"copy", "drop"} => Latest \in DOMAIN plain
    /\ mill = "copy" /\ Latest \notin twice => body = made[Latest]
    /\ mill = "drop" /\ Latest \notin twice =>
          Latest \in DOMAIN zip /\ zip[Latest] = made[Latest]

(* Only what the limits ask for is removed.                                 *)
Justified == \A f \in remove : f[1] \in Nat /\ Gone(f[1])

LogInv == Stamped /\ Emptied /\ AllWritten /\ Kept /\ PlainWhole /\ Packing /\ Justified

-----------------------------------------------------------------------------
(* Of more stamps, at least as many are newer.                              *)
LEMMA NewerGrows ==
  ASSUME NEW S, NEW T, IsFiniteSet(T), S \subseteq T, NEW t
  PROVE  /\ Cardinality(Newer(S, t)) \in Nat /\ Cardinality(Newer(T, t)) \in Nat
         /\ Cardinality(Newer(S, t)) <= Cardinality(Newer(T, t))
<1>1. Newer(S, t) \subseteq Newer(T, t) /\ Newer(T, t) \subseteq T
  BY DEF Newer
<1>2. IsFiniteSet(Newer(T, t))
  BY <1>1, FS_Subset
<1>3. IsFiniteSet(Newer(S, t))
  BY <1>1, <1>2, FS_Subset
<1>. QED
  BY <1>1, <1>2, <1>3, FS_Subset, FS_CardinalityType

(* What the limits ask to remove they go on asking for: rotations only add  *)
(* stamps, and the clock does not go back.                                  *)
LEMMA GoneStays ==
  ASSUME Stamped, Stamped', DOMAIN made \subseteq DOMAIN made', clock <= clock',
         maxAge' = maxAge, NEW t \in Nat, Gone(t)
  PROVE  Gone(t)'
<1>. USE LogFileAssumption
<1>1. CASE Expired(t)
  BY <1>1 DEF Expired, Gone, Stamped
<1>2. CASE MaxBackups > 0 /\ Cardinality(Newer(DOMAIN made, t)) >= MaxBackups
  <2>1. /\ Cardinality(Newer(DOMAIN made, t)) \in Nat
        /\ Cardinality(Newer(DOMAIN made', t)) \in Nat
        /\ Cardinality(Newer(DOMAIN made, t)) <= Cardinality(Newer(DOMAIN made', t))
    BY NewerGrows DEF Stamped
  <2>2. Cardinality(Newer(DOMAIN made', t)) >= MaxBackups
    BY <1>2, <2>1
  <2>. QED
    BY <1>2, <2>2 DEF Gone, Newer
<1>. QED
  BY <1>1, <1>2 DEF Gone

(* What millRunOnce finds surplus among the files it lists is surplus among *)
(* all that were ever made.                                                 *)
LEMMA SurplusGone ==
  ASSUME Stamped, NEW f \in Listed, Surplus(f[1]) \/ Expired(f[1])
  PROVE  f[1] \in Nat /\ Gone(f[1])
<1>. USE LogFileAssumption
<1>1. Stamps(Listed) \subseteq DOMAIN made
  BY DEF Stamps, Listed, Log, Gz, Stamped
<1>2. f[1] \in Nat
  BY <1>1 DEF Stamps, Stamped
<1>3. /\ Cardinality(Newer(Stamps(Listed), f[1])) \in Nat
      /\ Cardinality(Newer(DOMAIN made, f[1])) \in Nat
      /\ Cardinality(Newer(Stamps(Listed), f[1])) <= Cardinality(Newer(DOMAIN made, f[1]))
  BY <1>1, NewerGrows DEF Stamped
<1>. QED
  BY <1>2, <1>3 DEF Surplus, Gone

-----------------------------------------------------------------------------
(* The names of everything but the clock and the backups, left alone.       *)
LEMMA MoveAsideKeeps ==
  ASSUME LogInv, NEW next, MoveAside(next),
         UNCHANGED <<maxAge, remove>>
  PROVE  LogInv'
<1>. USE DEF LogInv
<1>1. /\ plain' = With(plain, clock, live) /\ made' = With(made, clock, live)
      /\ twice' = IF clock \in DOMAIN made THEN twice \cup {clock} ELSE twice
      /\ live' = {} /\ open' = FALSE /\ wrote' = wrote /\ clock' = clock /\ zip' = zip
      /\ mill' = mill /\ compress' = compress /\ body' = body
  BY DEF MoveAside, config
<1>2. /\ DOMAIN made' = DOMAIN made \cup {clock} /\ DOMAIN plain' = DOMAIN plain \cup {clock}
      /\ made'[clock] = live /\ plain'[clock] = live
      /\ \A t \in DOMAIN made : t # clock => made'[t] = made[t]
      /\ \A t \in DOMAIN plain : t # clock => plain'[t] = plain[t]
  BY <1>1 DEF With
<1>3. IsFiniteSet(DOMAIN made')
  BY <1>2, FS_AddElement DEF Stamped
<1>4. Stamped'
  BY <1>1, <1>2, <1>3 DEF Stamped
<1>5. Emptied'
  BY <1>1 DEF Emptied
<1>6. AllWritten'
  <2>. SUFFICES ASSUME NEW r \in 1..wrote
                PROVE  \E t \in DOMAIN made' : r \in made'[t] \/ t \in twice'
    BY <1>1 DEF AllWritten
  <2>1. CASE r \in live
    BY <2>1, <1>2
  <2>2. ASSUME NEW t \in DOMAIN made, r \in made[t] \/ t \in twice
        PROVE  \E u \in DOMAIN made' : r \in made'[u] \/ u \in twice'
    BY <2>2, <1>1, <1>2
  <2>. QED
    BY <2>1, <2>2 DEF AllWritten
<1>7. PlainWhole'
  BY <1>1, <1>2 DEF PlainWhole, Stamped
<1>8. Kept'
  <2>. SUFFICES ASSUME NEW t \in DOMAIN made', t \notin twice'
                PROVE  Readable(t)' \/ Gone(t)'
    BY DEF Kept
  <2>1. CASE t = clock
    BY <2>1, <1>2 DEF Readable
  <2>2. CASE t # clock
    <3>1. t \in DOMAIN made /\ t \notin twice
      BY <2>2, <1>1, <1>2
    <3>2. CASE Readable(t)
      BY <2>2, <3>1, <3>2, <1>1, <1>2 DEF Readable
    <3>3. CASE Gone(t)
      BY <3>1, <3>3, <1>1, <1>2, <1>4, GoneStays DEF Stamped
    <3>. QED
      BY <3>1, <3>2, <3>3 DEF Kept
  <2>. QED
    BY <2>1, <2>2
<1>9. Packing'
  <2>1. Latest' = Latest
    BY <1>1 DEF Latest
  <2>. QED
    BY <2>1, <1>1, <1>2 DEF Packing, Stamped
<1>10. Justified'
  <2>. SUFFICES ASSUME NEW f \in remove PROVE f[1] \in Nat /\ Gone(f[1])'
    BY DEF Justified
  <2>. QED
    BY <1>1, <1>2, <1>4, GoneStays DEF Justified, Stamped
<1>. QED
  BY <1>4, <1>5, <1>6, <1>7, <1>8, <1>9, <1>10

(* Steps that leave the backups, their stamps and the mill's work alone.    *)
LEMMA QuietKeeps ==
  ASSUME LogInv, Emptied', AllWritten', clock' \in Nat, clock <= clock', wrote' \in Nat,
         UNCHANGED <<maxAge, plain, zip, made, twice, mill, remove, compress, body>>
  PROVE  LogInv'
<1>. USE DEF LogInv
<1>1. Stamped'
  BY DEF Stamped
<1>2. Kept'
  <2>. SUFFICES ASSUME NEW t \in DOMAIN made, t \notin twice, ~Gone(t)'
                PROVE  Readable(t)'
    BY DEF Kept
  <2>1. ~Gone(t)
    BY <1>1, GoneStays DEF Stamped
  <2>. QED
    BY <2>1 DEF Kept, Readable
<1>3. PlainWhole' /\ Packing'
  BY DEF PlainWhole, Packing, Latest
<1>4. Justified'
  <2>. SUFFICES ASSUME NEW f \in remove PROVE f[1] \in Nat /\ Gone(f[1])'
    BY DEF Justified
  <2>. QED
    BY <1>1, GoneStays DEF Justified, Stamped
<1>. QED
  BY <1>1, <1>2, <1>3, <1>4

(* Steps of the mill: what was written and rotated out stays as it is.      *)
LEMMA MillKeeps ==
  ASSUME LogInv, UNCHANGED <<maxAge, logFileVars, made, twice>>,
         DOMAIN plain' \subseteq DOMAIN plain, DOMAIN zip' \subseteq DOMAIN made,
         \A t \in DOMAIN plain' : plain'[t] = plain[t],
         \A t \in DOMAIN made : t \notin twice /\ ~Gone(t) => Readable(t)',
         Packing', \A f \in remove' : f[1] \in Nat /\ Gone(f[1])
  PROVE  LogInv'
<1>. USE DEF LogInv, logFileVars
<1>1. Stamped' /\ Emptied' /\ AllWritten'
  BY DEF Stamped, Emptied, Creating, AllWritten
<1>2. \A t : Gone(t)' <=> Gone(t)
  BY DEF Gone, Expired, Newer
<1>3. Kept'
  BY <1>2 DEF Kept
<1>4. PlainWhole'
  BY DEF PlainWhole
<1>5. Justified'
  BY <1>2 DEF Justified
<1>. QED
  BY <1>1, <1>3, <1>4, <1>5

(* No step of Write, Rotate, Close, the mill, a crash or the clock breaks   *)
(* the invariant.                                                           *)
LEMMA LogInductive == LogSpec => []LogInv
<1>1. LogInit => LogInv
  <2>. SUFFICES ASSUME LogInit PROVE LogInv
    OBVIOUS
  <2>1. /\ wrote = 0 /\ clock = 0 /\ maxAge \in Ages /\ live = {} /\ remove = {} /\ mill = "rest"
        /\ open = FALSE /\ DOMAIN made = {} /\ DOMAIN plain = {} /\ DOMAIN zip = {}
    BY DEF LogInit
  <2>2. Stamped
    BY <2>1, LogFileAssumption, FS_EmptySet DEF Stamped
  <2>. QED
    BY <2>1, <2>2 DEF LogInv, Emptied, AllWritten, Kept, PlainWhole, Packing, Justified
<1>2. LogInv /\ [LogNext]_logVars => LogInv'
  <2>. SUFFICES ASSUME LogInv, [LogNext]_logVars PROVE LogInv'
    OBVIOUS
  <2>. wrote \in Nat /\ clock \in Nat
    BY DEF LogInv, Stamped
  <2>1. CASE RotateFull \/ ReopenFails \/ ReopenFull \/ (Rotate /\ exists)
    <3>1. UNCHANGED <<maxAge, remove>>
      BY <2>1 DEF RotateFull, ReopenFails, ReopenFull, Rotate, MoveAside, config
    <3>. QED
      BY <2>1, <3>1, MoveAsideKeeps DEF RotateFull, ReopenFails, ReopenFull, Rotate
  <2>2. CASE AppendRecord \/ Reopen
    <3>1. /\ wrote' = wrote + 1 /\ live' = live \cup {wrote + 1} /\ exists /\ exists'
          /\ moving' = "no"
          /\ UNCHANGED <<maxAge, clock, plain, zip, made, twice, mill, remove, compress, body>>
      BY <2>2 DEF AppendRecord, Reopen, config, diskVars, millVars, LogInv, Emptied
    <3>2. Emptied' /\ AllWritten'
      BY <3>1 DEF LogInv, Emptied, Creating, AllWritten
    <3>. QED
      BY <3>1, <3>2, QuietKeeps
  <2>3. CASE CreateNew
    <3>1. /\ exists' = TRUE /\ moving' = "no" /\ live = {}
          /\ \/ live' = {} /\ wrote' = wrote
             \/ live' = {wrote + 1} /\ wrote' = wrote + 1
          /\ UNCHANGED <<maxAge, clock, plain, zip, made, twice, mill, remove, compress, body>>
      BY <2>3 DEF CreateNew, config, diskVars, LogInv, Emptied, Creating
    <3>2. Emptied' /\ AllWritten'
      BY <3>1 DEF LogInv, Emptied, Creating, AllWritten
    <3>. QED
      BY <3>1, <3>2, QuietKeeps
  <2>4. CASE \/ Wake \/ LookFails \/ OpenFirst \/ CreateFails \/ CloseFile \/ TimePasses
             \/ Rotate /\ ~exists
    <3>1. /\ live' = live /\ wrote' = wrote /\ clock' \in {clock, clock + 1}
          /\ UNCHANGED <<maxAge, plain, zip, made, twice, mill, remove, compress, body>>
      BY <2>4 DEF Wake, LookFails, OpenFirst, CreateFails, CloseFile, TimePasses, Rotate,
                  config, diskVars, millVars
    <3>2. Emptied'
      <4>. USE DEF LogInv, Emptied, Creating
      <4>1. CASE Wake \/ LookFails \/ OpenFirst
        BY <4>1 DEF Wake, LookFails, OpenFirst
      <4>2. CASE CreateFails \/ CloseFile
        BY <4>2 DEF CreateFails, CloseFile
      <4>3. CASE TimePasses \/ (Rotate /\ ~exists)
        BY <4>3 DEF TimePasses, Rotate
      <4>. QED
        BY <2>4, <4>1, <4>2, <4>3
    <3>3. AllWritten'
      BY <3>1 DEF LogInv, AllWritten
    <3>. QED
      BY <3>1, <3>2, <3>3, QuietKeeps
  <2>5. CASE ListFails \/ UNCHANGED logVars
    <3>1. UNCHANGED <<maxAge, logFileVars, plain, zip, made, twice, mill, remove, compress, body>>
      BY <2>5 DEF ListFails, logVars, config, diskVars, millVars
    <3>2. Emptied' /\ AllWritten'
      BY <3>1 DEF logFileVars, LogInv, Emptied, Creating, AllWritten
    <3>. QED
      BY <3>1, <3>2, QuietKeeps DEF logFileVars
  <2>6. CASE Crash
    <3>1. /\ live' = live /\ exists' = exists /\ wrote' = wrote /\ clock' = clock
          /\ open' = FALSE /\ moving' = "no" /\ mill' = "rest" /\ remove' = {}
          /\ UNCHANGED <<maxAge, plain, zip, made, twice>>
      BY <2>6 DEF Crash, config, diskVars
    <3>2. Stamped' /\ Emptied' /\ AllWritten' /\ PlainWhole' /\ Packing' /\ Justified'
      BY <3>1 DEF LogInv, Stamped, Emptied, Creating, AllWritten, PlainWhole, Packing, Justified
    <3>3. Kept'
      BY <3>1 DEF LogInv, Kept, Readable, Gone, Expired, Newer
    <3>. QED
      BY <3>2, <3>3 DEF LogInv
  <2>7. CASE MillTake
    <3>1. /\ \A f \in remove' : f \in Listed /\ (Surplus(f[1]) \/ Expired(f[1]))
          /\ mill' = "sweep"
          /\ UNCHANGED <<maxAge, logFileVars, plain, zip, made, twice>>
      BY <2>7 DEF MillTake, config, diskVars
    <3>2. \A f \in remove' : f[1] \in Nat /\ Gone(f[1])
      BY <3>1, SurplusGone DEF LogInv
    <3>3. Packing'
      BY <3>1 DEF Packing
    <3>. QED
      BY <3>1, <3>2, <3>3, MillKeeps DEF LogInv, Stamped, Kept, Readable
  <2>8. CASE Remove
    <3>1. PICK f \in remove :
             /\ remove' = remove \ {f} /\ mill = "sweep" /\ mill' = "sweep"
             /\ plain' \in {plain, Without(plain, f[1])}
             /\ zip' \in {zip, Without(zip, f[1])}
             /\ UNCHANGED <<maxAge, logFileVars, made, twice>>
      BY <2>8 DEF Remove, config, diskVars
    <3>2. f[1] \in Nat /\ Gone(f[1])
      BY <3>1 DEF LogInv, Justified
    <3>3. /\ DOMAIN plain' \subseteq DOMAIN plain /\ DOMAIN zip' \subseteq DOMAIN made
          /\ \A t \in DOMAIN plain' : plain'[t] = plain[t]
          /\ \A t \in DOMAIN plain : t # f[1] => t \in DOMAIN plain'
          /\ \A t \in DOMAIN zip : t # f[1] => t \in DOMAIN zip' /\ zip'[t] = zip[t]
      BY <3>1 DEF Without, LogInv, Stamped
    <3>4. \A t \in DOMAIN made : t \notin twice /\ ~Gone(t) => Readable(t)'
      BY <3>1, <3>2, <3>3 DEF LogInv, Kept, Readable
    <3>5. Packing'
      BY <3>1 DEF Packing
    <3>6. \A g \in remove' : g[1] \in Nat /\ Gone(g[1])
      BY <3>1 DEF LogInv, Justified
    <3>. QED
      BY <3>1, <3>3, <3>4, <3>5, <3>6, MillKeeps
  <2>9. CASE Compress \/ (CompressFails /\ mill = "sweep")
    <3>1. /\ \/ zip' = zip
             \/ Latest \in DOMAIN plain /\ zip' = With(zip, Latest, {})
          /\ plain' = plain /\ remove' \subseteq remove
          /\ UNCHANGED <<maxAge, logFileVars, made, twice>>
      BY <2>9 DEF Compress, CompressFails, config
    <3>2. DOMAIN zip' \subseteq DOMAIN made
      BY <3>1 DEF With, LogInv, Stamped
    <3>3. \A t \in DOMAIN made : t \notin twice /\ ~Gone(t) => Readable(t)'
      BY <3>1 DEF With, LogInv, Kept, Readable, PlainWhole
    <3>4. Packing'
      <4>1. CASE Compress
        <5>1. /\ mill' = "copy" /\ Latest \in DOMAIN plain /\ body' = plain[Latest]
              /\ compress' = compress /\ plain' = plain /\ made' = made /\ twice' = twice
          BY <4>1 DEF Compress
        <5>2. Latest' = Latest
          BY <5>1 DEF Latest
        <5>. QED
          BY <5>1, <5>2 DEF Packing, LogInv, PlainWhole
      <4>2. CASE CompressFails
        BY <4>2 DEF CompressFails, Packing
      <4>. QED
        BY <2>9, <4>1, <4>2
    <3>5. \A f \in remove' : f[1] \in Nat /\ Gone(f[1])
      BY <3>1 DEF LogInv, Justified
    <3>. QED
      BY <3>1, <3>2, <3>3, <3>4, <3>5, MillKeeps
  <2>10. CASE Copy
    <3>1. /\ mill = "copy" /\ mill' = "drop" /\ zip' = With(zip, Latest, body)
          /\ Latest' = Latest
          /\ UNCHANGED <<maxAge, logFileVars, plain, remove, body, made, twice>>
      BY <2>10 DEF Copy, config, Latest
    <3>2. Latest \in DOMAIN plain /\ (Latest \notin twice => body = made[Latest])
      BY <3>1 DEF LogInv, Packing
    <3>3. DOMAIN zip' \subseteq DOMAIN made
      BY <3>1, <3>2 DEF With, LogInv, Stamped
    <3>4. \A t \in DOMAIN made : t \notin twice /\ ~Gone(t) => Readable(t)'
      BY <3>1, <3>2 DEF With, LogInv, Kept, Readable
    <3>5. Packing'
      BY <3>1, <3>2 DEF Packing, With
    <3>. QED
      BY <3>1, <3>3, <3>4, <3>5, MillKeeps DEF LogInv, Justified
  <2>11. CASE DropSource
    <3>1. /\ mill = "drop" /\ mill' = "sweep" /\ plain' = Without(plain, Latest) /\ zip' = zip
          /\ UNCHANGED <<maxAge, logFileVars, remove, made, twice>>
      BY <2>11 DEF DropSource, config
    <3>2. \A t \in DOMAIN made : t \notin twice /\ ~Gone(t) => Readable(t)'
      BY <3>1 DEF Without, LogInv, Kept, Readable, Packing
    <3>3. Packing'
      BY <3>1 DEF Packing
    <3>4. /\ DOMAIN plain' \subseteq DOMAIN plain
          /\ \A t \in DOMAIN plain' : plain'[t] = plain[t]
      BY <3>1 DEF Without
    <3>. QED
      BY <3>1, <3>2, <3>3, <3>4, MillKeeps DEF LogInv, Justified, Stamped
  <2>12. CASE CompressFails /\ mill # "sweep"
    <3>1. /\ mill \in {"copy", "drop"} /\ mill' = "sweep"
          /\ zip' = Without(zip, Latest) /\ plain' = plain
          /\ UNCHANGED <<maxAge, logFileVars, remove, made, twice>>
      BY <2>12 DEF CompressFails, config
    <3>2. \A t \in DOMAIN made : t \notin twice /\ ~Gone(t) => Readable(t)'
      BY <3>1 DEF Without, LogInv, Kept, Readable, Packing, PlainWhole
    <3>3. DOMAIN zip' \subseteq DOMAIN made
      BY <3>1 DEF Without, LogInv, Stamped
    <3>4. Packing'
      BY <3>1 DEF Packing
    <3>. QED
      BY <3>1, <3>2, <3>3, <3>4, MillKeeps DEF LogInv, Justified
  <2>13. CASE MillRests
    <3>1. /\ mill' = "rest"
          /\ UNCHANGED <<maxAge, logFileVars, plain, zip, remove, made, twice>>
      BY <2>13 DEF MillRests, config, diskVars
    <3>2. Packing'
      BY <3>1 DEF Packing
    <3>. QED
      BY <3>1, <3>2, MillKeeps DEF LogInv, Justified, Stamped, Kept, Readable
  <2>. QED
    BY <2>1, <2>2, <2>3, <2>4, <2>5, <2>6, <2>7, <2>8, <2>9, <2>10, <2>11, <2>12, <2>13
    DEF LogNext
<1>. QED
  BY <1>1, <1>2, PTL DEF LogSpec

(* No record of the rolling log is lost but what the limits ask to remove   *)
(* and what two rotations of one stamp overwrite (lumberjack.go, rotate,    *)
(* openNew, millRunOnce and compressLogFile), whatever crashes or fails.    *)
THEOREM NothingLost == LogSpec => []RecordsKept
<1>1. LogInv => RecordsKept
  BY DEF LogInv, RecordsKept, AllWritten, Kept
<1>. QED
  BY <1>1, LogInductive, PTL

-----------------------------------------------------------------------------
(* A set of files by their stamps, each with the records it holds.          *)
Files(f) ==
    /\ f = [t \in DOMAIN f |-> f[t]] /\ DOMAIN f \subseteq Nat
    /\ \A t \in DOMAIN f : f[t] \subseteq Nat
Marks ==
    /\ apart \in BOOLEAN /\ maxAge \in Nat
    /\ exists \in BOOLEAN /\ live \subseteq Nat /\ open \in BOOLEAN /\ wrote \in Nat
    /\ moving \in {"no", "look", "rotate", "write", "open"} /\ clock \in Nat
    /\ signal \in BOOLEAN /\ mill \in {"rest", "sweep", "copy", "drop"}
    /\ remove \subseteq Nat \X {"log", "gz"} /\ compress \subseteq Nat
    /\ body \subseteq Nat /\ twice \subseteq Nat /\ amiss \in BOOLEAN
FilesInv == Marks /\ Files(plain) /\ Files(zip) /\ Files(made)

LEMMA FilesWith ==
  ASSUME NEW f, Files(f), NEW t \in Nat, NEW x \in SUBSET Nat
  PROVE  Files(With(f, t, x))
BY DEF Files, With

LEMMA FilesWithout == ASSUME NEW f, Files(f), NEW t PROVE Files(Without(f, t))
BY DEF Files, Without

(* A rotation moves records from one file to another.                       *)
LEMMA MoveAsideTypes ==
  ASSUME FilesInv, NEW next \in {"rotate", "write", "open"}, MoveAside(next),
         signal' \in BOOLEAN, amiss' \in BOOLEAN
  PROVE  FilesInv'
<1>1. plain' = With(plain, clock, live) /\ made' = With(made, clock, live) /\ zip' = zip
  BY DEF MoveAside
<1>2. clock \in Nat /\ live \in SUBSET Nat
  BY DEF FilesInv, Marks
<1>3. Files(plain') /\ Files(made') /\ Files(zip')
  BY <1>1, <1>2, FilesWith DEF FilesInv
<1>4. Marks'
  BY <1>2 DEF FilesInv, Marks, MoveAside, config
<1>. QED
  BY <1>3, <1>4 DEF FilesInv

(* Every reachable state of the log files is of the declared type.          *)
LEMMA LogTypesInductive == LogSpec => []FilesInv
<1>1. LogInit => FilesInv
  <2>. SUFFICES ASSUME LogInit PROVE FilesInv
    OBVIOUS
  <2>1. Files([t \in {} |-> {}])
    BY DEF Files
  <2>. QED
    BY <2>1, LogFileAssumption DEF LogInit, FilesInv, Marks, Files
<1>2. LogInv /\ FilesInv /\ [LogNext]_logVars => FilesInv'
  <2>. SUFFICES ASSUME LogInv, FilesInv, [LogNext]_logVars PROVE FilesInv'
    OBVIOUS
  <2>1. CASE RotateFull \/ ReopenFails \/ ReopenFull \/ (Rotate /\ exists)
    <3>1. signal' \in BOOLEAN /\ amiss' \in BOOLEAN
      BY <2>1 DEF RotateFull, ReopenFails, ReopenFull, Rotate, FilesInv, Marks
    <3>. QED
      BY <2>1, <3>1, MoveAsideTypes DEF RotateFull, ReopenFails, ReopenFull, Rotate
  <2>2. CASE \/ AppendRecord \/ Reopen \/ Wake \/ LookFails \/ OpenFirst \/ CreateNew
             \/ CreateFails \/ CloseFile \/ TimePasses \/ (Rotate /\ ~exists) \/ UNCHANGED logVars
    <3>1. UNCHANGED <<plain, zip, made>>
      BY <2>2 DEF AppendRecord, Reopen, Wake, LookFails, OpenFirst, CreateNew, CreateFails,
                  CloseFile, TimePasses, Rotate, diskVars, logVars
    <3>2. Files(plain') /\ Files(zip') /\ Files(made')
      BY <3>1 DEF FilesInv
    <3>3. Marks'
      <4>. USE DEF Marks, config, millVars, logFileVars
      <4>. Marks
        BY DEF FilesInv
      <4>1. CASE AppendRecord \/ Reopen
        <5>1. wrote' = wrote + 1 /\ live' = live \cup {wrote + 1}
          BY <4>1 DEF AppendRecord, Reopen
        <5>2. wrote' \in Nat /\ live' \subseteq Nat
          BY <5>1
        <5>3. CASE AppendRecord
          BY <5>2, <5>3 DEF AppendRecord
        <5>4. CASE Reopen
          BY <5>2, <5>4 DEF Reopen
        <5>. QED
          BY <4>1, <5>3, <5>4
      <4>2. CASE CreateNew
        BY <4>2 DEF CreateNew
      <4>3. CASE CreateFails \/ CloseFile
        BY <4>3 DEF CreateFails, CloseFile
      <4>4. CASE Wake \/ LookFails \/ OpenFirst
        BY <4>4 DEF Wake, LookFails, OpenFirst
      <4>5. CASE TimePasses \/ UNCHANGED logVars
        <5>1. clock' \in Nat
          BY <4>5 DEF TimePasses, logVars
        <5>2. UNCHANGED <<config, exists, live, open, wrote, moving, millVars, twice, amiss>>
          BY <4>5 DEF TimePasses, logVars
        <5>. QED
          BY <5>1, <5>2
      <4>6. CASE Rotate /\ ~exists
        BY <4>6 DEF Rotate
      <4>. QED
        BY <2>2, <4>1, <4>2, <4>3, <4>4, <4>5, <4>6
    <3>. QED
      BY <3>2, <3>3 DEF FilesInv
  <2>3. CASE MillTake \/ ListFails \/ MillRests \/ Crash
    <3>1. UNCHANGED <<plain, zip, made>>
      BY <2>3 DEF MillTake, ListFails, MillRests, Crash, diskVars
    <3>2. Listed \subseteq Nat \X {"log", "gz"} /\ DOMAIN plain \subseteq Nat
      BY DEF Listed, Log, Gz, FilesInv, Files
    <3>. QED
      BY <2>3, <3>1, <3>2 DEF FilesInv, Marks, MillTake, ListFails, MillRests, Crash,
                              config, logFileVars
  <2>4. CASE Remove \/ Compress \/ Copy \/ DropSource \/ CompressFails
    <3>1. Files(plain')
      BY <2>4, FilesWithout DEF Remove, Compress, Copy, DropSource, CompressFails, diskVars, FilesInv
    <3>2. Files(zip')
      <4>1. CASE Remove \/ DropSource
        BY <4>1, FilesWithout DEF Remove, DropSource, diskVars, FilesInv
      <4>2. CASE Compress
        <5>1. Latest \in Nat /\ zip' = With(zip, Latest, {})
          BY <4>2 DEF Compress, FilesInv, Files
        <5>. QED
          BY <5>1, FilesWith DEF FilesInv
      <4>3. CASE Copy
        <5>1. Latest \in Nat /\ zip' = With(zip, Latest, body)
          BY <4>3 DEF Copy, FilesInv, Files, LogInv, Packing
        <5>. QED
          BY <5>1, FilesWith DEF FilesInv, Marks
      <4>4. CASE CompressFails
        <5>1. CASE zip' = zip \/ zip' = Without(zip, Latest)
          BY <5>1, FilesWithout DEF FilesInv
        <5>2. CASE Latest \in DOMAIN plain /\ zip' = With(zip, Latest, {})
          <6>1. Latest \in Nat
            BY <5>2 DEF FilesInv, Files
          <6>. QED
            BY <5>2, <6>1, FilesWith DEF FilesInv
        <5>. QED
          BY <4>4, <5>1, <5>2 DEF CompressFails
      <4>. QED
        BY <2>4, <4>1, <4>2, <4>3, <4>4
    <3>3. UNCHANGED <<config, logFileVars, signal, made, twice>> /\ amiss' \in {amiss, TRUE}
      BY <2>4 DEF Remove, Compress, Copy, DropSource, CompressFails
    <3>4. /\ mill' \in {"rest", "sweep", "copy", "drop"} /\ remove' \subseteq remove
          /\ compress' \subseteq compress /\ body' \subseteq Nat
      BY <2>4 DEF Remove, Compress, Copy, DropSource, CompressFails, FilesInv, Marks, Files
    <3>. QED
      BY <3>1, <3>2, <3>3, <3>4 DEF FilesInv, Marks, Files, config, logFileVars
  <2>. QED
    BY <2>1, <2>2, <2>3, <2>4 DEF LogNext
<1>. QED
  BY <1>1, <1>2, LogInductive, PTL DEF LogSpec

(* The state of the log files and of the mill is of the declared type, for  *)
(* any sizes and limits.                                                    *)
THEOREM LogTypes == LogSpec => []LogTypeOK
<1>1. FilesInv => LogTypeOK
  BY DEF FilesInv, Marks, Files, LogTypeOK
<1>. QED
  BY <1>1, LogTypesInductive, PTL

-----------------------------------------------------------------------------
(* Of a set of stamps, at most n have fewer than n newer ones.              *)
LEMMA FewNewest ==
  ASSUME NEW S \in SUBSET Nat, IsFiniteSet(S), NEW n \in Nat \ {0},
         NEW K \in SUBSET S, \A t \in K : ~(Cardinality(Newer(S, t)) >= n)
  PROVE  Cardinality(K) <= n
<1>1. CASE K = {}
  BY <1>1, FS_EmptySet
<1>2. CASE K # {}
  <2>1. PICK t \in K : \A u \in K : ~(<<u, t>> \in OpToRel(<, Nat))
    BY <1>2, NatLessThanWellFounded, WFMin, Zenon
  <2>2. \A u \in K : u \in Nat
    OBVIOUS
  <2>3. ASSUME NEW u \in K, u # t PROVE u \in Newer(S, t)
    <3>1. <<u, t>> \in Nat \X Nat /\ <<u, t>>[1] = u /\ <<u, t>>[2] = t
      BY <2>2
    <3>2. ~(u < t)
      BY <2>1, <3>1, Zenon DEF OpToRel
    <3>. QED
      BY <3>2, <2>2, <2>3 DEF Newer
  <2>4. IsFiniteSet(Newer(S, t)) /\ IsFiniteSet(K)
    BY FS_Subset DEF Newer
  <2>5. K \ {t} \subseteq Newer(S, t)
    BY <2>3
  <2>6. Cardinality(K \ {t}) <= Cardinality(Newer(S, t)) /\ Cardinality(K \ {t}) = Cardinality(K) - 1
    BY <2>4, <2>5, FS_Subset, FS_RemoveElement
  <2>7. Cardinality(K) \in Nat /\ Cardinality(Newer(S, t)) \in Nat
    BY <2>4, FS_CardinalityType
  <2>. QED
    BY <2>6, <2>7
<1>. QED
  BY <1>1, <1>2

(* What will be left in the directory when the mill has removed what it     *)
(* means to, and when the mill owes the directory nothing: neither a        *)
(* wake-up is waiting nor one about to be sent by what is under way.        *)
Left == Stamps(Listed \ remove)
Settled == ~signal /\ ~amiss /\ (open \/ moving \in {"look", "open"})

BoundInv ==
    /\ remove \subseteq Nat \X {"log", "gz"}
    /\ mill # "sweep" => remove = {}
    /\ Settled /\ MaxBackups > 0 => Cardinality(Left) <= MaxBackups

(* The stamps in the directory, plain and compressed.                       *)
LEMMA StampsOfListed ==
  Stamps(Listed) = DOMAIN plain \cup (IF apart THEN {} ELSE DOMAIN zip)
<1>1. \A t \in DOMAIN plain : Log(t) \in Listed /\ Log(t)[1] = t
  BY DEF Listed, Log
<1>2. \A t \in DOMAIN zip : ~apart => Gz(t) \in Listed /\ Gz(t)[1] = t
  BY DEF Listed, Gz
<1>3. \A f \in Listed : f[1] \in DOMAIN plain \/ (~apart /\ f[1] \in DOMAIN zip)
  BY DEF Listed, Log, Gz
<1>. QED
  BY <1>1, <1>2, <1>3 DEF Stamps

LEMMA LeftFinite == ASSUME LogInv PROVE Left \subseteq DOMAIN made /\ IsFiniteSet(Left)
<1>1. Left \subseteq DOMAIN made
  BY DEF Left, Stamps, Listed, Log, Gz, LogInv, Stamped
<1>. QED
  BY <1>1, FS_Subset DEF LogInv, Stamped

(* Steps that put nothing new into the directory.                           *)
LEMMA LeftShrinks ==
  ASSUME LogInv, BoundInv, Left' \subseteq Left, Settled' => Settled,
         remove' \subseteq Nat \X {"log", "gz"}, mill' # "sweep" => remove' = {}
  PROVE  BoundInv'
<1>1. Cardinality(Left') \in Nat /\ Cardinality(Left) \in Nat /\ Cardinality(Left') <= Cardinality(Left)
  BY LeftFinite, FS_Subset, FS_CardinalityType
<1>. QED
  BY <1>1, LogFileAssumption DEF BoundInv

(* The listing of millRunOnce leaves MaxBackups at most.                    *)
LEMMA SweepBounds == ASSUME LogInv, BoundInv, MillTake PROVE BoundInv'
<1>. DEFINE old == {f \in Listed : Surplus(f[1]) \/ Expired(f[1])}
<1>1. /\ remove' = old /\ mill' = "sweep" /\ plain' = plain /\ zip' = zip /\ apart' = apart
  BY DEF MillTake, diskVars, config
<1>2. Listed' = Listed
  BY <1>1 DEF Listed
<1>3. Listed \subseteq Nat \X {"log", "gz"} /\ Stamps(Listed) \subseteq DOMAIN made
      /\ DOMAIN made \subseteq Nat /\ IsFiniteSet(DOMAIN made)
  BY DEF Listed, Stamps, Log, Gz, LogInv, Stamped
<1>4. Left' = {f[1] : f \in Listed \ old}
  BY <1>1, <1>2 DEF Left, Stamps
<1>5. Left' \subseteq Stamps(Listed)
  BY <1>4 DEF Stamps
<1>6. ASSUME MaxBackups > 0 PROVE Cardinality(Left') <= MaxBackups
  <2>1. \A t \in Left' : ~(Cardinality(Newer(Stamps(Listed), t)) >= MaxBackups)
    BY <1>4, <1>6 DEF Surplus
  <2>2. Stamps(Listed) \in SUBSET Nat /\ IsFiniteSet(Stamps(Listed))
    BY <1>3, FS_Subset
  <2>3. MaxBackups \in Nat \ {0}
    BY <1>6, LogFileAssumption
  <2>. QED
    BY <1>5, <2>1, <2>2, <2>3, FewNewest
<1>. QED
  BY <1>1, <1>3, <1>6 DEF BoundInv

LEMMA BoundInductive == LogSpec => []BoundInv
<1>1. LogInit => BoundInv
  BY DEF LogInit, BoundInv, Settled
<1>2. LogInv /\ BoundInv /\ [LogNext]_logVars => BoundInv'
  <2>. SUFFICES ASSUME LogInv, BoundInv, [LogNext]_logVars PROVE BoundInv'
    OBVIOUS
  <2>. Emptied
    BY DEF LogInv
  <2>1. CASE RotateFull \/ ReopenFails \/ ReopenFull \/ Rotate
    <3>1. UNCHANGED <<mill, remove>> /\ ~Settled'
      BY <2>1 DEF RotateFull, ReopenFails, ReopenFull, Rotate, MoveAside, Settled, Emptied
    <3>. QED
      BY <3>1 DEF BoundInv
  <2>2. CASE \/ AppendRecord \/ Reopen \/ Wake \/ LookFails \/ OpenFirst \/ CreateNew
             \/ CreateFails \/ CloseFile \/ TimePasses \/ ListFails \/ UNCHANGED logVars
    <3>1. UNCHANGED <<apart, plain, zip, mill, remove>>
      BY <2>2 DEF AppendRecord, Reopen, Wake, LookFails, OpenFirst, CreateNew, CreateFails,
                  CloseFile, TimePasses, ListFails, config, diskVars, millVars, logVars
    <3>2. Settled' => Settled
      <4>. USE DEF Settled
      <4>1. CASE AppendRecord \/ Reopen \/ Wake \/ LookFails \/ OpenFirst
        BY <4>1 DEF AppendRecord, Reopen, Wake, LookFails, OpenFirst, millVars, Emptied
      <4>2. CASE CreateNew \/ CreateFails \/ CloseFile
        BY <4>2 DEF CreateNew, CreateFails, CloseFile, millVars, Emptied
      <4>3. CASE TimePasses \/ ListFails \/ UNCHANGED logVars
        BY <4>3 DEF TimePasses, ListFails, logVars, logFileVars, millVars
      <4>. QED
        BY <2>2, <4>1, <4>2, <4>3
    <3>3. Left' = Left
      BY <3>1 DEF Left, Listed, Stamps
    <3>. QED
      BY <3>1, <3>2, <3>3, LeftShrinks DEF BoundInv
  <2>3. CASE Crash
    BY <2>3 DEF Crash, BoundInv, Settled
  <2>4. CASE MillTake
    BY <2>4, SweepBounds
  <2>5. CASE Remove
    <3>1. PICK f \in remove :
             /\ remove' = remove \ {f}
             /\ \/ /\ plain' = IF f = Log(f[1]) THEN Without(plain, f[1]) ELSE plain
                   /\ zip' = IF f = Gz(f[1]) THEN Without(zip, f[1]) ELSE zip
                   /\ UNCHANGED amiss
                \/ UNCHANGED diskVars /\ amiss' = TRUE
      BY <2>5 DEF Remove
    <3>2. mill = "sweep" /\ mill' = mill /\ UNCHANGED <<apart, signal, open, moving>>
      BY <2>5 DEF Remove, config, logFileVars
    <3>3. CASE amiss' = TRUE
      BY <3>1, <3>2, <3>3 DEF BoundInv, Settled
    <3>4. CASE amiss' # TRUE
      <4>1. f = Log(f[1]) \/ f = Gz(f[1])
        BY <3>1 DEF BoundInv, Log, Gz
      <4>2. /\ plain' = IF f = Log(f[1]) THEN Without(plain, f[1]) ELSE plain
            /\ zip' = IF f = Gz(f[1]) THEN Without(zip, f[1]) ELSE zip
            /\ amiss' = amiss
        BY <3>1, <3>4
      <4>3. DOMAIN plain' \subseteq DOMAIN plain /\ DOMAIN zip' \subseteq DOMAIN zip
        BY <4>2 DEF Without
      <4>4. f \notin Listed'
        <5>1. CASE f = Log(f[1])
          BY <5>1, <4>2 DEF Listed, Log, Gz, Without
        <5>2. CASE f = Gz(f[1])
          BY <5>2, <4>2, <3>2 DEF Listed, Log, Gz, Without
        <5>. QED
          BY <4>1, <5>1, <5>2
      <4>5. Listed' \subseteq Listed
        BY <4>3, <3>2 DEF Listed
      <4>6. Left' \subseteq Left
        BY <4>4, <4>5, <3>1 DEF Left, Stamps
      <4>. QED
        BY <4>2, <4>6, <3>1, <3>2, LeftShrinks DEF BoundInv, Settled
    <3>. QED
      BY <3>3, <3>4
  <2>6. CASE Compress \/ Copy \/ DropSource \/ CompressFails \/ MillRests
    <3>1. /\ remove = {} /\ remove' = {}
          /\ UNCHANGED <<apart, signal, open, moving>> /\ amiss' \in {amiss, TRUE}
      BY <2>6 DEF Compress, Copy, DropSource, CompressFails, MillRests, config, logFileVars, BoundInv
    <3>2. DOMAIN plain' \subseteq DOMAIN plain /\ DOMAIN zip' \subseteq DOMAIN zip \cup DOMAIN plain
      BY <2>6 DEF Compress, Copy, DropSource, CompressFails, MillRests, With, Without,
                  LogInv, Packing, diskVars
    <3>3. Stamps(Listed) = DOMAIN plain \cup (IF apart THEN {} ELSE DOMAIN zip)
      BY StampsOfListed
    <3>4. (Stamps(Listed) = DOMAIN plain \cup (IF apart THEN {} ELSE DOMAIN zip))'
      BY StampsOfListed, PTL
    <3>5. Left' \subseteq Left
      BY <3>1, <3>2, <3>3, <3>4 DEF Left
    <3>6. Settled' => Settled
      BY <3>1 DEF Settled
    <3>7. remove' \subseteq Nat \X {"log", "gz"}
      BY <3>1
    <3>. QED
      BY <3>1, <3>5, <3>6, <3>7, LeftShrinks
  <2>. QED
    BY <2>1, <2>2, <2>3, <2>4, <2>5, <2>6 DEF LogNext
<1>. QED
  BY <1>1, <1>2, LogInductive, PTL DEF LogSpec

(* At rest the directory of the log holds MaxBackups old files at most      *)
(* (lumberjack.go, mill and millRunOnce): a wake-up that meets a full       *)
(* channel is not lost, whatever limits, rotations and crashes there are.   *)
THEOREM DirectoryBounded == LogSpec => []ListedBounded
<1>1. LogInv /\ BoundInv => ListedBounded
  BY DEF BoundInv, ListedBounded, Swept, Settled, Left
<1>. QED
  BY <1>1, BoundInductive, LogInductive, PTL

-----------------------------------------------------------------------------
(* The two logs of the station: every step is a step of the ring or of the  *)
(* file, which share nothing, so each keeps what is proved of it alone.     *)
THEOREM LogsRunBoth == LogsSpec => Spec /\ LogSpec
<1>1. LogsInit => Init /\ LogInit
  BY DEF LogsInit
<1>2. [LogsNext]_logsVars => [Next]_vars /\ [LogNext]_logVars
  BY DEF LogsNext, logsVars
<1>. QED
  BY <1>1, <1>2, PTL DEF LogsSpec, Spec, LogSpec

(* The state of both is of the declared type.                               *)
THEOREM LogsTypes == LogsSpec => []LogsTypeOK
<1>1. TypeOK /\ LogTypeOK => LogsTypeOK
  BY DEF LogsTypeOK
<1>. QED
  BY <1>1, LogsRunBoth, TypeInvariant, LogTypes, PTL
=============================================================================
