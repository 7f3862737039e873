------------------------------ MODULE LogFile ------------------------------
(***************************************************************************)
(* The rolling log file of the logrus plugin (lumberjack.v2): Write, Rotate *)
(* and Close under the logger's mutex, and the mill goroutine that removes  *)
(* and compresses old files without it.  Record n is the n-th write that    *)
(* succeeded and fills one unit of MaxSize; a larger write is refused and   *)
(* changes nothing.  A stamp stands for the time in the name of a backup,   *)
(* which is also its name: two rotations may fall on the same one.          *)
(*                                                                          *)
(* The station always compresses and gives its loggers a directory of their *)
(* own for what is compressed (logrus.go:117, 137), which the mill does not *)
(* list.  Files survive a crash, everything else is lost.                   *)
(***************************************************************************)
EXTENDS Naturals, FiniteSets

CONSTANTS
    MaxSize,       \* units a file may hold
    MaxBackups,    \* old files to retain, 0 for all
    Ages,          \* what MaxAge may be: age of removal, 0 for never
    Layouts,       \* whether BackupDir is another directory than the log's
    MaxRecords,    \* bound: records written
    MaxStamp,      \* bound: the clock
    MaxTwice       \* bound: rotations that meet the stamp of another

ASSUME LogFileAssumption ==
    /\ MaxSize \in Nat \ {0} /\ MaxBackups \in Nat /\ Ages \subseteq Nat
    /\ Layouts \subseteq BOOLEAN /\ MaxRecords \in Nat /\ MaxStamp \in Nat /\ MaxTwice \in Nat

VARIABLES
    apart,     \* BackupDir is another directory
    maxAge,    \* Logger.MaxAge
    exists,    \* there is a file at Filename
    live,      \* the records in it
    open,      \* Logger.file # nil
    wrote,     \* records written so far
    moving,    \* what openNew has still to do: "no", "look", "rotate", "write", "open"
    clock,
    plain,     \* backups as they were renamed: stamp -> records
    zip,       \* compressed backups: stamp -> records one can read back
    signal,    \* millCh holds a value
    mill,      \* "rest", "sweep", "copy", "drop"
    remove,    \* files millRunOnce has still to remove
    compress,  \* and to compress
    body,      \* what compressLogFile has open
    made,      \* for the properties: what was rotated out under each stamp
    twice,     \* stamps that were used twice
    amiss      \* since the last listing: the mill failed, or a rotation asked for none

logFileVars == <<exists, live, open, wrote, moving, clock>>
diskVars == <<plain, zip>>
millVars == <<signal, mill, remove, compress, body>>
config == <<apart, maxAge>>
logVars == <<config, logFileVars, diskVars, millVars, made, twice, amiss>>

LogInit ==
    /\ apart \in Layouts /\ maxAge \in Ages
    /\ exists = FALSE /\ live = {} /\ open = FALSE /\ wrote = 0 /\ moving = "no" /\ clock = 0
    /\ plain = [t \in {} |-> {}] /\ zip = [t \in {} |-> {}]
    /\ signal = FALSE /\ mill = "rest" /\ remove = {} /\ compress = {} /\ body = {}
    /\ made = [t \in {} |-> {}] /\ twice = {} /\ amiss = FALSE

With(f, t, x) == [u \in DOMAIN f \cup {t} |-> IF u = t THEN x ELSE f[u]]
Without(f, t) == [u \in DOMAIN f \ {t} |-> f[u]]
Room == Cardinality(live) < MaxSize

-----------------------------------------------------------------------------
(* Write, Rotate and Close. *)

(* close, then rename: whatever bore the stamp is overwritten. *)
MoveAside(next) ==
    /\ clock \in DOMAIN made => Cardinality(twice) < MaxTwice
    /\ plain' = With(plain, clock, live)
    /\ made' = With(made, clock, live)
    /\ twice' = IF clock \in DOMAIN made THEN twice \cup {clock} ELSE twice
    /\ exists' = FALSE /\ live' = {} /\ open' = FALSE
    /\ moving' = next
    /\ UNCHANGED <<config, wrote, clock, zip, mill, remove, compress, body>>

AppendRecord ==               \* Write: the file is open and has room
    /\ moving = "no" /\ open /\ Room /\ wrote < MaxRecords
    /\ wrote' = wrote + 1 /\ live' = live \cup {wrote + 1}
    /\ UNCHANGED <<config, exists, open, moving, clock, diskVars, millVars, made, twice, amiss>>

RotateFull ==           \* Write: the record would not fit
    /\ moving = "no" /\ open /\ ~Room /\ wrote < MaxRecords
    /\ MoveAside("write")
    /\ UNCHANGED <<signal, amiss>>

(* openExistingOrNew: the mill is woken before the file is looked at.       *)
Wake ==                 \* Write: no file is open
    /\ moving = "no" /\ ~open /\ wrote < MaxRecords
    /\ moving' = "look" /\ signal' = TRUE
    /\ UNCHANGED <<config, exists, live, open, wrote, clock, diskVars,
                   mill, remove, compress, body, made, twice, amiss>>

LookFails ==            \* the file cannot be looked at, or not renamed
    /\ moving = "look" /\ moving' = "no"
    /\ UNCHANGED <<config, exists, live, open, wrote, clock, diskVars, millVars,
                   made, twice, amiss>>

OpenFirst ==            \* there is no file yet
    /\ moving = "look" /\ ~exists
    /\ moving' = "open"
    /\ UNCHANGED <<config, exists, live, open, wrote, clock, diskVars, millVars,
                   made, twice, amiss>>

(* One unit more room is asked for than by Write itself. *)
Fits == Cardinality(live) + 1 < MaxSize
Reopen ==
    /\ moving = "look" /\ exists /\ Fits
    /\ open' = TRUE /\ moving' = "no"
    /\ wrote' = wrote + 1 /\ live' = live \cup {wrote + 1}
    /\ UNCHANGED <<config, exists, clock, diskVars, millVars, made, twice, amiss>>

ReopenFails ==          \* it cannot be opened: it is moved, and nobody wakes the mill
    /\ moving = "look" /\ exists /\ Fits
    /\ MoveAside("open")
    /\ amiss' = TRUE /\ UNCHANGED signal

ReopenFull ==
    /\ moving = "look" /\ exists /\ ~Fits
    /\ MoveAside("write")
    /\ UNCHANGED <<signal, amiss>>

Rotate ==
    /\ moving = "no"
    /\ IF exists
       THEN MoveAside("rotate")
       ELSE /\ moving' = "rotate"
            /\ UNCHANGED <<config, exists, live, open, wrote, clock, diskVars,
                           mill, remove, compress, body, made, twice>>
    /\ UNCHANGED <<signal, amiss>>

(* As a mutant: only Write wakes the mill. *)
CreateNewRotateQuiet ==
    /\ moving \in {"rotate", "write", "open"}
    /\ exists' = TRUE /\ open' = TRUE /\ moving' = "no"
    /\ signal' = (signal \/ moving = "write")
    /\ IF moving = "rotate"
       THEN live' = {} /\ UNCHANGED wrote
       ELSE live' = {wrote + 1} /\ wrote' = wrote + 1
    /\ UNCHANGED <<config, clock, diskVars, mill, remove, compress, body, made, twice, amiss>>

(* The end of openNew, rotate's call of mill and Write's own write. *)
CreateNew ==
    /\ moving \in {"rotate", "write", "open"}
    /\ exists' = TRUE /\ open' = TRUE /\ moving' = "no"
    /\ signal' = (signal \/ moving # "open")
    /\ IF moving = "rotate"
       THEN live' = {} /\ UNCHANGED wrote
       ELSE live' = {wrote + 1} /\ wrote' = wrote + 1
    /\ UNCHANGED <<config, clock, diskVars, mill, remove, compress, body, made, twice, amiss>>

(* chown has created the file or not when openNew returns an error. *)
CreateFails ==
    /\ moving \in {"rotate", "write", "open"}
    /\ exists' \in BOOLEAN /\ moving' = "no"
    /\ UNCHANGED <<config, live, open, wrote, clock, diskVars, millVars, made, twice, amiss>>

CloseFile ==            \* also what is left of rotate when it cannot rename
    /\ moving = "no" /\ open
    /\ open' = FALSE
    /\ UNCHANGED <<config, exists, live, wrote, moving, clock, diskVars, millVars, made, twice, amiss>>

-----------------------------------------------------------------------------
(* The mill: millRun and millRunOnce. *)

Log(t) == <<t, "log">>
Gz(t) == <<t, "gz">>
Listed ==               \* oldLogFiles: what dir() holds
    {Log(t) : t \in DOMAIN plain} \cup (IF apart THEN {} ELSE {Gz(t) : t \in DOMAIN zip})
Stamps(files) == {f[1] : f \in files}

Newer(stamps, t) == {u \in stamps : u > t}
(* As a mutant: a backup and its unfinished copy count as two. *)
SurplusFiles(t) ==
    MaxBackups > 0 /\ Cardinality({f \in Listed : f[1] > t}) >= MaxBackups
Surplus(t) ==           \* the names are counted newest first, a name once
    MaxBackups > 0 /\ Cardinality(Newer(Stamps(Listed), t)) >= MaxBackups
Expired(t) == maxAge > 0 /\ t + maxAge < clock

MillTake ==
    /\ mill = "rest" /\ signal
    /\ signal' = FALSE /\ mill' = "sweep"
    /\ LET old == {f \in Listed : Surplus(f[1]) \/ Expired(f[1])}
       IN  /\ remove' = old
           /\ compress' = {t \in DOMAIN plain : Log(t) \notin old}
    /\ amiss' = FALSE
    /\ UNCHANGED <<config, logFileVars, diskVars, body, made, twice>>

ListFails ==
    /\ mill = "rest" /\ signal
    /\ signal' = FALSE /\ amiss' = TRUE
    /\ UNCHANGED <<config, logFileVars, diskVars, mill, remove, compress, body, made, twice>>

Remove ==
    /\ mill = "sweep"
    /\ \E f \in remove :
          /\ remove' = remove \ {f}
          /\ \/ /\ plain' = IF f = Log(f[1]) THEN Without(plain, f[1]) ELSE plain
                /\ zip' = IF f = Gz(f[1]) THEN Without(zip, f[1]) ELSE zip
                /\ UNCHANGED amiss
             \/ UNCHANGED diskVars /\ amiss' = TRUE
    /\ UNCHANGED <<config, logFileVars, signal, mill, compress, body, made, twice>>

(* compressLogFile: the newest first; the target is emptied before anything *)
(* is written to it.                                                        *)
Latest == CHOOSE t \in compress : \A u \in compress : u <= t
Compress ==
    /\ mill = "sweep" /\ remove = {} /\ compress # {}
    /\ Latest \in DOMAIN plain
    /\ body' = plain[Latest] /\ zip' = With(zip, Latest, {})
    /\ mill' = "copy"
    /\ UNCHANGED <<config, logFileVars, plain, signal, remove, compress, made, twice, amiss>>

Copy ==                 \* the copy is written and both files are closed
    /\ mill = "copy"
    /\ zip' = With(zip, Latest, body)
    /\ mill' = "drop"
    /\ UNCHANGED <<config, logFileVars, plain, signal, remove, compress, body, made, twice, amiss>>

DropSource ==           \* the source is removed
    /\ mill = "drop"
    /\ plain' = Without(plain, Latest)
    /\ compress' = compress \ {Latest} /\ body' = {}
    /\ mill' = "sweep"
    /\ UNCHANGED <<config, logFileVars, zip, signal, remove, made, twice, amiss>>

(* An error removes what was written of the copy and leaves the source; an  *)
(* early one leaves the target as it was or empty.                          *)
CompressFails ==
    /\ mill \in {"sweep", "copy", "drop"} /\ remove = {} /\ compress # {}
    /\ \/ mill = "sweep" /\ zip' = zip
       \/ mill = "sweep" /\ Latest \in DOMAIN plain /\ zip' = With(zip, Latest, {})
       \/ mill # "sweep" /\ zip' = Without(zip, Latest)
    /\ compress' = compress \ {Latest} /\ body' = {}
    /\ mill' = "sweep" /\ amiss' = TRUE
    /\ UNCHANGED <<config, logFileVars, plain, signal, remove, made, twice>>

MillRests ==
    /\ mill = "sweep" /\ remove = {} /\ compress = {}
    /\ mill' = "rest"
    /\ UNCHANGED <<config, logFileVars, diskVars, signal, remove, compress, body,
                   made, twice, amiss>>

-----------------------------------------------------------------------------
Crash ==                \* the process ends; what is on the disk stays
    /\ open' = FALSE /\ moving' = "no"
    /\ signal' = FALSE /\ mill' = "rest" /\ remove' = {} /\ compress' = {} /\ body' = {}
    /\ UNCHANGED <<config, exists, live, wrote, clock, diskVars, made, twice, amiss>>

TimePasses ==
    /\ clock < MaxStamp
    /\ clock' = clock + 1
    /\ UNCHANGED <<config, exists, live, open, wrote, moving, diskVars, millVars, made, twice, amiss>>

LogNext ==
    \/ AppendRecord \/ RotateFull
    \/ Wake \/ LookFails \/ OpenFirst \/ Reopen \/ ReopenFails \/ ReopenFull
    \/ Rotate \/ CreateNew \/ CreateFails \/ CloseFile
    \/ MillTake \/ ListFails \/ Remove \/ Compress \/ Copy \/ DropSource
    \/ CompressFails \/ MillRests
    \/ Crash \/ TimePasses

LogSpec == LogInit /\ [][LogNext]_logVars

-----------------------------------------------------------------------------
(* Type: the state of the log's files and of the mill.                      *)
LogTypeOK ==
    /\ apart \in BOOLEAN /\ maxAge \in Nat
    /\ exists \in BOOLEAN /\ live \subseteq Nat /\ open \in BOOLEAN /\ wrote \in Nat
    /\ moving \in {"no", "look", "rotate", "write", "open"} /\ clock \in Nat
    /\ \A f \in {plain, zip, made} :
          f = [t \in DOMAIN f |-> f[t]] /\ DOMAIN f \subseteq Nat
    /\ signal \in BOOLEAN /\ mill \in {"rest", "sweep", "copy", "drop"}
    /\ remove \subseteq Nat \X {"log", "gz"} /\ compress \subseteq Nat
    /\ body \subseteq Nat /\ twice \subseteq Nat /\ amiss \in BOOLEAN

(* What was rotated out under a stamp can still be read, plain or           *)
(* compressed. *)
Readable(t) ==
    \/ t \in DOMAIN plain /\ plain[t] = made[t]
    \/ t \in DOMAIN zip /\ zip[t] = made[t]

(* A backup the limits ask to remove: MaxBackups newer ones were made, or    *)
(* it is too old.                                                           *)
Gone(t) ==
    \/ Expired(t)
    \/ MaxBackups > 0 /\ Cardinality(Newer(DOMAIN made, t)) >= MaxBackups

(* No record is lost: each is in the current file or was rotated out, and   *)
(* what was rotated out is readable unless MaxBackups newer backups were    *)
(* made, it is too old, or two rotations bore the same stamp.  Neither a    *)
(* crash between any two steps of a rotation or of a compression nor a      *)
(* failed one takes anything else away.                                     *)
RecordsKept ==
    /\ \A r \in 1..wrote : r \in live \/ \E t \in DOMAIN made : r \in made[t] \/ t \in twice
    /\ \A t \in DOMAIN made : Readable(t) \/ t \in twice \/ Gone(t)

(* The mill has seen everything and nothing went wrong in it. *)
Swept == open /\ moving = "no" /\ mill = "rest" /\ ~signal /\ ~amiss

(* Once the mill has come to rest the directory of the log holds at most    *)
(* MaxBackups old files: a wake-up that meets a full channel is not lost.   *)
ListedBounded ==
    Swept /\ MaxBackups > 0 => Cardinality(Stamps(Listed)) <= MaxBackups
=============================================================================
