----------------------------- MODULE Messaging -----------------------------
(***************************************************************************)
(* The messages of one conversation of the station (touch/message_handler, *)
(* touch/message/service and touch/message/repo).  A handler that appends  *)
(* a message reads the clock and then inserts the row under that time; the *)
(* row's ULID is the sender's and unique, so a sender who repeats an       *)
(* append is refused.  A reader pages through the conversation: each       *)
(* request asks for the rows later than the last time it has, in the order *)
(* of their times, LIMIT to a page.  The clock has milliseconds, so two    *)
(* messages may carry the same time, and the database may return rows of   *)
(* one time in any order.                                                  *)
(***************************************************************************)
EXTENDS Naturals, FiniteSets

CONSTANTS
    Senders,   \* goroutines that run AppendMessage
    Ulids,     \* identifiers the senders choose
    MsgLimit,  \* the reader's "limit"; 0 asks for everything
    MaxClock,  \* bound: the last millisecond
    NoUlid     \* no identifier

ASSUME MessagingAssumption ==
    /\ MsgLimit \in Nat
    /\ MaxClock \in Nat
    /\ NoUlid \notin Ulids

VARIABLES
    clock,     \* milliseconds, as the senders read them
    sendUlid,  \* what each sender is appending, or NoUlid
    sendTs,    \* the time it read
    stored,    \* identifiers in touch_message
    tsOf,      \* their times
    cursor,    \* the latest time the reader has got
    got,       \* identifiers the reader has got
    late       \* history: rows inserted when the cursor had reached their time

msgVars == <<clock, sendUlid, sendTs, stored, tsOf, cursor, got, late>>

MsgInit ==
    /\ clock = 1
    /\ sendUlid = [s \in Senders |-> NoUlid]
    /\ sendTs = [s \in Senders |-> 0]
    /\ stored = {}
    /\ tsOf = [u \in Ulids |-> 0]
    /\ cursor = 0
    /\ got = {}
    /\ late = {}

(* A millisecond passes. *)
MsgTick ==
    /\ clock < MaxClock
    /\ clock' = clock + 1
    /\ UNCHANGED <<sendUlid, sendTs, stored, tsOf, cursor, got, late>>

(* AppendMessage up to the insert: the request is bound and the clock read. *)
AppendStamp(s, u) ==
    /\ sendUlid[s] = NoUlid
    /\ sendUlid' = [sendUlid EXCEPT ![s] = u]
    /\ sendTs' = [sendTs EXCEPT ![s] = clock]
    /\ UNCHANGED <<clock, stored, tsOf, cursor, got, late>>

(* MessageService.Append and MessageRepo.Append: the row is inserted, or    *)
(* refused by the unique index of the ULID or by the database.              *)
AppendInsert(s) ==
    LET u == sendUlid[s] IN
    /\ u # NoUlid
    /\ \/ /\ u \notin stored
          /\ stored' = stored \cup {u}
          /\ tsOf' = [tsOf EXCEPT ![u] = sendTs[s]]
          /\ late' = IF sendTs[s] <= cursor THEN late \cup {u} ELSE late
       \/ UNCHANGED <<stored, tsOf, late>>
    /\ sendUlid' = [sendUlid EXCEPT ![s] = NoUlid]
    /\ sendTs' = [sendTs EXCEPT ![s] = 0]
    /\ UNCHANGED <<clock, cursor, got>>

Later == {u \in stored : tsOf[u] > cursor}
Size(n) == IF MsgLimit = 0 \/ n < MsgLimit THEN n ELSE MsgLimit

(* As bug: a page is any LIMIT rows, the ORDER BY forgotten. *)
PageUnordered(p) == p \subseteq Later /\ Cardinality(p) = Size(Cardinality(Later))

(* MessageRepo.List: ts > after, ORDER BY ts, LIMIT.  Of rows with equal    *)
(* times any may be the one that is cut off.                                *)
IsPage(p) ==
    /\ p \subseteq Later
    /\ Cardinality(p) = Size(Cardinality(Later))
    /\ \A u \in p, w \in Later \ p : tsOf[u] <= tsOf[w]

(* ListMessages: the reader gets a page and moves on to its last time. *)
ListMessages ==
    /\ Later # {}
    /\ \E p \in SUBSET Later :
          /\ IsPage(p)
          /\ got' = got \cup p
          /\ \E u \in p : /\ \A w \in p : tsOf[w] <= tsOf[u]
                          /\ cursor' = tsOf[u]
    /\ UNCHANGED <<clock, sendUlid, sendTs, stored, tsOf, late>>

MsgNext ==
    \/ MsgTick
    \/ \E s \in Senders : AppendInsert(s) \/ \E u \in Ulids : AppendStamp(s, u)
    \/ ListMessages

MsgSpec == MsgInit /\ [][MsgNext]_msgVars

----------------------------------------------------------------------------
(* Type: the shape of the table and of what the senders and the reader      *)
(* hold; a sender that holds no message holds no time.                      *)
MsgTypeOK ==
    /\ clock \in 1..MaxClock \cup {1}
    /\ sendUlid \in [Senders -> Ulids \cup {NoUlid}]
    /\ sendTs \in [Senders -> Nat]
    /\ stored \subseteq Ulids
    /\ tsOf \in [Ulids -> Nat]
    /\ cursor \in Nat
    /\ got \subseteq stored
    /\ late \subseteq stored
    /\ \A s \in Senders : sendTs[s] > 0 <=> sendUlid[s] # NoUlid

(* A reader that pages by the last time it has misses a message only in one *)
(* of two ways: the row was inserted after the reader had reached its time  *)
(* (the sender read the clock first and wrote later), or the reader has     *)
(* another message of the very same time, and the page ended between them   *)
(* (MessageRepo.List, "ts > ?" with a LIMIT).                               *)
MissedOnlyLateOrTied ==
    \A u \in stored \ got : tsOf[u] <= cursor =>
        u \in late \/ \E w \in got : tsOf[w] = tsOf[u]
=============================================================================
