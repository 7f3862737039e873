---------------------------- MODULE AuthSessions ----------------------------
(***************************************************************************)
(* The session manager of the station and its in-memory store              *)
(* (touch/auth/session.go).  Handlers validate sessions, CreateSession and *)
(* DeleteSession put them in the map and take them out, and the store's    *)
(* goroutine sweeps the expired ones away.  Get gives up the read lock     *)
(* before it takes the write lock to delete what it saw expired, and       *)
(* ValidateSession looks at the clock again once Get has returned; the     *)
(* clock moves between the steps.  A session identifier is thirty-two      *)
(* random bytes, so it names one session for ever.                         *)
(***************************************************************************)
EXTENDS Naturals

CONSTANTS
    Validators,  \* goroutines that run ValidateSession
    SessionIds,  \* session identifiers
    Ttl,         \* time to live of a session
    MaxTime,     \* bound: the last time
    NoSession    \* no identifier

ASSUME AuthAssumption ==
    /\ Ttl \in Nat
    /\ MaxTime \in Nat
    /\ NoSession \notin SessionIds

VARIABLES
    time,      \* the clock
    live,      \* keys of the map
    expiresAt, \* expiry of every session created; 0 before
    removed,   \* history: identifiers DeleteSession was called with by a client
    valPc,     \* where each validator is
    valId,     \* the session it asks for
    knewGone,  \* history: it had been removed when the call began
    answer     \* how its last call ended

authVars == <<time, live, expiresAt, removed, valPc, valId, knewGone, answer>>

AuthInit ==
    /\ time = 1
    /\ live = {}
    /\ expiresAt = [s \in SessionIds |-> 0]
    /\ removed = {}
    /\ valPc = [v \in Validators |-> "idle"]
    /\ valId = [v \in Validators |-> NoSession]
    /\ knewGone = [v \in Validators |-> FALSE]
    /\ answer = [v \in Validators |-> "none"]

IsExpired(s) == time > expiresAt[s]

Passes ==
    /\ time < MaxTime
    /\ time' = time + 1
    /\ UNCHANGED <<live, expiresAt, removed, valPc, valId, knewGone, answer>>

(* CreateSession and Set: the identifier is new. *)
CreateSession(s) ==
    /\ expiresAt[s] = 0
    /\ expiresAt' = [expiresAt EXCEPT ![s] = time + Ttl]
    /\ live' = live \cup {s}
    /\ UNCHANGED <<time, removed, valPc, valId, knewGone, answer>>

(* DeleteSession by a client. *)
DeleteSession(s) ==
    /\ expiresAt[s] > 0
    /\ live' = live \ {s}
    /\ removed' = removed \cup {s}
    /\ UNCHANGED <<time, expiresAt, valPc, valId, knewGone, answer>>

(* As bug: the sweep compares the wrong way round. *)
CleanupLive ==
    /\ live' = {s \in live : IsExpired(s)}
    /\ UNCHANGED <<time, expiresAt, removed, valPc, valId, knewGone, answer>>

(* Cleanup, on the ticker of startCleanup, under the write lock. *)
Cleanup ==
    /\ live' = {s \in live : ~IsExpired(s)}
    /\ UNCHANGED <<time, expiresAt, removed, valPc, valId, knewGone, answer>>

ValidateSession(v, s) ==
    /\ valPc[v] = "idle"
    /\ valPc' = [valPc EXCEPT ![v] = "get"]
    /\ valId' = [valId EXCEPT ![v] = s]
    /\ knewGone' = [knewGone EXCEPT ![v] = s \in removed]
    /\ answer' = [answer EXCEPT ![v] = "none"]
    /\ UNCHANGED <<time, live, expiresAt, removed>>

Step(v, to) == valPc' = [valPc EXCEPT ![v] = to]
Answers(v, a) == Step(v, "idle") /\ answer' = [answer EXCEPT ![v] = a]

(* Get under the read lock: the session is not there, has expired, or is    *)
(* touched and returned.                                                    *)
Get(v) ==
    LET s == valId[v] IN
    /\ valPc[v] = "get"
    /\ \/ s \notin live /\ Answers(v, "not found")
       \/ s \in live /\ IsExpired(s) /\ Step(v, "expired") /\ UNCHANGED answer
       \/ s \in live /\ ~IsExpired(s) /\ Step(v, "check") /\ UNCHANGED answer
    /\ UNCHANGED <<time, live, expiresAt, removed, valId, knewGone>>

(* Get again, under the write lock: the expired session is deleted. *)
GetDeletes(v) ==
    /\ valPc[v] = "expired"
    /\ live' = live \ {valId[v]}
    /\ Answers(v, "expired")
    /\ UNCHANGED <<time, expiresAt, removed, valId, knewGone>>

(* ValidateSession after Get: the clock has moved on, and a session that    *)
(* has expired meanwhile is deleted.                                        *)
CheckExpiry(v) ==
    LET s == valId[v] IN
    /\ valPc[v] = "check"
    /\ \/ IsExpired(s) /\ live' = live \ {s} /\ Answers(v, "expired")
       \/ ~IsExpired(s) /\ Answers(v, "ok") /\ UNCHANGED live
    /\ UNCHANGED <<time, expiresAt, removed, valId, knewGone>>

AuthNext ==
    \/ Passes \/ Cleanup
    \/ \E s \in SessionIds :
          CreateSession(s) \/ DeleteSession(s)
             \/ \E v \in Validators : ValidateSession(v, s)
    \/ \E v \in Validators : Get(v) \/ GetDeletes(v) \/ CheckExpiry(v)

AuthSpec == AuthInit /\ [][AuthNext]_authVars

----------------------------------------------------------------------------
(* Type: the shape of the store and of the calls; the map holds sessions    *)
(* that were created and are not removed.                                   *)
AuthTypeOK ==
    /\ time \in Nat
    /\ live \subseteq SessionIds
    /\ expiresAt \in [SessionIds -> Nat]
    /\ removed \subseteq SessionIds
    /\ valPc \in [Validators -> {"idle", "get", "expired", "check"}]
    /\ valId \in [Validators -> SessionIds \cup {NoSession}]
    /\ knewGone \in [Validators -> BOOLEAN]
    /\ answer \in [Validators -> {"none", "not found", "expired", "ok"}]
    /\ \A s \in live : expiresAt[s] > 0 /\ s \notin removed

(* ValidateSession answers truly (session.go:203): "ok" only for a session  *)
(* that has not expired at the answer and was not removed before the call   *)
(* began; "expired" only for one that has expired; "not found" only for one *)
(* that was never created, was removed or has expired.                      *)
SessionsHonest ==
    [][\A v \in Validators : answer'[v] # answer[v] =>
          LET s == valId[v] IN
          /\ answer'[v] = "ok" => ~IsExpired(s) /\ ~knewGone[v]
          /\ answer'[v] = "expired" => IsExpired(s)
          /\ answer'[v] = "not found" =>
                expiresAt[s] = 0 \/ s \in removed \/ IsExpired(s)]_authVars
=============================================================================
