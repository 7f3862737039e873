------------------------------- MODULE MCLogs -------------------------------
(* The two logs of the station: the debug log in memory and the rolling     *)
(* file.  They share no variable; one of them moves in a behaviour.         *)
(*                                                                          *)
(* A ring smaller than the number of records written, and a backlog shorter *)
(* than the ring and than the channels, as in the code.  Three stamps for   *)
(* the file, so that one backup is too many.                                *)
EXTENDS RingLog, LogFile
CONSTANTS w1, s1
MCWriters == {w1}
MCStreams == {s1}

VARIABLE part
logsVars == <<part, vars, logVars>>

LogsInit ==
    /\ part \in {"ring", "file"}
    /\ Init /\ LogInit
    /\ part = "ring" => ~apart /\ maxAge = 0

LogsNext ==
    /\ UNCHANGED part
    /\ \/ part = "ring" /\ Next /\ UNCHANGED logVars
       \/ part = "file" /\ LogNext /\ UNCHANGED vars

(* Fairness, when the ring is the part that moves. *)
LogsFairness ==
    /\ WF_vars(part = "ring" /\ Put)
    /\ \A s \in Streams : /\ WF_vars(part = "ring" /\ Open(s))
                          /\ WF_vars(part = "ring" /\ Forwarder(s))
                          /\ WF_vars(part = "ring" /\ Receive(s))

LogsSpec == LogsInit /\ [][LogsNext]_logsVars /\ LogsFairness

(* Type: the state of the ring and of the file.                             *)
LogsTypeOK == TypeOK /\ LogTypeOK
=============================================================================
