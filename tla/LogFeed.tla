------------------------------ MODULE LogFeed ------------------------------
(***************************************************************************)
(* What a subscriber of the debug log is promised: it receives written     *)
(* records only; after the short backlog it is given first it may step     *)
(* back once, because the channel has filled since before the backlog was  *)
(* read; apart from that each record is the successor of the one before.   *)
(***************************************************************************)
EXTENDS Naturals, Sequences

CONSTANTS Subscribers, BacklogLen

VARIABLES
    written,   \* number of records written; record n is the n-th
    seen       \* records each subscriber has received, in order

feedVars == <<written, seen>>

Init ==
    /\ written = 0
    /\ seen = [s \in Subscribers |-> <<>>]

Write ==
    /\ written' = written + 1
    /\ UNCHANGED seen

Ascends(q) == \A i \in 2..Len(q) : q[i] = q[i - 1] + 1

Continues(q, n) ==
    \/ q = <<>>
    \/ n = q[Len(q)] + 1
    \/ Len(q) <= BacklogLen /\ Ascends(q) /\ n <= q[Len(q)]

Receive(s, n) ==
    /\ n \in 1..written
    /\ Continues(seen[s], n)
    /\ seen' = [seen EXCEPT ![s] = Append(@, n)]
    /\ UNCHANGED written

Next == Write \/ \E s \in Subscribers : \E n \in 1..written : Receive(s, n)

Spec == Init /\ [][Next]_feedVars
=============================================================================
