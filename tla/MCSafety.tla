------------------------------ MODULE MCSafety ------------------------------
(* The two components with the most states, checked for safety only, so     *)
(* that symmetry may be used: the peer sessions and the configuration.      *)
(* They share no variable; one of them moves in a behaviour.                *)
(*                                                                          *)
(* The sessions have one identifier more than the code may use, so that a   *)
(* duplicate session is a state it could reach.  Two files, so that the     *)
(* reload of one goroutine meets the set of the other; contents 2 to 4      *)
(* leave each file room for a whole write or a half one and what mends it.  *)
(* A behaviour of the configuration has calls of Sync or a Close, not both: *)
(* each alone meets writers, watch goroutines, Load and run, and together   *)
(* they would make ten times the states.                                    *)
EXTENDS PeerSession, ConfigLoader, TLC
CONSTANTS c1, c2, a1, s1, s2, f1, f2
MCCallers == {c1, c2}
MCAddrs == {a1}
MCSids == {s1, s2}
MCSources == {f1, f2}
Symmetry == Permutations(MCSources)

VARIABLE part
safetyVars == <<part, vars, configVars>>

SafetyInit == part \in {"sessions", "syncs", "closes"} /\ Init /\ ConfigInit

SafetyNext ==
    /\ UNCHANGED part
    /\ \/ part = "sessions" /\ Next /\ UNCHANGED configVars
       \/ part = "syncs" /\ ConfigNext /\ ~exit' /\ UNCHANGED vars
       \/ part = "closes" /\ ConfigNext /\ syncs' = 0 /\ UNCHANGED vars

SafetySpec == SafetyInit /\ [][SafetyNext]_safetyVars

(* Type: the state of the sessions and of the configuration.                *)
SafetyTypeOK == TypeOK /\ ConfigTypeOK
=============================================================================
