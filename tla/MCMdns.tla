------------------------------- MODULE MCMdns -------------------------------
(* Two goroutines that call the service, so that every pair of Start, Stop  *)
(* and AdvertiseNode overlaps; two nodes, so that a stale advertisement     *)
(* differs from the newest.                                                 *)
EXTENDS Mdns, TLC
CONSTANTS c1, c2, n1, n2
MCClients == {c1, c2}
MCNodes == {n1, n2}
Symmetry == Permutations(MCClients) \cup Permutations(MCNodes)
=============================================================================
