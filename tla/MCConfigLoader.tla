--------------------------- MODULE MCConfigLoader ---------------------------
(* Two files, so that the reload of one goroutine meets the set of the      *)
(* other; contents 2 to 4 leave each room for a whole write or a half one   *)
(* and what mends it.                                                       *)
EXTENDS ConfigLoader, TLC
CONSTANTS f1, f2
MCSources == {f1, f2}
Symmetry == Permutations(MCSources)
=============================================================================
