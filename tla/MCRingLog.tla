----------------------------- MODULE MCRingLog -----------------------------
(* The ring alone, for what its streams promise a caller: a ring smaller    *)
(* than the number of records written, and a backlog shorter than the ring  *)
(* and than the channels, as in the code.                                   *)
EXTENDS RingLog
CONSTANTS w1, s1
MCWriters == {w1}
MCStreams == {s1}
=============================================================================
