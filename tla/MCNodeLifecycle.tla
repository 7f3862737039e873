-------------------------- MODULE MCNodeLifecycle --------------------------
(* TURN and two other subservers, so that the random order in which they    *)
(* are stopped has something to differ in; two signals, because the first   *)
(* may be caught before main listens.                                       *)
EXTENDS NodeLifecycle
CONSTANTS turn, bootstrap, aibox
MCOthers == {bootstrap, aibox}
=============================================================================
