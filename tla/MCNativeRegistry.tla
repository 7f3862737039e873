-------------------------- MODULE MCNativeRegistry --------------------------
(* One caller registers a peer and deregisters it again; the refresh        *)
(* goroutine of the registration is still there.                            *)
EXTENDS NativeRegistry
CONSTANTS client, peer, loop1, loop2
MCRegClients == {client}
MCRegIds == {peer}
MCRegLoops == {loop1, loop2}
=============================================================================
