--------------------------- MODULE MCPeerSession ---------------------------
(* Handlers, peer and session identifiers of the run PeerSessionReuse: one  *)
(* peer, and an identifier for the session that would replace the dead one. *)
EXTENDS PeerSession
CONSTANTS c1, c2, a1, s1, s2
MCCallers == {c1, c2}
OneAddr == {a1}
TwoSids == {s1, s2}
=============================================================================
