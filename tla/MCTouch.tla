------------------------------ MODULE MCTouch ------------------------------
(* The handlers of the touch service, module beside module: the peer        *)
(* sessions with their fairness, and the components that keep their state   *)
(* in the database or in a map.  They share no variable, so one of them     *)
(* moves in a behaviour and the run checks each.  Sign-ups and peer         *)
(* addresses live in two tables and are two parts.                          *)
EXTENDS PeerSession, Collections, NodeRegistry, Providers, Messaging,
        Accounts, AuthSessions

CONSTANTS
    c1, c2, a1, s1,                 \* peer sessions
    i1, i2, e1, e2,                 \* collections
    n1, n2, v1, v2, v3, u1, u2,     \* node registry
    ed1, ed2, f1, f2,               \* providers
    w1, w2, m1, m2, m3,             \* messages
    p1, p2, p3, b1, b2, b3,         \* sign-ups and addresses
    na1, na2, em1, em2, ad1, ad2,
    h1, h2, x1, x2                  \* sessions of users
MCCallers == {c1, c2}
MCAddrs == {a1}
MCSids == {s1}
MCItems == {i1, i2}
MCEars == {e1, e2}
MCNodeIds == {n1, n2}
MCObjects == {v1, v2, v3}
MCUpdaters == {u1, u2}
MCEditors == {ed1, ed2}
MCFields == {f1, f2}
MCSenders == {w1, w2}
MCUlids == {m1, m2, m3}
MCSignUps == {p1, p2, p3}
MCAddrSets == {b1, b2, b3}
MCNames == {na1, na2}
MCEmails == {em1, em2}
MCPeerAddrs == {ad1, ad2}
MCValidators == {h1, h2}
MCSessionIds == {x1, x2}

Parts == {"sessions", "collections", "nodes", "providers", "messages",
          "signups", "addresses", "users"}

VARIABLE part
touchVars == <<part, vars, collVars, nodeVars, provVars, msgVars, accVars, authVars>>

TouchInit ==
    /\ part \in Parts
    /\ Init /\ NodeInit /\ ProvInit /\ MsgInit /\ AccInit /\ AuthInit
    /\ CollInit /\ (part # "collections" => collType = "liked")

(* Everything but the state of the part is left alone. *)
Rest(p) ==
    /\ UNCHANGED part
    /\ part = p
    /\ p # "sessions" => UNCHANGED vars
    /\ p # "collections" => UNCHANGED collVars
    /\ p # "nodes" => UNCHANGED nodeVars
    /\ p # "providers" => UNCHANGED provVars
    /\ p # "messages" => UNCHANGED msgVars
    /\ p \notin {"signups", "addresses"} => UNCHANGED accVars
    /\ p # "users" => UNCHANGED authVars

TouchNext ==
    \/ Rest("sessions") /\ Next
    \/ Rest("collections") /\ CollNext
    \/ Rest("nodes") /\ NodeNext
    \/ Rest("providers") /\ ProvNext
    \/ Rest("messages") /\ MsgNext
    \/ Rest("signups") /\ \E c \in SignUps : SignUpSteps(c)
    \/ Rest("addresses") /\ \E c \in AddrSets : AddrSteps(c)
    \/ Rest("users") /\ AuthNext

(* Fairness of the peer sessions, when they are the part that moves. *)
TouchFairness ==
    /\ \A c \in Callers : /\ WF_vars(part = "sessions" /\ TouchHiTo(c))
                          /\ SF_vars(part = "sessions" /\ HiLock(c))
    /\ \A s \in Sids :
          /\ WF_vars(part = "sessions" /\ Reader(s))
          /\ WF_vars(part = "sessions" /\ Writer(s))
          /\ WF_vars(part = "sessions" /\ Processor(s))
          /\ WF_vars(part = "sessions" /\ Manager(s))

TouchSpec == TouchInit /\ [][TouchNext]_touchVars /\ TouchFairness

(* Type: the state of every part that moves here.                           *)
TouchTypeOK ==
    /\ CollTypeOK /\ NodeTypeOK /\ ProvTypeOK
    /\ MsgTypeOK /\ AccTypeOK /\ AuthTypeOK
=============================================================================
