------------------------------ MODULE Accounts ------------------------------
(***************************************************************************)
(* Two handlers of the station that look before they write, without a      *)
(* transaction: SignUp (touch/actor/actor.go) looks for an actor of the    *)
(* same name or email, then creates the actor and its profile; SetPeerAddr *)
(* (touch/peer/peer.go) looks for the same address, then creates it.  The  *)
(* actor table has a unique index over the email and none over the name;   *)
(* the address table has none.  Every statement may fail.                  *)
(*                                                                         *)
(* A call is an element of SignUps or AddrSets and runs once; a client     *)
(* that tries again makes another call.  The identifier SignUp draws from  *)
(* the snowflake generator is taken to be new, so its loop runs once.      *)
(***************************************************************************)
EXTENDS Naturals

CONSTANTS
    SignUps,   \* calls of SignUp
    AddrSets,  \* calls of SetPeerAddr
    Names,     \* actor names
    Emails,    \* actor emails
    PeerAddrs, \* (peer id, address, type) triples
    NoText     \* no name, email or address

Calls == SignUps \cup AddrSets

ASSUME AccountsAssumption ==
    /\ SignUps \cap AddrSets = {}
    /\ NoText \notin Names \cup Emails \cup PeerAddrs

VARIABLES
    accPc,    \* where each call is, or how it ended
    name,     \* name of a sign-up
    email,    \* email of a sign-up
    peerAddr, \* address of a SetPeerAddr
    actors,   \* sign-ups whose row is in touch_actor
    profiles, \* sign-ups whose row is in touch_actor_profile
    addrs,    \* SetPeerAddr calls whose row is in the address table
    met       \* history: for each call, the calls it overlapped

accVars == <<accPc, name, email, peerAddr, actors, profiles, addrs, met>>
accRows == <<actors, profiles, addrs>>
accArgs == <<name, email, peerAddr, met>>

Answered == {"new", "ok", "exists", "error"}
Underway == {c \in Calls : accPc[c] \notin Answered}

AccInit ==
    /\ accPc = [c \in Calls |-> "new"]
    /\ name = [c \in SignUps |-> NoText]
    /\ email = [c \in SignUps |-> NoText]
    /\ peerAddr = [c \in AddrSets |-> NoText]
    /\ actors = {}
    /\ profiles = {}
    /\ addrs = {}
    /\ met = [c \in Calls |-> {}]

(* The call starts: it overlaps the calls that are under way. *)
Meets(c) ==
    met' = [d \in Calls |->
              IF d = c THEN Underway
              ELSE IF d \in Underway THEN met[d] \cup {c} ELSE met[d]]

Goes(c, from, to) == accPc[c] = from /\ accPc' = [accPc EXCEPT ![c] = to]

(* ActorSignup, once the request is bound and checked. *)
SignUp(c, n, e) ==
    /\ Goes(c, "new", "check")
    /\ name' = [name EXCEPT ![c] = n]
    /\ email' = [email EXCEPT ![c] = e]
    /\ Meets(c)
    /\ UNCHANGED <<peerAddr, actors, profiles, addrs>>

(* As bug: only the email is looked up. *)
TakenEmail(c) == \E d \in actors : email[d] = email[c]

(* Is there an actor of the same name or email? *)
Taken(c) == \E d \in actors : name[d] = name[c] \/ email[d] = email[c]

CheckExisting(c) ==
    /\ \/ Taken(c) /\ Goes(c, "check", "exists")
       \/ ~Taken(c) /\ Goes(c, "check", "create")
       \/ Goes(c, "check", "error")
    /\ UNCHANGED <<accArgs, accRows>>

(* generateHash, the identifier and the insert, which the index over the    *)
(* email refuses when a call this one overlapped was first.                 *)
CreateActor(c) ==
    /\ \/ /\ Goes(c, "create", "profile")
          /\ \A d \in actors : email[d] # email[c]
          /\ actors' = actors \cup {c}
       \/ Goes(c, "create", "error") /\ UNCHANGED actors
    /\ UNCHANGED <<accArgs, profiles, addrs>>

(* The profile; its failure leaves the actor where it is. *)
CreateProfile(c) ==
    /\ \/ Goes(c, "profile", "ok") /\ profiles' = profiles \cup {c}
       \/ Goes(c, "profile", "error") /\ UNCHANGED profiles
    /\ UNCHANGED <<accArgs, actors, addrs>>

(* SetPeerAddr starts. *)
SetPeerAddr(c, a) ==
    /\ Goes(c, "new", "look")
    /\ peerAddr' = [peerAddr EXCEPT ![c] = a]
    /\ Meets(c)
    /\ UNCHANGED <<name, email, actors, profiles, addrs>>

(* As bug: a query that failed is taken for "record not found". *)
FindAddrBlind(c) ==
    LET there == \E d \in addrs : peerAddr[d] = peerAddr[c] IN
    /\ \/ there /\ Goes(c, "look", "exists")
       \/ Goes(c, "look", "save")
    /\ UNCHANGED <<accArgs, accRows>>

(* First, by peer, address and type. *)
FindAddr(c) ==
    LET there == \E d \in addrs : peerAddr[d] = peerAddr[c] IN
    /\ \/ there /\ Goes(c, "look", "exists")
       \/ ~there /\ Goes(c, "look", "save")
       \/ Goes(c, "look", "error")
    /\ UNCHANGED <<accArgs, accRows>>

CreateAddr(c) ==
    /\ \/ Goes(c, "save", "ok") /\ addrs' = addrs \cup {c}
       \/ Goes(c, "save", "error") /\ UNCHANGED addrs
    /\ UNCHANGED <<accArgs, actors, profiles>>

SignUpSteps(c) ==
    \/ \E n \in Names, e \in Emails : SignUp(c, n, e)
    \/ CheckExisting(c) \/ CreateActor(c) \/ CreateProfile(c)
AddrSteps(c) ==
    \/ \E a \in PeerAddrs : SetPeerAddr(c, a)
    \/ FindAddr(c) \/ CreateAddr(c)

AccNext == \/ \E c \in SignUps : SignUpSteps(c)
           \/ \E c \in AddrSets : AddrSteps(c)

AccSpec == AccInit /\ [][AccNext]_accVars

----------------------------------------------------------------------------
(* Type: the calls, their arguments and their rows; only a sign-up has an   *)
(* actor, and only a sign-up with an actor has a profile.                   *)
AccTypeOK ==
    /\ accPc \in [Calls -> Answered \cup {"check", "create", "profile", "look", "save"}]
    /\ name \in [SignUps -> Names \cup {NoText}]
    /\ email \in [SignUps -> Emails \cup {NoText}]
    /\ peerAddr \in [AddrSets -> PeerAddrs \cup {NoText}]
    /\ actors \subseteq SignUps
    /\ profiles \subseteq actors
    /\ addrs \subseteq AddrSets
    /\ met \in [Calls -> SUBSET Calls]

(* What SignUp leaves behind (actor.go:20): no two actors of one email; two *)
(* of one name only when the sign-ups overlapped, which no index prevents;  *)
(* an actor without a profile only from a sign-up that is under way or      *)
(* answered with an error; and "exists" only when another sign-up holds the *)
(* name or the email.                                                       *)
SignupOutcome ==
    /\ \A c, d \in actors : c # d =>
          email[c] # email[d] /\ (name[c] = name[d] => d \in met[c])
    /\ \A c \in actors \ profiles : accPc[c] \in {"profile", "error"}
    /\ \A c \in SignUps : accPc[c] = "exists" =>
          \E d \in actors \ {c} : name[d] = name[c] \/ email[d] = email[c]

(* "It checks for duplicate entries ... before saving" (peer.go:17): one    *)
(* address has two rows only when the calls that wrote them overlapped.     *)
AddressRowsMet ==
    \A c, d \in addrs : c # d /\ peerAddr[c] = peerAddr[d] => d \in met[c]
=============================================================================
