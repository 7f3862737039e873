---------------------------- MODULE Collections ----------------------------
(***************************************************************************)
(* The collections of an ActivityPub actor (touch/model/actor/follow.go,   *)
(* liked.go, inbox.go, outbox.go).  Every method holds the lock of its     *)
(* collection from start to end, so a method is a step; what overlaps is a *)
(* reader that fetches page after page, and the listeners, whose errors    *)
(* end the loop over them in three of the types.                           *)
(*                                                                         *)
(* One collection is modelled; collType says which of the five it is.      *)
(* Following and Followers have no pages: their reader gets everything.    *)
(***************************************************************************)
EXTENDS Integers, Sequences, FiniteSets

CONSTANTS
    Items,      \* identifiers of actors, objects or activities
    Ears,       \* listeners; the model registers each once at a time
    PageSize,   \* limit a reader asks for
    MaxItems    \* bound: length of the collection

ASSUME CollectionsAssumption == PageSize \in Nat \ {0} /\ MaxItems \in Nat

VARIABLES
    collType,   \* following, followers, liked, inbox or outbox
    items,      \* Items or OrderedItems
    total,      \* TotalItems; the boxes alone keep it
    ears,       \* listeners in order of registration
    heard,      \* of a listener and an item: calls of OnFollow minus OnUnfollow
    astray,     \* listeners the code has passed over, or that came late
    reading,    \* a reader is between two pages
    offset,     \* the offset it asks for next
    seen,       \* items it was given
    before,     \* items the collection had when it began
    pulled      \* something was taken out since

noiseVars == <<ears, heard, astray>>
readVars  == <<reading, offset, seen, before>>
collVars  == <<collType, items, total, noiseVars, readVars, pulled>>

Lists == {"following", "followers", "liked"}
Boxes == {"inbox", "outbox"}
Members == {items[k] : k \in DOMAIN items}
Listening == {ears[k] : k \in DOMAIN ears}

Silence == [x \in Items |-> 0]

(* Where x is first, and a list without its k-th member. *)
First(s, x) == CHOOSE i \in DOMAIN s : s[i] = x /\ \A j \in 1..(i - 1) : s[j] # x
DropAt(s, k) == [i \in 1..(Len(s) - 1) |-> IF i < k THEN s[i] ELSE s[i + 1]]

CollInit ==
    /\ collType \in Lists \cup Boxes
    /\ items = <<>> /\ total = 0
    /\ ears = <<>> /\ astray = {}
    /\ heard = [l \in Ears |-> Silence]
    /\ reading = FALSE /\ offset = 0
    /\ seen = {} /\ before = {} /\ pulled = FALSE

-----------------------------------------------------------------------------
(* The loop over the listeners reaches the first n: the n-th has returned   *)
(* an error, or is the last.  The calls of one that went astray are not     *)
(* counted any more.                                                        *)
Known(h, a) == [l \in Ears |-> IF l \in a THEN Silence ELSE h[l]]
Reached == IF ears = <<>> THEN {0} ELSE 1..Len(ears)
Tell(n, x, d) ==
    /\ astray' = astray \cup {ears[k] : k \in (n + 1)..Len(ears)}
    /\ heard' = Known([l \in Ears |-> IF l \in Listening
                                      THEN [heard[l] EXCEPT ![x] = @ + d]
                                      ELSE heard[l]], astray')
    /\ UNCHANGED ears

Take(x) ==
    /\ x \notin Members /\ Len(items) < MaxItems
    /\ items' = Append(items, x)
    /\ \E n \in Reached : Tell(n, x, 1)
    /\ UNCHANGED <<collType, total, readVars, pulled>>

Follow(x)      == collType = "following" /\ Take(x)
AddFollower(x) == collType = "followers" /\ Take(x)
Like(x)        == collType = "liked" /\ Take(x)

(* As a mutant: the listeners first, and an error keeps the item. *)
GiveLate(x) ==
    /\ x \in Members
    /\ items' \in {items, DropAt(items, First(items, x))}
    /\ \E n \in Reached : Tell(n, x, -1)
    /\ pulled' = TRUE
    /\ UNCHANGED <<collType, total, readVars>>

(* Every equal item goes; Contains has kept doubles out, so it is one. *)
Give(x) ==
    /\ x \in Members
    /\ items' = DropAt(items, First(items, x))
    /\ \E n \in Reached : Tell(n, x, -1)
    /\ pulled' = TRUE
    /\ UNCHANGED <<collType, total, readVars>>

Unfollow(x)       == collType = "following" /\ Give(x)
RemoveFollower(x) == collType = "followers" /\ Give(x)
Unlike(x)         == collType = "liked" /\ Give(x)

(* The boxes put the newest first, keep doubles, and call every listener,   *)
(* whatever it returns: their listeners are left out.                       *)
Put(x) ==
    /\ Len(items) < MaxItems
    /\ items' = <<x>> \o items
    /\ total' = total + 1
    /\ UNCHANGED <<collType, noiseVars, readVars, pulled>>

ReceiveActivity(x) == collType = "inbox" /\ Put(x)
SendActivity(x)    == collType = "outbox" /\ Put(x)   \* QueueActivity does the same

(* The first activity of that identifier goes. *)
Remove(x) ==
    /\ x \in Members
    /\ items' = DropAt(items, First(items, x))
    /\ total' = total - 1
    /\ pulled' = TRUE
    /\ UNCHANGED <<collType, noiseVars, readVars>>

InboxRemove(x)  == collType = "inbox" /\ Remove(x)
OutboxRemove(x) == collType = "outbox" /\ Remove(x)

(* Nobody is told.  As a mutant: the counter of a box stays. *)
ClearItems ==
    /\ items' = <<>> /\ pulled' = TRUE
    /\ astray' = IF items = <<>> THEN astray ELSE astray \cup Listening
    /\ heard' = Known(heard, astray')
    /\ UNCHANGED <<collType, total, ears, readVars>>

Clear ==
    /\ items' = <<>> /\ total' = 0 /\ pulled' = TRUE
    /\ astray' = IF items = <<>> THEN astray ELSE astray \cup Listening
    /\ heard' = Known(heard, astray')
    /\ UNCHANGED <<collType, ears, readVars>>

AddListener(l) ==
    /\ collType \in Lists
    /\ l \notin Listening
    /\ ears' = Append(ears, l)
    /\ astray' = IF items = <<>> THEN astray ELSE astray \cup {l}
    /\ UNCHANGED <<collType, items, total, heard, readVars, pulled>>

RemoveListener(l) ==
    /\ collType \in Lists
    /\ l \in Listening
    /\ ears' = DropAt(ears, First(ears, l))
    /\ heard' = [heard EXCEPT ![l] = Silence]
    /\ astray' = astray \ {l}
    /\ UNCHANGED <<collType, items, total, readVars, pulled>>

-----------------------------------------------------------------------------
(* A reader that walks through the pages. *)
Begin ==
    /\ ~reading
    /\ reading' = TRUE /\ offset' = 0 /\ seen' = {}
    /\ before' = Members
    /\ pulled' = FALSE
    /\ UNCHANGED <<collType, items, total, noiseVars>>

Least(a, b) == IF a < b THEN a ELSE b

(* As a mutant: the page leaves out its last item. *)
PageShort ==
    /\ reading
    /\ LET end == Least(offset + PageSize, Len(items)) IN
          IF offset >= Len(items)
          THEN reading' = FALSE /\ UNCHANGED <<offset, seen>>
          ELSE /\ seen' = seen \cup {items[k] : k \in (offset + 1)..(end - 1)}
               /\ offset' = end
               /\ UNCHANGED reading
    /\ UNCHANGED <<collType, items, total, noiseVars, before, pulled>>

Page ==
    /\ reading
    /\ LET end == Least(offset + PageSize, Len(items)) IN
          IF offset >= Len(items)
          THEN reading' = FALSE /\ UNCHANGED <<offset, seen>>
          ELSE /\ seen' = seen \cup {items[k] : k \in (offset + 1)..end}
               /\ offset' = end
               /\ UNCHANGED reading
    /\ UNCHANGED <<collType, items, total, noiseVars, before, pulled>>

GetLikedPaginated == collType = "liked" /\ Page
GetActivities     == collType \in Boxes /\ Page
WalkBegin         == collType \in Boxes \cup {"liked"} /\ Begin

CollNext ==
    \/ \E x \in Items :
          \/ Follow(x) \/ AddFollower(x) \/ Like(x)
          \/ Unfollow(x) \/ RemoveFollower(x) \/ Unlike(x)
          \/ ReceiveActivity(x) \/ SendActivity(x) \/ InboxRemove(x) \/ OutboxRemove(x)
    \/ \E l \in Ears : AddListener(l) \/ RemoveListener(l)
    \/ Clear \/ WalkBegin \/ GetLikedPaginated \/ GetActivities

CollSpec == CollInit /\ [][CollNext]_collVars

-----------------------------------------------------------------------------
(* The type of the state; TotalItems of a box, which Count answers with, is *)
(* its length, whatever is received, removed and cleared.                   *)
CollTypeOK ==
    /\ collType \in Lists \cup Boxes
    /\ items \in Seq(Items)
    /\ total = IF collType \in Boxes THEN Len(items) ELSE 0
    /\ ears \in Seq(Ears)
    /\ heard \in [Ears -> [Items -> Int]]
    /\ astray \subseteq Ears
    /\ reading \in BOOLEAN /\ offset \in Nat
    /\ seen \subseteq Items /\ before \subseteq Items
    /\ pulled \in BOOLEAN

(* A listener that was there from the start, and that no error of an        *)
(* earlier one has kept in the dark, knows the collection: it was told of   *)
(* every item once, and once again when it went.                            *)
ListenersKeepUp ==
    \A l \in Listening \ astray, x \in Items :
        collType \in Lists => heard[l][x] = IF x \in Members THEN 1 ELSE 0

(* A reader that pages by offset while others add misses nothing that was   *)
(* there when it began, unless something was taken out meanwhile: what is   *)
(* put in front of the boxes only makes it see items twice.                 *)
WalkMissesNothing ==
    ~reading /\ ~pulled => before \subseteq seen
=============================================================================
