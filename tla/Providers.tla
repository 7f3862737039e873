----------------------------- MODULE Providers -----------------------------
(***************************************************************************)
(* The providers of the ai-box (app/subserver/ai-box/service,              *)
(* provider_service.go).  UpdateProvider reads the row, changes the fields *)
(* of the request in its copy, and saves the copy: all columns, and as a   *)
(* new row when there is none any more, since Save of gorm inserts what it *)
(* does not find.  The other calls are one statement each; every statement *)
(* may fail, which changes nothing.                                        *)
(*                                                                         *)
(* There is one user.  The row of one provider is modelled, with fields    *)
(* that count the values they were given.                                  *)
(***************************************************************************)
EXTENDS Naturals

CONSTANTS
    Editors,    \* concurrent calls of UpdateProvider
    Fields,     \* columns an update may change
    MaxEdits,   \* bound: values a field is given
    NoRow       \* "no value"

ASSUME ProvidersAssumption ==
    /\ NoRow \notin Fields \cup [Fields -> Nat]
    /\ MaxEdits \in Nat

VARIABLES
    provRow,    \* the row: the value of every field, or NoRow
    provMade,   \* CreateProvider has been called; its identifier is new
    edPc,       \* of a call: rest or save
    edCopy,     \* its copy of the row, with the change
    edField,    \* the field it changes
    wanted,     \* the row if the answered calls had come one by one
    overlap     \* two updates, or an update and a removal, overlapped

provVars == <<provRow, provMade, edPc, edCopy, edField, wanted, overlap>>

Blank == [f \in Fields |-> 0]

ProvInit ==
    /\ provRow = NoRow /\ provMade = FALSE
    /\ edPc = [e \in Editors |-> "rest"]
    /\ edCopy = [e \in Editors |-> NoRow]
    /\ edField = [e \in Editors |-> NoRow]
    /\ wanted = NoRow /\ overlap = FALSE

Busy(e) == \E d \in Editors \ {e} : edPc[d] = "save"

-----------------------------------------------------------------------------
CreateProvider ==
    /\ ~provMade
    /\ provMade' = TRUE
    /\ provRow' = Blank /\ wanted' = Blank
    /\ UNCHANGED <<edPc, edCopy, edField, overlap>>

UpdateFind(e, f) ==
    /\ edPc[e] = "rest"
    /\ provRow # NoRow /\ provRow[f] < MaxEdits
    /\ edPc' = [edPc EXCEPT ![e] = "save"]
    /\ edCopy' = [edCopy EXCEPT ![e] = [provRow EXCEPT ![f] = @ + 1]]
    /\ edField' = [edField EXCEPT ![e] = f]
    /\ UNCHANGED <<provRow, provMade, wanted, overlap>>

Forget(e) ==
    /\ edPc' = [edPc EXCEPT ![e] = "rest"]
    /\ edCopy' = [edCopy EXCEPT ![e] = NoRow]
    /\ edField' = [edField EXCEPT ![e] = NoRow]

UpdateFailed(e) ==
    /\ edPc[e] = "save"
    /\ Forget(e)
    /\ UNCHANGED <<provRow, provMade, wanted, overlap>>

(* What the answer promises: the field has its new value. *)
Promise(e) ==
    /\ wanted' = IF wanted = NoRow THEN NoRow
                 ELSE [wanted EXCEPT ![edField[e]] = edCopy[e][edField[e]]]
    /\ overlap' = (overlap \/ Busy(e))

(* As a mutant: an update that starts from the defaults instead of the row. *)
UpdateSaveBlank(e) ==
    /\ edPc[e] = "save"
    /\ provRow' = [Blank EXCEPT ![edField[e]] = edCopy[e][edField[e]]]
    /\ Promise(e) /\ Forget(e)
    /\ UNCHANGED provMade

UpdateSave(e) ==
    /\ edPc[e] = "save"
    /\ provRow' = edCopy[e]
    /\ Promise(e) /\ Forget(e)
    /\ UNCHANGED provMade

DeleteProvider ==
    /\ provRow # NoRow
    /\ provRow' = NoRow /\ wanted' = NoRow
    /\ overlap' = (overlap \/ \E e \in Editors : edPc[e] = "save")
    /\ UNCHANGED <<provMade, edPc, edCopy, edField>>

ProvNext ==
    \/ CreateProvider \/ DeleteProvider
    \/ \E e \in Editors :
          \/ \E f \in Fields : UpdateFind(e, f)
          \/ UpdateFailed(e) \/ UpdateSave(e)

ProvSpec == ProvInit /\ [][ProvNext]_provVars

-----------------------------------------------------------------------------
Rows == [Fields -> Nat] \cup {NoRow}

(* The type of the state. *)
ProvTypeOK ==
    /\ provRow \in Rows /\ provMade \in BOOLEAN
    /\ edPc \in [Editors -> {"rest", "save"}]
    /\ edCopy \in [Editors -> Rows]
    /\ edField \in [Editors -> Fields \cup {NoRow}]
    /\ wanted \in Rows /\ overlap \in BOOLEAN

(* The row is what the answered calls ask for, field by field, and gone     *)
(* once it was deleted: a change is lost, or a deleted provider comes back, *)
(* only where two calls overlapped.  No failed statement, and no field the  *)
(* request leaves out, changes a thing.                                     *)
ProviderAsAsked == ~overlap => provRow = wanted
=============================================================================
