---------------------------- MODULE PartnerDesk ----------------------------
(***************************************************************************)
(* The two lists the superadmins keep for the public pages: partners       *)
(* (frontend/src/pages/admin/PartnersPage.tsx) and sign-in logos           *)
(* (AuthLogoSettings.tsx), with the rows of backend/adminpanel/partners.py.*)
(*                                                                         *)
(* A page has one form for a new row and for one being edited, next to     *)
(* the list it last loaded.  What a row says is told apart by where it was *)
(* typed: the fields a row was made with are its own.                      *)
(***************************************************************************)
EXTENDS FiniteSets

CONSTANTS
    Editors,  \* open pages of superadmins
    Rows,     \* rows that can be made
    Blank     \* no row, an empty form

ASSUME PartnerDeskAssumption == Blank \notin Rows

VARIABLES
    list,     \* "partners" or "logos"
    fields,   \* the server: whose fields a row has, Blank when there is no row
    removed,  \* rows deleted
    loaded,   \* a page: the rows it shows, with the fields it shows for them
    form,     \* a page: id and draft
    saving,   \* a page: its save request
    removing  \* a page: its removal request

partnerVars == <<list, fields, removed, loaded, form, saving, removing>>

Empty == [id |-> Blank, draft |-> Blank]
Idle == [at |-> "idle"]
Present == {r \in Rows : fields[r] # Blank}

PartnerInit ==
    /\ list \in {"partners", "logos"}
    /\ fields = [r \in Rows |-> Blank]
    /\ removed = {}
    /\ loaded = [e \in Editors |-> [r \in Rows |-> Blank]]
    /\ form = [e \in Editors |-> Empty]
    /\ saving = [e \in Editors |-> Idle]
    /\ removing = [e \in Editors |-> Idle]

(* The fieldset of the partners is disabled while it saves; the form of    *)
(* the logos is not.                                                       *)
Typing(e) == list = "partners" => saving[e] = Idle

(* The query of the list: on opening, after a save, whenever the window    *)
(* gets the focus.                                                         *)
LoadRows(e) ==
    /\ loaded[e] # fields
    /\ loaded' = [loaded EXCEPT ![e] = fields]
    /\ UNCHANGED <<list, fields, removed, form, saving, removing>>

(* The button of a row works while a save or a removal is under way.       *)
EditRow(e, r) ==
    /\ loaded[e][r] # Blank
    /\ form' = [form EXCEPT ![e] = [id |-> r, draft |-> loaded[e][r]]]
    /\ UNCHANGED <<list, fields, removed, loaded, saving, removing>>

CancelEdit(e) ==
    /\ form[e].id # Blank /\ Typing(e)
    /\ form' = [form EXCEPT ![e] = Empty]
    /\ UNCHANGED <<list, fields, removed, loaded, saving, removing>>

(* partnersApi.save: PATCH with an id, POST without.                       *)
PressSave(e) ==
    /\ saving[e] = Idle
    /\ saving' = [saving EXCEPT ![e] = [at |-> "sent", id |-> form[e].id, draft |-> form[e].draft]]
    /\ UNCHANGED <<list, fields, removed, loaded, form, removing>>

Own(r, draft) == IF draft = Blank THEN r ELSE draft

(* perform_create gives the row a new id; perform_update writes every      *)
(* field; a row that is gone is answered 404.                              *)
SaveRow(e, r) ==
    LET id == saving[e].id IN
    /\ saving[e].at = "sent"
    /\ IF id = Blank THEN r \notin Present \cup removed ELSE r = id
    /\ LET found == id = Blank \/ r \in Present IN
       /\ fields' = IF found THEN [fields EXCEPT ![r] = Own(r, saving[e].draft)] ELSE fields
       /\ saving' = [saving EXCEPT ![e].at = IF found THEN "done" ELSE "refused"]
    /\ UNCHANGED <<list, removed, loaded, form, removing>>

(* onSuccess empties the form, whatever it is showing by then; an error    *)
(* leaves it.                                                              *)
SaveAnswered(e) ==
    /\ saving[e].at \in {"done", "refused"}
    /\ saving' = [saving EXCEPT ![e] = Idle]
    /\ form' = IF saving[e].at = "done" THEN [form EXCEPT ![e] = Empty] ELSE form
    /\ UNCHANGED <<list, fields, removed, loaded, removing>>

(* The partners ask once more before this, in the row itself; the buttons  *)
(* of all rows are disabled while a removal is under way.                  *)
PressRemove(e, r) ==
    /\ loaded[e][r] # Blank /\ removing[e] = Idle
    /\ removing' = [removing EXCEPT ![e] = [at |-> "sent", id |-> r]]
    /\ UNCHANGED <<list, fields, removed, loaded, form, saving>>

(* perform_destroy.                                                        *)
RemoveRow(e) ==
    LET r == removing[e].id IN
    /\ removing[e].at = "sent"
    /\ fields' = [fields EXCEPT ![r] = Blank]
    /\ removed' = removed \cup {r}
    /\ removing' = [removing EXCEPT ![e].at = IF r \in Present THEN "done" ELSE "refused"]
    /\ UNCHANGED <<list, loaded, form, saving>>

(* Mutant of WithoutRow: the form keeps the draft of the removed row.      *)
WithoutRowId(f, r) == IF f.id = r THEN [f EXCEPT !.id = Blank] ELSE f

WithoutRow(f, r) == IF f.id = r THEN Empty ELSE f

(* The form is emptied when it is the removed row it shows by then.        *)
RemovalAnswered(e) ==
    /\ removing[e].at \in {"done", "refused"}
    /\ removing' = [removing EXCEPT ![e] = Idle]
    /\ form' = IF removing[e].at = "done"
               THEN [form EXCEPT ![e] = WithoutRow(@, removing[e].id)] ELSE form
    /\ UNCHANGED <<list, fields, removed, loaded, saving>>

PartnerNext ==
    \E e \in Editors :
       \/ LoadRows(e) \/ CancelEdit(e) \/ PressSave(e) \/ SaveAnswered(e)
       \/ RemoveRow(e) \/ RemovalAnswered(e)
       \/ \E r \in Rows : EditRow(e, r) \/ SaveRow(e, r) \/ PressRemove(e, r)

PartnerSpec == PartnerInit /\ [][PartnerNext]_partnerVars

-----------------------------------------------------------------------------
(* No row has the fields of another one, and none comes back under a new   *)
(* id after it was removed: whatever is saved, edited and removed at once  *)
(* on several pages, the form's id and draft go together (PartnersPage.tsx *)
(* 54-78, AuthLogoSettings.tsx 17-36).                                     *)
RowsKeepTheirFields == \A r \in Present : fields[r] = r
=============================================================================
