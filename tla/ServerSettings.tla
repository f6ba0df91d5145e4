--------------------------- MODULE ServerSettings ---------------------------
(***************************************************************************)
(* The profile form and the role editor of ServerSettingsOverlay, used     *)
(* while other managers change the same server.  A form is filled from     *)
(* what was loaded, edited, and saved field by field; it is filled again   *)
(* whenever what it shows is loaded anew.                                  *)
(*                                                                         *)
(* A value is 0 at first, positive when the user wrote it, and negative    *)
(* when somebody else did.                                                 *)
(***************************************************************************)
EXTENDS Integers, FiniteSets, Functions

CONSTANTS Roles,     \* all there may be
          NewRole    \* the one that is not there yet

ASSUME SettingsAssumption == NewRole \in Roles /\ {"none", "profile"} \cap Roles = {}

VARIABLES
  rows,      \* backend: the values of the fields, for the profile and the roles
  alive,     \* backend: the roles there are
  minted,    \* backend: the new role was created, and its id is used up
  tab,
  server,    \* the profile as AppShell has loaded it
  typed, initial,  \* the profile form, and what its changes are counted from
  roles,     \* the roles as loaded
  editing,   \* the role in the editor, or none
  draft,     \* the form of the editor
  load,      \* the request for the roles, with the answer
  reqs,      \* the other requests
  edited,    \* what the user has edited since the form was filled: two sets
  strayed,   \* the draft has the icon that was uploaded for another role
  overtaken, \* a role was created during the "load" at work, or that of the "list"
  edits, troubles  \* how often the user, and others or the network, may act

backend == <<rows, alive, minted>>
profile == <<server, typed, initial>>
editor == <<roles, editing, draft, strayed>>
settingsVars == <<backend, tab, profile, editor, load, reqs, edited,
                  overtaken, edits, troubles>>

Fields == {"name", "icon"}
Blank == [f \in Fields |-> 0]
Sheets == Roles \cup {"profile"}
Idle == [step |-> "none", roles |-> << >>]
Saving(sheets) == \E r \in reqs : r.kind \in {"save", "refresh"} /\ r.sheet \in sheets
Busy(kinds) == \E r \in reqs : r.kind \in kinds

SettingsInit(n, m) ==
  /\ rows = [s \in Sheets |-> Blank] /\ alive = Roles \ {NewRole} /\ minted = FALSE
  /\ tab = "profile"
  /\ server = Blank /\ typed = Blank /\ initial = Blank
  /\ roles = << >> /\ editing = "none" /\ draft = Blank /\ load = Idle
  /\ reqs = {} /\ edited = [profile |-> {}, role |-> {}]
  /\ strayed = FALSE /\ overtaken = {}
  /\ edits = n /\ troubles = m

Edit == edits > 0 /\ edits' = edits - 1
Trouble == troubles > 0 /\ troubles' = troubles - 1

(* The fields in which two forms differ.                                   *)
Changes(new, old) == {f \in Fields : new[f] # old[f]}

Request(kind, sheet, body, touched) ==
  [id |-> edits, kind |-> kind, sheet |-> sheet, body |-> body, touched |-> touched,
   stray |-> strayed /\ sheet # "profile", step |-> "asked", row |-> Blank]

(* The editor shows role r of the loaded roles R; its draft is filled when *)
(* that is another object than before, and not otherwise.                  *)
Show(R, r, anew) ==
  /\ roles' = R /\ editing' = r
  /\ IF anew
     THEN /\ draft' = IF r \in DOMAIN R THEN R[r] ELSE Blank
          /\ edited' = [edited EXCEPT !.role = {}]
          /\ strayed' = FALSE
     ELSE UNCHANGED <<draft, edited, strayed>>

EditorOpen == tab = "roles" /\ editing \in DOMAIN roles

-----------------------------------------------------------------------------
(* The backend answers.                                                    *)

Stored(r) ==
  CASE r.kind = "save" /\ (r.sheet = "profile" \/ r.sheet \in alive) ->
         [rows EXCEPT ![r.sheet] = [f \in Fields |-> IF f \in DOMAIN r.body THEN r.body[f] ELSE @[f]]]
    [] OTHER -> rows

Refused(r) == r.kind = "save" /\ r.sheet \notin alive \cup {"profile"}

Answer(r) ==
  /\ r \in reqs /\ r.step = "asked"
  /\ rows' = Stored(r)
  /\ alive' = CASE r.kind = "create" -> alive \cup {r.sheet}
                [] r.kind = "delete" -> alive \ {r.sheet}
                [] OTHER -> alive
  /\ minted' = (minted \/ r.kind = "create")
  /\ reqs' = (reqs \ {r}) \cup
       {[r EXCEPT !.step = IF Refused(r) THEN "refused" ELSE "done",
                  !.row = rows'[r.sheet]]}
  /\ UNCHANGED <<tab, profile, editor, load, edited, overtaken, edits, troubles>>

RolesAreAnswered ==
  /\ load.step = "asked"
  /\ load' = [step |-> "answered", roles |-> Restrict(rows, alive)]
  /\ UNCHANGED <<backend, tab, profile, editor, reqs, edited, overtaken, edits, troubles>>

(* Another manager changes a field or deletes a role.                      *)
OtherManagers ==
  /\ Trouble
  /\ \/ \E s \in alive \cup {"profile"}, f \in Fields :
          rows' = [rows EXCEPT ![s][f] = -troubles] /\ UNCHANGED alive
     \/ \E r \in alive : alive' = alive \ {r} /\ UNCHANGED rows
  /\ UNCHANGED <<minted, tab, profile, editor, load, reqs, edited, overtaken, edits>>

(* A request is refused, or fails for a reason of its own.                 *)
Fails(r) ==
  /\ r \in reqs
  /\ IF r.step = "refused" THEN UNCHANGED troubles ELSE Trouble
  /\ reqs' = reqs \ {r}
  /\ UNCHANGED <<backend, tab, profile, editor, load, edited, overtaken, edits>>

-----------------------------------------------------------------------------
(* The profile.                                                            *)

EditProfile(f) ==
  /\ tab = "profile" /\ Edit
  /\ IF f = "icon"
     THEN /\ ~\E r \in reqs : r.kind = "upload" /\ r.sheet = "profile"
          /\ reqs' = reqs \cup {Request("upload", "profile", << >>, {})}
          /\ UNCHANGED <<typed, edited>>
     ELSE /\ typed' = [typed EXCEPT ![f] = edits]
          /\ edited' = [edited EXCEPT !.profile = @ \cup {f}]
          /\ UNCHANGED reqs
  /\ UNCHANGED <<backend, tab, server, initial, editor, load, overtaken, troubles>>

(* Put back what was there before the edits.                               *)
ResetProfile ==
  /\ tab = "profile" /\ typed # initial
  /\ typed' = initial /\ edited' = [edited EXCEPT !.profile = {}]
  /\ UNCHANGED <<backend, tab, server, initial, editor, load, reqs, overtaken, edits, troubles>>

(* Mutant: the whole form is saved.                                        *)
SaveProfileWhole ==
  /\ tab = "profile" /\ typed # initial /\ ~Saving({"profile"}) /\ Edit
  /\ reqs' = reqs \cup {Request("save", "profile", typed, edited.profile)}
  /\ UNCHANGED <<backend, tab, profile, editor, load, edited, overtaken, troubles>>

(* handleSaveProfile: the fields that differ from `initial`.               *)
SaveProfile ==
  /\ tab = "profile" /\ typed # initial /\ ~Saving({"profile"}) /\ Edit
  /\ reqs' = reqs \cup
       {Request("save", "profile", Restrict(typed, Changes(typed, initial)), edited.profile)}
  /\ UNCHANGED <<backend, tab, profile, editor, load, edited, overtaken, troubles>>

ProfileUploaded(r) ==
  /\ r \in reqs /\ r.kind = "upload" /\ r.sheet = "profile" /\ r.step = "done"
  /\ reqs' = reqs \ {r}
  /\ typed' = [typed EXCEPT !.icon = r.id]
  /\ edited' = [edited EXCEPT !.profile = @ \cup {"icon"}]
  /\ UNCHANGED <<backend, tab, server, initial, editor, load, overtaken, edits, troubles>>

(* Saved; AppShell loads the server again.                                 *)
ProfileSaved(r) ==
  /\ r \in reqs /\ r.kind = "save" /\ r.sheet = "profile" /\ r.step = "done"
  /\ reqs' = (reqs \ {r}) \cup {[r EXCEPT !.kind = "refresh", !.step = "asked"]}
  /\ UNCHANGED <<backend, tab, profile, editor, load, edited, overtaken, edits, troubles>>

(* The form is filled from what came, which may wipe out what the user     *)
(* typed meanwhile; if nothing came that is new, changes are counted from  *)
(* what was saved.                                                         *)
ProfileRefreshed(r) ==
  /\ r \in reqs /\ r.kind = "refresh" /\ r.step = "done"
  /\ reqs' = reqs \ {r}
  /\ server' = r.row
  /\ IF r.row # server
     THEN typed' = r.row /\ initial' = r.row /\ edited' = [edited EXCEPT !.profile = {}]
     ELSE /\ initial' = [f \in Fields |-> IF f \in DOMAIN r.body THEN r.body[f] ELSE initial[f]]
          /\ UNCHANGED <<typed, edited>>
  /\ UNCHANGED <<backend, tab, editor, load, overtaken, edits, troubles>>

-----------------------------------------------------------------------------
(* The roles.  The list is loaded whenever the tab is opened.              *)

OpenTab(t) ==
  /\ tab # t /\ Edit
  /\ tab' = t
  /\ load' = IF t = "roles" THEN [Idle EXCEPT !.step = "asked"] ELSE Idle
  /\ overtaken' = overtaken \ {"load"}
  /\ UNCHANGED <<backend, profile, editor, reqs, edited, troubles>>

RolesArrive ==
  /\ load.step = "answered"
  /\ load' = Idle
  /\ Show(load.roles, editing, TRUE)
  /\ overtaken' = IF "load" \in overtaken THEN {"list"} ELSE {}
  /\ UNCHANGED <<backend, tab, profile, reqs, edits, troubles>>

RolesFail ==
  /\ load.step # "none" /\ Trouble
  /\ load' = Idle /\ overtaken' = overtaken \ {"load"}
  /\ UNCHANGED <<backend, tab, profile, editor, reqs, edited, edits>>

(* From the list, or from the list beside the editor; or back to the list. *)
OpenRole(r) ==
  /\ tab = "roles" /\ (editing = "none" \/ EditorOpen)
  /\ r # editing /\ r \in DOMAIN roles
  /\ Show(roles, r, TRUE)
  /\ UNCHANGED <<backend, tab, profile, load, reqs, overtaken, edits, troubles>>

CloseRole ==
  /\ EditorOpen
  /\ Show(roles, "none", TRUE)
  /\ UNCHANGED <<backend, tab, profile, load, reqs, overtaken, edits, troubles>>

EditRole(f) ==
  /\ EditorOpen /\ Edit
  /\ IF f = "icon"
     THEN /\ ~\E r \in reqs : r.kind = "upload" /\ r.sheet # "profile"
          /\ reqs' = reqs \cup {Request("upload", editing, << >>, {})}
          /\ UNCHANGED <<draft, edited>>
     ELSE /\ draft' = [draft EXCEPT ![f] = edits]
          /\ edited' = [edited EXCEPT !.role = @ \cup {f}]
          /\ UNCHANGED reqs
  /\ UNCHANGED <<backend, tab, profile, roles, editing, strayed, load, overtaken, troubles>>

(* The uploaded icon goes into the draft that is open by now.              *)
RoleIconUploaded(r) ==
  /\ r \in reqs /\ r.kind = "upload" /\ r.sheet # "profile" /\ r.step = "done"
  /\ reqs' = reqs \ {r}
  /\ IF editing \in DOMAIN roles
     THEN /\ draft' = [draft EXCEPT !.icon = r.id]
          /\ edited' = IF editing = r.sheet THEN [edited EXCEPT !.role = @ \cup {"icon"}] ELSE edited
          /\ strayed' = (strayed \/ editing # r.sheet)
     ELSE UNCHANGED <<draft, edited, strayed>>
  /\ UNCHANGED <<backend, tab, profile, roles, editing, load, overtaken, edits, troubles>>

ResetRole ==
  /\ EditorOpen /\ draft # roles[editing]
  /\ Show(roles, editing, TRUE)
  /\ UNCHANGED <<backend, tab, profile, load, reqs, overtaken, edits, troubles>>

(* saveRoleDraft: the fields that differ from the role as it was loaded.   *)
SaveRole ==
  /\ EditorOpen /\ draft # roles[editing] /\ ~Saving(Roles) /\ Edit
  /\ reqs' = reqs \cup
       {Request("save", editing, Restrict(draft, Changes(draft, roles[editing])), edited.role)}
  /\ UNCHANGED <<backend, tab, profile, editor, load, edited, overtaken, troubles>>

(* The role as the backend has it now takes its place in the list.         *)
RoleSaved(r) ==
  /\ r \in reqs /\ r.kind = "save" /\ r.sheet # "profile" /\ r.step = "done"
  /\ reqs' = reqs \ {r}
  /\ Show([q \in DOMAIN roles |-> IF q = r.sheet THEN r.row ELSE roles[q]],
          editing, editing = r.sheet)
  /\ UNCHANGED <<backend, tab, profile, load, overtaken, edits, troubles>>

CreateRole ==
  /\ tab = "roles" /\ editing = "none" /\ ~minted
  /\ ~Busy({"create"}) /\ Edit
  /\ reqs' = reqs \cup {Request("create", NewRole, << >>, {})}
  /\ UNCHANGED <<backend, tab, profile, editor, load, edited, overtaken, troubles>>

(* Mutant: the new role is opened, and the list is not told.               *)
RoleCreatedOnly(r) ==
  /\ r \in reqs /\ r.kind = "create" /\ r.step = "done"
  /\ reqs' = reqs \ {r}
  /\ Show(roles, r.sheet, TRUE)
  /\ overtaken' = overtaken \cup (IF load.step = "none" THEN {} ELSE {"load"})
  /\ UNCHANGED <<backend, tab, profile, load, edits, troubles>>

(* The new role is added to the list and opened.                           *)
RoleCreated(r) ==
  /\ r \in reqs /\ r.kind = "create" /\ r.step = "done"
  /\ reqs' = reqs \ {r}
  /\ Show([q \in DOMAIN roles \cup {r.sheet} |-> IF q = r.sheet THEN r.row ELSE roles[q]],
          r.sheet, TRUE)
  /\ overtaken' = overtaken \cup (IF load.step = "none" THEN {} ELSE {"load"})
  /\ UNCHANGED <<backend, tab, profile, load, edits, troubles>>

(* Only from the list; the role may be opened before it is gone.           *)
DeleteRole(r) ==
  /\ tab = "roles" /\ editing = "none" /\ r \in DOMAIN roles /\ Edit
  /\ reqs' = reqs \cup {Request("delete", r, << >>, {})}
  /\ UNCHANGED <<backend, tab, profile, editor, load, edited, overtaken, troubles>>

RoleDeleted(r) ==
  /\ r \in reqs /\ r.kind = "delete" /\ r.step = "done"
  /\ reqs' = reqs \ {r}
  /\ Show(Restrict(roles, DOMAIN roles \ {r.sheet}), editing, editing = r.sheet)
  /\ UNCHANGED <<backend, tab, profile, load, overtaken, edits, troubles>>

-----------------------------------------------------------------------------
SettingsNext ==
  \/ \E r \in reqs : Answer(r)
  \/ \E r \in reqs : Fails(r)
  \/ OtherManagers
  \/ \E f \in Fields : EditProfile(f)
  \/ ResetProfile
  \/ SaveProfile
  \/ \E r \in reqs : ProfileUploaded(r)
  \/ \E r \in reqs : ProfileSaved(r)
  \/ \E r \in reqs : ProfileRefreshed(r)
  \/ \E t \in {"profile", "roles"} : OpenTab(t)
  \/ RolesAreAnswered
  \/ RolesArrive
  \/ RolesFail
  \/ \E r \in Roles : OpenRole(r)
  \/ CloseRole
  \/ \E f \in Fields : EditRole(f)
  \/ \E r \in reqs : RoleIconUploaded(r)
  \/ ResetRole
  \/ SaveRole
  \/ \E r \in reqs : RoleSaved(r)
  \/ CreateRole
  \/ \E r \in reqs : RoleCreated(r)
  \/ \E r \in Roles : DeleteRole(r)
  \/ \E r \in reqs : RoleDeleted(r)

SettingsSpec(n, m) == SettingsInit(n, m) /\ [][SettingsNext]_settingsVars

-----------------------------------------------------------------------------
(* What another manager wrote is overwritten by the user's save only in a  *)
(* field that the user has edited since the form was filled: forms that    *)
(* are out of date do no harm beyond that.  The exception is the icon of a *)
(* role whose editor was opened while an icon was uploaded for another.    *)
OthersWorkSurvives ==
  [][\A s \in Sheets, f \in Fields :
       rows[s][f] < 0 /\ rows'[s][f] # rows[s][f] /\ troubles' = troubles =>
         \E r \in reqs : /\ r.kind = "save" /\ r.sheet = s /\ r.step = "asked"
                         /\ f \in r.touched \/ (f = "icon" /\ r.stray)]_settingsVars

(* The role editor is never left blank, without its list and the way back: *)
(* the role it was opened for is in the loaded list.  It does happen when  *)
(* that role was deleted meanwhile, or was created while the list that is  *)
(* shown was being loaded.                                                 *)
EditorNotBlank ==
  tab = "roles" /\ load.step = "none" /\ editing # "none" =>
    editing \in DOMAIN roles \/ editing \notin alive \/ "list" \in overtaken
=============================================================================
