------------------------------ MODULE MemberList ------------------------------
(***************************************************************************)
(* The tab of ServerSettingsOverlay that lists the members: a manager      *)
(* kicks them and turns their roles on and off, while others do the same.  *)
(* A toggle sends all the roles the row shows, with one flipped, and the   *)
(* row is put together from the loaded roles when that is done.            *)
(***************************************************************************)
EXTENDS Integers, Functions

CONSTANTS Users, Ranks   \* the members and the roles there may be

VARIABLES
  holds,    \* backend: the roles of each member
  seen,     \* the members as the list has them
  choices,  \* the roles that were loaded, for the menu
  tabShown, \* "members", "roles", or "other": the other tabs, and closed
  hidden,   \* loadingMembers: the list is not drawn
  fetches,  \* the requests for the lists
  acts,     \* the kicks and toggles at work
  unsure,   \* whose rows may be off (see RowsAreCurrent)
  changes, upsets  \* how often the manager, and others or the network, may act

memberVars == <<holds, seen, choices, tabShown, hidden, fetches, acts, unsure,
                changes, upsets>>

MembersInit(n, m) ==
  /\ holds = [u \in Users |-> {}] /\ seen = << >> /\ choices = {}
  /\ tabShown = "other" /\ hidden = FALSE
  /\ fetches = {} /\ acts = {} /\ unsure = Users
  /\ changes = n /\ upsets = m

Mine == changes > 0 /\ changes' = changes - 1
Upset == upsets > 0 /\ upsets' = upsets - 1
BeingChanged == {a.user : a \in acts}

Fetch(what) == [id |-> changes, what |-> what, step |-> "asked",
                members |-> << >>, ranks |-> {}]

(* Mutant: a change of the tab cancels nothing.                            *)
Kept(fs) == fs

(* The effects of the tab that is left cancel what they asked for: its     *)
(* answers are not looked at.                                              *)
Cancelled(fs) == {}

(* Both tabs load the members, that of the roles the roles, too.           *)
ShowTab(t) ==
  /\ t # tabShown /\ Mine
  /\ tabShown' = t
  /\ LET asks == CASE t = "members" -> {"members"}
                   [] t = "roles" -> {"members", "roles"}
                   [] OTHER -> {}
     IN /\ fetches' = Cancelled(fetches) \cup {Fetch(w) : w \in asks}
        /\ IF asks = {} THEN UNCHANGED <<hidden, unsure>>
           ELSE hidden' = TRUE /\ unsure' = BeingChanged
  /\ UNCHANGED <<holds, seen, choices, acts, upsets>>

FetchIsAnswered(f) ==
  /\ f \in fetches /\ f.step = "asked"
  /\ fetches' = (fetches \ {f}) \cup
       {[f EXCEPT !.step = "answered", !.members = holds, !.ranks = Ranks]}
  /\ UNCHANGED <<holds, seen, choices, tabShown, hidden, acts, unsure, changes, upsets>>

MembersArrive(f) ==
  /\ f \in fetches /\ f.step = "answered" /\ f.what = "members"
  /\ fetches' = fetches \ {f}
  /\ seen' = f.members /\ hidden' = FALSE
  /\ UNCHANGED <<holds, choices, tabShown, acts, unsure, changes, upsets>>

RanksArrive(f) ==
  /\ f \in fetches /\ f.step = "answered" /\ f.what = "roles"
  /\ fetches' = fetches \ {f}
  /\ choices' = f.ranks
  /\ UNCHANGED <<holds, seen, tabShown, hidden, acts, unsure, changes, upsets>>

(* An error is shown above the list as it was.                             *)
FetchFails(f) ==
  /\ f \in fetches /\ Upset
  /\ fetches' = fetches \ {f}
  /\ IF f.what = "members"
     THEN hidden' = FALSE /\ unsure' = Users
     ELSE UNCHANGED <<hidden, unsure>>
  /\ UNCHANGED <<holds, seen, choices, tabShown, acts, changes>>

-----------------------------------------------------------------------------
(* The manager acts on the row of u; on one that is being changed already  *)
(* it is the order of the two requests that counts.                        *)
Act(kind, u, next) ==
  /\ tabShown = "members" /\ ~hidden /\ u \in DOMAIN seen /\ Mine
  /\ acts' = acts \cup {[id |-> changes, kind |-> kind, user |-> u, next |-> next,
                         choices |-> choices, step |-> "asked"]}
  /\ unsure' = unsure \cup (BeingChanged \cap {u})
                      \cup (IF next \subseteq choices THEN {} ELSE {u})
  /\ UNCHANGED <<holds, seen, choices, tabShown, hidden, fetches, upsets>>

Kick(u) == Act("kick", u, {})

AssignRole(u, r) ==
  /\ r \in choices /\ u \in DOMAIN seen
  /\ Act("assign", u, IF r \in seen[u] THEN seen[u] \ {r} ELSE seen[u] \cup {r})

(* The backend removes the member, or gives it the roles; it refuses for   *)
(* somebody who is no member.                                              *)
ActIsAnswered(a) ==
  /\ a \in acts /\ a.step = "asked"
  /\ IF a.user \in DOMAIN holds
     THEN /\ holds' = IF a.kind = "kick" THEN Restrict(holds, DOMAIN holds \ {a.user})
                      ELSE [holds EXCEPT ![a.user] = a.next]
          /\ acts' = (acts \ {a}) \cup {[a EXCEPT !.step = "done"]}
     ELSE acts' = (acts \ {a}) \cup {[a EXCEPT !.step = "refused"]} /\ UNCHANGED holds
  /\ UNCHANGED <<seen, choices, tabShown, hidden, fetches, unsure, changes, upsets>>

Kicked(a) ==
  /\ a \in acts /\ a.kind = "kick" /\ a.step = "done"
  /\ acts' = acts \ {a}
  /\ seen' = Restrict(seen, DOMAIN seen \ {a.user})
  /\ UNCHANGED <<holds, choices, tabShown, hidden, fetches, unsure, changes, upsets>>

RoleAssigned(a) ==
  /\ a \in acts /\ a.kind = "assign" /\ a.step = "done"
  /\ acts' = acts \ {a}
  /\ seen' = [u \in DOMAIN seen |-> IF u = a.user THEN a.choices \cap a.next ELSE seen[u]]
  /\ UNCHANGED <<holds, choices, tabShown, hidden, fetches, unsure, changes, upsets>>

(* Refused, or nobody knows: an answer may be lost, too.                   *)
ActFails(a) ==
  /\ a \in acts
  /\ IF a.step = "refused" THEN UNCHANGED <<upsets, unsure>>
     ELSE Upset /\ unsure' = unsure \cup {a.user}
  /\ acts' = acts \ {a}
  /\ UNCHANGED <<holds, seen, choices, tabShown, hidden, fetches, changes>>

(* Another manager changes the roles of a member, or it leaves.            *)
MemberChanges(u) ==
  /\ u \in DOMAIN holds /\ Upset
  /\ \/ \E R \in SUBSET Ranks : holds' = [holds EXCEPT ![u] = R]
     \/ holds' = Restrict(holds, DOMAIN holds \ {u})
  /\ unsure' = unsure \cup {u}
  /\ UNCHANGED <<seen, choices, tabShown, hidden, fetches, acts, changes>>

MembersNext ==
  \/ \E t \in {"members", "roles", "other"} : ShowTab(t)
  \/ \E f \in fetches : FetchIsAnswered(f)
  \/ \E f \in fetches : MembersArrive(f)
  \/ \E f \in fetches : RanksArrive(f)
  \/ \E f \in fetches : FetchFails(f)
  \/ \E u \in Users : Kick(u)
  \/ \E u \in Users, r \in Ranks : AssignRole(u, r)
  \/ \E a \in acts : ActIsAnswered(a)
  \/ \E a \in acts : Kicked(a)
  \/ \E a \in acts : RoleAssigned(a)
  \/ \E a \in acts : ActFails(a)
  \/ \E u \in Users : MemberChanges(u)

MembersSpec(n, m) == MembersInit(n, m) /\ [][MembersNext]_memberVars

-----------------------------------------------------------------------------
(* The list that is drawn shows who is a member and with which roles, in   *)
(* whatever order lists and results arrive.  The exceptions: somebody else *)
(* changed the member, or its answer was lost, since the list was asked    *)
(* for; two requests for one member were at work at once, or one while the *)
(* list was asked for; or a role of the row is not among the loaded ones.  *)
RowsAreCurrent ==
  ~hidden => \A u \in Users \ (unsure \cup BeingChanged) :
    /\ u \in DOMAIN seen <=> u \in DOMAIN holds
    /\ u \in DOMAIN seen => seen[u] = holds[u]
=============================================================================
