---------------------------- MODULE TournamentRules ----------------------------
(***************************************************************************)
(* The rules of entry of one tournament as the guards of its handlers put  *)
(* them, each request one atomic step: the status flow, the size limit,    *)
(* who may enter, leave and check in, and when.  Registration, where a     *)
(* request is several statements, implements it as long as requests are    *)
(* served one at a time.                                                   *)
(***************************************************************************)
EXTENDS Integers, FiniteSets

CONSTANTS Users, MaxCap

VARIABLES
  phase,      \* the status, or "deleted"
  cap,        \* max_participants, 0 once deleted
  entered,    \* the users with a participant row
  checkedIn   \* those of them that checked in

vars == <<phase, cap, entered, checkedIn>>

Flow == {<<"draft", "registration">>, <<"registration", "check_in">>,
         <<"check_in", "in_progress">>, <<"in_progress", "completed">>}

Init ==
  /\ phase = "draft"
  /\ cap \in 2..MaxCap
  /\ entered = {}
  /\ checkedIn = {}

Advance ==
  /\ \E to \in {"registration", "check_in", "in_progress", "completed"} :
       /\ <<phase, to>> \in Flow
       /\ phase' = to
  /\ UNCHANGED <<cap, entered, checkedIn>>

Cancel ==
  /\ phase \notin {"completed", "deleted"}
  /\ phase' = "cancelled"
  /\ UNCHANGED <<cap, entered, checkedIn>>

Resize ==
  /\ phase \notin {"in_progress", "completed", "deleted"}
  /\ cap' \in 2..MaxCap
  /\ UNCHANGED <<phase, entered, checkedIn>>

Enter(u) ==
  /\ phase = "registration"
  /\ u \notin entered
  /\ Cardinality(entered) < cap
  /\ entered' = entered \cup {u}
  /\ UNCHANGED <<phase, cap, checkedIn>>

\* The user withdraws while registration is open, or a manager removes the entry.
Leave(u) ==
  /\ phase # "deleted"
  /\ entered' = entered \ {u}
  /\ checkedIn' = checkedIn \ {u}
  /\ UNCHANGED <<phase, cap>>

CheckIn(u) ==
  /\ phase = "check_in"
  /\ u \in entered
  /\ checkedIn' = checkedIn \cup {u}
  /\ UNCHANGED <<phase, cap, entered>>

Delete ==
  /\ phase = "draft"
  /\ phase' = "deleted"
  /\ cap' = 0
  /\ entered' = {}
  /\ checkedIn' = {}

Next ==
  \/ Advance \/ Cancel \/ Resize \/ Delete
  \/ \E u \in Users : Enter(u) \/ Leave(u) \/ CheckIn(u)

Spec == Init /\ [][Next]_vars

\* The flow of crud.md as a property of the status alone.
FollowsFlow ==
  [][\/ phase' \in {"cancelled", "deleted"}
     \/ <<phase, phase'>> \in Flow]_phase
=============================================================================
