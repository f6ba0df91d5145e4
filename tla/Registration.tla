----------------------------- MODULE Registration -----------------------------
(***************************************************************************)
(* The entry desk of one solo tournament: its row, its participants, the   *)
(* status transitions and the drawing of the bracket.                      *)
(*                                                                         *)
(* A request is served by a goroutine of the HTTP server, here a worker.   *)
(* The service takes no lock and opens no transaction, so every database   *)
(* statement is a step of its own and what a handler read may be stale     *)
(* when it writes.  UpdateTournament and UpdateParticipant save the whole  *)
(* row the handler read, and insert it again when it is gone.  A request   *)
(* that is refused changes nothing; it is a step only where the refusal    *)
(* comes after a step the handler already took.  Match results, which also *)
(* complete a tournament and mark its entries, are MatchPlay's.            *)
(***************************************************************************)
EXTENDS Integers, FiniteSets

CONSTANTS
  Users,    \* members of the server who may take part
  Workers,  \* goroutines serving requests
  MaxCap,   \* bound: the largest max_participants a manager gives
  BulkMax,  \* bound: users named by one bulk request
  NoRow     \* no such row

ASSUME UsersAssumption == IsFiniteSet(Users)

ASSUME BoundsAssumption == MaxCap \in Nat /\ MaxCap >= 2 /\ BulkMax \in Nat

Statuses == {"draft", "registration", "check_in", "in_progress", "completed", "cancelled"}
TournamentRows == [status : Statuses, max : 2..MaxCap]
EntryStatuses == {"registered", "checked_in"}

ASSUME NoRowAssumption == NoRow \notin TournamentRows /\ NoRow \notin EntryStatuses

Steps == {"idle", "register_count", "register_create", "bulk_count", "bulk_create",
          "cancel_delete", "find_entry", "save_entry", "list_checked_in",
          "replace_matches", "save_row", "delete_row"}

VARIABLES
  tournament,  \* the tournaments row, or NoRow once it is deleted
  roster,      \* the tournament_participants row of each user, by its status
  draw,        \* the participants named by the match rows
  req,         \* the request each worker serves, and what it read so far
  reached,     \* history: the statuses the row ever had
  everCheckedIn  \* history: the users whose row was ever checked in

vars == <<tournament, roster, draw, req, reached, everCheckedIn>>

Idle == [step |-> "idle", user |-> NoRow, row |-> NoRow, entry |-> NoRow,
         todo |-> {}, count |-> 0, checkIn |-> FALSE]

Requests == [step : Steps, user : Users \cup {NoRow}, row : TournamentRows \cup {NoRow},
             entry : EntryStatuses \cup {NoRow}, todo : SUBSET Users, count : Nat,
             checkIn : BOOLEAN]

Entered == {u \in Users : roster[u] # NoRow}
CheckedIn == {u \in Users : roster[u] = "checked_in"}

\* CountParticipants
Count == Cardinality(Entered)

-----------------------------------------------------------------------------
\* Mutant: check-in may open before registration did.
canTransitionStatusSkipping(current, target) ==
  \/ target = "cancelled" /\ current # "completed"
  \/ <<current, target>> \in {<<"draft", "registration">>, <<"draft", "check_in">>,
                              <<"registration", "check_in">>, <<"check_in", "in_progress">>,
                              <<"in_progress", "completed">>}

canTransitionStatus(current, target) ==
  \/ target = "cancelled" /\ current # "completed"
  \/ <<current, target>> \in {<<"draft", "registration">>, <<"registration", "check_in">>,
                              <<"check_in", "in_progress">>, <<"in_progress", "completed">>}

\* A tournament is created as a draft.
Init ==
  /\ tournament \in [status : {"draft"}, max : 2..MaxCap]
  /\ roster = [u \in Users |-> NoRow]
  /\ draw = {}
  /\ req = [w \in Workers |-> Idle]
  /\ reached = {"draft"}
  /\ everCheckedIn = {}

\* The worker accepts a request on the tournament and goes on with r.
Begin(w, r) ==
  /\ req[w] = Idle
  /\ tournament # NoRow
  /\ req' = [req EXCEPT ![w] = r]
  /\ UNCHANGED <<tournament, roster, draw, reached, everCheckedIn>>

\* The worker takes its next step without writing to the database.
Continue(w, r) ==
  /\ req' = [req EXCEPT ![w] = r]
  /\ UNCHANGED <<tournament, roster, draw, reached, everCheckedIn>>

Refuse(w) == Continue(w, Idle)

\* INSERT of a participant: the foreign key wants the tournament, and
\* uq_tournament_participants_user refuses a second row of the same user.
Insertable(u) == tournament # NoRow /\ roster[u] = NoRow

-----------------------------------------------------------------------------
(* RegisterParticipant.                                                    *)

BeginRegister(w, u) ==
  /\ tournament # NoRow
  /\ tournament.status = "registration"
  /\ Begin(w, [Idle EXCEPT !.step = "register_count", !.user = u, !.row = tournament])

\* Mutant: the count is not compared with max_participants.
CountForRegisterUnlimited(w) ==
  /\ req[w].step = "register_count"
  /\ IF roster[req[w].user] = NoRow
       THEN Continue(w, [req[w] EXCEPT !.step = "register_create"])
       ELSE Refuse(w)

CountForRegister(w) ==
  /\ req[w].step = "register_count"
  /\ IF roster[req[w].user] = NoRow /\ Count < req[w].row.max
       THEN Continue(w, [req[w] EXCEPT !.step = "register_create"])
       ELSE Refuse(w)

CreateRegistered(w) ==
  LET u == req[w].user
  IN  /\ req[w].step = "register_create"
      /\ roster' = IF Insertable(u) THEN [roster EXCEPT ![u] = "registered"] ELSE roster
      /\ req' = [req EXCEPT ![w] = Idle]
      /\ UNCHANGED <<tournament, draw, reached, everCheckedIn>>

-----------------------------------------------------------------------------
(* BulkAddParticipants: one count, then one insert per user of the request *)
(* (in the order of the request, here any) against a counter of its own.   *)

BeginBulk(w, us) ==
  /\ tournament # NoRow
  /\ tournament.status = "registration"
  /\ us # {}
  /\ Begin(w, [Idle EXCEPT !.step = "bulk_count", !.row = tournament, !.todo = us])

CountForBulk(w) ==
  /\ req[w].step = "bulk_count"
  /\ IF Count < req[w].row.max
       THEN Continue(w, [req[w] EXCEPT !.step = "bulk_create", !.count = Count])
       ELSE Refuse(w)

\* Mutant: the loop forgets to count the participants it inserts.
CreateBulkUncounted(w, u) ==
  /\ req[w].step = "bulk_create"
  /\ u \in req[w].todo
  /\ req[w].count < req[w].row.max
  /\ roster' = IF Insertable(u) THEN [roster EXCEPT ![u] = "registered"] ELSE roster
  /\ req' = [req EXCEPT ![w].todo = @ \ {u}]
  /\ UNCHANGED <<tournament, draw, reached, everCheckedIn>>

CreateBulk(w, u) ==
  /\ req[w].step = "bulk_create"
  /\ u \in req[w].todo
  /\ req[w].count < req[w].row.max
  /\ IF Insertable(u)
       THEN /\ roster' = [roster EXCEPT ![u] = "registered"]
            /\ req' = [req EXCEPT ![w].todo = @ \ {u}, ![w].count = @ + 1]
       ELSE /\ roster' = roster
            /\ req' = [req EXCEPT ![w].todo = @ \ {u}]
  /\ UNCHANGED <<tournament, draw, reached, everCheckedIn>>

EndBulk(w) ==
  /\ req[w].step = "bulk_create"
  /\ req[w].todo = {} \/ req[w].count >= req[w].row.max
  /\ Refuse(w)

-----------------------------------------------------------------------------
(* CancelMyRegistration, and RemoveParticipant by a manager.               *)

\* ON DELETE SET NULL empties the match slots of a deleted participant.
DeleteEntry(u) ==
  /\ roster' = [roster EXCEPT ![u] = NoRow]
  /\ draw' = draw \ {u}

BeginCancel(w, u) ==
  /\ tournament # NoRow
  /\ tournament.status = "registration"
  /\ Begin(w, [Idle EXCEPT !.step = "cancel_delete", !.user = u])

CancelDelete(w) ==
  /\ req[w].step = "cancel_delete"
  /\ DeleteEntry(req[w].user)
  /\ req' = [req EXCEPT ![w] = Idle]
  /\ UNCHANGED <<tournament, reached, everCheckedIn>>

\* Allowed in every status: the row is only read for the permission check.
RemoveParticipant(w, u) ==
  /\ req[w] = Idle
  /\ tournament # NoRow
  /\ roster[u] # NoRow
  /\ DeleteEntry(u)
  /\ UNCHANGED <<tournament, req, reached, everCheckedIn>>

-----------------------------------------------------------------------------
(* CheckInParticipant and UpdateParticipantSeed: both read the             *)
(* participant and save the whole row, the seed itself being left out.     *)

BeginCheckIn(w, u) ==
  /\ tournament # NoRow
  /\ tournament.status = "check_in"
  /\ Begin(w, [Idle EXCEPT !.step = "find_entry", !.user = u, !.checkIn = TRUE])

BeginSeed(w, u) ==
  /\ tournament # NoRow
  /\ tournament.status \notin {"in_progress", "completed"}
  /\ Begin(w, [Idle EXCEPT !.step = "find_entry", !.user = u])

FindEntry(w) ==
  /\ req[w].step = "find_entry"
  /\ IF roster[req[w].user] # NoRow
       THEN Continue(w, [req[w] EXCEPT !.step = "save_entry",
                           !.entry = IF req[w].checkIn THEN "checked_in"
                                                       ELSE roster[req[w].user]])
       ELSE Refuse(w)

\* GORM's Save: UPDATE, or INSERT when the row is gone, which needs the tournament.
SaveEntry(w) ==
  LET u == req[w].user
      e == req[w].entry
      saved == tournament # NoRow
  IN  /\ req[w].step = "save_entry"
      /\ roster' = IF saved THEN [roster EXCEPT ![u] = e] ELSE roster
      /\ everCheckedIn' = IF saved /\ e = "checked_in" THEN everCheckedIn \cup {u}
                                                       ELSE everCheckedIn
      /\ req' = [req EXCEPT ![w] = Idle]
      /\ UNCHANGED <<tournament, draw, reached>>

-----------------------------------------------------------------------------
(* UpdateTournament, UpdateTournamentStatus and DeleteTournament.          *)

BeginUpdate(w, m) ==
  /\ tournament # NoRow
  /\ tournament.status \notin {"in_progress", "completed"}
  /\ Begin(w, [Idle EXCEPT !.step = "save_row", !.row = [tournament EXCEPT !.max = m]])

\* A start first draws the bracket; the status is saved at the end.
BeginStatus(w, target) ==
  /\ tournament # NoRow
  /\ canTransitionStatus(tournament.status, target)
  /\ Begin(w, [Idle EXCEPT
                 !.step = IF target = "in_progress" THEN "list_checked_in" ELSE "save_row",
                 !.row  = [tournament EXCEPT !.status = target]])

\* Mutant: the bracket is drawn among everyone registered.
ListCheckedInOfAll(w) ==
  /\ req[w].step = "list_checked_in"
  /\ IF Cardinality(Entered) >= 2
       THEN Continue(w, [req[w] EXCEPT !.step = "replace_matches", !.todo = Entered])
       ELSE Refuse(w)

ListCheckedIn(w) ==
  /\ req[w].step = "list_checked_in"
  /\ IF Cardinality(CheckedIn) >= 2
       THEN Continue(w, [req[w] EXCEPT !.step = "replace_matches", !.todo = CheckedIn])
       ELSE Refuse(w)

\* ReplaceMatches is one transaction; it is rolled back when the tournament or
\* a participant the new matches name is gone (foreign keys).
ReplaceMatches(w) ==
  /\ req[w].step = "replace_matches"
  /\ IF tournament # NoRow /\ req[w].todo \subseteq Entered
       THEN /\ draw' = req[w].todo
            /\ req' = [req EXCEPT ![w].step = "save_row", ![w].todo = {}]
            /\ UNCHANGED <<tournament, roster, reached, everCheckedIn>>
       ELSE Refuse(w)

\* Save writes every column of the row as the handler read it.
SaveRow(w) ==
  /\ req[w].step = "save_row"
  /\ tournament' = req[w].row
  /\ reached' = reached \cup {req[w].row.status}
  /\ req' = [req EXCEPT ![w] = Idle]
  /\ UNCHANGED <<roster, draw, everCheckedIn>>

BeginDelete(w) ==
  /\ tournament # NoRow
  /\ tournament.status = "draft"
  /\ Begin(w, [Idle EXCEPT !.step = "delete_row"])

\* ON DELETE CASCADE takes the participants and the matches with it.
DeleteRow(w) ==
  /\ req[w].step = "delete_row"
  /\ tournament' = NoRow
  /\ roster' = [u \in Users |-> NoRow]
  /\ draw' = {}
  /\ req' = [req EXCEPT ![w] = Idle]
  /\ UNCHANGED <<reached, everCheckedIn>>

-----------------------------------------------------------------------------
Registering(w) == (\E u \in Users : BeginRegister(w, u)) \/ CountForRegister(w)
                    \/ CreateRegistered(w)
BulkAdding(w) == (\E us \in {s \in SUBSET Users : Cardinality(s) <= BulkMax} : BeginBulk(w, us))
                   \/ CountForBulk(w) \/ (\E u \in Users : CreateBulk(w, u)) \/ EndBulk(w)
Leaving(w) == (\E u \in Users : BeginCancel(w, u) \/ RemoveParticipant(w, u)) \/ CancelDelete(w)
Saving(w) == (\E u \in Users : BeginCheckIn(w, u) \/ BeginSeed(w, u)) \/ FindEntry(w) \/ SaveEntry(w)
Managing(w) ==
  \/ \E m \in 2..MaxCap : BeginUpdate(w, m)
  \/ \E target \in Statuses : BeginStatus(w, target)
  \/ ListCheckedIn(w) \/ ReplaceMatches(w) \/ SaveRow(w)
  \/ BeginDelete(w) \/ DeleteRow(w)

Next == \E w \in Workers : Registering(w) \/ BulkAdding(w) \/ Leaving(w) \/ Saving(w) \/ Managing(w)

Spec == Init /\ [][Next]_vars

-----------------------------------------------------------------------------
TypeOK ==
  /\ tournament \in TournamentRows \cup {NoRow}
  /\ roster \in [Users -> EntryStatuses \cup {NoRow}]
  /\ draw \subseteq Users
  /\ req \in [Workers -> Requests]
  /\ reached \subseteq Statuses
  /\ everCheckedIn \subseteq Users

\* No phase is entered before the one it follows was, however stale the rows the
\* handlers save: a stale save can bring an old phase back, never skip one.
PhasesInOrder ==
  /\ "registration" \in reached => "draft" \in reached
  /\ "check_in" \in reached => "registration" \in reached
  /\ "in_progress" \in reached => "check_in" \in reached

\* What hangs on a phase exists only once that phase was reached: participants
\* after registration opened, check-ins after check-in opened, and a bracket, all
\* of whose participants had checked in, before the tournament is ever in progress.
NothingAheadOfItsPhase ==
  /\ Entered # {} => "registration" \in reached
  /\ everCheckedIn # {} => "check_in" \in reached
  /\ CheckedIn \subseteq everCheckedIn
  /\ draw \subseteq everCheckedIn
  /\ "in_progress" \in reached => Cardinality(everCheckedIn) >= 2

\* max_participants is checked against a count read earlier and nothing makes the
\* check and the insert one step; the excess is bounded by what the other workers
\* can insert meanwhile, so a server that serves one request at a time is exact.
BoundedOverbooking ==
  Count <= MaxCap + (Cardinality(Workers) - 1) * (IF BulkMax > 1 THEN BulkMax ELSE 1)

-----------------------------------------------------------------------------
(* The rules the API documents, and how the rows stand for their state.    *)

Rules == INSTANCE TournamentRules WITH
  phase     <- IF tournament = NoRow THEN "deleted" ELSE tournament.status,
  cap       <- IF tournament = NoRow THEN 0 ELSE tournament.max,
  entered   <- Entered,
  checkedIn <- CheckedIn

\* Served one at a time, the requests implement the documented rules: every
\* write of a handler is one step of them or changes nothing they speak of.
ImplementsRules == Rules!Spec

\* The flow of the status, draft -> registration -> check_in -> in_progress ->
\* completed with cancelled reachable from all but completed, kept by every save.
StatusFollowsFlow == Rules!FollowsFlow
=============================================================================
