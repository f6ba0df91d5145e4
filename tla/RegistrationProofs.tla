------------------------- MODULE RegistrationProofs -------------------------
(* Proofs about Registration, for any number of users and workers.           *)
EXTENDS Registration, FiniteSetTheorems, TLAPS

-----------------------------------------------------------------------------
(* Types.                                                                    *)

UserSteps == {"register_count", "register_create", "cancel_delete", "find_entry", "save_entry"}
RowSteps == {"list_checked_in", "replace_matches", "save_row"}

\* A request that goes on with a user or is about to save a row holds one.
Aimed(r) ==
  /\ r.step \in UserSteps => r.user \in Users
  /\ r.step \in RowSteps => r.row \in TournamentRows

\* TypeOK made inductive.
TypeInv == TypeOK /\ \A w \in Workers : Aimed(req[w])

LEMMA IdleType == Idle \in Requests /\ Aimed(Idle)
  BY DEF Idle, Requests, Steps, Aimed, UserSteps, RowSteps

LEMMA CountType == TypeInv => Count \in Nat
<1> SUFFICES ASSUME TypeInv PROVE Count \in Nat
  OBVIOUS
<1>1. Entered \subseteq Users
  BY DEF Entered
<1>2. IsFiniteSet(Entered)
  BY <1>1, UsersAssumption, FS_Subset
<1> QED
  BY <1>2, FS_CardinalityType DEF Count

\* A typed request follows, and the tables stay typed.
LEMMA FollowType ==
  ASSUME TypeInv, NEW w \in Workers, NEW r \in Requests, Aimed(r),
         req' = [req EXCEPT ![w] = r],
         tournament' \in TournamentRows \cup {NoRow},
         roster' \in [Users -> EntryStatuses \cup {NoRow}],
         draw' \subseteq Users, reached' \subseteq Statuses, everCheckedIn' \subseteq Users
  PROVE  TypeInv'
  BY DEF TypeInv, TypeOK

LEMMA BeginType ==
  ASSUME TypeInv, NEW w \in Workers, NEW r \in Requests, Aimed(r), Begin(w, r)
  PROVE  TypeInv'
  BY DEF TypeInv, TypeOK, Begin

LEMMA ContinueType ==
  ASSUME TypeInv, NEW w \in Workers, NEW r \in Requests, Aimed(r), Continue(w, r)
  PROVE  TypeInv'
  BY DEF TypeInv, TypeOK, Continue

LEMMA RefuseType ==
  ASSUME TypeInv, NEW w \in Workers, Refuse(w)
  PROVE  TypeInv'
  BY IdleType, ContinueType DEF Refuse

LEMMA InitType == Init => TypeInv
<1> SUFFICES ASSUME Init PROVE TypeInv
  OBVIOUS
<1>1. tournament \in TournamentRows
  BY DEF Init, TournamentRows, Statuses
<1>2. reached \subseteq Statuses
  BY DEF Init, Statuses
<1> QED
  BY <1>1, <1>2, IdleType DEF Init, TypeInv, TypeOK

LEMMA RegisteringType ==
  ASSUME TypeInv, NEW w \in Workers, Registering(w)
  PROVE  TypeInv'
<1> DEFINE q == req[w]
<1>0. q \in Requests /\ Aimed(q)
  BY DEF TypeInv, TypeOK
<1>1. ASSUME NEW u \in Users, BeginRegister(w, u)
      PROVE  TypeInv'
  <2> DEFINE r == [Idle EXCEPT !.step = "register_count", !.user = u, !.row = tournament]
  <2>1. r \in Requests /\ Aimed(r)
    BY DEF Idle, Requests, Steps, Aimed, UserSteps, RowSteps, TypeInv, TypeOK
  <2> QED
    BY <1>1, <2>1, BeginType DEF BeginRegister
<1>2. CASE CountForRegister(w)
  <2> DEFINE r == [q EXCEPT !.step = "register_create"]
  <2>1. r \in Requests /\ Aimed(r)
    BY <1>0, <1>2 DEF CountForRegister, Requests, Steps, Aimed, UserSteps, RowSteps
  <2> QED
    BY <1>2, <2>1, ContinueType, RefuseType DEF CountForRegister
<1>3. CASE CreateRegistered(w)
  <2>1. roster' \in [Users -> EntryStatuses \cup {NoRow}]
    BY <1>3 DEF CreateRegistered, TypeInv, TypeOK, EntryStatuses
  <2> QED
    BY <1>3, <2>1, IdleType, FollowType DEF CreateRegistered, TypeInv, TypeOK
<1> QED
  BY <1>1, <1>2, <1>3 DEF Registering

LEMMA BulkAddingType ==
  ASSUME TypeInv, NEW w \in Workers, BulkAdding(w)
  PROVE  TypeInv'
<1> DEFINE q == req[w]
<1>0. q \in Requests /\ Aimed(q)
  BY DEF TypeInv, TypeOK
<1>1. ASSUME NEW us \in SUBSET Users, BeginBulk(w, us)
      PROVE  TypeInv'
  <2> DEFINE r == [Idle EXCEPT !.step = "bulk_count", !.row = tournament, !.todo = us]
  <2>1. r \in Requests /\ Aimed(r)
    BY DEF Idle, Requests, Steps, Aimed, UserSteps, RowSteps, TypeInv, TypeOK
  <2> QED
    BY <1>1, <2>1, BeginType DEF BeginBulk
<1>2. CASE CountForBulk(w)
  <2> DEFINE r == [q EXCEPT !.step = "bulk_create", !.count = Count]
  <2>1. r \in Requests /\ Aimed(r)
    BY <1>0, CountType DEF Requests, Steps, Aimed, UserSteps, RowSteps
  <2> QED
    BY <1>2, <2>1, ContinueType, RefuseType DEF CountForBulk
<1>3. ASSUME NEW u \in Users, CreateBulk(w, u)
      PROVE  TypeInv'
  <2> DEFINE skipped == [q EXCEPT !.todo = @ \ {u}]
             created == [q EXCEPT !.todo = @ \ {u}, !.count = @ + 1]
  <2>1. q.step = "bulk_create"
    BY <1>3 DEF CreateBulk
  <2>2. skipped \in Requests /\ Aimed(skipped)
    BY <1>0, <2>1 DEF Requests, Aimed, UserSteps, RowSteps
  <2>3. created \in Requests /\ Aimed(created)
    <3> DEFINE n == q.count + 1
    <3>1. n \in Nat
      BY <1>0 DEF Requests
    <3> HIDE DEF n
    <3>2. [q EXCEPT !.todo = @ \ {u}, !.count = n] \in Requests
      BY <1>0, <3>1 DEF Requests
    <3>3. Aimed([q EXCEPT !.todo = @ \ {u}, !.count = n])
      BY <1>0, <2>1 DEF Requests, Aimed, UserSteps, RowSteps
    <3> QED
      BY <3>2, <3>3 DEF n
  <2>4. \/ req' = [req EXCEPT ![w] = skipped]
        \/ req' = [req EXCEPT ![w] = created]
    BY <1>3 DEF CreateBulk, TypeInv, TypeOK, Requests
  <2>5. roster' \in [Users -> EntryStatuses \cup {NoRow}]
    BY <1>3 DEF CreateBulk, TypeInv, TypeOK, EntryStatuses
  <2>6. UNCHANGED <<tournament, draw, reached, everCheckedIn>>
    BY <1>3 DEF CreateBulk
  <2> HIDE DEF skipped, created
  <2> QED
    BY <2>2, <2>3, <2>4, <2>5, <2>6, FollowType DEF TypeInv, TypeOK
<1>4. CASE EndBulk(w)
  BY <1>4, RefuseType DEF EndBulk
<1> QED
  BY <1>1, <1>2, <1>3, <1>4 DEF BulkAdding

LEMMA LeavingType ==
  ASSUME TypeInv, NEW w \in Workers, Leaving(w)
  PROVE  TypeInv'
<1>0. ASSUME NEW u, DeleteEntry(u)
      PROVE  roster' \in [Users -> EntryStatuses \cup {NoRow}] /\ draw' \subseteq Users
  BY <1>0 DEF DeleteEntry, TypeInv, TypeOK
<1>1. ASSUME NEW u \in Users, BeginCancel(w, u)
      PROVE  TypeInv'
  <2> DEFINE r == [Idle EXCEPT !.step = "cancel_delete", !.user = u]
  <2>1. r \in Requests /\ Aimed(r)
    BY DEF Idle, Requests, Steps, Aimed, UserSteps, RowSteps
  <2> QED
    BY <1>1, <2>1, BeginType DEF BeginCancel
<1>2. ASSUME NEW u \in Users, RemoveParticipant(w, u)
      PROVE  TypeInv'
  BY <1>0, <1>2 DEF RemoveParticipant, TypeInv, TypeOK
<1>3. CASE CancelDelete(w)
  BY <1>0, <1>3, IdleType, FollowType DEF CancelDelete, TypeInv, TypeOK
<1> QED
  BY <1>1, <1>2, <1>3 DEF Leaving

LEMMA SavingType ==
  ASSUME TypeInv, NEW w \in Workers, Saving(w)
  PROVE  TypeInv'
<1> DEFINE q == req[w]
<1>0. q \in Requests /\ Aimed(q)
  BY DEF TypeInv, TypeOK
<1>1. ASSUME NEW u \in Users, BeginCheckIn(w, u)
      PROVE  TypeInv'
  <2> DEFINE r == [Idle EXCEPT !.step = "find_entry", !.user = u, !.checkIn = TRUE]
  <2>1. r \in Requests /\ Aimed(r)
    BY DEF Idle, Requests, Steps, Aimed, UserSteps, RowSteps
  <2> QED
    BY <1>1, <2>1, BeginType DEF BeginCheckIn
<1>2. ASSUME NEW u \in Users, BeginSeed(w, u)
      PROVE  TypeInv'
  <2> DEFINE r == [Idle EXCEPT !.step = "find_entry", !.user = u]
  <2>1. r \in Requests /\ Aimed(r)
    BY DEF Idle, Requests, Steps, Aimed, UserSteps, RowSteps
  <2> QED
    BY <1>2, <2>1, BeginType DEF BeginSeed
<1>3. CASE FindEntry(w)
  <2> DEFINE e == IF q.checkIn THEN "checked_in" ELSE roster[q.user]
             r == [q EXCEPT !.step = "save_entry", !.entry = e]
  <2>1. q.step = "find_entry" /\ q.user \in Users
    BY <1>0, <1>3 DEF FindEntry, Aimed, UserSteps
  <2>2. e \in EntryStatuses \cup {NoRow}
    BY <2>1 DEF EntryStatuses, TypeInv, TypeOK
  <2> HIDE DEF e
  <2>3. r \in Requests /\ Aimed(r)
    BY <1>0, <2>1, <2>2 DEF Requests, Steps, Aimed, UserSteps, RowSteps
  <2> QED
    BY <1>3, <2>3, ContinueType, RefuseType DEF FindEntry, e
<1>4. CASE SaveEntry(w)
  <2>1. q.user \in Users /\ q.entry \in EntryStatuses \cup {NoRow}
    BY <1>0, <1>4 DEF SaveEntry, Aimed, UserSteps, Requests
  <2>2. roster' \in [Users -> EntryStatuses \cup {NoRow}] /\ everCheckedIn' \subseteq Users
    BY <1>4, <2>1 DEF SaveEntry, TypeInv, TypeOK
  <2> QED
    BY <1>4, <2>2, IdleType, FollowType DEF SaveEntry, TypeInv, TypeOK
<1> QED
  BY <1>1, <1>2, <1>3, <1>4 DEF Saving

LEMMA ManagingType ==
  ASSUME TypeInv, NEW w \in Workers, Managing(w)
  PROVE  TypeInv'
<1> DEFINE q == req[w]
<1>0. q \in Requests /\ Aimed(q) /\ tournament \in TournamentRows \cup {NoRow}
  BY DEF TypeInv, TypeOK
<1>1. ASSUME NEW m \in 2..MaxCap, BeginUpdate(w, m)
      PROVE  TypeInv'
  <2> DEFINE row == [tournament EXCEPT !.max = m]
             r   == [Idle EXCEPT !.step = "save_row", !.row = row]
  <2>1. row \in TournamentRows
    BY <1>0, <1>1 DEF BeginUpdate, TournamentRows
  <2> HIDE DEF row
  <2>2. r \in Requests /\ Aimed(r)
    BY <2>1 DEF Idle, Requests, Steps, Aimed, UserSteps, RowSteps
  <2> QED
    BY <1>1, <2>2, BeginType DEF BeginUpdate, row
<1>2. ASSUME NEW target \in Statuses, BeginStatus(w, target)
      PROVE  TypeInv'
  <2> DEFINE row  == [tournament EXCEPT !.status = target]
             step == IF target = "in_progress" THEN "list_checked_in" ELSE "save_row"
             r    == [Idle EXCEPT !.step = step, !.row = row]
  <2>1. row \in TournamentRows /\ step \in RowSteps /\ step \in Steps /\ step \notin UserSteps
    BY <1>0, <1>2 DEF BeginStatus, TournamentRows, RowSteps, UserSteps, Steps
  <2> HIDE DEF row, step
  <2>2. r \in Requests /\ Aimed(r)
    BY <2>1 DEF Idle, Requests, Aimed
  <2> QED
    BY <1>2, <2>2, BeginType DEF BeginStatus, row, step
<1>3. CASE ListCheckedIn(w)
  <2> DEFINE r == [q EXCEPT !.step = "replace_matches", !.todo = CheckedIn]
  <2>1. CheckedIn \subseteq Users
    BY DEF CheckedIn
  <2>2. r \in Requests /\ Aimed(r)
    BY <1>0, <1>3, <2>1 DEF ListCheckedIn, Requests, Steps, Aimed, UserSteps, RowSteps
  <2> QED
    BY <1>3, <2>2, ContinueType, RefuseType DEF ListCheckedIn
<1>4. CASE ReplaceMatches(w)
  <2> DEFINE r == [q EXCEPT !.step = "save_row", !.todo = {}]
  <2>1. r \in Requests /\ Aimed(r) /\ q.todo \subseteq Users
    BY <1>0, <1>4 DEF ReplaceMatches, Requests, Steps, Aimed, UserSteps, RowSteps
  <2>2. CASE Refuse(w)
    BY <2>2, RefuseType
  <2>3. CASE /\ draw' = q.todo
             /\ req' = [req EXCEPT ![w].step = "save_row", ![w].todo = {}]
             /\ UNCHANGED <<tournament, roster, reached, everCheckedIn>>
    <3>1. req' = [req EXCEPT ![w] = r]
      BY <2>3 DEF TypeInv, TypeOK, Requests
    <3> HIDE DEF r
    <3> QED
      BY <2>1, <2>3, <3>1, FollowType DEF TypeInv, TypeOK
  <2> QED
    BY <1>4, <2>2, <2>3 DEF ReplaceMatches
<1>5. CASE SaveRow(w)
  <2>1. q.row \in TournamentRows /\ q.row.status \in Statuses
    BY <1>0, <1>5 DEF SaveRow, Aimed, RowSteps, TournamentRows
  <2> QED
    BY <1>5, <2>1, IdleType, FollowType DEF SaveRow, TypeInv, TypeOK
<1>6. CASE BeginDelete(w)
  <2> DEFINE r == [Idle EXCEPT !.step = "delete_row"]
  <2>1. r \in Requests /\ Aimed(r)
    BY DEF Idle, Requests, Steps, Aimed, UserSteps, RowSteps
  <2> QED
    BY <1>6, <2>1, BeginType DEF BeginDelete
<1>7. CASE DeleteRow(w)
  BY <1>7, IdleType, FollowType DEF DeleteRow, TypeInv, TypeOK
<1> QED
  BY <1>1, <1>2, <1>3, <1>4, <1>5, <1>6, <1>7 DEF Managing

LEMMA StepType == TypeInv /\ [Next]_vars => TypeInv'
<1> SUFFICES ASSUME TypeInv, [Next]_vars PROVE TypeInv'
  OBVIOUS
<1>1. CASE Next
  BY <1>1, RegisteringType, BulkAddingType, LeavingType, SavingType, ManagingType DEF Next
<1>2. CASE UNCHANGED vars
  BY <1>2 DEF vars, TypeInv, TypeOK
<1> QED
  BY <1>1, <1>2

\* Every reachable state is typed: whatever row a handler saves, it is a row of the
\* tournament with a limit of at least two.
THEOREM TypeCorrect == Spec => []TypeOK
<1>1. TypeInv => TypeOK
  BY DEF TypeInv
<1> QED
  BY InitType, StepType, <1>1, PTL DEF Spec

-----------------------------------------------------------------------------
(* Phases.                                                                   *)

\* The statuses whose predecessor was reached.
Enterable(s, R) ==
  /\ s = "registration" => "draft" \in R
  /\ s = "check_in" => "registration" \in R
  /\ s = "in_progress" => "check_in" \in R

\* A bracket needs two.
Drawable(E) == \E a, b \in E : a # b

EntrySteps == {"register_count", "register_create", "bulk_count", "bulk_create", "save_entry"}

\* What a request is about to write was allowed by what it read.
Allowed(r, R, E) ==
  /\ r.step \in RowSteps => Enterable(r.row.status, R)
  /\ r.step \in EntrySteps => "registration" \in R
  /\ r.step = "find_entry" /\ r.checkIn => "check_in" \in R
  /\ r.step = "save_entry" /\ r.entry = "checked_in" => "check_in" \in R
  /\ r.step = "replace_matches" => r.todo \subseteq E /\ Drawable(E)
  /\ r.step = "save_row" /\ r.row.status = "in_progress" => Drawable(E)

\* The same of the tables; with NothingAheadOfItsPhase it says where the bracket
\* and the check-ins come from without counting.
Tables ==
  /\ tournament # NoRow => tournament.status \in reached
  /\ PhasesInOrder
  /\ Entered # {} => "registration" \in reached
  /\ everCheckedIn # {} => "check_in" \in reached
  /\ CheckedIn \subseteq everCheckedIn
  /\ draw \subseteq everCheckedIn
  /\ "in_progress" \in reached => Drawable(everCheckedIn)

\* PhasesInOrder and NothingAheadOfItsPhase made inductive.
Phases == Tables /\ \A w \in Workers : Allowed(req[w], reached, everCheckedIn)

LEMMA IdleAllowed == \A R, E : Allowed(Idle, R, E)
  BY DEF Allowed, Idle, RowSteps, EntrySteps

\* History only grows, and what it allowed stays allowed.
LEMMA AllowedGrows ==
  ASSUME NEW r, NEW R, NEW E, NEW R1, NEW E1, R \subseteq R1, E \subseteq E1, Allowed(r, R, E)
  PROVE  Allowed(r, R1, E1)
  BY DEF Allowed, Enterable, Drawable

\* The step of one worker, whose next request r is allowed.
LEMMA FollowPhases ==
  ASSUME TypeInv, Phases, NEW w \in Workers, NEW r, req' = [req EXCEPT ![w] = r],
         Allowed(r, reached', everCheckedIn'), Tables',
         reached \subseteq reached', everCheckedIn \subseteq everCheckedIn'
  PROVE  Phases'
<1>1. \A v \in Workers : req'[v] = IF v = w THEN r ELSE req[v]
  BY DEF TypeInv, TypeOK
<1>2. \A v \in Workers : Allowed(req'[v], reached', everCheckedIn')
  BY <1>1, AllowedGrows DEF Phases
<1> QED
  BY <1>2 DEF Phases

LEMMA SameTables ==
  ASSUME Tables, UNCHANGED <<tournament, roster, draw, reached, everCheckedIn>>
  PROVE  Tables'
  BY DEF Tables, PhasesInOrder, Entered, CheckedIn

LEMMA BeginPhases ==
  ASSUME TypeInv, Phases, NEW w \in Workers, NEW r, Begin(w, r),
         Allowed(r, reached, everCheckedIn)
  PROVE  Phases'
  BY FollowPhases, SameTables DEF Begin, Phases

LEMMA ContinuePhases ==
  ASSUME TypeInv, Phases, NEW w \in Workers, NEW r, Continue(w, r),
         Allowed(r, reached, everCheckedIn)
  PROVE  Phases'
  BY FollowPhases, SameTables DEF Continue, Phases

LEMMA RefusePhases ==
  ASSUME TypeInv, Phases, NEW w \in Workers, Refuse(w)
  PROVE  Phases'
  BY ContinuePhases, IdleAllowed DEF Refuse

\* A registered participant needs an open registration, and nothing else.
LEMMA RegisteredTables ==
  ASSUME TypeInv, Tables, NEW u \in Users, "registration" \in reached,
         roster' = [roster EXCEPT ![u] = "registered"] \/ roster' = roster,
         UNCHANGED <<tournament, draw, reached, everCheckedIn>>
  PROVE  Tables'
<1>1. \A v \in Users : roster'[v] = roster[v] \/ roster'[v] = "registered"
  BY DEF TypeInv, TypeOK
<1>2. CheckedIn' \subseteq CheckedIn
  BY <1>1 DEF CheckedIn
<1> QED
  BY <1>2 DEF Tables, PhasesInOrder

LEMMA RemovedTables ==
  ASSUME TypeInv, Tables, NEW u, DeleteEntry(u), UNCHANGED <<tournament, reached, everCheckedIn>>
  PROVE  Tables'
<1>1. \A v \in Users : roster'[v] = roster[v] \/ roster'[v] = NoRow
  BY DEF DeleteEntry, TypeInv, TypeOK
<1>2. CheckedIn' \subseteq CheckedIn /\ Entered' \subseteq Entered /\ draw' \subseteq draw
  BY <1>1, NoRowAssumption DEF CheckedIn, Entered, DeleteEntry, EntryStatuses
<1> QED
  BY <1>2 DEF Tables, PhasesInOrder

LEMMA InitPhases == Init => Phases
<1> SUFFICES ASSUME Init PROVE Phases
  OBVIOUS
<1>1. tournament.status = "draft" /\ reached = {"draft"}
  BY DEF Init
<1>2. Entered = {} /\ CheckedIn = {} /\ draw = {} /\ everCheckedIn = {}
  BY NoRowAssumption DEF Init, Entered, CheckedIn, EntryStatuses
<1>3. Tables
  BY <1>1, <1>2 DEF Tables, PhasesInOrder
<1> QED
  BY <1>3, IdleAllowed DEF Init, Phases

LEMMA RegisteringPhases ==
  ASSUME TypeInv, Phases, NEW w \in Workers, Registering(w)
  PROVE  Phases'
<1> DEFINE q == req[w]
<1>0. Allowed(q, reached, everCheckedIn) /\ q \in Requests /\ Aimed(q) /\ Tables
  BY DEF Phases, TypeInv, TypeOK
<1>1. ASSUME NEW u \in Users, BeginRegister(w, u)
      PROVE  Phases'
  <2> DEFINE r == [Idle EXCEPT !.step = "register_count", !.user = u, !.row = tournament]
  <2>1. Allowed(r, reached, everCheckedIn)
    BY <1>0, <1>1 DEF BeginRegister, Tables, Allowed, Idle, RowSteps, EntrySteps
  <2> QED
    BY <1>1, <2>1, BeginPhases DEF BeginRegister
<1>2. CASE CountForRegister(w)
  <2> DEFINE r == [q EXCEPT !.step = "register_create"]
  <2>1. Allowed(r, reached, everCheckedIn)
    BY <1>0, <1>2 DEF CountForRegister, Allowed, Requests, RowSteps, EntrySteps
  <2> QED
    BY <1>2, <2>1, ContinuePhases, RefusePhases DEF CountForRegister
<1>3. CASE CreateRegistered(w)
  <2>1. q.user \in Users /\ "registration" \in reached
    BY <1>0, <1>3 DEF CreateRegistered, Aimed, UserSteps, Allowed, EntrySteps
  <2>2. Tables'
    BY <1>0, <1>3, <2>1, RegisteredTables DEF CreateRegistered
  <2> QED
    BY <1>3, <2>2, IdleAllowed, FollowPhases DEF CreateRegistered
<1> QED
  BY <1>1, <1>2, <1>3 DEF Registering

LEMMA BulkAddingPhases ==
  ASSUME TypeInv, Phases, NEW w \in Workers, BulkAdding(w)
  PROVE  Phases'
<1> DEFINE q == req[w]
<1>0. Allowed(q, reached, everCheckedIn) /\ q \in Requests /\ Tables
  BY DEF Phases, TypeInv, TypeOK
<1>1. ASSUME NEW us \in SUBSET Users, BeginBulk(w, us)
      PROVE  Phases'
  <2> DEFINE r == [Idle EXCEPT !.step = "bulk_count", !.row = tournament, !.todo = us]
  <2>1. Allowed(r, reached, everCheckedIn)
    BY <1>0, <1>1 DEF BeginBulk, Tables, Allowed, Idle, RowSteps, EntrySteps
  <2> QED
    BY <1>1, <2>1, BeginPhases DEF BeginBulk
<1>2. CASE CountForBulk(w)
  <2> DEFINE r == [q EXCEPT !.step = "bulk_create", !.count = Count]
  <2>1. Allowed(r, reached, everCheckedIn)
    BY <1>0, <1>2 DEF CountForBulk, Allowed, Requests, RowSteps, EntrySteps
  <2> QED
    BY <1>2, <2>1, ContinuePhases, RefusePhases DEF CountForBulk
<1>3. ASSUME NEW u \in Users, CreateBulk(w, u)
      PROVE  Phases'
  <2> DEFINE r == req'[w]
  <2>1. q.step = "bulk_create" /\ "registration" \in reached
    BY <1>0, <1>3 DEF CreateBulk, Allowed, EntrySteps
  <2>2. req' = [req EXCEPT ![w] = r] /\ r.step = "bulk_create"
    BY <1>0, <1>3, <2>1 DEF CreateBulk, TypeInv, TypeOK, Requests
  <2> HIDE DEF r
  <2>3. Allowed(r, reached, everCheckedIn)
    BY <2>1, <2>2 DEF Allowed, RowSteps, EntrySteps
  <2>4. Tables'
    BY <1>0, <1>3, <2>1, RegisteredTables DEF CreateBulk
  <2>5. UNCHANGED <<reached, everCheckedIn>>
    BY <1>3 DEF CreateBulk
  <2> QED
    BY <2>2, <2>3, <2>4, <2>5, FollowPhases
<1>4. CASE EndBulk(w)
  BY <1>4, RefusePhases DEF EndBulk
<1> QED
  BY <1>1, <1>2, <1>3, <1>4 DEF BulkAdding

LEMMA LeavingPhases ==
  ASSUME TypeInv, Phases, NEW w \in Workers, Leaving(w)
  PROVE  Phases'
<1>0. Tables
  BY DEF Phases
<1>1. ASSUME NEW u \in Users, BeginCancel(w, u)
      PROVE  Phases'
  <2> DEFINE r == [Idle EXCEPT !.step = "cancel_delete", !.user = u]
  <2>1. Allowed(r, reached, everCheckedIn)
    BY DEF Allowed, Idle, RowSteps, EntrySteps
  <2> QED
    BY <1>1, <2>1, BeginPhases DEF BeginCancel
<1>2. ASSUME NEW u \in Users, RemoveParticipant(w, u)
      PROVE  Phases'
  <2>1. Tables'
    BY <1>0, <1>2, RemovedTables DEF RemoveParticipant
  <2> QED
    BY <1>2, <2>1 DEF RemoveParticipant, Phases
<1>3. CASE CancelDelete(w)
  <2>1. Tables'
    BY <1>0, <1>3, RemovedTables DEF CancelDelete
  <2> QED
    BY <1>3, <2>1, IdleAllowed, FollowPhases DEF CancelDelete
<1> QED
  BY <1>1, <1>2, <1>3 DEF Leaving

LEMMA SavingPhases ==
  ASSUME TypeInv, Phases, NEW w \in Workers, Saving(w)
  PROVE  Phases'
<1> DEFINE q == req[w]
<1>0. Allowed(q, reached, everCheckedIn) /\ q \in Requests /\ Aimed(q) /\ Tables
  BY DEF Phases, TypeInv, TypeOK
<1>1. ASSUME NEW u \in Users, BeginCheckIn(w, u)
      PROVE  Phases'
  <2> DEFINE r == [Idle EXCEPT !.step = "find_entry", !.user = u, !.checkIn = TRUE]
  <2>1. Allowed(r, reached, everCheckedIn)
    BY <1>0, <1>1 DEF BeginCheckIn, Tables, Allowed, Idle, RowSteps, EntrySteps
  <2> QED
    BY <1>1, <2>1, BeginPhases DEF BeginCheckIn
<1>2. ASSUME NEW u \in Users, BeginSeed(w, u)
      PROVE  Phases'
  <2> DEFINE r == [Idle EXCEPT !.step = "find_entry", !.user = u]
  <2>1. Allowed(r, reached, everCheckedIn)
    BY DEF Allowed, Idle, RowSteps, EntrySteps
  <2> QED
    BY <1>2, <2>1, BeginPhases DEF BeginSeed
<1>3. CASE FindEntry(w)
  <2> DEFINE e == IF q.checkIn THEN "checked_in" ELSE roster[q.user]
             r == [q EXCEPT !.step = "save_entry", !.entry = e]
  <2>1. q.step = "find_entry" /\ q.user \in Users
    BY <1>0, <1>3 DEF FindEntry, Aimed, UserSteps
  <2>2. CASE roster[q.user] = NoRow
    BY <1>3, <2>2, RefusePhases DEF FindEntry
  <2>3. CASE roster[q.user] # NoRow
    <3>1. "registration" \in reached
      BY <1>0, <2>1, <2>3 DEF Tables, Entered
    <3>2. e = "checked_in" => "check_in" \in reached
      BY <1>0, <2>1 DEF Tables, CheckedIn, Allowed
    <3> HIDE DEF e
    <3>3. Allowed(r, reached, everCheckedIn)
      BY <1>0, <3>1, <3>2 DEF Allowed, Requests, RowSteps, EntrySteps
    <3> QED
      BY <1>3, <2>3, <3>3, ContinuePhases DEF FindEntry, e
  <2> QED
    BY <2>2, <2>3
<1>4. CASE SaveEntry(w)
  <2> DEFINE u == q.user
  <2>1. /\ u \in Users /\ "registration" \in reached
        /\ q.entry = "checked_in" => "check_in" \in reached
    BY <1>0, <1>4 DEF SaveEntry, Aimed, UserSteps, Allowed, EntrySteps
  <2>2. UNCHANGED <<tournament, draw, reached>> /\ everCheckedIn \subseteq everCheckedIn'
    BY <1>4 DEF SaveEntry
  <2>3. everCheckedIn' # everCheckedIn => "check_in" \in reached
    BY <1>4, <2>1 DEF SaveEntry
  <2>4. \A v \in Users : roster'[v] = "checked_in" => v \in everCheckedIn'
    BY <1>0, <1>4, <2>1 DEF SaveEntry, TypeInv, TypeOK, Tables, CheckedIn
  <2>5. CheckedIn' \subseteq everCheckedIn'
    BY <2>4 DEF CheckedIn
  <2>6. Tables'
    BY <1>0, <2>1, <2>2, <2>3, <2>5 DEF Tables, PhasesInOrder, Drawable
  <2> QED
    BY <1>4, <2>2, <2>6, IdleAllowed, FollowPhases DEF SaveEntry
<1> QED
  BY <1>1, <1>2, <1>3, <1>4 DEF Saving

\* Two checked-in participants are two different users.
LEMMA TwoCheckedIn ==
  ASSUME Cardinality(CheckedIn) >= 2
  PROVE  Drawable(CheckedIn)
<1>1. IsFiniteSet(CheckedIn)
  BY UsersAssumption, FS_Subset DEF CheckedIn
<1>2. CheckedIn # {}
  BY FS_EmptySet
<1>3. PICK a \in CheckedIn : TRUE
  BY <1>2
<1>4. Cardinality(CheckedIn \ {a}) = Cardinality(CheckedIn) - 1
  BY <1>1, <1>3, FS_RemoveElement
<1>5. CheckedIn \ {a} # {}
  <2>1. Cardinality(CheckedIn) \in Nat
    BY <1>1, FS_CardinalityType
  <2> QED
    BY <1>4, <2>1, FS_EmptySet
<1> QED
  BY <1>3, <1>5 DEF Drawable

LEMMA ManagingPhases ==
  ASSUME TypeInv, Phases, NEW w \in Workers, Managing(w)
  PROVE  Phases'
<1> DEFINE q == req[w]
<1>0. /\ Allowed(q, reached, everCheckedIn) /\ q \in Requests /\ Aimed(q) /\ Tables
      /\ tournament \in TournamentRows \cup {NoRow}
  BY DEF Phases, TypeInv, TypeOK
<1>1. ASSUME NEW m \in 2..MaxCap, BeginUpdate(w, m)
      PROVE  Phases'
  <2> DEFINE row == [tournament EXCEPT !.max = m]
             r   == [Idle EXCEPT !.step = "save_row", !.row = row]
  <2>1. row.status = tournament.status /\ row.status # "in_progress"
    BY <1>0, <1>1 DEF BeginUpdate, TournamentRows
  <2>2. Enterable(tournament.status, reached)
    BY <1>0, <1>1 DEF BeginUpdate, Tables, PhasesInOrder, Enterable
  <2> HIDE DEF row
  <2>3. Allowed(r, reached, everCheckedIn)
    BY <2>1, <2>2 DEF Allowed, Idle, RowSteps, EntrySteps
  <2> QED
    BY <1>1, <2>3, BeginPhases DEF BeginUpdate, row
<1>2. ASSUME NEW target \in Statuses, BeginStatus(w, target)
      PROVE  Phases'
  <2> DEFINE row  == [tournament EXCEPT !.status = target]
             step == IF target = "in_progress" THEN "list_checked_in" ELSE "save_row"
             r    == [Idle EXCEPT !.step = step, !.row = row]
  <2>1. row.status = target
    BY <1>0, <1>2 DEF BeginStatus, TournamentRows
  <2>2. Enterable(target, reached)
    BY <1>0, <1>2 DEF BeginStatus, canTransitionStatus, Tables, Enterable
  <2>3. /\ step \notin EntrySteps \cup {"find_entry", "save_entry", "replace_matches"}
        /\ step = "save_row" => target # "in_progress"
    BY DEF EntrySteps
  <2> HIDE DEF row, step
  <2>4. Allowed(r, reached, everCheckedIn)
    BY <2>1, <2>2, <2>3 DEF Allowed, Idle
  <2> QED
    BY <1>2, <2>4, BeginPhases DEF BeginStatus, row, step
<1>3. CASE ListCheckedIn(w)
  <2> DEFINE r == [q EXCEPT !.step = "replace_matches", !.todo = CheckedIn]
  <2>1. CASE Cardinality(CheckedIn) >= 2
    <3>1. Drawable(everCheckedIn) /\ CheckedIn \subseteq everCheckedIn
      BY <1>0, <2>1, TwoCheckedIn DEF Tables, Drawable
    <3>2. q.step = "list_checked_in"
      BY <1>3 DEF ListCheckedIn
    <3>3. Allowed(r, reached, everCheckedIn)
      BY <1>0, <3>1, <3>2 DEF Allowed, Requests, RowSteps, EntrySteps
    <3> QED
      BY <1>3, <2>1, <3>3, ContinuePhases DEF ListCheckedIn
  <2>2. CASE ~(Cardinality(CheckedIn) >= 2)
    BY <1>3, <2>2, RefusePhases DEF ListCheckedIn
  <2> QED
    BY <2>1, <2>2
<1>4. CASE ReplaceMatches(w)
  <2> DEFINE r == [q EXCEPT !.step = "save_row", !.todo = {}]
  <2>1. CASE Refuse(w)
    BY <2>1, RefusePhases
  <2>2. CASE /\ draw' = q.todo
             /\ req' = [req EXCEPT ![w].step = "save_row", ![w].todo = {}]
             /\ UNCHANGED <<tournament, roster, reached, everCheckedIn>>
    <3>1. q.step = "replace_matches"
      BY <1>4 DEF ReplaceMatches
    <3>2. Allowed(r, reached, everCheckedIn)
      BY <1>0, <3>1 DEF Allowed, Requests, RowSteps, EntrySteps
    <3>3. Tables'
      BY <1>0, <2>2, <3>1 DEF Allowed, Tables, PhasesInOrder, Entered, CheckedIn
    <3>4. req' = [req EXCEPT ![w] = r]
      BY <2>2 DEF TypeInv, TypeOK, Requests
    <3> HIDE DEF r
    <3> QED
      BY <2>2, <3>2, <3>3, <3>4, FollowPhases
  <2> QED
    BY <1>4, <2>1, <2>2 DEF ReplaceMatches
<1>5. CASE SaveRow(w)
  <2>1. /\ Enterable(q.row.status, reached)
        /\ q.row.status = "in_progress" => Drawable(everCheckedIn)
    BY <1>0, <1>5 DEF SaveRow, Allowed, RowSteps
  <2>2. /\ tournament' = q.row /\ reached' = reached \cup {q.row.status}
        /\ UNCHANGED <<roster, draw, everCheckedIn>>
    BY <1>5 DEF SaveRow
  <2>3. PhasesInOrder'
    BY <1>0, <2>1, <2>2 DEF Tables, PhasesInOrder, Enterable
  <2>4. Entered' = Entered /\ CheckedIn' = CheckedIn
    BY <2>2 DEF Entered, CheckedIn
  <2>5. Tables'
    BY <1>0, <2>1, <2>2, <2>3, <2>4 DEF Tables
  <2> QED
    BY <1>5, <2>2, <2>5, IdleAllowed, FollowPhases DEF SaveRow
<1>6. CASE BeginDelete(w)
  <2> DEFINE r == [Idle EXCEPT !.step = "delete_row"]
  <2>1. Allowed(r, reached, everCheckedIn)
    BY DEF Allowed, Idle, RowSteps, EntrySteps
  <2> QED
    BY <1>6, <2>1, BeginPhases DEF BeginDelete
<1>7. CASE DeleteRow(w)
  <2>1. Entered' = {} /\ CheckedIn' = {}
    BY <1>7, NoRowAssumption DEF DeleteRow, Entered, CheckedIn, EntryStatuses
  <2>2. Tables'
    BY <1>0, <1>7, <2>1 DEF DeleteRow, Tables, PhasesInOrder
  <2> QED
    BY <1>7, <2>2, IdleAllowed, FollowPhases DEF DeleteRow
<1> QED
  BY <1>1, <1>2, <1>3, <1>4, <1>5, <1>6, <1>7 DEF Managing

LEMMA StepPhases == TypeInv /\ Phases /\ [Next]_vars => Phases'
<1> SUFFICES ASSUME TypeInv, Phases, [Next]_vars PROVE Phases'
  OBVIOUS
<1>1. CASE Next
  BY <1>1, RegisteringPhases, BulkAddingPhases, LeavingPhases, SavingPhases, ManagingPhases
  DEF Next
<1>2. CASE UNCHANGED vars
  <2>1. Tables'
    BY <1>2, SameTables DEF vars, Phases
  <2> QED
    BY <1>2, <2>1 DEF vars, Phases
<1> QED
  BY <1>1, <1>2

\* Stale saves may bring a phase back but never skip one: a status is reached only
\* after the one before it was (canTransitionStatus and the saves of whole rows).
THEOREM PhasesNeverSkipped == Spec => []PhasesInOrder
<1>1. Phases => PhasesInOrder
  BY DEF Phases, Tables
<1> QED
  BY InitType, StepType, InitPhases, StepPhases, <1>1, PTL DEF Spec

LEMMA DrawnFromTwo ==
  ASSUME NEW E \in SUBSET Users, Drawable(E)
  PROVE  Cardinality(E) >= 2
<1>1. PICK a \in E, b \in E : a # b
  BY DEF Drawable
<1>2. IsFiniteSet(E)
  BY UsersAssumption, FS_Subset
<1>3. Cardinality({a}) = 1 /\ IsFiniteSet({a})
  BY FS_Singleton
<1>4. Cardinality({a} \cup {b}) = 2
  BY <1>1, <1>3, FS_AddElement
<1>5. {a} \cup {b} \subseteq E
  OBVIOUS
<1>6. Cardinality({a} \cup {b}) <= Cardinality(E)
  BY <1>2, <1>5, FS_Subset
<1> QED
  BY <1>2, <1>4, <1>6, FS_CardinalityType

\* Entries exist only after registration opened, check-ins only after check-in
\* did, the bracket names only people who had checked in, and there are two of
\* them before the tournament is ever in progress (RegisterParticipant,
\* CheckInParticipant, generateBracket).
THEOREM NothingComesEarly == Spec => []NothingAheadOfItsPhase
<1>1. TypeInv /\ Phases => NothingAheadOfItsPhase
  <2> SUFFICES ASSUME TypeInv, Phases PROVE NothingAheadOfItsPhase
    OBVIOUS
  <2>1. everCheckedIn \in SUBSET Users
    BY DEF TypeInv, TypeOK
  <2>2. "in_progress" \in reached => Cardinality(everCheckedIn) >= 2
    BY <2>1, DrawnFromTwo DEF Phases, Tables
  <2> QED
    BY <2>2 DEF Phases, Tables, NothingAheadOfItsPhase
<1> QED
  BY InitType, StepType, InitPhases, StepPhases, <1>1, PTL DEF Spec

-----------------------------------------------------------------------------
(* Overbooking.                                                              *)

\* What one worker can insert after its count: a bulk request, or one row.
Most == IF BulkMax > 1 THEN BulkMax ELSE 1

\* The users with a row, and those whose row a save would insert again.
Savers == {w \in Workers : req[w].step = "save_entry"}
SavedUsers == {req[w].user : w \in Savers}
Held == Entered \cup SavedUsers

\* What a request may still insert after its count, as places it has claimed.
Claims(r, i) ==
  \/ r.step = "register_create" /\ i = 1
  \/ r.step = "bulk_create" /\ i <= Cardinality(r.todo) /\ r.count + i <= r.row.max
Places == {p \in Workers \X (1 .. Most) : Claims(req[p[1]], p[2])}

\* A request that counts knows a limit, and names no more users than it may.
Limited(r) ==
  /\ r.step \in {"register_count", "bulk_count", "bulk_create"} => r.row \in TournamentRows
  /\ r.step \in {"bulk_count", "bulk_create"} => Cardinality(r.todo) <= BulkMax

\* The rows there are and those that may still come are within the bound.
RoomIsLeft ==
  Cardinality(Held) + Cardinality(Places) <= MaxCap + (Cardinality(Workers) - 1) * Most

Booked == RoomIsLeft /\ \A w \in Workers : Limited(req[w])

SomeWorkers == IsFiniteSet(Workers) /\ Workers # {}

LEMMA MostIs == Most \in Nat /\ Most >= 1 /\ BulkMax <= Most
  BY BoundsAssumption DEF Most

LEMMA SubsetsOfUsers ==
  ASSUME NEW S \in SUBSET Users
  PROVE  IsFiniteSet(S) /\ Cardinality(S) \in Nat
  BY UsersAssumption, FS_Subset, FS_CardinalityType

LEMMA HeldAndPlaces ==
  ASSUME SomeWorkers, TypeInv
  PROVE  /\ Held \subseteq Users /\ IsFiniteSet(Held) /\ Cardinality(Held) \in Nat
         /\ IsFiniteSet(Places) /\ Cardinality(Places) \in Nat
         /\ Cardinality(Workers) \in Nat /\ Cardinality(Workers) >= 1
<1>1. Held \subseteq Users
  BY DEF Held, Entered, SavedUsers, Savers, TypeInv, Aimed, UserSteps
<1>2. IsFiniteSet(1 .. Most)
  BY MostIs, FS_Interval
<1>3. IsFiniteSet(Workers \X (1 .. Most))
  BY <1>2, FS_Product DEF SomeWorkers
<1>4. IsFiniteSet(Places)
  BY <1>3, FS_Subset DEF Places
<1>5. Cardinality(Workers) \in Nat /\ Cardinality(Workers) # 0
  BY FS_CardinalityType, FS_EmptySet DEF SomeWorkers
<1>6. Cardinality(Workers) >= 1
  BY <1>5
<1>7. QED
  BY <1>1, <1>4, <1>5, <1>6, SubsetsOfUsers, FS_CardinalityType

\* Nobody new, and no new claim.
LEMMA KeepsRoom ==
  ASSUME SomeWorkers, TypeInv, RoomIsLeft, Held' \subseteq Held, Places' \subseteq Places
  PROVE  RoomIsLeft'
<1> DEFINE bound == MaxCap + (Cardinality(Workers) - 1) * Most
<1>1. bound \in Int
  BY HeldAndPlaces, MostIs, BoundsAssumption
<1>2. /\ Cardinality(Held') <= Cardinality(Held) /\ Cardinality(Held') \in Nat
      /\ Cardinality(Places') <= Cardinality(Places) /\ Cardinality(Places') \in Nat
  BY HeldAndPlaces, FS_Subset, FS_CardinalityType
<1>3. Cardinality(Held) + Cardinality(Places) <= bound
  BY DEF RoomIsLeft
<1> HIDE DEF bound
<1>4. Cardinality(Held') + Cardinality(Places') <= bound
  BY <1>1, <1>2, <1>3, HeldAndPlaces
<1>5. QED
  BY <1>4 DEF RoomIsLeft, bound

\* Who comes takes a place that was claimed.
LEMMA InsertKeepsRoom ==
  ASSUME SomeWorkers, TypeInv, RoomIsLeft, NEW u, NEW p \in Places,
         Held' \subseteq Held \cup {u}, Places' \subseteq Places \ {p}
  PROVE  RoomIsLeft'
<1> DEFINE bound == MaxCap + (Cardinality(Workers) - 1) * Most
           more == Held \cup {u}
           less == Places \ {p}
<1>1. bound \in Int
  BY HeldAndPlaces, MostIs, BoundsAssumption
<1>2. /\ IsFiniteSet(more) /\ Cardinality(more) <= Cardinality(Held) + 1
      /\ Cardinality(more) \in Nat
  <2>1. IsFiniteSet(Held) /\ Cardinality(Held) \in Nat
    BY HeldAndPlaces
  <2>2. /\ IsFiniteSet(more)
        /\ Cardinality(more) = IF u \in Held THEN Cardinality(Held) ELSE Cardinality(Held) + 1
    BY <2>1, FS_AddElement
  <2>3. QED
    BY <2>1, <2>2
<1>3. /\ IsFiniteSet(less) /\ Cardinality(less) = Cardinality(Places) - 1
      /\ Cardinality(less) \in Nat
  BY HeldAndPlaces, FS_RemoveElement, FS_CardinalityType
<1>4. Held' \subseteq more /\ Places' \subseteq less
  OBVIOUS
<1> HIDE DEF more, less
<1>5. /\ Cardinality(Held') <= Cardinality(more) /\ Cardinality(Held') \in Nat
      /\ Cardinality(Places') <= Cardinality(less) /\ Cardinality(Places') \in Nat
  BY <1>2, <1>3, <1>4, FS_Subset, FS_CardinalityType
<1>6. Cardinality(Held) + Cardinality(Places) <= bound
  BY DEF RoomIsLeft
<1> HIDE DEF bound
<1>7. Cardinality(Held') + Cardinality(Places') <= bound
  BY <1>1, <1>2, <1>3, <1>5, <1>6, HeldAndPlaces
<1>8. QED
  BY <1>7 DEF RoomIsLeft, bound

LEMMA Arithmetic ==
  ASSUME NEW s \in Nat, NEW others \in Nat, s <= others, NEW most \in Nat, most >= 1
  PROVE  s + (others - s) * most <= others * most
<1>1. (others - s) * most = others * most - s * most
  OBVIOUS
<1>2. s * most = s + s * (most - 1) /\ s * (most - 1) \in Nat
  OBVIOUS
<1>3. others * most \in Int /\ s * most \in Int
  OBVIOUS
<1>4. QED
  BY <1>1, <1>2, <1>3

\* Who has counted claims no more than there is room for; the other workers
\* may at most have claimed what they can insert.
LEMMA CountKeepsRoom ==
  ASSUME SomeWorkers, TypeInv, NEW w \in Workers, NEW n \in Nat, w \notin Savers,
         Count + n <= MaxCap, Held' \subseteq Held,
         Places' \subseteq {p \in Places : p[1] # w} \cup ({w} \X (1 .. n))
  PROVE  RoomIsLeft'
<1> DEFINE others == Workers \ {w}
           counters == others \ Savers
           theirs == {p \in Places : p[1] # w}
           own == {w} \X (1 .. n)
<1>1. /\ IsFiniteSet(others) /\ Cardinality(others) = Cardinality(Workers) - 1
      /\ Cardinality(others) \in Nat
  BY FS_RemoveElement, FS_CardinalityType DEF SomeWorkers
<1>2. Savers \subseteq others
  BY DEF Savers
<1>3. /\ IsFiniteSet(Savers) /\ Cardinality(Savers) <= Cardinality(others)
      /\ Cardinality(Savers) \in Nat
  BY <1>1, <1>2, FS_Subset, FS_CardinalityType
<1>4. /\ IsFiniteSet(counters) /\ Cardinality(counters) = Cardinality(others) - Cardinality(Savers)
  <2>1. others \cap Savers = Savers
    BY <1>2
  <2>2. QED
    BY <1>1, <2>1, FS_Difference
<1>5. IsFiniteSet(SavedUsers) /\ Cardinality(SavedUsers) <= Cardinality(Savers)
      /\ Cardinality(SavedUsers) \in Nat
  <2> DEFINE f == [v \in Savers |-> req[v].user]
  <2>1. f \in Surjection(Savers, SavedUsers)
    BY DEF Surjection, SavedUsers
  <2> HIDE DEF f
  <2>2. QED
    BY <1>3, <2>1, FS_Surjection, FS_CardinalityType
<1>6. Cardinality(Held) <= Count + Cardinality(Savers)
  <2>1. IsFiniteSet(Entered) /\ Count \in Nat
    BY SubsetsOfUsers DEF Entered, Count
  <2>2. Cardinality(Held) = Count + Cardinality(SavedUsers) - Cardinality(Entered \cap SavedUsers)
    BY <1>5, <2>1, FS_Union DEF Held, Count
  <2>3. Cardinality(Entered \cap SavedUsers) \in Nat
    BY <2>1, FS_Intersection, FS_CardinalityType
  <2>4. QED
    BY <1>3, <1>5, <2>1, <2>2, <2>3, HeldAndPlaces
<1>7. theirs \subseteq counters \X (1 .. Most)
  BY DEF Places, Savers, Claims
<1>8. /\ IsFiniteSet(1 .. Most) /\ Cardinality(1 .. Most) = Most
      /\ IsFiniteSet(1 .. n) /\ Cardinality(1 .. n) = n
  <2>1. 1 \in Int /\ Most \in Int /\ n \in Int /\ Most >= 1 /\ n >= 0
    BY MostIs
  <2>2. IsFiniteSet(1 .. Most) /\ IsFiniteSet(1 .. n)
    BY <2>1, FS_Interval
  <2>3. Cardinality(1 .. Most) = Most - 1 + 1
    BY <2>1, FS_Interval
  <2>4. Cardinality(1 .. n) = IF 1 > n THEN 0 ELSE n - 1 + 1
    BY <2>1, FS_Interval
  <2>5. QED
    BY <2>1, <2>2, <2>3, <2>4
<1> HIDE DEF counters, others
<1>9. /\ IsFiniteSet(theirs) /\ Cardinality(theirs) \in Nat
      /\ Cardinality(theirs) <= Cardinality(counters) * Most
  <2>1. IsFiniteSet(counters \X (1 .. Most))
        /\ Cardinality(counters \X (1 .. Most)) = Cardinality(counters) * Most
    BY <1>4, <1>8, FS_Product
  <2>2. QED
    BY <1>7, <2>1, FS_Subset, FS_CardinalityType
<1>10. IsFiniteSet(own) /\ Cardinality(own) = n
  <2>1. IsFiniteSet({w}) /\ Cardinality({w}) = 1
    BY FS_Singleton
  <2>2. IsFiniteSet(own) /\ Cardinality(own) = Cardinality({w}) * Cardinality(1 .. n)
    BY <1>8, <2>1, FS_Product
  <2>3. Cardinality({w}) * Cardinality(1 .. n) = n
    BY <1>8, <2>1
  <2>4. QED
    BY <2>2, <2>3
<1> HIDE DEF theirs, own
<1>11. Cardinality(Places') <= Cardinality(counters) * Most + n /\ Cardinality(Places') \in Nat
  <2>1. /\ IsFiniteSet(theirs \cup own)
        /\ Cardinality(theirs \cup own)
             = Cardinality(theirs) + Cardinality(own) - Cardinality(theirs \cap own)
    BY <1>9, <1>10, FS_Union
  <2>2. Cardinality(theirs \cap own) \in Nat /\ Cardinality(theirs \cup own) \in Nat
    BY <1>9, <2>1, FS_Intersection, FS_CardinalityType
  <2>3. Places' \subseteq theirs \cup own
    BY DEF theirs, own
  <2>4. Cardinality(Places') <= Cardinality(theirs \cup own) /\ Cardinality(Places') \in Nat
    BY <2>1, <2>3, FS_Subset, FS_CardinalityType
  <2>5. Cardinality(counters) * Most \in Int
    BY <1>1, <1>3, <1>4, MostIs
  <2>6. QED
    BY <1>9, <1>10, <2>1, <2>2, <2>4, <2>5
<1>12. Cardinality(Held') <= Cardinality(Held) /\ Cardinality(Held') \in Nat
  BY HeldAndPlaces, FS_Subset, FS_CardinalityType
<1>13. Cardinality(Savers) + Cardinality(counters) * Most <= Cardinality(others) * Most
  BY <1>1, <1>3, <1>4, MostIs, Arithmetic
<1> DEFINE theirMost == Cardinality(counters) * Most
           bound == Cardinality(others) * Most
<1>14. theirMost \in Int /\ bound \in Int
  BY <1>1, <1>3, <1>4, MostIs
<1>15. /\ Cardinality(Savers) + theirMost <= bound
       /\ Cardinality(Places') <= theirMost + n
  BY <1>11, <1>13
<1>16. Count \in Nat /\ MaxCap \in Nat /\ Cardinality(Held) \in Nat
  BY CountType, HeldAndPlaces, BoundsAssumption
<1> HIDE DEF theirMost, bound
<1>17. Cardinality(Held') + Cardinality(Places') <= MaxCap + bound
  BY <1>3, <1>6, <1>11, <1>12, <1>14, <1>15, <1>16
<1>18. QED
  BY <1>1, <1>17 DEF RoomIsLeft, bound

\* What a step of one worker does to the places and to those who are held.
LEMMA PlacesAre ==
  ASSUME TypeInv, NEW w \in Workers, NEW r, req' = [req EXCEPT ![w] = r]
  PROVE  Places' = {p \in Places : p[1] # w}
                     \cup {p \in {w} \X (1 .. Most) : Claims(r, p[2])}
<1>1. req'[w] = r /\ \A v \in Workers \ {w} : req'[v] = req[v]
  BY DEF TypeInv, TypeOK
<1>2. QED
  BY <1>1 DEF Places

LEMMA HeldAre ==
  ASSUME TypeInv, NEW w \in Workers, NEW r, req' = [req EXCEPT ![w] = r], NEW new,
         Entered' \subseteq Held \cup new, r.step = "save_entry" => r.user \in Held
  PROVE  Held' \subseteq Held \cup new
<1>1. req'[w] = r /\ \A v \in Workers \ {w} : req'[v] = req[v]
  BY DEF TypeInv, TypeOK
<1>2. ASSUME NEW v \in Workers, req'[v].step = "save_entry"
      PROVE  req'[v].user \in Held
  BY <1>1, <1>2 DEF Held, SavedUsers, Savers
<1>3. QED
  BY <1>2 DEF Held, SavedUsers, Savers

LEMMA LimitedStays ==
  ASSUME TypeInv, Booked, NEW w \in Workers, NEW r, req' = [req EXCEPT ![w] = r], Limited(r)
  PROVE  \A v \in Workers : Limited(req[v])'
<1>1. req'[w] = r /\ \A v \in Workers \ {w} : req'[v] = req[v]
  BY DEF TypeInv, TypeOK
<1>2. QED
  BY <1>1 DEF Booked, Limited

\* A step that neither enters anybody nor claims a place.
LEMMA FollowBooked ==
  ASSUME SomeWorkers, TypeInv, Booked, NEW w \in Workers, NEW r,
         req' = [req EXCEPT ![w] = r], Limited(r), Entered' \subseteq Held,
         r.step = "save_entry" => r.user \in Held,
         \A i \in 1 .. Most : Claims(r, i) => Claims(req[w], i)
  PROVE  Booked'
<1>1. Held' \subseteq Held
  BY HeldAre
<1>2. Places' \subseteq Places
  BY PlacesAre DEF Places
<1>3. QED
  BY <1>1, <1>2, KeepsRoom, LimitedStays DEF Booked

LEMMA InsertBooked ==
  ASSUME SomeWorkers, TypeInv, Booked, NEW w \in Workers, NEW r, NEW u, NEW m \in 1 .. Most,
         req' = [req EXCEPT ![w] = r], Limited(r), Entered' \subseteq Held \cup {u},
         r.step # "save_entry", Claims(req[w], m), ~Claims(r, m),
         \A i \in 1 .. Most : Claims(r, i) => Claims(req[w], i)
  PROVE  Booked'
<1>1. Held' \subseteq Held \cup {u}
  BY HeldAre
<1>2. <<w, m>> \in Places
  BY DEF Places
<1>3. Places' \subseteq Places \ {<<w, m>>}
  <2>1. ASSUME NEW p \in {w} \X (1 .. Most), Claims(r, p[2])
        PROVE  p \in Places /\ p # <<w, m>>
    BY <2>1 DEF Places
  <2>2. ASSUME NEW p \in Places, p[1] # w PROVE p # <<w, m>>
    BY <2>2
  <2>3. QED
    BY <2>1, <2>2, PlacesAre
<1>4. QED
  BY <1>1, <1>2, <1>3, InsertKeepsRoom, LimitedStays DEF Booked

\* The request goes on after its count, which found room for n.
LEMMA CountBooked ==
  ASSUME SomeWorkers, TypeInv, Booked, NEW w \in Workers, NEW r, NEW n \in Nat,
         Continue(w, r), Limited(r), r.step # "save_entry", req[w].step # "save_entry",
         Count + n <= MaxCap, \A i \in 1 .. Most : Claims(r, i) => i <= n
  PROVE  Booked'
<1>1. req' = [req EXCEPT ![w] = r] /\ Entered' \subseteq Held
  BY DEF Continue, Entered, Held
<1>2. Held' \subseteq Held
  BY <1>1, HeldAre
<1>3. Places' \subseteq {p \in Places : p[1] # w} \cup ({w} \X (1 .. n))
  <2>1. ASSUME NEW p \in {w} \X (1 .. Most), Claims(r, p[2])
        PROVE  p \in {w} \X (1 .. n)
    <3>1. p[2] \in 1 .. Most /\ p[1] = w /\ p = <<p[1], p[2]>>
      OBVIOUS
    <3>2. p[2] \in 1 .. n
      BY <2>1, <3>1, MostIs
    <3>3. QED
      BY <3>1, <3>2
  <2>2. Places' = {p \in Places : p[1] # w}
                     \cup {p \in {w} \X (1 .. Most) : Claims(r, p[2])}
    BY <1>1, PlacesAre
  <2>3. QED
    BY <2>1, <2>2
<1>4. w \notin Savers
  BY DEF Savers
<1>5. QED
  BY <1>1, <1>2, <1>3, <1>4, CountKeepsRoom, LimitedStays DEF Booked

LEMMA IdleBooked == Limited(Idle) /\ Idle.step = "idle" /\ \A i : ~Claims(Idle, i)
  BY DEF Limited, Claims, Idle

\* A request that begins, goes on without a claim, or ends.
LEMMA BeginBooked ==
  ASSUME SomeWorkers, TypeInv, Booked, NEW w \in Workers, NEW r,
         Begin(w, r) \/ Continue(w, r), Limited(r),
         r.step \notin {"save_entry", "register_create", "bulk_create"}
  PROVE  Booked'
<1>1. req' = [req EXCEPT ![w] = r] /\ Entered' \subseteq Held
  BY DEF Begin, Continue, Entered, Held
<1>2. \A i : ~Claims(r, i)
  BY DEF Claims
<1>3. QED
  BY <1>1, <1>2, FollowBooked

LEMMA RefuseBooked ==
  ASSUME SomeWorkers, TypeInv, Booked, NEW w \in Workers, Refuse(w)
  PROVE  Booked'
  BY IdleBooked, BeginBooked DEF Refuse

\* The request ends, and nobody has entered.
LEMMA EndBooked ==
  ASSUME SomeWorkers, TypeInv, Booked, NEW w \in Workers,
         req' = [req EXCEPT ![w] = Idle], Entered' \subseteq Held
  PROVE  Booked'
  BY IdleBooked, FollowBooked

LEMMA InitBooked == SomeWorkers /\ Init => Booked
<1> SUFFICES ASSUME SomeWorkers, Init PROVE Booked
  OBVIOUS
<1>1. Entered = {} /\ \A w \in Workers : req[w] = Idle
  BY DEF Init, Entered
<1>2. Held = {} /\ Places = {}
  BY <1>1, IdleBooked DEF Held, SavedUsers, Savers, Places
<1>3. Cardinality(Held) = 0 /\ Cardinality(Places) = 0
  BY <1>2, FS_EmptySet
<1>4. Cardinality(Workers) \in Nat /\ Cardinality(Workers) >= 1
  BY InitType, HeldAndPlaces
<1>5. (Cardinality(Workers) - 1) * Most \in Nat
  BY <1>4, MostIs
<1>6. RoomIsLeft
  BY <1>3, <1>5, BoundsAssumption DEF RoomIsLeft
<1>7. QED
  BY <1>1, <1>6, IdleBooked DEF Booked

\* A row that is inserted is one user's.
LEMMA InsertedIs ==
  ASSUME TypeInv, NEW u \in Users, NEW e, roster' = [roster EXCEPT ![u] = e] \/ roster' = roster
  PROVE  Entered' \subseteq Held \cup {u}
  BY DEF TypeInv, TypeOK, Entered, Held

LEMMA RegisteringBooked ==
  ASSUME SomeWorkers, TypeInv, Booked, NEW w \in Workers, Registering(w)
  PROVE  Booked'
<1> DEFINE q == req[w]
<1>0. q \in Requests /\ Aimed(q) /\ Limited(q) /\ tournament \in TournamentRows \cup {NoRow}
  BY DEF TypeInv, TypeOK, Booked
<1>1. ASSUME NEW u \in Users, BeginRegister(w, u)
      PROVE  Booked'
  <2> DEFINE r == [Idle EXCEPT !.step = "register_count", !.user = u, !.row = tournament]
  <2>1. r.step = "register_count" /\ r.row = tournament
    BY DEF Idle
  <2>2. Begin(w, r) /\ tournament # NoRow
    BY <1>1 DEF BeginRegister
  <2> HIDE DEF r
  <2>3. Limited(r)
    BY <1>0, <2>1, <2>2 DEF Limited
  <2> QED
    BY <2>1, <2>2, <2>3, BeginBooked
<1>2. CASE CountForRegister(w)
  <2> DEFINE r == [q EXCEPT !.step = "register_create"]
  <2>1. CASE Refuse(w)
    BY <2>1, RefuseBooked
  <2>2. CASE Count < q.row.max /\ Continue(w, r)
    <3>1. q.step = "register_count" /\ q.row \in TournamentRows
      BY <1>0, <1>2 DEF CountForRegister, Limited
    <3>2. q.row.max \in Nat /\ q.row.max <= MaxCap
      BY <3>1, BoundsAssumption DEF TournamentRows
    <3>3. Count + 1 <= MaxCap
      BY <2>2, <3>2, CountType, BoundsAssumption
    <3>4. r.step = "register_create"
      BY <1>0 DEF Requests
    <3>5. Continue(w, r)
      BY <2>2
    <3> HIDE DEF r
    <3>6. Limited(r) /\ \A i \in 1 .. Most : Claims(r, i) => i <= 1
      BY <3>4 DEF Limited, Claims
    <3> QED
      BY <3>1, <3>3, <3>4, <3>5, <3>6, CountBooked
  <2> QED
    BY <1>2, <2>1, <2>2 DEF CountForRegister
<1>3. CASE CreateRegistered(w)
  <2>1. q.step = "register_create" /\ q.user \in Users /\ req' = [req EXCEPT ![w] = Idle]
    BY <1>0, <1>3 DEF CreateRegistered, Aimed, UserSteps
  <2>2. roster' = [roster EXCEPT ![q.user] = "registered"] \/ roster' = roster
    BY <1>3 DEF CreateRegistered
  <2>3. Entered' \subseteq Held \cup {q.user}
    BY <2>1, <2>2, InsertedIs
  <2>4. 1 \in 1 .. Most /\ Claims(q, 1)
    BY <2>1, MostIs DEF Claims
  <2> QED
    BY <2>1, <2>3, <2>4, IdleBooked, InsertBooked
<1> QED
  BY <1>1, <1>2, <1>3 DEF Registering

LEMMA BulkAddingBooked ==
  ASSUME SomeWorkers, TypeInv, Booked, NEW w \in Workers, BulkAdding(w)
  PROVE  Booked'
<1> DEFINE q == req[w]
<1>0. q \in Requests /\ Aimed(q) /\ Limited(q) /\ tournament \in TournamentRows \cup {NoRow}
  BY DEF TypeInv, TypeOK, Booked
<1>1. ASSUME NEW us \in SUBSET Users, Cardinality(us) <= BulkMax, BeginBulk(w, us)
      PROVE  Booked'
  <2> DEFINE r == [Idle EXCEPT !.step = "bulk_count", !.row = tournament, !.todo = us]
  <2>1. r.step = "bulk_count" /\ r.row = tournament /\ r.todo = us
    BY DEF Idle
  <2>2. Begin(w, r) /\ tournament # NoRow
    BY <1>1 DEF BeginBulk
  <2> HIDE DEF r
  <2>3. Limited(r)
    BY <1>0, <1>1, <2>1, <2>2 DEF Limited
  <2> QED
    BY <2>1, <2>2, <2>3, BeginBooked
<1>2. CASE CountForBulk(w)
  <2> DEFINE r == [q EXCEPT !.step = "bulk_create", !.count = Count]
  <2>1. CASE Refuse(w)
    BY <2>1, RefuseBooked
  <2>2. CASE Count < q.row.max /\ Continue(w, r)
    <3>1. q.step = "bulk_count" /\ q.row \in TournamentRows /\ Cardinality(q.todo) <= BulkMax
      BY <1>0, <1>2 DEF CountForBulk, Limited
    <3>2. q.row.max \in Nat /\ q.row.max <= MaxCap
      BY <3>1, BoundsAssumption DEF TournamentRows
    <3> DEFINE n == q.row.max - Count
    <3>3. n \in Nat /\ Count + n <= MaxCap
      BY <2>2, <3>2, CountType, BoundsAssumption
    <3>4. r.step = "bulk_create" /\ r.row = q.row /\ r.todo = q.todo /\ r.count = Count
      BY <1>0 DEF Requests
    <3>5. Continue(w, r)
      BY <2>2
    <3> HIDE DEF r
    <3>6. Limited(r)
      BY <3>1, <3>4 DEF Limited
    <3>7. \A i \in 1 .. Most : Claims(r, i) => i <= n
      BY <3>2, <3>4, CountType, MostIs DEF Claims
    <3> HIDE DEF n
    <3> QED
      BY <3>1, <3>3, <3>4, <3>5, <3>6, <3>7, CountBooked
  <2> QED
    BY <1>2, <2>1, <2>2 DEF CountForBulk
<1>3. ASSUME NEW u \in Users, CreateBulk(w, u)
      PROVE  Booked'
  <2> DEFINE skipped == [q EXCEPT !.todo = @ \ {u}]
             created == [q EXCEPT !.todo = @ \ {u}, !.count = @ + 1]
  <2>1. /\ q.step = "bulk_create" /\ u \in q.todo /\ q.count < q.row.max
        /\ \/ req' = [req EXCEPT ![w] = skipped] /\ roster' = roster
           \/ req' = [req EXCEPT ![w] = created] /\ roster' = [roster EXCEPT ![u] = "registered"]
    BY <1>3 DEF CreateBulk, TypeInv, TypeOK, Requests
  <2>2. /\ q.row \in TournamentRows /\ Cardinality(q.todo) <= BulkMax
        /\ q.todo \in SUBSET Users /\ q.count \in Nat
    BY <1>0, <2>1 DEF Limited, Requests
  <2>3. q.row.max \in Nat
    BY <2>2, BoundsAssumption DEF TournamentRows
  <2>4. /\ Cardinality(q.todo) \in Nat /\ Cardinality(q.todo) >= 1
        /\ Cardinality(q.todo \ {u}) = Cardinality(q.todo) - 1
    <3>1. IsFiniteSet(q.todo) /\ Cardinality(q.todo) \in Nat
      BY <2>2, SubsetsOfUsers
    <3>2. Cardinality(q.todo \ {u}) = Cardinality(q.todo) - 1
      BY <2>1, <3>1, FS_RemoveElement
    <3>3. Cardinality(q.todo \ {u}) \in Nat
      BY <2>2, SubsetsOfUsers
    <3> QED
      BY <3>1, <3>2, <3>3
  <2>5. /\ skipped.step = "bulk_create" /\ skipped.row = q.row /\ skipped.todo = q.todo \ {u}
        /\ skipped.count = q.count
        /\ created.step = "bulk_create" /\ created.row = q.row /\ created.todo = q.todo \ {u}
        /\ created.count = q.count + 1
    BY <1>0, <2>1 DEF Requests
  <2> HIDE DEF skipped, created
  <2>6. Limited(skipped) /\ Limited(created)
    BY <2>2, <2>4, <2>5, BoundsAssumption DEF Limited
  <2>7. /\ \A i \in 1 .. Most : Claims(skipped, i) => Claims(q, i)
        /\ \A i \in 1 .. Most : Claims(created, i) => Claims(q, i)
    <3>1. ASSUME NEW i \in 1 .. Most
          PROVE  /\ Claims(q, i) <=> i <= Cardinality(q.todo) /\ q.count + i <= q.row.max
                 /\ Claims(skipped, i) <=> i <= Cardinality(q.todo) - 1 /\ q.count + i <= q.row.max
                 /\ Claims(created, i)
                      <=> i <= Cardinality(q.todo) - 1 /\ q.count + 1 + i <= q.row.max
      BY <2>1, <2>4, <2>5 DEF Claims
    <3>2. \A i \in 1 .. Most : i \in Nat
      BY MostIs
    <3> HIDE DEF q
    <3> QED
      BY <2>2, <2>3, <2>4, <3>1, <3>2
  <2>8. CASE req' = [req EXCEPT ![w] = skipped] /\ roster' = roster
    <3>1. Entered' \subseteq Held
      BY <2>8 DEF Entered, Held
    <3> QED
      BY <2>5, <2>6, <2>7, <2>8, <3>1, FollowBooked
  <2>9. CASE req' = [req EXCEPT ![w] = created] /\ roster' = [roster EXCEPT ![u] = "registered"]
    <3>1. Entered' \subseteq Held \cup {u}
      BY <2>9, InsertedIs
    <3> DEFINE room == q.row.max - q.count
               m == IF Cardinality(q.todo) <= room THEN Cardinality(q.todo) ELSE room
    <3>2. m \in 1 .. Most
      BY <2>1, <2>2, <2>3, <2>4, MostIs, BoundsAssumption
    <3>3. Claims(q, m)
      BY <2>1, <2>2, <2>3, <2>4 DEF Claims
    <3>4. ~Claims(created, m)
      BY <2>2, <2>3, <2>4, <2>5 DEF Claims
    <3> HIDE DEF m
    <3> QED
      BY <2>5, <2>6, <2>7, <2>9, <3>1, <3>2, <3>3, <3>4, InsertBooked
  <2> QED
    BY <2>1, <2>8, <2>9
<1>4. CASE EndBulk(w)
  BY <1>4, RefuseBooked DEF EndBulk
<1> QED
  BY <1>1, <1>2, <1>3, <1>4 DEF BulkAdding

\* Who is removed leaves room; no request changes.
LEMMA LeavingBooked ==
  ASSUME SomeWorkers, TypeInv, Booked, NEW w \in Workers, Leaving(w)
  PROVE  Booked'
<1>1. ASSUME NEW u \in Users, BeginCancel(w, u)
      PROVE  Booked'
  <2> DEFINE r == [Idle EXCEPT !.step = "cancel_delete", !.user = u]
  <2>1. r.step = "cancel_delete"
    BY DEF Idle
  <2>2. Begin(w, r)
    BY <1>1 DEF BeginCancel
  <2> HIDE DEF r
  <2> QED
    BY <2>1, <2>2, BeginBooked DEF Limited
<1>2. ASSUME NEW u \in Users, RemoveParticipant(w, u)
      PROVE  Booked'
  <2>1. req' = req /\ roster' = [roster EXCEPT ![u] = NoRow]
    BY <1>2 DEF RemoveParticipant, DeleteEntry
  <2>2. Entered' \subseteq Entered
    BY <2>1 DEF Entered, TypeInv, TypeOK
  <2>3. Held' \subseteq Held /\ Places' \subseteq Places
    BY <2>1, <2>2 DEF Held, SavedUsers, Savers, Places
  <2>4. \A v \in Workers : Limited(req[v])'
    BY <2>1 DEF Booked, Limited
  <2> QED
    BY <2>3, <2>4, KeepsRoom DEF Booked
<1>3. CASE CancelDelete(w)
  <2>1. req' = [req EXCEPT ![w] = Idle] /\ roster' = [roster EXCEPT ![req[w].user] = NoRow]
    BY <1>3 DEF CancelDelete, DeleteEntry
  <2>2. Entered' \subseteq Held
    BY <2>1 DEF Entered, Held, TypeInv, TypeOK
  <2> QED
    BY <2>1, <2>2, EndBooked
<1>4. QED
  BY <1>1, <1>2, <1>3 DEF Leaving

\* A saved entry is of a user who was held already.
LEMMA SavingBooked ==
  ASSUME SomeWorkers, TypeInv, Booked, NEW w \in Workers, Saving(w)
  PROVE  Booked'
<1>0. req[w] \in Requests
  BY DEF TypeInv, TypeOK
<1>1. ASSUME NEW u \in Users, BeginCheckIn(w, u) \/ BeginSeed(w, u)
      PROVE  Booked'
  <2> DEFINE in == [Idle EXCEPT !.step = "find_entry", !.user = u, !.checkIn = TRUE]
             seed == [Idle EXCEPT !.step = "find_entry", !.user = u]
  <2>1. in.step = "find_entry" /\ seed.step = "find_entry"
    BY DEF Idle
  <2>2. Begin(w, in) \/ Begin(w, seed)
    BY <1>1 DEF BeginCheckIn, BeginSeed
  <2> HIDE DEF in, seed
  <2>3. Limited(in) /\ Limited(seed)
    BY <2>1 DEF Limited
  <2> QED
    BY <2>1, <2>2, <2>3, BeginBooked
<1>2. CASE FindEntry(w)
  <2>1. CASE Refuse(w)
    BY <2>1, RefuseBooked
  <2>2. CASE ~Refuse(w)
    <3>1. PICK e : Continue(w, [req[w] EXCEPT !.step = "save_entry", !.entry = e])
      BY <1>2, <2>2 DEF FindEntry
    <3>2. req[w].step = "find_entry" /\ roster[req[w].user] # NoRow
      BY <1>2, <2>2 DEF FindEntry
    <3>3. req[w].user \in Held
      BY <3>2 DEF Held, Entered, TypeInv, Aimed, UserSteps
    <3> DEFINE r == [req[w] EXCEPT !.step = "save_entry", !.entry = e]
    <3>4. r.step = "save_entry" /\ r.user = req[w].user
      BY <1>0 DEF Requests
    <3>5. Continue(w, r)
      BY <3>1
    <3> HIDE DEF r
    <3>6. req' = [req EXCEPT ![w] = r] /\ Entered' \subseteq Held
      BY <3>5 DEF Continue, Entered, Held
    <3>7. Limited(r) /\ \A i : ~Claims(r, i)
      BY <3>4 DEF Limited, Claims
    <3> QED
      BY <3>3, <3>4, <3>6, <3>7, FollowBooked
  <2> QED
    BY <2>1, <2>2
<1>3. CASE SaveEntry(w)
  <2>1. req[w].step = "save_entry" /\ req' = [req EXCEPT ![w] = Idle]
    BY <1>3 DEF SaveEntry
  <2>2. req[w].user \in Held
    BY <2>1 DEF Held, SavedUsers, Savers
  <2>3. roster' = roster \/ roster' = [roster EXCEPT ![req[w].user] = req[w].entry]
    BY <1>3 DEF SaveEntry
  <2>4. Entered' \subseteq Entered \cup {req[w].user}
    BY <2>3 DEF Entered, TypeInv, TypeOK
  <2>5. Entered' \subseteq Held
    BY <2>2, <2>4 DEF Held
  <2> QED
    BY <2>1, <2>5, EndBooked
<1>4. QED
  BY <1>1, <1>2, <1>3 DEF Saving

LEMMA ManagingBooked ==
  ASSUME SomeWorkers, TypeInv, Booked, NEW w \in Workers, Managing(w)
  PROVE  Booked'
<1> DEFINE q == req[w]
<1>0. q \in Requests
  BY DEF TypeInv, TypeOK
<1>1. ASSUME NEW m \in 2 .. MaxCap, BeginUpdate(w, m)
      PROVE  Booked'
  <2> DEFINE r == [Idle EXCEPT !.step = "save_row", !.row = [tournament EXCEPT !.max = m]]
  <2>1. r.step = "save_row"
    BY DEF Idle
  <2>2. Begin(w, r)
    BY <1>1 DEF BeginUpdate
  <2> HIDE DEF r
  <2> QED
    BY <2>1, <2>2, BeginBooked DEF Limited
<1>2. ASSUME NEW target \in Statuses, BeginStatus(w, target)
      PROVE  Booked'
  <2> DEFINE r == [Idle EXCEPT
                     !.step = IF target = "in_progress" THEN "list_checked_in" ELSE "save_row",
                     !.row  = [tournament EXCEPT !.status = target]]
  <2>1. r.step \in {"list_checked_in", "save_row"}
    BY DEF Idle
  <2>2. Begin(w, r)
    BY <1>2 DEF BeginStatus
  <2> HIDE DEF r
  <2> QED
    BY <2>1, <2>2, BeginBooked DEF Limited
<1>3. CASE ListCheckedIn(w)
  <2>1. CASE Refuse(w)
    BY <2>1, RefuseBooked
  <2>2. CASE ~Refuse(w)
    <3> DEFINE r == [q EXCEPT !.step = "replace_matches", !.todo = CheckedIn]
    <3>1. r.step = "replace_matches"
      BY <1>0 DEF Requests
    <3>2. Continue(w, r)
      BY <1>3, <2>2 DEF ListCheckedIn
    <3> HIDE DEF r
    <3> QED
      BY <3>1, <3>2, BeginBooked DEF Limited
  <2> QED
    BY <2>1, <2>2
<1>4. CASE ReplaceMatches(w)
  <2>1. CASE Refuse(w)
    BY <2>1, RefuseBooked
  <2>2. CASE ~Refuse(w)
    <3> DEFINE r == [q EXCEPT !.step = "save_row", !.todo = {}]
    <3>1. r.step = "save_row"
      BY <1>0 DEF Requests
    <3>2. req' = [req EXCEPT ![w] = r] /\ roster' = roster
      BY <1>4, <2>2 DEF ReplaceMatches, TypeInv, TypeOK, Requests
    <3> HIDE DEF r
    <3>3. Entered' \subseteq Held
      BY <3>2 DEF Entered, Held
    <3>4. Limited(r) /\ \A i : ~Claims(r, i)
      BY <3>1 DEF Limited, Claims
    <3> QED
      BY <3>1, <3>2, <3>3, <3>4, FollowBooked
  <2> QED
    BY <2>1, <2>2
<1>5. CASE SaveRow(w)
  <2>1. req' = [req EXCEPT ![w] = Idle] /\ Entered' \subseteq Held
    BY <1>5 DEF SaveRow, Entered, Held
  <2> QED
    BY <2>1, EndBooked
<1>6. CASE BeginDelete(w)
  <2>1. PICK r : Begin(w, r) /\ r.step = "delete_row"
    BY <1>6 DEF BeginDelete, Idle
  <2> QED
    BY <2>1, BeginBooked DEF Limited
<1>7. CASE DeleteRow(w)
  <2>1. req' = [req EXCEPT ![w] = Idle] /\ roster' = [u \in Users |-> NoRow]
    BY <1>7 DEF DeleteRow
  <2>2. Entered' \subseteq Held
    BY <2>1 DEF Entered
  <2> QED
    BY <2>1, <2>2, EndBooked
<1>8. QED
  BY <1>1, <1>2, <1>3, <1>4, <1>5, <1>6, <1>7 DEF Managing

LEMMA StepBooked ==
  ASSUME SomeWorkers, TypeInv, Booked, [Next]_vars
  PROVE  Booked'
<1>1. ASSUME NEW w \in Workers,
             Registering(w) \/ BulkAdding(w) \/ Leaving(w) \/ Saving(w) \/ Managing(w)
      PROVE  Booked'
  BY <1>1, RegisteringBooked, BulkAddingBooked, LeavingBooked, SavingBooked, ManagingBooked
<1>2. CASE UNCHANGED vars
  <2>1. Held' = Held /\ Places' = Places
    BY <1>2 DEF vars, Held, Entered, SavedUsers, Savers, Places
  <2>2. \A v \in Workers : Limited(req[v])'
    BY <1>2 DEF vars, Booked, Limited
  <2> QED
    BY <2>1, <2>2, KeepsRoom DEF Booked
<1>3. QED
  BY <1>1, <1>2 DEF Next

LEMMA BookedBounds ==
  ASSUME SomeWorkers, TypeInv, Booked
  PROVE  BoundedOverbooking
<1> DEFINE bound == MaxCap + (Cardinality(Workers) - 1) * Most
<1>1. bound \in Int
  BY HeldAndPlaces, MostIs, BoundsAssumption
<1>2. Entered \subseteq Held
  BY DEF Held
<1>3. Count <= Cardinality(Held) /\ Count \in Nat
  BY <1>2, HeldAndPlaces, FS_Subset, FS_CardinalityType DEF Count
<1>4. Cardinality(Held) + Cardinality(Places) <= bound
  BY DEF Booked, RoomIsLeft
<1> HIDE DEF bound
<1>5. Count <= bound
  BY <1>1, <1>3, <1>4, HeldAndPlaces
<1>6. QED
  BY <1>5 DEF BoundedOverbooking, bound, Most

\* max_participants is exceeded by no more than what the other workers can
\* insert between their counts and their inserts, whatever the number of
\* workers and of users: RegisterParticipant claims one place, a bulk request at
\* most BulkMax, and UpdateParticipant brings back only rows a request had read.
THEOREM OverbookingIsBounded ==
  ASSUME SomeWorkers
  PROVE  Spec => []BoundedOverbooking
<1>1. Init => Booked
  BY InitBooked
<1>2. TypeInv /\ Booked /\ [Next]_vars => Booked'
  BY StepBooked
<1>3. TypeInv /\ Booked => BoundedOverbooking
  BY BookedBounds
<1>4. Init => TypeInv
  BY InitType
<1>5. TypeInv /\ [Next]_vars => TypeInv'
  BY StepType
<1>6. QED
  BY <1>1, <1>2, <1>3, <1>4, <1>5, PTL DEF Spec

-----------------------------------------------------------------------------
(* Registration implements TournamentRules when one worker serves requests.  *)

OneWorker == \E w : Workers = {w}

CountOf(table) == Cardinality({u \in Users : table[u] # NoRow})

\* What a handler may save over the row it read: its settings while they may be
\* edited, or a status the flow allows.
Settles(row, t) ==
  \/ row.status = t.status /\ t.status \notin {"in_progress", "completed"}
  \/ row.max = t.max /\ canTransitionStatus(t.status, row.status)

\* What a request read is still so.
Fresh(r, t, table) ==
  /\ r.step # "idle" => t # NoRow
  /\ r.step \in EntrySteps \ {"save_entry"} => t.status = "registration" /\ r.row = t
  /\ r.step = "register_create" => table[r.user] = NoRow /\ CountOf(table) < t.max
  /\ r.step = "bulk_create" => r.count = CountOf(table)
  /\ r.step = "find_entry" /\ r.checkIn => t.status = "check_in"
  /\ r.step = "save_entry" =>
       /\ table[r.user] # NoRow
       /\ \/ r.entry = table[r.user]
          \/ r.entry = "checked_in" /\ t.status = "check_in"
  /\ r.step \in RowSteps => Settles(r.row, t)
  /\ r.step = "delete_row" => t.status = "draft"

\* With one worker nothing goes stale, and the limit is never exceeded.
Serial ==
  /\ \A w \in Workers : Fresh(req[w], tournament, roster)
  /\ Count <= MaxCap

LEMMA IdleFresh == \A t, table : Fresh(Idle, t, table)
  BY DEF Fresh, Idle, EntrySteps, RowSteps

\* The rules count like the handlers: the two definitions are the same.
LEMMA SameCardinality == \A S : Rules!Cardinality(S) = Cardinality(S)
  BY DEF Rules!Cardinality, Cardinality

LEMMA CountIs == Count = CountOf(roster)
  BY DEF Count, CountOf, Entered

\* Entered users are users, and so finitely many.
LEMMA CountOfType ==
  ASSUME NEW table
  PROVE  IsFiniteSet({u \in Users : table[u] # NoRow}) /\ CountOf(table) \in Nat
<1>1. IsFiniteSet({u \in Users : table[u] # NoRow})
  BY UsersAssumption, FS_Subset
<1> QED
  BY <1>1, FS_CardinalityType DEF CountOf

\* A step of the one worker whose next request r is fresh.
LEMMA FollowSerial ==
  ASSUME OneWorker, TypeInv, NEW w \in Workers, NEW r, req' = [req EXCEPT ![w] = r],
         Fresh(r, tournament', roster'), CountOf(roster') <= MaxCap
  PROVE  Serial'
<1>1. \A v \in Workers : v = w
  BY DEF OneWorker
<1>2. \A v \in Workers : req'[v] = r
  BY <1>1 DEF TypeInv, TypeOK
<1>3. Count' = CountOf(roster')
  BY DEF Count, CountOf, Entered
<1> QED
  BY <1>2, <1>3 DEF Serial

LEMMA StutterOfRules ==
  ASSUME UNCHANGED <<tournament, roster>>
  PROVE  UNCHANGED Rules!vars
  BY DEF Rules!vars, Entered, CheckedIn

LEMMA BeginSerial ==
  ASSUME OneWorker, TypeInv, Serial, NEW w \in Workers, NEW r, Begin(w, r),
         Fresh(r, tournament, roster)
  PROVE  Serial' /\ UNCHANGED Rules!vars
  BY FollowSerial, StutterOfRules, CountIs DEF Begin, Serial

LEMMA ContinueSerial ==
  ASSUME OneWorker, TypeInv, Serial, NEW w \in Workers, NEW r, Continue(w, r),
         Fresh(r, tournament, roster)
  PROVE  Serial' /\ UNCHANGED Rules!vars
  BY FollowSerial, StutterOfRules, CountIs DEF Continue, Serial

LEMMA RefuseSerial ==
  ASSUME OneWorker, TypeInv, Serial, NEW w \in Workers, Refuse(w)
  PROVE  Serial' /\ UNCHANGED Rules!vars
  BY ContinueSerial, IdleFresh DEF Refuse

\* An insert that is within the limit is an entry.
LEMMA InsertEnters ==
  ASSUME TypeInv, NEW u \in Users, tournament # NoRow, tournament.status = "registration",
         roster[u] = NoRow, CountOf(roster) < tournament.max,
         roster' = [roster EXCEPT ![u] = "registered"], tournament' = tournament
  PROVE  /\ Rules!Enter(u)
         /\ CountOf(roster') = CountOf(roster) + 1
         /\ CountOf(roster') <= tournament.max
<1>1. \A v \in Users : roster'[v] = IF v = u THEN "registered" ELSE roster[v]
  BY DEF TypeInv, TypeOK
<1>2. "registered" # NoRow /\ NoRow # "checked_in"
  BY NoRowAssumption DEF EntryStatuses
<1>3. Entered' = Entered \cup {u} /\ u \notin Entered
  BY <1>1, <1>2 DEF Entered
<1>4. CheckedIn' = CheckedIn
  BY <1>1, <1>2 DEF CheckedIn
<1>5. CountOf(roster) = Cardinality(Entered) /\ CountOf(roster') = Cardinality(Entered')
  BY DEF CountOf, Entered
<1>6. CountOf(roster') = CountOf(roster) + 1
  <2>1. IsFiniteSet(Entered)
    BY CountOfType DEF Entered
  <2>2. Cardinality(Entered \cup {u}) = Cardinality(Entered) + 1
    BY <1>3, <2>1, FS_AddElement
  <2> QED
    BY <1>3, <1>5, <2>2
<1>7. CountOf(roster') <= tournament.max
  <2>1. CountOf(roster) \in Nat /\ tournament.max \in Nat
    <3>1. tournament \in [status : Statuses, max : 2..MaxCap]
      BY DEF TypeInv, TypeOK, TournamentRows
    <3>2. tournament.max \in 2..MaxCap
      BY <3>1
    <3>3. tournament.max \in Nat
      BY <3>2, BoundsAssumption
    <3>4. CountOf(roster) \in Nat
      BY CountOfType
    <3> QED
      BY <3>3, <3>4
  <2> QED
    BY <1>6, <2>1
<1>8. Rules!Enter(u)
  BY <1>3, <1>4, <1>5, SameCardinality DEF Rules!Enter
<1> QED
  BY <1>6, <1>7, <1>8

\* The limit of a row is at most MaxCap.
LEMMA LimitBound ==
  ASSUME TypeInv, tournament # NoRow, NEW n \in Nat, n <= tournament.max
  PROVE  n <= MaxCap
  BY BoundsAssumption DEF TypeInv, TypeOK, TournamentRows

LEMMA RegisteringSerial ==
  ASSUME OneWorker, TypeInv, Serial, NEW w \in Workers, Registering(w)
  PROVE  Serial' /\ [Rules!Next]_(Rules!vars)
<1> DEFINE q == req[w]
<1>0. Fresh(q, tournament, roster) /\ q \in Requests /\ Aimed(q)
  BY DEF Serial, TypeInv, TypeOK
<1>1. ASSUME NEW u \in Users, BeginRegister(w, u)
      PROVE  Serial' /\ UNCHANGED Rules!vars
  <2> DEFINE r == [Idle EXCEPT !.step = "register_count", !.user = u, !.row = tournament]
  <2>1. Fresh(r, tournament, roster)
    BY <1>1 DEF BeginRegister, Fresh, Idle, RowSteps, EntrySteps
  <2> QED
    BY <1>1, <2>1, BeginSerial DEF BeginRegister
<1>2. CASE CountForRegister(w)
  <2> DEFINE r == [q EXCEPT !.step = "register_create"]
  <2>1. CASE roster[q.user] = NoRow /\ Count < q.row.max
    <3>1. Fresh(r, tournament, roster)
      BY <1>0, <1>2, <2>1, CountIs DEF CountForRegister, Fresh, Requests, RowSteps, EntrySteps
    <3> QED
      BY <1>2, <2>1, <3>1, ContinueSerial DEF CountForRegister
  <2>2. CASE ~(roster[q.user] = NoRow /\ Count < q.row.max)
    BY <1>2, <2>2, RefuseSerial DEF CountForRegister
  <2> QED
    BY <2>1, <2>2
<1>3. CASE CreateRegistered(w)
  <2>1. /\ q.user \in Users /\ tournament # NoRow /\ tournament.status = "registration"
        /\ roster[q.user] = NoRow /\ CountOf(roster) < tournament.max
    BY <1>0, <1>3 DEF CreateRegistered, Aimed, UserSteps, Fresh, EntrySteps
  <2>2. roster' = [roster EXCEPT ![q.user] = "registered"] /\ tournament' = tournament
    BY <1>3, <2>1 DEF CreateRegistered, Insertable
  <2>3. Rules!Enter(q.user) /\ CountOf(roster') <= tournament.max
    BY <2>1, <2>2, InsertEnters
  <2>4. CountOf(roster') <= MaxCap
    BY <2>1, <2>3, CountOfType, LimitBound
  <2>5. Serial'
    BY <1>3, <2>4, IdleFresh, FollowSerial DEF CreateRegistered
  <2> QED
    BY <2>1, <2>3, <2>5 DEF Rules!Next
<1> QED
  BY <1>1, <1>2, <1>3 DEF Registering

LEMMA BulkAddingSerial ==
  ASSUME OneWorker, TypeInv, Serial, NEW w \in Workers, BulkAdding(w)
  PROVE  Serial' /\ [Rules!Next]_(Rules!vars)
<1> DEFINE q == req[w]
<1>0. Fresh(q, tournament, roster) /\ q \in Requests
  BY DEF Serial, TypeInv, TypeOK
<1>1. ASSUME NEW us \in SUBSET Users, BeginBulk(w, us)
      PROVE  Serial' /\ UNCHANGED Rules!vars
  <2> DEFINE r == [Idle EXCEPT !.step = "bulk_count", !.row = tournament, !.todo = us]
  <2>1. Fresh(r, tournament, roster)
    BY <1>1 DEF BeginBulk, Fresh, Idle, RowSteps, EntrySteps
  <2> QED
    BY <1>1, <2>1, BeginSerial DEF BeginBulk
<1>2. CASE CountForBulk(w)
  <2> DEFINE r == [q EXCEPT !.step = "bulk_create", !.count = Count]
  <2>1. Fresh(r, tournament, roster)
    BY <1>0, <1>2, CountIs DEF CountForBulk, Fresh, Requests, RowSteps, EntrySteps
  <2> QED
    BY <1>2, <2>1, ContinueSerial, RefuseSerial DEF CountForBulk
<1>3. ASSUME NEW u \in Users, CreateBulk(w, u)
      PROVE  Serial' /\ [Rules!Next]_(Rules!vars)
  <2> DEFINE n == q.count + 1
             skipped == [q EXCEPT !.todo = @ \ {u}]
             created == [q EXCEPT !.todo = @ \ {u}, !.count = n]
  <2>1. /\ q.step = "bulk_create" /\ tournament # NoRow /\ tournament.status = "registration"
        /\ q.row = tournament /\ q.count = CountOf(roster) /\ q.count < tournament.max
    BY <1>0, <1>3 DEF CreateBulk, Fresh, EntrySteps
  <2>2. tournament' = tournament
    BY <1>3 DEF CreateBulk
  <2>3. CASE roster[u] = NoRow
    <3>1. roster' = [roster EXCEPT ![u] = "registered"] /\ req' = [req EXCEPT ![w] = created]
      BY <1>0, <1>3, <2>1, <2>3 DEF CreateBulk, Insertable, TypeInv, TypeOK, Requests
    <3>2. Rules!Enter(u) /\ n = CountOf(roster') /\ CountOf(roster') <= tournament.max
      BY <2>1, <2>2, <2>3, <3>1, InsertEnters
    <3> HIDE DEF n
    <3>3. Fresh(created, tournament', roster')
      BY <1>0, <2>1, <2>2, <3>2 DEF Fresh, Requests, RowSteps, EntrySteps
    <3>4. CountOf(roster') <= MaxCap
      BY <2>1, <3>2, CountOfType, LimitBound
    <3> HIDE DEF created
    <3>5. Serial'
      BY <3>1, <3>3, <3>4, FollowSerial
    <3> QED
      BY <3>2, <3>5 DEF Rules!Next
  <2>4. CASE roster[u] # NoRow
    <3>1. roster' = roster /\ req' = [req EXCEPT ![w] = skipped]
      BY <1>0, <1>3, <2>4 DEF CreateBulk, Insertable, TypeInv, TypeOK, Requests
    <3>2. Fresh(skipped, tournament', roster')
      BY <1>0, <2>1, <2>2, <3>1 DEF Fresh, Requests, RowSteps, EntrySteps
    <3> HIDE DEF skipped
    <3>3. Serial'
      BY <3>1, <3>2, FollowSerial, CountIs DEF Serial
    <3> QED
      BY <2>2, <3>1, <3>3, StutterOfRules
  <2> QED
    BY <2>3, <2>4
<1>4. CASE EndBulk(w)
  BY <1>4, RefuseSerial DEF EndBulk
<1> QED
  BY <1>1, <1>2, <1>3, <1>4 DEF BulkAdding

\* A deletion is a withdrawal or a removal.
LEMMA DeleteLeaves ==
  ASSUME TypeInv, NEW u \in Users, tournament # NoRow, DeleteEntry(u), tournament' = tournament
  PROVE  Rules!Leave(u) /\ CountOf(roster') <= CountOf(roster)
<1>1. \A v \in Users : roster'[v] = IF v = u THEN NoRow ELSE roster[v]
  BY DEF DeleteEntry, TypeInv, TypeOK
<1>2. NoRow # "checked_in"
  BY NoRowAssumption DEF EntryStatuses
<1>3. Entered' = Entered \ {u} /\ CheckedIn' = CheckedIn \ {u}
  BY <1>1, <1>2 DEF Entered, CheckedIn
<1>4. IsFiniteSet(Entered)
  BY CountOfType DEF Entered
<1>5. Cardinality(Entered') <= Cardinality(Entered)
  BY <1>3, <1>4, FS_Subset
<1>6. CountOf(roster') <= CountOf(roster)
  BY <1>5 DEF CountOf, Entered
<1>7. Rules!Leave(u)
  <2>1. ~(tournament.status = "deleted")
    BY DEF TypeInv, TypeOK, TournamentRows, Statuses
  <2> QED
    BY <1>3, <2>1 DEF Rules!Leave
<1> QED
  BY <1>6, <1>7

LEMMA LeavingSerial ==
  ASSUME OneWorker, TypeInv, Serial, NEW w \in Workers, Leaving(w)
  PROVE  Serial' /\ [Rules!Next]_(Rules!vars)
<1> DEFINE q == req[w]
<1>0. Fresh(q, tournament, roster) /\ q \in Requests /\ Aimed(q)
  BY DEF Serial, TypeInv, TypeOK
<1>a. ASSUME NEW u \in Users, CountOf(roster') <= CountOf(roster)
      PROVE  CountOf(roster') <= MaxCap
  <2>1. CountOf(roster) <= MaxCap /\ CountOf(roster) \in Nat /\ CountOf(roster') \in Nat
    BY CountIs, CountOfType DEF Serial
  <2> QED
    BY <1>a, <2>1, BoundsAssumption
<1>1. ASSUME NEW u \in Users, BeginCancel(w, u)
      PROVE  Serial' /\ UNCHANGED Rules!vars
  <2> DEFINE r == [Idle EXCEPT !.step = "cancel_delete", !.user = u]
  <2>1. Fresh(r, tournament, roster)
    BY <1>1 DEF BeginCancel, Fresh, Idle, RowSteps, EntrySteps
  <2> QED
    BY <1>1, <2>1, BeginSerial DEF BeginCancel
<1>2. ASSUME NEW u \in Users, RemoveParticipant(w, u)
      PROVE  Serial' /\ [Rules!Next]_(Rules!vars)
  <2>1. Rules!Leave(u) /\ CountOf(roster') <= CountOf(roster)
    BY <1>2, DeleteLeaves DEF RemoveParticipant
  <2>2. req' = [req EXCEPT ![w] = Idle]
    BY <1>2 DEF RemoveParticipant, TypeInv, TypeOK
  <2>3. Serial'
    BY <1>a, <2>1, <2>2, IdleFresh, FollowSerial
  <2> QED
    BY <2>1, <2>3 DEF Rules!Next
<1>3. CASE CancelDelete(w)
  <2>1. q.user \in Users /\ tournament # NoRow
    BY <1>0, <1>3 DEF CancelDelete, Aimed, UserSteps, Fresh
  <2>2. Rules!Leave(q.user) /\ CountOf(roster') <= CountOf(roster)
    BY <1>3, <2>1, DeleteLeaves DEF CancelDelete
  <2>3. Serial'
    BY <1>3, <1>a, <2>1, <2>2, IdleFresh, FollowSerial DEF CancelDelete
  <2> QED
    BY <2>1, <2>2, <2>3 DEF Rules!Next
<1> QED
  BY <1>1, <1>2, <1>3 DEF Leaving

LEMMA SavingSerial ==
  ASSUME OneWorker, TypeInv, Serial, NEW w \in Workers, Saving(w)
  PROVE  Serial' /\ [Rules!Next]_(Rules!vars)
<1> DEFINE q == req[w]
<1>0. Fresh(q, tournament, roster) /\ q \in Requests /\ Aimed(q)
  BY DEF Serial, TypeInv, TypeOK
<1>1. ASSUME NEW u \in Users, BeginCheckIn(w, u)
      PROVE  Serial' /\ UNCHANGED Rules!vars
  <2> DEFINE r == [Idle EXCEPT !.step = "find_entry", !.user = u, !.checkIn = TRUE]
  <2>1. Fresh(r, tournament, roster)
    BY <1>1 DEF BeginCheckIn, Fresh, Idle, RowSteps, EntrySteps
  <2> QED
    BY <1>1, <2>1, BeginSerial DEF BeginCheckIn
<1>2. ASSUME NEW u \in Users, BeginSeed(w, u)
      PROVE  Serial' /\ UNCHANGED Rules!vars
  <2> DEFINE r == [Idle EXCEPT !.step = "find_entry", !.user = u]
  <2>1. Fresh(r, tournament, roster)
    BY <1>2 DEF BeginSeed, Fresh, Idle, RowSteps, EntrySteps
  <2> QED
    BY <1>2, <2>1, BeginSerial DEF BeginSeed
<1>3. CASE FindEntry(w)
  <2> DEFINE e == IF q.checkIn THEN "checked_in" ELSE roster[q.user]
             r == [q EXCEPT !.step = "save_entry", !.entry = e]
  <2>1. CASE roster[q.user] = NoRow
    BY <1>3, <2>1, RefuseSerial DEF FindEntry
  <2>2. CASE roster[q.user] # NoRow
    <3>1. e = roster[q.user] \/ (e = "checked_in" /\ tournament.status = "check_in")
      BY <1>0, <1>3 DEF FindEntry, Fresh
    <3> HIDE DEF e
    <3>2. Fresh(r, tournament, roster)
      BY <1>0, <1>3, <2>2, <3>1 DEF FindEntry, Fresh, Requests, RowSteps, EntrySteps
    <3> QED
      BY <1>3, <2>2, <3>2, ContinueSerial DEF FindEntry, e
  <2> QED
    BY <2>1, <2>2
<1>4. CASE SaveEntry(w)
  <2> DEFINE u == q.user
  <2>1. /\ u \in Users /\ tournament # NoRow /\ roster[u] # NoRow
        /\ \/ q.entry = roster[u]
           \/ q.entry = "checked_in" /\ tournament.status = "check_in"
    BY <1>0, <1>4 DEF SaveEntry, Aimed, UserSteps, Fresh
  <2>2. roster' = [roster EXCEPT ![u] = q.entry] /\ tournament' = tournament
    BY <1>4, <2>1 DEF SaveEntry
  <2>3. "checked_in" # NoRow
    BY NoRowAssumption DEF EntryStatuses
  <2>4. Entered' = Entered
    BY <2>1, <2>2, <2>3 DEF Entered, TypeInv, TypeOK
  <2>5. CountOf(roster') <= MaxCap
    <3>1. CountOf(roster') = Cardinality(Entered') /\ Count = Cardinality(Entered)
      BY DEF CountOf, Entered, Count
    <3> QED
      BY <2>4, <3>1 DEF Serial
  <2>6. Serial'
    BY <1>4, <2>5, IdleFresh, FollowSerial DEF SaveEntry
  <2>7. CASE q.entry = roster[u]
    BY <2>2, <2>6, <2>7, StutterOfRules DEF TypeInv, TypeOK
  <2>8. CASE q.entry = "checked_in" /\ tournament.status = "check_in"
    <3>1. \A v \in Users : roster'[v] = IF v = u THEN "checked_in" ELSE roster[v]
      BY <2>2, <2>8 DEF TypeInv, TypeOK
    <3>2. CheckedIn' = CheckedIn \cup {u}
      BY <2>1, <3>1 DEF CheckedIn
    <3>3. Rules!CheckIn(u)
      BY <2>1, <2>2, <2>4, <2>8, <3>2 DEF Rules!CheckIn, Entered
    <3> QED
      BY <2>1, <2>6, <3>3 DEF Rules!Next
  <2> QED
    BY <2>1, <2>7, <2>8
<1> QED
  BY <1>1, <1>2, <1>3, <1>4 DEF Saving

LEMMA ManagingSerial ==
  ASSUME OneWorker, TypeInv, Serial, NEW w \in Workers, Managing(w)
  PROVE  Serial' /\ [Rules!Next]_(Rules!vars)
<1> DEFINE q == req[w]
<1>0. /\ Fresh(q, tournament, roster) /\ q \in Requests /\ Aimed(q)
      /\ tournament \in TournamentRows \cup {NoRow} /\ CountOf(roster) <= MaxCap
  BY CountIs DEF Serial, TypeInv, TypeOK
<1>1. ASSUME NEW m \in 2..MaxCap, BeginUpdate(w, m)
      PROVE  Serial' /\ UNCHANGED Rules!vars
  <2> DEFINE row == [tournament EXCEPT !.max = m]
             r   == [Idle EXCEPT !.step = "save_row", !.row = row]
  <2>1. Settles(row, tournament) /\ tournament # NoRow
    BY <1>0, <1>1 DEF BeginUpdate, TournamentRows, Settles
  <2> HIDE DEF row
  <2>2. Fresh(r, tournament, roster)
    BY <2>1 DEF Fresh, Idle, RowSteps, EntrySteps
  <2> QED
    BY <1>1, <2>2, BeginSerial DEF BeginUpdate, row
<1>2. ASSUME NEW target \in Statuses, BeginStatus(w, target)
      PROVE  Serial' /\ UNCHANGED Rules!vars
  <2> DEFINE row  == [tournament EXCEPT !.status = target]
             step == IF target = "in_progress" THEN "list_checked_in" ELSE "save_row"
             r    == [Idle EXCEPT !.step = step, !.row = row]
  <2>1. Settles(row, tournament) /\ tournament # NoRow
    BY <1>0, <1>2 DEF BeginStatus, TournamentRows, Settles
  <2>2. step \in {"list_checked_in", "save_row"}
    OBVIOUS
  <2> HIDE DEF row, step
  <2>3. Fresh(r, tournament, roster)
    BY <2>1, <2>2 DEF Fresh, Idle, RowSteps, EntrySteps
  <2> QED
    BY <1>2, <2>3, BeginSerial DEF BeginStatus, row, step
<1>3. CASE ListCheckedIn(w)
  <2> DEFINE r == [q EXCEPT !.step = "replace_matches", !.todo = CheckedIn]
  <2>1. Fresh(r, tournament, roster)
    BY <1>0, <1>3 DEF ListCheckedIn, Fresh, Requests, RowSteps, EntrySteps
  <2> QED
    BY <1>3, <2>1, ContinueSerial, RefuseSerial DEF ListCheckedIn
<1>4. CASE ReplaceMatches(w)
  <2> DEFINE r == [q EXCEPT !.step = "save_row", !.todo = {}]
  <2>1. Fresh(r, tournament, roster)
    BY <1>0, <1>4 DEF ReplaceMatches, Fresh, Requests, RowSteps, EntrySteps
  <2>2. CASE Refuse(w)
    BY <2>2, RefuseSerial
  <2>3. CASE /\ req' = [req EXCEPT ![w].step = "save_row", ![w].todo = {}]
             /\ UNCHANGED <<tournament, roster, reached, everCheckedIn>>
    <3>1. req' = [req EXCEPT ![w] = r]
      BY <2>3 DEF TypeInv, TypeOK, Requests
    <3> HIDE DEF r
    <3> QED
      BY <1>0, <2>1, <2>3, <3>1, FollowSerial, StutterOfRules
  <2> QED
    BY <1>4, <2>2, <2>3 DEF ReplaceMatches
<1>5. CASE SaveRow(w)
  <2>1. /\ tournament # NoRow /\ Settles(q.row, tournament) /\ q.row \in TournamentRows
        /\ tournament' = q.row /\ roster' = roster
    BY <1>0, <1>5 DEF SaveRow, Fresh, Aimed, RowSteps
  <2>2. Serial'
    BY <1>0, <1>5, <2>1, IdleFresh, FollowSerial DEF SaveRow
  <2>3. tournament' # NoRow /\ Entered' = Entered /\ CheckedIn' = CheckedIn
    BY <2>1, NoRowAssumption DEF Entered, CheckedIn
  <2>4. /\ q.row.max \in 2..MaxCap /\ q.row.status \in Statuses
        /\ tournament.status \in Statuses
    BY <1>0, <2>1 DEF TournamentRows
  <2>5. CASE q.row.status = tournament.status /\ tournament.status \notin {"in_progress", "completed"}
    <3>1. Rules!Resize
      BY <2>1, <2>3, <2>4, <2>5 DEF Rules!Resize, Statuses
    <3> QED
      BY <2>2, <3>1 DEF Rules!Next
  <2>6. CASE q.row.max = tournament.max /\ canTransitionStatus(tournament.status, q.row.status)
    <3>1. Rules!Cancel \/ Rules!Advance
      BY <2>1, <2>3, <2>4, <2>6
      DEF Rules!Cancel, Rules!Advance, Rules!Flow, canTransitionStatus, Statuses
    <3> QED
      BY <2>2, <3>1 DEF Rules!Next
  <2> QED
    BY <2>1, <2>5, <2>6 DEF Settles
<1>6. CASE BeginDelete(w)
  <2> DEFINE r == [Idle EXCEPT !.step = "delete_row"]
  <2>1. Fresh(r, tournament, roster)
    BY <1>6 DEF BeginDelete, Fresh, Idle, RowSteps, EntrySteps
  <2> QED
    BY <1>6, <2>1, BeginSerial DEF BeginDelete
<1>7. CASE DeleteRow(w)
  <2>1. tournament # NoRow /\ tournament.status = "draft"
    BY <1>0, <1>7 DEF DeleteRow, Fresh
  <2>2. Entered' = {} /\ CheckedIn' = {}
    BY <1>7, NoRowAssumption DEF DeleteRow, Entered, CheckedIn, EntryStatuses
  <2>3. CountOf(roster') = 0
    BY <2>2, FS_EmptySet DEF CountOf, Entered
  <2>4. CountOf(roster') <= MaxCap
    BY <2>3, BoundsAssumption
  <2>5. Serial'
    BY <1>7, <2>4, IdleFresh, FollowSerial DEF DeleteRow
  <2>6. Rules!Delete
    BY <1>7, <2>1, <2>2 DEF DeleteRow, Rules!Delete
  <2> QED
    BY <2>5, <2>6 DEF Rules!Next
<1> QED
  BY <1>1, <1>2, <1>3, <1>4, <1>5, <1>6, <1>7 DEF Managing

LEMMA InitSerial == Init => Serial /\ Rules!Init
<1> SUFFICES ASSUME Init PROVE Serial /\ Rules!Init
  OBVIOUS
<1>1. Entered = {} /\ CheckedIn = {}
  BY NoRowAssumption DEF Init, Entered, CheckedIn, EntryStatuses
<1>2. tournament.status = "draft" /\ tournament.max \in 2..MaxCap /\ tournament # NoRow
  BY NoRowAssumption DEF Init, TournamentRows, Statuses
<1>3. Count = 0
  BY <1>1, FS_EmptySet DEF Count
<1>4. Count <= MaxCap
  BY <1>3, BoundsAssumption
<1>5. Serial
  BY <1>4, IdleFresh DEF Init, Serial
<1>6. Rules!Init
  BY <1>1, <1>2 DEF Rules!Init
<1> QED
  BY <1>5, <1>6

LEMMA StepSerial ==
  ASSUME OneWorker
  PROVE  TypeInv /\ Serial /\ [Next]_vars => Serial' /\ [Rules!Next]_(Rules!vars)
<1> SUFFICES ASSUME TypeInv, Serial, [Next]_vars
             PROVE  Serial' /\ [Rules!Next]_(Rules!vars)
  OBVIOUS
<1>1. CASE Next
  BY <1>1, RegisteringSerial, BulkAddingSerial, LeavingSerial, SavingSerial, ManagingSerial
  DEF Next
<1>2. CASE UNCHANGED vars
  <2>1. Serial'
    BY <1>2 DEF vars, Serial, Count, Entered
  <2> QED
    BY <1>2, <2>1, StutterOfRules DEF vars
<1> QED
  BY <1>1, <1>2

\* Served one at a time, the statements of the handlers add up to the rules of
\* entry: each is one atomic step of them or changes nothing they speak of.
THEOREM SerialImplementsRules ==
  ASSUME OneWorker
  PROVE  Spec => ImplementsRules
<1>1. Init => Serial /\ Rules!Init
  BY InitSerial
<1>2. TypeInv /\ Serial /\ [Next]_vars => Serial' /\ [Rules!Next]_(Rules!vars)
  BY StepSerial
<1> QED
  BY InitType, StepType, <1>1, <1>2, PTL DEF Spec, ImplementsRules, Rules!Spec

=============================================================================
