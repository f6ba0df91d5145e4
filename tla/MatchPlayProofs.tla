--------------------------- MODULE MatchPlayProofs ---------------------------
(* Proofs about MatchPlay, for every bracket and any number of workers.      *)
EXTENDS MatchPlay, TLAPS

-----------------------------------------------------------------------------
(* Types.                                                                    *)

\* A match row drawn from the bracket is a match row.
LEMMA RowType == ASSUME NEW m \in Matches PROVE Row(Draw[m]) \in MatchRows
  BY DrawAssumption DEF Row, MatchRows, DrawnMatches

LEMMA EmptyRowType == EmptyRow \in MatchRows
  BY DEF EmptyRow, MatchRows, Slots, MatchStatuses

LEMMA IdleType == Idle \in Requests
  BY EmptyRowType DEF Idle, Requests, Steps, ResultSteps, Slots, PlayStatuses

LEMMA PlacedType ==
  ASSUME NEW row \in MatchRows, NEW p \in Participants
  PROVE  Placed(row, p) \in MatchRows
  BY DEF Placed, MatchRows, Slots, MatchStatuses

\* A request that goes on with a match names one, and a winner with a result;
\* it saves an advancement only where the bracket has a match to advance to.
Aimed(r) ==
  /\ r.step = "save_status" => r.m \in Matches
  /\ r.step \in ResultSteps => r.m \in Matches /\ r.winner \in Participants
  /\ r.step = "save_next" => Draw[r.m].next \in Matches
  /\ r.step = "save_loser_next" => Draw[r.m].loserNext \in Matches

\* TypeOK made inductive.
TypeInv == TypeOK /\ \A w \in Workers : Aimed(req[w])

LEMMA IdleAimed == Aimed(Idle)
  BY DEF Aimed, Idle, ResultSteps

\* Every field of a request is typed.
LEMMA RequestFields ==
  ASSUME TypeInv, NEW w \in Workers
  PROVE  /\ req[w] \in Requests
         /\ Aimed(req[w])
         /\ req[w].step \in Steps
         /\ req[w].m \in Matches \cup {0}
         /\ req[w].row \in MatchRows
         /\ req[w].next \in MatchRows
         /\ req[w].losers \subseteq Participants
         /\ req[w].winner \in Slots
         /\ req[w].status \in PlayStatuses
  BY DEF TypeInv, TypeOK, Requests

\* What the four ways of writing leave typed, given the request that follows.
LEMMA ContinueType ==
  ASSUME TypeInv, NEW w \in Workers, NEW r \in Requests, Aimed(r), Continue(w, r)
  PROVE  TypeInv'
  BY DEF TypeInv, TypeOK, Continue

LEMMA BeginType ==
  ASSUME TypeInv, NEW w \in Workers, NEW r \in Requests, Aimed(r), Begin(w, r), made' \in Nat
  PROVE  TypeInv'
  BY DEF TypeInv, TypeOK, Begin

LEMMA SaveMatchRowType ==
  ASSUME TypeInv, NEW w \in Workers, NEW m \in Matches, NEW row \in MatchRows,
         NEW r \in Requests, Aimed(r), SaveMatchRow(w, m, row, r),
         won' \subseteq Matches \X Participants, lost' \subseteq Matches \X Participants
  PROVE  TypeInv'
  BY DEF TypeInv, TypeOK, SaveMatchRow

LEMMA SaveEntryType ==
  ASSUME TypeInv, NEW w \in Workers, NEW p, NEW status \in EntryStatuses,
         NEW r \in Requests, Aimed(r), SaveEntry(w, p, status, r)
  PROVE  TypeInv'
  BY DEF TypeInv, TypeOK, SaveEntry

LEMMA SaveTournamentType ==
  ASSUME TypeInv, NEW w \in Workers, NEW status \in PlayStatuses,
         NEW r \in Requests, Aimed(r), SaveTournament(w, status, r)
  PROVE  TypeInv'
  BY DEF TypeInv, TypeOK, SaveTournament

LEMMA InitType == Init => TypeInv
<1> SUFFICES ASSUME Init PROVE TypeInv
  OBVIOUS
<1>1. match \in [Matches -> MatchRows]
  BY RowType DEF Init
<1>2. req \in [Workers -> Requests]
  BY IdleType DEF Init
<1> QED
  BY <1>1, <1>2, IdleAimed DEF Init, TypeInv, TypeOK, PlayStatuses, EntryStatuses

LEMMA RequestingType ==
  ASSUME TypeInv, NEW w \in Workers, Requesting(w)
  PROVE  TypeInv'
<1>0. Bounded => made' \in Nat
  BY DEF TypeInv, TypeOK, Bounded
<1>1. ASSUME NEW target \in PlayStatuses, BeginStatus(w, target)
      PROVE  TypeInv'
  <2> DEFINE r == [Idle EXCEPT !.step = "save_tournament", !.status = target]
  <2>1. r \in Requests /\ Aimed(r)
    BY IdleType DEF Requests, Steps, Aimed, ResultSteps, Idle
  <2> QED
    BY <1>0, <1>1, <2>1, BeginType DEF BeginStatus
<1>2. ASSUME NEW m \in Matches, NEW target \in MatchStatuses, BeginMatchStatus(w, m, target)
      PROVE  TypeInv'
  <2> DEFINE row == [match[m] EXCEPT !.status = target]
             r   == [Idle EXCEPT !.step = "save_status", !.m = m, !.row = row]
  <2>1. row \in MatchRows
    BY DEF TypeInv, TypeOK, MatchRows
  <2> HIDE DEF row
  <2>2. r \in Requests /\ Aimed(r)
    BY <2>1, IdleType DEF Requests, Steps, Aimed, ResultSteps, Idle
  <2> QED
    BY <1>0, <1>2, <2>2, BeginType DEF BeginMatchStatus, row
<1>3. ASSUME NEW m \in Matches, NEW p \in Participants, ReportResult(w, m, p)
      PROVE  TypeInv'
  <2> DEFINE r == [Idle EXCEPT !.step = "save_match", !.m = m, !.winner = p, !.row = match[m]]
  <2>1. r \in Requests /\ Aimed(r)
    BY IdleType DEF Requests, Steps, ResultSteps, Slots, TypeInv, TypeOK, Aimed, Idle
  <2> QED
    BY <1>0, <1>3, <2>1, BeginType DEF ReportResult, BeginResult
<1> QED
  BY <1>1, <1>2, <1>3 DEF Requesting

LEMMA RemovingType ==
  ASSUME TypeInv, NEW w \in Workers, NEW p \in Participants, RemoveParticipant(w, p)
  PROVE  TypeInv'
<1> DEFINE cleared(q) == IF q = p THEN None ELSE q
           row(m) == [match[m] EXCEPT !.p1 = cleared(@), !.p2 = cleared(@), !.winner = cleared(@)]
<1>1. match' = [m \in Matches |-> row(m)]
  BY DEF RemoveParticipant
<1>2. \A m \in Matches : row(m) \in MatchRows
  BY DEF TypeInv, TypeOK, MatchRows, Slots
<1>3. match' \in [Matches -> MatchRows]
  BY <1>1, <1>2
<1>4. made' \in Nat
  <2>1. Bounded
    BY DEF RemoveParticipant
  <2> QED
    BY <2>1 DEF TypeInv, TypeOK, Bounded
<1>5. entry' \in [Participants -> EntryStatuses \cup {None}]
  BY DEF TypeInv, TypeOK, RemoveParticipant
<1> QED
  BY <1>3, <1>4, <1>5 DEF TypeInv, TypeOK, RemoveParticipant

LEMMA WorkingType ==
  ASSUME TypeInv, NEW w \in Workers, Working(w)
  PROVE  TypeInv'
<1> DEFINE r == req[w]
<1>0. /\ r \in Requests /\ r.m \in Matches \cup {0} /\ Aimed(r)
      /\ r.row \in MatchRows /\ r.next \in MatchRows
      /\ r.losers \subseteq Participants
      /\ r.winner \in Slots /\ r.status \in PlayStatuses
  BY RequestFields
<1> HIDE DEF r
<1>1. CASE SaveStatus(w)
  BY <1>0, <1>1, IdleType, IdleAimed, SaveTournamentType DEF SaveStatus, r
<1>2. CASE SaveMatchStatus(w)
  <2>1. r.m \in Matches /\ won' = won /\ lost' = lost
    BY <1>0, <1>2 DEF SaveMatchStatus, Aimed, r
  <2> QED
    BY <1>0, <1>2, <2>1, IdleType, IdleAimed, SaveMatchRowType
    DEF SaveMatchStatus, r, TypeInv, TypeOK
<1>3. CASE SaveResult(w)
  <2> DEFINE row    == [r.row EXCEPT !.winner = r.winner, !.status = "completed"]
             losers == Seated(row) \ {r.winner}
             next   == [r EXCEPT !.step = "find_loser", !.row = row, !.losers = losers]
  <2>1. r.m \in Matches /\ r.winner \in Participants
    BY <1>0, <1>3 DEF SaveResult, Aimed, ResultSteps, r
  <2>2. row \in MatchRows /\ losers \subseteq Participants
    BY <1>0, <2>1 DEF MatchRows, MatchStatuses, Slots, Seated
  <2> HIDE DEF row, losers
  <2>3. next \in Requests /\ Aimed(next)
    BY <1>0, <2>1, <2>2 DEF Requests, Steps, ResultSteps, Aimed
  <2>4. CASE Storable(row)
    <3>1. /\ SaveMatchRow(w, r.m, row, next)
          /\ won' = won \cup {<<r.m, r.winner>>}
          /\ lost' = lost \cup ({r.m} \X losers)
      BY <1>3, <2>4 DEF SaveResult, r, row, losers
    <3>2. won' \subseteq Matches \X Participants /\ lost' \subseteq Matches \X Participants
      BY <2>1, <2>2, <3>1 DEF TypeInv, TypeOK
    <3> QED
      BY <2>1, <2>2, <2>3, <3>1, <3>2, SaveMatchRowType
  <2>5. CASE ~Storable(row)
    BY <1>3, <2>5, IdleType, IdleAimed, ContinueType DEF SaveResult, r, row, losers
  <2> QED
    BY <2>4, <2>5
<1>4. CASE FindLoser(w)
  <2> DEFINE p  == IF r.row.p1 \in r.losers THEN r.row.p1 ELSE r.row.p2
             r1 == [r EXCEPT !.step = "find_next"]
             r2 == [r EXCEPT !.step = "save_loser"]
             r3 == [r EXCEPT !.losers = @ \ {p}]
  <2>1. r.m \in Matches /\ r.winner \in Participants
    BY <1>0, <1>4 DEF FindLoser, Aimed, ResultSteps, r
  <2>2. Continue(w, r1) \/ Continue(w, r2) \/ Continue(w, r3)
    BY <1>4 DEF FindLoser, r
  <2>3. r1 \in Requests /\ r2 \in Requests /\ r3 \in Requests
    BY <1>0 DEF Requests, Steps, ResultSteps
  <2>4. Aimed(r1) /\ Aimed(r2) /\ Aimed(r3)
    BY <1>0, <2>1, <1>4 DEF Requests, Aimed, ResultSteps, FindLoser, r
  <2> QED
    BY <2>2, <2>3, <2>4, ContinueType
<1>5. CASE SaveLoser(w)
  <2> DEFINE p  == IF r.row.p1 \in r.losers THEN r.row.p1 ELSE r.row.p2
             r1 == [r EXCEPT !.step = "find_loser", !.losers = @ \ {p}]
  <2>1. r.m \in Matches /\ r.winner \in Participants
    BY <1>0, <1>5 DEF SaveLoser, Aimed, ResultSteps, r
  <2>2. SaveEntry(w, p, "eliminated", r1)
    BY <1>5 DEF SaveLoser, r
  <2>3. r1 \in Requests
    BY <1>0 DEF Requests, Steps, ResultSteps
  <2>4. Aimed(r1)
    BY <1>0, <2>1 DEF Requests, Aimed, ResultSteps
  <2> QED
    BY <2>2, <2>3, <2>4, SaveEntryType DEF EntryStatuses
<1>6. CASE FindNext(w)
  <2> DEFINE next == Draw[r.m].next
             row  == Placed(match[next], r.winner)
             r1   == [r EXCEPT !.step = "find_loser_next"]
             r2   == [r EXCEPT !.step = "save_next", !.next = row]
  <2>1. r.m \in Matches /\ r.winner \in Participants
    BY <1>0, <1>6 DEF FindNext, Aimed, ResultSteps, r
  <2>2. IF next = 0 THEN Continue(w, r1) ELSE Continue(w, r2)
    BY <1>6 DEF FindNext, r
  <2>3. CASE next = 0
    <3>1. r1 \in Requests /\ Aimed(r1)
      BY <1>0, <2>1 DEF Requests, Steps, ResultSteps, Aimed
    <3> QED
      BY <2>2, <2>3, <3>1, ContinueType
  <2>4. CASE next # 0
    <3>1. next \in Matches
      BY <2>1, <2>4, DrawAssumption DEF DrawnMatches
    <3>2. row \in MatchRows
      BY <2>1, <3>1, PlacedType DEF TypeInv, TypeOK
    <3> HIDE DEF row
    <3>3. r2 \in Requests
      BY <1>0, <3>2 DEF Requests, Steps, ResultSteps
    <3>4. Aimed(r2)
      BY <1>0, <2>1, <3>1 DEF Requests, Aimed, ResultSteps
    <3> QED
      BY <2>2, <2>4, <3>3, <3>4, ContinueType
  <2> QED
    BY <2>3, <2>4
<1>7. CASE SaveNext(w)
  <2> DEFINE r1 == [r EXCEPT !.step = "find_loser_next", !.next = EmptyRow]
  <2>1. r.m \in Matches /\ r.winner \in Participants /\ Draw[r.m].next \in Matches
    BY <1>0, <1>7 DEF SaveNext, Aimed, ResultSteps, r
  <2>2. SaveMatchRow(w, Draw[r.m].next, r.next, r1) /\ won' = won /\ lost' = lost
    BY <1>7 DEF SaveNext, r
  <2>3. r1 \in Requests /\ Aimed(r1)
    BY <1>0, <2>1, EmptyRowType DEF Requests, Steps, ResultSteps, Aimed
  <2> QED
    BY <1>0, <2>1, <2>2, <2>3, SaveMatchRowType DEF TypeInv, TypeOK
<1>8. CASE FindLoserNext(w)
  <2> DEFINE next == Draw[r.m].loserNext
             p    == LoserOf(r.row)
             row  == Placed(match[next], p)
             r1   == [r EXCEPT !.step = "count"]
             r2   == [r EXCEPT !.step = "save_loser_next", !.next = row]
  <2>1. r.m \in Matches /\ r.winner \in Participants
    BY <1>0, <1>8 DEF FindLoserNext, Aimed, ResultSteps, r
  <2>2. \/ Continue(w, r1)
        \/ next # 0 /\ p # None /\ Continue(w, r2)
    BY <1>8 DEF FindLoserNext, r
  <2>3. CASE Continue(w, r1)
    <3>1. r1 \in Requests /\ Aimed(r1)
      BY <1>0, <2>1 DEF Requests, Steps, ResultSteps, Aimed
    <3> QED
      BY <2>3, <3>1, ContinueType
  <2>4. CASE next # 0 /\ p # None /\ Continue(w, r2)
    <3>1. next \in Matches
      BY <2>1, <2>4, DrawAssumption DEF DrawnMatches
    <3>2. p \in Participants
      BY <1>0, <2>4 DEF LoserOf, MatchRows, Slots
    <3>3. row \in MatchRows
      BY <3>1, <3>2, PlacedType DEF TypeInv, TypeOK
    <3> HIDE DEF row
    <3>4. r2 \in Requests
      BY <1>0, <3>3 DEF Requests, Steps, ResultSteps
    <3>5. Aimed(r2)
      BY <1>0, <2>1, <3>1 DEF Requests, Aimed, ResultSteps
    <3> QED
      BY <2>4, <3>4, <3>5, ContinueType
  <2> QED
    BY <2>2, <2>3, <2>4
<1>9. CASE SaveLoserNext(w)
  <2> DEFINE r1 == [r EXCEPT !.step = "count", !.next = EmptyRow]
  <2>1. r.m \in Matches /\ r.winner \in Participants /\ Draw[r.m].loserNext \in Matches
    BY <1>0, <1>9 DEF SaveLoserNext, Aimed, ResultSteps, r
  <2>2. SaveMatchRow(w, Draw[r.m].loserNext, r.next, r1) /\ won' = won /\ lost' = lost
    BY <1>9 DEF SaveLoserNext, r
  <2>3. r1 \in Requests /\ Aimed(r1)
    BY <1>0, <2>1, EmptyRowType DEF Requests, Steps, ResultSteps, Aimed
  <2> QED
    BY <1>0, <2>1, <2>2, <2>3, SaveMatchRowType DEF TypeInv, TypeOK
<1>10. CASE CountIncomplete(w)
  <2> DEFINE r1 == [r EXCEPT !.step = "save_completed"]
  <2>1. r.m \in Matches /\ r.winner \in Participants
    BY <1>0, <1>10 DEF CountIncomplete, Aimed, ResultSteps, r
  <2>2. Continue(w, r1) \/ Continue(w, Idle)
    BY <1>10 DEF CountIncomplete, r
  <2>3. r1 \in Requests /\ Aimed(r1)
    BY <1>0, <2>1 DEF Requests, Steps, ResultSteps, Aimed
  <2> QED
    BY <2>2, <2>3, IdleType, IdleAimed, ContinueType
<1>11. CASE SaveCompleted(w)
  <2> DEFINE r1 == [r EXCEPT !.step = "find_winner"]
  <2>1. r.m \in Matches /\ r.winner \in Participants
    BY <1>0, <1>11 DEF SaveCompleted, Aimed, ResultSteps, r
  <2>2. SaveTournament(w, "completed", r1)
    BY <1>11 DEF SaveCompleted, r
  <2>3. r1 \in Requests /\ Aimed(r1)
    BY <1>0, <2>1 DEF Requests, Steps, ResultSteps, Aimed
  <2> QED
    BY <2>2, <2>3, SaveTournamentType DEF PlayStatuses
<1>12. CASE FindWinner(w)
  <2> DEFINE r1 == [r EXCEPT !.step = "save_winner"]
  <2>1. r.m \in Matches /\ r.winner \in Participants
    BY <1>0, <1>12 DEF FindWinner, Aimed, ResultSteps, r
  <2>2. Continue(w, r1) \/ Continue(w, Idle)
    BY <1>12 DEF FindWinner, r
  <2>3. r1 \in Requests /\ Aimed(r1)
    BY <1>0, <2>1 DEF Requests, Steps, ResultSteps, Aimed
  <2> QED
    BY <2>2, <2>3, IdleType, IdleAimed, ContinueType
<1>13. CASE SaveWinner(w)
  <2>1. SaveEntry(w, r.winner, "winner", Idle)
    BY <1>13 DEF SaveWinner, r
  <2> QED
    BY <2>1, IdleType, IdleAimed, SaveEntryType DEF EntryStatuses
<1> QED
  BY <1>1, <1>2, <1>3, <1>4, <1>5, <1>6, <1>7, <1>8, <1>9, <1>10, <1>11, <1>12, <1>13
  DEF Working

LEMMA StepType == TypeInv /\ [Next]_vars => TypeInv'
<1> SUFFICES ASSUME TypeInv, [Next]_vars PROVE TypeInv'
  OBVIOUS
<1>1. CASE Next
  BY <1>1, RequestingType, WorkingType, RemovingType DEF Next, Removing
<1>2. CASE UNCHANGED vars
  BY <1>2 DEF vars, TypeInv, TypeOK
<1> QED
  BY <1>1, <1>2

\* Every reachable state is typed: no interleaving of requests sends a handler on
\* with a match or a winner that it does not have.
THEOREM TypeCorrect == Spec => []TypeOK
<1>1. TypeInv => TypeOK
  BY DEF TypeInv
<1> QED
  BY InitType, StepType, <1>1, PTL DEF Spec

-----------------------------------------------------------------------------
(* The last result completes the tournament.                                 *)

\* Only a bye or a completed match has a winner.
Settled(row) == row.winner # None => row.status \in {"bye", "completed"}

\* What a handler is about to write agrees with that, and nothing puts the
\* tournament back in progress.
Steady(r) ==
  /\ r.step = "save_status" => r.row.winner = None
  /\ r.step \in {"save_next", "save_loser_next"} => Settled(r.next)
  /\ r.step = "save_tournament" => r.status # "in_progress"

\* The result is saved and the incomplete matches are yet to be counted, or were
\* counted and there is none.
Concluding(r) == r.step \in {"find_loser", "save_loser", "find_next", "save_next",
                             "find_loser_next", "save_loser_next", "count", "save_completed"}

AllDecided == \A m \in Matches : Decided(m)

\* LastResultCompletes made inductive: while every match is decided and the
\* tournament still in progress, somebody is about to count.
Completion ==
  /\ \A m \in Matches : Settled(match[m])
  /\ \A w \in Workers : Steady(req[w])
  /\ AllDecided /\ tournament = "in_progress" => \E w \in Workers : Concluding(req[w])

LEMMA IdleSteady == Steady(Idle) /\ ~Concluding(Idle)
  BY DEF Steady, Concluding, Idle

LEMMA PlacedSettled ==
  ASSUME NEW row \in MatchRows, NEW p, Settled(row)
  PROVE  Settled(Placed(row, p))
  BY DEF Placed, Settled, MatchRows

LEMMA InitCompletion == Init => Completion
<1> SUFFICES ASSUME Init PROVE Completion
  OBVIOUS
<1>1. \A m \in Matches : Settled(match[m]) /\ ~Decided(m)
  BY DrawAssumption DEF Init, Row, Settled, Decided
<1>2. \A w \in Workers : Steady(req[w])
  BY IdleSteady DEF Init
<1> QED
  BY <1>1, <1>2, DrawAssumption DEF Completion, AllDecided

\* A step that writes no match row keeps it, as long as the worker goes on to
\* count, or some match is undecided.
LEMMA GoOn ==
  ASSUME TypeInv, Completion, NEW w \in Workers, NEW r,
         req' = [req EXCEPT ![w] = r], Steady(r), match' = match,
         tournament' = tournament, Concluding(req[w]) => (Concluding(r) \/ ~AllDecided)
  PROVE  Completion'
<1>1. \A v \in Workers : req'[v] = IF v = w THEN r ELSE req[v]
  BY DEF TypeInv, TypeOK
<1>2. \A v \in Workers : Steady(req'[v])
  BY <1>1 DEF Completion
<1>3. AllDecided' <=> AllDecided
  BY DEF AllDecided, Decided
<1>4. ASSUME AllDecided, tournament = "in_progress"
      PROVE  \E v \in Workers : Concluding(req'[v])
  BY <1>1, <1>4 DEF Completion
<1> QED
  BY <1>2, <1>3, <1>4 DEF Completion

\* A step that saves the tournament keeps it, for it is not saved in progress.
LEMMA EndTournament ==
  ASSUME TypeInv, Completion, NEW w \in Workers, NEW status, NEW r,
         SaveTournament(w, status, r), Steady(r), status # "in_progress"
  PROVE  Completion'
<1>1. \A v \in Workers : req'[v] = IF v = w THEN r ELSE req[v]
  BY DEF TypeInv, TypeOK, SaveTournament
<1> QED
  BY <1>1 DEF Completion, SaveTournament

\* A step that saves a match row keeps it, if the worker will count afterwards,
\* or was not going to and leaves the match undecided.
LEMMA StoreMatch ==
  ASSUME TypeInv, Completion, NEW w \in Workers, NEW m \in Matches, NEW row, NEW r,
         SaveMatchRow(w, m, row, r), Steady(r), Settled(row),
         Concluding(r) \/ (row.winner = None /\ ~Concluding(req[w]))
  PROVE  Completion'
<1>1. \A v \in Workers : req'[v] = IF v = w THEN r ELSE req[v]
  BY DEF TypeInv, TypeOK, SaveMatchRow
<1>2. \A v \in Workers : Steady(req'[v])
  BY <1>1 DEF Completion
<1>3. \A k \in Matches : match'[k] = match[k] \/ (k = m /\ match'[k] = row)
  BY DEF TypeInv, TypeOK, SaveMatchRow
<1>4. \A k \in Matches : Settled(match'[k])
  BY <1>3 DEF Completion
<1>5. tournament' = tournament
  BY DEF SaveMatchRow
<1>6. ASSUME AllDecided', tournament = "in_progress"
      PROVE  \E v \in Workers : Concluding(req'[v])
  <2>1. CASE Concluding(r)
    BY <1>1, <2>1
  <2>2. CASE row.winner = None /\ ~Concluding(req[w])
    <3>1. \A k \in Matches : match'[k] = match[k]
      BY <1>3, <1>6, <2>2 DEF AllDecided, Decided
    <3>2. AllDecided
      BY <1>6, <3>1 DEF AllDecided, Decided
    <3> QED
      BY <1>1, <1>6, <2>2, <3>2 DEF Completion
  <2> QED
    BY <2>1, <2>2
<1> QED
  BY <1>2, <1>4, <1>5, <1>6 DEF Completion

LEMMA RequestingCompletion ==
  ASSUME TypeInv, Completion, NEW w \in Workers, Requesting(w)
  PROVE  Completion'
<1>1. ~Concluding(req[w])
  BY IdleSteady DEF Requesting, BeginStatus, BeginMatchStatus, ReportResult, BeginResult, Begin
<1>2. ASSUME NEW target \in PlayStatuses, BeginStatus(w, target)
      PROVE  Completion'
  <2> DEFINE r == [Idle EXCEPT !.step = "save_tournament", !.status = target]
  <2>1. Steady(r)
    BY <1>2 DEF BeginStatus, Steady, Idle
  <2> QED
    BY <1>1, <1>2, <2>1, GoOn DEF BeginStatus, Begin
<1>3. ASSUME NEW m \in Matches, NEW target \in MatchStatuses, BeginMatchStatus(w, m, target)
      PROVE  Completion'
  <2> DEFINE row == [match[m] EXCEPT !.status = target]
             r   == [Idle EXCEPT !.step = "save_status", !.m = m, !.row = row]
  <2>1. match[m].winner = None
    BY <1>3 DEF BeginMatchStatus, canTransitionMatchStatus, Completion, Settled
  <2>2. row.winner = None
    BY <2>1 DEF TypeInv, TypeOK, MatchRows
  <2> HIDE DEF row
  <2>3. Steady(r)
    BY <2>2 DEF Steady, Idle
  <2> QED
    BY <1>1, <1>3, <2>3, GoOn DEF BeginMatchStatus, Begin, row
<1>4. ASSUME NEW m \in Matches, NEW p \in Participants, ReportResult(w, m, p)
      PROVE  Completion'
  <2> DEFINE r == [Idle EXCEPT !.step = "save_match", !.m = m, !.winner = p, !.row = match[m]]
  <2>1. Steady(r)
    BY DEF Steady, Idle
  <2> QED
    BY <1>1, <1>4, <2>1, GoOn DEF ReportResult, BeginResult, Begin
<1> QED
  BY <1>2, <1>3, <1>4 DEF Requesting

\* A removal takes winners away, so it decides no match.
LEMMA RemovingCompletion ==
  ASSUME TypeInv, Completion, NEW w \in Workers, NEW p \in Participants, RemoveParticipant(w, p)
  PROVE  Completion'
<1> DEFINE cleared(q) == IF q = p THEN None ELSE q
           row(m) == [match[m] EXCEPT !.p1 = cleared(@), !.p2 = cleared(@), !.winner = cleared(@)]
<1>1. /\ match' = [m \in Matches |-> row(m)]
      /\ req' = req /\ tournament' = tournament
  BY DEF RemoveParticipant
<1>2. \A m \in Matches : /\ row(m).status = match[m].status
                         /\ row(m).winner # None => match[m].winner # None
  BY DEF TypeInv, TypeOK, MatchRows
<1> HIDE DEF row
<1>3. \A m \in Matches : match'[m].status = match[m].status
                         /\ (match'[m].winner # None => match[m].winner # None)
  BY <1>1, <1>2
<1>4. AllDecided' => AllDecided
  BY <1>3 DEF AllDecided, Decided
<1> QED
  BY <1>1, <1>3, <1>4 DEF Completion, Settled

LEMMA WorkingCompletion ==
  ASSUME TypeInv, Completion, NEW w \in Workers, Working(w)
  PROVE  Completion'
<1> DEFINE r == req[w]
<1>0. /\ r \in Requests /\ r.m \in Matches \cup {0} /\ Aimed(r) /\ Steady(r)
      /\ r.row \in MatchRows /\ r.next \in MatchRows
  BY RequestFields DEF Completion
<1> HIDE DEF r
<1>1. CASE SaveStatus(w)
  BY <1>0, <1>1, IdleSteady, EndTournament DEF SaveStatus, Steady, r
<1>2. CASE SaveMatchStatus(w)
  <2>1. r.m \in Matches /\ r.row.winner = None /\ ~Concluding(r)
    BY <1>0, <1>2 DEF SaveMatchStatus, Aimed, Steady, Concluding, r
  <2> QED
    BY <1>2, <2>1, IdleSteady, StoreMatch DEF SaveMatchStatus, Settled, r
<1>3. CASE SaveResult(w)
  <2> DEFINE row    == [r.row EXCEPT !.winner = r.winner, !.status = "completed"]
             losers == Seated(row) \ {r.winner}
             next   == [r EXCEPT !.step = "find_loser", !.row = row, !.losers = losers]
  <2>1. r.m \in Matches
    BY <1>0, <1>3 DEF SaveResult, Aimed, ResultSteps, r
  <2>2. Settled(row)
    BY <1>0 DEF MatchRows, Settled
  <2> HIDE DEF row, losers
  <2>3. Steady(next) /\ Concluding(next)
    BY <1>0 DEF Requests, Steady, Concluding
  <2>4. CASE Storable(row)
    <3>1. SaveMatchRow(w, r.m, row, next)
      BY <1>3, <2>4 DEF SaveResult, r, row, losers
    <3> QED
      BY <2>1, <2>2, <2>3, <3>1, StoreMatch
  <2>5. CASE ~Storable(row)
    <3>1. Continue(w, Idle) /\ ~Concluding(r)
      BY <1>3, <2>5 DEF SaveResult, Concluding, r, row, losers
    <3> QED
      BY <3>1, IdleSteady, GoOn DEF Continue, r
  <2> QED
    BY <2>4, <2>5
<1>4. CASE FindLoser(w)
  <2> DEFINE p  == IF r.row.p1 \in r.losers THEN r.row.p1 ELSE r.row.p2
             r1 == [r EXCEPT !.step = "find_next"]
             r2 == [r EXCEPT !.step = "save_loser"]
             r3 == [r EXCEPT !.losers = @ \ {p}]
  <2>1. Continue(w, r1) \/ Continue(w, r2) \/ Continue(w, r3)
    BY <1>4 DEF FindLoser, r
  <2>2. r.step = "find_loser"
    BY <1>4 DEF FindLoser, r
  <2>3. /\ Steady(r1) /\ Concluding(r1)
        /\ Steady(r2) /\ Concluding(r2)
        /\ Steady(r3) /\ Concluding(r3)
    BY <1>0, <2>2 DEF Requests, Steady, Concluding
  <2> HIDE DEF r1, r2, r3
  <2> QED
    BY <2>1, <2>3, GoOn DEF Continue
<1>5. CASE SaveLoser(w)
  <2> DEFINE p  == IF r.row.p1 \in r.losers THEN r.row.p1 ELSE r.row.p2
             r1 == [r EXCEPT !.step = "find_loser", !.losers = @ \ {p}]
  <2>1. SaveEntry(w, p, "eliminated", r1)
    BY <1>5 DEF SaveLoser, r
  <2>2. Steady(r1) /\ Concluding(r1)
    BY <1>0 DEF Requests, Steady, Concluding
  <2> HIDE DEF r1
  <2> QED
    BY <2>1, <2>2, GoOn DEF SaveEntry
<1>6. CASE FindNext(w)
  <2> DEFINE next == Draw[r.m].next
             row  == Placed(match[next], r.winner)
             r1   == [r EXCEPT !.step = "find_loser_next"]
             r2   == [r EXCEPT !.step = "save_next", !.next = row]
  <2>1. IF next = 0 THEN Continue(w, r1) ELSE Continue(w, r2)
    BY <1>6 DEF FindNext, r
  <2>2. Steady(r1) /\ Concluding(r1)
    BY <1>0 DEF Requests, Steady, Concluding
  <2>3. ASSUME next # 0
        PROVE  Steady(r2) /\ Concluding(r2)
    <3>1. r.m \in Matches
      BY <1>0, <1>6 DEF FindNext, Aimed, ResultSteps, r
    <3>2. next \in Matches
      BY <2>3, <3>1, DrawAssumption DEF DrawnMatches
    <3>3. Settled(row)
      BY <3>2, PlacedSettled DEF Completion, TypeInv, TypeOK
    <3> HIDE DEF row
    <3> QED
      BY <1>0, <3>3 DEF Requests, Steady, Concluding
  <2> HIDE DEF r1, r2
  <2> QED
    BY <2>1, <2>2, <2>3, GoOn DEF Continue
<1>7. CASE SaveNext(w)
  <2> DEFINE r1 == [r EXCEPT !.step = "find_loser_next", !.next = EmptyRow]
  <2>1. r.m \in Matches /\ Draw[r.m].next \in Matches /\ Settled(r.next)
    BY <1>0, <1>7 DEF SaveNext, Aimed, ResultSteps, Steady, r
  <2>2. SaveMatchRow(w, Draw[r.m].next, r.next, r1)
    BY <1>7 DEF SaveNext, r
  <2>3. Steady(r1) /\ Concluding(r1)
    BY <1>0 DEF Requests, Steady, Concluding
  <2> HIDE DEF r1
  <2> QED
    BY <2>1, <2>2, <2>3, StoreMatch
<1>8. CASE FindLoserNext(w)
  <2> DEFINE next == Draw[r.m].loserNext
             p    == LoserOf(r.row)
             row  == Placed(match[next], p)
             r1   == [r EXCEPT !.step = "count"]
             r2   == [r EXCEPT !.step = "save_loser_next", !.next = row]
  <2>1. \/ Continue(w, r1)
        \/ next # 0 /\ Continue(w, r2)
    BY <1>8 DEF FindLoserNext, r
  <2>2. Steady(r1) /\ Concluding(r1)
    BY <1>0 DEF Requests, Steady, Concluding
  <2>3. ASSUME next # 0
        PROVE  Steady(r2) /\ Concluding(r2)
    <3>1. r.m \in Matches
      BY <1>0, <1>8 DEF FindLoserNext, Aimed, ResultSteps, r
    <3>2. next \in Matches
      BY <2>3, <3>1, DrawAssumption DEF DrawnMatches
    <3>3. Settled(row)
      BY <3>2, PlacedSettled DEF Completion, TypeInv, TypeOK
    <3> HIDE DEF row
    <3> QED
      BY <1>0, <3>3 DEF Requests, Steady, Concluding
  <2> HIDE DEF r1, r2
  <2> QED
    BY <2>1, <2>2, <2>3, GoOn DEF Continue
<1>9. CASE SaveLoserNext(w)
  <2> DEFINE r1 == [r EXCEPT !.step = "count", !.next = EmptyRow]
  <2>1. r.m \in Matches /\ Draw[r.m].loserNext \in Matches /\ Settled(r.next)
    BY <1>0, <1>9 DEF SaveLoserNext, Aimed, ResultSteps, Steady, r
  <2>2. SaveMatchRow(w, Draw[r.m].loserNext, r.next, r1)
    BY <1>9 DEF SaveLoserNext, r
  <2>3. Steady(r1) /\ Concluding(r1)
    BY <1>0 DEF Requests, Steady, Concluding
  <2> HIDE DEF r1
  <2> QED
    BY <2>1, <2>2, <2>3, StoreMatch
<1>10. CASE CountIncomplete(w)
  <2> DEFINE r1 == [r EXCEPT !.step = "save_completed"]
  <2>1. Steady(r1) /\ Concluding(r1)
    BY <1>0 DEF Requests, Steady, Concluding
  <2>2. IF AllCompleted THEN Continue(w, r1) ELSE Continue(w, Idle)
    BY <1>10 DEF CountIncomplete, r
  <2>3. ~AllCompleted => ~AllDecided
    BY DEF AllCompleted, AllDecided, Decided
  <2> HIDE DEF r1
  <2> QED
    BY <2>1, <2>2, <2>3, IdleSteady, GoOn DEF Continue
<1>11. CASE SaveCompleted(w)
  <2> DEFINE r1 == [r EXCEPT !.step = "find_winner"]
  <2>1. SaveTournament(w, "completed", r1)
    BY <1>11 DEF SaveCompleted, r
  <2>2. Steady(r1)
    BY <1>0 DEF Requests, Steady
  <2> HIDE DEF r1
  <2> QED
    BY <2>1, <2>2, EndTournament
<1>12. CASE FindWinner(w)
  <2> DEFINE r1 == [r EXCEPT !.step = "save_winner"]
  <2>1. Continue(w, r1) \/ Continue(w, Idle)
    BY <1>12 DEF FindWinner, r
  <2>2. Steady(r1) /\ ~Concluding(req[w])
    BY <1>0, <1>12 DEF Requests, Steady, FindWinner, Concluding
  <2> HIDE DEF r1
  <2> QED
    BY <2>1, <2>2, IdleSteady, GoOn DEF Continue
<1>13. CASE SaveWinner(w)
  <2>1. SaveEntry(w, r.winner, "winner", Idle) /\ ~Concluding(req[w])
    BY <1>13 DEF SaveWinner, Concluding, r
  <2> QED
    BY <2>1, IdleSteady, GoOn DEF SaveEntry
<1> QED
  BY <1>1, <1>2, <1>3, <1>4, <1>5, <1>6, <1>7, <1>8, <1>9, <1>10, <1>11, <1>12, <1>13
  DEF Working

LEMMA StepCompletion == TypeInv /\ Completion /\ [Next]_vars => Completion'
<1> SUFFICES ASSUME TypeInv, Completion, [Next]_vars PROVE Completion'
  OBVIOUS
<1>1. CASE Next
  BY <1>1, RequestingCompletion, WorkingCompletion, RemovingCompletion DEF Next, Removing
<1>2. CASE UNCHANGED vars
  BY <1>2 DEF vars, Completion, AllDecided, Decided
<1> QED
  BY <1>1, <1>2

\* No completion is lost: whatever results are applied at once, and whatever else
\* is saved in between, a tournament whose matches all have a result does not stay
\* in progress once the handlers are done (UpdateMatch before CountIncompleteMatches
\* in applyConfirmedResult).
THEOREM CompletionIsNotLost == Spec => []LastResultCompletes
<1>1. Completion => LastResultCompletes
  BY DEF Completion, LastResultCompletes, AllDecided, Concluding, ResultSteps
<1> QED
  BY InitType, StepType, InitCompletion, StepCompletion, <1>1, PTL DEF Spec

-----------------------------------------------------------------------------
(* Nobody advances, is eliminated or is crowned but by a saved result.       *)

\* Feeds, and what SlotProvenance asks of one row, for any results W and L.
FeedsBy(m, p, W, L) ==
  \/ p \in {Draw[m].p1, Draw[m].p2}
  \/ \E f \in Matches : Draw[f].next = m /\ <<f, p>> \in W
  \/ \E f \in Matches : Draw[f].loserNext = m /\ <<f, p>> \in L

Legit(m, row, W, L) ==
  /\ \A p \in Seated(row) : FeedsBy(m, p, W, L)
  /\ row.winner # None => <<m, row.winner>> \in W \/ row.winner = Draw[m].winner

Applying == ResultSteps \ {"save_match"}

\* The same of a request: the rows it is about to save, and the result it applies.
Given(r, W, L, e) ==
  /\ r.step \in {"save_status", "save_match"} => Legit(r.m, r.row, W, L)
  /\ r.step = "save_next" => Legit(Draw[r.m].next, r.next, W, L)
  /\ r.step = "save_loser_next" => Legit(Draw[r.m].loserNext, r.next, W, L)
  /\ r.step \in Applying => /\ <<r.m, r.winner>> \in W /\ r.row.winner = r.winner
                            /\ {r.m} \X (Seated(r.row) \ {r.winner}) \subseteq L
  /\ r.step \in {"find_loser", "save_loser"} => r.losers \subseteq Seated(r.row) \ {r.winner}
  /\ r.step = "save_loser" => r.losers # {}
  /\ r.step \in {"find_winner", "save_winner"} => e

\* SlotProvenance and StandingsEarned made inductive.
Provenance ==
  /\ \A m \in Matches : Legit(m, match[m], won, lost)
  /\ \A w \in Workers : Given(req[w], won, lost, everCompleted)
  /\ StandingsEarned

LEMMA IdleGiven == \A W, L, e : Given(Idle, W, L, e)
  BY DEF Given, Idle, Applying, ResultSteps

\* Results only accumulate, and what they justify stays justified.
LEMMA LegitGrows ==
  ASSUME NEW m, NEW row, NEW W, NEW L, NEW W1, NEW L1,
         W \subseteq W1, L \subseteq L1, Legit(m, row, W, L)
  PROVE  Legit(m, row, W1, L1)
  BY DEF Legit, FeedsBy

LEMMA GivenGrows ==
  ASSUME NEW r, NEW W, NEW L, NEW e, NEW W1, NEW L1, NEW e1,
         W \subseteq W1, L \subseteq L1, e => e1, Given(r, W, L, e)
  PROVE  Given(r, W1, L1, e1)
  BY LegitGrows DEF Given

\* Who takes the free slot must be fed there; nothing else changes but the status.
LEMMA PlacedLegit ==
  ASSUME NEW m, NEW row \in MatchRows, NEW p, NEW W, NEW L,
         Legit(m, row, W, L), FeedsBy(m, p, W, L)
  PROVE  Legit(m, Placed(row, p), W, L)
<1>1. /\ Seated(Placed(row, p)) \subseteq Seated(row) \cup {p}
      /\ Placed(row, p).winner = row.winner
  BY DEF Placed, MatchRows, Seated
<1> QED
  BY <1>1 DEF Legit

LEMMA InitProvenance == Init => Provenance
<1> SUFFICES ASSUME Init PROVE Provenance
  OBVIOUS
<1>1. \A m \in Matches : Legit(m, match[m], won, lost)
  BY DEF Init, Legit, FeedsBy, Row, Seated
<1>2. \A w \in Workers : Given(req[w], won, lost, everCompleted)
  BY IdleGiven DEF Init
<1>3. StandingsEarned
  BY DEF Init, StandingsEarned
<1> QED
  BY <1>1, <1>2, <1>3 DEF Provenance

\* A step that writes neither match rows nor entries keeps it.
LEMMA CarryOn ==
  ASSUME TypeInv, Provenance, NEW w \in Workers, NEW r,
         req' = [req EXCEPT ![w] = r], match' = match, entry' = entry,
         won' = won, lost' = lost, everCompleted => everCompleted',
         Given(r, won, lost, everCompleted')
  PROVE  Provenance'
<1>1. \A v \in Workers : req'[v] = IF v = w THEN r ELSE req[v]
  BY DEF TypeInv, TypeOK
<1>2. \A v \in Workers : Given(req'[v], won', lost', everCompleted')
  BY <1>1, GivenGrows DEF Provenance
<1>3. StandingsEarned'
  BY DEF Provenance, StandingsEarned
<1> QED
  BY <1>2, <1>3 DEF Provenance

\* So does saving a legitimate match row, with the result it comes from.
LEMMA StoreLegit ==
  ASSUME TypeInv, Provenance, NEW w \in Workers, NEW m \in Matches, NEW row, NEW r,
         SaveMatchRow(w, m, row, r), won \subseteq won', lost \subseteq lost',
         Legit(m, row, won', lost'), Given(r, won', lost', everCompleted)
  PROVE  Provenance'
<1>1. \A v \in Workers : req'[v] = IF v = w THEN r ELSE req[v]
  BY DEF TypeInv, TypeOK, SaveMatchRow
<1>2. entry' = entry /\ everCompleted' = everCompleted
  BY DEF SaveMatchRow
<1>3. \A v \in Workers : Given(req'[v], won', lost', everCompleted')
  BY <1>1, <1>2, GivenGrows DEF Provenance
<1>4. \A k \in Matches : match'[k] = match[k] \/ (k = m /\ match'[k] = row)
  BY DEF TypeInv, TypeOK, SaveMatchRow
<1>5. \A k \in Matches : Legit(k, match'[k], won', lost')
  BY <1>4, LegitGrows DEF Provenance
<1>6. StandingsEarned'
  BY <1>2 DEF Provenance, StandingsEarned
<1> QED
  BY <1>3, <1>5, <1>6 DEF Provenance

\* And marking an entry the way a saved result allows.
LEMMA Mark ==
  ASSUME TypeInv, Provenance, NEW w \in Workers, NEW p \in Participants, NEW status, NEW r,
         SaveEntry(w, p, status, r), Given(r, won, lost, everCompleted),
         status = "eliminated" => \E m \in Matches : <<m, p>> \in lost,
         status = "winner" => everCompleted /\ \E m \in Matches : <<m, p>> \in won
  PROVE  Provenance'
<1>1. \A v \in Workers : req'[v] = IF v = w THEN r ELSE req[v]
  BY DEF TypeInv, TypeOK, SaveEntry
<1>2. /\ match' = match /\ won' = won /\ lost' = lost /\ everCompleted' = everCompleted
  BY DEF SaveEntry
<1>3. \A q \in Participants : entry'[q] = IF q = p THEN status ELSE entry[q]
  BY DEF TypeInv, TypeOK, SaveEntry
<1>4. StandingsEarned'
  BY <1>2, <1>3 DEF Provenance, StandingsEarned
<1> QED
  BY <1>1, <1>2, <1>4 DEF Provenance

LEMMA RequestingProvenance ==
  ASSUME TypeInv, Provenance, NEW w \in Workers, Requesting(w)
  PROVE  Provenance'
<1>1. ASSUME NEW target \in PlayStatuses, BeginStatus(w, target)
      PROVE  Provenance'
  <2> DEFINE r == [Idle EXCEPT !.step = "save_tournament", !.status = target]
  <2>1. Given(r, won, lost, everCompleted')
    BY DEF Given, Idle, Applying, ResultSteps
  <2> QED
    BY <1>1, <2>1, CarryOn DEF BeginStatus, Begin
<1>2. ASSUME NEW m \in Matches, NEW target \in MatchStatuses, BeginMatchStatus(w, m, target)
      PROVE  Provenance'
  <2> DEFINE row == [match[m] EXCEPT !.status = target]
             r   == [Idle EXCEPT !.step = "save_status", !.m = m, !.row = row]
  <2>1. Seated(row) = Seated(match[m]) /\ row.winner = match[m].winner
    BY DEF TypeInv, TypeOK, MatchRows, Seated
  <2> HIDE DEF row
  <2>2. Legit(m, row, won, lost)
    BY <2>1 DEF Provenance, Legit
  <2>3. Given(r, won, lost, everCompleted')
    BY <2>2 DEF Given, Idle, Applying, ResultSteps
  <2> QED
    BY <1>2, <2>3, CarryOn DEF BeginMatchStatus, Begin, row
<1>3. ASSUME NEW m \in Matches, NEW p \in Participants, ReportResult(w, m, p)
      PROVE  Provenance'
  <2> DEFINE r == [Idle EXCEPT !.step = "save_match", !.m = m, !.winner = p, !.row = match[m]]
  <2>1. Given(r, won, lost, everCompleted')
    BY DEF Given, Idle, Applying, ResultSteps, Provenance
  <2> QED
    BY <1>3, <2>1, CarryOn DEF ReportResult, BeginResult, Begin
<1> QED
  BY <1>1, <1>2, <1>3 DEF Requesting

LEMMA RemovingProvenance ==
  ASSUME TypeInv, Provenance, NEW w \in Workers, NEW p \in Participants, RemoveParticipant(w, p)
  PROVE  Provenance'
<1> DEFINE cleared(q) == IF q = p THEN None ELSE q
           row(m) == [match[m] EXCEPT !.p1 = cleared(@), !.p2 = cleared(@), !.winner = cleared(@)]
<1>1. /\ match' = [m \in Matches |-> row(m)]
      /\ entry' = [entry EXCEPT ![p] = None]
      /\ req' = req /\ won' = won /\ lost' = lost /\ everCompleted' = everCompleted
  BY DEF RemoveParticipant
<1>2. \A m \in Matches : /\ Seated(row(m)) \subseteq Seated(match[m])
                         /\ row(m).winner # None => row(m).winner = match[m].winner
  BY DEF TypeInv, TypeOK, MatchRows, Seated
<1> HIDE DEF row
<1>3. \A m \in Matches : Legit(m, match'[m], won', lost')
  BY <1>1, <1>2 DEF Provenance, Legit
<1>4. \A q \in Participants : entry'[q] = entry[q] \/ entry'[q] = None
  BY <1>1 DEF TypeInv, TypeOK
<1> QED
  BY <1>1, <1>3, <1>4, NoneAssumption DEF Provenance, StandingsEarned, EntryStatuses

LEMMA WorkingProvenance ==
  ASSUME TypeInv, Provenance, NEW w \in Workers, Working(w)
  PROVE  Provenance'
<1> DEFINE r == req[w]
<1>0. /\ r \in Requests /\ Aimed(r) /\ r.row \in MatchRows /\ r.next \in MatchRows
      /\ r.losers \subseteq Participants
      /\ Given(r, won, lost, everCompleted)
  BY RequestFields DEF Provenance
<1> HIDE DEF r
<1>1. CASE SaveStatus(w)
  BY <1>1, IdleGiven, CarryOn DEF SaveStatus, SaveTournament
<1>2. CASE SaveMatchStatus(w)
  <2>1. r.m \in Matches /\ Legit(r.m, r.row, won, lost)
    BY <1>0, <1>2 DEF SaveMatchStatus, Aimed, Given, r
  <2>2. SaveMatchRow(w, r.m, r.row, Idle) /\ won' = won /\ lost' = lost
    BY <1>2 DEF SaveMatchStatus, r
  <2> QED
    BY <2>1, <2>2, IdleGiven, StoreLegit
<1>3. CASE SaveResult(w)
  <2> DEFINE row    == [r.row EXCEPT !.winner = r.winner, !.status = "completed"]
             losers == Seated(row) \ {r.winner}
             next   == [r EXCEPT !.step = "find_loser", !.row = row, !.losers = losers]
  <2>1. /\ r.m \in Matches /\ r.winner \in Participants
        /\ Legit(r.m, r.row, won, lost)
    BY <1>0, <1>3 DEF SaveResult, Aimed, ResultSteps, Given, r
  <2>2. row.winner = r.winner /\ Seated(row) = Seated(r.row)
    BY <1>0 DEF MatchRows, Seated
  <2> HIDE DEF row
  <2>3. CASE Storable(row)
    <3>1. /\ SaveMatchRow(w, r.m, row, next)
          /\ won' = won \cup {<<r.m, r.winner>>}
          /\ lost' = lost \cup ({r.m} \X losers)
      BY <1>3, <2>3 DEF SaveResult, r, row
    <3>2. Legit(r.m, r.row, won', lost')
      BY <2>1, <3>1, LegitGrows
    <3>3. Legit(r.m, row, won', lost')
      BY <2>2, <3>1, <3>2 DEF Legit
    <3>4. Given(next, won', lost', everCompleted)
      <4> HIDE DEF losers
      <4>1. /\ next.step = "find_loser" /\ next.m = r.m /\ next.winner = r.winner
            /\ next.row = row /\ next.losers = losers
        BY <1>0 DEF Requests
      <4> HIDE DEF next
      <4> QED
        BY <2>2, <3>1, <4>1 DEF Given, Applying, ResultSteps, losers
    <3> HIDE DEF next
    <3> QED
      BY <2>1, <3>1, <3>3, <3>4, StoreLegit
  <2>4. CASE ~Storable(row)
    <3>1. Continue(w, Idle)
      BY <1>3, <2>4 DEF SaveResult, r, row
    <3> QED
      BY <3>1, IdleGiven, CarryOn DEF Continue
  <2> QED
    BY <2>3, <2>4
<1>4. CASE FindLoser(w)
  <2> DEFINE p  == IF r.row.p1 \in r.losers THEN r.row.p1 ELSE r.row.p2
             r1 == [r EXCEPT !.step = "find_next"]
             r2 == [r EXCEPT !.step = "save_loser"]
             r3 == [r EXCEPT !.losers = @ \ {p}]
  <2>1. \/ Continue(w, r1)
        \/ r.losers # {} /\ Continue(w, r2)
        \/ Continue(w, r3)
    BY <1>4 DEF FindLoser, r
  <2>2. r.step = "find_loser"
    BY <1>4 DEF FindLoser, r
  <2>3. /\ Given(r1, won, lost, everCompleted)
        /\ r.losers # {} => Given(r2, won, lost, everCompleted)
        /\ Given(r3, won, lost, everCompleted)
    <3>1. Given(r1, won, lost, everCompleted)
      BY <1>0, <2>2 DEF Requests, Given, Applying, ResultSteps
    <3>2. r.losers # {} => Given(r2, won, lost, everCompleted)
      BY <1>0, <2>2 DEF Requests, Given, Applying, ResultSteps
    <3>3. Given(r3, won, lost, everCompleted)
      <4>1. /\ r3.step = "find_loser" /\ r3.m = r.m /\ r3.winner = r.winner
            /\ r3.row = r.row /\ r3.losers \subseteq r.losers
        BY <1>0, <2>2 DEF Requests
      <4> HIDE DEF r3
      <4> QED
        BY <1>0, <2>2, <4>1 DEF Given, Applying, ResultSteps
    <3> QED
      BY <3>1, <3>2, <3>3
  <2> HIDE DEF r1, r2, r3
  <2> QED
    BY <2>1, <2>3, CarryOn DEF Continue
<1>5. CASE SaveLoser(w)
  <2> DEFINE p  == IF r.row.p1 \in r.losers THEN r.row.p1 ELSE r.row.p2
             r1 == [r EXCEPT !.step = "find_loser", !.losers = @ \ {p}]
  <2>1. SaveEntry(w, p, "eliminated", r1) /\ r.step = "save_loser"
    BY <1>5 DEF SaveLoser, r
  <2>2. /\ r.m \in Matches /\ r.losers # {}
        /\ r.losers \subseteq Seated(r.row) \ {r.winner}
        /\ {r.m} \X (Seated(r.row) \ {r.winner}) \subseteq lost
    BY <1>0, <2>1 DEF Aimed, ResultSteps, Applying, Given
  <2>3. p \in r.losers
    BY <2>2 DEF Seated
  <2>4. Given(r1, won, lost, everCompleted)
    <3>1. /\ r1.step = "find_loser" /\ r1.m = r.m /\ r1.winner = r.winner
          /\ r1.row = r.row /\ r1.losers \subseteq r.losers
      BY <1>0 DEF Requests
    <3> HIDE DEF r1
    <3> QED
      BY <1>0, <2>1, <3>1 DEF Given, Applying, ResultSteps
  <2>5. p \in Participants /\ <<r.m, p>> \in lost
    BY <1>0, <2>2, <2>3
  <2> HIDE DEF r1, p
  <2> QED
    BY <2>1, <2>2, <2>4, <2>5, Mark
<1>6. CASE FindNext(w)
  <2> DEFINE next == Draw[r.m].next
             row  == Placed(match[next], r.winner)
             r1   == [r EXCEPT !.step = "find_loser_next"]
             r2   == [r EXCEPT !.step = "save_next", !.next = row]
  <2>1. r.step = "find_next" /\ IF next = 0 THEN Continue(w, r1) ELSE Continue(w, r2)
    BY <1>6 DEF FindNext, r
  <2>2. Given(r1, won, lost, everCompleted)
    BY <1>0, <2>1 DEF Requests, Given, Applying, ResultSteps
  <2>3. ASSUME next # 0
        PROVE  Given(r2, won, lost, everCompleted)
    <3>1. r.m \in Matches /\ <<r.m, r.winner>> \in won
      BY <1>0, <2>1 DEF Aimed, ResultSteps, Given, Applying
    <3>2. next \in Matches
      BY <2>3, <3>1, DrawAssumption DEF DrawnMatches
    <3>3. FeedsBy(next, r.winner, won, lost)
      BY <3>1 DEF FeedsBy
    <3>4. Legit(next, row, won, lost)
      BY <3>2, <3>3, PlacedLegit DEF Provenance, TypeInv, TypeOK
    <3> HIDE DEF row
    <3>5. /\ r2.step = "save_next" /\ r2.m = r.m /\ r2.winner = r.winner
          /\ r2.row = r.row /\ r2.next = row
      BY <1>0 DEF Requests
    <3> HIDE DEF r2
    <3> QED
      BY <1>0, <2>1, <3>4, <3>5 DEF Given, Applying, ResultSteps
  <2> HIDE DEF r1, r2
  <2> QED
    BY <2>1, <2>2, <2>3, CarryOn DEF Continue
<1>7. CASE SaveNext(w)
  <2> DEFINE r1 == [r EXCEPT !.step = "find_loser_next", !.next = EmptyRow]
  <2>1. r.step = "save_next" /\ SaveMatchRow(w, Draw[r.m].next, r.next, r1) /\ won' = won /\ lost' = lost
    BY <1>7 DEF SaveNext, r
  <2>2. Draw[r.m].next \in Matches /\ Legit(Draw[r.m].next, r.next, won, lost)
    BY <1>0, <2>1 DEF Aimed, Given
  <2>3. Given(r1, won, lost, everCompleted)
    BY <1>0, <2>1 DEF Requests, Given, Applying, ResultSteps
  <2> HIDE DEF r1
  <2> QED
    BY <2>1, <2>2, <2>3, StoreLegit
<1>8. CASE FindLoserNext(w)
  <2> DEFINE next == Draw[r.m].loserNext
             p    == LoserOf(r.row)
             row  == Placed(match[next], p)
             r1   == [r EXCEPT !.step = "count"]
             r2   == [r EXCEPT !.step = "save_loser_next", !.next = row]
  <2>1. /\ r.step = "find_loser_next"
        /\ \/ Continue(w, r1)
           \/ next # 0 /\ p # None /\ Continue(w, r2)
    BY <1>8 DEF FindLoserNext, r
  <2>2. Given(r1, won, lost, everCompleted)
    BY <1>0, <2>1 DEF Requests, Given, Applying, ResultSteps
  <2>3. ASSUME next # 0, p # None
        PROVE  Given(r2, won, lost, everCompleted)
    <3>1. /\ r.m \in Matches /\ r.row.winner = r.winner
          /\ {r.m} \X (Seated(r.row) \ {r.winner}) \subseteq lost
      BY <1>0, <2>1 DEF Aimed, ResultSteps, Given, Applying
    <3>2. next \in Matches
      BY <2>3, <3>1, DrawAssumption DEF DrawnMatches
    <3>3. p \in Seated(r.row) \ {r.row.winner}
      BY <2>3 DEF LoserOf, Seated
    <3>4. FeedsBy(next, p, won, lost)
      <4>1. <<r.m, p>> \in lost
        BY <3>1, <3>3
      <4> QED
        BY <3>1, <4>1 DEF FeedsBy
    <3>5. Legit(next, row, won, lost)
      BY <3>2, <3>4, PlacedLegit DEF Provenance, TypeInv, TypeOK
    <3> HIDE DEF row
    <3>6. /\ r2.step = "save_loser_next" /\ r2.m = r.m /\ r2.winner = r.winner
          /\ r2.row = r.row /\ r2.next = row
      BY <1>0 DEF Requests
    <3> HIDE DEF r2
    <3> QED
      BY <1>0, <2>1, <3>5, <3>6 DEF Given, Applying, ResultSteps
  <2> HIDE DEF r1, r2
  <2> QED
    BY <2>1, <2>2, <2>3, CarryOn DEF Continue
<1>9. CASE SaveLoserNext(w)
  <2> DEFINE r1 == [r EXCEPT !.step = "count", !.next = EmptyRow]
  <2>1. r.step = "save_loser_next" /\ SaveMatchRow(w, Draw[r.m].loserNext, r.next, r1) /\ won' = won /\ lost' = lost
    BY <1>9 DEF SaveLoserNext, r
  <2>2. Draw[r.m].loserNext \in Matches /\ Legit(Draw[r.m].loserNext, r.next, won, lost)
    BY <1>0, <2>1 DEF Aimed, Given
  <2>3. Given(r1, won, lost, everCompleted)
    BY <1>0, <2>1 DEF Requests, Given, Applying, ResultSteps
  <2> HIDE DEF r1
  <2> QED
    BY <2>1, <2>2, <2>3, StoreLegit
<1>10. CASE CountIncomplete(w)
  <2> DEFINE r1 == [r EXCEPT !.step = "save_completed"]
  <2>1. /\ r.step = "count"
        /\ Continue(w, r1) \/ Continue(w, Idle)
    BY <1>10 DEF CountIncomplete, r
  <2>2. Given(r1, won, lost, everCompleted)
    BY <1>0, <2>1 DEF Requests, Given, Applying, ResultSteps
  <2> HIDE DEF r1
  <2> QED
    BY <2>1, <2>2, IdleGiven, CarryOn DEF Continue
<1>11. CASE SaveCompleted(w)
  <2> DEFINE r1 == [r EXCEPT !.step = "find_winner"]
  <2>1. r.step = "save_completed" /\ SaveTournament(w, "completed", r1)
    BY <1>11 DEF SaveCompleted, r
  <2>2. everCompleted'
    BY <2>1 DEF SaveTournament
  <2>3. Given(r1, won, lost, everCompleted')
    BY <1>0, <2>1, <2>2 DEF Requests, Given, Applying, ResultSteps
  <2> HIDE DEF r1
  <2> QED
    BY <2>1, <2>2, <2>3, CarryOn DEF SaveTournament
<1>12. CASE FindWinner(w)
  <2> DEFINE r1 == [r EXCEPT !.step = "save_winner"]
  <2>1. /\ r.step = "find_winner"
        /\ Continue(w, r1) \/ Continue(w, Idle)
    BY <1>12 DEF FindWinner, r
  <2>2. Given(r1, won, lost, everCompleted)
    BY <1>0, <2>1 DEF Requests, Given, Applying, ResultSteps
  <2> HIDE DEF r1
  <2> QED
    BY <2>1, <2>2, IdleGiven, CarryOn DEF Continue
<1>13. CASE SaveWinner(w)
  <2>1. r.step = "save_winner" /\ SaveEntry(w, r.winner, "winner", Idle)
    BY <1>13 DEF SaveWinner, r
  <2>2. /\ everCompleted /\ r.m \in Matches /\ r.winner \in Participants
        /\ <<r.m, r.winner>> \in won
    BY <1>0, <2>1 DEF Aimed, ResultSteps, Given, Applying
  <2>3. \E m \in Matches : <<m, r.winner>> \in won
    BY <2>2
  <2>4. Given(Idle, won, lost, everCompleted)
    BY IdleGiven
  <2>5. "winner" # "eliminated"
    OBVIOUS
  <2> QED
    BY <2>1, <2>2, <2>3, <2>4, <2>5, Mark
<1> QED
  BY <1>1, <1>2, <1>3, <1>4, <1>5, <1>6, <1>7, <1>8, <1>9, <1>10, <1>11, <1>12, <1>13
  DEF Working

LEMMA StepProvenance == TypeInv /\ Provenance /\ [Next]_vars => Provenance'
<1> SUFFICES ASSUME TypeInv, Provenance, [Next]_vars PROVE Provenance'
  OBVIOUS
<1>1. CASE Next
  BY <1>1, RequestingProvenance, WorkingProvenance, RemovingProvenance DEF Next, Removing
<1>2. CASE UNCHANGED vars
  BY <1>2 DEF vars, Provenance, StandingsEarned
<1> QED
  BY <1>1, <1>2

\* The bracket tells no lies: at any moment everybody seated in a match was drawn
\* there or sent there by a saved result of a match that feeds it, and every winner
\* comes from a saved result (the slot updates of applyConfirmedResult).
THEOREM BracketIsSound == Spec => []SlotProvenance
<1>1. Provenance => SlotProvenance
  BY DEF Provenance, SlotProvenance, Legit, FeedsBy, Feeds
<1> QED
  BY InitType, StepType, InitProvenance, StepProvenance, <1>1, PTL DEF Spec

\* Nobody is marked eliminated or winner but by a saved result (the participant
\* updates of applyConfirmedResult).
THEOREM StandingsAreEarned == Spec => []StandingsEarned
<1>1. Provenance => StandingsEarned
  BY DEF Provenance
<1> QED
  BY InitType, StepType, InitProvenance, StepProvenance, <1>1, PTL DEF Spec

=============================================================================
