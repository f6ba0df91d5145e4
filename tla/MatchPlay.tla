------------------------------ MODULE MatchPlay ------------------------------
(***************************************************************************)
(* A tournament from its start on: reporting and overriding match results, *)
(* moving match statuses by hand, advancing winners and losers through the *)
(* bracket, and completing or cancelling the tournament.                   *)
(*                                                                         *)
(* As in Registration a request is served by a worker, one database        *)
(* statement per step, and every update saves the whole row the handler    *)
(* read.  The links of a match never change, so they stay in Draw; scores, *)
(* timestamps, ranks and the reports table, which no handler reads back    *)
(* into play, are left out.  A start that is still in flight, and seeds    *)
(* edited after a cancellation, are outside this module.                   *)
(***************************************************************************)
EXTENDS Integers

CONSTANTS
  Participants,     \* the participants the bracket was drawn among
  Matches,          \* ids of the match rows, non-zero
  Draw,             \* the bracket as generated: slots, winner, status, next, loserNext
  Workers,          \* goroutines serving requests
  OutsideWinners,   \* bound: may a report name a participant not seated in the match
  MaxRequests,      \* bound: requests that may be made, those of a fair host aside
  None              \* NULL

MatchStatuses == {"pending", "ready", "in_progress", "completed", "bye"}
Slots == Participants \cup {None}
MatchRows == [p1 : Slots, p2 : Slots, winner : Slots, status : MatchStatuses]
DrawnMatches == [p1 : Slots, p2 : Slots, winner : Slots, status : MatchStatuses,
                 next : Matches \cup {0}, loserNext : Matches \cup {0}]

\* What generateBracket gives: a match at least, and a winner only of a bye.
ASSUME DrawAssumption ==
  /\ Matches # {}
  /\ Draw \in [Matches -> DrawnMatches]
  /\ \A m \in Matches : Draw[m].winner # None => Draw[m].status = "bye"

PlayStatuses == {"in_progress", "completed", "cancelled"}
EntryStatuses == {"checked_in", "eliminated", "winner"}

ASSUME NoneAssumption ==
  None \notin Participants \cup EntryStatuses /\ 0 \notin Matches /\ MaxRequests \in Nat

ResultSteps == {"save_match", "find_loser", "save_loser", "find_next", "save_next",
                "find_loser_next", "save_loser_next", "count", "save_completed",
                "find_winner", "save_winner"}
Steps == {"idle", "save_status", "save_tournament"} \cup ResultSteps

VARIABLES
  tournament,  \* the status of the tournaments row
  entry,       \* the tournament_participants rows by status, None once removed
  match,       \* the tournament_matches rows
  req,         \* the request each worker serves, and the rows it holds
  made,        \* how many bounded requests were made
  won, lost,   \* history: <<match, participant>> of every result saved
  everCompleted  \* history: was the tournament ever saved as completed

vars == <<tournament, entry, match, req, made, won, lost, everCompleted>>

Row(d) == [p1 |-> d.p1, p2 |-> d.p2, winner |-> d.winner, status |-> d.status]
EmptyRow == [p1 |-> None, p2 |-> None, winner |-> None, status |-> "pending"]

Idle == [step |-> "idle", m |-> 0, row |-> EmptyRow, winner |-> None,
         losers |-> {}, next |-> EmptyRow, status |-> "in_progress"]

Requests == [step : Steps, m : Matches \cup {0}, row : MatchRows, winner : Slots,
             losers : SUBSET Participants, next : MatchRows, status : PlayStatuses]

Present == {p \in Participants : entry[p] # None}

Seated(row) == {row.p1, row.p2} \ {None}

\* The foreign keys of a match row.
Storable(row) == Seated(row) \cup ({row.winner} \ {None}) \subseteq Present

-----------------------------------------------------------------------------
Init ==
  /\ tournament = "in_progress"
  /\ entry = [p \in Participants |-> "checked_in"]
  /\ match = [m \in Matches |-> Row(Draw[m])]
  /\ req = [w \in Workers |-> Idle]
  /\ made = 0
  /\ won = {}
  /\ lost = {}
  /\ everCompleted = FALSE

Begin(w, r) ==
  /\ req[w] = Idle
  /\ req' = [req EXCEPT ![w] = r]
  /\ UNCHANGED <<tournament, entry, match, won, lost, everCompleted>>

Bounded == made < MaxRequests /\ made' = made + 1

\* The worker takes its next step without writing to the database.
Continue(w, r) ==
  /\ req' = [req EXCEPT ![w] = r]
  /\ UNCHANGED <<tournament, entry, match, made, won, lost, everCompleted>>

\* Save of a match row, given up when a foreign key fails, and what follows.
SaveMatchRow(w, m, row, r) ==
  /\ match' = IF Storable(row) THEN [match EXCEPT ![m] = row] ELSE match
  /\ req' = [req EXCEPT ![w] = r]
  /\ UNCHANGED <<tournament, entry, made, everCompleted>>

SaveEntry(w, p, status, r) ==
  /\ entry' = [entry EXCEPT ![p] = status]
  /\ req' = [req EXCEPT ![w] = r]
  /\ UNCHANGED <<tournament, match, made, won, lost, everCompleted>>

SaveTournament(w, status, r) ==
  /\ tournament' = status
  /\ everCompleted' = (everCompleted \/ status = "completed")
  /\ req' = [req EXCEPT ![w] = r]
  /\ UNCHANGED <<entry, match, made, won, lost>>

-----------------------------------------------------------------------------
(* UpdateTournamentStatus, RemoveParticipant and UpdateMatchStatus.        *)

BeginStatus(w, target) ==
  /\ \/ target = "cancelled" /\ tournament # "completed"
     \/ target = "completed" /\ tournament = "in_progress"
  /\ Bounded
  /\ Begin(w, [Idle EXCEPT !.step = "save_tournament", !.status = target])

SaveStatus(w) ==
  /\ req[w].step = "save_tournament"
  /\ SaveTournament(w, req[w].status, Idle)

\* ON DELETE SET NULL empties the slots that name the participant.
RemoveParticipant(w, p) ==
  LET cleared(q) == IF q = p THEN None ELSE q
  IN  /\ req[w] = Idle
      /\ p \in Present
      /\ Bounded
      /\ entry' = [entry EXCEPT ![p] = None]
      /\ match' = [m \in Matches |-> [match[m] EXCEPT !.p1 = cleared(@), !.p2 = cleared(@),
                                                      !.winner = cleared(@)]]
      /\ UNCHANGED <<tournament, req, won, lost, everCompleted>>

canTransitionMatchStatus(current, target) ==
  <<current, target>> \in {<<"pending", "ready">>, <<"ready", "in_progress">>,
                           <<"in_progress", "completed">>}

BeginMatchStatus(w, m, target) ==
  /\ canTransitionMatchStatus(match[m].status, target)
  /\ Bounded
  /\ Begin(w, [Idle EXCEPT !.step = "save_status", !.m = m,
                           !.row = [match[m] EXCEPT !.status = target]])

SaveMatchStatus(w) ==
  /\ req[w].step = "save_status"
  /\ SaveMatchRow(w, req[w].m, req[w].row, Idle)
  /\ UNCHANGED <<won, lost>>

-----------------------------------------------------------------------------
(* ReportMatchResult by the creator and OverrideMatchResult: nothing is    *)
(* asked of the tournament, the match or the winner but that they exist.   *)

BeginResult(w, m, p) ==
  Begin(w, [Idle EXCEPT !.step = "save_match", !.m = m, !.winner = p, !.row = match[m]])

ReportResult(w, m, p) ==
  /\ p \in Present
  /\ OutsideWinners \/ p \in Seated(match[m])
  /\ Bounded
  /\ BeginResult(w, m, p)

Decided(m) == match[m].status = "completed" /\ match[m].winner # None

\* A host who reports each match that has someone seated and no result.
HostReports(w, m, p) ==
  /\ ~Decided(m)
  /\ p \in Seated(match[m])
  /\ BeginResult(w, m, p)
  /\ made' = made

-----------------------------------------------------------------------------
(* applyConfirmedResult.                                                   *)

SaveResult(w) ==
  LET r      == req[w]
      row    == [r.row EXCEPT !.winner = r.winner, !.status = "completed"]
      losers == Seated(row) \ {r.winner}
  IN  /\ r.step = "save_match"
      /\ IF Storable(row)
           THEN /\ SaveMatchRow(w, r.m, row, [r EXCEPT !.step = "find_loser", !.row = row,
                                                       !.losers = losers])
                /\ won' = won \cup {<<r.m, r.winner>>}
                /\ lost' = lost \cup ({r.m} \X losers)
           ELSE Continue(w, Idle)

\* The participants of the match other than the winner, the first slot first.
FindLoser(w) ==
  LET r == req[w]
      p == IF r.row.p1 \in r.losers THEN r.row.p1 ELSE r.row.p2
  IN  /\ r.step = "find_loser"
      /\ IF r.losers = {} THEN Continue(w, [r EXCEPT !.step = "find_next"])
         ELSE IF p \in Present THEN Continue(w, [r EXCEPT !.step = "save_loser"])
         ELSE Continue(w, [r EXCEPT !.losers = @ \ {p}])

\* Mutant: the first slot is taken for the loser.
SaveFirstSlotAsLoser(w) ==
  LET r == req[w]
  IN  /\ r.step = "save_loser"
      /\ r.row.p1 # None
      /\ SaveEntry(w, r.row.p1, "eliminated", [r EXCEPT !.step = "find_next", !.losers = {}])

\* Save inserts the row again if it was removed in between.
SaveLoser(w) ==
  LET r == req[w]
      p == IF r.row.p1 \in r.losers THEN r.row.p1 ELSE r.row.p2
  IN  /\ r.step = "save_loser"
      /\ SaveEntry(w, p, "eliminated", [r EXCEPT !.step = "find_loser", !.losers = @ \ {p}])

\* The first free slot takes the participant; two participants make it ready.
Placed(row, p) ==
  LET filled == IF row.p1 = None THEN [row EXCEPT !.p1 = p]
                ELSE IF row.p2 = None THEN [row EXCEPT !.p2 = p]
                ELSE row
      both   == filled.p1 # None /\ filled.p2 # None
  IN  IF both /\ row.status = "pending" THEN [filled EXCEPT !.status = "ready"] ELSE filled

\* Mutant: the first slot advances instead of the winner.
FindNextForFirstSlot(w) ==
  LET r    == req[w]
      next == Draw[r.m].next
  IN  /\ r.step = "find_next"
      /\ Continue(w, IF next = 0
                       THEN [r EXCEPT !.step = "find_loser_next"]
                       ELSE [r EXCEPT !.step = "save_next", !.next = Placed(match[next], r.row.p1)])

\* Mutant: the handler returns where there is no next match.
FindNextOrReturn(w) ==
  LET r    == req[w]
      next == Draw[r.m].next
  IN  /\ r.step = "find_next"
      /\ Continue(w, IF next = 0
                       THEN Idle
                       ELSE [r EXCEPT !.step = "save_next", !.next = Placed(match[next], r.winner)])

FindNext(w) ==
  LET r    == req[w]
      next == Draw[r.m].next
  IN  /\ r.step = "find_next"
      /\ Continue(w, IF next = 0
                       THEN [r EXCEPT !.step = "find_loser_next"]
                       ELSE [r EXCEPT !.step = "save_next", !.next = Placed(match[next], r.winner)])

SaveNext(w) ==
  /\ req[w].step = "save_next"
  /\ SaveMatchRow(w, Draw[req[w].m].next, req[w].next,
                  [req[w] EXCEPT !.step = "find_loser_next", !.next = EmptyRow])
  /\ UNCHANGED <<won, lost>>

\* The participant of the second slot, if both differ from the winner.
LoserOf(row) == IF row.p2 # None /\ row.p2 # row.winner THEN row.p2
                ELSE IF row.p1 # row.winner THEN row.p1 ELSE None

FindLoserNext(w) ==
  LET r    == req[w]
      next == Draw[r.m].loserNext
      p    == LoserOf(r.row)
  IN  /\ r.step = "find_loser_next"
      /\ Continue(w, IF next = 0 \/ p = None
                       THEN [r EXCEPT !.step = "count"]
                       ELSE [r EXCEPT !.step = "save_loser_next", !.next = Placed(match[next], p)])

SaveLoserNext(w) ==
  /\ req[w].step = "save_loser_next"
  /\ SaveMatchRow(w, Draw[req[w].m].loserNext, req[w].next,
                  [req[w] EXCEPT !.step = "count", !.next = EmptyRow])
  /\ UNCHANGED <<won, lost>>

\* CountIncompleteMatches = 0
AllCompleted == \A m \in Matches : match[m].status = "completed"

CountIncomplete(w) ==
  /\ req[w].step = "count"
  /\ Continue(w, IF AllCompleted THEN [req[w] EXCEPT !.step = "save_completed"] ELSE Idle)

\* The row the handler read at its beginning, now completed.
SaveCompleted(w) ==
  /\ req[w].step = "save_completed"
  /\ SaveTournament(w, "completed", [req[w] EXCEPT !.step = "find_winner"])

FindWinner(w) ==
  /\ req[w].step = "find_winner"
  /\ Continue(w, IF req[w].winner \in Present THEN [req[w] EXCEPT !.step = "save_winner"] ELSE Idle)

SaveWinner(w) ==
  /\ req[w].step = "save_winner"
  /\ SaveEntry(w, req[w].winner, "winner", Idle)

-----------------------------------------------------------------------------
Requesting(w) ==
  \/ \E target \in PlayStatuses : BeginStatus(w, target)
  \/ \E m \in Matches, target \in MatchStatuses : BeginMatchStatus(w, m, target)
  \/ \E m \in Matches, p \in Participants : ReportResult(w, m, p)

Hosting(m) == \E w \in Workers, p \in Participants : HostReports(w, m, p)

Working(w) ==
  \/ SaveStatus(w) \/ SaveMatchStatus(w)
  \/ SaveResult(w) \/ FindLoser(w) \/ SaveLoser(w) \/ FindNext(w) \/ SaveNext(w)
  \/ FindLoserNext(w) \/ SaveLoserNext(w)
  \/ CountIncomplete(w) \/ SaveCompleted(w) \/ FindWinner(w) \/ SaveWinner(w)

Removing(w) == \E p \in Participants : RemoveParticipant(w, p)

Next == \E w \in Workers : Requesting(w) \/ Working(w) \/ Removing(w)

Spec == Init /\ [][Next]_vars

\* Nobody is removed, the server goes on with what it accepted, and a host
\* keeps reporting each match until its report is served.
FairPlay ==
  /\ Init
  /\ [][(\E m \in Matches : Hosting(m)) \/ \E w \in Workers : Requesting(w) \/ Working(w)]_vars
  /\ \A w \in Workers : WF_vars(Working(w))
  /\ \A m \in Matches : SF_vars(Hosting(m))

-----------------------------------------------------------------------------
TypeOK ==
  /\ tournament \in PlayStatuses
  /\ entry \in [Participants -> EntryStatuses \cup {None}]
  /\ match \in [Matches -> MatchRows]
  /\ req \in [Workers -> Requests]
  /\ made \in Nat
  /\ won \subseteq Matches \X Participants
  /\ lost \subseteq Matches \X Participants
  /\ everCompleted \in BOOLEAN

\* p may sit in match m: it was drawn there, or a result of a match that feeds m
\* sent it there, as the winner or as the loser.
Feeds(m, p) ==
  \/ p \in {Draw[m].p1, Draw[m].p2}
  \/ \E f \in Matches : Draw[f].next = m /\ <<f, p>> \in won
  \/ \E f \in Matches : Draw[f].loserNext = m /\ <<f, p>> \in lost

\* Nobody gets into a match, or is named its winner, but through a result that was
\* saved: stale saves of whole rows can undo an advancement, never invent one.
SlotProvenance ==
  \A m \in Matches :
    /\ \A p \in Seated(match[m]) : Feeds(m, p)
    /\ match[m].winner # None =>
         <<m, match[m].winner>> \in won \/ match[m].winner = Draw[m].winner

\* A participant is eliminated only by a result that was saved, and crowned only by
\* the result after which the tournament was completed.
StandingsEarned ==
  \A p \in Participants :
    /\ entry[p] = "eliminated" => \E m \in Matches : <<m, p>> \in lost
    /\ entry[p] = "winner" => everCompleted /\ \E m \in Matches : <<m, p>> \in won

\* Once every match has a result and no result is being applied, the tournament is
\* over: the match is saved before the incomplete ones are counted, so of two
\* results applied at once at least the later save sees none left.
LastResultCompletes ==
  (\A m \in Matches : Decided(m)) /\ (\A w \in Workers : req[w].step \notin ResultSteps)
    => tournament # "in_progress"

\* A tournament in which nobody is removed is completed, whatever else its managers
\* do, as long as a host reports each match in which somebody is seated.
Finishes == <>(tournament = "completed")
=============================================================================
