-------------------------- MODULE BracketGeneration --------------------------
(***************************************************************************)
(* generateBracket as a transition: the checked-in participants the        *)
(* repository lists, in their database order, become the match rows of     *)
(* the tournament.  A generation replaces the bracket an earlier one left. *)
(***************************************************************************)
EXTENDS Bracket

CONSTANTS
  MaxEntrants,  \* bound: participants listed when none has a seed
  MaxSeeded,    \* bound: participants listed when seeds are given
  MaxShuffled,  \* bound: participants of a swiss round, whose shuffles are enumerated
  SeedValues    \* the seeds a manager may give (a non-zero int)

ASSUME ListAssumption ==
  /\ MaxEntrants \in Nat /\ MaxSeeded \in Nat /\ MaxShuffled \in Nat
  /\ SeedValues \subseteq -(IntMax + 1)..IntMax /\ NoSeed \notin SeedValues

ASSUME NoParticipantAssumption == NoParticipant \notin Nat

VARIABLES
  listed,   \* the rows of ListParticipantsByStatus: seed IS NULL, seed ASC
  format,   \* the format of the last generation, or "none"
  seeded,   \* the participants in the order the last generation used
  matches   \* the bracket of the last generation

vars == <<listed, format, seeded, matches>>

Lists ==
  LET unseeded(n) == [i \in 1..n |-> [id |-> i, seed |-> NoSeed]]
      seedings(n) == {f \in [1..n -> SeedValues \cup {NoSeed}] :
                        \A i, j \in 1..n : i < j => \/ f[j] = NoSeed
                                                    \/ f[i] # NoSeed /\ f[i] <= f[j]}
  IN  {unseeded(n) : n \in 0..MaxEntrants}
        \cup UNION {{[i \in 1..n |-> [id |-> i, seed |-> f[i]]] : f \in seedings(n)} :
                      n \in 1..MaxSeeded}

Init ==
  /\ listed \in Lists
  /\ format = "none"
  /\ seeded = <<>>
  /\ matches = <<>>

Ids(participants) == [i \in 1..Len(participants) |-> participants[i].id]

\* The switch of generateBracket; a swiss round is drawn from a random shuffle.
Draw(f, order) ==
  CASE f = "single_elimination" -> SingleElimination(order)
    [] f = "double_elimination" -> DoubleElimination(order)
    [] f = "round_robin"        -> RoundRobin(order)

GenerateDrawn(f) ==
  /\ Len(listed) >= 2
  /\ format' = f
  /\ seeded' = Ids(SortBySeed(listed))
  /\ matches' = Draw(f, seeded')
  /\ UNCHANGED listed

GenerateSwiss ==
  /\ Len(listed) \in 2..MaxShuffled
  /\ format' = "swiss"
  /\ seeded' \in SetToSeqs(ToSet(Ids(SortBySeed(listed))))
  /\ matches' = SwissRoundOne(seeded')
  /\ UNCHANGED listed

\* TOURNAMENT_BRACKET_GENERATION_FAILED: the matches are left as they are.
RefuseGeneration ==
  /\ Len(listed) < 2
  /\ UNCHANGED vars

Next ==
  \/ \E f \in Formats \ {"swiss"} : GenerateDrawn(f)
  \/ GenerateSwiss
  \/ RefuseGeneration

Spec == Init /\ [][Next]_vars

-----------------------------------------------------------------------------
(* Properties.                                                             *)

Positions == 1..Len(matches)
FirstRound == {i \in Positions : matches[i].round = 1}
Entrants == {listed[i].id : i \in 1..Len(listed)}
SeatsOf(x) == {i \in FirstRound : x \in {matches[i].p1, matches[i].p2}}
FeedersOf(i) == {j \in Positions : matches[j].next = i}
LoserFeedersOf(i) == {j \in Positions : matches[j].loserNext = i}

\* The draw loses nobody and gives nobody two seats: a knockout or swiss
\* first round seats every checked-in participant in exactly one match, never
\* against itself, and a round robin plays every pair exactly once
\* (the slot loops of the four generators).
EveryoneIsDrawn ==
  format # "none" =>
    /\ \A x \in Entrants :
         Cardinality(SeatsOf(x)) = IF format = "round_robin" THEN Len(listed) - 1 ELSE 1
    /\ \A i \in FirstRound : matches[i].p1 # matches[i].p2
    /\ format = "round_robin" =>
         \A x, y \in Entrants : x # y => Cardinality(SeatsOf(x) \cap SeatsOf(y)) = 1

\* The winners' side is a balanced tree: every match after the first round is
\* fed by exactly two matches, both of the round before it, and only the last
\* match leads nowhere (or, with double elimination, to the grand final), so
\* that any entrant that keeps winning plays one match in every round.
KnockoutIsATree ==
  format \in {"single_elimination", "double_elimination"} =>
    LET tree  == {i \in Positions : matches[i].side = "winners"}
        final == Max(tree)
    IN  /\ Cardinality(tree) = BracketSize(Len(listed)) - 1
        /\ \A i \in tree \ FirstRound :
             /\ Cardinality(FeedersOf(i)) = 2
             /\ \A j \in FeedersOf(i) : j \in tree /\ matches[j].round = matches[i].round - 1
        /\ \A i \in tree \ {final} : matches[i].next \in tree
        /\ matches[final].next \notin tree

\* Byes go to the best seeds, one each, and a bye already names its winner:
\* with n entrants and size slots exactly the first size - n of the seeded
\* order sit alone (slots i and size-1-i of generateSingleEliminationMatches).
ByesGoToTopSeeds ==
  format \in {"single_elimination", "double_elimination"} =>
    LET byes == {i \in FirstRound : matches[i].status = "bye"}
        free == BracketSize(Len(listed)) - Len(listed)
    IN  /\ byes = 1..free
        /\ \A i \in byes : /\ matches[i].winner = seeded[i]
                           /\ {matches[i].p1, matches[i].p2} = {seeded[i], NoParticipant}
        /\ \A i \in FirstRound \ byes :
             NoParticipant \notin {matches[i].p1, matches[i].p2}

\* With double elimination every match of the winners' side but its final drops
\* its loser into a losers' match, each of which waits for exactly two of them,
\* and the grand final waits for two sides as soon as there are losers' matches.
LosersDropDown ==
  format = "double_elimination" =>
    LET tree   == {i \in Positions : matches[i].side = "winners"}
        losers == {i \in Positions : matches[i].side = "losers"}
        grand  == Len(matches)
    IN  /\ \A i \in tree \ {Max(tree)} : matches[i].loserNext \in losers
        /\ \A i \in losers : Cardinality(LoserFeedersOf(i)) = 2 /\ FeedersOf(i) = {}
        /\ Cardinality(FeedersOf(grand)) = IF losers = {} THEN 1 ELSE 2

\* "A second chance": whoever loses a first match, on the winners' side of a
\* double elimination, has another one to play.
SecondChance ==
  format = "double_elimination" =>
    \A i \in Positions : matches[i].side = "winners" => matches[i].loserNext # 0

\* As long as no seed is negative the in-memory sort agrees with the ORDER BY of
\* the query: a seeded participant is drawn before every unseeded one and before
\* every larger seed (a negative seed overflows seedA - seedB and does not).
SeedsAreRespected ==
  (format \notin {"none", "swiss"} /\ \A i \in 1..Len(listed) : SeedKey(listed[i]) >= 0) =>
    \A i, j \in 1..Len(seeded) :
      SeedKey(listed[seeded[i]]) < SeedKey(listed[seeded[j]]) => i < j

=============================================================================
