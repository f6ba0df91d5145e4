------------------------------- MODULE Bracket -------------------------------
(***************************************************************************)
(* Bracket generation of a tournament: from the checked-in participants,   *)
(* sorted by seed, to the match rows that ReplaceMatches inserts.          *)
(*                                                                         *)
(* A bracket is a sequence of match records; a match names the matches its *)
(* winner and its loser move on to by their position in the sequence (the  *)
(* code uses fresh UUIDs), 0 standing for a nil link.                      *)
(***************************************************************************)
EXTENDS Integers, Sequences, FiniteSets, SequencesExt

CONSTANTS
  NoParticipant,  \* a nil participant or winner id
  NoSeed,         \* a nil seed
  IntMax          \* math.MaxInt, scaled down

ASSUME IntMaxAssumption == IntMax \in Nat \ {0}

Formats == {"single_elimination", "double_elimination", "round_robin", "swiss"}

-----------------------------------------------------------------------------
(* Seeding: slices.SortFunc over the rows the repository returned, with a  *)
(* comparator that subtracts two machine integers.  Up to 12 elements the  *)
(* library sorts by insertion, which is what SortBySeed spells out.        *)

\* Two's complement wrap-around of a difference of two ints.
Wrap(d) == ((d + IntMax + 1) % (2 * (IntMax + 1))) - (IntMax + 1)

SeedKey(p) == IF p.seed = NoSeed THEN IntMax ELSE p.seed

\* Mutant: a nil seed counts as 0.
CompareSeedsNilAsZero(a, b) ==
  LET key(p) == IF p.seed = NoSeed THEN 0 ELSE p.seed IN Wrap(key(a) - key(b))

CompareSeeds(a, b) == Wrap(SeedKey(a) - SeedKey(b))

InsertBySeed(sorted, p) ==
  LET stops == {k \in 1..Len(sorted) : CompareSeeds(p, sorted[k]) >= 0}
      after == IF stops = {} THEN 0 ELSE Max(stops)
  IN  InsertAt(sorted, after + 1, p)

SortBySeed(listed) ==
  LET sorted[k \in 0..Len(listed)] ==
        IF k = 0 THEN <<>> ELSE InsertBySeed(sorted[k - 1], listed[k])
  IN  sorted[Len(listed)]

-----------------------------------------------------------------------------
(* Single elimination.                                                     *)

\* Powers of two: doubling counts the slots up, halving counts the rounds down.
PowerOf2[k \in Nat] == IF k = 0 THEN 1 ELSE 2 * PowerOf2[k - 1]

\* The number of slots of the first round: the least power of two >= n.
BracketSize(n) == Min({PowerOf2[k] : k \in 0..n} \ 0..(n - 1))

\* Rounds are laid out one after the other: round r occupies the positions
\* RoundOffset(size, r) + 1 .. RoundOffset(size, r + 1).
RoundOffset(size, r) == size - (size \div PowerOf2[r - 1])

RoundOf(size, i) ==
  CHOOSE r \in 1..size : RoundOffset(size, r) < i /\ i <= RoundOffset(size, r + 1)

\* Mutant: the index of the next match is rounded up.
NextInTreeRoundedUp(size, i) ==
  LET r     == RoundOf(size, i)
      index == i - RoundOffset(size, r) - 1
  IN  IF i = size - 1 THEN 0 ELSE RoundOffset(size, r + 1) + ((index + 1) \div 2) + 1

\* nextID := next[i/2].ID, for every round but the last one.
NextInTree(size, i) ==
  LET r     == RoundOf(size, i)
      index == i - RoundOffset(size, r) - 1
  IN  IF i = size - 1 THEN 0 ELSE RoundOffset(size, r + 1) + (index \div 2) + 1

OpenMatch(round, side) ==
  [round |-> round, side |-> side, p1 |-> NoParticipant, p2 |-> NoParticipant,
   winner |-> NoParticipant, status |-> "pending", next |-> 0, loserNext |-> 0]

\* Mutant: neighbours meet in the first round, so that byes go to the last seeds.
FirstRoundMatchOfNeighbours(seeded, size, i) ==
  LET slot(k) == IF k <= Len(seeded) THEN seeded[k] ELSE NoParticipant
      left    == slot(2 * i - 1)
      right   == slot(2 * i)
      bye     == (left = NoParticipant) # (right = NoParticipant)
  IN  [OpenMatch(1, "winners") EXCEPT
         !.p1     = left,
         !.p2     = right,
         !.status = IF bye THEN "bye" ELSE "pending",
         !.winner = IF bye THEN left ELSE NoParticipant]

FirstRoundMatch(seeded, size, i) ==
  LET slot(k) == IF k <= Len(seeded) THEN seeded[k] ELSE NoParticipant
      left    == slot(i)
      right   == slot(size + 1 - i)
      bye     == (left = NoParticipant) # (right = NoParticipant)
  IN  [OpenMatch(1, "winners") EXCEPT
         !.p1     = left,
         !.p2     = right,
         !.status = IF bye THEN "bye" ELSE "pending",
         !.winner = IF ~bye THEN NoParticipant
                    ELSE IF left # NoParticipant THEN left ELSE right]

SingleElimination(seeded) ==
  LET size == BracketSize(Len(seeded))
      match(i) == IF i <= size \div 2
                    THEN FirstRoundMatch(seeded, size, i)
                    ELSE OpenMatch(RoundOf(size, i), "winners")
  IN  [i \in 1..(size - 1) |-> [match(i) EXCEPT !.next = NextInTree(size, i)]]

-----------------------------------------------------------------------------
(* Double elimination: the winners' tree, one round of losers' matches and *)
(* a grand final.                                                          *)

\* Mutant: the losers of matches 2k and 2k+1 meet, instead of 2k-1 and 2k.
LoserNextShifted(nw, i) == IF i \div 2 < nw \div 2 THEN nw + (i \div 2) + 1 ELSE 0

\* The losers' match the loser of the i-th of nw winners' matches drops into.
LoserNext(nw, i) == IF (i - 1) \div 2 < nw \div 2 THEN nw + ((i - 1) \div 2) + 1 ELSE 0

DoubleElimination(seeded) ==
  LET winners == SingleElimination(seeded)
      nw      == Len(winners)
      nl      == nw \div 2
      grand   == nw + nl + 1
      winnersMatch(i) ==
        [winners[i] EXCEPT
           !.next      = IF i = nw THEN grand ELSE @,
           !.loserNext = LoserNext(nw, i)]
      losersMatch(i) ==
        [OpenMatch(100, "losers") EXCEPT !.next = IF i = nl THEN grand ELSE 0]
  IN  [i \in 1..nw |-> winnersMatch(i)]
        \o [i \in 1..nl |-> losersMatch(i)]
        \o <<OpenMatch(999, "grand_final")>>

-----------------------------------------------------------------------------
(* Round robin: every pair once.                                           *)

RoundRobin(seeded) ==
  LET n     == Len(seeded)
      order == FlattenSeq([i \in 1..(n - 1) |-> [d \in 1..(n - i) |-> <<i, i + d>>]])
  IN  [k \in 1..Len(order) |->
         [OpenMatch(1, "winners") EXCEPT !.p1     = seeded[order[k][1]],
                                         !.p2     = seeded[order[k][2]],
                                         !.status = "ready"]]

-----------------------------------------------------------------------------
(* Swiss, first round only, over a random permutation of the participants. *)

\* Mutant: the loop stops before a participant left over by the pairing.
SwissRoundOneDropsTheOddOne(shuffled) ==
  [i \in 1..(Len(shuffled) \div 2) |->
     [OpenMatch(1, "winners") EXCEPT !.p1     = shuffled[2 * i - 1],
                                     !.p2     = shuffled[2 * i],
                                     !.status = "ready"]]

SwissRoundOne(shuffled) ==
  LET n == Len(shuffled)
      paired(i) == [OpenMatch(1, "winners") EXCEPT !.p1     = shuffled[2 * i - 1],
                                                   !.p2     = shuffled[2 * i],
                                                   !.status = "ready"]
      lone(i)   == [OpenMatch(1, "winners") EXCEPT !.p1     = shuffled[n],
                                                   !.winner = shuffled[n],
                                                   !.status = "bye"]
  IN  [i \in 1..((n + 1) \div 2) |-> IF 2 * i <= n THEN paired(i) ELSE lone(i)]

=============================================================================
