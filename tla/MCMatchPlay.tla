---------------------------- MODULE MCMatchPlay ----------------------------
(* The brackets of three participants, written out and compared with what    *)
(* generateBracket draws: a bye, one match between two and the final they    *)
(* feed, and in a double elimination a losers' match and a grand final too.  *)
EXTENDS MatchPlay, TLC

CONSTANTS p1, p2, p3

M(a, b, winner, status, next, loserNext) ==
  [p1 |-> a, p2 |-> b, winner |-> winner, status |-> status, next |-> next,
   loserNext |-> loserNext]

ThreeSingle == <<
  M(p1, None, p1, "bye", 3, 0),
  M(p2, p3, None, "pending", 3, 0),
  M(None, None, None, "pending", 0, 0)>>

ThreeDouble == <<
  M(p1, None, p1, "bye", 3, 4),
  M(p2, p3, None, "pending", 3, 4),
  M(None, None, None, "pending", 5, 0),
  M(None, None, None, "pending", 5, 0),
  M(None, None, None, "pending", 0, 0)>>

B == INSTANCE Bracket WITH NoParticipant <- None, NoSeed <- None, IntMax <- 1

Play(bracket) == [m \in DOMAIN bracket |->
  M(bracket[m].p1, bracket[m].p2, bracket[m].winner, bracket[m].status,
    bracket[m].next, bracket[m].loserNext)]

ASSUME GeneratedBrackets ==
  /\ ThreeSingle = Play(B!SingleElimination(<<p1, p2, p3>>))
  /\ ThreeDouble = Play(B!DoubleElimination(<<p1, p2, p3>>))

Symmetry == Permutations(Workers)
=============================================================================
