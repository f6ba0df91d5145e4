CONSTANTS
  p1 = p1
  p2 = p2
  p3 = p3
  Participants = {p1, p2, p3}
  Matches = {1, 2, 3, 4, 5}
  Draw <- ThreeDouble
  Workers = {w1}
  OutsideWinners = FALSE
  MaxRequests = 2
  None = None
SPECIFICATION FairPlay
CHECK_DEADLOCK FALSE
PROPERTY Finishes
