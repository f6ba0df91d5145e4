CONSTANTS
  p1 = p1
  p2 = p2
  p3 = p3
  Participants = {p1, p2, p3}
  Matches = {1, 2, 3}
  Draw <- ThreeSingle
  Workers = {w1, w2}
  OutsideWinners = FALSE
  MaxRequests = 4
  None = None
SPECIFICATION Spec
CHECK_DEADLOCK FALSE
SYMMETRY Symmetry
INVARIANTS
  SlotProvenance
  
  
