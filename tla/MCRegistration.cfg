CONSTANTS
  Users = {u1, u2, u3, u4}
  Workers = {w1, w2}
  MaxCap = 2
  BulkMax = 1
  NoRow = NoRow
SPECIFICATION Spec
CHECK_DEADLOCK FALSE
SYMMETRY Symmetry
INVARIANTS
  PhasesInOrder
  NothingAheadOfItsPhase
  BoundedOverbooking
