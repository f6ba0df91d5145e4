CONSTANTS
  Users = {u1, u2}
  Workers = {w1, w2}
  MaxCap = 2
  BulkMax = 1
  NoRow = NoRow
SPECIFICATION Spec
CHECK_DEADLOCK FALSE
PROPERTY StatusFollowsFlow
