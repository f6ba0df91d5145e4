CONSTANTS
  Users = {u1, u2, u3, u4}
  Workers = {w1}
  MaxCap = 3
  BulkMax = 3
  NoRow = NoRow
SPECIFICATION Spec
CHECK_DEADLOCK FALSE
PROPERTY ImplementsRules
