SPECIFICATION MCSpec
CONSTANTS
  t1 = t1
  t2 = t2
  x = x
  y = y
  Tabs <- MCTabs
  Codes <- MCCodes
  None = None
  TextChannels = {c1, c2}
  MaxLogins = 2
  MaxVisits = 3
INVARIANTS
  InviteKept
  UserOfToken
  UnreadIsShown
PROPERTIES
  PagesSettle
CHECK_DEADLOCK FALSE
