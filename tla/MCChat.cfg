SPECIFICATION MCSpec
CONSTANTS
  PageSize = 2
  MaxMessages = 5
  Budgets <- MCBudgets
  Me = me
  Others = {o}
  MaxClicks = 2
  MaxChanges = 2
  Channels = {a, b}
  NoChannel = NoChannel
  Words = {w}
  Files = {f}
  MaxRequests = 2
  Links = {l1, l2, l3}
  MaxRuns = 5
INVARIANTS
  
  TwiceOnlyOwn
  NoHoles
  
  NothingTypedIsLost
  PreviewsAreShown
PROPERTIES
  TypingEnds
CHECK_DEADLOCK FALSE
