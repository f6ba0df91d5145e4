SPECIFICATION MCSpec
CONSTANTS
  c1 = c1
  c2 = c2
  s1 = s1
  s2 = s2
  Channels <- MCChannels
  Servers <- MCServers
  ServerOf <- MCServerOf
  NoChannel = none
  Me = me
  Other = other
  MaxPresses = 3
  NumTargets = 2
  MaxMoves = 1
  MaxVisits = 1
INVARIANTS
  NoRoomLeftBehind
  OneRoomOpen
  SpinnerHasACause
PROPERTIES
  LatestPressWins
  JoinEnds
  SidebarCatchesUp
CHECK_DEADLOCK FALSE
