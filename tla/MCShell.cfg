SPECIFICATION Spec
CONSTANTS
  Servers = {1, 2, 3}
  Channels = {1, 2, 3, 4, 5}
  ServerOf <- MCServerOf
  Texts <- MCTexts
  New = 3
  Openings <- MCOpenings
INVARIANTS
  Lands
  LastClickCounts
PROPERTIES
  Settles
CHECK_DEADLOCK FALSE
