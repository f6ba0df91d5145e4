CONSTANTS
  NoParticipant = NoParticipant
  NoSeed = NoSeed
  IntMax = 7
  MaxEntrants = 17
  MaxSeeded = 4
  MaxShuffled = 5
  SeedValues <- MCSeedValues
SPECIFICATION Spec
INVARIANTS
  EveryoneIsDrawn
  KnockoutIsATree
  ByesGoToTopSeeds
  LosersDropDown
  SeedsAreRespected
