CONSTANTS
  NoParticipant = NoParticipant
  NoSeed = NoSeed
  IntMax = 7
  MaxEntrants = 4
  MaxSeeded = 1
  MaxShuffled = 2
  SeedValues <- MCSeedValues
SPECIFICATION Spec
INVARIANT SecondChance
