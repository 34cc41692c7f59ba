CONSTANTS
  NoId = NoId
  UintMod = 4
  MaxCalls = 5
  MaxLives = 2
  MaxClock = 1
SPECIFICATION Spec
INVARIANTS
  TypeOK
  AnnouncementsAdvance
  LivesOrdered
  GeneratorSound
