CONSTANTS
  NoId = NoId
  p1 = p1
  UintMod = 16
  MaxArrivals = 2
  MaxTurns = 3
  Builds = {TRUE, FALSE}
  Datagrams <- MCDatagrams
SPECIFICATION Spec
INVARIANTS
  TypeOK
  ListensWhenTold
  NumbersTellMessages
  ObjectOutlivesListener
PROPERTIES
  RunEnds
