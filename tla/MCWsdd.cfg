CONSTANTS
  NoId = NoId
  p1 = p1
  p2 = p2
  UintMod = 16
  MaxArrivals = 2
  Datagrams <- MCDatagrams
  Signals = {"SIGHUP", "SIGTERM"}
  MaxSignals = 2
  Builds = {TRUE, FALSE}
SPECIFICATION FairSpec
INVARIANTS
  TypeOK
  NoThreadOutlivesExec
  LoopEndsOnlyBySignal
  NoSelfDelivery
  AnnouncementsStaySilent
  AnswersCorrelate
  NumbersOrderMessages
  HelloFirstByeLast
  FirstSignalDecides
PROPERTIES
  TargetSpec
  SignalEndsProcess
  ByeFollowsStop
  ProbesAreServed
  InboxDrained
