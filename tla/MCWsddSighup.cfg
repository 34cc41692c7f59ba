CONSTANTS
  NoId = NoId
  p1 = p1
  p2 = p2
  UintMod = 16
  MaxArrivals = 1
  Datagrams <- MCDatagrams
  Signals = {"SIGHUP", "SIGTERM"}
  MaxSignals = 2
  Builds = {TRUE}
SPECIFICATION Spec
INVARIANT
  StoppedAtJoin
