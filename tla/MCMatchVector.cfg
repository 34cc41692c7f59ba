CONSTANTS
  ItemCounts = {0, 3}
  ScopeKinds = {"null", "given"}
  MaxProbes = 4
SPECIFICATION Spec
INVARIANTS
  TypeOK
  ResponseLive
CHECK_DEADLOCK FALSE
