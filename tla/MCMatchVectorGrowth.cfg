CONSTANTS
  ItemCounts = {1, 2}
  ScopeKinds = {"null"}
  MaxProbes = 3
SPECIFICATION Spec
INVARIANTS
  ResponseLive
CHECK_DEADLOCK FALSE
