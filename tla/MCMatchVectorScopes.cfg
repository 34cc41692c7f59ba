CONSTANTS
  ItemCounts = {0, 1}
  ScopeKinds = {"null", "given"}
  MaxProbes = 2
SPECIFICATION Spec
INVARIANTS
  ScopesLive
CHECK_DEADLOCK FALSE
