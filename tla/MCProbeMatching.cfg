CONSTANTS
  Letters = {"a", "b"}
  MaxLength = 6
  OwnTypes <- MCOwnTypes
  Scopes = {"s1", "s2"}
  OwnScopes = {"s1"}
  Absent = Absent
SPECIFICATION Spec
INVARIANTS
  TypeOK
  StrippingKeepsNames
  MatchesWhatIsAsked
PROPERTIES
  ProbeReturns
CHECK_DEADLOCK FALSE
