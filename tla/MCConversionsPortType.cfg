CONSTANTS
  Absent = Absent
  Texts = {t1, t2}
  Versions = {0, 1}
SPECIFICATION Spec
INVARIANTS
  EndpointHeard
CHECK_DEADLOCK FALSE
