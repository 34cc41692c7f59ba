CONSTANTS
  Absent = Absent
  Texts = {t1, t2}
  Versions = {0, 1}
SPECIFICATION Spec
INVARIANTS
  HeardAsSaid
CHECK_DEADLOCK FALSE
