SPECIFICATION FairSpec
CONSTANTS
  Task = {t1, t2}
  Slot = {q1, q2}
  None = None
  MaxRevision = 1
INVARIANTS
  TypeOK
  NeverBlank
PROPERTIES
  ListCatchesUp
  DetailsCatchUp
