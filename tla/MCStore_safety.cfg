SPECIFICATION Spec
CONSTANTS
  Procs = {p1, p2}
  Ids = {o1, o2, o3}
  Targets = {t1, t2}
  Instances = {c1}
  None = None
SYMMETRY Symmetry
INVARIANTS TypeOK OneTargetPerOperation ExclusiveHandoff EndAgreesWithClaims RecordsStayValid
PROPERTIES SupersededNeverChanges SuccessionIsFenced ClaimsNeverRegress
CHECK_DEADLOCK FALSE
