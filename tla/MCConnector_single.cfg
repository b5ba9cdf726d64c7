SPECIFICATION FairSpec
CONSTANTS
  Procs = {p1}
  Ids = {o1, o2}
  Targets = {t1}
  Instances = {c1}
  Keys = {k1, k2}
  Bundled = {o1}
  ShortLived = {o1, o2}
  None = None
INVARIANT RecordFollowsHost
PROPERTY ApplyFinishes
CHECK_DEADLOCK FALSE
