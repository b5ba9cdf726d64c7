SPECIFICATION FairSpec
CONSTANTS
  Procs = {p1}
  Ids = {o1}
  Targets = {t1}
  Instances = {c1}
  Keys = {k1}
  Bundled = {}
  ShortLived = {o1}
  None = None
PROPERTY ApplyResumes
CHECK_DEADLOCK FALSE
