SPECIFICATION Spec
CONSTANTS
  Procs = {p1, p2}
  Ids = {o1, o2}
  Targets = {t1}
  Instances = {c1}
  Keys = {k1}
  Bundled = {}
  ShortLived = {o1}
  None = None
PROPERTY SupersededCannotMutate
CHECK_DEADLOCK FALSE
