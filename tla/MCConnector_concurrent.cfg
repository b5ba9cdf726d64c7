SPECIFICATION Spec
CONSTANTS
  Procs = {p1, p2}
  Ids = {o1, o2}
  Targets = {t1}
  Instances = {c1}
  Keys = {k1}
  Bundled = {}
  ShortLived = {}
  None = None
SYMMETRY Symmetry
INVARIANTS OperationFollowsRecord ClaimsMoveOnEvidence
PROPERTY ImplementsBootstrap
CHECK_DEADLOCK FALSE
