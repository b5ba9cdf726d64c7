SPECIFICATION FairBoth
CONSTANTS
  Procs = {p1}
  Accounts = {a1}
  EipIds = {e1}
  None = None
  MaxFaults = 2
  MaxZoneEdits = 1
  Ids = {o1, o2}
  Targets = {t1}
  Instances = {c1}
PROPERTIES RepeatedApplyConverges PurgeCompletes InterruptedClaimsComplete
