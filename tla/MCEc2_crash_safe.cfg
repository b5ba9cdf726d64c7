SPECIFICATION FairSpec
CONSTANTS
  Procs = {p1}
  Accounts = {a1}
  EipIds = {e1}
  None = None
  MaxFaults = 1
  MaxZoneEdits = 0
PROPERTY CrashSafe
