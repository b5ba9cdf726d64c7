SPECIFICATION Spec
CONSTANTS
  Procs = {p1, p2}
  Accounts = {a1, a2}
  EipIds = {e1, e2}
  None = None
  MaxFaults = 3
  MaxZoneEdits = 2
INVARIANT TypeOK
INVARIANT VolumeIsKept
INVARIANT RemovalIsComplete
INVARIANT NamedResourcesAreRecorded
INVARIANT VerifiedMeansLive
INVARIANT OneAddress
PROPERTY NoResurrection
PROPERTY AccountPinned
