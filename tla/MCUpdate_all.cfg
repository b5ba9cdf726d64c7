SPECIFICATION FairSpec
CONSTANTS
  old = old  c = c  hb = hb  hu = hu  hr = hr  a1 = a1  a2 = a2
  Old = old
  None = None
  Candidates <- MCCandidates
  Helpers <- MCHelpers
  Base <- MCBase
  Bootstrap <- MCBootstrap
  Recovery <- MCRecovery
  Cidrs <- MCCidrs
  MaxMoves = 1
  MaxFaults = 1
INVARIANTS TypeOK InstalledHelpersWhole RecordFollowsHost IngressIsBounded
PROPERTIES RunsWhatIsRecorded AcceptedProofIsTrue ChainSpec
PROPERTIES UpdateSettles RebindConverges
CHECK_DEADLOCK FALSE
