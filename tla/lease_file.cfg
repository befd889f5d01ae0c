CONSTANTS
  Nodes = {n1, n2}
  None = None
  TTL = 6
  Timeout = 0
  StartMax = 2
  ClaimMax = 1
  MaxFaults = 2
  MaxCrashes = 2
  MaxTerm = 9
SPECIFICATION FairSpec
INVARIANTS TypeOK HolderWrites
PROPERTIES LeaderReturns
