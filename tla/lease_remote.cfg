CONSTANTS
  Nodes = {n1, n2}
  None = None
  TTL = 3
  Timeout = 1
  StartMax = 3
  ClaimMax = 1
  MaxFaults = 1
  MaxCrashes = 1
  MaxTerm = 3
SPECIFICATION FairSpec
INVARIANTS OneWriterPerTerm TermsOwned
PROPERTIES LeaseAdvances DeposedStops
