CONSTANTS
  Nodes = {n1, n2}
  None = None
  MaxFrames = 3
  MaxTerm = 3
  MaxStops = 3
SPECIFICATION FairSpec
INVARIANTS TypeOK LogMatching AckedSurvives
PROPERTIES StandbysConverge
CHECK_DEADLOCK FALSE
