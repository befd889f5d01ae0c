CONSTANTS
  Nodes = {n1, n2}
  None = None
  MaxFrames = 3
  MaxTerm = 3
  MaxStops = 3
SPECIFICATION FencingSpec
SYMMETRY Symmetry
INVARIANTS StreamsPrefix
CHECK_DEADLOCK FALSE
