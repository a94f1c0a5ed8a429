SPECIFICATION Spec
CONSTANTS
  Conns = {"p", "q", "r"}
  Cap = 2
  REFUSING = 1
INVARIANTS NoneCutShort
PROPERTIES StopEnds
