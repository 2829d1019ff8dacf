SPECIFICATION FairSpec
CONSTANTS
  Workers = {w1, w2}
  Feeders = {f1, f2}
  Paths = {p1}
  Faults = {"listen"}
  MaxSessions = 2
  MaxPieces = 1
  MaxCrashes = 0
  None = None
PROPERTIES
  EngineCallsEnd
  EngineEnds
