SPECIFICATION ExpectedSpec
CONSTANTS
  Workers = {w1}
  Feeders = {f1}
  Paths = {p1}
  Faults = {}
  MaxSessions = 1
  MaxPieces = 1
  MaxCrashes = 0
  None = None
PROPERTIES
  EngineEnds
