SPECIFICATION Spec
CONSTANTS
  Workers = {w1, w2}
  Clients = {c1}
  Main = Main
  Faults = {}
  MaxSessions = 2
  MaxChunks = 1
  None = None
INVARIANTS
  StoppedClean
