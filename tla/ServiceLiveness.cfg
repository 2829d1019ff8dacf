SPECIFICATION FairSpec
CONSTANTS
  Workers = {w1, w2}
  Clients = {c1, c2}
  Main = Main
  Faults = {"build"}
  MaxSessions = 2
  MaxChunks = 1
  None = None
PROPERTIES
  CallsEnd
  ShutdownEnds
