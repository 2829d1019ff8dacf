SPECIFICATION Spec
CONSTANTS
  Workers = {w1, w2}
  Clients = {c1, c2}
  Main = Main
  Faults = {"build", "close", "chunk"}
  MaxSessions = 2
  MaxChunks = 2
  None = None
SYMMETRY Alike
INVARIANTS
  WorkOnActive
  SegmentsAccounted
  ChunksInOrder
  OwnResult
  NotFoundMeansReplaced
PROPERTIES
  RegistrySpec
