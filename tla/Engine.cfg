SPECIFICATION Spec
CONSTANTS
  Workers = {w1, w2}
  Feeders = {f1, f2}
  Paths = {p1, p2}
  Faults = {"bind", "listen"}
  MaxSessions = 2
  MaxPieces = 2
  MaxCrashes = 1
  None = None
SYMMETRY Alike
INVARIANTS
  Reachable
  OneThread
  NothingLost
  FilesAccounted
