\* The session's own window (three tiles, one of context) at the smallest
\* scale factor whose results fit; eight calls.
SPECIFICATION MCSpec
CONSTANTS
  NT = 3
  NTCond = 1
  TileFrames = 20
  MaxInput = 30
  SF = 2
  MaxBase = 2
  MaxCalls = 8
  None = None
  OnError = "recreate"
  Failures = {"raised", "spoiled", "lost"}
INVARIANTS
  SkipPair
  ResultsFit
  RoleAgreement
  Seamless
  
  NoHole
  NoOverlap
CHECK_DEADLOCK FALSE
