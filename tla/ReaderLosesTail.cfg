SPECIFICATION ReaderSpec
CONSTANTS
  NumStreams = 2
  Delay = 1
  MaxFrames = 2
  Faults = {}
INVARIANTS
  ReturnsAllFrames
CHECK_DEADLOCK FALSE
