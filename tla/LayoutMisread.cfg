SPECIFICATION TemporalSpec
CONSTANTS
  TrainFrames = 15
  TileTime = 5
  Factors = {2}
  Inputs = {1}
  Batches = {2}
  Sides = {3, 4}
INVARIANT BothLayoutsKept
