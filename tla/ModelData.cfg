\* The autoencoder the model is built with (4 levels, 2 residual blocks, time
\* halved at levels 1 and 2), clips of up to 4 pieces.  Tiles of 4 latents that
\* overlap by one, of frames below, at and beyond one and two tiles; the chunk
\* of the sessions in time (60 frames in tiles of 20); up to 20 windows of
\* 4 tokens.
SPECIFICATION MCSpec
CONSTANTS
  Levels = 4
  ResBlocks = 2
  TimeDown = {1, 2}
  MaxChunks = 4
  MaxClip = 17
  None = None
  Rep = Rep
  TileMin = 8
  TileStride = 6
  Ratio = 2
  Heights = {1, 6, 7, 8, 13, 14}
  Widths = {3, 6, 9, 13}
  TrainFrames = 60
  TileTime = 20
  Factors = {2, 4, 7}
  Inputs = {1, 9, 15, 30}
  Batches = {2, 5}
  Sides = {1, 2, 3}
  WindowsT = {5}
  WindowsH = {1, 2}
  WindowsW = {2}
  LatentsT = 2
  LatentsH = 4
  LatentsW = 2
  Blocks = {1, 2, 7, 10}
INVARIANTS
  ReadsWholeClip
  CondAligned
  FeaturesFit
  StreamMatchesForward
  ProjectionPerLatent
  InPlace
  SeamlessPicture
  KeyframesShown
  OwnConditioning
  LayoutKept
  AttentionReach
  TokensInPlace
