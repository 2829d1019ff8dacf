SPECIFICATION Spec
CONSTANTS
  NumStreams = 2
  Delay = 2
  MaxFrames = 3
  Faults = {"open", "info", "codec", "packet", "read", "send", "frame", "decode", "alloc", "avio", "encoder", "header", "wpacket", "encode", "mux", "trailer", "model", "upscale"}
INVARIANTS
  InOrder
  OkMeansWhole
  UsesOpen
  HandlesAccounted
