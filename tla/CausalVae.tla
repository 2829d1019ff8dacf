------------------------------ MODULE CausalVae ------------------------------
(***************************************************************************)
(* The causal video VAE of models/vae2_1.py, which never sees a whole      *)
(* clip: encode() feeds its encoder one frame, then four at a time, and    *)
(* decode() feeds its decoder one latent at a time.  What makes the pieces *)
(* add up to the clip is a list of caches, one for each convolution over   *)
(* time, addressed by a counter that every layer advances.                 *)
(*                                                                         *)
(* A frame is its number in the clip, at the rate of the layer it is at,   *)
(* and a layer is the frames that each frame it makes is made of (its      *)
(* taps).  Channels, pixels and weights are left out, and so are layers    *)
(* that keep frames apart (norms, activations, the shortcut of a residual  *)
(* block).  attn_scales is empty, as in every configuration of the code.   *)
(***************************************************************************)
EXTENDS Integers, Sequences, FiniteSets, SequencesExt

CONSTANTS
  Levels,     \* len(dim_mult)
  ResBlocks,  \* num_res_blocks
  TimeDown,   \* the levels i with temperal_downsample[i]
  MaxChunks,  \* bound: pieces of a clip
  None,       \* no cache, no call, no features
  Rep         \* the cache 'Rep' of an up-sampling layer

ASSUME VaeAssumption ==
  /\ Levels \in Nat \ {0} /\ ResBlocks \in Nat /\ MaxChunks \in Nat \ {0}
  /\ TimeDown \subseteq 0 .. (Levels - 2)

\* No cache, and the cache 'Rep', are told from tensors and from each other.
ASSUME CacheAssumption ==
  None # Rep /\ None \notin Seq(Int) /\ Rep \notin Seq(Int)

VARIABLES
  call,       \* the call under way: operation, length of its clip, conditioning
  i,          \* pieces of the clip done
  u,          \* layer that comes next, 0 between two pieces
  x,          \* the tensor: numbers of its frames at the rate of layer u
  map,        \* _enc_feat_map and _feat_map, and what else holds caches
  idx,        \* _enc_conv_idx or _conv_idx
  add_feats,  \* features of the conditioning, a list for each piece
  made,       \* frames each layer has made of this clip (observation only)
  taps,       \* what the frames of the last layer were made of (observation only)
  feat        \* the feature that was added to them (observation only)

vars == <<call, i, u, x, map, idx, add_feats, made, taps, feat>>

Zero == -1    \* a frame of padding
CacheT == 2   \* CACHE_T

-----------------------------------------------------------------------------
\* Layers.  A layer is its kind, and whether a module of the network ends
\* there: the decoders with conditioning add a feature after each module.
ResidualBlock == <<<<"conv", FALSE>>, <<"conv", TRUE>>>>
Layer(kind) == <<<<kind, TRUE>>>>
ResidualBlocks(n) == FlattenSeq([k \in 1 .. n |-> ResidualBlock])
Middle == ResidualBlock \o Layer("attn") \o ResidualBlock

Encoder3d ==
  Layer("conv")
    \o FlattenSeq([k \in 1 .. Levels |->
         ResidualBlocks(ResBlocks)
           \o IF k = Levels THEN <<>>
              ELSE Layer(IF k - 1 \in TimeDown THEN "down3d" ELSE "down2d")])
    \o Middle
    \o <<<<"conv", FALSE>>>>

Decoder3d ==
  Layer("conv")
    \o Middle
    \o FlattenSeq([k \in 1 .. Levels |->
         ResidualBlocks(ResBlocks + 1)
           \o IF k = Levels THEN <<>>
              ELSE Layer(IF Levels - 1 - k \in TimeDown THEN "up3d" ELSE "up2d")])
    \o <<<<"conv", FALSE>>>>

Network(op) == IF op = "encode" THEN Encoder3d ELSE Decoder3d
Cached == {"conv", "down3d", "up3d"}

\* How many layers of these kinds come before layer v.
Before(net, v, kinds) == Cardinality({w \in 1 .. (v - 1) : net[w][1] \in kinds})

\* Length of a list of caches.  The convolutions of shortcuts are counted
\* too, in the code; their entries are never used.
count_conv3d(net) == Before(net, Len(net) + 1, Cached)

Spaces(op) == [k \in 0 .. (count_conv3d(Network(op)) - 1) |-> None]

clear_cache ==
  /\ map' = [op \in {"encode", "decode"} |-> Spaces(op)]
  /\ idx' = 0

-----------------------------------------------------------------------------
\* What a layer does to a tensor: the taps of its frames, and its new cache.
LastOf(s, n) == SubSeq(s, IF Len(s) > n THEN Len(s) - n + 1 ELSE 1, Len(s))
Zeros(n) == [k \in 1 .. n |-> Zero]

\* Kernel of three frames; what is missing of two frames of cache is zero.
CausalConv3d(s, cache) ==
  LET before == IF cache = None THEN <<>> ELSE cache
      padded == Zeros(CacheT - Len(before)) \o before \o s
  IN  [m \in 1 .. Len(s) |-> SubSeq(padded, m, m + 2)]

\* The last two frames, with one of the piece before if this piece is short.
KeepForNext(s, cache, filler) ==
  LET kept == LastOf(s, CacheT)
  IN  IF Len(kept) < CacheT /\ cache # None THEN <<filler>> \o kept ELSE kept

ConvLayer(s, cache) ==
  [taps |-> CausalConv3d(s, cache),
   cache |-> KeepForNext(s, cache, IF cache = None THEN Zero ELSE Last(cache))]

\* 'upsample3d': the first piece passes, the others are doubled, and what the
\* first piece held is zero to the second.
Upsample3d(s, cache) ==
  IF cache = None
  THEN [taps |-> [m \in 1 .. Len(s) |-> <<s[m]>>], cache |-> Rep]
  ELSE LET conv == CausalConv3d(s, IF cache = Rep THEN None ELSE cache)
       IN  [taps |-> [m \in 1 .. (2 * Len(s)) |-> conv[(m + 1) \div 2]],
            cache |-> KeepForNext(s, cache, IF cache = Rep THEN Zero ELSE Last(cache))]

\* 'downsample3d': the first piece passes, the others lose every second frame.
Downsample3d(s, cache) ==
  IF cache = None
  THEN [taps |-> [m \in 1 .. Len(s) |-> <<s[m]>>], cache |-> s]
  ELSE LET joined == <<Last(cache)>> \o s
       IN  [taps |-> [m \in 1 .. ((Len(joined) - 1) \div 2) |->
                        SubSeq(joined, 2 * m - 1, 2 * m + 1)],
            cache |-> LastOf(s, 1)]

Apply(kind, s, cache) ==
  CASE kind = "conv" -> ConvLayer(s, cache)
    [] kind = "up3d" -> Upsample3d(s, cache)
    [] kind = "down3d" -> Downsample3d(s, cache)
    [] OTHER -> [taps |-> [m \in 1 .. Len(s) |-> <<s[m]>>], cache |-> cache]

-----------------------------------------------------------------------------
\* The pieces of a clip.
Pieces(op, n) == IF op = "encode" THEN 1 + (n - 1) \div 4 ELSE n

\* Frames of piece k (from 0) of a clip of t frames: 1, 4, 4, ...
FramesOf(k, t) ==
  IF k = 0 THEN <<0>>
  ELSE LET upto == IF 1 + 4 * k < t THEN 1 + 4 * k ELSE t
       IN  [m \in 1 .. (upto - (1 + 4 * (k - 1))) |-> 4 * (k - 1) + m]

Piece(op, k, n) == IF op = "encode" THEN FramesOf(k, n) ELSE <<k>>

Init ==
  /\ call = None /\ i = 0 /\ u = 0 /\ x = <<>> /\ idx = 0
  /\ map = [op \in {"encode", "decode"} |-> Spaces(op)]
  /\ add_feats = None /\ made = <<>> /\ taps = <<>> /\ feat = None

\* Mutant: the caches are left to the call before to clear.
BeginKeepsCaches(op, n, cond) ==
  /\ call = None
  /\ call' = [op |-> op, n |-> n, cond |-> cond]
  /\ i' = 0 /\ u' = 0
  /\ made' = [v \in 1 .. Len(Network(op)) |-> 0]
  /\ x' = <<>> /\ taps' = <<>> /\ feat' = None
  /\ UNCHANGED <<map, idx, add_feats>>

\* encode() and decode() begin: caches that a failed call left are cleared.
Begin(op, n, cond) ==
  /\ call = None
  /\ call' = [op |-> op, n |-> n, cond |-> cond]
  /\ clear_cache
  /\ i' = 0 /\ u' = 0
  /\ made' = [v \in 1 .. Len(Network(op)) |-> 0]
  /\ x' = <<>> /\ taps' = <<>> /\ feat' = None
  /\ UNCHANGED add_feats

encode == \E t \in 1 .. (4 * MaxChunks) : Begin("encode", t, None) /\ add_feats = None
decode == \E n \in 1 .. MaxChunks : Begin("decode", n, None) /\ add_feats = None

\* The next piece goes into the network, whose layers count from slot 0 again.
NextPiece ==
  /\ call # None /\ u = 0 /\ i < Pieces(call.op, call.n)
  /\ x' = Piece(call.op, i, call.n)
  /\ u' = 1 /\ idx' = 0 /\ taps' = <<>> /\ feat' = None
  /\ UNCHANGED <<call, i, map, add_feats, made>>

\* One layer; add_feats and feat are those of the decoder with conditioning.
Step ==
  /\ call # None /\ u > 0
  /\ LET net  == Network(call.op)
         kind == net[u][1]
         done == Apply(kind, x, IF kind \in Cached THEN map[call.op][idx] ELSE None)
         new  == [m \in 1 .. Len(done.taps) |-> made[u] + m - 1]
     IN  /\ taps' = done.taps
         /\ made' = [made EXCEPT ![u] = @ + Len(new)]
         /\ IF kind \in Cached
            THEN map' = [map EXCEPT ![call.op][idx] = done.cache] /\ idx' = idx + 1
            ELSE UNCHANGED <<map, idx>>
         /\ x' = new
         /\ IF u = Len(net) THEN u' = 0 /\ i' = i + 1 ELSE u' = u + 1 /\ i' = i
  /\ UNCHANGED call

Unconditioned == call # None /\ call.cond = None /\ UNCHANGED <<add_feats, feat>>

\* The layer's result, cat'ed to that of the pieces before, is the clip's.
Return ==
  /\ call # None /\ u = 0 /\ i = Pieces(call.op, call.n)
  /\ clear_cache
  /\ call' = None /\ i' = 0 /\ x' = <<>> /\ made' = <<>> /\ taps' = <<>>
  /\ add_feats' = None /\ feat' = None
  /\ UNCHANGED u

\* A layer raises (the device is out of memory): caches stay as they are.
Raise ==
  /\ call # None /\ u > 0
  /\ call' = None /\ i' = 0 /\ u' = 0 /\ x' = <<>> /\ made' = <<>> /\ taps' = <<>>
  /\ add_feats' = None /\ feat' = None
  /\ UNCHANGED <<map, idx>>

Next ==
  \/ encode
  \/ decode
  \/ NextPiece
  \/ Step /\ Unconditioned
  \/ Return
  \/ Raise

Spec == Init /\ [][Next]_vars

-----------------------------------------------------------------------------
\* The clip seen at once: what frame k of a layer's output is made of.
CausalTaps(k, first) ==
  [d \in 1 .. 3 |-> IF k - 3 + d < first THEN Zero ELSE k - 3 + d]

WholeClip(kind, k) ==
  CASE kind = "conv" -> CausalTaps(k, 0)
    [] kind = "down3d" /\ k > 0 -> <<2 * k - 2, 2 * k - 1, 2 * k>>
    [] kind = "up3d" /\ k > 0 -> CausalTaps((k + 1) \div 2, 1)
    [] OTHER -> <<k>>

\* The layer that made taps.
LastLayer == IF u > 0 THEN u - 1 ELSE Len(Network(call.op))

\* Cutting a clip into pieces is invisible: every layer makes every frame of
\* exactly the frames it would be made of if the layer saw the clip at once,
\* whatever the length of the clip, whatever calls came before and wherever
\* they failed.  In the end a clip of 4k + 1 frames has k + 1 latents, and as
\* many frames again when decoded; up to three frames past that are lost.
ReadsWholeClip ==
  /\ taps # <<>> =>
       LET v == LastLayer
       IN  \A m \in 1 .. Len(taps) :
             taps[m] = WholeClip(Network(call.op)[v][1], made[v] - Len(taps) + m - 1)
  /\ call # None /\ u = 0 /\ i = Pieces(call.op, call.n) =>
       made[Len(made)] = IF call.op = "encode" THEN 1 + (call.n - 1) \div 4
                                               ELSE 1 + 4 * (call.n - 1)
=============================================================================
