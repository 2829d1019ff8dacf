------------------------ MODULE TemporalConditioning ------------------------
(***************************************************************************)
(* A chunk on its way through the model, in time.  The input frames are    *)
(* spread over the frames of the chunk (_prepare_lq_and_msk() of           *)
(* server/session_runner.py, ops/temporal.py), a mask marks where they     *)
(* are, the mask encoder packs it beside the latents (msk_encoder.py), and *)
(* the tiled decoder takes windows of latents with windows of conditioning *)
(* apart into groups and back (models/precond.py).  At the end frames are  *)
(* laid out in shared memory (server/shm.py).                              *)
(*                                                                         *)
(* Frames are positions in the chunk, input frames their number, latents   *)
(* the position of a latent in the chunk; pixels matter to the layout      *)
(* only.                                                                   *)
(***************************************************************************)
EXTENDS Integers, Sequences, FiniteSets, SequencesExt

CONSTANTS
  TrainFrames,  \* train_num_frames
  TileTime,     \* tile_min_t, and tile_sample_min_time
  Factors,      \* values of temporal_sf
  Inputs,       \* numbers of input frames
  Batches,      \* values of batch_size
  Sides         \* heights and widths of frames written to shared memory

ASSUME TemporalAssumption ==
  /\ TileTime \in Nat \ {0} /\ TileTime % 5 = 0
  /\ TrainFrames \in Nat \ {0} /\ TrainFrames % TileTime = 0
  /\ TrainFrames >= 3 * TileTime    \* or a skip chunk has nothing to decode
  /\ Factors \cup Inputs \cup Batches \cup Sides \subseteq Nat \ {0}

VARIABLES
  chunk,    \* the chunk under way: sf, inputs, windows decoded, batch
  lq,       \* the input frame at each position
  msk,      \* whether it is there (and not just near)
  m,        \* the positions that the channels of each latent of the mask are of
  decoded,  \* what has been decoded, in the order of the batches
  written   \* the last frame written to shared memory

tempvars == <<chunk, lq, msk, m, decoded, written>>

nT == TrainFrames \div TileTime
Positions == 0 .. (TrainFrames - 1)
Idle == [sf |-> 0, inputs |-> 0, first |-> 0, windows |-> 0, batch |-> 0]

-----------------------------------------------------------------------------
\* The mask: every sf-th position of the input's frames, cut to the chunk's.
Mask(sf, inputs) == [p \in Positions |-> p < inputs * sf /\ p % sf = 0]

\* upsample_temporal(mode="nearest"): of the positions that are kept, the first
\* one at the smallest distance.  Frames are numbered as they are kept.
Distance(p, q) == IF p < q THEN q - p ELSE p - q

kept_indices(mask) == {p \in Positions : mask[p]}
Nearest(p, kept) == {q \in kept : \A r \in kept : Distance(p, q) <= Distance(p, r)}
NumberOf(q, kept) == Cardinality({r \in kept : r < q})

\* Mutant: the last of the nearest frames.
upsample_temporal_late(mask) ==
  LET kept == kept_indices(mask)
      Chosen(near) == CHOOSE q \in near : \A r \in near : r <= q
  IN  [p \in Positions |-> NumberOf(Chosen(Nearest(p, kept)), kept)]

upsample_temporal(mask) ==
  LET kept == kept_indices(mask)
      Chosen(near) == CHOOSE q \in near : \A r \in near : q <= r
  IN  [p \in Positions |-> NumberOf(Chosen(Nearest(p, kept)), kept)]

\* MaskEncoder: a group of five positions is cut as encode() cuts a clip, one
\* and then four; each piece is a latent, and its positions are channels.
MaskPiece(group, k) ==
  IF k = 0 THEN [c \in 1 .. 4 |-> 5 * group] ELSE [c \in 1 .. 4 |-> 5 * group + c]

MaskEncoder == [l \in 0 .. (2 * (TrainFrames \div 5) - 1) |-> MaskPiece(l \div 2, l % 2)]

\* The windows that a role of the session decodes: first, skip and concat,
\* last, standalone.
Decoded == {<<0, nT - 1>>, <<1, nT - 2>>, <<1, nT - 1>>, <<0, nT>>}

\* "b c (k t) h w -> (k b) c t h w": groups of all windows, the first group of
\* each window first.
PerWindow == TileTime \div 5
Groups(windows) ==
  [n \in 1 .. (windows * PerWindow) |->
    [window |-> (n - 1) % windows, group |-> (n - 1) \div windows]]

\* x.split(batch_size)
SplitBy(s, n) ==
  [b \in 1 .. ((Len(s) + n - 1) \div n) |->
    SubSeq(s, n * (b - 1) + 1, IF n * b < Len(s) THEN n * b ELSE Len(s))]

\* Mutant: "(b k)" for "(k b)".
PlaceOfWindowFirst(f, windows) == (f \div TileTime) * PerWindow + (f % TileTime) \div 5 + 1

\* "(k b) c t h w -> b c (k t) h w", then "(b nt) c t h w -> b c (nt t) h w":
\* the place of the group that frame f of the result is in.
PlaceOf(f, windows) == ((f % TileTime) \div 5) * windows + f \div TileTime + 1

NoFrame == [h |-> 0, w |-> 0, c |-> 0, layout |-> "CHW", bytes |-> <<>>]

-----------------------------------------------------------------------------
TemporalInit ==
  /\ chunk = Idle /\ lq = <<>> /\ msk = <<>> /\ m = <<>> /\ decoded = <<>>
  /\ written = NoFrame

\* A chunk is staged, and its mask encoded.
Prepare(sf, inputs, windows, batch) ==
  /\ chunk = Idle
  /\ chunk' = [sf |-> sf, inputs |-> inputs,
               first |-> windows[1], windows |-> windows[2], batch |-> batch]
  /\ msk' = Mask(sf, inputs)
  /\ lq' = upsample_temporal(msk')
  /\ m' = MaskEncoder
  /\ decoded' = <<>> /\ written' = NoFrame

AllDecoded == chunk # Idle /\ Len(decoded) = chunk.windows * PerWindow

\* _decode(): one batch of groups of latents, with the conditioning and the
\* mask of the batch at the same place of their lists.
DecodeBatch ==
  LET z    == SplitBy(Groups(chunk.windows), chunk.batch)
      cond == SplitBy(Groups(chunk.windows), chunk.batch)
      b    == Len(decoded) \div chunk.batch + 1
  IN  /\ chunk # Idle /\ ~ AllDecoded
      /\ decoded' = decoded \o [n \in DOMAIN z[b] |-> [z |-> z[b][n], cond |-> cond[b][n]]]
      /\ UNCHANGED <<chunk, lq, msk, m, written>>

-----------------------------------------------------------------------------
\* write_tensor() of a frame, given as [C, H, W] or [H, W, C]: what has 1, 3 or
\* 4 in front, and something else at the end, is taken for [C, H, W].  A shape
\* that is not the one of the segment then is an error: nothing is written.
Shape(h, w, c, layout) == IF layout = "CHW" THEN <<c, h, w>> ELSE <<h, w, c>>

\* What index e of a tensor is about.
Element(e, layout) ==
  IF layout = "CHW" THEN [channel |-> e[1], y |-> e[2], x |-> e[3]]
                    ELSE [channel |-> e[3], y |-> e[1], x |-> e[2]]

\* Mutant: a view of the tensor, for a permutation of it.
WrittenByView(h, w, c, layout) ==
  LET s == Shape(h, w, c, layout)
      permute == s[1] \in {1, 3, 4} /\ s[1] # s[3]
  IN  IF (IF permute THEN <<s[2], s[3], s[1]>> ELSE s) # <<h, w, c>> THEN <<>>
      ELSE [n \in 1 .. (h * w * c) |->
             LET e == n - 1
             IN  Element(<<e \div (s[2] * s[3]), (e \div s[3]) % s[2], e % s[3]>>, layout)]

Written(h, w, c, layout) ==
  LET s == Shape(h, w, c, layout)
      permute == s[1] \in {1, 3, 4} /\ s[1] # s[3]
      \* Index of byte n - 1 in the tensor.
      Index(n) == LET y == n \div (w * c)
                      x == (n \div c) % w
                      k == n % c
                  IN  IF permute THEN <<k, y, x>> ELSE <<y, x, k>>
  IN  IF (IF permute THEN <<s[2], s[3], s[1]>> ELSE s) # <<h, w, c>> THEN <<>>
      ELSE [n \in 1 .. (h * w * c) |-> Element(Index(n - 1), layout)]

\* The chunk ends with a frame of it in shared memory.
write_tensor(h, w, c, layout) ==
  /\ AllDecoded
  /\ written' = [h |-> h, w |-> w, c |-> c, layout |-> layout,
                 bytes |-> Written(h, w, c, layout)]
  /\ chunk' = Idle /\ lq' = <<>> /\ msk' = <<>> /\ m' = <<>> /\ decoded' = <<>>

\* read_tensor(): the byte of a pixel's channel, [T, H, W, C] in memory.
ByteOf(y, x, channel) == (y * written.w + x) * written.c + channel + 1

TemporalNext ==
  \/ \E sf \in Factors, inputs \in Inputs, windows \in Decoded, batch \in Batches :
       Prepare(sf, inputs, windows, batch)
  \/ DecodeBatch
  \/ \E h \in Sides, w \in Sides, c \in {1, 3, 4}, layout \in {"CHW", "HWC"} :
       write_tensor(h, w, c, layout)

TemporalSpec == TemporalInit /\ [][TemporalNext]_tempvars

-----------------------------------------------------------------------------
\* The positions that latent l stands for: the first of a group of five, or
\* the four after it.
Span(l) == IF l % 2 = 0 THEN {5 * (l \div 2)} ELSE (5 * (l \div 2) + 1) .. (5 * (l \div 2) + 4)

\* Every input frame that has a position in the chunk is there, at its time,
\* marked; positions that are not marked show an input frame none is nearer
\* than, the earlier of two.  Frames past the end of the chunk are cut off,
\* all of them and no other.  A latent of the mask is given a mark when one of
\* the positions it stands for has an input frame, and otherwise none.
KeyframesShown ==
  chunk # Idle =>
    /\ \A k \in 0 .. (chunk.inputs - 1) :
         IF k * chunk.sf < TrainFrames
         THEN msk[k * chunk.sf] /\ lq[k * chunk.sf] = k
         ELSE \A p \in Positions : lq[p] # k
    /\ \A p \in Positions :
         /\ msk[p] <=> p = lq[p] * chunk.sf
         /\ \A k \in 0 .. (chunk.inputs - 1) : k * chunk.sf < TrainFrames =>
              LET own == Distance(p, lq[p] * chunk.sf)
                  its == Distance(p, k * chunk.sf)
              IN  own < its \/ (own = its /\ lq[p] <= k)
    /\ \A l \in 0 .. (2 * (TrainFrames \div 5) - 1) :
         (\E c \in 1 .. 4 : msk[m[l][c]])
           <=> \E k \in 0 .. (chunk.inputs - 1) : k * chunk.sf \in Span(l)

\* The frames of the result are where the windows and groups they were decoded
\* from belong, each decoded with the conditioning of its own position, and
\* the mask that was encoded beside its latent marks that position.
OwnConditioning ==
  AllDecoded =>
    \A f \in 0 .. (chunk.windows * TileTime - 1) :
      LET d == decoded[PlaceOf(f, chunk.windows)]
          Position(g) == (chunk.first + g.window) * TileTime + 5 * g.group + (f % 5)
          latent == 2 * ((chunk.first + d.z.window) * PerWindow + d.z.group)
                      + (IF f % 5 = 0 THEN 0 ELSE 1)
      IN  /\ Position(d.z) = chunk.first * TileTime + f
          /\ Position(d.cond) = chunk.first * TileTime + f
          /\ chunk.first * TileTime + f \in ToSet(m[latent])

\* What is read of the frame written is the frame: there is something, and
\* each byte is of the pixel and the channel that a reader takes it for.
IsReadBack ==
  /\ written.bytes # <<>>
  /\ \A y \in 0 .. (written.h - 1), x \in 0 .. (written.w - 1), k \in 0 .. (written.c - 1) :
       written.bytes[ByteOf(y, x, k)] = [channel |-> k, y |-> y, x |-> x]

\* Shapes that write_tensor() takes for the other layout.
ReadAsOther(f) ==
  \/ f.layout = "CHW" /\ f.w = f.c
  \/ f.layout = "HWC" /\ f.h \in {1, 3, 4} /\ f.h # f.c

\* A frame whose shape tells its layout is read from shared memory as it was
\* written: none is refused, and no pixel or channel is exchanged.  What comes
\* of the other shapes is the subject of BothLayoutsKept.
LayoutKept == written # NoFrame /\ ~ ReadAsOther(written) => IsReadBack

\* write_tensor(), "tensor: Frame tensor formatted as [T, C, H, W] or
\* [T, H, W, C] uint8" (shm.py:129): a frame in either layout is read from
\* shared memory as it was written.
BothLayoutsKept == written # NoFrame => IsReadBack
=============================================================================
