---------------------------- MODULE SpatialTiles ----------------------------
(***************************************************************************)
(* The tiles a chunk is encoded and decoded in (models/precond.py, with    *)
(* vae_decode() and the crop of server/session_runner.py).  Tiles overlap, *)
(* and where they do, each is blended with the one above and then the one  *)
(* on its left: in place, so that a tile blends with neighbours that are   *)
(* blended already.  What is kept of each tile is as long as the stride.   *)
(*                                                                         *)
(* A pixel of a tile is the set of the samples it is mixed of, and a       *)
(* sample is the tile it was made in and its place in the picture.  When   *)
(* encoding, pixels are those of latents: both sides count in units of     *)
(* what they make.                                                         *)
(***************************************************************************)
EXTENDS Integers

CONSTANTS
  TileMin,     \* tile_sample_min_height and _width
  TileStride,  \* tile_sample_stride_height and _width
  Ratio,       \* spatial_compression_ratio
  Heights,     \* heights of the frames
  Widths       \* and their widths

ASSUME TileAssumption ==
  /\ TileMin \in Nat /\ TileStride \in Nat /\ Ratio \in Nat \ {0}
  /\ TileMin % Ratio = 0 /\ TileStride % Ratio = 0
  /\ 0 < TileStride /\ TileStride <= TileMin
  /\ Heights \subseteq Nat \ {0} /\ Widths \subseteq Nat \ {0}

VARIABLES
  frame,   \* the chunk under way: height and width of its frames, for_train
  step,    \* "idle", "encode" or "decode"
  size,    \* height and width of the picture that is being made
  tiles,   \* its tiles, a list for each row of them
  next     \* the tile that is blended next

tilevars == <<frame, step, size, tiles, next>>

Least(a, b) == IF a < b THEN a ELSE b

\* Tile and stride, in units of what a step makes.
Long(op) == IF op = "encode" THEN TileMin \div Ratio ELSE TileMin
Stride(op) == IF op = "encode" THEN TileStride \div Ratio ELSE TileStride

\* The number of tiles along a side.
Count(n, op) == (n + Stride(op) - 1) \div Stride(op)

\* How long tile k is along a side of n: tiles to encode are padded, tiles to
\* decode end where the latents do.
Length(k, n, op) ==
  IF op = "encode" THEN Long(op) ELSE Least(Long(op), n - k * Stride(op))

-----------------------------------------------------------------------------
\* _encode() or _decode() of one tile of a picture of h by w.
Tile(i, j, h, w, op) ==
  [h |-> Length(i, h, op), w |-> Length(j, w, op),
   px |-> [y \in 0 .. (Length(i, h, op) - 1) |-> [x \in 0 .. (Length(j, w, op) - 1) |->
            {[i |-> i, j |-> j, y |-> i * Stride(op) + y, x |-> j * Stride(op) + x]}]]]

Tiles(h, w, op) ==
  [i \in 0 .. (Count(h, op) - 1) |-> [j \in 0 .. (Count(w, op) - 1) |-> Tile(i, j, h, w, op)]]

\* How many rows, or columns, are blended.
Extent(a, b, op) == Least(Least(a, b), Long(op) - Stride(op))

\* Mutant: blended with the top of the tile above, not its bottom.
blend_v_top(a, b, op) ==
  LET extent == Extent(a.h, b.h, op)
  IN  [h |-> b.h, w |-> b.w, px |->
       [y \in 0 .. (b.h - 1) |-> [x \in 0 .. (b.w - 1) |->
        IF y >= extent THEN b.px[y][x]
        ELSE a.px[y][x] \cup (IF y > 0 THEN b.px[y][x] ELSE {})]]]

\* The weight of b grows from nothing with the distance from its edge.
blend_v(a, b, op) ==
  LET extent == Extent(a.h, b.h, op)
  IN  [h |-> b.h, w |-> b.w, px |->
       [y \in 0 .. (b.h - 1) |-> [x \in 0 .. (b.w - 1) |->
        IF y >= extent THEN b.px[y][x]
        ELSE a.px[a.h - extent + y][x] \cup (IF y > 0 THEN b.px[y][x] ELSE {})]]]

\* Mutant: the first column of the overlap is left as it is.
blend_h_late(a, b, op) ==
  LET extent == Extent(a.w, b.w, op)
  IN  [h |-> b.h, w |-> b.w, px |->
       [y \in 0 .. (b.h - 1) |-> [x \in 0 .. (b.w - 1) |->
        IF x >= extent \/ x = 0 THEN b.px[y][x]
        ELSE a.px[y][a.w - extent + x] \cup b.px[y][x]]]]

blend_h(a, b, op) ==
  LET extent == Extent(a.w, b.w, op)
  IN  [h |-> b.h, w |-> b.w, px |->
       [y \in 0 .. (b.h - 1) |-> [x \in 0 .. (b.w - 1) |->
        IF x >= extent THEN b.px[y][x]
        ELSE a.px[y][a.w - extent + x] \cup (IF x > 0 THEN b.px[y][x] ELSE {})]]]

-----------------------------------------------------------------------------
\* The side of the latents that are made of a side of n: whole tiles
\* (for_train), as the sessions ask for, or as much as the frame has.
LatentSide(n, train) ==
  LET made == ((n + TileStride - 1) \div TileStride) * Stride("encode")
  IN  IF train THEN made ELSE Least(made, n \div Ratio)

Size(h, w) == [h |-> h, w |-> w]
NoTiles == [none \in {} |-> none]

TilesInit ==
  /\ frame = [h |-> 0, w |-> 0, train |-> TRUE] /\ step = "idle"
  /\ size = Size(0, 0) /\ tiles = NoTiles /\ next = <<0, 0>>

\* A step makes a picture of h by w: all of its tiles first.
Make(op, h, w) ==
  /\ step' = op /\ size' = Size(h, w) /\ tiles' = Tiles(h, w, op) /\ next' = <<0, 0>>

\* encode() of a chunk.
Encode(h, w, train) ==
  /\ step = "idle"
  /\ frame' = [h |-> h, w |-> w, train |-> train]
  /\ Make("encode", LatentSide(h, TRUE), LatentSide(w, TRUE))

\* Tile j of row i, blended with the one above, and then the one on its left.
Down(i, j) == IF i > 0 THEN blend_v(tiles[i - 1][j], tiles[i][j], step) ELSE tiles[i][j]
Across(i, j) == IF j > 0 THEN blend_h(tiles[i][j - 1], Down(i, j), step) ELSE Down(i, j)

\* One turn of the loop over rows and tiles.
Blend ==
  LET i == next[1]
      j == next[2]
  IN  /\ step # "idle"
      /\ i < Count(size.h, step) /\ j < Count(size.w, step)
      /\ tiles' = [tiles EXCEPT ![i][j] = Across(i, j)]
      /\ next' = IF j + 1 < Count(size.w, step) THEN <<i, j + 1>> ELSE <<i + 1, 0>>
      /\ UNCHANGED <<frame, step, size>>

Blended == next = <<Count(size.h, step), 0>>

\* What is kept of the tiles is put together, denoised, and decoded.
Decode ==
  LET h == LatentSide(frame.h, frame.train)
      w == LatentSide(frame.w, frame.train)
  IN  /\ step = "encode" /\ Blended
      /\ h > 0 /\ w > 0
      /\ Make("decode", h * Ratio, w * Ratio)
      /\ UNCHANGED frame

\* The chunk is done, or there is nothing to put together: an error.
Finish ==
  /\ \/ step = "decode"
     \/ step = "encode" /\ 0 \in {LatentSide(frame.h, frame.train),
                                  LatentSide(frame.w, frame.train)}
  /\ Blended
  /\ step' = "idle" /\ tiles' = NoTiles /\ next' = <<0, 0>> /\ size' = Size(0, 0)
  /\ UNCHANGED frame

TilesNext ==
  \/ \E h \in Heights, w \in Widths, train \in BOOLEAN : Encode(h, w, train)
  \/ Blend
  \/ Decode
  \/ Finish

TilesSpec == TilesInit /\ [][TilesNext]_tilevars

-----------------------------------------------------------------------------
\* The picture that is put together: the first rows and columns of each tile,
\* one stride at most, one after the other.
Kept(n, op) == Least(n, Stride(op))
PictureSide(n, op) ==
  LET last == Count(n, op) - 1 IN last * Stride(op) + Kept(Length(last, n, op), op)

Picture(y, x) ==
  LET S == Stride(step) IN tiles[y \div S][x \div S].px[y % S][x % S]

\* The conditioning frames have been padded, or cut, to the size of what is
\* decoded.  Tile k gets this many of their rows, from this one on.
CondTile(k, n) ==
  LET first == k * Stride("encode") * Ratio
  IN  <<first, Least((k * Stride("encode") + Long("encode")) * Ratio, n) - first>>

\* Everything in a tile comes from where it is put: no blending, whatever was
\* blended before, moves a sample.
InPlace ==
  \A i \in DOMAIN tiles : \A j \in DOMAIN tiles[i] :
    \A y \in DOMAIN tiles[i][j].px : \A x \in DOMAIN tiles[i][j].px[y] :
      \A s \in tiles[i][j].px[y][x] :
        s.y = i * Stride(step) + y /\ s.x = j * Stride(step) + x

\* No pixel is missing, and there are no seams.  What is kept of the tiles is
\* the picture; the chunk the sessions ask for has all pixels of its frames;
\* each pixel is made of something; along its upper and left edge, where it
\* overlaps its neighbour, a tile continues the neighbour and nothing of its
\* own; and a tile is decoded with the conditioning of its own pixels.
SeamlessPicture ==
  step # "idle" /\ Blended =>
    /\ PictureSide(size.h, step) = size.h /\ PictureSide(size.w, step) = size.w
    /\ step = "decode" /\ frame.train => size.h >= frame.h /\ size.w >= frame.w
    /\ \A y \in 0 .. (size.h - 1), x \in 0 .. (size.w - 1) :
         /\ Picture(y, x) # {}
         /\ TileStride < TileMin =>
              \A s \in Picture(y, x) :
                /\ s.i > 0 => s.y > s.i * Stride(step)
                /\ s.j > 0 => s.x > s.j * Stride(step)
    /\ step = "decode" =>
         \A i \in DOMAIN tiles : \A j \in DOMAIN tiles[i] :
           /\ CondTile(i, size.h) = <<i * Stride(step), tiles[i][j].h>>
           /\ CondTile(j, size.w) = <<j * Stride(step), tiles[i][j].w>>
=============================================================================
