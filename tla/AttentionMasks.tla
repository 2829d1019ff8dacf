--------------------------- MODULE AttentionMasks ---------------------------
(***************************************************************************)
(* The blocks of the diffusion transformer (models/transformer_wan.py) and *)
(* the masks that tell what a token may attend to.  A chunk is a grid of   *)
(* windows, the tiles it was encoded in, of T x H x W tokens each; most    *)
(* blocks stay within windows, and the others let neighbours see each      *)
(* other.  Each block attends twice: attn2 is given no other text, so that *)
(* it attends to the chunk again.                                          *)
(*                                                                         *)
(* A token is its number in the order the blocks are given tokens, window  *)
(* by window.  What a token came to know of is a set of tokens; what it    *)
(* knows is left out.                                                      *)
(***************************************************************************)
EXTENDS Integers, Sequences, FiniteSets, SequencesExt

CONSTANTS
  WindowsT, WindowsH, WindowsW,  \* numbers of windows of a chunk
  LatentsT, LatentsH, LatentsW,  \* latents of a window
  Blocks                         \* numbers of blocks of a transformer

ASSUME AttentionAssumption ==
  /\ WindowsT \cup WindowsH \cup WindowsW \cup Blocks \subseteq Nat \ {0}
  /\ {LatentsT, LatentsH, LatentsW} \subseteq Nat \ {0}
  /\ LatentsH % 2 = 0 /\ LatentsW % 2 = 0

VARIABLES
  model,  \* the transformer: blocks and attention_type
  grid,   \* windows of the chunk
  masks,  \* prepare_attention_mask(): for each block, those of attn1 and attn2
  done,   \* blocks done
  origin, \* a token
  known   \* the tokens that know of it

attnvars == <<model, grid, masks, done, origin, known>>

\* patch_size is (1, 2, 2).
T == LatentsT
H == LatentsH \div 2
W == LatentsW \div 2
TokensPerWindow == T * H * W

Tokens == 0 .. (grid.t * grid.h * grid.w * TokensPerWindow - 1)

\* "(nt nh nw t h w)": the window of token n, and its place in the picture.
Window(n) ==
  LET c == n \div TokensPerWindow
  IN  <<c \div (grid.h * grid.w), (c \div grid.w) % grid.h, c % grid.w>>

Place(n) ==
  LET inside == n % TokensPerWindow
  IN  <<Window(n)[1] * T + inside \div (H * W),
        Window(n)[2] * H + ((inside \div W) % H),
        Window(n)[3] * W + (inside % W)>>

\* Mutant: "(nt nh nw t h w)" for "(nt t nh h nw w)".
RowOfWindows(n) == n

\* rope() numbers the places of the whole picture, row by row; its rows are
\* then taken apart as "(nt t nh h nw w)" and put in the order of the tokens.
RowOf(n) ==
  LET c == Window(n)
      e == n % TokensPerWindow
      row == (c[1] * T + e \div (H * W)) * grid.h + c[2]
      col == (row * H + ((e \div W) % H)) * grid.w + c[3]
  IN  col * W + (e % W)

RotaryOf(n) ==
  LET pph == (grid.h * LatentsH) \div 2
      ppw == (grid.w * LatentsW) \div 2
  IN  <<RowOf(n) \div (pph * ppw), (RowOf(n) \div ppw) % pph, RowOf(n) % ppw>>

\* Timesteps are one for each window: "(b nt nh nw)".
TimestepOf(n) == (Window(n)[1] * grid.h + Window(n)[2]) * grid.w + Window(n)[3]

Extents == <<grid.t * T, grid.h * H, grid.w * W>>
Dims == 1 .. 3
Apart(a, b) == IF a < b THEN b - a ELSE a - b

-----------------------------------------------------------------------------
\* Masks: what they are named for, and how far they reach.
Full == [kind |-> "full", reach |-> <<0, 0, 0>>]
Chunk == [kind |-> "windows", reach |-> <<0, 0, 0>>]
Slide(t, h, w) == [kind |-> "windows", reach |-> <<t, h, w>>]
Sliding(t, h, w) == [kind |-> "tokens", reach |-> <<t, h, w>>]
Swin == [kind |-> "swin", reach |-> <<0, 0, 0>>]

\* torch.roll: the window that is half a window further on, around the edges.
Rolled(n) ==
  LET shift == <<T \div 2, H \div 2, W \div 2>>
      side  == <<T, H, W>>
  IN  [d \in Dims |-> ((Place(n)[d] + shift[d]) % Extents[d]) \div side[d]]

Within(p, q, reach) == \A d \in Dims : Apart(p[d], q[d]) <= reach[d]

Attends(mask, q, kv) ==
  \/ mask.kind = "full"
  \/ mask.kind = "windows" /\ Within(Window(q), Window(kv), mask.reach)
  \/ mask.kind = "tokens" /\ Within(Place(q), Place(kv), mask.reach)
  \/ mask.kind = "swin" /\ Rolled(q) = Rolled(kv)

-----------------------------------------------------------------------------
\* A mask that is not a list of two is that of attn1 and of attn2.
Both(mask) == <<mask, mask>>
Times(n, mask) == [b \in 1 .. n |-> mask]

_full_attention_mask(blocks) == Times(blocks, Both(Full))

_swin_attention_mask(blocks) ==
  [b \in 1 .. blocks |-> Both(IF (b - 1) % 2 = 0 THEN Chunk ELSE Swin)]

\* Mutant: the first block of a stride slides, not the last one.
_sliding_chunk_first(blocks, slide, num_slide_mask, single_slide_per_block) ==
  LET stride == blocks \div num_slide_mask
  IN  Times(blocks % num_slide_mask, Both(Chunk))
        \o [b \in 1 .. (stride * num_slide_mask) |->
             IF (b - 1) % stride # 0 THEN Both(Chunk)
             ELSE IF single_slide_per_block THEN <<Chunk, slide>> ELSE Both(slide)]

\* The last block of every stride slides.
_sliding_chunk_attention_mask(blocks, slide, num_slide_mask, single_slide_per_block) ==
  LET stride == blocks \div num_slide_mask
  IN  Times(blocks % num_slide_mask, Both(Chunk))
        \o [b \in 1 .. (stride * num_slide_mask) |->
             IF b % stride # 0 THEN Both(Chunk)
             ELSE IF single_slide_per_block THEN <<Chunk, slide>> ELSE Both(slide)]

\* Wide windows in the outer blocks; int(blocks * 0.8) blocks between them.
_slide_chunk_bottlenect_attention_mask(blocks) ==
  LET bn  == (blocks * 8) \div 10
      out == (blocks - bn) \div 2
  IN  Times(blocks - bn - out, Both(Slide(2, 8, 8)))
        \o Times(bn, Both(Slide(1, 1, 1)))
        \o Times(out, Both(Slide(2, 8, 8)))

_sliding_window_attention_mask(blocks) == Times(blocks, Both(Sliding(4, 16, 16)))

\* _attention_map, as far as it is about sliding over windows: the slide, how
\* many blocks get it, and whether it is for attn2 only.
SlideChunk(type, blocks) ==
  CASE type = "slide_chunk" -> <<Slide(1, 1, 1), 3, TRUE>>
    [] type = "slide_chunk_6" -> <<Slide(1, 1, 1), 6, TRUE>>
    [] type = "slide_chunk_all" -> <<Slide(1, 1, 1), blocks, TRUE>>
    [] type = "slide_chunk_half_block" -> <<Slide(1, 1, 1), blocks \div 2, FALSE>>
    [] type = "slide_chunk_all_block" -> <<Slide(1, 1, 1), blocks, FALSE>>
    [] type = "slide_chunk_all_block_2x1x1" -> <<Slide(2, 1, 1), blocks, FALSE>>
    [] type = "slide_chunk_all_block_2x0x0" -> <<Slide(2, 0, 0), blocks, FALSE>>

SlideChunkTypes ==
  {"slide_chunk", "slide_chunk_6", "slide_chunk_all", "slide_chunk_half_block",
   "slide_chunk_all_block", "slide_chunk_all_block_2x1x1", "slide_chunk_all_block_2x0x0"}

Types == SlideChunkTypes \cup {"full", "swin", "slide_chunk_bottleneck", "slide_window_4x16x16"}

prepare_attention_mask(type, blocks) ==
  CASE type = "full" -> _full_attention_mask(blocks)
    [] type = "swin" -> _swin_attention_mask(blocks)
    [] type = "slide_chunk_bottleneck" -> _slide_chunk_bottlenect_attention_mask(blocks)
    [] type = "slide_window_4x16x16" -> _sliding_window_attention_mask(blocks)
    [] type \in SlideChunkTypes ->
         LET s == SlideChunk(type, blocks)
         IN  _sliding_chunk_attention_mask(blocks, s[1], s[2], s[3])

\* Half of one block is none: a division by zero.
DividesByZero(type, blocks) == type = "slide_chunk_half_block" /\ blocks = 1

-----------------------------------------------------------------------------
NoModel == [type |-> "none", blocks |-> 0]

AttentionInit ==
  /\ model = NoModel /\ grid = [t |-> 0, h |-> 0, w |-> 0]
  /\ masks = <<>> /\ done = 0 /\ origin = 0 /\ known = {}

\* forward() up to the blocks.
Forward(type, blocks, g, n) ==
  /\ model = NoModel
  /\ ~ DividesByZero(type, blocks)
  /\ n < g.t * g.h * g.w * TokensPerWindow
  /\ model' = [type |-> type, blocks |-> blocks]
  /\ grid' = g
  /\ masks' = prepare_attention_mask(type, blocks)
  /\ done' = 0 /\ origin' = n /\ known' = {n}

\* One attention: what a token attends to, it knows of.
Knowing(mask, some) == some \cup {q \in Tokens : \E kv \in some : Attends(mask, q, kv)}

\* One block, in the zip of blocks and masks.
Block ==
  /\ model # NoModel
  /\ done < model.blocks /\ done < Len(masks)
  /\ known' = Knowing(masks[done + 1][2], Knowing(masks[done + 1][1], known))
  /\ done' = done + 1
  /\ UNCHANGED <<model, grid, masks, origin>>

ForwardEnds ==
  /\ model # NoModel
  /\ done \in {model.blocks, Len(masks)}
  /\ model' = NoModel /\ grid' = [t |-> 0, h |-> 0, w |-> 0]
  /\ masks' = <<>> /\ done' = 0 /\ origin' = 0 /\ known' = {}

AttentionNext ==
  \/ \E type \in Types, blocks \in Blocks, t \in WindowsT, h \in WindowsH, w \in WindowsW :
       \E n \in {0, TokensPerWindow, t * h * w * TokensPerWindow - 1} :
         Forward(type, blocks, [t |-> t, h |-> h, w |-> w], n)
  \/ Block
  \/ ForwardEnds

AttentionSpec == AttentionInit /\ [][AttentionNext]_attnvars

-----------------------------------------------------------------------------
\* How far a token is known after some blocks, without the masks: d windows
\* for each attention that slides, d as the type says.  Slides are n in all,
\* the last in the last block, at even distances; n is not reached when there
\* are fewer blocks.
Slides(n) ==
  LET stride == model.blocks \div n
      first  == model.blocks % n
  IN  IF stride = 0 \/ done < first THEN 0 ELSE (done - first) \div stride

\* The bottleneck: four of five blocks, in the middle.
Outer ==
  LET others == model.blocks - (4 * model.blocks) \div 5
      IsOuter(b) == 2 * b <= others + 1 \/ 2 * (model.blocks - b) < others - 1
  IN  Cardinality({b \in 1 .. done : IsOuter(b)})

Reach ==
  LET Far(n, t, h, w) == <<n * t, n * h, n * w>>
      type == model.type
  IN  CASE type = "slide_chunk" -> Far(Slides(3), 1, 1, 1)
        [] type = "slide_chunk_6" -> Far(Slides(6), 1, 1, 1)
        [] type = "slide_chunk_all" -> Far(done, 1, 1, 1)
        [] type = "slide_chunk_half_block" -> Far(2 * Slides(model.blocks \div 2), 1, 1, 1)
        [] type = "slide_chunk_all_block" -> Far(2 * done, 1, 1, 1)
        [] type = "slide_chunk_all_block_2x1x1" -> Far(2 * done, 2, 1, 1)
        [] type = "slide_chunk_all_block_2x0x0" -> Far(2 * done, 2, 0, 0)
        [] type = "slide_chunk_bottleneck" ->
             [d \in Dims |-> 2 * (done - Outer) + 2 * Outer * <<2, 8, 8>>[d]]
        [] type = "slide_window_4x16x16" -> Far(2 * done, 4, 16, 16)

\* Shifted windows of swin go around the edges of the picture.
Around(p, q, n) == LET a == Apart(p, q) IN IF a < n - a THEN a ELSE n - a
Shifts(d) == <<T, H, W>>[d] > 1

Knows(q) ==
  IF done = 0 THEN q = origin
  ELSE CASE model.type = "full" -> TRUE
         [] model.type = "swin" ->
              \A d \in Dims :
                Around(Window(q)[d], Window(origin)[d], <<grid.t, grid.h, grid.w>>[d])
                  <= IF Shifts(d) THEN (done - 1) \div 2 ELSE 0
         [] model.type = "slide_window_4x16x16" -> Within(Place(q), Place(origin), Reach)
         [] OTHER -> Within(Window(q), Window(origin), Reach)

\* Every block has its masks, and what the type of attention promises is what
\* comes of them: as many slides as it is named for, spread to the last block,
\* so that a token is known exactly as far as they reach.  (Of swin, after a
\* block that is not shifted.)
AttentionReach ==
  model # NoModel =>
    /\ Len(masks) = model.blocks
    /\ ~ (model.type = "swin" /\ done > 0 /\ done % 2 = 0) =>
         known = {q \in Tokens : Knows(q)}

\* A token's rotary embedding is that of its own place in the chunk, and its
\* timestep that of its own window.
TokensInPlace ==
  \A n \in Tokens :
    /\ RotaryOf(n) = Place(n)
    /\ TimestepOf(n) = n \div TokensPerWindow
=============================================================================
