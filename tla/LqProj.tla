------------------------------- MODULE LqProj -------------------------------
(***************************************************************************)
(* The projections of low-quality frames in models/utils.py: two           *)
(* convolutions over time, each of four frames with stride two, applied to *)
(* four frames of the clip at a time.  forward() takes a whole clip (LQProj *)
(* and Buffer_LQ4x_Proj), stream_forward() (Buffer_LQ4x_Proj) the clip     *)
(* piece by piece, and clip_idx tells it whether a clip has begun.         *)
(*                                                                         *)
(* A frame is its number in the clip; what a convolution makes is the list *)
(* of the frames it was made of.  The list of one linear layer stands for  *)
(* those of all of them.                                                   *)
(***************************************************************************)
EXTENDS Integers, Sequences, SequencesExt

CONSTANTS
  MaxClip   \* bound: frames of a clip

ASSUME LqAssumption == MaxClip \in Nat

VARIABLES
  clip_idx,  \* pieces that stream_forward() has taken since clear_cache()
  cache,     \* cache["conv1"] and cache["conv2"], once there is a cache
  fed,       \* frames given to stream_forward() since then (observation only)
  out,       \* what it returned, put together (observation only)
  whole      \* what the last forward() returned for a clip (observation only)

lqvars == <<clip_idx, cache, fed, out, whole>>

Kernel == 4
ConvStride == 2

-----------------------------------------------------------------------------
\* CausalConv3d.forward(x, cache_x): two frames in front, from the cache, and
\* the first frame repeated where the cache has fewer.
CausalConv(s, before) ==
  LET joined == before \o s
      padded == IF Len(before) >= 2 THEN joined
                ELSE [m \in 1 .. (2 - Len(before)) |-> joined[1]] \o joined
  IN  [m \in 1 .. ((Len(padded) - Kernel) \div ConvStride + 1) |->
        FlattenSeq(SubSeq(padded, ConvStride * (m - 1) + 1, ConvStride * (m - 1) + Kernel))]

\* Too few frames for the kernel is an error.
TooShort(s, before) ==
  (IF Len(before) >= 2 THEN Len(before) ELSE 2) + Len(s) < Kernel

\* The cache a convolution is given is the end of its own input.
OwnEnd(s) == SubSeq(s, IF Len(s) > 2 THEN Len(s) - 1 ELSE 1, Len(s))

Conv1(s) == CausalConv(s, OwnEnd(s))
Conv2(s) == CausalConv(s, OwnEnd(s))

\* Frames from..to - 1 of the clip, those past its end left out.
Slice(s, from, to) == SubSeq(s, from + 1, IF to < Len(s) THEN to ELSE Len(s))

Clip(t) == [m \in 1 .. t |-> <<m - 1>>]
\* Mutant: one frame too few in front.
PaddedTwice(s) == <<s[1], s[1]>> \o s

\* The first frame fills up the first piece.
Padded(s) == <<s[1], s[1], s[1]>> \o s
Iterations(t) == 1 + (t - 1) \div 4

\* Piece k of a clip of t frames.
Piece4(t, k) == Slice(Padded(Clip(t)), 4 * (k - 1), 4 * k)

\* LQProj.forward()
LQProj_forward(t) ==
  FlattenSeq([k \in 1 .. Iterations(t) |-> Conv2(Conv1(Piece4(t, k)))])

\* Buffer_LQ4x_Proj.forward(): the first piece only fills the cache.
Buffer_forward(t) ==
  FlattenSeq([k \in 1 .. Iterations(t) |->
    IF k = 1 THEN <<>> ELSE Conv2(Conv1(Piece4(t, k)))])

-----------------------------------------------------------------------------
NoClip == [t |-> 0, lq |-> <<>>, buffer |-> <<>>]
lq_clear == [conv1 |-> <<>>, conv2 |-> <<>>]

\* __init__() makes no cache: clear_cache() and forward() do.
NoCache == <<>>

LqInit == clip_idx = 0 /\ cache = NoCache /\ fed = 0 /\ out = <<>> /\ whole = NoClip

lq_clear_cache ==
  /\ clip_idx' = 0 /\ cache' = lq_clear
  /\ fed' = 0 /\ out' = <<>> /\ whole' = NoClip

\* forward() of a whole clip, which starts and forgets a stream.  A clip of
\* one piece leaves Buffer_LQ4x_Proj nothing to put together, an error.
lq_forward ==
  \E t \in 1 .. MaxClip :
    LET last == Piece4(t, Iterations(t))
    IN  /\ clip_idx' = 0 /\ fed' = 0 /\ out' = <<>>
        /\ cache' = [conv1 |-> OwnEnd(last), conv2 |-> OwnEnd(Conv1(last))]
        /\ whole' = [t |-> t, lq |-> LQProj_forward(t), buffer |-> Buffer_forward(t)]

\* Mutant: the first piece is projected, too.
stream_first_projects ==
  LET s == Padded(Clip(1)) IN
  /\ clip_idx = 0 /\ DOMAIN cache # {}
  /\ cache' = [conv1 |-> OwnEnd(s), conv2 |-> OwnEnd(Conv1(s))]
  /\ clip_idx' = clip_idx + 1
  /\ fed' = 1 /\ out' = Conv2(Conv1(s)) /\ whole' = NoClip

\* stream_forward() of the first piece of a clip, its first frame; an error
\* while there is no cache to put its end in.
stream_first ==
  LET s == Padded(Clip(1)) IN
  /\ clip_idx = 0 /\ DOMAIN cache # {}
  /\ cache' = [conv1 |-> OwnEnd(s), conv2 |-> OwnEnd(Conv1(s))]
  /\ clip_idx' = clip_idx + 1
  /\ fed' = 1 /\ out' = <<>> /\ whole' = NoClip

\* stream_forward() of the next four frames.
stream_next ==
  LET s == [m \in 1 .. 4 |-> <<fed + m - 1>>] IN
  /\ clip_idx > 0 /\ fed + 4 <= MaxClip
  /\ cache' = [conv1 |-> OwnEnd(s), conv2 |-> OwnEnd(Conv1(s))]
  /\ out' = out \o Conv2(Conv1(s))
  /\ clip_idx' = clip_idx + 1
  /\ fed' = fed + 4
  /\ UNCHANGED whole

\* The first frame of the next clip, when nobody called clear_cache(), is
\* taken for a further piece: the convolution raises, and keeps its new cache.
stream_stale ==
  LET s == Clip(1) IN
  /\ clip_idx > 0
  /\ TooShort(s, OwnEnd(s))
  /\ cache' = [cache EXCEPT !.conv1 = OwnEnd(s)]
  /\ UNCHANGED <<clip_idx, fed, out, whole>>

LqNext ==
  \/ lq_clear_cache
  \/ lq_forward
  \/ stream_first
  \/ stream_next
  \/ stream_stale

LqSpec == LqInit /\ [][LqNext]_lqvars

-----------------------------------------------------------------------------
\* A clip fed to stream_forward() piece by piece gives what forward() gives
\* for the clip at once.
StreamMatchesForward == clip_idx > 0 => out = Buffer_forward(fed)

\* One projection for each latent the VAE makes of the clip, each made of the
\* frames of its latent and of no other: four, or the first frame.  The
\* buffered projection has none for the first latent.
ProjectionPerLatent ==
  whole.t > 0 =>
    /\ Len(whole.lq) = 1 + (whole.t - 1) \div 4
    /\ \A k \in DOMAIN whole.lq :
         ToSet(whole.lq[k]) = IF k = 1 THEN {0} ELSE (4 * k - 7) .. (4 * k - 4)
    /\ whole.buffer = Tail(whole.lq)
=============================================================================
