--------------------------- MODULE ConditionedVae ---------------------------
(***************************************************************************)
(* The decoders with conditioning, models/vae2_1_cond.py ("v1") and        *)
(* models/vae2_1_cond_v2.py ("v2").  encode_cond() cuts the conditioning   *)
(* frames and their mask as encode() cuts a clip, and makes a list of      *)
(* features of each piece; decode() then pops one after every module of    *)
(* the decoder and adds it to what the module made.  v1 shuffles frames    *)
(* and pixels into channels, v2 runs an encoder that mirrors the decoder,  *)
(* without caches, whose features keep the rate of the clip.               *)
(*                                                                         *)
(* A feature is its spatial level (how often its sides were halved) and,   *)
(* for each of its frames, the conditioning frames it stands for.          *)
(***************************************************************************)
EXTENDS CausalVae

ASSUME CondAssumption == Cardinality(TimeDown) = 2

\* No conditioning is told from conditioning of either form.
ASSUME FormAssumption == None \notin {"v1", "v2"}

VARIABLE zero_convs   \* the pairs of levels its convolutions are for, in v2

Doublings == {"up2d", "up3d"}
Repeated(a, n) == [m \in 1 .. n |-> a]

\* The layers that end a module, in the order of the modules.
EndsUpTo(net, v) == Cardinality({w \in 1 .. v : net[w][2]})
ModuleEnds(net) ==
  [m \in 1 .. EndsUpTo(net, Len(net)) |->
    CHOOSE v \in DOMAIN net : net[v][2] /\ EndsUpTo(net, v) = m]

\* Level of what layer v of the decoder makes, and how often its frames are
\* still going to be doubled.
LevelAfter(v) == Levels - 1 - Before(Decoder3d, v + 1, Doublings)
DoublingsAfter(v) == Cardinality(TimeDown) - Before(Decoder3d, v + 1, {"up3d"})

-----------------------------------------------------------------------------
\* v1: one feature for each module of the decoder, in the order of the
\* modules.  A feature halves the sides, and groups the frames, as much as
\* the decoder is still going to double them there.
ConditionEncoder3d ==
  LET Stage(k, n) == [m \in 1 .. n |->
        [level |-> Levels - k,
         ff |-> 2 ^ (2 - Cardinality({d \in TimeDown : d > Levels - 1 - k}))]]
  IN  Stage(1, 4)
        \o FlattenSeq([k \in 1 .. Levels |->
             Stage(k, ResBlocks + 1) \o IF k = Levels THEN <<>> ELSE Stage(k + 1, 1)])

\* Mutant: "(f1 f2)" for "(f2 f1)".
pixel_shuffle_strided(s, ff) ==
  LET all == IF Len(s) = 1 THEN [m \in 1 .. ff |-> s[1]] ELSE s
      n   == Len(all) \div ff
  IN  [m \in 1 .. n |-> [c \in 1 .. ff |-> all[n * (c - 1) + m]]]

\* One frame stands in for a whole group.
pixel_shuffle(s, ff) ==
  LET all == IF Len(s) = 1 THEN [m \in 1 .. ff |-> s[1]] ELSE s
  IN  [m \in 1 .. (Len(all) \div ff) |-> SubSeq(all, ff * (m - 1) + 1, ff * m)]

FeaturesV1(s) ==
  [m \in DOMAIN ConditionEncoder3d |->
    [level |-> ConditionEncoder3d[m].level,
     at |-> pixel_shuffle(s, ConditionEncoder3d[m].ff)]]

-----------------------------------------------------------------------------
\* Mutant: as many residual blocks as the encoder has, not the decoder.
ConditionEncoderAsymmetric ==
  [down |-> FlattenSeq([k \in 1 .. Levels |->
              Repeated(k - 1, ResBlocks)
                \o IF k = Levels THEN <<>> ELSE <<k - 1>>]),
   middle |-> Repeated(Levels - 1, 3)]

\* v2: the encoder that mirrors the decoder, as the level of what goes into
\* each of its modules on the way down, and in the middle.  It is called
\* without caches, so that its layers keep the number of frames.
ConditionEncoderSymmetric ==
  [down |-> FlattenSeq([k \in 1 .. Levels |->
              Repeated(k - 1, ResBlocks + 1)
                \o IF k = Levels THEN <<>> ELSE <<k - 1>>]),
   middle |-> Repeated(Levels - 1, 3)]

\* The features, from the last one back.  What goes into the middle is listed
\* once more.
CondFeatures ==
  Reverse(ConditionEncoderSymmetric.down \o <<Levels - 1>>
            \o ConditionEncoderSymmetric.middle)

\* The convolutions that fit a feature to what a module of the decoder makes,
\* one for every pair of them.
_create_zero_convs(ends) == Zip(CondFeatures, [k \in DOMAIN ends |-> LevelAfter(ends[k])])

FeaturesV2(s) ==
  [k \in DOMAIN zero_convs |->
    [level |-> zero_convs[k][2], at |-> [m \in DOMAIN s |-> <<s[m]>>]]]

\* What the constructor and encode_cond() make sure of, or raise: sides grow
\* by whole factors only, and there is a convolution for every feature.
ZeroConvsFit ==
  /\ Len(zero_convs) = Len(CondFeatures)
  /\ \A k \in DOMAIN zero_convs : zero_convs[k][1] >= zero_convs[k][2]

\* Features longer than what they are added to are cut, and those that are
\* shorter repeated, the whole feature one time after the other.
TimeRepeat(s, factor) == [m \in 1 .. (factor * Len(s)) |-> s[1 + ((m - 1) % Len(s))]]

FitV2(s, n) ==
  LET long == IF n > Len(s) THEN TimeRepeat(s, n \div Len(s)) ELSE s
  IN  IF n < Len(long) THEN SubSeq(long, 1, n) ELSE long

-----------------------------------------------------------------------------
\* encode_cond(): the features of every piece of the conditioning frames.
EncodeCond(form, lists, raises) ==
  /\ call = None /\ add_feats = None
  /\ add_feats' = [form |-> form, raised |-> raises,
                   lists |-> IF raises THEN <<>> ELSE lists]
  /\ clear_cache
  /\ UNCHANGED <<call, i, u, x, made, taps, feat>>

\* Whole pieces, and frames past the last one.
CondLengths == {1 + 4 * k : k \in 0 .. (MaxChunks - 1)} \cup {4 * MaxChunks}

encode_cond_v1 ==
  \E t \in CondLengths :
    EncodeCond("v1", [k \in 1 .. Pieces("encode", t) |-> FeaturesV1(FramesOf(k - 1, t))],
               FALSE)
encode_cond_v2 ==
  \E t \in CondLengths :
    EncodeCond("v2", [k \in 1 .. Pieces("encode", t) |-> FeaturesV2(FramesOf(k - 1, t))],
               ~ ZeroConvsFit)

\* decode() with the features of as many frames as it makes.
DecodeWith(form) ==
  /\ add_feats # None
  /\ add_feats.form = form /\ ~ add_feats.raised
  /\ Begin("decode", Len(add_feats.lists), form)

decode_v1 == DecodeWith("v1")
decode_v2 == DecodeWith("v2")

\* x + add_feat.pop(0), after layer u of the decoder when it ends a module.
Nothing == [level |-> -1, at |-> <<>>]

AddFeature ==
  /\ call # None /\ call.cond # None
  /\ IF ~ Decoder3d[u][2]
     THEN feat' = None /\ UNCHANGED add_feats
     ELSE LET list == add_feats.lists[i + 1]
              head == IF list = <<>> THEN Nothing ELSE list[1]
          IN  /\ feat' = IF call.cond = "v1" \/ list = <<>> THEN head
                         ELSE [head EXCEPT !.at = FitV2(@, Len(x'))]
              /\ add_feats' = [add_feats EXCEPT !.lists[i + 1] =
                                 IF list = <<>> THEN <<>> ELSE Tail(list)]

CondNext ==
  \/ Next
  \/ encode_cond_v1
  \/ encode_cond_v2
  \/ decode_v1
  \/ decode_v2
  \/ Step /\ AddFeature

CondInit == Init /\ zero_convs = _create_zero_convs(ModuleEnds(Decoder3d))

CondSpec == CondInit /\ [][CondNext /\ UNCHANGED zero_convs]_<<vars, zero_convs>>

-----------------------------------------------------------------------------
\* The frames of the clip that frame j comes to cover when it is doubled so
\* often, the first frame never.
Covers(j, doubled) ==
  IF j = 0 THEN {0} ELSE ((j - 1) * 2 ^ doubled + 1) .. (j * 2 ^ doubled)

\* The latent that frame j, to be doubled so often, was made of.
LatentOf(j, doubled) ==
  LET n == 2 ^ (Cardinality(TimeDown) - doubled) IN (j + n - 1) \div n

FrameOfFeature(m) == IF Len(feat.at) = 1 THEN feat.at[1] ELSE feat.at[m]

\* Conditioning meets the frames it is about.  In v1 a feature stands for
\* exactly the frames that the frame it is added to will cover; in v2 for
\* frames of the same latent, and for the frame itself once frames are at
\* the rate of the clip.
CondAligned ==
  call # None /\ feat # None =>
    LET doubled == DoublingsAfter(LastLayer)
    IN  \A m \in DOMAIN taps :
          LET j == made[LastLayer] - Len(taps) + m - 1
          IN  IF call.cond = "v1"
              THEN ToSet(FrameOfFeature(m)) = Covers(j, doubled)
              ELSE /\ ToSet(FrameOfFeature(m))
                        \subseteq Covers(LatentOf(j, doubled), Cardinality(TimeDown))
                   /\ doubled = 0 => FrameOfFeature(m) = <<j>>

\* There is a feature for every module of the decoder and none is left over;
\* each is as large as what it is added to, and has as many frames (or one).
FeaturesFit ==
  /\ add_feats # None => ~ add_feats.raised
  /\ call # None /\ feat # None =>
       /\ feat.level = LevelAfter(LastLayer)
       /\ Len(feat.at) \in {1, Len(taps)}
  /\ call # None /\ u = 0 /\ add_feats # None =>
       \A k \in 1 .. i : add_feats.lists[k] = <<>>
=============================================================================
