----------------------------- MODULE SkipConcat -----------------------------
(***************************************************************************)
(* The latent state machine of one interpolation session: the class        *)
(* SkipConcatSession of ldfvfi/src/ldfvfi/server/session_runner.py,        *)
(* together with the output check of ShmWriter.write_tensor that ends      *)
(* every chunk.                                                            *)
(*                                                                         *)
(* A chunk is a window of NT tiles of the video timeline.  The session     *)
(* decides from the chunk index, the last flag and the latents it holds    *)
(* which of five roles the chunk plays, denoises the window, keeps         *)
(* boundary latents for later chunks, and only then decodes and writes.    *)
(* So a chunk may fail before its latents change, or after.                *)
(*                                                                         *)
(* A latent is abstracted to where it comes from: the first tile it covers *)
(* and the call that produced it.  Pixels and tensors are left out.        *)
(***************************************************************************)
EXTENDS Integers

CONSTANTS
  NT,          \* tiles in a window: train_num_frames // tile_min_t (60 // 20)
  NTCond,      \* tiles of context kept across calls: nT_cond (1)
  TileFrames,  \* frames in a tile: tile_min_t (20)
  MaxInput,    \* VfiSession.max_input_frames (30)
  SF,          \* temporal scale factor
  MaxBase,     \* bound: last tile at which a window may begin
  MaxCalls,    \* bound: chunks sent to one session
  None         \* Python's None

ASSUME WindowAssumption ==
  /\ NTCond \in Nat \ {0}
  /\ NT \in Nat
  /\ NT >= 3 * NTCond    \* the middle of a window holds a boundary latent
ASSUME BufferAssumption ==
  /\ TileFrames \in Nat \ {0}
  /\ MaxInput \in Nat \ {0}
  /\ SF \in Nat \ {0}
ASSUME BoundAssumption == MaxBase \in Nat /\ MaxCalls \in Nat
ASSUME NoneAssumption == None \notin [at : Nat, by : Nat]

VARIABLES
  x0_prev,   \* tail of the finished part of the timeline
  x0_skip,   \* head of the tiles generated ahead of a hole
  x0_prev_,  \* tail of those tiles: the x0_prev of the time after the hole
  calls,     \* calls executed so far; numbers the latents
  last,      \* what the last call did (observation only)
  video      \* the FIRST that began the video under way, whether there was a
             \* hole then, and how many chunks since have been conditioned on
             \* older latents (observation only)

latents == <<x0_prev, x0_skip, x0_prev_>>
vars == <<x0_prev, x0_skip, x0_prev_, calls, last, video>>

Role == {"FIRST", "SKIP", "CONCAT", "LAST", "STANDALONE"}

\* How a call ends.  "raised": read_tensor, encode or predict_v threw and no
\* latent changed.  "spoiled": the latents changed, then vae_decode or
\* write_tensor threw.  "done": the response was returned.
Fate == {"raised", "spoiled", "done"}

Latent == [at : Nat, by : Nat]
LatentOrNone == Latent \cup {None}

\* A boundary latent produced by the running call.
Cached(tile) == [at |-> tile, by |-> calls + 1]

-----------------------------------------------------------------------------
(* Which tiles a role generates for the window that begins at base.        *)

\* Mutant: every role generates its context over again.
FirstSlotIgnoresContext(role) == 0

\* The window slot of the first generated tile.
FirstSlot(role) ==
  IF role \in {"SKIP", "CONCAT"} \/ (role = "LAST" /\ x0_prev # None)
    THEN NTCond ELSE 0

\* Mutant: the context is cut off twice.
EndSlotCutTwice(role) ==
  IF role \in {"FIRST", "SKIP", "CONCAT"} THEN NT - 2 * NTCond ELSE NT

\* Mutant: no role leaves the boundary tile to its successor, and the last
\* ones run past the window.
EndSlotUncut(role) ==
  IF role \in {"FIRST", "SKIP", "CONCAT"} THEN NT ELSE NT + NTCond

\* The window slot behind the last generated tile.
EndSlot(role) ==
  IF role \in {"FIRST", "SKIP", "CONCAT"} THEN NT - NTCond ELSE NT

NumTiles(role) == EndSlot(role) - FirstSlot(role)

\* write_tensor refuses a result larger than the output segment, which
\* VfiSession sizes for max_input_frames * temporal_sf frames.
Fits(role) == NumTiles(role) * TileFrames <= MaxInput * SF

-----------------------------------------------------------------------------
NoVideo == [by |-> 0, holed |-> FALSE, foreign |-> 0]

Init ==
  /\ x0_prev = None
  /\ x0_skip = None
  /\ x0_prev_ = None
  /\ calls = 0
  /\ last = None
  /\ video = NoVideo

\* A latent of the video under way.
Own(latent) == latent = None \/ latent.by >= video.by

\* CONCAT is conditioned on x0_prev and x0_skip, LAST on x0_prev.
UsesForeign(role) ==
  \/ role \in {"CONCAT", "LAST"} /\ ~Own(x0_prev)
  \/ role = "CONCAT" /\ ~Own(x0_skip)

\* The video under way after a call that did not raise.
VideoAfter(role) ==
  IF role = "FIRST"
    THEN [by |-> calls + 1, holed |-> x0_skip # None, foreign |-> 0]
    ELSE [video EXCEPT !.foreign = @ + IF UsesForeign(role) THEN 1 ELSE 0]

\* The state change all roles share: the call is recorded, and its latents
\* are those of `commit` unless the model threw before they were assigned.
Run(role, base, fate, commit) ==
  /\ calls < MaxCalls
  /\ fate = "done" => Fits(role)
  /\ IF fate = "raised" THEN UNCHANGED latents ELSE commit
  /\ calls' = calls + 1
  /\ video' = IF fate = "raised" THEN video ELSE VideoAfter(role)
  /\ last' = [role |-> role, base |-> base, fate |-> fate,
              from |-> base + FirstSlot(role), upto |-> base + EndSlot(role),
              prev |-> x0_prev, skip |-> x0_skip]

\* Mutant: a tail that is there is not replaced.
CommitFirstKeepsTail(base) ==
  /\ x0_prev' = IF x0_prev = None THEN Cached(base + NT - 2 * NTCond) ELSE x0_prev
  /\ UNCHANGED <<x0_skip, x0_prev_>>

\* Assigns x0_prev only: x0_skip and x0_prev_ keep what they had.
CommitFirst(base) ==
  /\ x0_prev' = Cached(base + NT - 2 * NTCond)
  /\ UNCHANGED <<x0_skip, x0_prev_>>

\* Mutant: the tail is cut one tile late.
CommitSkipLate(base) ==
  /\ x0_skip' = Cached(base + NTCond)
  /\ x0_prev_' = Cached(base + NT - NTCond)
  /\ UNCHANGED x0_prev

CommitSkip(base) ==
  /\ x0_skip' = Cached(base + NTCond)
  /\ x0_prev_' = Cached(base + NT - 2 * NTCond)
  /\ UNCHANGED x0_prev

\* Mutant: the hole is filled, but x0_skip still says that there is one.
CommitConcatKeepsSkip ==
  /\ x0_prev' = x0_prev_
  /\ x0_prev_' = None
  /\ UNCHANGED x0_skip

CommitConcat ==
  /\ x0_prev' = x0_prev_
  /\ x0_skip' = None
  /\ x0_prev_' = None

cleanup_latents ==
  /\ x0_prev' = None
  /\ x0_skip' = None
  /\ x0_prev_' = None

_interpolate_first(base, fate) == Run("FIRST", base, fate, CommitFirst(base))

_interpolate_skip(base, fate) == Run("SKIP", base, fate, CommitSkip(base))

\* Refused with a RuntimeError while there is no x0_prev to continue from.
_interpolate_concat(base, fate) ==
  /\ x0_prev = None => fate = "raised"
  /\ Run("CONCAT", base, fate, CommitConcat)

_interpolate_last(base, fate) == Run("LAST", base, fate, cleanup_latents)

_interpolate_standalone(base, fate) ==
  Run("STANDALONE", base, fate, UNCHANGED latents)

\* The dispatch of SkipConcatSession.interpolate_chunk.  Beyond its being
\* zero the chunk index is not looked at.
interpolate_chunk(chunk_index, is_last, base, fate) ==
  \/ chunk_index = 0 /\ is_last /\ _interpolate_standalone(base, fate)
  \/ chunk_index = 0 /\ ~is_last /\ _interpolate_first(base, fate)
  \/ chunk_index # 0 /\ is_last /\ _interpolate_last(base, fate)
  \/ chunk_index # 0 /\ ~is_last /\ x0_skip = None /\ _interpolate_skip(base, fate)
  \/ chunk_index # 0 /\ ~is_last /\ x0_skip # None /\ _interpolate_concat(base, fate)

\* A runner as its constructor leaves it.
NewRunner ==
  /\ x0_prev' = None /\ x0_skip' = None /\ x0_prev_' = None
  /\ video' = NoVideo
  /\ UNCHANGED <<calls, last>>

\* The service closes the session and constructs the next one.  Whatever the
\* runner of the first one held is gone with it.
reopen == latents # <<None, None, None>> /\ NewRunner

\* Any caller: the daemon accepts every index, flag and window.
Next ==
  \/ \E chunk_index \in {0, 1}, is_last \in BOOLEAN,
        base \in 0 .. MaxBase, fate \in Fate :
       interpolate_chunk(chunk_index, is_last, base, fate)
  \/ reopen

Spec == Init /\ [][Next]_vars

-----------------------------------------------------------------------------
Executed ==
  [role : Role, base : Nat, fate : Fate, from : Nat, upto : Nat,
   prev : LatentOrNone, skip : LatentOrNone]

\* Type invariant: the three latents, the call counter, and the records of the
\* last call and of the video.
TypeOK ==
  /\ x0_prev \in LatentOrNone
  /\ x0_skip \in LatentOrNone
  /\ x0_prev_ \in LatentOrNone
  /\ calls \in Nat
  /\ last \in Executed \cup {None}
  /\ video \in [by : Nat, holed : BOOLEAN, foreign : Nat]

\* The two latents kept ahead of a hole come and go together, were cut from
\* the same generation, and lie where its head and tail lie: so a CONCAT,
\* whoever calls it and whatever failed before it, continues (x0_prev :=
\* x0_prev_) from the very tiles it was joined to (x0_skip).
SkipPair ==
  /\ x0_skip = None <=> x0_prev_ = None
  /\ x0_skip # None =>
       /\ x0_skip.by = x0_prev_.by
       /\ x0_prev_.at = x0_skip.at + NT - 3 * NTCond

\* With a scale factor of two or more the output segment holds the result of
\* every role, the 60 frames of STANDALONE and of a LAST without x0_prev
\* included: write_tensor never refuses a result after the latents changed.
ResultsFit ==
  last # None => (last.upto - last.from) * TileFrames <= MaxInput * SF

\* A FIRST takes no notice of a hole that the video before it left open, so
\* latents of one video can condition chunks of the next.  Whoever calls and
\* whatever fails, this happens after a FIRST between a SKIP and its CONCAT only,
\* and to two chunks at most: the CONCAT that the next chunk becomes, and the
\* chunk that continues the tail which that CONCAT takes over.
ForeignLatents ==
  /\ ~video.holed => video.foreign = 0
  /\ video.foreign <= 2
=============================================================================
