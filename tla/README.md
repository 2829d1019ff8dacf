# Viduce: a TLA+ verification of its session protocols

Viduce ingests, enhances and interpolates video. This project models the parts
of it that keep state across calls, threads and processes (the sessions of the
LDF-VFI interpolation daemon, the sessions of the engine and its media pipeline,
the page that broadcasts a camera), and where the data of a chunk goes inside the
interpolation model. It checks them with TLC and proves their central invariants
with TLAPS.

## 1. The system

| component | code | state | operations |
|---|---|---|---|
| LDF-VFI runner | `ldfvfi/.../server/session_runner.py` | `x0_prev`, `x0_skip`, `x0_prev_`: boundary latents kept between chunks | `interpolate_chunk` in five roles, `cleanup` |
| LDF-VFI session | `session.py`, `shm.py` | one runner, an input and an output segment in `/dev/shm` | construct, `interpolate_chunk`, `close` |
| LDF-VFI service | `service.py` | `_active_session`, an `RLock` | `CreateSession`, `InterpolateChunk`, `DestroySession`, `reset` |
| LDF-VFI server | `server.py` | the gRPC server, a stop event | `serve`: wait for a signal, reset, stop |
| engine session | `viduce-engine/src/engine_session.cpp` | socket file, acceptor, one socket thread | `Start`, `ReadFrame`, destructor |
| engine service and server | `engine_service_impl.cc`, `engine_server.cc` | `engine_session_`, a mutex | `CreateSession`, shutdown on a signal |
| engine media pipeline | `frame_reader.cc`, `frame_writer.cc`, `engine_api.cc` | decoders, encoders, a muxer | read, enhance, write, flush |
| temporal upsampling | `ldfvfi/.../ops/temporal.py` | none | the input of a chunk from its few frames |
| VAE, diffusion model | `ldfvfi/.../models` | feature caches of causal convolutions, counters, caches of projections | encode, condition, denoise, decode, in pieces, tiles and windows |
| broadcast page | `viduce-broadcast/web/src` | camera stream, resize pipeline, publisher, buttons and badge | preview, start, stop, and what the browser does to a page |
| ingest | `viduce-ingest/src/main.rs` | a subscription | catalog, tracks, frames |
| command line | `cmd`, `ffmpeg`, `upscaler`, `util` | temporary files | extract, upscale, assemble |

How they interact. A client of the daemon opens a session by gRPC, stages the
frames of a chunk in the session's input segment, calls `InterpolateChunk`, and
reads the result from the output segment: the bulk data travels outside the
RPCs, and only their order keeps the two sides apart. The handlers run on the
threads of a pool and serialise on one lock; the main thread takes the same lock
at shutdown. A new session preempts the old one. Inside a session, a chunk plays
one of the roles FIRST, SKIP, CONCAT, LAST and STANDALONE. The role is not in
the request: the runner infers it from the index, the last flag and the latents
it holds. A SKIP generates tiles ahead of a hole, and the CONCAT after it fills
the hole between its two neighbours.

The engine's `CreateSession` destroys the session before it, which joins a
thread that may still wait for a client, and starts the next one, which binds a
Unix socket and spawns the thread that reads frames from one connection.

The engine's `EnhanceVideo` runs a file through a `FrameReader`, an upscaler and a
`FrameWriter`. Decoders and encoders answer EAGAIN and hold frames back, so the
end of the input is not the end of the frames: both ends must be drained.

Inside a session, a chunk passes through the model in parts. Its few input
frames are spread over the positions of the window, with a mask that marks them.
The window is encoded in spatial tiles that overlap, and in time one frame and
then four at a time, by a causal VAE that keeps what its convolutions need of
earlier frames in a list of caches. The transformer sees the latents as tokens,
window by window, and attends as far as the masks of its blocks allow. Decoding
goes the same way back: windows of latents are put into batches, decoded with
features of the conditioning frames, cut, blended where tiles overlap, and written
to shared memory.

The broadcast page is one thread whose handlers wait, for the camera, for the
preview to play, and for the relay. Buttons, dropped connections and the browser's
hiding of the page come in between.

What is hard, and so what the properties are about:

- a chunk changes its latents *before* it decodes and writes. A call that fails
  has or has not moved the session on, and its caller cannot tell;
- latents outlive a video and a failed call;
- deadlines pass while workers still compute on shared memory;
- preemption, destruction and shutdown race with calls that hold an old id;
- constructors and destructors that fail half-way leave segments or files;
- a destructor waits, under a lock, for somebody else's client;
- a socket path is used again by the next session, or after a crash;
- frames are torn by a peer that hangs up;
- caches, counters and flat lists of features tell one piece of a clip from the
  next only by position: one step too many, or a call that raised half-way, and
  everything after it is convolved with, or conditioned on, something else;
- tiles are blended in place, with neighbours that are blended already, and
  windows are regrouped three times between the transformer and the result;
- page handlers use, after an await, what another handler may have replaced;
- a decoder or an encoder still holds frames when its input ends, and every call
  to libav may fail between the allocation of one object and the next.

`PROJECT.json` lists these hazards at their lines, with the properties that
watch them.

## 2. The modules

| module | models | proofs |
|---|---|---|
| `SkipConcat` | the runner: roles, tiles, latents, failures, the capacity check of the output segment | `VfiStreamProofs` |
| `VfiStream` (extends `SkipConcat`) | a client streaming videos through a session: composition of caller and runner | `VfiStreamProofs` |
| `SessionRegistry` | abstract specification: what the daemon promises about sessions | (refined in `LdfVfiServiceProofs`) |
| `LdfVfiService` | the daemon: handlers, lock, segments, clients with deadlines, shutdown; implements `SessionRegistry` | `LdfVfiServiceProofs` |
| `EngineSessions` | the engine: mutex, sessions, socket threads and files, feeders, crash, shutdown | `EngineSessionsProofs` |
| `MediaStreams` | what reader and writer share: streams, libav calls and objects | |
| `FrameReader`, `FrameWriter` (extend `MediaStreams`) | the two ends of the media pipeline | |
| `EnhanceVideo` (extends both) | the loop that composes them | `EnhanceVideoProofs` |
| `CausalVae` | the VAE of `vae2_1.py`: layers, caches, counter, `encode` and `decode` in pieces | `ClipProofs` |
| `ConditionedVae` (extends `CausalVae`) | both decoders with conditioning, and the features they are given | `ClipProofs` |
| `LqProj` | the projections of low-quality frames, whole and streamed | `ClipProofs` |
| `SpatialTiles` | tiles of a chunk, encoded and decoded, and their blending | `SpatialTilesProofs` |
| `TemporalConditioning` | a chunk in time: input frames, mask, windows, batches, layout in shared memory | `RearrangeProofs` |
| `AttentionMasks` | tokens of the transformer, their rotary places, masks and blocks | `RearrangeProofs` |
| `BroadcastPage` | the page: handlers at their awaits, what they open, what the page shows | `BroadcastPageProofs` |
| `MCVfiStream`, `MCModelData` | composition for TLC: three callers of a session; the modules of the model | |
| `MCLdfVfiService`, `MCEngineSessions` | symmetry sets for TLC | |

Correspondence with the code:

**`SkipConcat`.** The variables are the three fields of `SkipConcatSession`. A
latent is abstracted to the first tile of the timeline it covers (`at`) and the
call that produced it (`by`): this is all the properties tell apart. The window
of a chunk has `NT = train_num_frames // tile_min_t` tiles, of which a role
generates those from `FirstSlot` to before `EndSlot`. Each `_interpolate_*` is an
action of the same name, and `interpolate_chunk` is their dispatch. A call ends in
one of three fates: `raised` (reading, encoding or denoising threw: nothing has
changed), `spoiled` (`vae_decode` or `write_tensor` threw after the latents were
assigned), `done`. `reopen` stands for closing a session and constructing another,
whose runner begins without latents (`NewRunner`). Schedules, noise, pixels and
tensor layouts are left out. `calls`, `last` and `video` only observe; `video` is the
FIRST that began the video under way, whether it came in the middle of a hole, and how
many chunks since have been conditioned on latents from before it.

**`VfiStream`.** The repository contains no client of the daemon, so the caller is
external: it stages windows as the session's roles require. It believes in a
stage and a position on the timeline; the daemon believes its latents. Failed
calls include `lost`, where the daemon completed the chunk and the client never
heard of it. `OnError` says whether it gives the session up or sends again. Leaving
a video between a SKIP and its CONCAT, it creates a new session: a FIRST would not
clear the latents of the hole. What becomes of callers that do not know is
`ForeignLatents` of `SkipConcat`.

**`LdfVfiService`.** Each handler is cut where another thread, a client or a
failure can come in between: entering, taking the lock, preempting, creating each
segment, reading the input, running the model, writing the result and
responding. Metadata is rejected before the lock is taken, as in the code. The
lock is re-entrant, so the nested `reset()` of a handler does not take it again.
A failed `close()` leaves the output segment, or both, and the session is dropped
all the same. The runner's latents are reduced to a count of executed chunks
(their content is `SkipConcat`'s subject). Clients are external: they have
deadlines, and drop a session that failed or timed out.

**`EngineSessions`.** Each socket file leads to the session that bound it. A
stream is a sequence of headers, headers of empty frames, and payloads, and a
connection may end after any of them; a piece that is torn in the middle is
indistinguishable from a missing one, because `read()` fails in both cases. A
worker's `start` and `listen` steps are the body of `EngineSession::Start`; its
two failure points differ in whether the socket file remains. `Crash` is the
death of the process, by a signal or by an exception in the socket thread, and
its restart.

**`FrameReader`, `FrameWriter`, `EnhanceVideo`.** A `Create` is a sequence of calls
to libav; each succeeds and opens an object, or fails and leaves what the error
path does not free. A stream is its frames, numbered in the order the decoder
returns them, one to a packet. A decoder holds a queue of frames and answers a
packet with its oldest frame or, if it holds no more than `Delay`, with EAGAIN; the
encoder is a queue of the same kind. `ReadPacket` is one turn of the loop in
`ReadNextFrame`, `ReadEof` a turn after the end of the file, where the packet is
blank and belongs to stream 0. `ReceivePacket` and `EncoderDone` are the turns of the
loop in `EncodeFrame`, which `Write` and `Flush` enter. `EnhanceVideo` places these
actions at the line it is at. Pixels, timestamps and containers are left out.

**`CausalVae`.** A frame is its number in the clip, a layer the frames that each
frame it makes is made of. `Network` is the list of the layers that look at time,
built as the constructors build it; `Step` is one of them, with the part of the
cache protocol that its branch of the code runs: what it reads, what it keeps, and
by how much it advances the counter. `encode` and `decode` begin a call and clear
the caches; `NextPiece` takes the next frame or latents; `Return` clears them
again; `Raise` leaves everything as it is, and the next call follows. The
convolutions keep two frames of the piece before, and the code's case distinction
about a piece with one frame only is modelled as it is.

**`ConditionedVae`** adds the list of features: `encode_cond` cuts the conditioning
frames into pieces and gives a list for each, from which `AddFeature` takes one
after each module of the decoder (`Step /\ AddFeature`). Of `vae2_1_cond.py` it
models the pixel shuffle, of `vae2_1_cond_v2.py` the mirrored encoder and the zero
convolutions.

**`LqProj`**: `lq_forward` takes a whole clip, `stream_first` and `stream_next` its pieces,
`stream_stale` is what happens to a clip that begins without `clear_cache`.

**`SpatialTiles`**: a pixel is the set of samples it is mixed of. `Make` is the double loop
that makes tiles, `Down` and `Across` are one call of `blend_v` and of `blend_h`, in
the order the loop makes them, and `Finish` is what `vae_decode` keeps.

**`TemporalConditioning`**: `Prepare` is `_prepare_lq_and_msk` and the encoders, `DecodeBatch`
one turn of the loop over batches, `write_tensor` the layout it decides on.

**`AttentionMasks`**: `Forward` is the choice and making of masks, `Block` one block of
the loop over `zip(blocks, masks)`. A token's knowledge is the set of tokens it has
attended to, directly or not.

**`BroadcastPage`**: `enablePreview` and `startBroadcast` are cut at their awaits. A stream
and its pipeline are the number of the call that opened them, a connection is the
number of its call. `ui` is what is on of badge, buttons and inputs. What the code
opens (`capturing`, `running`, `open`) is kept apart from what it refers to (`stream`,
`pipeline`, `publisher`): that they agree is the first property.

## 3. The runs

| run | question | result |
|---|---|---|
| `Session` | does a session stay consistent under any caller, and do videos arrive whole for a client that recreates it after an error, and for one that sends again? | holds; the latter while calls fail only before their latents change |
| `ServiceSafety` | do threads, preemption, timeouts, failures and shutdown keep sessions apart, and does the daemon implement `SessionRegistry`? | holds |
| `ServiceLiveness` | does each call end, and does a signal stop the daemon? | holds under the fairness below |
| `ServiceStopsClean` | is no session left when the daemon says it stopped cleanly? | violated |
| `LayoutMisread` | is a frame in either layout of the docstring written as it is? | violated |
| `ModelData` | inside the model, does everything end up where and when it belongs? | holds |
| `Engine` | is the kept session reachable, with one thread, whole frames and no stray file? | holds |
| `EngineLiveness` | do `CreateSession` and shutdown end? | holds if clients come and leave |
| `EngineUnfed` | does the socket thread end "once the client closes its connection"? | violated when no client ever connects |
| `EnhanceVideo` | do frames keep their order, does success mean a whole file, and what is left open when a call fails? | holds |
| `ReaderLosesTail` | does the reader return every frame before null? | violated for a second stream |
| `BroadcastPage` | can whatever is on be turned off, does the badge tell the truth, does Start lead on? | holds |

`TypeOK` of each module and the inductive invariants are not among the properties of
the runs: they are proved (section 4).

The violated runs are findings:

- **A session can outlive the teardown.** `serve()` calls `servicer.reset()` and
  then `server.stop()`. A `CreateSession` between the two, or one that waited for
  the lock, opens a session that nobody closes; its segments stay in `/dev/shm`
  when the process logs "LDF-VFI daemon stopped cleanly."
- **The layout of a frame is guessed.** `write_tensor()` takes "[T, C, H, W] or
  [T, H, W, C]" by its docstring, and tells them apart by the sizes of two axes. A
  `[C, H, W]` frame as high and as wide as it has channels is copied as it lies, so
  other pixels are read; one that is as wide only, and a `[H, W, C]` frame of height 1,
  3 or 4 that has another number of channels, are refused. `LayoutKept` holds for the
  other shapes, which the daemon's own results have unless they are as wide as they
  have channels.
- **A session nobody connects to cannot be destroyed.** Its thread is in
  `accept()`, and the destructor joins it: the next `CreateSession` waits for
  ever with the mutex held, and a signal does not end the engine.
- **Frames of a second stream are lost.** At the end of the file the packet is blank
  and its stream index 0: only the first stream's decoder is drained. What other
  decoders hold is dropped when `ReadNextFrame` returns null, "Done with reading all
  frames". `OkMeansWhole` says what remains true of a successful `EnhanceVideo`.

Other things the models show:

- `KeyframesShown`: input frames past the end of the window are cut off without an
  error.
- `ForeignLatents`: a FIRST in the middle of a hole leaves latents of the hole behind,
  and the next chunk becomes a CONCAT that joins two videos. It and the chunk after it
  are the only ones, and no other order of calls or failures mixes videos. A LAST in
  the middle of a hole ends the video with the hole in it.
- A FIRST returns 40 frames (`NumTiles`) and a SKIP or CONCAT 20, of the 60-frame window
  the model runs on. `docs/vfi_realtime_analysis.md:63` reckons with 60 per chunk.
- With a scale factor of one, `ResultsFit` would fail: 40 and 60 frames do not fit a
  segment of 30, and are refused after the latents were assigned. No run takes it.
- `CondAligned`: features of the second version are at the rate of the clip only at
  the end; before that a latent is given the first frame of its span, not all of it.
- `StreamMatchesForward`: the cache of a projection is the end of the current piece, so
  that the convolutions do not reach back into the piece before.
- `AttentionReach`: windows of `swin` wrap around the edges of the chunk, and
  `slide_chunk` of fewer blocks than slides does not slide at all.
  With one block, `slide_chunk_half_block` divides by zero.
- `BadgeTellsTruth`: a page that the browser hid while it was live, and kept, still
  shows LIVE when it comes back, with nothing broadcast, although the badge is to make
  the two "unmistakable" (`main.ts:5`). `NothingOrphaned`: when a
  connection opens and its `Broadcast` cannot be made, nobody closes the connection.
- The v2 VAE cannot be assembled as the file stands: `WanVAE` calls `WanVAE_`, which
  `vae2_1_cond_v2.py` does not define, and `model_loader.py` does not give
  `Wan2_1SpatialTiledConditionEncoder3Dv2` all its arguments. The classes are modelled
  as they are, the assembly is not.

### Bounds, and why they are enough

- Session: windows of three tiles with one of context (the code's values), at three
  positions, and eight calls: a FIRST, two SKIP/CONCAT pairs, a LAST and two
  failures, or two videos. A scale factor of two is the smallest for which every
  result fits. `MCVfiStream` starts one of three callers; "anyone" ignores the
  client's beliefs, whose windows are otherwise determined by its stage.
- Service: two workers are the daemon's default; two clients, two sessions, two
  chunks: a preemption with an old id in flight, and two chunks of one session
  of which the first timed out. The liveness run has one chunk and only failures
  of construction.
- Engine: two workers, two feeders, two paths, two sessions and one crash: a
  session replacing another at the same or another path, with a second client in
  the backlog. Two pieces are a full frame, a torn frame, or two empty ones. The
  liveness run has one piece, one path and no crash: a frame torn after its header.
- Media pipeline: two streams interleave and tell the first from the others; a
  delay of two with up to three frames makes streams shorter than, as long as, and
  longer than what a decoder holds back. All 18 calls may fail.
  `ReaderLosesTail` needs one frame in the second stream and a delay of one.
  `LayoutMisread` needs sides of three, and the shortest chunk that ends in a frame.
- Model: the layers are those the code builds (4 levels, 2 residual blocks, time
  halved twice). Four pieces are the first, the second, whose caches are short, and
  two of the general case. A call may raise at every layer, and be followed by any other.
  Tiles of four latents that overlap by one, in frames below, at and beyond one and
  two tiles in each direction. In time the numbers of the sessions (60 frames in
  tiles of 20), scale factors that do and do not divide the window, one frame and up
  to more than fit, and batches that do and do not divide the windows. Up to 20
  windows in a line, plane and box; 1, 2, 7 and 10 blocks are fewer and more than
  slides. The parts share nothing, so `MCModelData` begins with one of them.
- Page: three previews and three broadcasts. An overlap needs two; the third is a
  call that comes after a failed or overlapping pair.
- `MaxSessions`, `MaxChunks`, `MaxCalls`, `MaxPieces`, `MaxCrashes`, `MaxFrames`, `MaxAsked`, `MaxDialled` bound what
  clients do and how often, never how the code answers. Deadlock checking is off
  only in `Session`, whose callers stop at `MaxCalls`, and in `ReaderLosesTail`, whose caller closes the reader; elsewhere the ended system is an explicit stuttering action.

### Fairness

- `HandlersRun`, and `WF` of `Handle` and `SocketThread`: a thread that can go on
  does.
- `LockIsLive`, `SF(Lock)`: neither Python's `RLock` nor `std::mutex` is fair, but
  no waiter is assumed to lose it for ever. Weak fairness would not do: the lock is
  taken and released between any two attempts.
- `MainRuns`: the event wakes the main thread, and the grace period of `stop()`
  passes.
- No fairness is assumed of the daemon's clients.
- `FeedersLeave` is the header's "The client is expected to close its connection
  before a started session is destroyed"; `FeedersCome`, that some client connects
  to every session. `EngineUnfed` shows that the second cannot be left out.

## 4. What is proved

All proofs are for every value of the constants, under the assumptions named in
the modules.

- `VfiStreamProofs!SessionInvariant`: `TypeOK /\ SkipPair` is inductive for every
  window with `NT >= 3 * NTCond`. `NeverOverflows`: if the whole window fits the
  segment (`NT * TileFrames <= MaxInput * SF`), no result is refused.
  `ForeignIsBounded`, for any caller, too: `ForeignLatents` counts the chunks that were
  conditioned on latents of an earlier video, and `ForeignInv` says which latents can
  still be of one at each count: before the first such chunk, the two of the hole, if
  there was one when the video began; after it, the tail taken over from them; after
  the second, none.
- For the composition, `VfiStreamProofs` has `IInv`, which conjoins the types, `SkipPair`, `Beliefs` (what the
  client believes is what the latents say), `Received` (which tiles it has), and
  `RoleAgreement`, `Seamless` and `NoOverlap`. Neither `RoleAgreement` nor `NoHole` is
  inductive alone: the role of the *next* chunk depends on latents that `Beliefs`
  ties to the stage, and what the next chunk adds depends on `Received`. The
  theorems assume `SafeRecovery`: the client gives its session up after an
  error, or no call fails after its latents changed. These are two of the three
  callers of the run `Session`, and without it resending is unsound. One theorem
  for each property: `RolesAgree`, `SeamsMatch`, `ReceivedIsPrefix`,
  `ReceivedOnce`.
- `LdfVfiServiceProofs`: `ServiceInv` conjoins types, `Threads` (who holds the
  lock and what each stage of a handler knows), `Numbered` (ids in use have been
  drawn; `CreateSession` calls on their way never exceed the bound), `Linked`
  (which segments exist) and `SegmentsAccounted`. `WorkOnActive` follows: it is
  not inductive, since it needs mutual exclusion of the stages.
- On the order of chunks, also in `LdfVfiServiceProofs`: `OrderInv` adds to `ServiceInv` what the order of chunks
  rests on, which no line of the code checks: `Calling` (what a worker and the client
  that still waits for it agree on), `Owned` (a session has one client, and is
  untouched until that client knows of it), `Staged` (a chunk on its way is the only
  one of its session, and its frames are the last ones staged), `Done` (between calls a
  session has run what was staged) and `Replaced` (why a session that has a client may
  not be active). `ChunksInOrder`, `OwnResult` and `NotFoundMeansReplaced` follow; none
  of them is inductive, since each is about one moment of a call that was sent long
  before, by a client that may have given up since. `DaemonRefines`: every step of the
  daemon is a step of `SessionRegistry` or leaves it as it is; `Publish` needs `Staged`,
  to know that what is written has run.
- `EngineSessionsProofs`: `EngineInv` conjoins types, `Holders`, `Numbers`,
  `Reachable`, `OneThread` and `FilesAccounted`. `Reachable` needs that a worker
  beyond its join sees no session, that only one worker is there, and that file
  numbers agree with paths. `StreamInv` adds what a stream looks like (`Alternating`),
  where connections lead (`Connected`), that a thread is spawned once (`Fresh`), and that
  what it passed on is what it has read (`Reading`, `AtEnd`). `NothingLost` follows: a
  thread that expects a header never meets a payload, and one that ended has read all
  that will ever be written, since its client has closed.
- `EnhanceVideoProofs`: `PipelineInv` conjoins types, `Control` (where reader and
  writer are at each line of `EnhanceVideo`), `ReaderHandles` and `WriterHandles` (what
  is open in each stage), `Drained` (who holds how many frames, and who is empty) and
  `InOrder`. `UsesOpen` and `HandlesAccounted` follow from control and handles;
  `OkMeansWhole` from `InOrder` once the encoders and the first decoder are empty.
  Neither is inductive: a file that succeeded looks like any other. Moving the
  head of one queue to the end of the one before it (`MoveHead`) leaves their
  concatenation alone; this is the step all frames take.
- `SpatialTilesProofs`: `TilesFit`, every tile has the size of its place, for any
  tiles, strides and frames (the arithmetic of strides and of shorter last tiles);
  and `TilesInPlace`: blending keeps `InPlace`, because the columns and rows two
  neighbours share are the same places of the picture in both. `PicturesAreSeamless`
  adds `SeamInv` and `SizeInv`: the tiles that the loop has not come to are as they were
  made, those it has passed have nothing of their own left along their upper and left
  edges, and none has a pixel that is made of nothing. That the picture has the length
  of its side is the arithmetic of strides again.
- `RearrangeProofs`, on the transforms of a chunk: `TemporalInv` says that a chunk under way
  has the mask and the frames of its own numbers (`Staged`), that what was decoded is
  the beginning of its groups of frames, each with its own conditioning, in whole
  batches unless it is all (`Begun`), and that a written frame is laid out as its shape
  says (`Frame`). `OwnConditioning` needs it for the batches; `KeyframesShown` is about the
  division of the window among the inputs, and of the mask among the latents (`MarksOf`);
  `LayoutKept` about shapes that cannot be taken for the other layout's. The window
  has three tiles at least (`TemporalAssumption`), else a skip chunk has nothing to
  decode. `TokensAreInPlace`: taking the rows of the rotary embedding apart and putting
  them in the order of windows gives each token the row of its own place, in grids
  of any size.
- Also in `RearrangeProofs`, `AttnInv`: after `d` blocks the tokens that know of a token are
  `KnowsAfter(type, blocks, d, o)`. One step is one block, so a lemma for each kind of
  mask says what two attentions make of such a set. Sliding masks (`TwoAttentions`): the
  windows, and the places, of tokens fill a box (`WindowsFill`, `PlacesFill`), so between
  two that are `R + r` apart there is one that is `R` from one and `r` from the other.
  How often a mask has slid after `d` blocks is the arithmetic of strides
  (`SlidingMasks`), and which blocks of the bottleneck are wide that of three stretches
  (`BottleneckAdds`). For `swin` the invariant says more than `AttentionReach`, which is
  silent on the blocks that are shifted: what is known then is a union of shifted
  windows (`ByRolled`), and the next block makes whole windows of it, one further on
  around the edges (`ShiftedOn`), unless the window's side is 1, which is not shifted.
- `ClipProofs`, on clips that the model sees in pieces. `ClipInv` conjoins `Progress` (each
  layer has made what it makes of `i + 1` pieces before layer `u`, of `i` from there
  on, at its own rate), `CachesKept` (the slot that each layer's turn of the counter
  leads to holds the last frames of what that layer was given, or the mark of a first
  piece), `TapsRead` and `HasLists`. `ReadsWholeClip` is not inductive: a layer reads
  the right frames because its slot holds them, and holds them because all layers
  advance the counter by as many slots in every piece. What the proof needs of a
  network it gets by counting layers: exactly two change time, and slots are numbered
  by the cached layers before. One lemma for each kind of layer compares a piece with
  the whole. The assumptions are `CondAssumption` (two levels halve time, as in every
  configuration of the code), `CacheAssumption` (tensors, no cache and `'Rep'` are
  different things) and at least one piece.
- Also in `ClipProofs`, `CondInv`: the list of piece `k` is its features without the first
  `Popped(k)`, one for each module that the piece has gone through. For `FeaturesFit` and
  `CondAligned` one must know which feature each module pops, so the decoder is laid
  out stage by stage (`DecoderAt`, `DecoderCounted`), and likewise the features of both
  forms (`FeaturesOfV1`, `FeaturesOfV2`): there are as many features as modules, and
  the one that a module pops has the module's level and its number of doublings to
  come. That the mirrored encoder of `vae2_1_cond_v2.py` fits, so that `encode_cond`
  never raises, is proved with it.
- `LqInv`: a stream has been fed whole pieces and has returned what `forward` returns of as
  many frames. `StreamMatchesForward` and `ProjectionPerLatent` follow.
- `BroadcastPageProofs`: `PageInv` conjoins types, `Alone` (calls that wait never overlap),
  `Paired` (camera and pipeline), `Buttons` (which buttons are on with which state) and
  `Broadcasts`. That nothing is overwritten follows from `Alone`, which no handler
  checks: it holds because a button is off whenever a call waits, and no late
  `closed` turns it on again, for which `onClosed` compares publishers.

The proofs have one lemma per action or group of actions. The bound
`minted + Cardinality(Unnumbered) <= MaxSessions` keeps session numbers in range;
`BudgetKept` and `BudgetSpent` carry it across the steps.

Where a proof needs induction over numbers, as in counting the layers of a list of
lists that is put together (`FlattenSteps`, `CountOfJoined`), it does not use the
library's induction theorems, whose parameter is an operator that none of the
provers can instantiate. It states the claim as a set of numbers: a set that has
zero, and what follows each of its numbers, has all of them (`SetInduction`, from the
library's fact that `<` on the naturals is well-founded).

Model-checked only: the liveness properties (`CallsEnd`, `ShutdownEnds`, `EngineCallsEnd`,
`EngineEnds`). Liveness under fairness and `ENABLED` are out of the proof system's reach.
Every other property of a passing run is stated by a theorem.

## 5. What is not modelled, and why

- *Ingest*: a loop that prints what a subscription delivers. Its state, and whatever
  can go wrong with it, is in the MoQ client library.
- *Command line* with the *Real-ESRGAN* and *ffmpeg* processes: programs run one after the
  other on files in a temporary directory. A failure ends the program.
- *Upscaler* of the engine: one call to a network per frame. `EnhanceVideo` has it as a step
  that succeeds or fails.
- *Loading, holding and mocking of models*: weights are read once, before anything is
  served.
- *Of the server processes*: argument parsing and logging.
- *Of the model*: numbers. Convolutions, attention, normalisation, schedulers and noise
  are left out; which positions they read and write is modelled.
- *Of the page*: the letterbox arithmetic of `resize.ts` and the drawing of frames.
- *Relay configuration, conversion scripts, containers*: no behaviour of their own.

The largest part of the Python under `models/` builds layers and computes with
tensors. Where its order of steps, its indices or its caches decide what ends up
where, it is modelled; the rest is arithmetic that a state machine would restate.
