---------------------------- MODULE FrameWriter ----------------------------
(***************************************************************************)
(* FrameWriter of viduce-engine (frame_writer.cc): Create opens the output *)
(* and an encoder for each stream; Write encodes a frame; Flush drains the *)
(* encoders and finishes the file; the destructor closes everything.       *)
(***************************************************************************)
EXTENDS MediaStreams

VARIABLES
  kind,     \* the media type of each stream; never changes
  writer,   \* the next step of Create, "ready", "encode", "drain", "failed", "closed"
  wopened,  \* libav objects of the writer that have not been freed
  encoder,  \* frames each encoder holds
  encodes,  \* the stream EncodeFrame works on
  muxed,    \* frames of each stream in the output file
  flushed,  \* streams whose encoder Flush has drained
  trailer,  \* whether the trailer is written
  werror    \* the call that failed, or "none"

writerVars == <<kind, writer, wopened, encoder, encodes, muxed, flushed, trailer, werror>>

Kind == {"video", "audio", "other"}

WriterInit ==
  /\ kind \in [Streams -> Kind]
  /\ writer = "alloc"
  /\ wopened = {}
  /\ encoder = [s \in Streams |-> <<>>]
  /\ encodes = 0
  /\ muxed = [s \in Streams |-> <<>>]
  /\ flushed = {}
  /\ trailer = FALSE
  /\ werror = "none"

-----------------------------------------------------------------------------
(* FrameWriter::Create                                                     *)

BuildStep(from, to, handles) ==
  /\ writer = from
  /\ writer' = to
  /\ wopened' = wopened \cup handles
  /\ UNCHANGED <<kind, encoder, encodes, muxed, flushed, trailer, werror>>

\* Create returns the error of a call; `kept` are objects nobody frees.
BuildFails(call, from, kept) ==
  /\ writer = from
  /\ writer' = "failed"
  /\ wopened' = kept
  /\ werror' = call
  /\ UNCHANGED <<kind, encoder, encodes, muxed, flushed, trailer>>

AllocOutput ==
  \/ BuildStep("alloc", "avio", Handle("output"))
  \/ "alloc" \in Faults /\ BuildFails("alloc", "alloc", {})

\* The output context is not freed when its file cannot be opened.
OpenOutput ==
  \/ BuildStep("avio", "encoders", Handle("file"))
  \/ "avio" \in Faults /\ BuildFails("avio", "avio", wopened)

\* Mutant: the encoders opened so far are not freed.
OpenEncoderLeaks(s) ==
  /\ NextStream(s, Having("encoder", wopened))
  /\ \/ /\ kind[s] = "video"
        /\ BuildStep("encoders", "encoders", {<<"encoder", s>>})
     \/ /\ kind[s] # "video" \/ "encoder" \in Faults
        /\ BuildFails("encoder", "encoders", wopened \ (Handle("output") \cup Handle("file")))

\* Encoders for video only: audio is not implemented, other media types are
\* invalid.  The cleanups of Create free whatever was opened.
OpenEncoder(s) ==
  /\ NextStream(s, Having("encoder", wopened))
  /\ \/ /\ kind[s] = "video"
        /\ BuildStep("encoders", "encoders", {<<"encoder", s>>})
     \/ /\ kind[s] # "video" \/ "encoder" \in Faults
        /\ BuildFails("encoder", "encoders", {})

WriteHeader ==
  /\ Having("encoder", wopened) = Streams
  /\ \/ BuildStep("encoders", "wpacket", {})
     \/ "header" \in Faults /\ BuildFails("header", "encoders", {})

AllocWriterPacket ==
  \/ BuildStep("wpacket", "ready", Handle("wpacket"))
  \/ "wpacket" \in Faults /\ BuildFails("wpacket", "wpacket", {})

-----------------------------------------------------------------------------
(* Write, Flush and EncodeFrame                                            *)

\* EncodeFrame sends a frame; the loop behind it takes packets.
Write(s, n) ==
  /\ writer = "ready" /\ werror = "none"
  /\ writer' = "encode"
  /\ encodes' = s
  /\ encoder' = [encoder EXCEPT ![s] = Append(@, n)]
  /\ UNCHANGED <<kind, wopened, muxed, flushed, trailer, werror>>

\* Flush sends null to one encoder after the other, in any order.
FlushEncoder(s) ==
  /\ writer = "ready" /\ werror = "none"
  /\ s \notin flushed
  /\ writer' = "drain"
  /\ encodes' = s
  /\ UNCHANGED <<kind, wopened, encoder, muxed, flushed, trailer, werror>>

\* A packet is received, which frees the oldest frame, and is muxed.
ReceivePacket ==
  /\ writer \in {"encode", "drain"}
  /\ encoder[encodes] # <<>>
  /\ muxed' = [muxed EXCEPT ![encodes] = Append(@, Head(encoder[encodes]))]
  /\ encoder' = [encoder EXCEPT ![encodes] = Tail(@)]
  /\ UNCHANGED <<kind, writer, wopened, encodes, flushed, trailer, werror>>

\* Mutant: an encoder that has a frame left ends the flush.
EncoderDoneEarly ==
  /\ writer \in {"encode", "drain"}
  /\ Len(encoder[encodes]) <= Delay
  /\ writer' = "ready"
  /\ flushed' = IF writer = "drain" THEN flushed \cup {encodes} ELSE flushed
  /\ UNCHANGED <<kind, wopened, encoder, encodes, muxed, trailer, werror>>

\* EAGAIN: the encoder wants more frames.  EOF, once it is drained.
EncoderDone ==
  /\ \/ writer = "encode" /\ Len(encoder[encodes]) <= Delay
     \/ writer = "drain" /\ encoder[encodes] = <<>>
  /\ writer' = "ready"
  /\ flushed' = IF writer = "drain" THEN flushed \cup {encodes} ELSE flushed
  /\ UNCHANGED <<kind, wopened, encoder, encodes, muxed, trailer, werror>>

\* A frame that is refused, a packet that cannot be received or written.
EncodeFails ==
  /\ writer \in {"encode", "drain"}
  /\ \E call \in Faults \cap {"encode", "mux"} : werror' = call
  /\ writer' = "ready"
  /\ UNCHANGED <<kind, wopened, encoder, encodes, muxed, flushed, trailer>>

WriteTrailer ==
  /\ writer = "ready" /\ werror = "none"
  /\ flushed = Streams
  /\ ~trailer
  /\ \/ trailer' = TRUE /\ werror' = werror
     \/ "trailer" \in Faults /\ werror' = "trailer" /\ trailer' = trailer
  /\ UNCHANGED <<kind, writer, wopened, encoder, encodes, muxed, flushed>>

\* ~FrameWriter
CloseWriter ==
  /\ writer = "ready"
  /\ writer' = "closed"
  /\ wopened' = {}
  /\ UNCHANGED <<kind, encoder, encodes, muxed, flushed, trailer, werror>>

CreateWriter ==
  \/ AllocOutput \/ OpenOutput \/ (\E s \in Streams : OpenEncoder(s))
  \/ WriteHeader \/ AllocWriterPacket
EncodeFrame == ReceivePacket \/ EncoderDone \/ EncodeFails

-----------------------------------------------------------------------------
\* Type invariant of the writer.
WriterTypeOK ==
  /\ kind \in [Streams -> Kind]
  /\ writer \in {"alloc", "avio", "encoders", "wpacket", "ready", "encode", "drain",
                 "failed", "closed"}
  /\ wopened \subseteq {"output", "file", "encoder", "wpacket"} \X Streams
  /\ encoder \in [Streams -> Seq(Nat)]
  /\ encodes \in Streams
  /\ muxed \in [Streams -> Seq(Nat)]
  /\ flushed \subseteq Streams
  /\ trailer \in BOOLEAN
  /\ werror \in Call \cup {"none"}
=============================================================================
