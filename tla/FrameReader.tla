---------------------------- MODULE FrameReader ----------------------------
(***************************************************************************)
(* FrameReader of viduce-engine (frame_reader.cc): Create opens the file   *)
(* and a decoder for each of its streams; ReadNextFrame sends packets to   *)
(* the decoders until one of them returns a frame; the destructor closes   *)
(* everything.                                                             *)
(***************************************************************************)
EXTENDS MediaStreams

VARIABLES
  length,   \* frames in each stream of the file; never changes
  reader,   \* the next step of Create, "ready", "failed" or "closed"
  opened,   \* libav objects of the reader that have not been freed
  sent,     \* packets of each stream sent to its decoder
  decoder,  \* frames each decoder holds
  got,      \* what ReadNextFrame returned last; Again while it runs
  rerror    \* the call that failed, or "none"

readerVars == <<length, reader, opened, sent, decoder, got, rerror>>

\* What ReadNextFrame returns: a frame of a stream, null, or an error.
Again == [is |-> "again", stream |-> 0, number |-> 0]
NullFrame == [is |-> "null", stream |-> 0, number |-> 0]
ErrorStatus == [is |-> "error", stream |-> 0, number |-> 0]
FrameOf(s, n) == [is |-> "frame", stream |-> s, number |-> n]

ReaderInit ==
  /\ length \in [Streams -> 0 .. MaxFrames]
  /\ reader = "open"
  /\ opened = {}
  /\ sent = [s \in Streams |-> 0]
  /\ decoder = [s \in Streams |-> <<>>]
  /\ got = Again
  /\ rerror = "none"

-----------------------------------------------------------------------------
(* FrameReader::Create                                                     *)

\* One call of Create: it succeeds and Create goes on, or it fails, Create
\* returns, and `kept` are the objects that nobody frees.
CreateStep(call, from, to, handles, kept) ==
  /\ reader = from
  /\ \/ reader' = to /\ opened' = opened \cup handles /\ rerror' = rerror
     \/ call \in Faults /\ reader' = "failed" /\ opened' = kept /\ rerror' = call
  /\ UNCHANGED <<length, sent, decoder, got>>

\* A failed avformat_open_input frees the context it was given.
OpenInput == CreateStep("open", "open", "info", Handle("input"), {})

\* The context is not freed when the stream info cannot be found.
FindStreamInfo == CreateStep("info", "info", "codecs", {}, opened)

\* The decoders opened before the one that fails are not freed; the cleanup
\* of Create closes the input.
OpenDecoder(s) ==
  /\ NextStream(s, Having("decoder", opened))
  /\ CreateStep("codec", "codecs", "codecs", {<<"decoder", s>>}, opened \ Handle("input"))

\* Mutant: the cleanups are not cancelled.
AllocPacketCleansUp ==
  /\ Having("decoder", opened) = Streams
  /\ reader = "codecs"
  /\ reader' = "ready"
  /\ opened' = Handle("packet")
  /\ UNCHANGED <<length, sent, decoder, got, rerror>>

AllocPacket ==
  /\ Having("decoder", opened) = Streams
  /\ CreateStep("packet", "codecs", "ready", Handle("packet"), {})

-----------------------------------------------------------------------------
(* FrameReader::ReadNextFrame                                              *)

\* Mutant: a decoder that wants more packets loses the one it was sent.
ReadPacketDropsOnAgain(s) ==
  /\ reader = "ready" /\ rerror = "none"
  /\ sent[s] < length[s]
  /\ sent' = [sent EXCEPT ![s] = @ + 1]
  /\ LET held == Append(decoder[s], sent[s] + 1) IN
     \/ /\ Len(held) <= Delay
        /\ got' = Again
        /\ UNCHANGED decoder
     \/ /\ got' = FrameOf(s, Head(held))
        /\ decoder' = [decoder EXCEPT ![s] = Tail(held)]
  /\ UNCHANGED <<length, reader, opened, rerror>>

\* One turn of the loop: av_read_frame returns a packet of any stream, its
\* decoder is sent it, and either wants more or returns its oldest frame.
ReadPacket(s) ==
  /\ reader = "ready" /\ rerror = "none"
  /\ sent[s] < length[s]
  /\ sent' = [sent EXCEPT ![s] = @ + 1]
  /\ LET held == Append(decoder[s], sent[s] + 1) IN
     \/ /\ Len(held) <= Delay
        /\ decoder' = [decoder EXCEPT ![s] = held]
        /\ got' = Again
     \/ /\ got' = FrameOf(s, Head(held))
        /\ decoder' = [decoder EXCEPT ![s] = Tail(held)]
  /\ UNCHANGED <<length, reader, opened, rerror>>

\* At the end of the file the packet is blank.  Its stream index is 0, so
\* that decoder is drained, one frame a call, and then null is returned.
ReadEof ==
  /\ reader = "ready" /\ rerror = "none"
  /\ sent = length
  /\ \/ /\ decoder[0] # <<>>
        /\ got' = FrameOf(0, Head(decoder[0]))
        /\ decoder' = [decoder EXCEPT ![0] = Tail(@)]
     \/ /\ decoder[0] = <<>>
        /\ got' = NullFrame
        /\ UNCHANGED decoder
  /\ UNCHANGED <<length, reader, opened, sent, rerror>>

\* A packet that cannot be read, is of no stream known or cannot be sent;
\* once it is sent, or blank, a frame that cannot be allocated or received.
ReadFails ==
  /\ reader = "ready" /\ rerror = "none"
  /\ \/ /\ \E call \in Faults \cap {"read", "send"} : rerror' = call
        /\ UNCHANGED <<sent, decoder>>
     \/ /\ \E call \in Faults \cap {"frame", "decode"} : rerror' = call
        /\ \/ sent = length /\ UNCHANGED <<sent, decoder>>
           \/ \E s \in Streams :
                /\ sent[s] < length[s]
                /\ sent' = [sent EXCEPT ![s] = @ + 1]
                /\ decoder' = [decoder EXCEPT ![s] = Append(@, sent[s] + 1)]
  /\ got' = ErrorStatus
  /\ UNCHANGED <<length, reader, opened>>

\* ~FrameReader
CloseReader ==
  /\ reader = "ready"
  /\ reader' = "closed"
  /\ opened' = {}
  /\ UNCHANGED <<length, sent, decoder, got, rerror>>

CreateReader == OpenInput \/ FindStreamInfo \/ (\E s \in Streams : OpenDecoder(s)) \/ AllocPacket
ReadNextFrame == (\E s \in Streams : ReadPacket(s)) \/ ReadEof \/ ReadFails

ReaderNext ==
  \/ CreateReader
  \/ got.is \in {"again", "frame"} /\ ReadNextFrame
  \/ CloseReader

ReaderSpec == ReaderInit /\ [][ReaderNext]_readerVars

-----------------------------------------------------------------------------
\* Type invariant of the reader.
ReaderTypeOK ==
  /\ length \in [Streams -> 0 .. MaxFrames]
  /\ reader \in {"open", "info", "codecs", "ready", "failed", "closed"}
  /\ opened \subseteq {"input", "decoder", "packet"} \X Streams
  /\ sent \in [Streams -> 0 .. MaxFrames]
  /\ decoder \in [Streams -> Seq(Nat)]
  /\ got \in [is : {"again", "frame", "null", "error"}, stream : Streams, number : Nat]
  /\ rerror \in Call \cup {"none"}

\* The test ReadNextFrameTest.ReturnsAllValidFrames: every frame of the file
\* has been returned when null is.
ReturnsAllFrames ==
  got = NullFrame => \A s \in Streams : decoder[s] = <<>>
=============================================================================
