---------------------------- MODULE EnhanceVideo ----------------------------
(***************************************************************************)
(* EnhanceVideo of viduce-engine (engine_api.cc): a FrameReader and a      *)
(* FrameWriter in a loop that reads a frame, upscales it and writes it     *)
(* until the reader returns null, and then flushes the writer.  Whatever   *)
(* fails ends it; the reader and the writer there are then destroyed.      *)
(***************************************************************************)
EXTENDS FrameReader, FrameWriter

VARIABLES
  pc,     \* where EnhanceVideoInternal is
  result  \* its status: "none" yet, "ok" or "error"

vars == <<readerVars, writerVars, pc, result>>

Init ==
  /\ ReaderInit
  /\ WriterInit
  /\ pc = "model"
  /\ result = "none"

\* The path of the model is not set, or the model cannot be loaded.
LoadModel ==
  /\ pc = "model"
  /\ \/ pc' = "reader" /\ result' = result
     \/ "model" \in Faults /\ pc' = "return" /\ result' = "error"
  /\ UNCHANGED <<readerVars, writerVars>>

MakeReader ==
  /\ pc = "reader"
  /\ CreateReader
  /\ pc' = CASE reader' = "ready" -> "writer" [] reader' = "failed" -> "return" [] OTHER -> pc
  /\ result' = IF reader' = "failed" THEN "error" ELSE result
  /\ UNCHANGED writerVars

MakeWriter ==
  /\ pc = "writer"
  /\ CreateWriter
  /\ pc' = CASE writer' = "ready" -> "read" [] writer' = "failed" -> "return" [] OTHER -> pc
  /\ result' = IF writer' = "failed" THEN "error" ELSE result
  /\ UNCHANGED readerVars

Read ==
  /\ pc = "read"
  /\ ReadNextFrame
  /\ pc' = CASE got'.is = "again" -> "read"
             [] got'.is = "frame" -> "upscale"
             [] got'.is = "null" -> "flush"
             [] got'.is = "error" -> "return"
  /\ result' = IF got'.is = "error" THEN "error" ELSE result
  /\ UNCHANGED writerVars

\* The upscaled frame keeps the stream index of its source.
Upscale ==
  /\ pc = "upscale"
  /\ Write(got.stream, got.number)
  /\ pc' = "write"
  /\ UNCHANGED <<readerVars, result>>

UpscaleFails ==
  /\ pc = "upscale"
  /\ "upscale" \in Faults
  /\ pc' = "return"
  /\ result' = "error"
  /\ UNCHANGED <<readerVars, writerVars>>

WriteFrame ==
  /\ pc = "write"
  /\ EncodeFrame
  /\ pc' = IF werror' # "none" THEN "return" ELSE IF writer' = "ready" THEN "read" ELSE pc
  /\ result' = IF werror' # "none" THEN "error" ELSE result
  /\ UNCHANGED readerVars

Flush ==
  /\ pc = "flush"
  /\ (\E s \in Streams : FlushEncoder(s)) \/ EncodeFrame \/ WriteTrailer
  /\ pc' = IF trailer' \/ werror' # "none" THEN "return" ELSE pc
  /\ result' = CASE trailer' -> "ok" [] werror' # "none" -> "error" [] OTHER -> result
  /\ UNCHANGED readerVars

\* The destructors of the reader and the writer, where they were created.
Return ==
  /\ pc = "return"
  /\ IF reader = "ready" THEN CloseReader ELSE UNCHANGED readerVars
  /\ IF writer = "ready" THEN CloseWriter ELSE UNCHANGED writerVars
  /\ pc' = "done"
  /\ UNCHANGED result

Done == pc = "done" /\ UNCHANGED vars

Next ==
  \/ LoadModel \/ MakeReader \/ MakeWriter
  \/ Read \/ Upscale \/ UpscaleFails \/ WriteFrame \/ Flush
  \/ Return \/ Done

Spec == Init /\ [][Next]_vars

-----------------------------------------------------------------------------
\* Type invariant.
TypeOK ==
  /\ ReaderTypeOK
  /\ WriterTypeOK
  /\ pc \in {"model", "reader", "writer", "read", "upscale", "write", "flush", "return", "done"}
  /\ result \in {"none", "ok", "error"}

\* The frame between the reader and the writer.
InHand(s) == IF pc = "upscale" /\ got.stream = s THEN <<got.number>> ELSE <<>>

\* The frames of a stream on their way from the decoder to the output file.
OnTheWay(s) == muxed[s] \o encoder[s] \o InHand(s) \o decoder[s]

\* Until something fails, every frame whose packet was sent to a decoder is
\* in exactly one place, and the frames of a stream neither overtake each
\* other nor get lost in the decoder, the encoder or between the two.
InOrder ==
  result # "error" => \A s \in Streams : OnTheWay(s) = [i \in 1 .. sent[s] |-> i]

\* When EnhanceVideo succeeds the output file is finished and holds the
\* frames of every stream from the first on, in order.  Of the first stream
\* it holds all; of another, all but those its decoder held back, which
\* nobody drains.
OkMeansWhole ==
  result = "ok" =>
    /\ trailer
    /\ \A s \in Streams :
         /\ \A i \in 1 .. Len(muxed[s]) : muxed[s][i] = i
         /\ Len(muxed[s]) >= length[s] - Delay
    /\ Len(muxed[0]) = length[0]

\* The libav objects of a reader and of a writer.
ReaderObjects == Handle("input") \cup ({"decoder"} \X Streams) \cup Handle("packet")
WriterObjects ==
  Handle("output") \cup Handle("file") \cup ({"encoder"} \X Streams) \cup Handle("wpacket")

\* Nothing is used after it was freed: what Create hands to the object it
\* returns is open as long as the object is used.
UsesOpen ==
  pc \in {"read", "upscale", "write", "flush"} =>
    opened = ReaderObjects /\ wopened = WriterObjects

\* What EnhanceVideo leaves open when it has returned was left by one of
\* three error paths: stream info not found, a decoder or the output file
\* that cannot be opened.
HandlesAccounted ==
  pc = "done" =>
    /\ opened # {} => \/ rerror = "info" /\ opened = Handle("input")
                      \/ rerror = "codec" /\ opened \subseteq {"decoder"} \X Streams
    /\ wopened # {} => werror = "avio" /\ wopened = Handle("output")

(***************************************************************************)
(* The inductive invariant.                                                *)
(***************************************************************************)

\* Where the reader and the writer are, in each step of EnhanceVideo.
Control ==
  /\ pc = "model" => reader = "open" /\ writer = "alloc"
  /\ pc = "reader" => reader \in {"open", "info", "codecs"} /\ writer = "alloc"
  /\ pc = "writer" => reader = "ready" /\ writer \in {"alloc", "avio", "encoders", "wpacket"}
  /\ pc \in {"read", "upscale"} => reader = "ready" /\ writer = "ready"
  /\ pc = "write" => reader = "ready" /\ writer = "encode"
  /\ pc = "flush" => reader = "ready" /\ writer \in {"ready", "drain"}
  /\ pc = "return" => reader \in {"open", "ready", "failed"} /\ writer \in {"alloc", "ready", "failed"}
  /\ pc = "done" => reader \in {"open", "failed", "closed"} /\ writer \in {"alloc", "failed", "closed"}
  /\ pc \notin {"return", "done"} => result = "none" /\ ~trailer /\ rerror = "none" /\ werror = "none"
  /\ pc \notin {"flush", "return", "done"} => flushed = {}

\* What a reader and a writer have opened, or left open, in each stage.
ReaderHandles ==
  /\ reader \in {"open", "closed"} => opened = {}
  /\ reader = "info" => opened = Handle("input")
  /\ reader = "codecs" =>
       Handle("input") \subseteq opened /\ opened \subseteq Handle("input") \cup ({"decoder"} \X Streams)
  /\ reader = "ready" => opened = ReaderObjects
  /\ reader = "failed" /\ opened # {} =>
       \/ rerror = "info" /\ opened = Handle("input")
       \/ rerror = "codec" /\ opened \subseteq {"decoder"} \X Streams

WriterHandles ==
  LET output == Handle("output") \cup Handle("file")
      encoders == {"encoder"} \X Streams IN
  /\ writer \in {"alloc", "closed"} => wopened = {}
  /\ writer = "avio" => wopened = Handle("output")
  /\ writer = "encoders" => output \subseteq wopened /\ wopened \subseteq output \cup encoders
  /\ writer = "wpacket" => wopened = output \cup encoders
  /\ writer \in {"ready", "encode", "drain"} => wopened = WriterObjects
  /\ writer = "failed" /\ wopened # {} => werror = "avio" /\ wopened = Handle("output")

\* A decoder holds back no more than its delay, until something fails; the
\* flush begins when every packet is sent and the first stream is drained;
\* a drained encoder stays empty; success comes after all of this.
Drained ==
  /\ result # "error" => \A s \in Streams : Len(decoder[s]) <= Delay
  /\ pc = "flush" => sent = length /\ decoder[0] = <<>>
  /\ \A s \in flushed : encoder[s] = <<>>
  /\ result = "ok" =>
       pc \in {"return", "done"} /\ trailer /\ flushed = Streams /\ sent = length /\ decoder[0] = <<>>

PipelineInv ==
  /\ TypeOK
  /\ Control
  /\ ReaderHandles
  /\ WriterHandles
  /\ Drained
  /\ InOrder
=============================================================================
