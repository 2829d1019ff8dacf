-------------------------- MODULE EnhanceVideoProofs --------------------------
(***************************************************************************)
(* Proofs about EnhanceVideo, for any number of streams, frames of any     *)
(* number, any delay and any calls that fail.                              *)
(***************************************************************************)
EXTENDS EnhanceVideo, SequenceTheorems, TLAPS

(***************************************************************************)
(* Sequences                                                               *)
(***************************************************************************)

\* The head of one queue moves to the end of the queue before it.
LEMMA MoveHead ==
  ASSUME NEW S, NEW a \in Seq(S), NEW b \in Seq(S), b # <<>>
  PROVE  /\ Head(b) \in S
         /\ Tail(b) \in Seq(S)
         /\ Len(Tail(b)) = Len(b) - 1
         /\ Append(a, Head(b)) \in Seq(S)
         /\ Append(a, Head(b)) \o Tail(b) = a \o b
<1>1. /\ Head(b) \in S
      /\ Tail(b) \in Seq(S)
      /\ Len(Tail(b)) = Len(b) - 1
      /\ \A i \in 1 .. Len(Tail(b)) : Tail(b)[i] = b[i + 1]
  BY HeadTailProperties
<1>2. Head(b) = b[1] /\ Len(b) \in Nat \ {0}
  BY EmptySeq
<1> DEFINE c == Append(a, Head(b))
<1>3. /\ c \in Seq(S)
      /\ Len(c) = Len(a) + 1
      /\ \A i \in 1 .. Len(a) : c[i] = a[i]
      /\ c[Len(a) + 1] = Head(b)
  BY <1>1, AppendProperties
<1> HIDE DEF c
<1>4. /\ c \o Tail(b) \in Seq(S)
      /\ Len(c \o Tail(b)) = Len(c) + Len(Tail(b))
      /\ \A i \in 1 .. Len(c) + Len(Tail(b)) :
           (c \o Tail(b))[i] = IF i <= Len(c) THEN c[i] ELSE Tail(b)[i - Len(c)]
  BY <1>1, <1>3, ConcatProperties
<1>5. /\ a \o b \in Seq(S)
      /\ Len(a \o b) = Len(a) + Len(b)
      /\ \A i \in 1 .. Len(a) + Len(b) :
           (a \o b)[i] = IF i <= Len(a) THEN a[i] ELSE b[i - Len(a)]
  BY ConcatProperties
<1>6. Len(a) \in Nat
  BY LenProperties
<1>7. Len(c \o Tail(b)) = Len(a \o b)
  BY <1>1, <1>2, <1>3, <1>4, <1>5, <1>6
<1>8. ASSUME NEW i \in 1 .. Len(c \o Tail(b))
      PROVE  (c \o Tail(b))[i] = (a \o b)[i]
  <2>1. CASE i <= Len(a)
    BY <2>1, <1>1, <1>2, <1>3, <1>4, <1>5, <1>6
  <2>2. CASE i = Len(a) + 1
    BY <2>2, <1>1, <1>2, <1>3, <1>4, <1>5, <1>6
  <2>3. CASE i > Len(a) + 1
    <3>1. i - Len(c) \in 1 .. Len(Tail(b)) /\ (i - Len(c)) + 1 = i - Len(a)
      BY <2>3, <1>1, <1>2, <1>3, <1>4, <1>6
    <3>2. QED
      BY <2>3, <3>1, <1>1, <1>2, <1>3, <1>4, <1>5, <1>6
  <2>4. QED
    BY <2>1, <2>2, <2>3, <1>1, <1>2, <1>3, <1>4, <1>6
<1>9. c \o Tail(b) = a \o b
  BY <1>4, <1>5, <1>7, <1>8, SeqEqual
<1>10. QED
  BY <1>1, <1>3, <1>9 DEF c

\* The first n frames of a stream, and one more.
LEMMA FirstFrames ==
  ASSUME NEW n \in Nat
  PROVE  /\ [i \in 1 .. n |-> i] \in Seq(Nat)
         /\ Len([i \in 1 .. n |-> i]) = n
         /\ Append([i \in 1 .. n |-> i], n + 1) = [i \in 1 .. n + 1 |-> i]
  OBVIOUS

\* A packet joins the end of the decoder's queue.
LEMMA PacketJoins ==
  ASSUME NEW S, NEW w \in Seq(S), NEW d \in Seq(S), NEW x \in S
  PROVE  w \o Append(d, x) = Append(w \o d, x)
<1>1. <<x>> \in Seq(S) /\ w \o d \in Seq(S)
  BY ConcatProperties
<1>2. QED
  BY <1>1, AppendIsConcat, ConcatAssociative

\* The same of any decoder's queue.
LEMMA DecoderGrows ==
  ASSUME NEW d \in Seq(Nat), NEW x \in Nat
  PROVE  /\ Append(d, x) \in Seq(Nat) /\ Append(d, x) # <<>>
         /\ Len(Append(d, x)) = Len(d) + 1
         /\ \A w \in Seq(Nat) : w \o Append(d, x) = Append(w \o d, x)
<1>1. Append(d, x) \in Seq(Nat) /\ Append(d, x) # <<>> /\ Len(Append(d, x)) = Len(d) + 1
  BY AppendProperties
<1>2. ASSUME NEW w \in Seq(Nat)
      PROVE  w \o Append(d, x) = Append(w \o d, x)
  BY PacketJoins
<1>3. QED
  BY <1>1, <1>2

\* A frame leaves the decoder for the hand.
LEMMA FrameInHand ==
  ASSUME NEW S, NEW w \in Seq(S), NEW d \in Seq(S), d # <<>>
  PROVE  (w \o <<Head(d)>>) \o Tail(d) = (w \o <<>>) \o d
<1>1. Head(d) \in S
  BY MoveHead
<1>2. w \o <<Head(d)>> = Append(w, Head(d)) /\ w \o <<>> = w
  BY <1>1, AppendIsConcat, ConcatEmptySeq
<1>3. QED
  BY <1>2, MoveHead

\* A frame leaves the hand for the encoder.
LEMMA FrameToEncoder ==
  ASSUME NEW m \in Seq(Nat), NEW e \in Seq(Nat), NEW x \in Nat
  PROVE  (m \o Append(e, x)) \o <<>> = (m \o e) \o <<x>>
<1>1. <<x>> \in Seq(Nat) /\ m \o e \in Seq(Nat) /\ Append(e, x) \in Seq(Nat)
  BY ConcatProperties, AppendProperties
<1>2. m \o Append(e, x) \in Seq(Nat)
  BY <1>1, ConcatProperties
<1>3. (m \o Append(e, x)) \o <<>> = m \o Append(e, x)
  BY <1>2, ConcatEmptySeq
<1>4. QED
  BY <1>1, <1>3, AppendIsConcat, ConcatAssociative

(***************************************************************************)
(* The inductive invariant                                                 *)
(***************************************************************************)

\* EnhanceVideo starts with the invariant.
LEMMA InitInv == Init => PipelineInv
<1> SUFFICES ASSUME Init PROVE PipelineInv
  OBVIOUS
<1> USE DEF Init, ReaderInit, WriterInit
<1>1. 0 \in Streams
  BY StreamAssumption DEF Streams
<1>2. TypeOK
  <2>1. Again \in [is : {"again", "frame", "null", "error"}, stream : Streams, number : Nat]
    BY <1>1 DEF Again
  <2>2. [s \in Streams |-> 0] \in [Streams -> 0 .. MaxFrames]
    BY StreamAssumption
  <2>3. ReaderTypeOK
    BY <2>1, <2>2 DEF ReaderTypeOK
  <2>4. [s \in Streams |-> <<>>] \in [Streams -> Seq(Nat)]
    OBVIOUS
  <2>5. WriterTypeOK
    BY <1>1, <2>4 DEF WriterTypeOK
  <2>6. QED
    BY <2>3, <2>5 DEF TypeOK
<1>3. Control /\ ReaderHandles /\ WriterHandles
  BY DEF Control, ReaderHandles, WriterHandles
<1>4. Drained
  BY StreamAssumption DEF Drained
<1>5. InOrder
  <2>1. \A s \in Streams : OnTheWay(s) = <<>>
    BY DEF OnTheWay, InHand
  <2>2. [i \in 1 .. 0 |-> i] = <<>>
    OBVIOUS
  <2>3. QED
    BY <2>1, <2>2 DEF InOrder
<1>6. QED
  BY <1>2, <1>3, <1>4, <1>5 DEF PipelineInv

\* A step that moves no frame keeps them in order.
LEMMA NoFrameMoves ==
  ASSUME InOrder, UNCHANGED <<sent, decoder, encoder, muxed>>,
         pc # "upscale", pc' # "upscale",
         result' # "error" => result # "error"
  PROVE  InOrder'
BY DEF InOrder, OnTheWay, InHand

\* Loading the model, or failing to.
LEMMA LoadModelKeeps ==
  ASSUME PipelineInv, LoadModel PROVE PipelineInv'
<1> USE DEF LoadModel, PipelineInv, readerVars, writerVars
<1>1. TypeOK'
  <2>1. ReaderTypeOK'
    BY DEF TypeOK, ReaderTypeOK
  <2>2. WriterTypeOK'
    BY DEF TypeOK, WriterTypeOK
  <2>3. QED
    BY <2>1, <2>2 DEF TypeOK
<1>2. Control'
  BY DEF Control
<1>3. ReaderHandles' /\ WriterHandles'
  BY DEF ReaderHandles, WriterHandles
<1>4. Drained'
  BY DEF Drained, Control
<1>5. InOrder'
  BY NoFrameMoves DEF Control
<1>6. QED
  BY <1>1, <1>2, <1>3, <1>4, <1>5

\* Each call of FrameReader::Create.
LEMMA MakeReaderKeeps ==
  ASSUME PipelineInv, MakeReader PROVE PipelineInv'
<1> USE DEF PipelineInv
<1>0. /\ pc = "reader" /\ writer = "alloc" /\ result = "none" /\ rerror = "none"
      /\ reader \in {"open", "info", "codecs"}
  BY DEF MakeReader, Control
<1>1. UNCHANGED <<writerVars, length, sent, decoder, got>>
  BY DEF MakeReader, CreateReader, OpenInput, FindStreamInfo, OpenDecoder, AllocPacket, CreateStep
<1>2. 0 \in Streams
  BY StreamAssumption DEF Streams
<1>3. \/ reader' \in {"info", "codecs", "ready"} /\ rerror' = "none"
      \/ reader' = "failed" /\ rerror' \in Call
  BY <1>0, FaultAssumption DEF MakeReader, CreateReader, OpenInput, FindStreamInfo, OpenDecoder,
     AllocPacket, CreateStep
<1>4. ReaderHandles' /\ opened' \subseteq {"input", "decoder", "packet"} \X Streams
  <2>1. CASE OpenInput
    BY <2>1, <1>2 DEF OpenInput, CreateStep, ReaderHandles, Handle
  <2>2. CASE FindStreamInfo
    BY <2>2, <1>2 DEF FindStreamInfo, CreateStep, ReaderHandles, Handle
  <2>3. ASSUME NEW s \in Streams, OpenDecoder(s)
        PROVE  ReaderHandles' /\ opened' \subseteq {"input", "decoder", "packet"} \X Streams
    BY <2>3, <1>2 DEF OpenDecoder, CreateStep, ReaderHandles, Handle
  <2>4. CASE AllocPacket
    <3>1. {"decoder"} \X Streams \subseteq opened
      BY <2>4 DEF AllocPacket, Having
    <3>2. opened = Handle("input") \cup ({"decoder"} \X Streams)
      BY <2>4, <3>1 DEF AllocPacket, CreateStep, ReaderHandles
    <3>3. QED
      BY <2>4, <3>2, <1>2 DEF AllocPacket, CreateStep, ReaderHandles, ReaderObjects, Handle
  <2>5. QED
    BY <2>1, <2>2, <2>3, <2>4 DEF MakeReader, CreateReader
<1>5. TypeOK'
  BY <1>0, <1>1, <1>3, <1>4 DEF MakeReader, TypeOK, ReaderTypeOK, WriterTypeOK, writerVars
<1>6. /\ pc' = IF reader' = "ready" THEN "writer" ELSE IF reader' = "failed" THEN "return" ELSE "reader"
      /\ result' = IF reader' = "failed" THEN "error" ELSE "none"
  BY <1>0, <1>3 DEF MakeReader
<1>7. Control'
  BY <1>0, <1>1, <1>3, <1>6 DEF Control, writerVars
<1>8. WriterHandles'
  BY <1>1 DEF WriterHandles, writerVars
<1>9. Drained'
  BY <1>0, <1>1, <1>3, <1>6 DEF Drained, writerVars
<1>10. InOrder'
  BY <1>0, <1>1, <1>3, <1>6, NoFrameMoves DEF writerVars
<1>11. QED
  BY <1>4, <1>5, <1>7, <1>8, <1>9, <1>10

\* Each call of FrameWriter::Create.
LEMMA MakeWriterKeeps ==
  ASSUME PipelineInv, MakeWriter PROVE PipelineInv'
<1> USE DEF PipelineInv
<1> USE DEF AllocOutput, OpenOutput, OpenEncoder, WriteHeader, AllocWriterPacket, BuildStep, BuildFails
<1>0. /\ pc = "writer" /\ reader = "ready" /\ result = "none" /\ werror = "none"
      /\ rerror = "none" /\ ~trailer /\ flushed = {}
  BY DEF MakeWriter, Control
<1>1. UNCHANGED <<readerVars, kind, encoder, encodes, muxed, flushed, trailer>>
  BY DEF MakeWriter, CreateWriter
<1>2. 0 \in Streams
  BY StreamAssumption DEF Streams
<1>3. \/ writer' \in {"avio", "encoders", "wpacket", "ready"} /\ werror' = "none"
      \/ writer' = "failed" /\ werror' \in Call
  BY <1>0 DEF MakeWriter, CreateWriter, Call
<1>4. WriterHandles' /\ wopened' \subseteq {"output", "file", "encoder", "wpacket"} \X Streams
  <2>1. CASE AllocOutput
    BY <2>1, <1>2 DEF WriterHandles, Handle
  <2>2. CASE OpenOutput
    BY <2>2, <1>2 DEF WriterHandles, Handle
  <2>3. ASSUME NEW s \in Streams, OpenEncoder(s)
        PROVE  WriterHandles' /\ wopened' \subseteq {"output", "file", "encoder", "wpacket"} \X Streams
    BY <2>3, <1>2 DEF WriterHandles, Handle
  <2>4. CASE WriteHeader
    <3>1. {"encoder"} \X Streams \subseteq wopened
      BY <2>4 DEF Having
    <3>2. QED
      BY <2>4, <3>1, <1>2 DEF WriterHandles, Handle
  <2>5. CASE AllocWriterPacket
    BY <2>5, <1>2 DEF WriterHandles, WriterObjects, Handle
  <2>6. QED
    BY <2>1, <2>2, <2>3, <2>4, <2>5 DEF MakeWriter, CreateWriter
<1>5. TypeOK'
  BY <1>0, <1>1, <1>3, <1>4 DEF MakeWriter, TypeOK, ReaderTypeOK, WriterTypeOK, readerVars
<1>6. /\ pc' = IF writer' = "ready" THEN "read" ELSE IF writer' = "failed" THEN "return" ELSE "writer"
      /\ result' = IF writer' = "failed" THEN "error" ELSE "none"
  BY <1>0, <1>3 DEF MakeWriter
<1>7. writer' # "alloc"
  BY <1>3
<1>8. Control'
  BY <1>0, <1>1, <1>3, <1>6 DEF Control, readerVars
<1>9. ReaderHandles'
  BY <1>1 DEF ReaderHandles, readerVars
<1>10. Drained'
  BY <1>0, <1>1, <1>3, <1>6 DEF Drained, readerVars
<1>11. InOrder'
  BY <1>0, <1>1, <1>3, <1>6, NoFrameMoves DEF readerVars
<1>12. QED
  BY <1>4, <1>5, <1>8, <1>9, <1>10, <1>11

(***************************************************************************)
(* Reading                                                                 *)
(***************************************************************************)

\* A packet goes to its decoder, which may return a frame.
LEMMA ReadPacketKeeps ==
  ASSUME PipelineInv, Read, NEW s \in Streams, ReadPacket(s)
  PROVE  PipelineInv'
<1> USE DEF PipelineInv
<1> DEFINE held == Append(decoder[s], sent[s] + 1)
<1> DEFINE w == muxed[s] \o encoder[s]
<1>0. /\ pc = "read" /\ reader = "ready" /\ writer = "ready" /\ result = "none"
      /\ rerror = "none" /\ werror = "none" /\ ~trailer /\ flushed = {}
  BY DEF Read, Control
<1>1. UNCHANGED <<writerVars, length, reader, opened, rerror>>
  BY DEF Read, ReadPacket
<1>2. /\ decoder[s] \in Seq(Nat) /\ w \in Seq(Nat) /\ muxed[s] \in Seq(Nat) /\ encoder[s] \in Seq(Nat)
      /\ sent[s] \in Nat /\ sent[s] + 1 \in Nat /\ sent[s] + 1 \in 0 .. MaxFrames
  <2>1. /\ decoder[s] \in Seq(Nat) /\ muxed[s] \in Seq(Nat) /\ encoder[s] \in Seq(Nat)
    BY DEF TypeOK, ReaderTypeOK, WriterTypeOK
  <2>2. sent[s] \in 0 .. MaxFrames /\ length[s] \in 0 .. MaxFrames /\ sent[s] < length[s]
    BY DEF TypeOK, ReaderTypeOK, ReadPacket
  <2>3. QED
    BY <2>1, <2>2, StreamAssumption, ConcatProperties
<1>3. held \in Seq(Nat) /\ held # <<>> /\ Len(held) = Len(decoder[s]) + 1
  BY <1>2, DecoderGrows
<1>4. Head(held) \in Nat /\ Tail(held) \in Seq(Nat) /\ Len(Tail(held)) = Len(decoder[s])
  <2> HIDE DEF held
  <2>1. Head(held) \in Nat /\ Tail(held) \in Seq(Nat) /\ Len(Tail(held)) = Len(held) - 1
    BY <1>3, HeadTailProperties
  <2>2. Len(decoder[s]) \in Nat
    BY <1>2, LenProperties
  <2>3. QED
    BY <1>3, <2>1, <2>2
<1>5. sent' = [sent EXCEPT ![s] = @ + 1]
  BY DEF ReadPacket
<1>6. \/ /\ Len(held) <= Delay /\ decoder' = [decoder EXCEPT ![s] = held]
         /\ got' = Again /\ pc' = "read"
      \/ /\ decoder' = [decoder EXCEPT ![s] = Tail(held)]
         /\ got' = FrameOf(s, Head(held)) /\ pc' = "upscale"
  BY DEF Read, ReadPacket, Again, FrameOf
<1>7. result' = result
  BY <1>6 DEF Read, Again, FrameOf
<1> HIDE DEF held, w
<1>8. TypeOK'
  <2>1. 0 \in Streams
    BY StreamAssumption DEF Streams
  <2>2. got' \in [is : {"again", "frame", "null", "error"}, stream : Streams, number : Nat]
    BY <1>4, <1>6, <2>1 DEF Again, FrameOf
  <2>3. decoder' \in [Streams -> Seq(Nat)] /\ sent' \in [Streams -> 0 .. MaxFrames]
    BY <1>2, <1>3, <1>4, <1>5, <1>6 DEF TypeOK, ReaderTypeOK
  <2>4. ReaderTypeOK'
    BY <1>1, <2>2, <2>3 DEF TypeOK, ReaderTypeOK
  <2>5. WriterTypeOK'
    BY <1>1 DEF TypeOK, WriterTypeOK, writerVars
  <2>6. QED
    BY <1>0, <1>6, <1>7, <2>4, <2>5 DEF TypeOK
<1>9. Control'
  BY <1>0, <1>1, <1>6, <1>7 DEF Control, writerVars
<1>10. ReaderHandles' /\ WriterHandles'
  BY <1>1 DEF ReaderHandles, WriterHandles, writerVars
<1>11. Drained'
  <2>1. \A t \in Streams : Len(decoder[t]) <= Delay
    BY <1>0 DEF Drained
  <2>2. \A t \in Streams : Len(decoder'[t]) <= Delay
    BY <1>4, <1>6, <2>1 DEF TypeOK, ReaderTypeOK
  <2>3. QED
    BY <1>0, <1>1, <1>6, <1>7, <2>2 DEF Drained, writerVars
<1>12. InOrder'
  <2>1. OnTheWay(s) = [i \in 1 .. sent[s] |-> i]
    BY <1>0 DEF InOrder
  <2>2. OnTheWay(s) = (w \o <<>>) \o decoder[s]
    BY <1>0 DEF OnTheWay, InHand, w
  <2>3. OnTheWay(s)' = (w \o <<>>) \o held
    <3>1. CASE pc' = "read"
      BY <1>1, <1>6, <3>1 DEF OnTheWay, InHand, w, writerVars, TypeOK, ReaderTypeOK
    <3>2. CASE pc' = "upscale"
      <4>1. decoder'[s] = Tail(held) /\ got' = FrameOf(s, Head(held))
        BY <1>6, <3>2 DEF TypeOK, ReaderTypeOK
      <4>2. InHand(s)' = <<Head(held)>>
        BY <3>2, <4>1 DEF InHand, FrameOf
      <4>3. OnTheWay(s)' = (w \o <<Head(held)>>) \o Tail(held)
        BY <1>1, <4>1, <4>2 DEF OnTheWay, w, writerVars
      <4>4. QED
        BY <4>3, <1>2, <1>3, FrameInHand
    <3>3. QED
      BY <1>6, <3>1, <3>2
  <2>4. (w \o <<>>) \o held = Append((w \o <<>>) \o decoder[s], sent[s] + 1)
    <3>1. w \o <<>> = w
      BY <1>2, ConcatEmptySeq
    <3>2. w \o held = Append(w \o decoder[s], sent[s] + 1)
      BY <1>2, DecoderGrows DEF held
    <3>3. QED
      BY <3>1, <3>2
  <2>5. OnTheWay(s)' = [i \in 1 .. sent'[s] |-> i]
    <3>1. sent'[s] = sent[s] + 1
      BY <1>5 DEF TypeOK, ReaderTypeOK
    <3>2. QED
      BY <1>2, <2>1, <2>2, <2>3, <2>4, <3>1, FirstFrames
  <2>6. ASSUME NEW t \in Streams, t # s
        PROVE  OnTheWay(t)' = [i \in 1 .. sent'[t] |-> i]
    <3>1. decoder'[t] = decoder[t] /\ sent'[t] = sent[t]
      BY <1>5, <1>6, <2>6 DEF TypeOK, ReaderTypeOK
    <3>2. InHand(t) = <<>> /\ InHand(t)' = <<>>
      BY <1>0, <1>6, <2>6 DEF InHand, FrameOf
    <3>3. OnTheWay(t)' = OnTheWay(t)
      BY <1>1, <3>1, <3>2 DEF OnTheWay, writerVars
    <3>4. QED
      BY <1>0, <3>1, <3>3 DEF InOrder
  <2>7. QED
    BY <2>5, <2>6 DEF InOrder
<1>13. QED
  BY <1>8, <1>9, <1>10, <1>11, <1>12

\* At the end of the file the first decoder is drained.
LEMMA ReadEofKeeps ==
  ASSUME PipelineInv, Read, ReadEof
  PROVE  PipelineInv'
<1> USE DEF PipelineInv
<1> DEFINE d == decoder[0]
<1> DEFINE w == muxed[0] \o encoder[0]
<1>0. /\ pc = "read" /\ reader = "ready" /\ writer = "ready" /\ result = "none"
      /\ rerror = "none" /\ werror = "none" /\ ~trailer /\ flushed = {} /\ sent = length
  BY DEF Read, Control, ReadEof
<1>1. UNCHANGED <<writerVars, length, reader, opened, rerror, sent>>
  BY DEF Read, ReadEof
<1>2. 0 \in Streams
  BY StreamAssumption DEF Streams
<1>3. d \in Seq(Nat) /\ w \in Seq(Nat)
  <2>1. d \in Seq(Nat) /\ muxed[0] \in Seq(Nat) /\ encoder[0] \in Seq(Nat)
    BY <1>2 DEF TypeOK, ReaderTypeOK, WriterTypeOK
  <2>2. QED
    BY <2>1, ConcatProperties
<1>4. \/ /\ d # <<>> /\ decoder' = [decoder EXCEPT ![0] = Tail(d)]
         /\ got' = FrameOf(0, Head(d)) /\ pc' = "upscale"
      \/ /\ d = <<>> /\ decoder' = decoder
         /\ got' = NullFrame /\ pc' = "flush"
  BY DEF Read, ReadEof, NullFrame, FrameOf
<1>5. result' = result
  BY <1>4 DEF Read, NullFrame, FrameOf
<1>6. d # <<>> => Head(d) \in Nat /\ Tail(d) \in Seq(Nat) /\ Len(Tail(d)) = Len(d) - 1
  BY <1>3, HeadTailProperties
<1> HIDE DEF d, w
<1>7. TypeOK'
  <2>1. got' \in [is : {"again", "frame", "null", "error"}, stream : Streams, number : Nat]
    BY <1>2, <1>4, <1>6 DEF NullFrame, FrameOf
  <2>2. decoder' \in [Streams -> Seq(Nat)]
    BY <1>4, <1>6 DEF TypeOK, ReaderTypeOK
  <2>3. ReaderTypeOK'
    BY <1>1, <2>1, <2>2 DEF TypeOK, ReaderTypeOK
  <2>4. WriterTypeOK'
    BY <1>1 DEF TypeOK, WriterTypeOK, writerVars
  <2>5. QED
    BY <1>0, <1>4, <1>5, <2>3, <2>4 DEF TypeOK
<1>8. Control'
  BY <1>0, <1>1, <1>4, <1>5 DEF Control, writerVars
<1>9. ReaderHandles' /\ WriterHandles'
  BY <1>1 DEF ReaderHandles, WriterHandles, writerVars
<1>10. Drained'
  <2>1. \A t \in Streams : Len(decoder[t]) <= Delay
    BY <1>0 DEF Drained
  <2>2. \A t \in Streams : Len(decoder'[t]) <= Delay
    <3>1. Len(d) \in Nat /\ Delay \in Nat
      BY <1>3, LenProperties, StreamAssumption
    <3>2. d # <<>> => Len(Tail(d)) <= Delay
      BY <1>2, <1>6, <2>1, <3>1 DEF d
    <3>3. QED
      BY <1>4, <2>1, <3>2 DEF TypeOK, ReaderTypeOK
  <2>3. QED
    BY <1>0, <1>1, <1>4, <1>5, <2>2 DEF Drained, writerVars, d
<1>11. InOrder'
  <2>1. OnTheWay(0)' = OnTheWay(0)
    <3>1. OnTheWay(0) = (w \o <<>>) \o d
      BY <1>0 DEF OnTheWay, InHand, w, d
    <3>2. CASE d # <<>>
      <4>1. decoder'[0] = Tail(d) /\ got' = FrameOf(0, Head(d)) /\ pc' = "upscale"
        BY <1>2, <1>4, <3>2 DEF TypeOK, ReaderTypeOK
      <4>2. InHand(0)' = <<Head(d)>>
        BY <4>1 DEF InHand, FrameOf
      <4>3. OnTheWay(0)' = (w \o <<Head(d)>>) \o Tail(d)
        BY <1>1, <4>1, <4>2 DEF OnTheWay, w, writerVars
      <4>4. QED
        BY <1>3, <3>1, <3>2, <4>3, FrameInHand
    <3>3. CASE d = <<>>
      BY <1>1, <1>4, <3>1, <3>3 DEF OnTheWay, InHand, w, writerVars, d
    <3>4. QED
      BY <3>2, <3>3
  <2>2. ASSUME NEW t \in Streams, t # 0
        PROVE  OnTheWay(t)' = OnTheWay(t)
    <3>1. decoder'[t] = decoder[t]
      BY <1>4, <2>2 DEF TypeOK, ReaderTypeOK
    <3>2. InHand(t) = <<>> /\ InHand(t)' = <<>>
      BY <1>0, <1>4, <2>2 DEF InHand, FrameOf
    <3>3. QED
      BY <1>1, <3>1, <3>2 DEF OnTheWay, writerVars
  <2>3. QED
    BY <1>0, <1>1, <2>1, <2>2 DEF InOrder
<1>12. QED
  BY <1>7, <1>8, <1>9, <1>10, <1>11

\* A call of ReadNextFrame that fails ends EnhanceVideo.
LEMMA ReadFailsKeeps ==
  ASSUME PipelineInv, Read, ReadFails
  PROVE  PipelineInv'
<1> USE DEF PipelineInv
<1>0. /\ pc = "read" /\ reader = "ready" /\ writer = "ready" /\ result = "none" /\ flushed = {}
  BY DEF Read, Control
<1>1. /\ UNCHANGED <<writerVars, length, reader, opened>>
      /\ got' = ErrorStatus /\ pc' = "return" /\ result' = "error"
  BY DEF Read, ReadFails, ErrorStatus
<1>2. rerror' \in Call
  BY FaultAssumption DEF ReadFails
<1>3. sent' \in [Streams -> 0 .. MaxFrames] /\ decoder' \in [Streams -> Seq(Nat)]
  <2>1. CASE UNCHANGED <<sent, decoder>>
    BY <2>1 DEF TypeOK, ReaderTypeOK
  <2>2. ASSUME NEW s \in Streams, sent[s] < length[s],
               sent' = [sent EXCEPT ![s] = @ + 1],
               decoder' = [decoder EXCEPT ![s] = Append(@, sent[s] + 1)]
        PROVE  sent' \in [Streams -> 0 .. MaxFrames] /\ decoder' \in [Streams -> Seq(Nat)]
    <3>1. sent[s] \in 0 .. MaxFrames /\ length[s] \in 0 .. MaxFrames
      BY DEF TypeOK, ReaderTypeOK
    <3>2. sent[s] + 1 \in 0 .. MaxFrames /\ sent[s] + 1 \in Nat
      BY <2>2, <3>1, StreamAssumption
    <3>3. Append(decoder[s], sent[s] + 1) \in Seq(Nat)
      BY <3>2, DecoderGrows DEF TypeOK, ReaderTypeOK
    <3>4. QED
      BY <2>2, <3>2, <3>3 DEF TypeOK, ReaderTypeOK
  <2>3. QED
    BY <2>1, <2>2 DEF ReadFails
<1>4. TypeOK'
  <2>1. got' \in [is : {"again", "frame", "null", "error"}, stream : Streams, number : Nat]
    BY <1>1, StreamAssumption DEF ErrorStatus, Streams
  <2>2. ReaderTypeOK'
    BY <1>1, <1>2, <1>3, <2>1 DEF TypeOK, ReaderTypeOK
  <2>3. WriterTypeOK'
    BY <1>1 DEF TypeOK, WriterTypeOK, writerVars
  <2>4. QED
    BY <1>1, <2>2, <2>3 DEF TypeOK
<1>5. Control'
  BY <1>0, <1>1 DEF Control, writerVars
<1>6. ReaderHandles' /\ WriterHandles'
  BY <1>0, <1>1 DEF ReaderHandles, WriterHandles, writerVars
<1>7. Drained' /\ InOrder'
  BY <1>0, <1>1 DEF Drained, InOrder, writerVars
<1>8. QED
  BY <1>4, <1>5, <1>6, <1>7

\* A call of ReadNextFrame.
LEMMA ReadKeeps == PipelineInv /\ Read => PipelineInv'
BY ReadPacketKeeps, ReadEofKeeps, ReadFailsKeeps DEF Read, ReadNextFrame

(***************************************************************************)
(* Writing                                                                 *)
(***************************************************************************)

\* The frame in hand is sent to the encoder of its stream.
LEMMA UpscaleKeeps ==
  ASSUME PipelineInv, Upscale
  PROVE  PipelineInv'
<1> USE DEF PipelineInv
<1>0. /\ pc = "upscale" /\ reader = "ready" /\ writer = "ready" /\ result = "none"
      /\ rerror = "none" /\ werror = "none" /\ ~trailer /\ flushed = {}
  BY DEF Upscale, Control
<1>1. PICK s \in Streams, n \in Nat : s = got.stream /\ n = got.number
  BY DEF TypeOK, ReaderTypeOK
<1>2. /\ UNCHANGED <<readerVars, result, kind, wopened, muxed, flushed, trailer, werror>>
      /\ pc' = "write" /\ writer' = "encode" /\ encodes' = s
      /\ encoder' = [encoder EXCEPT ![s] = Append(@, n)]
  BY <1>1 DEF Upscale, Write
<1>3. encoder[s] \in Seq(Nat) /\ muxed[s] \in Seq(Nat) /\ Append(encoder[s], n) \in Seq(Nat)
  BY DecoderGrows DEF TypeOK, WriterTypeOK
<1>4. encoder' \in [Streams -> Seq(Nat)]
  BY <1>2, <1>3 DEF TypeOK, WriterTypeOK
<1>5. TypeOK'
  <2>1. ReaderTypeOK'
    BY <1>2 DEF TypeOK, ReaderTypeOK, readerVars
  <2>2. WriterTypeOK'
    BY <1>2, <1>4 DEF TypeOK, WriterTypeOK
  <2>3. QED
    BY <1>2, <2>1, <2>2 DEF TypeOK
<1>6. Control'
  BY <1>0, <1>2 DEF Control, readerVars
<1>7. ReaderHandles' /\ WriterHandles'
  BY <1>0, <1>2 DEF ReaderHandles, WriterHandles, readerVars
<1>8. Drained'
  BY <1>0, <1>2 DEF Drained, readerVars
<1>9. InOrder'
  <2>1. OnTheWay(s)' = OnTheWay(s)
    <3>1. InHand(s) = <<n>> /\ InHand(s)' = <<>>
      BY <1>1, <1>0, <1>2 DEF InHand
    <3>2. encoder'[s] = Append(encoder[s], n)
      BY <1>2 DEF TypeOK, WriterTypeOK
    <3>3. (muxed[s] \o Append(encoder[s], n)) \o <<>> = (muxed[s] \o encoder[s]) \o <<n>>
      BY <1>3, FrameToEncoder
    <3>4. OnTheWay(s)' = ((muxed[s] \o Append(encoder[s], n)) \o <<>>) \o decoder[s]
      BY <1>2, <3>1, <3>2 DEF OnTheWay, readerVars
    <3>5. OnTheWay(s) = ((muxed[s] \o encoder[s]) \o <<n>>) \o decoder[s]
      BY <3>1 DEF OnTheWay
    <3>6. QED
      BY <3>3, <3>4, <3>5
  <2>2. ASSUME NEW t \in Streams, t # s
        PROVE  OnTheWay(t)' = OnTheWay(t)
    <3>1. encoder'[t] = encoder[t]
      BY <1>2, <2>2 DEF TypeOK, WriterTypeOK
    <3>2. InHand(t) = <<>> /\ InHand(t)' = <<>>
      BY <1>1, <1>2, <2>2 DEF InHand
    <3>3. QED
      BY <1>2, <3>1, <3>2 DEF OnTheWay, readerVars
  <2>3. QED
    BY <1>0, <1>2, <2>1, <2>2 DEF InOrder, readerVars
<1>10. QED
  BY <1>5, <1>6, <1>7, <1>8, <1>9

\* A frame that cannot be upscaled ends EnhanceVideo.
LEMMA UpscaleFailsKeeps ==
  ASSUME PipelineInv, UpscaleFails
  PROVE  PipelineInv'
<1> USE DEF PipelineInv
<1>0. pc = "upscale" /\ reader = "ready" /\ writer = "ready" /\ flushed = {}
  BY DEF UpscaleFails, Control
<1>1. UNCHANGED <<readerVars, writerVars>> /\ pc' = "return" /\ result' = "error"
  BY DEF UpscaleFails
<1>2. TypeOK'
  <2>1. ReaderTypeOK'
    BY <1>1 DEF TypeOK, ReaderTypeOK, readerVars
  <2>2. WriterTypeOK'
    BY <1>1 DEF TypeOK, WriterTypeOK, writerVars
  <2>3. QED
    BY <1>1, <2>1, <2>2 DEF TypeOK
<1>3. Control'
  BY <1>0, <1>1 DEF Control, readerVars, writerVars
<1>4. ReaderHandles' /\ WriterHandles'
  BY <1>1 DEF ReaderHandles, WriterHandles, readerVars, writerVars
<1>5. Drained' /\ InOrder'
  BY <1>0, <1>1 DEF Drained, InOrder, writerVars
<1>6. QED
  BY <1>2, <1>3, <1>4, <1>5

\* A packet leaves its encoder for the file.
LEMMA PacketMuxed ==
  ASSUME PipelineInv, ReceivePacket, UNCHANGED readerVars, pc # "upscale", pc' # "upscale"
  PROVE  /\ WriterTypeOK'
         /\ \A t \in Streams : OnTheWay(t)' = OnTheWay(t)
         /\ \A t \in flushed' : encoder'[t] = <<>>
<1> DEFINE s == encodes
<1>1. /\ s \in Streams /\ encoder[s] \in Seq(Nat) /\ muxed[s] \in Seq(Nat) /\ encoder[s] # <<>>
  BY DEF PipelineInv, TypeOK, WriterTypeOK, ReceivePacket
<1>2. /\ muxed' = [muxed EXCEPT ![s] = Append(@, Head(encoder[s]))]
      /\ encoder' = [encoder EXCEPT ![s] = Tail(@)]
      /\ UNCHANGED <<kind, writer, wopened, encodes, flushed, trailer, werror>>
  BY DEF ReceivePacket
<1> HIDE DEF s
<1>3. /\ Append(muxed[s], Head(encoder[s])) \in Seq(Nat) /\ Tail(encoder[s]) \in Seq(Nat)
      /\ Append(muxed[s], Head(encoder[s])) \o Tail(encoder[s]) = muxed[s] \o encoder[s]
  BY <1>1, MoveHead
<1>4. muxed' \in [Streams -> Seq(Nat)] /\ encoder' \in [Streams -> Seq(Nat)]
  BY <1>2, <1>3 DEF PipelineInv, TypeOK, WriterTypeOK
<1>5. WriterTypeOK'
  BY <1>2, <1>4 DEF PipelineInv, TypeOK, WriterTypeOK
<1>6. ASSUME NEW t \in Streams
      PROVE  OnTheWay(t)' = OnTheWay(t)
  <2>1. muxed'[t] \o encoder'[t] = muxed[t] \o encoder[t]
    <3>1. CASE t = s
      <4>1. muxed'[t] = Append(muxed[s], Head(encoder[s])) /\ encoder'[t] = Tail(encoder[s])
        BY <1>2, <3>1 DEF PipelineInv, TypeOK, WriterTypeOK
      <4>2. QED
        BY <1>3, <3>1, <4>1
    <3>2. CASE t # s
      BY <1>2, <3>2 DEF PipelineInv, TypeOK, WriterTypeOK
    <3>3. QED
      BY <3>1, <3>2
  <2>2. QED
    BY <2>1 DEF OnTheWay, InHand, readerVars
<1>7. \A t \in flushed' : encoder'[t] = <<>>
  <2>1. \A t \in flushed : encoder[t] = <<>> /\ t \in Streams
    BY DEF PipelineInv, Drained, TypeOK, WriterTypeOK
  <2>2. QED
    BY <1>1, <1>2, <2>1 DEF PipelineInv, TypeOK, WriterTypeOK
<1>8. QED
  BY <1>5, <1>6, <1>7

\* A step of the writer that moves no frame and frees none of its objects.
LEMMA EncodersKeep ==
  ASSUME PipelineInv, UNCHANGED <<readerVars, kind, wopened, encoder, muxed>>,
         pc # "upscale", pc' # "upscale", result # "error"
  PROVE  InOrder' /\ ReaderHandles' /\ ReaderTypeOK'
<1>1. InOrder'
  BY DEF PipelineInv, InOrder, OnTheWay, InHand, readerVars
<1>2. ReaderHandles'
  BY DEF PipelineInv, ReaderHandles, readerVars
<1>3. ReaderTypeOK'
  BY DEF PipelineInv, TypeOK, ReaderTypeOK, readerVars
<1>4. QED
  BY <1>1, <1>2, <1>3

\* A packet is muxed while a frame is written or an encoder drained.
LEMMA ReceivePacketKeeps ==
  ASSUME PipelineInv, WriteFrame \/ Flush, ReceivePacket
  PROVE  PipelineInv'
<1> USE DEF PipelineInv
<1>1. /\ result = "none" /\ rerror = "none" /\ werror = "none" /\ ~trailer /\ reader = "ready"
      /\ \/ pc = "write" /\ writer = "encode" /\ flushed = {}
         \/ pc = "flush" /\ writer = "drain"
  BY DEF WriteFrame, Flush, Control, ReceivePacket
<1>2. /\ UNCHANGED <<readerVars, kind, writer, wopened, encodes, flushed, trailer, werror>>
      /\ pc' = pc /\ result' = result
  <2>1. UNCHANGED <<readerVars, kind, writer, wopened, encodes, flushed, trailer, werror>>
    BY DEF WriteFrame, Flush, ReceivePacket
  <2>2. CASE WriteFrame
    BY <1>1, <2>1, <2>2 DEF WriteFrame
  <2>3. CASE Flush
    BY <1>1, <2>1, <2>3 DEF Flush
  <2>4. QED
    BY <2>1, <2>2, <2>3
<1>3. /\ WriterTypeOK'
      /\ \A t \in Streams : OnTheWay(t)' = OnTheWay(t)
      /\ \A t \in flushed' : encoder'[t] = <<>>
  BY <1>1, <1>2, PacketMuxed
<1>4. TypeOK'
  <2>1. ReaderTypeOK'
    BY <1>2 DEF TypeOK, ReaderTypeOK, readerVars
  <2>2. QED
    BY <1>2, <1>3, <2>1 DEF TypeOK
<1>5. Control' /\ ReaderHandles' /\ WriterHandles'
  BY <1>1, <1>2 DEF Control, ReaderHandles, WriterHandles, readerVars
<1>6. Drained'
  BY <1>1, <1>2, <1>3 DEF Drained, readerVars
<1>7. InOrder'
  BY <1>1, <1>2, <1>3 DEF InOrder, readerVars
<1>8. QED
  BY <1>4, <1>5, <1>6, <1>7

\* The encoder wants more frames, or is drained.
LEMMA EncoderDoneKeeps ==
  ASSUME PipelineInv, WriteFrame \/ Flush, EncoderDone
  PROVE  PipelineInv'
<1> USE DEF PipelineInv
<1>1. /\ result = "none" /\ rerror = "none" /\ werror = "none" /\ ~trailer /\ reader = "ready"
      /\ \/ /\ pc = "write" /\ writer = "encode" /\ flushed = {} /\ WriteFrame
         \/ /\ pc = "flush" /\ writer = "drain" /\ encoder[encodes] = <<>> /\ Flush
  BY DEF WriteFrame, Flush, Control, EncoderDone
<1>2. /\ UNCHANGED <<readerVars, kind, wopened, encoder, encodes, muxed, trailer, werror>>
      /\ writer' = "ready"
      /\ flushed' = IF writer = "drain" THEN flushed \cup {encodes} ELSE flushed
  BY DEF WriteFrame, Flush, EncoderDone
<1>3. result' = result /\ pc' = IF pc = "write" THEN "read" ELSE "flush"
  <2>1. CASE WriteFrame
    BY <1>2, <1>1, <2>1 DEF WriteFrame
  <2>2. CASE Flush
    BY <1>2, <1>1, <2>2 DEF Flush
  <2>3. QED
    BY <2>1, <2>2
<1>4. InOrder' /\ ReaderHandles' /\ ReaderTypeOK'
  BY <1>1, <1>2, <1>3, EncodersKeep
<1>5. TypeOK'
  <2>1. WriterTypeOK'
    BY <1>2 DEF TypeOK, WriterTypeOK
  <2>2. QED
    BY <1>3, <1>4, <2>1 DEF TypeOK
<1>6. Control'
  BY <1>1, <1>2, <1>3 DEF Control, readerVars
<1>7. WriterHandles'
  BY <1>1, <1>2 DEF WriterHandles
<1>8. Drained'
  BY <1>1, <1>2, <1>3 DEF Drained, readerVars
<1>9. QED
  BY <1>4, <1>5, <1>6, <1>7, <1>8

\* A frame or packet that fails ends EnhanceVideo.
LEMMA EncodeFailsKeeps ==
  ASSUME PipelineInv, WriteFrame \/ Flush, EncodeFails
  PROVE  PipelineInv'
<1> USE DEF PipelineInv
<1>1. /\ result = "none" /\ ~trailer /\ reader = "ready" /\ writer \in {"encode", "drain"}
      /\ pc \in {"write", "flush"}
  BY DEF WriteFrame, Flush, Control, EncodeFails
<1>2. /\ UNCHANGED <<readerVars, kind, wopened, encoder, encodes, muxed, flushed, trailer>>
      /\ writer' = "ready" /\ werror' \in Call /\ werror' # "none"
  BY FaultAssumption DEF WriteFrame, Flush, EncodeFails
<1>3. result' = "error" /\ pc' = "return"
  <2>1. CASE WriteFrame
    BY <1>2, <2>1 DEF WriteFrame
  <2>2. CASE Flush
    BY <1>1, <1>2, <2>2 DEF Flush
  <2>3. QED
    BY <2>1, <2>2
<1>4. TypeOK'
  <2>1. ReaderTypeOK'
    BY <1>2 DEF TypeOK, ReaderTypeOK, readerVars
  <2>2. WriterTypeOK'
    BY <1>2 DEF TypeOK, WriterTypeOK
  <2>3. QED
    BY <1>3, <2>1, <2>2 DEF TypeOK
<1>5. Control' /\ ReaderHandles' /\ WriterHandles'
  BY <1>1, <1>2, <1>3 DEF Control, ReaderHandles, WriterHandles, readerVars
<1>6. Drained' /\ InOrder'
  BY <1>2, <1>3 DEF Drained, InOrder
<1>7. QED
  BY <1>4, <1>5, <1>6

\* Flush turns to the next encoder.
LEMMA FlushEncoderKeeps ==
  ASSUME PipelineInv, Flush, NEW s \in Streams, FlushEncoder(s)
  PROVE  PipelineInv'
<1> USE DEF PipelineInv
<1>1. /\ result = "none" /\ rerror = "none" /\ werror = "none" /\ ~trailer /\ reader = "ready"
      /\ pc = "flush" /\ writer = "ready"
  BY DEF Flush, Control, FlushEncoder
<1>2. /\ UNCHANGED <<readerVars, kind, wopened, encoder, muxed, flushed, trailer, werror>>
      /\ writer' = "drain" /\ encodes' = s
  BY DEF Flush, FlushEncoder
<1>3. result' = result /\ pc' = pc
  BY <1>1, <1>2 DEF Flush
<1>4. InOrder' /\ ReaderHandles' /\ ReaderTypeOK'
  BY <1>1, <1>2, <1>3, EncodersKeep
<1>5. TypeOK'
  <2>1. WriterTypeOK'
    BY <1>2 DEF TypeOK, WriterTypeOK
  <2>2. QED
    BY <1>3, <1>4, <2>1 DEF TypeOK
<1>6. Control' /\ WriterHandles'
  BY <1>1, <1>2, <1>3 DEF Control, WriterHandles, readerVars
<1>7. Drained'
  BY <1>1, <1>2, <1>3 DEF Drained, readerVars
<1>8. QED
  BY <1>4, <1>5, <1>6, <1>7

\* The trailer is written once every encoder is drained.
LEMMA WriteTrailerKeeps ==
  ASSUME PipelineInv, Flush, WriteTrailer
  PROVE  PipelineInv'
<1> USE DEF PipelineInv
<1>1. /\ result = "none" /\ rerror = "none" /\ werror = "none" /\ ~trailer /\ reader = "ready"
      /\ pc = "flush" /\ writer = "ready" /\ flushed = Streams
  BY DEF Flush, Control, WriteTrailer
<1>2. UNCHANGED <<readerVars, kind, writer, wopened, encoder, encodes, muxed, flushed>>
  BY DEF Flush, WriteTrailer
<1>3. \/ trailer' = TRUE /\ werror' = "none"
      \/ trailer' = FALSE /\ werror' = "trailer"
  BY <1>1 DEF WriteTrailer, TypeOK, WriterTypeOK
<1>4. pc' = "return" /\ result' = IF trailer' THEN "ok" ELSE "error"
  BY <1>3 DEF Flush
<1>5. InOrder' /\ ReaderHandles' /\ ReaderTypeOK'
  BY <1>1, <1>2, <1>4, EncodersKeep
<1>6. TypeOK'
  <2>1. WriterTypeOK'
    BY <1>2, <1>3 DEF TypeOK, WriterTypeOK, Call
  <2>2. QED
    BY <1>4, <1>5, <2>1 DEF TypeOK
<1>7. Control' /\ WriterHandles'
  BY <1>1, <1>2, <1>4 DEF Control, WriterHandles, readerVars
<1>8. Drained'
  BY <1>1, <1>2, <1>3, <1>4 DEF Drained, readerVars
<1>9. QED
  BY <1>5, <1>6, <1>7, <1>8

(***************************************************************************)
(* The theorems                                                            *)
(***************************************************************************)

\* The destructors free what their objects hold.
LEMMA ReturnKeeps ==
  ASSUME PipelineInv, Return
  PROVE  PipelineInv'
<1> USE DEF PipelineInv
<1>1. /\ pc = "return" /\ pc' = "done" /\ result' = result
      /\ reader \in {"open", "ready", "failed"} /\ writer \in {"alloc", "ready", "failed"}
  BY DEF Return, Control
<1>2. /\ UNCHANGED <<length, sent, decoder, got, rerror>>
      /\ IF reader = "ready" THEN reader' = "closed" /\ opened' = {} ELSE UNCHANGED <<reader, opened>>
  BY DEF Return, CloseReader, readerVars
<1>3. /\ UNCHANGED <<kind, encoder, encodes, muxed, flushed, trailer, werror>>
      /\ IF writer = "ready" THEN writer' = "closed" /\ wopened' = {} ELSE UNCHANGED <<writer, wopened>>
  BY DEF Return, CloseWriter, writerVars
<1>4. TypeOK'
  <2>1. ReaderTypeOK'
    BY <1>2 DEF TypeOK, ReaderTypeOK
  <2>2. WriterTypeOK'
    BY <1>3 DEF TypeOK, WriterTypeOK
  <2>3. QED
    BY <1>1, <2>1, <2>2 DEF TypeOK
<1>5. Control'
  BY <1>1, <1>2, <1>3 DEF Control
<1>6. ReaderHandles'
  BY <1>1, <1>2 DEF ReaderHandles
<1>7. WriterHandles'
  BY <1>1, <1>3 DEF WriterHandles
<1>8. Drained'
  BY <1>1, <1>2, <1>3 DEF Drained
<1>9. InOrder'
  BY <1>1, <1>2, <1>3, NoFrameMoves
<1>10. QED
  BY <1>4, <1>5, <1>6, <1>7, <1>8, <1>9

\* A step that changes nothing keeps the invariant.
LEMMA StutterKeeps == PipelineInv /\ UNCHANGED vars => PipelineInv'
<1> SUFFICES ASSUME PipelineInv, UNCHANGED vars PROVE PipelineInv'
  OBVIOUS
<1> USE DEF PipelineInv, vars, readerVars, writerVars
<1>1. TypeOK'
  <2>1. ReaderTypeOK'
    BY DEF TypeOK, ReaderTypeOK
  <2>2. WriterTypeOK'
    BY DEF TypeOK, WriterTypeOK
  <2>3. QED
    BY <2>1, <2>2 DEF TypeOK
<1>2. Control' /\ ReaderHandles' /\ WriterHandles' /\ Drained'
  BY DEF Control, ReaderHandles, WriterHandles, Drained
<1>3. InOrder'
  BY DEF InOrder, OnTheWay, InHand
<1>4. QED
  BY <1>1, <1>2, <1>3

\* Every step of EnhanceVideo keeps the invariant.
LEMMA NextKeeps == PipelineInv /\ [Next]_vars => PipelineInv'
<1> SUFFICES ASSUME PipelineInv, [Next]_vars PROVE PipelineInv'
  OBVIOUS
<1>1. CASE LoadModel \/ MakeReader \/ MakeWriter
  BY <1>1, LoadModelKeeps, MakeReaderKeeps, MakeWriterKeeps
<1>2. CASE Read \/ Upscale \/ UpscaleFails
  BY <1>2, ReadKeeps, UpscaleKeeps, UpscaleFailsKeeps
<1>3. CASE WriteFrame
  BY <1>3, ReceivePacketKeeps, EncoderDoneKeeps, EncodeFailsKeeps DEF WriteFrame, EncodeFrame
<1>4. CASE Flush
  BY <1>4, FlushEncoderKeeps, ReceivePacketKeeps, EncoderDoneKeeps, EncodeFailsKeeps, WriteTrailerKeeps
     DEF Flush, EncodeFrame
<1>5. CASE Return
  BY <1>5, ReturnKeeps
<1>6. CASE Done \/ UNCHANGED vars
  BY <1>6, StutterKeeps DEF Done
<1>7. QED
  BY <1>1, <1>2, <1>3, <1>4, <1>5, <1>6 DEF Next

\* The inductive invariant of the pipeline: where EnhanceVideo, its reader
\* and its writer are, what is open, and that no frame is lost or overtaken.
THEOREM PipelineInvariant == Spec => []PipelineInv
<1>1. Init => PipelineInv
  BY InitInv
<1>2. PipelineInv /\ [Next]_vars => PipelineInv'
  BY NextKeeps
<1>3. QED
  BY <1>1, <1>2, PTL DEF Spec

\* Frames are in one place and in order until something fails.
THEOREM FramesInOrder == Spec => []InOrder
<1>1. PipelineInv => InOrder
  BY DEF PipelineInv
<1>2. QED
  BY <1>1, PipelineInvariant, PTL

\* A reader and a writer in use have all their libav objects open.
THEOREM NothingFreedInUse == Spec => []UsesOpen
<1>1. PipelineInv => UsesOpen
  BY DEF PipelineInv, UsesOpen, Control, ReaderHandles, WriterHandles
<1>2. QED
  BY <1>1, PipelineInvariant, PTL

\* What is left open was left by one of three error paths.
THEOREM LeaksAccounted == Spec => []HandlesAccounted
<1>1. PipelineInv => HandlesAccounted
  BY DEF PipelineInv, HandlesAccounted, Control, ReaderHandles, WriterHandles
<1>2. QED
  BY <1>1, PipelineInvariant, PTL

\* What the order of frames says once the encoders are empty.
LEMMA MuxedPrefix ==
  ASSUME NEW n \in Nat, NEW m \in Seq(Nat), NEW d \in Seq(Nat),
         ((m \o <<>>) \o <<>>) \o d = [i \in 1 .. n |-> i]
  PROVE  /\ Len(m) \in Nat /\ Len(d) \in Nat /\ Len(m) + Len(d) = n
         /\ \A i \in 1 .. Len(m) : m[i] = i
<1>1. m \o d = [i \in 1 .. n |-> i]
  BY ConcatEmptySeq
<1>2. /\ Len(m \o d) = Len(m) + Len(d)
      /\ \A i \in 1 .. Len(m) + Len(d) :
           (m \o d)[i] = IF i <= Len(m) THEN m[i] ELSE d[i - Len(m)]
  BY ConcatProperties
<1>3. Len(m) \in Nat /\ Len(d) \in Nat
  BY LenProperties
<1>4. Len(m) + Len(d) = n
  BY <1>1, <1>2, FirstFrames
<1>5. QED
  BY <1>1, <1>2, <1>3, <1>4

\* When EnhanceVideo succeeds the file is whole, but for what decoders of
\* other streams than the first held back.
THEOREM SuccessIsWhole == Spec => []OkMeansWhole
<1>1. PipelineInv => OkMeansWhole
  <2> SUFFICES ASSUME PipelineInv, result = "ok" PROVE
        /\ trailer
        /\ \A s \in Streams :
             /\ \A i \in 1 .. Len(muxed[s]) : muxed[s][i] = i
             /\ Len(muxed[s]) >= length[s] - Delay
        /\ Len(muxed[0]) = length[0]
    BY DEF OkMeansWhole
  <2>1. /\ pc \in {"return", "done"} /\ trailer /\ flushed = Streams /\ sent = length
        /\ decoder[0] = <<>> /\ \A s \in Streams : encoder[s] = <<>> /\ Len(decoder[s]) <= Delay
    BY DEF PipelineInv, Drained
  <2>2. ASSUME NEW s \in Streams
        PROVE  /\ Len(muxed[s]) \in Nat /\ Len(decoder[s]) \in Nat /\ length[s] \in Nat
               /\ Len(muxed[s]) + Len(decoder[s]) = length[s]
               /\ \A i \in 1 .. Len(muxed[s]) : muxed[s][i] = i
    <3>1. muxed[s] \in Seq(Nat) /\ decoder[s] \in Seq(Nat) /\ length[s] \in Nat
      BY StreamAssumption DEF PipelineInv, TypeOK, ReaderTypeOK, WriterTypeOK
    <3>2. ((muxed[s] \o <<>>) \o <<>>) \o decoder[s] = [i \in 1 .. length[s] |-> i]
      BY <2>1 DEF PipelineInv, InOrder, OnTheWay, InHand
    <3>3. QED
      BY <3>1, <3>2, MuxedPrefix
  <2>3. ASSUME NEW s \in Streams
        PROVE  Len(muxed[s]) >= length[s] - Delay
    <3>1. /\ Len(muxed[s]) \in Nat /\ Len(decoder[s]) \in Nat /\ length[s] \in Nat
          /\ Len(muxed[s]) + Len(decoder[s]) = length[s]
      BY <2>2
    <3>2. Len(decoder[s]) <= Delay /\ Delay \in Nat
      BY <2>1, StreamAssumption
    <3>3. \A m, d, n, most \in Nat : m + d = n /\ d <= most => m >= n - most
      OBVIOUS
    <3>4. QED
      BY <3>1, <3>2, <3>3, Zenon
  <2>4. Len(muxed[0]) = length[0]
    <3>1. 0 \in Streams
      BY StreamAssumption DEF Streams
    <3>2. Len(decoder[0]) = 0
      BY <2>1
    <3>3. /\ Len(muxed[0]) \in Nat /\ length[0] \in Nat
          /\ Len(muxed[0]) + Len(decoder[0]) = length[0]
      BY <2>2, <3>1
    <3>4. QED
      BY <3>2, <3>3
  <2>5. QED
    BY <2>1, <2>2, <2>3, <2>4
<1>2. QED
  BY <1>1, PipelineInvariant, PTL
=============================================================================
