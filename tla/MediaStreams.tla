---------------------------- MODULE MediaStreams ----------------------------
(***************************************************************************)
(* What the reader and the writer of viduce-engine's media pipeline share: *)
(* the streams of a file (media_info.h) and the libav objects they open.   *)
(*                                                                         *)
(* The frames of a stream are numbered in the order its decoder returns    *)
(* them; a packet holds one frame.  Pixels and timestamps are left out.    *)
(***************************************************************************)
EXTENDS Integers, Sequences

CONSTANTS
  NumStreams,  \* nb_streams of the input file
  Delay,       \* frames a decoder or an encoder may hold back
  MaxFrames,   \* bound: frames in a stream
  Faults       \* the calls that may fail: subset of Call

ASSUME StreamAssumption ==
  /\ NumStreams \in Nat \ {0}
  /\ Delay \in Nat
  /\ MaxFrames \in Nat

Streams == 0 .. NumStreams - 1

Call == {"open", "info", "codec", "packet", "read", "send", "frame", "decode",
         "alloc", "avio", "encoder", "header", "wpacket", "encode", "mux",
         "trailer", "model", "upscale"}

ASSUME FaultAssumption == Faults \subseteq Call

\* A libav object: its sort, and the stream it is for.
Handle(sort) == {<<sort, 0>>}
Having(sort, handles) == {s \in Streams : <<sort, s>> \in handles}

\* The streams are visited in the order of their indices.
NextStream(s, visited) == visited = 0 .. s - 1
=============================================================================
