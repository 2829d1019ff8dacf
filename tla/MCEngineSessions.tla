-------------------------- MODULE MCEngineSessions --------------------------
(***************************************************************************)
(* EngineSessions for TLC: gRPC threads are alike, and so are connections  *)
(* and socket paths.                                                       *)
(***************************************************************************)
EXTENDS EngineSessions

Alike == Permutations(Workers) \cup Permutations(Feeders) \cup Permutations(Paths)
=============================================================================
