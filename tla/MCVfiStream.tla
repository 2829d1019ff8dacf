---------------------------- MODULE MCVfiStream ----------------------------
(***************************************************************************)
(* The session and its callers for TLC: the client that creates a new      *)
(* session after every error, one that sends the chunk again as long as    *)
(* calls fail before the latents change, and anyone at all, who sends any  *)
(* index, flag and window.                                                 *)
(***************************************************************************)
EXTENDS VfiStream

Resending == INSTANCE VfiStream WITH OnError <- "resend", Failures <- {"raised"}

VARIABLE caller

MCInit == StreamInit /\ caller \in {"recreates", "resends", "anyone"}

MCNext ==
  /\ UNCHANGED caller
  /\ \/ caller = "recreates" /\ StreamNext
     \/ caller = "resends" /\ Resending!StreamNext
     \/ caller = "anyone" /\ Next /\ UNCHANGED clientVars

MCSpec == MCInit /\ [][MCNext]_<<streamVars, caller>>
=============================================================================
