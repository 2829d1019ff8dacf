------------------------------ MODULE VfiStream ------------------------------
(***************************************************************************)
(* A client that interpolates videos through the chunk RPCs, composed with *)
(* the session of SkipConcat.  The repository has no client of the daemon  *)
(* yet: this one is the caller that the session's own conventions imply,   *)
(* and that docs/vfi_realtime_analysis.md and the session's tests walk     *)
(* through (FIRST, then SKIP and CONCAT in turn, then LAST).               *)
(*                                                                         *)
(* The daemon infers the role of a chunk from its latents; the client      *)
(* stages the window for the role it believes is next.  Whether the two    *)
(* agree after a failed call is what this module is about.  A client       *)
(* cannot tell an error raised before the latents changed from one raised  *)
(* after it, nor either from a reply that was lost.                        *)
(***************************************************************************)
EXTENDS SkipConcat

CONSTANTS
  OnError,   \* what the client does after an error: "recreate" or "resend"
  Failures   \* the ways a call may fail here: subset of Fate, and "lost"

ASSUME ClientAssumption ==
  /\ OnError \in {"recreate", "resend"}
  /\ Failures \subseteq {"raised", "spoiled", "lost"}

VARIABLES
  stage,      \* what the client believes the session holds
  tail,       \* first tile of the x0_prev the client believes in
  plan,       \* the role the client staged its last chunk for
  delivered,  \* tiles of this video the client has received
  twice       \* tiles of this video it has received more than once

clientVars == <<stage, tail, plan, delivered, twice>>
streamVars == <<vars, clientVars>>

Stage == {"start", "tail", "gap", "end", "broken"}

StreamInit ==
  /\ Init
  /\ stage = "start"
  /\ tail = 0
  /\ plan = None
  /\ delivered = {}
  /\ twice = {}

\* The tiles of the response to the last call, if the client gets one.
Reply == last'.from .. (last'.upto - 1)

\* One chunk RPC: the client stages the window at base for the given role,
\* the session does what it does, and the client moves on if it was answered.
Send(role, chunk_index, is_last, base, nextStage, nextTail) ==
  /\ plan' = role
  /\ \/ /\ interpolate_chunk(chunk_index, is_last, base, "done")
        /\ delivered' = delivered \cup Reply
        /\ twice' = twice \cup (delivered \cap Reply)
        /\ stage' = nextStage
        /\ tail' = nextTail
     \/ /\ \/ \E fate \in Failures \ {"lost"} :
                interpolate_chunk(chunk_index, is_last, base, fate)
           \/ "lost" \in Failures /\ interpolate_chunk(chunk_index, is_last, base, "done")
        /\ stage' = IF OnError = "recreate" THEN "broken" ELSE stage
        /\ UNCHANGED <<tail, delivered, twice>>

\* A video short enough for one window.
SendStandalone ==
  /\ stage = "start"
  /\ Send("STANDALONE", 0, TRUE, 0, "end", tail)

SendFirst ==
  /\ stage = "start"
  /\ Send("FIRST", 0, FALSE, 0, "tail", NT - 2 * NTCond)

\* The window whose middle begins where the next CONCAT's middle ends.
SendSkip ==
  /\ stage = "tail"
  /\ Send("SKIP", 1, FALSE, tail + NT - 2 * NTCond, "gap", tail)

SendConcat ==
  /\ stage = "gap"
  /\ Send("CONCAT", 1, FALSE, tail, "tail", tail + 2 * (NT - 2 * NTCond))

SendLast ==
  /\ stage = "tail"
  /\ Send("LAST", 1, TRUE, tail, "end", tail)

NewVideo ==
  /\ stage' = "start"
  /\ tail' = 0
  /\ plan' = None
  /\ delivered' = {}
  /\ twice' = {}

\* Another video, or another place in the same one, through the session in
\* use: the client just begins again with chunk index 0.  Between a SKIP and
\* its CONCAT it creates a new session instead: a FIRST does not clear the
\* latents of the SKIP (SkipConcat!ForeignLatents, on callers that do not know).
NextVideo ==
  /\ stage \in {"tail", "end"}
  /\ NewVideo
  /\ UNCHANGED vars

\* CreateSession, after an error or to leave a video that has a hole: the
\* daemon closes the session it had, and the new one starts without latents.
Recreate ==
  /\ stage \in {"gap", "broken"}
  /\ NewVideo
  /\ NewRunner

StreamNext ==
  \/ SendStandalone
  \/ SendFirst
  \/ SendSkip
  \/ SendConcat
  \/ SendLast
  \/ NextVideo
  \/ Recreate

StreamSpec == StreamInit /\ [][StreamNext]_streamVars

-----------------------------------------------------------------------------
\* Type invariant of the client.
StreamTypeOK ==
  /\ TypeOK
  /\ stage \in Stage
  /\ tail \in Nat
  /\ plan \in Role \cup {None}
  /\ delivered \subseteq Nat
  /\ twice \subseteq Nat

\* What the client believes and what the session holds, stage by stage.
Beliefs ==
  /\ stage \in {"start", "tail", "end"} => x0_skip = None /\ x0_prev_ = None
  /\ stage \in {"tail", "gap"} =>
       /\ x0_prev \in Latent
       /\ x0_prev.at = tail
  /\ stage = "gap" =>
       /\ x0_skip \in Latent
       /\ x0_prev_ \in Latent
       /\ x0_skip.at = tail + NT - NTCond
       /\ x0_prev_.at = tail + 2 * (NT - 2 * NTCond)
  /\ stage = "broken" => OnError = "recreate"

\* Which tiles the client has received, stage by stage.
Received ==
  /\ stage = "start" => delivered = {}
  /\ stage = "tail" => delivered = 0 .. (tail + NTCond - 1)
  /\ stage = "gap" => delivered = (0 .. (tail + NTCond - 1))
                        \cup ((tail + NT - NTCond) .. (tail + 2 * NT - 3 * NTCond - 1))
  /\ stage = "end" => \A t \in delivered : 0 .. t \subseteq delivered

\* The session runs every chunk in the role its sender staged it for, although
\* the role is never sent: it is inferred from latents that failed calls may
\* have changed behind the client's back.
RoleAgreement == plan # None => last.role = plan

\* A CONCAT is denoised between its true neighbours: x0_prev ends where its
\* own tiles begin and x0_skip begins where they end.  A LAST continues the
\* tiles before it.  So it is when the call raises, too: none is refused for
\* want of a latent, whatever failed before it.
Seamless ==
  plan # None =>
    /\ last.role = "CONCAT" =>
         /\ last.prev # None /\ last.skip # None
         /\ last.prev.at + NTCond = last.from
         /\ last.skip.at = last.upto
    /\ last.role = "LAST" =>
         /\ last.prev # None
         /\ last.prev.at + NTCond = last.from

\* Except between a SKIP and its CONCAT, when the client knows of the hole,
\* the tiles received are a prefix of the video although the daemon delivers
\* them out of order.
NoHole == stage \in {"tail", "end"} => \A t \in delivered : 0 .. t \subseteq delivered

\* No tile is delivered twice: neighbouring windows overlap by the boundary
\* tiles only, and each of those is generated once.
NoOverlap == twice = {}
=============================================================================
