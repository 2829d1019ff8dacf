--------------------------- MODULE VfiStreamProofs ---------------------------
(***************************************************************************)
(* One session called in every possible way keeps its latents, and mixes   *)
(* those of two videos only after a FIRST in the middle of a hole; the     *)
(* client of VfiStream and its session agree on the role of every chunk,   *)
(* for all window sizes, scale factors and bounds, videos of any length    *)
(* and any failures; for the client, if it gives the session up after an   *)
(* error, or if no call fails after its latents changed.                   *)
(***************************************************************************)
EXTENDS VfiStream, TLAPS

\* The latents a call leaves are latents or None, and the pair kept ahead of
\* a hole stays a pair: what each role assigns in session_runner.py.
LEMMA CallKeepsLatents ==
  ASSUME TypeOK, SkipPair,
         NEW chunk_index \in Nat, NEW is_last \in BOOLEAN,
         NEW base \in Nat, NEW fate \in Fate,
         interpolate_chunk(chunk_index, is_last, base, fate)
  PROVE  TypeOK' /\ SkipPair' /\ last' \in Executed
<1> USE WindowAssumption, NoneAssumption DEF TypeOK, Latent, LatentOrNone
<1>1. base + NTCond \in Nat /\ base + NT - 2 * NTCond \in Nat
  OBVIOUS
<1>2. PICK role \in Role :
        /\ calls' = calls + 1
        /\ last' = [role |-> role, base |-> base, fate |-> fate,
                    from |-> base + FirstSlot(role), upto |-> base + EndSlot(role),
                    prev |-> x0_prev, skip |-> x0_skip]
        /\ video' = video \/ video' = VideoAfter(role)
        /\ \/ UNCHANGED latents
           \/ CommitFirst(base)
           \/ CommitSkip(base)
           \/ CommitConcat
           \/ cleanup_latents
  BY DEF interpolate_chunk, _interpolate_standalone, _interpolate_first,
         _interpolate_skip, _interpolate_concat, _interpolate_last, Run, Role
<1>3. last' \in Executed
  <2>1. base + FirstSlot(role) \in Nat /\ base + EndSlot(role) \in Nat
    BY DEF FirstSlot, EndSlot
  <2>2. QED
    BY <1>2, <2>1 DEF Executed
<1>4. video' \in [by : Nat, holed : BOOLEAN, foreign : Nat]
  <2> DEFINE Video == [by : Nat, holed : BOOLEAN, foreign : Nat]
  <2>1. video \in Video /\ calls \in Nat
    OBVIOUS
  <2>2. VideoAfter(role) \in Video
    <3>1. CASE role = "FIRST"
      <4>1. VideoAfter(role) = [by |-> calls + 1, holed |-> x0_skip # None, foreign |-> 0]
        BY <3>1 DEF VideoAfter
      <4>2. (x0_skip # None) \in BOOLEAN /\ calls + 1 \in Nat
        BY <2>1
      <4> QED
        BY <4>1, <4>2
    <3>2. CASE role # "FIRST"
      <4> DEFINE more == IF UsesForeign(role) THEN 1 ELSE 0
      <4>1. more \in {0, 1}
        OBVIOUS
      <4>2. VideoAfter(role) = [video EXCEPT !.foreign = video.foreign + more]
        BY <3>2 DEF VideoAfter
      <4> HIDE DEF more
      <4> QED
        BY <2>1, <4>1, <4>2
    <3> QED
      BY <3>1, <3>2
  <2> QED
    BY <1>2, <2>1, <2>2
<1>5. CASE UNCHANGED latents
  BY <1>2, <1>3, <1>4, <1>5 DEF latents, SkipPair
<1>6. CASE CommitFirst(base)
  BY <1>1, <1>2, <1>3, <1>4, <1>6 DEF CommitFirst, Cached, SkipPair
<1>7. CASE CommitSkip(base)
  BY <1>1, <1>2, <1>3, <1>4, <1>7 DEF CommitSkip, Cached, SkipPair
<1>8. CASE CommitConcat
  BY <1>2, <1>3, <1>4, <1>8 DEF CommitConcat, SkipPair
<1>9. CASE cleanup_latents
  BY <1>2, <1>3, <1>4, <1>9 DEF cleanup_latents, SkipPair
<1>10. QED
  BY <1>2, <1>3, <1>4, <1>5, <1>6, <1>7, <1>8, <1>9

\* The state of SkipConcatSession keeps its type and its two latents of a hole
\* stay paired, whatever is called and wherever it fails.
THEOREM SessionInvariant == Spec => [](TypeOK /\ SkipPair)
<1>1. Init => TypeOK /\ SkipPair
  BY DEF Init, NoVideo, TypeOK, SkipPair, LatentOrNone
<1>2. TypeOK /\ SkipPair /\ [Next]_vars => TypeOK' /\ SkipPair'
  <2> SUFFICES ASSUME TypeOK, SkipPair, [Next]_vars
               PROVE  TypeOK' /\ SkipPair'
    OBVIOUS
  <2>1. ASSUME NEW chunk_index \in {0, 1}, NEW is_last \in BOOLEAN,
               NEW base \in 0 .. MaxBase, NEW fate \in Fate,
               interpolate_chunk(chunk_index, is_last, base, fate)
        PROVE  TypeOK' /\ SkipPair'
    BY <2>1, CallKeepsLatents, BoundAssumption
  <2>2. CASE reopen
    BY <2>2 DEF reopen, NewRunner, NoVideo, TypeOK, SkipPair, LatentOrNone
  <2>3. CASE UNCHANGED vars
    BY <2>3 DEF vars, TypeOK, SkipPair
  <2>4. QED
    BY <2>1, <2>2, <2>3 DEF Next
<1>3. QED
  BY <1>1, <1>2, PTL DEF Spec

\* No result outgrows the output segment, and so no chunk is spoiled by
\* write_tensor, when the segment holds a whole window: scale factors from
\* two on for the 60 frame window and the 30 input frames of the code.
THEOREM NeverOverflows ==
  ASSUME NT * TileFrames <= MaxInput * SF
  PROVE  Spec => []ResultsFit
<1> USE WindowAssumption, BufferAssumption
<1>1. Init => ResultsFit
  BY DEF Init, ResultsFit
<1>2. TypeOK /\ ResultsFit /\ [Next]_vars => ResultsFit'
  <2> SUFFICES ASSUME TypeOK, ResultsFit, [Next]_vars
               PROVE  ResultsFit'
    OBVIOUS
  <2>1. ASSUME NEW base \in Nat, NEW role \in Role,
               last'.from = base + FirstSlot(role),
               last'.upto = base + EndSlot(role)
        PROVE  ResultsFit'
    <3>1. last'.upto - last'.from \in 0 .. NT
      BY <2>1 DEF FirstSlot, EndSlot
    <3>2. \A n \in 0 .. NT : n * TileFrames <= NT * TileFrames
      <4> TAKE n \in 0 .. NT
      <4>1. NT * TileFrames - n * TileFrames = (NT - n) * TileFrames
        OBVIOUS
      <4>2. (NT - n) * TileFrames >= 0
        OBVIOUS
      <4>3. QED
        BY <4>1, <4>2
    <3>3. (last'.upto - last'.from) * TileFrames <= NT * TileFrames
      BY <3>1, <3>2
    <3>4. (last'.upto - last'.from) * TileFrames <= MaxInput * SF
      BY <3>1, <3>3
    <3>5. QED
      BY <3>4 DEF ResultsFit
  <2>2. ASSUME NEW chunk_index \in {0, 1}, NEW is_last \in BOOLEAN,
               NEW base \in 0 .. MaxBase, NEW fate \in Fate,
               interpolate_chunk(chunk_index, is_last, base, fate)
        PROVE  ResultsFit'
    <3>1. base \in Nat
      BY BoundAssumption
    <3>2. PICK role \in Role : /\ last'.from = base + FirstSlot(role)
                               /\ last'.upto = base + EndSlot(role)
      BY <2>2 DEF interpolate_chunk, _interpolate_standalone, _interpolate_first,
           _interpolate_skip, _interpolate_concat, _interpolate_last, Run, Role
    <3>3. QED
      BY <2>1, <3>1, <3>2
  <2>3. CASE reopen
    BY <2>3 DEF reopen, NewRunner, ResultsFit
  <2>4. CASE UNCHANGED vars
    BY <2>4 DEF vars, ResultsFit
  <2>5. QED
    BY <2>2, <2>3, <2>4 DEF Next
<1>3. QED
  BY <1>1, <1>2, SessionInvariant, PTL DEF Spec

-----------------------------------------------------------------------------
\* Which latents may be of an earlier video, by the number of chunks that have
\* been conditioned on such latents: before the first, the two of the hole;
\* after it, the tail taken over from them; after the second, none.
ForeignInv ==
  /\ TypeOK
  /\ SkipPair
  /\ ForeignLatents
  /\ video.by <= calls
  /\ x0_prev # None => x0_prev.by <= calls
  /\ x0_skip # None => x0_skip.by <= calls
  /\ Own(x0_prev) \/ video.foreign = 1
  /\ Own(x0_skip) \/ (video.holed /\ video.foreign = 0)

\* One role of interpolate_chunk after another: FIRST makes its tail its own
\* and lets a hole be, SKIP makes its own hole, CONCAT takes over the tail of
\* the hole, LAST leaves nothing.
LEMMA CallKeepsForeign ==
  ASSUME ForeignInv,
         NEW chunk_index \in {0, 1}, NEW is_last \in BOOLEAN,
         NEW base \in Nat, NEW fate \in Fate,
         interpolate_chunk(chunk_index, is_last, base, fate)
  PROVE  ForeignInv'
<1> USE NoneAssumption DEF Latent, LatentOrNone
<1>1. TypeOK' /\ SkipPair'
  BY CallKeepsLatents DEF ForeignInv
<1>2. CASE fate = "raised"
  <2>1. UNCHANGED <<latents, video>> /\ calls' = calls + 1
    BY <1>2 DEF interpolate_chunk, _interpolate_standalone, _interpolate_first,
       _interpolate_skip, _interpolate_concat, _interpolate_last, Run
  <2>2. QED
    BY <1>1, <2>1 DEF ForeignInv, ForeignLatents, Own, latents, TypeOK
<1>3. CASE fate # "raised"
  <2>1. calls \in Nat /\ calls' = calls + 1
    BY DEF interpolate_chunk, _interpolate_standalone, _interpolate_first,
       _interpolate_skip, _interpolate_concat, _interpolate_last, Run, ForeignInv, TypeOK
  <2>2. CASE video' = VideoAfter("STANDALONE") /\ UNCHANGED latents
    BY <1>1, <2>1, <2>2 DEF VideoAfter, UsesForeign, ForeignInv, ForeignLatents, Own,
       latents, TypeOK
  <2>3. CASE video' = VideoAfter("FIRST") /\ CommitFirst(base)
    <3>1. video'.by = calls + 1 /\ video'.foreign = 0 /\ video'.holed = (x0_skip # None)
      BY <2>3 DEF VideoAfter
    <3>2. x0_prev'.by = calls + 1 /\ x0_skip' = x0_skip
      BY <2>3 DEF CommitFirst, Cached
    <3>3. x0_skip # None => x0_skip.by \in Nat /\ x0_skip.by <= calls
      BY DEF ForeignInv, TypeOK
    <3>4. ForeignLatents' /\ Own(x0_prev)'
      BY <2>1, <3>1, <3>2 DEF ForeignLatents, Own
    <3>5. Own(x0_skip)' \/ (video'.holed /\ video'.foreign = 0)
      BY <3>1, <3>2 DEF Own
    <3> QED
      BY <1>1, <2>1, <3>1, <3>2, <3>3, <3>4, <3>5 DEF ForeignInv
  <2>4. CASE video' = VideoAfter("SKIP") /\ CommitSkip(base)
    BY <1>1, <2>1, <2>4 DEF VideoAfter, UsesForeign, CommitSkip, Cached, ForeignInv,
       ForeignLatents, Own, TypeOK
  <2>5. CASE /\ video' = VideoAfter("CONCAT") /\ CommitConcat
             /\ x0_skip # None
    <3>1. x0_prev_ \in Latent /\ x0_prev_.by = x0_skip.by
      BY <2>5 DEF ForeignInv, SkipPair, TypeOK
    <3>2. CASE Own(x0_skip)
      BY <1>1, <2>1, <2>5, <3>1, <3>2 DEF VideoAfter, UsesForeign, CommitConcat,
         ForeignInv, ForeignLatents, Own, TypeOK
    <3>3. CASE ~Own(x0_skip)
      BY <1>1, <2>1, <2>5, <3>1, <3>3 DEF VideoAfter, UsesForeign, CommitConcat,
         ForeignInv, ForeignLatents, Own, TypeOK
    <3>4. QED
      BY <3>2, <3>3
  <2>6. CASE video' = VideoAfter("LAST") /\ cleanup_latents
    BY <1>1, <2>1, <2>6 DEF VideoAfter, UsesForeign, cleanup_latents, ForeignInv,
       ForeignLatents, Own, TypeOK
  <2>7. QED
    BY <1>3, <2>2, <2>3, <2>4, <2>5, <2>6 DEF interpolate_chunk, _interpolate_standalone,
       _interpolate_first, _interpolate_skip, _interpolate_concat, _interpolate_last, Run
<1>4. QED
  BY <1>2, <1>3

\* What a FIRST between a SKIP and its CONCAT does to the next video is over
\* after two chunks, and no other order of calls mixes videos, whoever calls
\* and wherever calls fail.
THEOREM ForeignIsBounded == Spec => []ForeignLatents
<1>1. Init => ForeignInv
  BY DEF Init, NoVideo, ForeignInv, ForeignLatents, TypeOK, SkipPair, LatentOrNone, Own
<1>2. ForeignInv /\ [Next]_vars => ForeignInv'
  <2> SUFFICES ASSUME ForeignInv, [Next]_vars
               PROVE  ForeignInv'
    OBVIOUS
  <2>1. ASSUME NEW chunk_index \in {0, 1}, NEW is_last \in BOOLEAN,
               NEW base \in 0 .. MaxBase, NEW fate \in Fate,
               interpolate_chunk(chunk_index, is_last, base, fate)
        PROVE  ForeignInv'
    BY <2>1, CallKeepsForeign, BoundAssumption
  <2>2. CASE reopen
    BY <2>2 DEF reopen, NewRunner, NoVideo, ForeignInv, ForeignLatents, TypeOK, SkipPair,
       LatentOrNone, Own
  <2>3. CASE UNCHANGED vars
    BY <2>3 DEF vars, ForeignInv, ForeignLatents, TypeOK, SkipPair, Own
  <2>4. QED
    BY <2>1, <2>2, <2>3 DEF Next
<1>3. ForeignInv => ForeignLatents
  BY DEF ForeignInv
<1>4. QED
  BY <1>1, <1>2, <1>3, PTL DEF Spec

-----------------------------------------------------------------------------
\* The condition under which an error may be answered as the client does.
SafeRecovery == OnError = "recreate" \/ Failures \subseteq {"raised"}

IInv ==
  /\ StreamTypeOK
  /\ SkipPair
  /\ Beliefs
  /\ Received
  /\ RoleAgreement
  /\ Seamless
  /\ NoOverlap

\* What a call that was not answered leaves: under SafeRecovery either the
\* client is done with the session or nothing but the call record changed.
Unanswered(fate) ==
  /\ UNCHANGED <<tail, delivered, twice>>
  /\ \/ stage' = "broken" /\ OnError = "recreate"
     \/ stage' = stage /\ fate = "raised"

\* A chunk RPC runs to one of its fates; only a completed one is answered.
LEMMA SendOutcome ==
  ASSUME SafeRecovery,
         NEW role, NEW chunk_index \in {0, 1}, NEW is_last \in BOOLEAN, NEW base \in Nat,
         NEW nextStage, NEW nextTail,
         Send(role, chunk_index, is_last, base, nextStage, nextTail)
  PROVE  /\ plan' = role
         /\ \E fate \in Fate :
              /\ interpolate_chunk(chunk_index, is_last, base, fate)
              /\ \/ /\ fate = "done"
                    /\ delivered' = delivered \cup Reply
                    /\ twice' = twice \cup (delivered \cap Reply)
                    /\ stage' = nextStage /\ tail' = nextTail
                 \/ Unanswered(fate)
<1>1. plan' = role
  BY DEF Send
<1>2. CASE /\ interpolate_chunk(chunk_index, is_last, base, "done")
           /\ delivered' = delivered \cup Reply
           /\ twice' = twice \cup (delivered \cap Reply)
           /\ stage' = nextStage /\ tail' = nextTail
  BY <1>1, <1>2 DEF Fate
<1>3. CASE /\ \/ \E fate \in Failures \ {"lost"} :
                   interpolate_chunk(chunk_index, is_last, base, fate)
              \/ "lost" \in Failures /\ interpolate_chunk(chunk_index, is_last, base, "done")
           /\ stage' = IF OnError = "recreate" THEN "broken" ELSE stage
           /\ UNCHANGED <<tail, delivered, twice>>
  <2>1. PICK fate \in Fate :
          /\ interpolate_chunk(chunk_index, is_last, base, fate)
          /\ fate \in Failures \/ "lost" \in Failures
          /\ OnError = "recreate" \/ fate = "raised"
    BY <1>3, ClientAssumption DEF Fate, SafeRecovery
  <2>2. Unanswered(fate)
    BY <1>3, <2>1, ClientAssumption DEF Unanswered
  <2>3. QED
    BY <1>1, <2>1, <2>2
<1>4. QED
  BY <1>2, <1>3 DEF Send

\* Every call counts itself, and one that raised left the latents alone.
LEMMA CallCounts ==
  ASSUME NEW chunk_index \in {0, 1}, NEW is_last \in BOOLEAN, NEW base \in Nat,
         NEW fate \in Fate,
         interpolate_chunk(chunk_index, is_last, base, fate)
  PROVE  calls' = calls + 1 /\ (fate = "raised" => UNCHANGED latents)
BY DEF interpolate_chunk, _interpolate_standalone, _interpolate_first,
       _interpolate_skip, _interpolate_concat, _interpolate_last, Run

\* A call that was not answered leaves the beliefs true.
LEMMA UnansweredKeeps ==
  ASSUME IInv,
         NEW chunk_index \in {0, 1}, NEW is_last \in BOOLEAN, NEW base \in Nat,
         NEW fate \in Fate,
         interpolate_chunk(chunk_index, is_last, base, fate),
         Unanswered(fate)
  PROVE  Beliefs' /\ Received' /\ NoOverlap' /\ stage' \in Stage
<1>1. calls' = calls + 1 /\ (fate = "raised" => UNCHANGED latents)
  BY CallCounts
<1>2. NoOverlap' /\ tail' = tail /\ delivered' = delivered
  BY DEF Unanswered, IInv, NoOverlap
<1>4. CASE stage' = "broken" /\ OnError = "recreate"
  BY <1>2, <1>4 DEF Beliefs, Received, Stage
<1>5. CASE stage' = stage /\ fate = "raised"
  BY <1>1, <1>2, <1>5 DEF Beliefs, Received, latents, IInv, StreamTypeOK
<1>6. QED
  BY <1>4, <1>5 DEF Unanswered

\* Any chunk RPC keeps the client's variables typed.
LEMMA SendKeepsTypes ==
  ASSUME IInv, SafeRecovery,
         NEW role \in Role, NEW chunk_index \in {0, 1}, NEW is_last \in BOOLEAN,
         NEW base \in Nat, NEW nextStage \in Stage, NEW nextTail \in Nat,
         Send(role, chunk_index, is_last, base, nextStage, nextTail)
  PROVE  StreamTypeOK' /\ SkipPair'
<1>1. PICK fate \in Fate :
        /\ plan' = role
        /\ interpolate_chunk(chunk_index, is_last, base, fate)
        /\ \/ /\ delivered' = delivered \cup Reply
              /\ twice' = twice \cup (delivered \cap Reply)
              /\ stage' \in Stage /\ tail' \in Nat
           \/ Unanswered(fate)
  BY SendOutcome
<1>2. TypeOK' /\ SkipPair' /\ last' \in Executed
  BY <1>1, CallKeepsLatents DEF IInv, StreamTypeOK
<1>4. Reply \subseteq Nat
  BY <1>2 DEF Reply, Executed
<1>5. stage' \in Stage
  BY <1>1 DEF Unanswered, IInv, StreamTypeOK, Stage
<1>6. QED
  BY <1>1, <1>2, <1>4, <1>5 DEF StreamTypeOK, Unanswered, IInv

\* The facts about the last call that hold whether or not it was answered.
CallFacts == RoleAgreement /\ Seamless

\* The video's positions are natural numbers.
LEMMA Positions ==
  ASSUME tail \in Nat
  PROVE  /\ NT - 2 * NTCond \in Nat
         /\ tail + NT - 2 * NTCond \in Nat
         /\ tail + 2 * (NT - 2 * NTCond) \in Nat
BY WindowAssumption

\* A video in one window touches no latents.
LEMMA SendStandaloneKeeps ==
  ASSUME IInv, SafeRecovery, SendStandalone
  PROVE  IInv'
<1> USE WindowAssumption
<1>1. tail \in Nat
  BY DEF IInv, StreamTypeOK
<1>2. PICK fate \in Fate :
        /\ plan' = "STANDALONE"
        /\ interpolate_chunk(0, TRUE, 0, fate)
        /\ \/ /\ fate = "done"
              /\ delivered' = delivered \cup Reply
              /\ twice' = twice \cup (delivered \cap Reply)
              /\ stage' = "end" /\ tail' = tail
           \/ Unanswered(fate)
  BY <1>1, Positions, SendOutcome DEF SendStandalone
<1>3. Run("STANDALONE", 0, fate, UNCHANGED latents)
  BY <1>2, NoneAssumption DEF interpolate_chunk, _interpolate_standalone,
     IInv, Beliefs, SendStandalone
<1>4. last' = [role |-> "STANDALONE", base |-> 0, fate |-> fate,
               from |-> (0) + FirstSlot("STANDALONE"), upto |-> (0) + EndSlot("STANDALONE"),
               prev |-> x0_prev, skip |-> x0_skip]
  BY <1>3 DEF Run
<1>5. StreamTypeOK' /\ SkipPair'
  BY <1>1, Positions, SendKeepsTypes DEF SendStandalone, Role, Stage
<1>6. CallFacts'
  BY <1>1, <1>2, <1>4, NoneAssumption DEF CallFacts, RoleAgreement, Seamless,
     FirstSlot, EndSlot, SendStandalone, IInv, Beliefs, Latent
<1>7. CASE Unanswered(fate)
  <2>1. Beliefs' /\ Received' /\ NoOverlap'
    BY <1>1, <1>2, <1>7, UnansweredKeeps, Positions
  <2>2. QED
    BY <2>1, <1>5, <1>6 DEF IInv, CallFacts
<1>8. CASE /\ fate = "done"
           /\ delivered' = delivered \cup Reply
           /\ twice' = twice \cup (delivered \cap Reply)
           /\ stage' = "end" /\ tail' = tail
  <2>1. Beliefs'
    BY <1>1, <1>2, <1>3, <1>8 DEF Run, Cached, latents, IInv, Beliefs, Latent,
       StreamTypeOK, TypeOK, SendStandalone
  <2>2. Reply = (last'.from) .. (last'.upto - 1)
    BY DEF Reply
  <2>3. Reply = 0 .. (NT - 1)
    BY <1>1, <1>4, <2>2, NoneAssumption DEF FirstSlot, EndSlot, SendStandalone, IInv, Beliefs, Latent
  <2>4. delivered = {}
    BY DEF IInv, Received, SendStandalone
  <2>5. delivered \cap Reply = {}
    BY <1>1, <2>3, <2>4
  <2>6. NoOverlap'
    BY <1>8, <2>5 DEF NoOverlap, IInv
  <2>7. delivered' = 0 .. (NT - 1)
    BY <1>1, <1>8, <2>3, <2>4
  <2>8. Received'
    BY <1>1, <1>8, <2>7 DEF Received
  <2>9. QED
    BY <2>1, <2>6, <2>8, <1>5, <1>6 DEF IInv, CallFacts
<1>9. QED
  BY <1>2, <1>7, <1>8

\* FIRST leaves the x0_prev the client believes in.
LEMMA SendFirstKeeps ==
  ASSUME IInv, SafeRecovery, SendFirst
  PROVE  IInv'
<1> USE WindowAssumption
<1>1. tail \in Nat
  BY DEF IInv, StreamTypeOK
<1>2. PICK fate \in Fate :
        /\ plan' = "FIRST"
        /\ interpolate_chunk(0, FALSE, 0, fate)
        /\ \/ /\ fate = "done"
              /\ delivered' = delivered \cup Reply
              /\ twice' = twice \cup (delivered \cap Reply)
              /\ stage' = "tail" /\ tail' = NT - 2 * NTCond
           \/ Unanswered(fate)
  BY <1>1, Positions, SendOutcome DEF SendFirst
<1>3. Run("FIRST", 0, fate, CommitFirst(0))
  BY <1>2, NoneAssumption DEF interpolate_chunk, _interpolate_first,
     IInv, Beliefs, SendFirst
<1>4. last' = [role |-> "FIRST", base |-> 0, fate |-> fate,
               from |-> (0) + FirstSlot("FIRST"), upto |-> (0) + EndSlot("FIRST"),
               prev |-> x0_prev, skip |-> x0_skip]
  BY <1>3 DEF Run
<1>5. StreamTypeOK' /\ SkipPair'
  BY <1>1, Positions, SendKeepsTypes DEF SendFirst, Role, Stage
<1>6. CallFacts'
  BY <1>1, <1>2, <1>4, NoneAssumption DEF CallFacts, RoleAgreement, Seamless,
     FirstSlot, EndSlot, SendFirst, IInv, Beliefs, Latent
<1>7. CASE Unanswered(fate)
  <2>1. Beliefs' /\ Received' /\ NoOverlap'
    BY <1>1, <1>2, <1>7, UnansweredKeeps, Positions
  <2>2. QED
    BY <2>1, <1>5, <1>6 DEF IInv, CallFacts
<1>8. CASE /\ fate = "done"
           /\ delivered' = delivered \cup Reply
           /\ twice' = twice \cup (delivered \cap Reply)
           /\ stage' = "tail" /\ tail' = NT - 2 * NTCond
  <2>1. Beliefs'
    BY <1>1, <1>2, <1>3, <1>8 DEF CommitFirst, Run, Cached, latents, IInv, Beliefs, Latent,
       StreamTypeOK, TypeOK, SendFirst
  <2>2. Reply = (last'.from) .. (last'.upto - 1)
    BY DEF Reply
  <2>3. Reply = 0 .. (NT - NTCond - 1)
    BY <1>1, <1>4, <2>2, NoneAssumption DEF FirstSlot, EndSlot, SendFirst, IInv, Beliefs, Latent
  <2>4. delivered = {}
    BY DEF IInv, Received, SendFirst
  <2>5. delivered \cap Reply = {}
    BY <1>1, <2>3, <2>4
  <2>6. NoOverlap'
    BY <1>8, <2>5 DEF NoOverlap, IInv
  <2>7. delivered' = 0 .. (tail' + NTCond - 1)
    BY <1>1, <1>8, <2>3, <2>4
  <2>8. Received'
    BY <1>1, <1>8, <2>7 DEF Received
  <2>9. QED
    BY <2>1, <2>6, <2>8, <1>5, <1>6 DEF IInv, CallFacts
<1>9. QED
  BY <1>2, <1>7, <1>8

\* After FIRST or CONCAT the session holds no x0_skip, so it runs SKIP.
LEMMA SendSkipKeeps ==
  ASSUME IInv, SafeRecovery, SendSkip
  PROVE  IInv'
<1> USE WindowAssumption
<1>1. tail \in Nat
  BY DEF IInv, StreamTypeOK
<1>2. PICK fate \in Fate :
        /\ plan' = "SKIP"
        /\ interpolate_chunk(1, FALSE, tail + NT - 2 * NTCond, fate)
        /\ \/ /\ fate = "done"
              /\ delivered' = delivered \cup Reply
              /\ twice' = twice \cup (delivered \cap Reply)
              /\ stage' = "gap" /\ tail' = tail
           \/ Unanswered(fate)
  BY <1>1, Positions, SendOutcome DEF SendSkip
<1>3. Run("SKIP", tail + NT - 2 * NTCond, fate, CommitSkip(tail + NT - 2 * NTCond))
  BY <1>2, NoneAssumption DEF interpolate_chunk, _interpolate_skip, _interpolate_concat,
     IInv, Beliefs, SendSkip
<1>4. last' = [role |-> "SKIP", base |-> tail + NT - 2 * NTCond, fate |-> fate,
               from |-> (tail + NT - 2 * NTCond) + FirstSlot("SKIP"), upto |-> (tail + NT - 2 * NTCond) + EndSlot("SKIP"),
               prev |-> x0_prev, skip |-> x0_skip]
  BY <1>3 DEF Run
<1>5. StreamTypeOK' /\ SkipPair'
  BY <1>1, Positions, SendKeepsTypes DEF SendSkip, Role, Stage
<1>6. CallFacts'
  BY <1>1, <1>2, <1>4, NoneAssumption DEF CallFacts, RoleAgreement, Seamless,
     FirstSlot, EndSlot, SendSkip, IInv, Beliefs, Latent
<1>7. CASE Unanswered(fate)
  <2>1. Beliefs' /\ Received' /\ NoOverlap'
    BY <1>1, <1>2, <1>7, UnansweredKeeps, Positions
  <2>2. QED
    BY <2>1, <1>5, <1>6 DEF IInv, CallFacts
<1>8. CASE /\ fate = "done"
           /\ delivered' = delivered \cup Reply
           /\ twice' = twice \cup (delivered \cap Reply)
           /\ stage' = "gap" /\ tail' = tail
  <2>1. Beliefs'
    BY <1>1, <1>2, <1>3, <1>8 DEF CommitSkip, Run, Cached, latents, IInv, Beliefs, Latent,
       StreamTypeOK, TypeOK, SendSkip
  <2>2. Reply = (last'.from) .. (last'.upto - 1)
    BY DEF Reply
  <2>3. Reply = (tail + NT - NTCond) .. (tail + 2 * NT - 3 * NTCond - 1)
    BY <1>1, <1>4, <2>2, NoneAssumption DEF FirstSlot, EndSlot, SendSkip, IInv, Beliefs, Latent
  <2>4. delivered = 0 .. (tail + NTCond - 1)
    BY DEF IInv, Received, SendSkip
  <2>5. delivered \cap Reply = {}
    BY <1>1, <2>3, <2>4
  <2>6. NoOverlap'
    BY <1>8, <2>5 DEF NoOverlap, IInv
  <2>7. delivered' = (0 .. (tail' + NTCond - 1)) \cup ((tail' + NT - NTCond) .. (tail' + 2 * NT - 3 * NTCond - 1))
    BY <1>1, <1>8, <2>3, <2>4
  <2>8. Received'
    BY <1>1, <1>8, <2>7 DEF Received
  <2>9. QED
    BY <2>1, <2>6, <2>8, <1>5, <1>6 DEF IInv, CallFacts
<1>9. QED
  BY <1>2, <1>7, <1>8

\* After SKIP the session holds an x0_skip, so it runs CONCAT and fills the hole.
LEMMA SendConcatKeeps ==
  ASSUME IInv, SafeRecovery, SendConcat
  PROVE  IInv'
<1> USE WindowAssumption
<1>1. tail \in Nat
  BY DEF IInv, StreamTypeOK
<1>2. PICK fate \in Fate :
        /\ plan' = "CONCAT"
        /\ interpolate_chunk(1, FALSE, tail, fate)
        /\ \/ /\ fate = "done"
              /\ delivered' = delivered \cup Reply
              /\ twice' = twice \cup (delivered \cap Reply)
              /\ stage' = "tail" /\ tail' = tail + 2 * (NT - 2 * NTCond)
           \/ Unanswered(fate)
  BY <1>1, Positions, SendOutcome DEF SendConcat
<1>3. Run("CONCAT", tail, fate, CommitConcat)
  BY <1>2, NoneAssumption DEF interpolate_chunk, _interpolate_skip, _interpolate_concat,
     IInv, Beliefs, Latent, SendConcat
<1>4. last' = [role |-> "CONCAT", base |-> tail, fate |-> fate,
               from |-> (tail) + FirstSlot("CONCAT"), upto |-> (tail) + EndSlot("CONCAT"),
               prev |-> x0_prev, skip |-> x0_skip]
  BY <1>3 DEF Run
<1>5. StreamTypeOK' /\ SkipPair'
  BY <1>1, Positions, SendKeepsTypes DEF SendConcat, Role, Stage
<1>6. CallFacts'
  BY <1>1, <1>2, <1>4, NoneAssumption DEF CallFacts, RoleAgreement, Seamless,
     FirstSlot, EndSlot, SendConcat, IInv, Beliefs, Latent
<1>7. CASE Unanswered(fate)
  <2>1. Beliefs' /\ Received' /\ NoOverlap'
    BY <1>1, <1>2, <1>7, UnansweredKeeps, Positions
  <2>2. QED
    BY <2>1, <1>5, <1>6 DEF IInv, CallFacts
<1>8. CASE /\ fate = "done"
           /\ delivered' = delivered \cup Reply
           /\ twice' = twice \cup (delivered \cap Reply)
           /\ stage' = "tail" /\ tail' = tail + 2 * (NT - 2 * NTCond)
  <2>1. Beliefs'
    BY <1>1, <1>2, <1>3, <1>8 DEF CommitConcat, Run, Cached, latents, IInv, Beliefs, Latent,
       StreamTypeOK, TypeOK, SendConcat
  <2>2. Reply = (last'.from) .. (last'.upto - 1)
    BY DEF Reply
  <2>3. Reply = (tail + NTCond) .. (tail + NT - NTCond - 1)
    BY <1>1, <1>4, <2>2, NoneAssumption DEF FirstSlot, EndSlot, SendConcat, IInv, Beliefs, Latent
  <2>4. delivered = (0 .. (tail + NTCond - 1)) \cup ((tail + NT - NTCond) .. (tail + 2 * NT - 3 * NTCond - 1))
    BY DEF IInv, Received, SendConcat
  <2>5. delivered \cap Reply = {}
    BY <1>1, <2>3, <2>4
  <2>6. NoOverlap'
    BY <1>8, <2>5 DEF NoOverlap, IInv
  <2>7. delivered' = 0 .. (tail' + NTCond - 1)
    BY <1>1, <1>8, <2>3, <2>4
  <2>8. Received'
    BY <1>1, <1>8, <2>7 DEF Received
  <2>9. QED
    BY <2>1, <2>6, <2>8, <1>5, <1>6 DEF IInv, CallFacts
<1>9. QED
  BY <1>2, <1>7, <1>8

\* LAST continues the x0_prev the client believes in.
LEMMA SendLastKeeps ==
  ASSUME IInv, SafeRecovery, SendLast
  PROVE  IInv'
<1> USE WindowAssumption
<1>1. tail \in Nat
  BY DEF IInv, StreamTypeOK
<1>2. PICK fate \in Fate :
        /\ plan' = "LAST"
        /\ interpolate_chunk(1, TRUE, tail, fate)
        /\ \/ /\ fate = "done"
              /\ delivered' = delivered \cup Reply
              /\ twice' = twice \cup (delivered \cap Reply)
              /\ stage' = "end" /\ tail' = tail
           \/ Unanswered(fate)
  BY <1>1, Positions, SendOutcome DEF SendLast
<1>3. Run("LAST", tail, fate, cleanup_latents)
  BY <1>2, NoneAssumption DEF interpolate_chunk, _interpolate_last,
     IInv, Beliefs, SendLast
<1>4. last' = [role |-> "LAST", base |-> tail, fate |-> fate,
               from |-> (tail) + FirstSlot("LAST"), upto |-> (tail) + EndSlot("LAST"),
               prev |-> x0_prev, skip |-> x0_skip]
  BY <1>3 DEF Run
<1>5. StreamTypeOK' /\ SkipPair'
  BY <1>1, Positions, SendKeepsTypes DEF SendLast, Role, Stage
<1>6. CallFacts'
  BY <1>1, <1>2, <1>4, NoneAssumption DEF CallFacts, RoleAgreement, Seamless,
     FirstSlot, EndSlot, SendLast, IInv, Beliefs, Latent
<1>7. CASE Unanswered(fate)
  <2>1. Beliefs' /\ Received' /\ NoOverlap'
    BY <1>1, <1>2, <1>7, UnansweredKeeps, Positions
  <2>2. QED
    BY <2>1, <1>5, <1>6 DEF IInv, CallFacts
<1>8. CASE /\ fate = "done"
           /\ delivered' = delivered \cup Reply
           /\ twice' = twice \cup (delivered \cap Reply)
           /\ stage' = "end" /\ tail' = tail
  <2>1. Beliefs'
    BY <1>1, <1>2, <1>3, <1>8 DEF cleanup_latents, Run, Cached, latents, IInv, Beliefs, Latent,
       StreamTypeOK, TypeOK, SendLast
  <2>2. Reply = (last'.from) .. (last'.upto - 1)
    BY DEF Reply
  <2>3. Reply = (tail + NTCond) .. (tail + NT - 1)
    BY <1>1, <1>4, <2>2, NoneAssumption DEF FirstSlot, EndSlot, SendLast, IInv, Beliefs, Latent
  <2>4. delivered = 0 .. (tail + NTCond - 1)
    BY DEF IInv, Received, SendLast
  <2>5. delivered \cap Reply = {}
    BY <1>1, <2>3, <2>4
  <2>6. NoOverlap'
    BY <1>8, <2>5 DEF NoOverlap, IInv
  <2>7. delivered' = 0 .. (tail + NT - 1)
    BY <1>1, <1>8, <2>3, <2>4
  <2>8. Received'
    BY <1>1, <1>8, <2>7 DEF Received
  <2>9. QED
    BY <2>1, <2>6, <2>8, <1>5, <1>6 DEF IInv, CallFacts
<1>9. QED
  BY <1>2, <1>7, <1>8

\* Beginning another video forgets what was received and what was planned.
LEMMA NewVideoKeeps ==
  ASSUME IInv, NewVideo, UNCHANGED <<calls, last>>,
         TypeOK', SkipPair', x0_skip' = None, x0_prev_' = None
  PROVE  IInv'
<1>1. StreamTypeOK'
  BY DEF NewVideo, StreamTypeOK, TypeOK, Stage, IInv
<1>2. Beliefs' /\ Received' /\ NoOverlap'
  BY DEF NewVideo, Beliefs, Received, NoOverlap, IInv, StreamTypeOK, TypeOK
<1>3. RoleAgreement' /\ Seamless'
  BY DEF NewVideo, RoleAgreement, Seamless
<1>4. QED
  BY <1>1, <1>2, <1>3 DEF IInv

\* The inductive invariant of a client that recovers safely.
THEOREM StreamInvariant ==
  ASSUME SafeRecovery
  PROVE  StreamSpec => []IInv
<1>1. StreamInit => IInv
  BY DEF StreamInit, Init, NoVideo, IInv, StreamTypeOK, TypeOK, SkipPair, Beliefs, Received,
     RoleAgreement, Seamless, NoOverlap, LatentOrNone, Stage
<1>2. IInv /\ [StreamNext]_streamVars => IInv'
  <2> SUFFICES ASSUME IInv, [StreamNext]_streamVars
               PROVE  IInv'
    OBVIOUS
  <2>1. CASE SendStandalone
    BY <2>1, SendStandaloneKeeps
  <2>2. CASE SendFirst
    BY <2>2, SendFirstKeeps
  <2>3. CASE SendSkip
    BY <2>3, SendSkipKeeps
  <2>4. CASE SendConcat
    BY <2>4, SendConcatKeeps
  <2>5. CASE SendLast
    BY <2>5, SendLastKeeps
  <2>6. CASE NextVideo
    <3>1. x0_skip' = None /\ x0_prev_' = None
      BY <2>6 DEF NextVideo, vars, IInv, Beliefs
    <3>2. TypeOK' /\ SkipPair'
      BY <2>6 DEF NextVideo, vars, IInv, StreamTypeOK, TypeOK, SkipPair
    <3>3. QED
      BY <2>6, <3>1, <3>2, NewVideoKeeps DEF NextVideo, vars
  <2>7. CASE Recreate
    <3>1. TypeOK' /\ SkipPair'
      BY <2>7 DEF Recreate, NewRunner, NoVideo, IInv, StreamTypeOK, TypeOK, SkipPair,
         LatentOrNone
    <3>2. QED
      BY <2>7, <3>1, NewVideoKeeps DEF Recreate, NewRunner
  <2>8. CASE UNCHANGED streamVars
    BY <2>8 DEF streamVars, vars, clientVars, IInv, StreamTypeOK, TypeOK, SkipPair, Beliefs,
       Received, RoleAgreement, Seamless, NoOverlap
  <2>9. QED
    BY <2>1, <2>2, <2>3, <2>4, <2>5, <2>6, <2>7, <2>8 DEF StreamNext
<1>3. QED
  BY <1>1, <1>2, PTL DEF StreamSpec

\* A chunk is run in the role it was staged for: interpolate_chunk infers from
\* its latents what the client means.
THEOREM RolesAgree ==
  ASSUME SafeRecovery
  PROVE  StreamSpec => []RoleAgreement
<1>1. IInv => RoleAgreement
  BY DEF IInv
<1>2. QED
  BY <1>1, StreamInvariant, PTL

\* _interpolate_concat and _interpolate_last join a chunk to its own
\* neighbours in the video, and are not refused for want of one.
THEOREM SeamsMatch ==
  ASSUME SafeRecovery
  PROVE  StreamSpec => []Seamless
<1>1. IInv => Seamless
  BY DEF IInv
<1>2. QED
  BY <1>1, StreamInvariant, PTL

\* What the client has received is a prefix of the video, but while it knows
\* of a hole.
THEOREM ReceivedIsPrefix ==
  ASSUME SafeRecovery
  PROVE  StreamSpec => []NoHole
<1>1. IInv => NoHole
  <2> SUFFICES ASSUME IInv PROVE NoHole
    OBVIOUS
  <2>1. CASE stage = "tail"
    BY <2>1, WindowAssumption DEF NoHole, IInv, Received, StreamTypeOK
  <2>2. CASE stage = "end"
    BY <2>2 DEF NoHole, IInv, Received
  <2>3. QED
    BY <2>1, <2>2 DEF NoHole
<1>2. QED
  BY <1>1, StreamInvariant, PTL

\* Each tile is received once, however windows overlap and calls fail.
THEOREM ReceivedOnce ==
  ASSUME SafeRecovery
  PROVE  StreamSpec => []NoOverlap
<1>1. IInv => NoOverlap
  BY DEF IInv
<1>2. QED
  BY <1>1, StreamInvariant, PTL
=============================================================================
