--------------------------- MODULE SessionRegistry ---------------------------
(***************************************************************************)
(* What the LDF-VFI daemon promises its clients about sessions, with       *)
(* neither threads nor lock: at most one session is live; a session lives  *)
(* once, from one moment to a later one; and chunks run, and results       *)
(* change, in the live session only.                                       *)
(***************************************************************************)
EXTENDS Integers

CONSTANTS Session, None

VARIABLES
  live,     \* the live session, or None
  retired,  \* sessions that can no longer become live
  ran,      \* chunks run in each session
  result    \* what each session's output segment holds

registryVars == <<live, retired, ran, result>>

Init ==
  /\ live = None
  /\ retired = {}
  /\ ran = [s \in Session |-> 0]
  /\ result = [s \in Session |-> 0]

\* A new session becomes live; none may be live already.
Open(s) ==
  /\ live = None
  /\ s \in Session \ retired
  /\ live' = s
  /\ UNCHANGED <<retired, ran, result>>

\* The live session ends, or one that never came to life is given up.
Retire(s) ==
  /\ s \in Session \ retired
  /\ live \in {None, s}
  /\ live' = None
  /\ retired' = retired \cup {s}
  /\ UNCHANGED <<ran, result>>

RunChunk ==
  /\ live # None
  /\ ran' = [ran EXCEPT ![live] = @ + 1]
  /\ UNCHANGED <<live, retired, result>>

\* Only results of chunks that have run are published.
Publish ==
  /\ live # None
  /\ \E k \in 1 .. ran[live] : result' = [result EXCEPT ![live] = k]
  /\ UNCHANGED <<live, retired, ran>>

Next ==
  \/ \E s \in Session : Open(s) \/ Retire(s)
  \/ RunChunk
  \/ Publish

Spec == Init /\ [][Next]_registryVars
=============================================================================
