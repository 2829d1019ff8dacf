------------------------ MODULE BroadcastPageProofs ------------------------
(***************************************************************************)
(* The broadcast page keeps hold of what it opens, its badge tells the     *)
(* truth and Start leads on, for any number of previews and broadcasts.    *)
(* None of this is inductive alone: that nothing is overwritten rests on   *)
(* calls that never overlap (Alone), and that they do not overlap rests on *)
(* which buttons are enabled (Buttons), which rests on who is the          *)
(* publisher when a connection closes.                                     *)
(***************************************************************************)
EXTENDS BroadcastPage, TLAPS

Single(S) == \A a \in S, b \in S : a = b

\* At most one call is under way, and buttons are off meanwhile.
Alone ==
  /\ Single(asking) /\ Single(playing) /\ Single(connecting)
  /\ asking # {} => playing = {} /\ connecting = {} /\ stream = None
  /\ playing # {} => connecting = {}
  /\ asking # {} \/ playing # {} \/ connecting # {} =>
       ui \subseteq {"inputs"} /\ publisher = None

\* Camera and pipeline are on together, and off together.
Paired ==
  /\ stream = pipeline
  /\ capturing = {stream} \ {None} /\ running = {pipeline} \ {None}

Buttons ==
  /\ "live" \in ui <=> "stop" \in ui
  /\ "live" \in ui => ui \subseteq {"live", "stop"}
  /\ publisher # None => "live" \in ui
  /\ label = "Enable camera" => stream = None \/ playing # {}

\* What is broadcast, or is going to be, is the preview.
Broadcasts ==
  /\ ~ hidden => \A c \in connecting : c.track = pipeline
  /\ "live" \in ui /\ ~ hidden => publisher # None /\ publisher.track = pipeline
  /\ \A n \in open \ leaked : publisher # None /\ publisher.conn = n

PageInv == TypeOK /\ Alone /\ Paired /\ Buttons /\ Broadcasts

-----------------------------------------------------------------------------
\* null is no stream and no publisher.
LEMMA Apart ==
  /\ MaxAsked \in Nat /\ MaxDialled \in Nat
  /\ None \notin 1 .. MaxAsked /\ None \notin Connection
  BY PageAssumption

\* A counter below its bound may count one more.
LEMMA Counted ==
  ASSUME NEW m \in Nat, NEW n \in 0 .. m, n < m
  PROVE  n + 1 \in 1 .. m /\ n + 1 \in 0 .. m
  OBVIOUS

\* The first call, and none, are within their bounds.
LEMMA First == 1 \in 1 .. MaxAsked /\ 1 \in 0 .. MaxAsked /\ 0 \in 0 .. MaxDialled
<1>1. MaxAsked \in Nat /\ MaxAsked # 0 /\ MaxDialled \in Nat
  BY PageAssumption
<1> QED
  BY <1>1

\* Every handler of main.ts, and everything that may happen between two of
\* them, keeps the invariant.
LEMMA PageKeeps == PageInv /\ [Next]_vars => PageInv'
<1> SUFFICES ASSUME PageInv, [Next]_vars PROVE PageInv'
  OBVIOUS
<1> USE Apart DEF PageInv, TypeOK, Alone, Single, Paired, Buttons, Broadcasts
<1>0. "start" \in ui => asking = {} /\ playing = {} /\ connecting = {} /\ publisher = None
  OBVIOUS
<1>1. CASE onStart /\ stream # None
  <2> DEFINE c == [conn |-> dialled + 1, track |-> pipeline]
  <2>1. asking = {} /\ playing = {} /\ connecting = {} /\ publisher = None
    BY <1>0, <1>1 DEF onStart
  <2>2. pipeline \in 1 .. MaxAsked /\ dialled < MaxDialled
    BY <1>1 DEF onStart, startBroadcast
  <2>3. c \in Connection /\ dialled + 1 \in 0 .. MaxDialled
    <3>1. dialled + 1 \in 1 .. MaxDialled /\ dialled + 1 \in 0 .. MaxDialled
      BY <2>2, Counted
    <3> QED
      BY <3>1, <2>2 DEF Connection
  <2>4. /\ dialled' = dialled + 1 /\ connecting' = {c}
        /\ ui' = ui \ {"start", "inputs"}
        /\ UNCHANGED <<label, stream, pipeline, publisher, asking, playing, asked,
                       capturing, running, open, watched, leaked, hidden>>
    BY <1>1, <2>1, <2>2 DEF onStart, startBroadcast, devices
  <2>5. c.track = pipeline
    OBVIOUS
  <2> HIDE DEF c
  <2>6. TypeOK'
    BY <2>3, <2>4
  <2>7. Alone'
    BY <1>1, <2>1, <2>4 DEF onStart
  <2>8. Paired' /\ Buttons'
    BY <1>1, <2>1, <2>4 DEF onStart
  <2>9. Broadcasts'
    BY <1>1, <2>1, <2>4, <2>5 DEF onStart
  <2> QED
    BY <2>6, <2>7, <2>8, <2>9
<1>2. CASE onStart /\ stream = None
  <2>1. asking = {} /\ playing = {} /\ connecting = {} /\ publisher = None
    BY <1>0, <1>2 DEF onStart
  <2>2. asked + 1 \in 1 .. MaxAsked /\ asked + 1 \in 0 .. MaxAsked
    <3>1. asked < MaxAsked
      BY <1>2 DEF onStart, enablePreview
    <3> QED
      BY <3>1, Counted
  <2>3. /\ asked' = asked + 1 /\ asking' = {asked + 1}
        /\ ui' = ui \ {"start"}
        /\ UNCHANGED <<label, stream, pipeline, publisher, playing, connecting, dialled,
                       capturing, running, open, watched, leaked, hidden>>
    BY <1>2, <2>1 DEF onStart, enablePreview, devices
  <2>4. TypeOK'
    BY <2>2, <2>3
  <2>5. Alone'
    BY <1>2, <2>1, <2>3 DEF onStart
  <2>6. Paired' /\ Buttons' /\ Broadcasts'
    BY <1>2, <2>1, <2>3 DEF onStart
  <2> QED
    BY <2>4, <2>5, <2>6
<1>3. CASE onStop
  BY <1>3 DEF onStop, stopBroadcast, Closed, showPreviewing, calls
<1>4. CASE Pagehide
  BY <1>4 DEF Pagehide, teardownPreview, Closed, calls
<1>5. ASSUME NEW s \in 1 .. MaxAsked, CameraOpens(s) PROVE PageInv'
  <2>1. TypeOK'
    BY <1>5 DEF CameraOpens
  <2>2. Alone'
    BY <1>5 DEF CameraOpens
  <2>3. Paired'
    BY <1>5 DEF CameraOpens
  <2>4. Buttons'
    BY <1>5 DEF CameraOpens
  <2>5. Broadcasts'
    BY <1>5 DEF CameraOpens
  <2> QED
    BY <2>1, <2>2, <2>3, <2>4, <2>5
<1>6. ASSUME NEW s \in 1 .. MaxAsked, CameraFails(s) PROVE PageInv'
  <2>1. TypeOK'
    BY <1>6 DEF CameraFails, PreviewFails, teardownPreview, Closed
  <2>2. Alone'
    BY <1>6 DEF CameraFails, PreviewFails, teardownPreview, Closed
  <2>3. Paired'
    <3>1. pipeline = None /\ capturing = {} /\ running = {}
      BY <1>6 DEF CameraFails
    <3>2. /\ stream' = None /\ pipeline' = None
          /\ capturing' = {} /\ running' = {}
      BY <3>1, <1>6 DEF CameraFails, PreviewFails, teardownPreview
    <3> QED
      BY <3>2
  <2>4. Buttons'
    BY <1>6 DEF CameraFails, PreviewFails, teardownPreview, Closed
  <2>5. Broadcasts'
    BY <1>6 DEF CameraFails, PreviewFails, teardownPreview, Closed
  <2> QED
    BY <2>1, <2>2, <2>3, <2>4, <2>5
<1>7. ASSUME NEW s \in 1 .. MaxAsked, PreviewPlays(s) PROVE PageInv'
  BY <1>7 DEF PreviewPlays, showPreviewing, devices
<1>8. ASSUME NEW s \in 1 .. MaxAsked, PlayFails(s) PROVE PageInv'
  <2>1. TypeOK'
    BY <1>8 DEF PlayFails, PreviewFails, teardownPreview, Closed
  <2>2. Alone'
    BY <1>8 DEF PlayFails, PreviewFails, teardownPreview, Closed
  <2>3. Paired'
    BY <1>8 DEF PlayFails, PreviewFails, teardownPreview, Closed
  <2>4. Buttons'
    BY <1>8 DEF PlayFails, PreviewFails, teardownPreview, Closed
  <2>5. Broadcasts'
    BY <1>8 DEF PlayFails, PreviewFails, teardownPreview, Closed
  <2> QED
    BY <2>1, <2>2, <2>3, <2>4, <2>5
<1>9. ASSUME NEW c \in connecting, Connected(c) PROVE PageInv'
  <2>1. TypeOK'
    BY <1>9 DEF Connected, Connection, showBroadcasting
  <2>2. Alone'
    BY <1>9 DEF Connected, Connection, showBroadcasting
  <2>3. Paired'
    BY <1>9 DEF Connected, Connection, showBroadcasting
  <2>4. Buttons'
    BY <1>9 DEF Connected, Connection, showBroadcasting
  <2>5. Broadcasts'
    BY <1>9 DEF Connected, Connection, showBroadcasting
  <2> QED
    BY <2>1, <2>2, <2>3, <2>4, <2>5
<1>10. ASSUME NEW c \in connecting, ConnectFails(c) PROVE PageInv'
  <2>1. TypeOK'
    BY <1>10 DEF ConnectFails, Connection, stopBroadcast, Closed, showPreviewing
  <2>2. Alone'
    BY <1>10 DEF ConnectFails, Connection, stopBroadcast, Closed, showPreviewing
  <2>3. Paired'
    BY <1>10 DEF ConnectFails, Connection, stopBroadcast, Closed, showPreviewing
  <2>4. Buttons'
    BY <1>10 DEF ConnectFails, Connection, stopBroadcast, Closed, showPreviewing
  <2>5. Broadcasts'
    BY <1>10 DEF ConnectFails, Connection, stopBroadcast, Closed, showPreviewing
  <2> QED
    BY <2>1, <2>2, <2>3, <2>4, <2>5
<1>11. ASSUME NEW n \in 1 .. MaxDialled, Drop(n) PROVE PageInv'
  BY <1>11 DEF Drop, calls
<1>12. ASSUME NEW n \in 1 .. MaxDialled, onClosed(n) PROVE PageInv'
  <2>1. TypeOK'
    BY <1>12 DEF onClosed, stopBroadcast, Closed, showPreviewing, calls
  <2>2. Alone'
    BY <1>12 DEF onClosed, stopBroadcast, Closed, showPreviewing, calls
  <2>3. Paired'
    BY <1>12 DEF onClosed, stopBroadcast, Closed, showPreviewing, calls
  <2>4. Buttons'
    BY <1>12 DEF onClosed, stopBroadcast, Closed, showPreviewing, calls
  <2>5. Broadcasts'
    BY <1>12 DEF onClosed, stopBroadcast, Closed, showPreviewing, calls
  <2> QED
    BY <2>1, <2>2, <2>3, <2>4, <2>5
<1>13. CASE UNCHANGED vars
  <2>1. TypeOK'
    BY <1>13 DEF vars, calls, devices
  <2>2. Alone'
    BY <1>13 DEF vars, calls, devices
  <2>3. Paired'
    BY <1>13 DEF vars, calls, devices
  <2>4. Buttons'
    BY <1>13 DEF vars, calls, devices
  <2>5. Broadcasts'
    BY <1>13 DEF vars, calls, devices
  <2> QED
    BY <2>1, <2>2, <2>3, <2>4, <2>5
<1> QED
  BY <1>1, <1>2, <1>3, <1>4, <1>5, <1>6, <1>7, <1>8, <1>9, <1>10, <1>11, <1>12, <1>13 DEF Next

\* The page's invariant, for any number of previews and broadcasts.
THEOREM PageInvariant == Spec => []PageInv
<1>1. Init => PageInv
  <2> SUFFICES ASSUME Init PROVE PageInv
    OBVIOUS
  <2>1. TypeOK
    BY First DEF Init, TypeOK
  <2>2. Alone /\ Paired /\ Buttons /\ Broadcasts
    BY DEF Init, Alone, Single, Paired, Buttons, Broadcasts
  <2> QED
    BY <2>1, <2>2 DEF PageInv
<1> QED
  BY <1>1, PageKeeps, PTL DEF Spec

\* Camera, pipeline and connections stay within reach: teardownPreview() and
\* stopBroadcast() release whatever is on.
THEOREM WithinReach == Spec => []NothingOrphaned
<1>1. PageInv => NothingOrphaned
  BY DEF PageInv, Paired, Broadcasts, NothingOrphaned
<1> QED
  BY <1>1, PageInvariant, PTL

\* The badge of main.ts never hides a broadcast, and never claims one but on a
\* page that the browser hid and kept.
THEOREM BadgeIsTrue == Spec => []BadgeTellsTruth
<1>1. PageInv => BadgeTellsTruth
  <2> SUFFICES ASSUME PageInv PROVE BadgeTellsTruth
    OBVIOUS
  <2>1. ASSUME open \ leaked # {} PROVE ui = {"live", "stop"}
    <3>1. "live" \in ui
      BY <2>1 DEF PageInv, Buttons, Broadcasts
    <3>2. "stop" \in ui /\ ui \subseteq {"live", "stop"}
      BY <3>1 DEF PageInv, Buttons
    <3> QED
      BY <3>1, <3>2
  <2>2. ASSUME "live" \in ui, ~ hidden
        PROVE  publisher # None /\ publisher.track = pipeline /\ pipeline \in running
    <3>1. publisher # None /\ publisher.track = pipeline
      BY <2>2 DEF PageInv, Broadcasts
    <3>2. pipeline # None
      BY <3>1, Apart DEF PageInv, TypeOK, Connection
    <3> QED
      BY <3>1, <3>2 DEF PageInv, Paired
  <2> QED
    BY <2>1, <2>2 DEF BadgeTellsTruth
<1> QED
  BY <1>1, PageInvariant, PTL

\* When onStart() can run, no other call of enablePreview() or startBroadcast()
\* is waiting, and it has something to do.
THEOREM StartIsSafe == Spec => []StartLeadsOn
<1>1. PageInv => StartLeadsOn
  BY DEF PageInv, Alone, Paired, Buttons, StartLeadsOn
<1> QED
  BY <1>1, PageInvariant, PTL
=============================================================================
