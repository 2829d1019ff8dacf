--------------------------- MODULE BroadcastPage ---------------------------
(***************************************************************************)
(* The broadcast page, viduce-broadcast/web/src/main.ts with camera.ts,    *)
(* resize.ts and publisher.ts: a preview of the camera, and a broadcast of *)
(* it that is started and stopped.  Handlers run one at a time, but two of *)
(* them wait: enablePreview() for the camera and for the preview to play,  *)
(* startBroadcast() for the relay.  Meanwhile buttons are clicked,         *)
(* connections drop, and the browser may hide the page, release what it    *)
(* holds, and show it again.                                               *)
(*                                                                         *)
(* A stream of the camera is the number of the call that asked for it, and *)
(* so is the pipeline that makes its frames small; a connection is a       *)
(* number, too.  Pixels, messages and the names of broadcasts are left     *)
(* out, and what the publisher library does with frames.                   *)
(***************************************************************************)
EXTENDS Integers

CONSTANTS
  MaxAsked,    \* bound: calls of enablePreview()
  MaxDialled,  \* bound: calls of startPublishing()
  None         \* null

\* A broadcast: its connection and the pipeline whose frames it publishes.
Connection == [conn : 1 .. MaxDialled, track : 1 .. MaxAsked]

ASSUME PageAssumption ==
  /\ MaxAsked \in Nat \ {0} /\ MaxDialled \in Nat
  /\ None \notin Nat /\ None \notin Connection

VARIABLES
  stream, pipeline, publisher,  \* the variables of main.ts
  ui,          \* the badge, if LIVE, and Start, Stop and the inputs, if enabled
  label,       \* what Start says
  asking,      \* calls of enablePreview() that wait for the camera
  playing,     \* calls of enablePreview() that wait for the preview to play
  connecting,  \* calls of startBroadcast() that wait for the relay
  asked, dialled,  \* calls so far
  capturing,   \* streams whose camera is on
  running,     \* pipelines that have not been stopped
  open,        \* connections that are open
  watched,     \* connections whose `closed` has a handler to run
  leaked,      \* connections whose Broadcast could not be made
  hidden       \* the page was hidden since the camera opened last

calls == <<asking, playing, connecting, asked, dialled>>
devices == <<capturing, running, open, watched, leaked>>
vars == <<stream, pipeline, publisher, ui, label, calls, devices, hidden>>

TypeOK ==
  /\ stream \in 1 .. MaxAsked \cup {None}
  /\ pipeline \in 1 .. MaxAsked \cup {None}
  /\ publisher \in Connection \cup {None}
  /\ ui \subseteq {"live", "start", "stop", "inputs"}
  /\ label \in {"Start broadcast", "Enable camera"}
  /\ asking \subseteq 1 .. MaxAsked /\ playing \subseteq 1 .. MaxAsked
  /\ connecting \subseteq Connection
  /\ asked \in 0 .. MaxAsked /\ dialled \in 0 .. MaxDialled
  /\ capturing \subseteq 1 .. MaxAsked /\ running \subseteq 1 .. MaxAsked
  /\ open \subseteq 1 .. MaxDialled /\ watched \subseteq 1 .. MaxDialled
  /\ leaked \subseteq 1 .. MaxDialled
  /\ hidden \in BOOLEAN

\* The page has loaded and asks for the camera.
Init ==
  /\ stream = None /\ pipeline = None /\ publisher = None
  /\ ui = {"inputs"} /\ label = "Start broadcast"
  /\ asking = {1} /\ playing = {} /\ connecting = {}
  /\ asked = 1 /\ dialled = 0
  /\ capturing = {} /\ running = {} /\ open = {} /\ watched = {} /\ leaked = {}
  /\ hidden = FALSE

-----------------------------------------------------------------------------
showPreviewing == ui' = {"start", "inputs"} /\ label' = "Start broadcast"

showBroadcasting == ui' = {"live", "stop"} /\ UNCHANGED label

\* The connections that are open when the publisher has been stopped.
Closed(p) == IF p = None THEN open ELSE open \ {p.conn}

\* Mutant: the publisher is forgotten, not stopped.
stopBroadcastForgets(opened) ==
  /\ publisher' = None
  /\ open' = open \cup opened
  /\ showPreviewing

\* stopBroadcast(), when the connections of `opened` have been opened, too.
stopBroadcast(opened) ==
  /\ publisher' = None
  /\ open' = Closed(publisher) \cup opened
  /\ showPreviewing

\* Mutant: the stream is forgotten, and its camera stays on.
teardownForgetsCamera(now) ==
  /\ publisher' = None /\ open' = Closed(publisher)
  /\ pipeline' = None /\ running' = running \ {pipeline}
  /\ stream' = None /\ capturing' = capturing \cup ({now} \ {None})

\* teardownPreview(), when `now` is the stream.
teardownPreview(now) ==
  /\ publisher' = None /\ open' = Closed(publisher)
  /\ pipeline' = None /\ running' = running \ {pipeline}
  /\ stream' = None /\ capturing' = capturing \ {now}

-----------------------------------------------------------------------------
\* enablePreview() up to its first await.
enablePreview ==
  /\ asked < MaxAsked
  /\ asked' = asked + 1 /\ asking' = asking \cup {asked + 1}
  /\ ui' = ui \ {"start"}
  /\ UNCHANGED <<label, stream, pipeline, publisher, playing, connecting, dialled, devices, hidden>>

\* Its catch: everything is released, and the camera can be asked for again.
PreviewFails(now) ==
  /\ teardownPreview(now)
  /\ ui' = {"start", "inputs"} /\ label' = "Enable camera"
  /\ UNCHANGED <<connecting, asked, dialled, watched, leaked, hidden>>

\* The camera opens; its frames go through a new pipeline into the preview.
CameraOpens(s) ==
  /\ s \in asking /\ asking' = asking \ {s}
  /\ stream' = s /\ capturing' = capturing \cup {s}
  /\ pipeline' = s /\ running' = running \cup {s}
  /\ playing' = playing \cup {s}
  /\ hidden' = FALSE
  /\ UNCHANGED <<publisher, ui, label, connecting, asked, dialled, open, watched, leaked>>

\* It does not, or what it opens has no video track or finds no pipeline.
CameraFails(s) ==
  /\ s \in asking /\ asking' = asking \ {s}
  /\ PreviewFails(stream) \/ PreviewFails(s)
  /\ UNCHANGED playing

\* play() is done.  It may be when the page has been hidden since.
PreviewPlays(s) ==
  /\ s \in playing /\ playing' = playing \ {s}
  /\ showPreviewing
  /\ UNCHANGED <<stream, pipeline, publisher, asking, connecting, asked, dialled,
                 devices, hidden>>

PlayFails(s) ==
  /\ s \in playing /\ playing' = playing \ {s}
  /\ PreviewFails(stream)
  /\ UNCHANGED asking

-----------------------------------------------------------------------------
\* startBroadcast() up to its await; it returns at once without a pipeline.
startBroadcast ==
  /\ IF pipeline = None THEN UNCHANGED <<ui, connecting, dialled>>
     ELSE /\ dialled < MaxDialled
          /\ dialled' = dialled + 1
          /\ connecting' = connecting \cup {[conn |-> dialled + 1, track |-> pipeline]}
          /\ ui' = ui \ {"start", "inputs"}
  /\ UNCHANGED <<label, stream, pipeline, publisher, asking, playing, asked, devices, hidden>>

\* A click on Start.
onStart ==
  /\ "start" \in ui
  /\ IF stream # None THEN startBroadcast ELSE enablePreview

\* The relay answered and the broadcast is on.
Connected(c) ==
  /\ c \in connecting /\ connecting' = connecting \ {c}
  /\ publisher' = c
  /\ open' = open \cup {c.conn} /\ watched' = watched \cup {c.conn}
  /\ showBroadcasting
  /\ UNCHANGED <<stream, pipeline, asking, playing, asked, dialled,
                 capturing, running, leaked, hidden>>

\* The relay refused; or it answered and there is no broadcast: then nobody
\* closes the connection.
ConnectFails(c) ==
  /\ c \in connecting /\ connecting' = connecting \ {c}
  /\ \/ stopBroadcast({}) /\ UNCHANGED leaked
     \/ stopBroadcast({c.conn}) /\ leaked' = leaked \cup {c.conn}
  /\ UNCHANGED <<stream, pipeline, asking, playing, asked, dialled,
                 capturing, running, watched, hidden>>

\* A click on Stop.
onStop ==
  /\ "stop" \in ui
  /\ stopBroadcast({})
  /\ UNCHANGED <<stream, pipeline, calls, capturing, running, watched, leaked, hidden>>

\* The relay drops a connection.
Drop(n) ==
  /\ n \in open /\ open' = open \ {n}
  /\ UNCHANGED <<stream, pipeline, publisher, ui, label, calls, capturing, running,
                 watched, leaked, hidden>>

\* Mutant: whoever is the publisher now is stopped.
onClosedUnchecked(n) ==
  /\ n \in watched /\ n \notin open /\ watched' = watched \ {n}
  /\ stopBroadcast({})
  /\ UNCHANGED <<stream, pipeline, calls, capturing, running, leaked, hidden>>

\* `closed` of a connection is handled: it matters to its own publisher only.
onClosed(n) ==
  /\ n \in watched /\ n \notin open /\ watched' = watched \ {n}
  /\ IF publisher # None /\ publisher.conn = n
     THEN stopBroadcast({}) ELSE UNCHANGED <<publisher, open, ui, label>>
  /\ UNCHANGED <<stream, pipeline, calls, capturing, running, leaked, hidden>>

\* The browser hides the page.  It may keep it, and show it again as it is.
Pagehide ==
  /\ teardownPreview(stream)
  /\ hidden' = TRUE
  /\ UNCHANGED <<ui, label, calls, watched, leaked>>

Next ==
  \/ onStart
  \/ onStop
  \/ Pagehide
  \/ \E s \in 1 .. MaxAsked :
       CameraOpens(s) \/ CameraFails(s) \/ PreviewPlays(s) \/ PlayFails(s)
  \/ \E c \in connecting : Connected(c) \/ ConnectFails(c)
  \/ \E n \in 1 .. MaxDialled : Drop(n) \/ onClosed(n)

Spec == Init /\ [][Next]_vars

-----------------------------------------------------------------------------
\* Whatever is on can still be turned off: the camera and the pipeline are
\* those the page refers to, and so is each open connection, but for one that
\* found no broadcast.  Two calls that overlap would lose what one of them
\* opened.
NothingOrphaned ==
  /\ capturing \subseteq {stream}
  /\ running \subseteq {pipeline}
  /\ \A n \in open \ leaked : publisher # None /\ publisher.conn = n

\* "A badge + red border make 'broadcasting' vs 'preview only' unmistakable":
\* while frames go to the relay the badge is on, Stop can be clicked and the
\* inputs show the name; and while the badge is on, the preview is what goes
\* to the relay, unless the page was hidden meanwhile.
BadgeTellsTruth ==
  /\ open \ leaked # {} => ui = {"live", "stop"}
  /\ "live" \in ui /\ ~ hidden =>
       publisher # None /\ publisher.track = pipeline /\ pipeline \in running

\* A click on Start always leads on: no call is under way that it could run
\* into, it never finds a stream without its pipeline, and "Enable camera"
\* never finds one at all.
StartLeadsOn ==
  "start" \in ui =>
    /\ asking = {} /\ playing = {} /\ connecting = {} /\ publisher = None
    /\ stream # None => pipeline # None
    /\ label = "Enable camera" => stream = None
=============================================================================
