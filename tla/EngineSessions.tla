--------------------------- MODULE EngineSessions ---------------------------
(***************************************************************************)
(* The control plane of viduce-engine: EngineServiceImpl                   *)
(* (engine_service_impl.cc), the sessions it creates (engine_session.cpp)  *)
(* and the shutdown of engine_server (engine_server.cc).                   *)
(*                                                                         *)
(* A CreateSession destroys the session before it, which means to join its *)
(* socket thread and to unlink its socket file, and starts the next one:   *)
(* bind, listen, and a thread that accepts one connection and reads frames *)
(* from it until it is closed.  All of that happens under one mutex.       *)
(* Sessions are numbered in the order they are constructed.                *)
(*                                                                         *)
(* Feeders are the clients that connect to the socket.  They are not part  *)
(* of the repository; the tests' client writes frames and closes.          *)
(***************************************************************************)
EXTENDS Integers, FiniteSets, SequencesExt

CONSTANTS
  Workers,      \* gRPC threads
  Feeders,      \* connections to a session's socket
  Paths,        \* socket paths a request may name
  Faults,       \* what may fail: subset of {"bind", "listen"}
  MaxSessions,  \* bound: sessions constructed
  MaxPieces,    \* bound: headers and payloads written to one connection
  MaxCrashes,   \* bound: times the process dies and is started again
  None

ASSUME ThreadAssumption ==
  /\ None \notin Workers \cup Feeders \cup Paths
  /\ IsFiniteSet(Workers)
ASSUME FaultAssumption == Faults \subseteq {"bind", "listen"}
ASSUME BoundAssumption ==
  MaxSessions \in Nat /\ MaxPieces \in Nat /\ MaxCrashes \in Nat
ASSUME NoneAssumption == None \notin Nat

Session == 1 .. MaxSessions

VARIABLES
  mutex,    \* the worker that holds mutex_, or None
  session,  \* engine_session_: its number, or None
  made,     \* sessions constructed so far
  path,     \* the socket path of each session
  file,     \* the session whose socket a path leads to, or None
  thread,   \* where the socket thread of each session is
  served,   \* the connection it accepted, or None
  backlog,  \* connections a session's socket has not accepted
  taken,    \* pieces it has read
  frames,   \* frames it has passed to on_frame
  pc,       \* where each worker is
  req,      \* the socket path it was asked for; None for the empty one
  main,     \* where main() is
  crashes,  \* crashes so far
  left,     \* sessions that ended without their destructor's unlink (observation only)
  feeder,   \* each connection: "away", "connected" or "closed"
  at,       \* the session it leads to
  wire      \* the pieces written to it

processVars == <<mutex, session, made, path, pc, req, main, crashes>>
threadVars == <<thread, served, backlog, taken, frames>>
fileVars == <<file, left>>
feederVars == <<feeder, at, wire>>
vars == <<processVars, threadVars, fileVars, feederVars>>

\* The pieces of a stream: a header whose payload follows, the header of a
\* frame without payload, and a payload.
Piece == {"header", "bare", "payload"}

Live(s) == thread[s] \in {"accept", "header", "payload"}

\* The connection is queued at a listening socket or held by a socket thread.
Open(f) ==
  at[f] # None /\ (f \in Range(backlog[at[f]]) \/ (served[at[f]] = f /\ Live(at[f])))

Init ==
  /\ mutex = None
  /\ session = None
  /\ made = 0
  /\ path = [s \in Session |-> None]
  /\ file = [p \in Paths |-> None]
  /\ thread = [s \in Session |-> "none"]
  /\ served = [s \in Session |-> None]
  /\ backlog = [s \in Session |-> <<>>]
  /\ taken = [s \in Session |-> 0]
  /\ frames = [s \in Session |-> 0]
  /\ pc = [w \in Workers |-> "idle"]
  /\ req = [w \in Workers |-> None]
  /\ main = "serving"
  /\ crashes = 0
  /\ left = {}
  /\ feeder = [f \in Feeders |-> "away"]
  /\ at = [f \in Feeders |-> None]
  /\ wire = [f \in Feeders |-> <<>>]

-----------------------------------------------------------------------------
(* Feeders.                                                                *)

\* connect() finds the file, and a socket behind it that listens.
Connect(f, p) ==
  /\ feeder[f] = "away"
  /\ file[p] # None /\ file[p] = session
  /\ feeder' = [feeder EXCEPT ![f] = "connected"]
  /\ at' = [at EXCEPT ![f] = file[p]]
  /\ backlog' = [backlog EXCEPT ![file[p]] = Append(@, f)]
  /\ UNCHANGED <<processVars, fileVars, wire, thread, served, taken, frames>>

Write(f, piece) ==
  /\ feeder[f] = "connected" /\ Open(f)
  /\ Len(wire[f]) < MaxPieces
  /\ piece = "payload" <=> wire[f] # <<>> /\ Last(wire[f]) = "header"
  /\ wire' = [wire EXCEPT ![f] = Append(@, piece)]
  /\ UNCHANGED <<processVars, threadVars, fileVars, feeder, at>>

\* At any time: also behind a header, or in the middle of a piece.
Hangup(f) ==
  /\ feeder[f] = "connected"
  /\ feeder' = [feeder EXCEPT ![f] = "closed"]
  /\ UNCHANGED <<processVars, threadVars, fileVars, at, wire>>

\* The next client of the same name.
Reuse(f) ==
  /\ feeder[f] = "closed" /\ ~Open(f)
  /\ feeder' = [feeder EXCEPT ![f] = "away"]
  /\ at' = [at EXCEPT ![f] = None]
  /\ wire' = [wire EXCEPT ![f] = <<>>]
  /\ served' = [s \in Session |-> IF served[s] = f THEN None ELSE served[s]]
  /\ UNCHANGED <<processVars, fileVars, thread, backlog, taken, frames>>

-----------------------------------------------------------------------------
(* The socket thread of session s.                                         *)

Accept(s) ==
  /\ thread[s] = "accept"
  /\ backlog[s] # <<>>
  /\ served' = [served EXCEPT ![s] = Head(backlog[s])]
  /\ backlog' = [backlog EXCEPT ![s] = Tail(@)]
  /\ thread' = [thread EXCEPT ![s] = "header"]
  /\ UNCHANGED <<processVars, fileVars, feederVars, taken, frames>>

\* A piece has arrived in full.
Arrived(s) == taken[s] < Len(wire[served[s]])

\* The peer has closed and all it wrote in full is read; a torn piece makes
\* read() fail just as its absence does.
Eof(s) == ~Arrived(s) /\ feeder[served[s]] = "closed"

\* Mutant: a frame is passed on when its header has come.
ReadHeaderDelivers(s) ==
  /\ thread[s] = "header"
  /\ Arrived(s)
  /\ taken' = [taken EXCEPT ![s] = @ + 1]
  /\ frames' = [frames EXCEPT ![s] = @ + 1]
  /\ thread' = [thread EXCEPT ![s] =
                  IF wire[served[s]][taken[s] + 1] = "bare" THEN "header" ELSE "payload"]
  /\ UNCHANGED <<processVars, fileVars, feederVars, served, backlog>>

\* An empty payload is read without waiting for anything.
ReadHeader(s) ==
  /\ thread[s] = "header"
  /\ Arrived(s)
  /\ taken' = [taken EXCEPT ![s] = @ + 1]
  /\ IF wire[served[s]][taken[s] + 1] = "bare"
       THEN frames' = [frames EXCEPT ![s] = @ + 1] /\ UNCHANGED thread
       ELSE thread' = [thread EXCEPT ![s] = "payload"] /\ UNCHANGED frames
  /\ UNCHANGED <<processVars, fileVars, feederVars, served, backlog>>

ReadPayload(s) ==
  /\ thread[s] = "payload"
  /\ Arrived(s)
  /\ taken' = [taken EXCEPT ![s] = @ + 1]
  /\ frames' = [frames EXCEPT ![s] = @ + 1]
  /\ thread' = [thread EXCEPT ![s] = "header"]
  /\ UNCHANGED <<processVars, fileVars, feederVars, served, backlog>>

\* Mutant: only a read of a header notices that the client is gone.
EndReadOfHeader(s) ==
  /\ thread[s] = "header"
  /\ Eof(s)
  /\ thread' = [thread EXCEPT ![s] = "ended"]
  /\ UNCHANGED <<processVars, fileVars, feederVars, served, backlog, taken, frames>>

\* ReadFrame returns an error: the loop is left, and the socket is closed.
EndRead(s) ==
  /\ thread[s] \in {"header", "payload"}
  /\ Eof(s)
  /\ thread' = [thread EXCEPT ![s] = "ended"]
  /\ UNCHANGED <<processVars, fileVars, feederVars, served, backlog, taken, frames>>

SocketThread(s) == Accept(s) \/ ReadHeader(s) \/ ReadPayload(s) \/ EndRead(s)

-----------------------------------------------------------------------------
(* The CreateSession handler.                                              *)

\* A request in a state from which it still constructs a session.
Coming == {w \in Workers : pc[w] \in {"entry", "join", "start"} /\ req[w] # None}

Call(w, p) ==
  /\ main = "serving"
  /\ pc[w] = "idle"
  /\ p # None => made + Cardinality(Coming) < MaxSessions
  /\ pc' = [pc EXCEPT ![w] = "entry"]
  /\ req' = [req EXCEPT ![w] = p]
  /\ UNCHANGED <<mutex, session, made, path, main, crashes, threadVars, fileVars, feederVars>>

\* An empty path is refused before the mutex is taken.
RejectEmpty(w) ==
  /\ pc[w] = "entry" /\ req[w] = None
  /\ pc' = [pc EXCEPT ![w] = "idle"]
  /\ UNCHANGED <<mutex, session, made, path, req, main, crashes, threadVars, fileVars, feederVars>>

Lock(w) ==
  /\ pc[w] = "entry" /\ req[w] # None
  /\ mutex = None
  /\ mutex' = w
  /\ pc' = [pc EXCEPT ![w] = "join"]
  /\ UNCHANGED <<session, made, path, req, main, crashes, threadVars, fileVars, feederVars>>

\* Mutant: the mutex is not released.
RespondLocked(w) ==
  /\ mutex' = mutex
  /\ pc' = [pc EXCEPT ![w] = "idle"]
  /\ req' = [req EXCEPT ![w] = None]

\* The handler returns, and the lock_guard releases the mutex.
Respond(w) ==
  /\ mutex' = None
  /\ pc' = [pc EXCEPT ![w] = "idle"]
  /\ req' = [req EXCEPT ![w] = None]

\* Mutant: the socket thread is detached.
DestroyWithoutJoin ==
  /\ session # None
  /\ file' = [file EXCEPT ![path[session]] = None]
  /\ backlog' = [backlog EXCEPT ![session] = <<>>]
  /\ session' = None
  /\ UNCHANGED <<thread, served, taken, frames, left>>

\* Mutant: the destructor leaves the file behind.
DestroyKeepsFile ==
  /\ session # None
  /\ thread[session] = "ended"
  /\ backlog' = [backlog EXCEPT ![session] = <<>>]
  /\ session' = None
  /\ UNCHANGED <<file, thread, served, taken, frames, left>>

\* ~EngineSession: join() waits for the socket thread; then the file is
\* unlinked, and closing the acceptor drops the connections in its backlog.
DestroySession ==
  /\ session # None
  /\ thread[session] = "ended"
  /\ file' = [file EXCEPT ![path[session]] = None]
  /\ backlog' = [backlog EXCEPT ![session] = <<>>]
  /\ session' = None
  /\ UNCHANGED <<thread, served, taken, frames, left>>

\* engine_session_.reset()
Reset(w) ==
  /\ pc[w] = "join"
  /\ IF session = None THEN UNCHANGED <<session, threadVars, fileVars>> ELSE DestroySession
  /\ pc' = [pc EXCEPT ![w] = "start"]
  /\ UNCHANGED <<mutex, made, path, req, main, crashes, feederVars>>

\* Mutant: the thread of the session before is joined first, but its socket is
\* closed and unlinked behind the new bind(), at the same path or another.
BindBeforeUnlink(w) ==
  LET unlinked(p) == made > 0 /\ thread[made] = "ended" /\ path[made] = p
  IN  /\ pc[w] = "start"
      /\ made' = made + 1
      /\ path' = [path EXCEPT ![made + 1] = req[w]]
      /\ file' = [p \in Paths |-> IF unlinked(p) THEN None
                                 ELSE IF p = req[w] THEN made + 1 ELSE file[p]]
      /\ pc' = [pc EXCEPT ![w] = "listen"]
      /\ UNCHANGED <<mutex, session, req, main, crashes, threadVars, left, feederVars>>

\* Start() has unlinked whatever was at the path and bound its own socket
\* there.  Nobody can connect yet.
Bind(w) ==
  /\ pc[w] = "start"
  /\ made' = made + 1
  /\ path' = [path EXCEPT ![made + 1] = req[w]]
  /\ file' = [file EXCEPT ![req[w]] = made + 1]
  /\ pc' = [pc EXCEPT ![w] = "listen"]
  /\ UNCHANGED <<mutex, session, req, main, crashes, threadVars, left, feederVars>>

\* The path is too long, or open() or bind() failed behind the unlink().
BindFails(w) ==
  /\ "bind" \in Faults
  /\ pc[w] = "start"
  /\ made' = made + 1
  /\ \/ UNCHANGED file
     \/ file' = [file EXCEPT ![req[w]] = None]
  /\ Respond(w)
  /\ UNCHANGED <<session, path, main, crashes, threadVars, left, feederVars>>

\* listen() succeeds, the socket thread is spawned and the session is kept.
Listen(w) ==
  /\ pc[w] = "listen"
  /\ thread' = [thread EXCEPT ![made] = "accept"]
  /\ session' = made
  /\ Respond(w)
  /\ UNCHANGED <<made, path, main, crashes, served, backlog, taken, frames, fileVars, feederVars>>

\* Without a socket thread the destructor leaves the file where it is.
ListenFails(w) ==
  /\ "listen" \in Faults
  /\ pc[w] = "listen"
  /\ left' = left \cup {made}
  /\ Respond(w)
  /\ UNCHANGED <<session, made, path, main, crashes, file, threadVars, feederVars>>

Handle(w) ==
  Reset(w) \/ Bind(w) \/ BindFails(w) \/ Listen(w) \/ ListenFails(w)

-----------------------------------------------------------------------------
(* The process.                                                            *)

\* sigwait() returns; Shutdown() refuses new calls and waits for the others.
Signal ==
  /\ main = "serving"
  /\ main' = "shutdown"
  /\ UNCHANGED <<mutex, session, made, path, pc, req, crashes, threadVars, fileVars, feederVars>>

Drained ==
  /\ main = "shutdown"
  /\ \A w \in Workers : pc[w] = "idle"
  /\ main' = "returning"
  /\ UNCHANGED <<mutex, session, made, path, pc, req, crashes, threadVars, fileVars, feederVars>>

\* main() returns: the service is destroyed, and its session with it.
Exit ==
  /\ main = "returning"
  /\ IF session = None THEN UNCHANGED <<session, threadVars, fileVars>> ELSE DestroySession
  /\ main' = "exited"
  /\ UNCHANGED <<mutex, made, path, pc, req, crashes, feederVars>>

\* The process is killed, or accept() or an allocation threw in a socket
\* thread, and it is started again: the files of its sockets stay behind.
Crash ==
  /\ crashes < MaxCrashes
  /\ main # "exited"
  /\ crashes' = crashes + 1
  /\ mutex' = None
  /\ session' = None
  /\ pc' = [w \in Workers |-> "idle"]
  /\ req' = [w \in Workers |-> None]
  /\ main' = "serving"
  /\ thread' = [s \in Session |-> IF Live(s) THEN "killed" ELSE thread[s]]
  /\ backlog' = [s \in Session |-> <<>>]
  /\ left' = left \cup ({file[p] : p \in Paths} \ {None})
  /\ UNCHANGED <<made, path, served, taken, frames, file, feederVars>>

\* Nothing is left to do: not a deadlock.
Ended ==
  /\ main = "exited"
  /\ \A f \in Feeders : feeder[f] = "away"
  /\ UNCHANGED vars

-----------------------------------------------------------------------------
Next ==
  \/ \E f \in Feeders, p \in Paths : Connect(f, p)
  \/ \E f \in Feeders, piece \in Piece : Write(f, piece)
  \/ \E f \in Feeders : Hangup(f) \/ Reuse(f)
  \/ \E s \in Session : SocketThread(s)
  \/ \E w \in Workers, p \in Paths \cup {None} : Call(w, p)
  \/ \E w \in Workers : RejectEmpty(w) \/ Lock(w) \/ Handle(w)
  \/ Signal \/ Drained \/ Exit \/ Crash \/ Ended

Spec == Init /\ [][Next]_vars

\* Threads that can go on do, and every waiter gets the mutex in the end.
EngineRuns ==
  /\ \A w \in Workers : WF_vars(RejectEmpty(w)) /\ SF_vars(Lock(w)) /\ WF_vars(Handle(w))
  /\ \A s \in Session : WF_vars(SocketThread(s))
  /\ WF_vars(Drained) /\ WF_vars(Exit)

\* "The client is expected to close its connection" (engine_session.h), and
\* others come after it.
FeedersLeave == \A f \in Feeders : WF_vars(Hangup(f)) /\ WF_vars(Reuse(f))

\* Some client connects to every session that is created.
FeedersCome == WF_vars(\E f \in Feeders, p \in Paths : Connect(f, p))

ExpectedSpec == Spec /\ EngineRuns /\ FeedersLeave
FairSpec == ExpectedSpec /\ FeedersCome

-----------------------------------------------------------------------------
\* Type invariant.
TypeOK ==
  /\ mutex \in Workers \cup {None}
  /\ session \in Session \cup {None}
  /\ made \in 0 .. MaxSessions
  /\ path \in [Session -> Paths \cup {None}]
  /\ file \in [Paths -> Session \cup {None}]
  /\ thread \in [Session -> {"none", "accept", "header", "payload", "ended", "killed"}]
  /\ served \in [Session -> Feeders \cup {None}]
  /\ backlog \in [Session -> Seq(Feeders)]
  /\ taken \in [Session -> Nat]
  /\ frames \in [Session -> Nat]
  /\ pc \in [Workers -> {"idle", "entry", "join", "start", "listen"}]
  /\ req \in [Workers -> Paths \cup {None}]
  /\ main \in {"serving", "shutdown", "returning", "exited"}
  /\ crashes \in 0 .. MaxCrashes
  /\ left \subseteq Session
  /\ feeder \in [Feeders -> {"away", "connected", "closed"}]
  /\ at \in [Feeders -> Session \cup {None}]
  /\ wire \in [Feeders -> Seq(Piece)]

\* The session the service keeps can be connected to: its socket file is
\* there and leads to it, even if the path was used before, by the session
\* it replaced, by one that failed to start or by a process that crashed.
Reachable == session # None => file[path[session]] = session

\* A socket thread runs for the session the service keeps and for no other:
\* none outlives its session, none is started beside another.
OneThread == \A s \in Session : Live(s) => s = session

\* The frames a stream holds in full.
Complete(stream) == Cardinality({i \in 1 .. Len(stream) : stream[i] # "header"})

\* When the client has hung up and the thread has noticed, the callback has
\* been given every frame that was written in full, and no torn one.
NothingLost ==
  \A f \in Feeders, s \in Session :
    at[f] = s /\ served[s] = f /\ thread[s] = "ended" => frames[s] = Complete(wire[f])

\* A socket file belongs to the session the service keeps or starts, or it
\* was left by a crash or by a listen() that failed.
FilesAccounted ==
  \A p \in Paths : file[p] # None =>
    \/ file[p] = session
    \/ file[p] \in left
    \/ file[p] = made /\ \E w \in Workers : pc[w] = "listen"

\* Who holds the mutex, and what each stage of a handler knows.
Holders ==
  /\ \A w \in Workers :
       /\ mutex = w <=> pc[w] \in {"join", "start", "listen"}
       /\ pc[w] \in {"join", "start", "listen"} => req[w] # None
       /\ pc[w] \in {"start", "listen"} => session = None
       /\ pc[w] = "listen" => made > 0 /\ path[made] = req[w] /\ file[req[w]] = made
  /\ main \in {"returning", "exited"} => \A w \in Workers : pc[w] = "idle"

\* A session has one number and one path, and a file leads to a session that
\* was created for it.
Numbers ==
  /\ session # None => session <= made /\ path[session] \in Paths
  /\ \A p \in Paths : file[p] # None => file[p] <= made /\ path[file[p]] = p
  /\ made + Cardinality(Coming) <= MaxSessions

\* The inductive invariant behind Reachable, OneThread and FilesAccounted.
EngineInv ==
  TypeOK /\ Holders /\ Numbers /\ Reachable /\ OneThread /\ FilesAccounted

\* CreateSession returns, although it waits under the mutex for a client of
\* the previous session to connect and to hang up.
EngineCallsEnd == \A w \in Workers : pc[w] = "entry" ~> pc[w] = "idle"

\* engine_session.h on the destructor: it joins the socket thread, "which
\* ends once the client closes its connection".  So a signal ends the engine.
EngineEnds == main = "shutdown" ~> main \in {"exited", "serving"}
=============================================================================
