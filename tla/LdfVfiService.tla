---------------------------- MODULE LdfVfiService ----------------------------
(***************************************************************************)
(* The LDF-VFI daemon: the gRPC servicer of                                *)
(* ldfvfi/src/ldfvfi/server/service.py, the construction and closing of    *)
(* its sessions (session.py, shm.py) and the shutdown of serve()           *)
(* (server.py).                                                            *)
(*                                                                         *)
(* Worker threads of the gRPC pool run the handlers; all of them, and the  *)
(* main thread's reset() at shutdown, compete for one RLock.  The daemon   *)
(* keeps one session, which a CreateSession of any client preempts.        *)
(* Sessions are numbered in the order their uuid is drawn.                 *)
(*                                                                         *)
(* The clients stage frames in the input segment, call, and read the       *)
(* result from the output segment.  They are not part of the repository:   *)
(* they have deadlines, and take a session that failed them for lost.      *)
(***************************************************************************)
EXTENDS Integers, FiniteSets

CONSTANTS
  Workers,      \* threads of the gRPC pool (--workers)
  Clients,      \* processes that call the daemon
  Main,         \* the thread that runs serve()
  Faults,       \* what may fail: subset of {"build", "close", "chunk"}
  MaxSessions,  \* bound: CreateSession calls
  MaxChunks,    \* bound: chunks a client stages in one session
  None

ASSUME ThreadAssumption ==
  /\ Main \notin Workers
  /\ None \notin Workers \cup {Main}
  /\ None \notin Clients
  /\ IsFiniteSet(Workers)
ASSUME FaultAssumption == Faults \subseteq {"build", "close", "chunk"}
ASSUME BoundAssumption == MaxSessions \in Nat /\ MaxChunks \in Nat
ASSUME NoneAssumption == None \notin Nat

Session == 1 .. MaxSessions
Rpc == {"create", "chunk", "destroy"}
Segment == Session \X {"in", "out"}

VARIABLES
  lock,     \* _lock: the thread that holds it, or None
  active,   \* _active_session: its number, or None
  minted,   \* sessions numbered so far
  shm,      \* the segments linked in /dev/shm
  frames,   \* the chunk whose frames are in the input segment of a session
  result,   \* the chunk whose result is in the output segment of a session
  ran,      \* chunks the runner of a session has executed
  pc,       \* where each worker is
  req,      \* the request each worker handles
  got,      \* the frames each worker read from the input segment
  main,     \* where serve() is
  sess,     \* the session each client believes it has, or None
  chunk,    \* the chunk each client staged last
  waits,    \* the worker each client waits for, or None
  reply,    \* the response that reached each client, or None
  spoilt    \* sessions whose construction or closing raised (observation only)

daemonVars == <<lock, active, minted, shm, ran, pc, req, got, main, spoilt>>
memoryVars == <<frames, result>>
clientVars == <<sess, chunk, waits, reply>>
vars == <<daemonVars, memoryVars, clientVars>>

Segs(s) == {<<s, "in">>, <<s, "out">>}

NoRequest == [rpc |-> "none", client |-> None, session |-> None, chunk |-> 0]

Init ==
  /\ lock = None
  /\ active = None
  /\ minted = 0
  /\ shm = {}
  /\ frames = [s \in Session |-> 0]
  /\ result = [s \in Session |-> 0]
  /\ ran = [s \in Session |-> 0]
  /\ pc = [w \in Workers |-> "idle"]
  /\ req = [w \in Workers |-> NoRequest]
  /\ got = [w \in Workers |-> 0]
  /\ main = "serving"
  /\ sess = [c \in Clients |-> None]
  /\ chunk = [c \in Clients |-> 0]
  /\ waits = [c \in Clients |-> None]
  /\ reply = [c \in Clients |-> None]
  /\ spoilt = {}

-----------------------------------------------------------------------------
(* Clients.                                                                *)

\* The server hands a request to an idle thread of its pool, until stop().
Call(c, w, rpc, s, k) ==
  /\ main \in {"serving", "teardown", "reset"}
  /\ waits[c] = None
  /\ pc[w] = "idle"
  /\ pc' = [pc EXCEPT ![w] = "entry"]
  /\ req' = [req EXCEPT ![w] = [rpc |-> rpc, client |-> c, session |-> s, chunk |-> k]]
  /\ waits' = [waits EXCEPT ![c] = w]
  /\ UNCHANGED <<lock, active, minted, shm, ran, got, main, spoilt, result, sess, reply>>

\* CreateSession calls on their way to a number.
Unnumbered == {w \in Workers : req[w].rpc = "create" /\ req[w].session = None}

CallCreate(c, w) ==
  /\ sess[c] = None
  /\ minted + Cardinality(Unnumbered) < MaxSessions
  /\ Call(c, w, "create", None, 0)
  /\ UNCHANGED <<frames, chunk>>

\* The client overwrites the input segment, then calls.
CallChunk(c, w) ==
  /\ sess[c] # None
  /\ chunk[c] < MaxChunks
  /\ chunk' = [chunk EXCEPT ![c] = @ + 1]
  /\ frames' = [frames EXCEPT ![sess[c]] = chunk[c] + 1]
  /\ Call(c, w, "chunk", sess[c], chunk[c] + 1)

CallDestroy(c, w) ==
  /\ sess[c] # None
  /\ Call(c, w, "destroy", sess[c], 0)
  /\ UNCHANGED <<frames, chunk>>

\* The deadline of a call passes: the client gives its session up.  The
\* worker knows nothing of it and goes on.
Timeout(c) ==
  /\ waits[c] # None
  /\ reply[c] = None
  /\ waits' = [waits EXCEPT ![c] = None]
  /\ sess' = [sess EXCEPT ![c] = None]
  /\ chunk' = [chunk EXCEPT ![c] = 0]
  /\ UNCHANGED <<daemonVars, memoryVars, reply>>

\* The client takes the response up, and after a chunk reads the output
\* segment.  A session that was destroyed or that failed is not used again.
Receive(c) ==
  /\ reply[c] # None
  /\ waits' = [waits EXCEPT ![c] = None]
  /\ reply' = [reply EXCEPT ![c] = None]
  /\ \/ /\ reply[c].code = "ok" /\ reply[c].rpc = "create"
        /\ sess' = [sess EXCEPT ![c] = reply[c].session]
        /\ UNCHANGED chunk
     \/ /\ reply[c].code = "ok" /\ reply[c].rpc = "chunk"
        /\ UNCHANGED <<sess, chunk>>
     \/ /\ reply[c].code # "ok" \/ reply[c].rpc = "destroy"
        /\ sess' = [sess EXCEPT ![c] = None]
        /\ chunk' = [chunk EXCEPT ![c] = 0]
  /\ UNCHANGED <<daemonVars, memoryVars>>

-----------------------------------------------------------------------------
(* Handlers.                                                               *)

\* Mutant: the error path does not release the lock.
RespondKeepsLock(w, code, s) ==
  LET c == req[w].client IN
  /\ lock' = IF code = "error" THEN lock ELSE None
  /\ pc' = [pc EXCEPT ![w] = "idle"]
  /\ req' = [req EXCEPT ![w] = NoRequest]
  /\ got' = [got EXCEPT ![w] = 0]
  /\ reply' = IF waits[c] = w
                THEN [reply EXCEPT ![c] = [code |-> code, rpc |-> req[w].rpc, session |-> s]]
                ELSE reply
  /\ UNCHANGED <<main, sess, chunk, waits>>

\* The end of a handler: its with-statement releases the lock whether it
\* returned or context.abort raised, and the response goes to the client if
\* it still waits for this call.
Respond(w, code, s) ==
  LET c == req[w].client IN
  /\ lock' = None
  /\ pc' = [pc EXCEPT ![w] = "idle"]
  /\ req' = [req EXCEPT ![w] = NoRequest]
  /\ got' = [got EXCEPT ![w] = 0]
  /\ reply' = IF waits[c] = w
                THEN [reply EXCEPT ![c] = [code |-> code, rpc |-> req[w].rpc, session |-> s]]
                ELSE reply
  /\ UNCHANGED <<main, sess, chunk, waits>>

\* Mutant: the output segment is closed but never unlinked.
CloseKeepsOutput ==
  /\ active' = None
  /\ shm' = shm \ {<<active, "in">>}
  /\ UNCHANGED spoilt

\* VfiSession.close, and reset() around it.  An exception skips the rest of
\* close() but is swallowed: the session is dropped all the same.
Close ==
  /\ active' = None
  /\ \/ shm' = shm \ Segs(active) /\ spoilt' = spoilt
     \/ /\ "close" \in Faults
        /\ \E kept \in {{<<active, "out">>}, Segs(active)} :
             shm' = shm \ (Segs(active) \ kept)
        /\ spoilt' = spoilt \cup {active}

\* Mutant: the metadata is checked after the preemption.
RejectCreateAfterReset(w) ==
  /\ pc[w] = "entry" /\ req[w].rpc = "create"
  /\ lock = None
  /\ IF active # None THEN Close ELSE UNCHANGED <<active, shm, spoilt>>
  /\ Respond(w, "error", None)
  /\ UNCHANGED <<minted, ran, memoryVars>>

\* CreateSession checks the metadata before it takes the lock.
RejectCreate(w) ==
  /\ pc[w] = "entry" /\ req[w].rpc = "create"
  /\ pc' = [pc EXCEPT ![w] = "idle"]
  /\ req' = [req EXCEPT ![w] = NoRequest]
  /\ LET c == req[w].client IN
     reply' = IF waits[c] = w
                THEN [reply EXCEPT ![c] = [code |-> "error", rpc |-> "create", session |-> None]]
                ELSE reply
  /\ UNCHANGED <<lock, active, minted, shm, ran, got, main, spoilt, memoryVars, sess, chunk, waits>>

\* Mutant: the handlers run without the lock.
AcquireUnlocked(w) ==
  /\ pc[w] = "entry"
  /\ lock' = w
  /\ pc' = [pc EXCEPT ![w] = "body"]
  /\ UNCHANGED <<active, minted, shm, ran, req, got, main, spoilt, memoryVars, clientVars>>

Acquire(w) ==
  /\ pc[w] = "entry"
  /\ lock = None
  /\ lock' = w
  /\ pc' = [pc EXCEPT ![w] = "body"]
  /\ UNCHANGED <<active, minted, shm, ran, req, got, main, spoilt, memoryVars, clientVars>>

\* self.reset() in CreateSession: the lock is taken again and kept.
Preempt(w) ==
  /\ pc[w] = "body" /\ req[w].rpc = "create"
  /\ active # None
  /\ Close
  /\ UNCHANGED <<lock, minted, ran, pc, req, got, main, memoryVars, clientVars>>

\* Mutant: the session in use is not preempted first.
CreateReaderNoPreemption(w) ==
  /\ pc[w] = "body" /\ req[w].rpc = "create"
  /\ minted' = minted + 1
  /\ shm' = shm \cup {<<minted + 1, "in">>}
  /\ req' = [req EXCEPT ![w].session = minted + 1]
  /\ pc' = [pc EXCEPT ![w] = "build"]
  /\ UNCHANGED <<lock, active, ran, got, main, spoilt, memoryVars, clientVars>>

\* session_id is drawn, and VfiSession creates its input segment.
CreateReader(w) ==
  /\ pc[w] = "body" /\ req[w].rpc = "create"
  /\ active = None
  /\ minted' = minted + 1
  /\ shm' = shm \cup {<<minted + 1, "in">>}
  /\ req' = [req EXCEPT ![w].session = minted + 1]
  /\ pc' = [pc EXCEPT ![w] = "build"]
  /\ UNCHANGED <<lock, active, ran, got, main, spoilt, memoryVars, clientVars>>

\* The output segment is created last; then the session is the active one.
CreateWriter(w) ==
  /\ pc[w] = "build"
  /\ shm' = shm \cup {<<req[w].session, "out">>}
  /\ active' = req[w].session
  /\ Respond(w, "ok", req[w].session)
  /\ UNCHANGED <<minted, ran, spoilt, memoryVars>>

\* VfiSession.__init__ raised, before or after it had an input segment.
\* _active_session was not assigned, and so the reset() of the except
\* branches has no session to close.
CreateFails(w) ==
  /\ "build" \in Faults
  /\ \/ /\ pc[w] = "body" /\ req[w].rpc = "create" /\ active = None
        /\ minted' = minted + 1
        /\ UNCHANGED spoilt
     \/ /\ pc[w] = "build"
        /\ spoilt' = spoilt \cup {req[w].session}
        /\ UNCHANGED minted
  /\ Respond(w, "error", None)
  /\ UNCHANGED <<active, shm, ran, memoryVars>>

\* The session the request names is not the active one.
NotFound(w) ==
  /\ pc[w] = "body" /\ req[w].rpc \in {"chunk", "destroy"}
  /\ active # req[w].session
  /\ Respond(w, "not_found", req[w].session)
  /\ UNCHANGED <<active, minted, shm, ran, spoilt, memoryVars>>

\* Mutant: the handler takes any session that is active.
ReadFramesOfAnySession(w) ==
  /\ pc[w] = "body" /\ req[w].rpc = "chunk"
  /\ active # None
  /\ got' = [got EXCEPT ![w] = frames[active]]
  /\ pc' = [pc EXCEPT ![w] = "model"]
  /\ UNCHANGED <<lock, active, minted, shm, ran, req, main, spoilt, memoryVars, clientVars>>

\* read_tensor returns a view of the segment, and the runner copies the
\* frames out of it (upsample_temporal) before it encodes them.
ReadFrames(w) ==
  /\ pc[w] = "body" /\ req[w].rpc = "chunk"
  /\ active = req[w].session
  /\ got' = [got EXCEPT ![w] = frames[active]]
  /\ pc' = [pc EXCEPT ![w] = "model"]
  /\ UNCHANGED <<lock, active, minted, shm, ran, req, main, spoilt, memoryVars, clientVars>>

\* The model ran and the latents of the session moved on.
RunModel(w) ==
  /\ pc[w] = "model"
  /\ ran' = [ran EXCEPT ![req[w].session] = @ + 1]
  /\ pc' = [pc EXCEPT ![w] = "write"]
  /\ UNCHANGED <<lock, active, minted, shm, req, got, main, spoilt, memoryVars, clientVars>>

\* Mutant: the response leaves before the result is written.
WriteResultMissing(w) ==
  /\ pc[w] = "write"
  /\ Respond(w, "ok", req[w].session)
  /\ UNCHANGED <<active, minted, shm, ran, spoilt, memoryVars>>

WriteResult(w) ==
  /\ pc[w] = "write"
  /\ result' = [result EXCEPT ![req[w].session] = got[w]]
  /\ Respond(w, "ok", req[w].session)
  /\ UNCHANGED <<active, minted, shm, ran, spoilt, frames>>

\* A frame count that is refused, out of memory, or any other exception of
\* the chunk: the session stays active.
ChunkFails(w) ==
  /\ "chunk" \in Faults
  /\ \/ pc[w] = "body" /\ req[w].rpc = "chunk" /\ active = req[w].session
     \/ pc[w] \in {"model", "write"}
  /\ Respond(w, "error", req[w].session)
  /\ UNCHANGED <<active, minted, shm, ran, spoilt, memoryVars>>

Destroy(w) ==
  /\ pc[w] = "body" /\ req[w].rpc = "destroy"
  /\ active = req[w].session
  /\ Close
  /\ Respond(w, "ok", active)
  /\ UNCHANGED <<minted, ran, memoryVars>>

\* What a worker does with the lock in its hands.
Handle(w) ==
  \/ Preempt(w) \/ CreateReader(w) \/ CreateWriter(w) \/ CreateFails(w)
  \/ NotFound(w) \/ Destroy(w)
  \/ ReadFrames(w) \/ RunModel(w) \/ WriteResult(w) \/ ChunkFails(w)

-----------------------------------------------------------------------------
(* The main thread.                                                        *)

\* SIGINT or SIGTERM sets stop_event.
Signal ==
  /\ main = "serving"
  /\ main' = "teardown"
  /\ UNCHANGED <<lock, active, minted, shm, ran, pc, req, got, spoilt, memoryVars, clientVars>>

\* servicer.reset(), which waits for the lock and has it throughout.
Reset ==
  /\ main = "teardown"
  /\ lock = None
  /\ IF active # None THEN Close ELSE UNCHANGED <<active, shm, spoilt>>
  /\ main' = "reset"
  /\ UNCHANGED <<lock, minted, ran, pc, req, got, memoryVars, clientVars>>

\* server.stop(): from here on calls are refused.
Stop ==
  /\ main = "reset"
  /\ main' = "draining"
  /\ UNCHANGED <<lock, active, minted, shm, ran, pc, req, got, spoilt, memoryVars, clientVars>>

\* wait() returns when the calls have ended, or with the grace period.
Stopped ==
  /\ main = "draining"
  /\ main' = "stopped"
  /\ UNCHANGED <<lock, active, minted, shm, ran, pc, req, got, spoilt, memoryVars, clientVars>>

\* Nothing is left to do: not a deadlock.
Ended ==
  /\ main = "stopped"
  /\ \A w \in Workers : pc[w] = "idle"
  /\ \A c \in Clients : waits[c] = None
  /\ UNCHANGED vars

-----------------------------------------------------------------------------
Next ==
  \/ \E c \in Clients, w \in Workers :
       CallCreate(c, w) \/ CallChunk(c, w) \/ CallDestroy(c, w)
  \/ \E c \in Clients : Timeout(c) \/ Receive(c)
  \/ \E w \in Workers : RejectCreate(w) \/ Acquire(w) \/ Handle(w)
  \/ Signal \/ Reset \/ Stop \/ Stopped \/ Ended

Spec == Init /\ [][Next]_vars

\* A handler that holds the lock goes on to its end: it waits for no other
\* thread, and its loops are bounded.
HandlersRun == \A w \in Workers : WF_vars(Handle(w))

\* The RLock is not fair, but no thread is assumed to lose it for ever.
LockIsLive ==
  /\ \A w \in Workers : SF_vars(Acquire(w))
  /\ SF_vars(Reset)

\* stop_event wakes the main thread, and the grace period passes.
MainRuns == WF_vars(Stop) /\ WF_vars(Stopped)

FairSpec == Spec /\ HandlersRun /\ LockIsLive /\ MainRuns

-----------------------------------------------------------------------------
Request ==
  [rpc : Rpc \cup {"none"}, client : Clients \cup {None},
   session : Session \cup {None}, chunk : 0 .. MaxChunks]
Response ==
  [code : {"ok", "error", "not_found"}, rpc : Rpc, session : Session \cup {None}]

ASSUME ResponseAssumption == None \notin Response

\* Type invariant.
TypeOK ==
  /\ lock \in Workers \cup {None}
  /\ active \in Session \cup {None}
  /\ minted \in 0 .. MaxSessions
  /\ shm \subseteq Segment
  /\ frames \in [Session -> 0 .. MaxChunks]
  /\ result \in [Session -> 0 .. MaxChunks]
  /\ ran \in [Session -> Nat]
  /\ pc \in [Workers -> {"idle", "entry", "body", "build", "model", "write"}]
  /\ req \in [Workers -> Request]
  /\ got \in [Workers -> 0 .. MaxChunks]
  /\ main \in {"serving", "teardown", "reset", "draining", "stopped"}
  /\ sess \in [Clients -> Session \cup {None}]
  /\ chunk \in [Clients -> 0 .. MaxChunks]
  /\ waits \in [Clients -> Workers \cup {None}]
  /\ reply \in [Clients -> Response \cup {None}]
  /\ spoilt \subseteq Session

\* A chunk is computed and written in the active session only, with both its
\* segments in place: no preemption, destruction or shutdown pulls a session
\* away from a worker that has looked it up.
WorkOnActive ==
  \A w \in Workers : pc[w] \in {"model", "write"} =>
    /\ active = req[w].session
    /\ Segs(active) \subseteq shm

\* Every segment in /dev/shm belongs to the active session, to the one being
\* built, or to one whose construction or closing raised: preemption,
\* failed calls and lost responses leak nothing.
SegmentsAccounted ==
  \A seg \in shm :
    \/ seg[1] = active
    \/ seg[1] \in spoilt
    \/ \E w \in Workers : pc[w] = "build" /\ req[w].session = seg[1]

\* The chunks of a session run once each, in the order their client staged
\* them, and each from its own frames, although calls that missed their
\* deadline still run and threads take the lock in any order.
ChunksInOrder ==
  \A w \in Workers : pc[w] = "model" =>
    /\ got[w] = req[w].chunk
    /\ ran[req[w].session] = got[w] - 1

\* The client that is told its chunk is done finds the result of that chunk
\* in the output segment of its session, until it takes the response up.
OwnResult ==
  \A c \in Clients :
    reply[c] # None /\ reply[c].code = "ok" /\ reply[c].rpc = "chunk" =>
      /\ reply[c].session = sess[c]
      /\ result[sess[c]] = chunk[c]

\* A session is reported unknown to the client that holds it only if it was
\* preempted, even if by a CreateSession that failed, or the daemon shuts down.
NotFoundMeansReplaced ==
  \A c \in Clients :
    reply[c] # None /\ reply[c].code = "not_found" =>
      minted > sess[c] \/ main \notin {"serving", "teardown"}

\* Who holds the lock, and what each stage of a handler knows.
Threads ==
  \A w \in Workers :
    /\ lock = w <=> pc[w] \notin {"idle", "entry"}
    /\ pc[w] = "idle" <=> req[w].rpc = "none"
    /\ req[w].rpc # "none" => req[w].client \in Clients
    /\ req[w].rpc \in {"chunk", "destroy"} => req[w].session \in 1 .. minted
    /\ req[w].rpc = "create" =>
         req[w].session = IF pc[w] = "build" THEN minted ELSE None
    /\ pc[w] = "build" => req[w].rpc = "create" /\ active = None /\ minted > 0
    /\ pc[w] \in {"model", "write"} =>
         req[w].rpc = "chunk" /\ active = req[w].session

\* The numbers in use have been drawn.
Numbered ==
  /\ active # None => active \in 1 .. minted
  /\ \A c \in Clients :
       /\ sess[c] # None => sess[c] \in 1 .. minted
       /\ reply[c] # None /\ reply[c].code = "ok" => reply[c].session \in 1 .. minted
  /\ minted + Cardinality(Unnumbered) <= MaxSessions

\* The segments of the session in use are linked, those of sessions to come
\* are not.
Linked ==
  /\ active # None => Segs(active) \subseteq shm
  /\ \A w \in Workers : pc[w] = "build" => <<minted, "in">> \in shm
  /\ \A seg \in shm : seg[1] <= minted

\* The inductive invariant behind WorkOnActive and SegmentsAccounted: the
\* stages of a handler, the session numbers and the linked segments fit
\* together whenever a thread may be interrupted.
ServiceInv == TypeOK /\ Threads /\ Numbered /\ Linked /\ SegmentsAccounted

\* The sessions that can no longer become active.
Retired == {s \in 1 .. minted : s # active /\ ~\E w \in Workers :
                                   pc[w] = "build" /\ req[w].session = s}

Registry == INSTANCE SessionRegistry WITH live <- active, retired <- Retired

\* The daemon keeps the promises of SessionRegistry.
RegistrySpec == Registry!Spec

\* The log of serve() at its end: "LDF-VFI daemon stopped cleanly."  No
\* session outlives the teardown.
StoppedClean ==
  main = "stopped" /\ (\A w \in Workers : pc[w] = "idle") => active = None

\* Every call that reaches a worker ends.
CallsEnd == \A w \in Workers : pc[w] = "entry" ~> pc[w] = "idle"

\* A signal stops the daemon, whatever its clients do.
ShutdownEnds == main = "teardown" ~> main = "stopped"
=============================================================================
