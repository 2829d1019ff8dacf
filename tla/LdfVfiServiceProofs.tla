------------------------ MODULE LdfVfiServiceProofs ------------------------
(***************************************************************************)
(* Proofs about the daemon, for any number of threads, clients, sessions   *)
(* and chunks, and any faults: first what the daemon keeps (locks, ids,    *)
(* segments), then that chunks run in order and from their own frames,     *)
(* that clients find their own results, and that the daemon implements     *)
(* SessionRegistry.                                                        *)
(***************************************************************************)
EXTENDS LdfVfiService, FiniteSetTheorems, TLAPS

\* Unnumbered is finite, and counting it gives a natural number.
LEMMA UnnumberedFinite ==
  /\ IsFiniteSet(Unnumbered)
  /\ Cardinality(Unnumbered) \in Nat
<1>1. Unnumbered \subseteq Workers
  BY DEF Unnumbered
<1>2. QED
  BY <1>1, ThreadAssumption, FS_Subset, FS_CardinalityType

\* The daemon starts with the invariant.
LEMMA InitInv == Init => ServiceInv
<1> SUFFICES ASSUME Init PROVE ServiceInv
  OBVIOUS
<1>1. TypeOK
  BY BoundAssumption DEF Init, TypeOK, Request, NoRequest, Rpc
<1>2. Threads /\ Linked /\ SegmentsAccounted
  BY ThreadAssumption DEF Init, Threads, Linked, SegmentsAccounted, NoRequest
<1>3. Unnumbered = {}
  BY DEF Unnumbered, Init, NoRequest
<1>4. Numbered
  BY <1>3, FS_EmptySet, BoundAssumption DEF Init, Numbered
<1>5. QED
  BY <1>1, <1>2, <1>4 DEF ServiceInv

\* A call fills in a request, and whatever it stages has its type.
LEMMA CallTypes ==
  ASSUME ServiceInv, NEW c \in Clients, NEW w \in Workers,
         NEW rpc \in Rpc, NEW s \in Session \cup {None}, NEW k \in 0 .. MaxChunks,
         Call(c, w, rpc, s, k),
         chunk' \in [Clients -> 0 .. MaxChunks], frames' \in [Session -> 0 .. MaxChunks]
  PROVE  TypeOK'
BY DEF ServiceInv, TypeOK, Call, Request

\* A call that names a session numbered before disturbs no handler and no segment.
LEMMA CallKeeps ==
  ASSUME ServiceInv, NEW c \in Clients, NEW w \in Workers,
         NEW rpc \in Rpc, NEW s \in Session \cup {None}, NEW k \in 0 .. MaxChunks,
         Call(c, w, rpc, s, k),
         rpc = "create" => s = None,
         rpc # "create" => s \in 1 .. minted
  PROVE  Threads' /\ Linked' /\ SegmentsAccounted'
<1>1. Threads'
  BY DEF ServiceInv, TypeOK, Call, Threads, Rpc
<1>2. Linked' /\ SegmentsAccounted'
  BY DEF ServiceInv, TypeOK, Call, Linked, SegmentsAccounted
<1>3. QED
  BY <1>1, <1>2

\* A step that numbers no session and lets no CreateSession in keeps the
\* budget of session numbers.
LEMMA BudgetKept ==
  ASSUME TypeOK, minted + Cardinality(Unnumbered) <= MaxSessions,
         Unnumbered' \subseteq Unnumbered, minted' = minted
  PROVE  minted' + Cardinality(Unnumbered') <= MaxSessions
<1>1. /\ Cardinality(Unnumbered') \in Nat
      /\ Cardinality(Unnumbered) \in Nat
      /\ Cardinality(Unnumbered') <= Cardinality(Unnumbered)
  BY UnnumberedFinite, FS_Subset, FS_CardinalityType
<1>2. QED
  BY <1>1, BoundAssumption DEF TypeOK

\* Numbering the session of an unnumbered CreateSession keeps the budget too.
LEMMA BudgetSpent ==
  ASSUME TypeOK, minted + Cardinality(Unnumbered) <= MaxSessions,
         NEW w \in Unnumbered, Unnumbered' \subseteq Unnumbered \ {w},
         minted' = minted + 1
  PROVE  minted' + Cardinality(Unnumbered') <= MaxSessions /\ minted' \in Session
<1>1. /\ IsFiniteSet(Unnumbered \ {w})
      /\ Cardinality(Unnumbered \ {w}) = Cardinality(Unnumbered) - 1
  BY UnnumberedFinite, FS_RemoveElement
<1>2. /\ Cardinality(Unnumbered') \in Nat
      /\ Cardinality(Unnumbered) \in Nat
      /\ Cardinality(Unnumbered') <= Cardinality(Unnumbered) - 1
  BY <1>1, UnnumberedFinite, FS_Subset, FS_CardinalityType
<1>3. minted \in Nat /\ MaxSessions \in Nat
  BY BoundAssumption DEF TypeOK
<1>4. (minted + 1) + Cardinality(Unnumbered') <= MaxSessions
  BY <1>2, <1>3
<1>5. minted + 1 \in Session
  BY <1>2, <1>3, <1>4 DEF Session
<1>6. QED
  BY <1>4, <1>5

\* A CreateSession call takes one of the numbers left.
LEMMA CallCreateKeeps ==
  ASSUME ServiceInv, NEW c \in Clients, NEW w \in Workers, CallCreate(c, w)
  PROVE  ServiceInv'
<1>1. TypeOK' /\ Threads' /\ Linked' /\ SegmentsAccounted'
  <2>1. Call(c, w, "create", None, 0)
    BY DEF CallCreate
  <2>2. /\ chunk' \in [Clients -> 0 .. MaxChunks]
        /\ frames' \in [Session -> 0 .. MaxChunks]
    BY DEF CallCreate, ServiceInv, TypeOK
  <2>3. 0 \in 0 .. MaxChunks
    BY BoundAssumption
  <2>4. QED
    BY <2>1, <2>2, <2>3, CallTypes, CallKeeps DEF Rpc
<1>2. /\ Unnumbered' = Unnumbered \cup {w}
      /\ w \notin Unnumbered
  BY ThreadAssumption DEF CallCreate, Call, Unnumbered, ServiceInv, Threads, TypeOK
<1>3. Cardinality(Unnumbered') = Cardinality(Unnumbered) + 1
  BY <1>2, UnnumberedFinite, FS_AddElement
<1>4. Numbered'
  BY <1>3, UnnumberedFinite, BoundAssumption DEF CallCreate, Call, Numbered, ServiceInv, TypeOK
<1>5. QED
  BY <1>1, <1>4 DEF ServiceInv

\* A step that leaves the numbers and the sessions alone.
LEMMA NumberedKept ==
  ASSUME TypeOK, Numbered,
         Unnumbered' \subseteq Unnumbered, minted' = minted,
         active' \in {active, None},
         \A c \in Clients : sess'[c] # None => sess'[c] \in 1 .. minted,
         \A c \in Clients :
           reply'[c] # None /\ reply'[c].code = "ok" => reply'[c].session \in 1 .. minted
  PROVE  Numbered'
BY BudgetKept DEF Numbered

\* An InterpolateChunk call names a session its client was given.
LEMMA CallChunkKeeps ==
  ASSUME ServiceInv, NEW c \in Clients, NEW w \in Workers, CallChunk(c, w)
  PROVE  ServiceInv'
<1>1. sess[c] \in 1 .. minted /\ sess[c] \in Session /\ chunk[c] + 1 \in 0 .. MaxChunks
  BY BoundAssumption DEF CallChunk, ServiceInv, Numbered, TypeOK
<1>2. TypeOK' /\ Threads' /\ Linked' /\ SegmentsAccounted'
  <2>1. Call(c, w, "chunk", sess[c], chunk[c] + 1)
    BY DEF CallChunk
  <2>2. /\ chunk' \in [Clients -> 0 .. MaxChunks]
        /\ frames' \in [Session -> 0 .. MaxChunks]
    BY <1>1 DEF CallChunk, ServiceInv, TypeOK
  <2>3. QED
    BY <1>1, <2>1, <2>2, CallTypes, CallKeeps DEF Rpc
<1>3. Unnumbered' \subseteq Unnumbered
  BY DEF CallChunk, Call, Unnumbered, ServiceInv, TypeOK
<1>4. Numbered'
  BY <1>3, NumberedKept DEF CallChunk, Call, ServiceInv, Numbered
<1>5. QED
  BY <1>2, <1>4 DEF ServiceInv

\* A DestroySession call names a session its client was given.
LEMMA CallDestroyKeeps ==
  ASSUME ServiceInv, NEW c \in Clients, NEW w \in Workers, CallDestroy(c, w)
  PROVE  ServiceInv'
<1>1. sess[c] \in 1 .. minted /\ sess[c] \in Session
  BY DEF CallDestroy, ServiceInv, Numbered, TypeOK
<1>2. TypeOK' /\ Threads' /\ Linked' /\ SegmentsAccounted'
  <2>1. Call(c, w, "destroy", sess[c], 0)
    BY DEF CallDestroy
  <2>2. /\ chunk' \in [Clients -> 0 .. MaxChunks]
        /\ frames' \in [Session -> 0 .. MaxChunks]
    BY DEF CallDestroy, ServiceInv, TypeOK
  <2>3. 0 \in 0 .. MaxChunks
    BY BoundAssumption
  <2>4. QED
    BY <1>1, <2>1, <2>2, <2>3, CallTypes, CallKeeps DEF Rpc
<1>3. Unnumbered' \subseteq Unnumbered
  BY DEF CallDestroy, Call, Unnumbered, ServiceInv, TypeOK
<1>4. Numbered'
  BY <1>3, NumberedKept DEF CallDestroy, Call, ServiceInv, Numbered
<1>5. QED
  BY <1>2, <1>4 DEF ServiceInv

\* A deadline changes nothing in the daemon.
LEMMA TimeoutKeeps ==
  ASSUME ServiceInv, NEW c \in Clients, Timeout(c)
  PROVE  ServiceInv'
<1> USE DEF Timeout, daemonVars, memoryVars
<1>1. TypeOK'
  BY BoundAssumption DEF ServiceInv, TypeOK, Request
<1>2. Threads' /\ Linked' /\ SegmentsAccounted'
  BY DEF ServiceInv, Threads, Linked, SegmentsAccounted
<1>3. Unnumbered' = Unnumbered
  BY DEF Unnumbered
<1>4. Numbered'
  BY <1>3, NumberedKept DEF ServiceInv, Numbered, TypeOK
<1>5. QED
  BY <1>1, <1>2, <1>4 DEF ServiceInv

\* A client takes up only sessions the daemon numbered.
LEMMA ReceiveKeeps ==
  ASSUME ServiceInv, NEW c \in Clients, Receive(c)
  PROVE  ServiceInv'
<1> USE DEF Receive, daemonVars, memoryVars
<1>1. TypeOK'
  BY BoundAssumption DEF ServiceInv, TypeOK, Request, Response
<1>2. Threads' /\ Linked' /\ SegmentsAccounted'
  BY DEF ServiceInv, Threads, Linked, SegmentsAccounted
<1>3. Unnumbered' = Unnumbered
  BY DEF Unnumbered
<1>4. Numbered'
  BY <1>3, NumberedKept DEF ServiceInv, Numbered, TypeOK
<1>5. QED
  BY <1>1, <1>2, <1>4 DEF ServiceInv

\* A request refused before the lock leaves no trace.
LEMMA RejectCreateKeeps ==
  ASSUME ServiceInv, NEW w \in Workers, RejectCreate(w)
  PROVE  ServiceInv'
<1>1. TypeOK'
  BY BoundAssumption DEF RejectCreate, memoryVars, ServiceInv, TypeOK, Threads, Request, Response, NoRequest, Rpc
<1>2. Threads'
  BY DEF RejectCreate, ServiceInv, TypeOK, Threads, NoRequest
<1>3. Linked' /\ SegmentsAccounted'
  BY DEF RejectCreate, ServiceInv, TypeOK, Linked, SegmentsAccounted
<1>4. Unnumbered' \subseteq Unnumbered
  BY DEF RejectCreate, ServiceInv, TypeOK, Unnumbered, NoRequest
<1>5. Numbered'
  <2>1. \A d \in Clients :
          reply'[d] # None /\ reply'[d].code = "ok" => reply'[d].session \in 1 .. minted
    BY DEF RejectCreate, ServiceInv, Numbered, TypeOK
  <2>2. QED
    BY <1>4, <2>1, NumberedKept DEF RejectCreate, ServiceInv, Numbered
<1>6. QED
  BY <1>1, <1>2, <1>3, <1>5 DEF ServiceInv

\* Taking the free lock makes its holder the only worker inside.
LEMMA AcquireKeeps ==
  ASSUME ServiceInv, NEW w \in Workers, Acquire(w)
  PROVE  ServiceInv'
<1> USE DEF Acquire, memoryVars, clientVars
<1>1. TypeOK'
  BY DEF ServiceInv, TypeOK
<1>2. Threads'
  BY ThreadAssumption DEF ServiceInv, TypeOK, Threads
<1>3. Linked' /\ SegmentsAccounted'
  BY DEF ServiceInv, TypeOK, Linked, SegmentsAccounted
<1>4. Unnumbered' = Unnumbered
  BY DEF Unnumbered
<1>5. Numbered'
  BY <1>4, NumberedKept DEF ServiceInv, Numbered
<1>6. QED
  BY <1>1, <1>2, <1>3, <1>5 DEF ServiceInv

\* Between Acquire and Respond a worker is alone with the session.
LEMMA OneInside ==
  ASSUME ServiceInv, NEW w \in Workers, pc[w] \notin {"idle", "entry"}
  PROVE  lock = w /\ \A v \in Workers \ {w} : pc[v] \in {"idle", "entry"}
BY DEF ServiceInv, Threads

\* Respond ends the handler and keeps the invariant on the threads, whatever
\* the handler did to the session before.
LEMMA RespondKeeps ==
  ASSUME ServiceInv, NEW w \in Workers, pc[w] \notin {"idle", "entry"},
         NEW code \in {"ok", "error", "not_found"}, NEW s \in Session \cup {None},
         Respond(w, code, s),
         minted' \in {minted, minted + 1}
  PROVE  /\ lock' \in Workers \cup {None}
         /\ pc' \in [Workers -> {"idle", "entry", "body", "build", "model", "write"}]
         /\ req' \in [Workers -> Request]
         /\ got' \in [Workers -> 0 .. MaxChunks]
         /\ reply' \in [Clients -> Response \cup {None}]
         /\ \A v \in Workers : pc'[v] \in {"idle", "entry"}
         /\ Unnumbered' \subseteq Unnumbered \ {w}
         /\ Threads'
<1>1. lock = w /\ \A v \in Workers \ {w} : pc[v] \in {"idle", "entry"}
  BY OneInside
<1>2. NoRequest \in Request
  BY BoundAssumption DEF NoRequest, Request
<1>3. /\ lock' = None
      /\ pc' = [pc EXCEPT ![w] = "idle"]
      /\ req' = [req EXCEPT ![w] = NoRequest]
      /\ got' = [got EXCEPT ![w] = 0]
  BY DEF Respond
<1>4. /\ lock' \in Workers \cup {None}
      /\ pc' \in [Workers -> {"idle", "entry", "body", "build", "model", "write"}]
      /\ req' \in [Workers -> Request]
      /\ got' \in [Workers -> 0 .. MaxChunks]
  BY <1>2, <1>3, BoundAssumption DEF ServiceInv, TypeOK
<1>5. reply' \in [Clients -> Response \cup {None}]
  <2>1. req[w].rpc \in Rpc
    BY DEF ServiceInv, TypeOK, Threads, Request
  <2>2. [code |-> code, rpc |-> req[w].rpc, session |-> s] \in Response
    BY <2>1 DEF Response
  <2>3. QED
    BY <2>2 DEF Respond, ServiceInv, TypeOK
<1>6. \A v \in Workers : pc'[v] \in {"idle", "entry"}
  BY <1>1, <1>3 DEF ServiceInv, TypeOK
<1>7. Unnumbered' \subseteq Unnumbered \ {w}
  BY <1>3 DEF Unnumbered, ServiceInv, TypeOK, NoRequest
<1>8. Threads'
  <2> SUFFICES ASSUME NEW v \in Workers
               PROVE  /\ (lock = v <=> pc[v] \notin {"idle", "entry"})'
                      /\ (pc[v] = "idle" <=> req[v].rpc = "none")'
                      /\ (req[v].rpc # "none" => req[v].client \in Clients)'
                      /\ (req[v].rpc \in {"chunk", "destroy"} =>
                            req[v].session \in 1 .. minted)'
                      /\ (req[v].rpc = "create" =>
                            req[v].session = IF pc[v] = "build" THEN minted ELSE None)'
    BY <1>6 DEF Threads
  <2>1. CASE v = w
    BY <1>3, <2>1, ThreadAssumption DEF ServiceInv, TypeOK, NoRequest
  <2>2. CASE v # w
    <3>1. pc'[v] = pc[v] /\ req'[v] = req[v] /\ pc[v] \in {"idle", "entry"}
      BY <1>1, <1>3, <2>2 DEF ServiceInv, TypeOK
    <3>2. lock' # v
      BY <1>3, ThreadAssumption
    <3>3. minted \in Nat /\ minted' \in Nat /\ minted <= minted'
      BY BoundAssumption DEF ServiceInv, TypeOK
    <3>4. QED
      BY <3>1, <3>2, <3>3 DEF ServiceInv, Threads
  <2>3. QED
    BY <2>1, <2>2
<1>9. QED
  BY <1>4, <1>5, <1>6, <1>7, <1>8

\* The client that gets the response gets one about a session in use.
LEMMA RespondNumbered ==
  ASSUME ServiceInv, NEW w \in Workers,
         NEW code, NEW s, Respond(w, code, s),
         minted' \in {minted, minted + 1},
         code = "ok" => s \in 1 .. minted'
  PROVE  \A c \in Clients :
           /\ sess'[c] # None => sess'[c] \in 1 .. minted'
           /\ reply'[c] # None /\ reply'[c].code = "ok" => reply'[c].session \in 1 .. minted'
<1>1. minted \in Nat /\ minted' \in Nat /\ minted <= minted'
  BY BoundAssumption DEF ServiceInv, TypeOK
<1>2. SUFFICES ASSUME NEW c \in Clients
               PROVE  /\ sess'[c] # None => sess'[c] \in 1 .. minted'
                      /\ reply'[c] # None /\ reply'[c].code = "ok" =>
                           reply'[c].session \in 1 .. minted'
  OBVIOUS
<1>3. sess'[c] # None => sess'[c] \in 1 .. minted'
  BY <1>1 DEF Respond, ServiceInv, Numbered
<1>4. reply'[c] = reply[c]
        \/ reply'[c] = [code |-> code, rpc |-> req[w].rpc, session |-> s]
  BY DEF Respond, ServiceInv, TypeOK
<1>5. QED
  BY <1>1, <1>3, <1>4 DEF ServiceInv, Numbered

\* close() and reset() unlink segments of the session in use only, and what
\* they fail to unlink is accounted to that session.
LEMMA CloseKeeps ==
  ASSUME ServiceInv, active # None, Close,
         \A w \in Workers : pc[w] # "build", minted' = minted
  PROVE  /\ active' = None
         /\ shm' \subseteq shm
         /\ shm' \subseteq Segment
         /\ spoilt' \subseteq Session
         /\ Linked' <=> \A w \in Workers : pc'[w] = "build" => <<minted, "in">> \in shm'
         /\ SegmentsAccounted'
<1>1. active' = None /\ shm' \subseteq shm /\ spoilt \subseteq spoilt'
  BY DEF Close
<1>2. shm' \subseteq Segment /\ spoilt' \subseteq Session
  BY <1>1 DEF Close, ServiceInv, TypeOK
<1>3. \A seg \in shm' : seg[1] \in spoilt'
  <2> SUFFICES ASSUME NEW seg \in shm' PROVE seg[1] \in spoilt'
    OBVIOUS
  <2>1. seg \in shm /\ seg \in Session \X {"in", "out"}
    BY <1>1, <1>2 DEF Segment
  <2>2. CASE seg[1] # active
    BY <1>1, <2>1, <2>2 DEF ServiceInv, SegmentsAccounted
  <2>3. CASE seg[1] = active
    <3>1. seg \in Segs(active)
      BY <2>1, <2>3 DEF Segs
    <3>2. QED
      BY <2>3, <3>1 DEF Close
  <2>4. QED
    BY <2>2, <2>3
<1>4. SegmentsAccounted'
  BY <1>3 DEF SegmentsAccounted
<1>5. Linked' <=> \A w \in Workers : pc'[w] = "build" => <<minted, "in">> \in shm'
  BY <1>1 DEF ServiceInv, Linked
<1>6. QED
  BY <1>1, <1>2, <1>4, <1>5

\* Preemption closes the session before the new one is numbered.
LEMMA PreemptKeeps ==
  ASSUME ServiceInv, NEW w \in Workers, Preempt(w)
  PROVE  ServiceInv'
<1> USE DEF Preempt, memoryVars, clientVars
<1>1. \A v \in Workers : pc[v] # "build"
  BY OneInside DEF ServiceInv, TypeOK
<1>2. /\ active' = None
      /\ shm' \subseteq Segment
      /\ spoilt' \subseteq Session
      /\ Linked'
      /\ SegmentsAccounted'
  BY <1>1, CloseKeeps
<1>3. TypeOK'
  BY <1>2 DEF ServiceInv, TypeOK
<1>4. Threads'
  <2>1. \A v \in Workers : pc[v] \notin {"model", "write"}
    BY OneInside DEF ServiceInv, TypeOK
  <2>2. QED
    BY <1>1, <1>2, <2>1 DEF ServiceInv, Threads
<1>5. Unnumbered' = Unnumbered
  BY DEF Unnumbered
<1>6. Numbered'
  BY <1>2, <1>5, NumberedKept DEF ServiceInv, Numbered
<1>7. QED
  BY <1>2, <1>3, <1>4, <1>6 DEF ServiceInv

\* The session is numbered and its input segment linked, with no session in
\* use: the segment is accounted to the worker that builds.
LEMMA CreateReaderKeeps ==
  ASSUME ServiceInv, NEW w \in Workers, CreateReader(w)
  PROVE  ServiceInv'
<1> USE DEF CreateReader, memoryVars, clientVars
<1>1. /\ lock = w
      /\ \A v \in Workers \ {w} : pc[v] \in {"idle", "entry"}
  BY OneInside
<1>2. w \in Unnumbered
  BY DEF ServiceInv, Threads, Unnumbered
<1>3. minted \in Nat /\ minted + 1 # None
  BY NoneAssumption DEF ServiceInv, TypeOK
<1>4. Unnumbered' \subseteq Unnumbered \ {w}
  BY <1>3 DEF ServiceInv, TypeOK, Request, Unnumbered
<1>5. minted' + Cardinality(Unnumbered') <= MaxSessions /\ minted' \in Session
  BY <1>2, <1>4, BudgetSpent DEF ServiceInv, Numbered
<1>6. TypeOK'
  <2>1. minted' \in 0 .. MaxSessions
    BY <1>5, BoundAssumption DEF Session
  <2>2. <<minted + 1, "in">> \in Segment
    BY <1>5 DEF Segment
  <2>3. req' \in [Workers -> Request]
    BY <1>5 DEF ServiceInv, TypeOK, Request
  <2>4. QED
    BY <2>1, <2>2, <2>3 DEF ServiceInv, TypeOK
<1>7. Threads'
  <2> SUFFICES ASSUME NEW v \in Workers
               PROVE  /\ (lock = v <=> pc[v] \notin {"idle", "entry"})'
                      /\ (pc[v] = "idle" <=> req[v].rpc = "none")'
                      /\ (req[v].rpc # "none" => req[v].client \in Clients)'
                      /\ (req[v].rpc \in {"chunk", "destroy"} =>
                            req[v].session \in 1 .. minted)'
                      /\ (req[v].rpc = "create" =>
                            req[v].session = IF pc[v] = "build" THEN minted ELSE None)'
                      /\ (pc[v] = "build" =>
                            req[v].rpc = "create" /\ active = None /\ minted > 0)'
                      /\ (pc[v] \in {"model", "write"} =>
                            req[v].rpc = "chunk" /\ active = req[v].session)'
    BY DEF Threads
  <2>1. CASE v = w
    BY <1>1, <1>3, <2>1 DEF ServiceInv, TypeOK, Threads, Request
  <2>2. CASE v # w
    BY <1>1, <1>3, <2>2 DEF ServiceInv, TypeOK, Threads
  <2>3. QED
    BY <2>1, <2>2
<1>8. Numbered'
  BY <1>3, <1>5 DEF ServiceInv, Numbered
<1>9. Linked'
  BY <1>3 DEF ServiceInv, TypeOK, Linked, Segment, Session
<1>10. SegmentsAccounted'
  <2>1. pc'[w] = "build" /\ req'[w].session = minted + 1
    BY DEF ServiceInv, TypeOK, Request
  <2>2. \A v \in Workers : pc[v] # "build"
    BY <1>1
  <2>3. QED
    BY <2>1, <2>2 DEF ServiceInv, SegmentsAccounted
<1>11. QED
  BY <1>6, <1>7, <1>8, <1>9, <1>10 DEF ServiceInv

\* With its output segment the session is complete and becomes the active one.
LEMMA CreateWriterKeeps ==
  ASSUME ServiceInv, NEW w \in Workers, CreateWriter(w)
  PROVE  ServiceInv'
<1>1. /\ req[w].session = minted
      /\ minted \in Session
      /\ minted \in 1 .. minted
      /\ <<minted, "in">> \in shm
  <2>1. minted \in Nat /\ minted <= MaxSessions /\ MaxSessions \in Nat
    BY BoundAssumption DEF ServiceInv, TypeOK
  <2>2. req[w].rpc = "create" /\ req[w].session = minted /\ minted > 0
    BY DEF CreateWriter, ServiceInv, Threads
  <2>3. <<minted, "in">> \in shm
    BY DEF CreateWriter, ServiceInv, Linked
  <2>4. QED
    BY <2>1, <2>2, <2>3 DEF Session
<1>2. /\ active' = minted
      /\ shm' = shm \cup {<<minted, "out">>}
      /\ Respond(w, "ok", minted)
      /\ minted' = minted
      /\ UNCHANGED <<ran, spoilt, frames, result>>
  BY <1>1 DEF CreateWriter, memoryVars
<1>3. /\ lock' \in Workers \cup {None}
      /\ pc' \in [Workers -> {"idle", "entry", "body", "build", "model", "write"}]
      /\ req' \in [Workers -> Request]
      /\ got' \in [Workers -> 0 .. MaxChunks]
      /\ reply' \in [Clients -> Response \cup {None}]
      /\ \A v \in Workers : pc'[v] \in {"idle", "entry"}
      /\ Unnumbered' \subseteq Unnumbered \ {w}
      /\ Threads'
  BY <1>1, <1>2, RespondKeeps DEF CreateWriter
<1>4. TypeOK'
  <2>1. <<minted, "out">> \in Segment
    BY <1>1 DEF Segment
  <2>2. QED
    BY <1>1, <1>2, <1>3, <2>1 DEF ServiceInv, TypeOK, Respond
<1>5. Numbered'
  <2>1. minted' + Cardinality(Unnumbered') <= MaxSessions
    BY <1>2, <1>3, BudgetKept DEF ServiceInv, Numbered
  <2>2. QED
    BY <1>1, <1>2, <2>1, RespondNumbered DEF Numbered
<1>6. Linked'
  <2>1. minted \in Nat
    BY DEF ServiceInv, TypeOK
  <2>2. QED
    BY <1>1, <1>2, <1>3, <2>1 DEF ServiceInv, Linked, Segs
<1>7. SegmentsAccounted'
  <2>1. \A v \in Workers : pc[v] = "build" => req[v].session = minted
    BY DEF ServiceInv, Threads
  <2>2. active = None
    BY DEF CreateWriter, ServiceInv, Threads
  <2>3. \A seg \in shm : seg[1] # None
    BY NoneAssumption DEF ServiceInv, TypeOK, Segment, Session
  <2>4. QED
    BY <1>2, <2>1, <2>2, <2>3 DEF ServiceInv, SegmentsAccounted
<1>8. QED
  BY <1>3, <1>4, <1>5, <1>6, <1>7 DEF ServiceInv

\* A construction that raised leaves the daemon without a session, and its
\* input segment, if it has one, to that session.
LEMMA CreateFailsKeeps ==
  ASSUME ServiceInv, NEW w \in Workers, CreateFails(w)
  PROVE  ServiceInv'
<1>1. /\ pc[w] \in {"body", "build"}
      /\ req[w].rpc = "create"
      /\ active = None
      /\ Respond(w, "error", None)
      /\ UNCHANGED <<active, shm, ran, frames, result>>
  BY DEF CreateFails, memoryVars, ServiceInv, Threads
<1>2. minted \in Nat /\ minted' \in {minted, minted + 1}
  BY DEF CreateFails, ServiceInv, TypeOK
<1>3. /\ lock' \in Workers \cup {None}
      /\ pc' \in [Workers -> {"idle", "entry", "body", "build", "model", "write"}]
      /\ req' \in [Workers -> Request]
      /\ got' \in [Workers -> 0 .. MaxChunks]
      /\ reply' \in [Clients -> Response \cup {None}]
      /\ \A v \in Workers : pc'[v] \in {"idle", "entry"}
      /\ Unnumbered' \subseteq Unnumbered \ {w}
      /\ Threads'
  BY <1>1, <1>2, RespondKeeps
<1>4. minted' + Cardinality(Unnumbered') <= MaxSessions /\ minted' \in 0 .. MaxSessions
  <2>1. CASE minted' = minted
    BY <1>3, <2>1, BudgetKept DEF ServiceInv, TypeOK, Numbered
  <2>2. CASE minted' = minted + 1
    <3>1. w \in Unnumbered
      <4>1. pc[w] = "body"
        BY <1>2, <2>2 DEF CreateFails
      <4>2. QED
        BY <1>1, <4>1 DEF ServiceInv, Threads, Unnumbered
    <3>2. minted' + Cardinality(Unnumbered') <= MaxSessions /\ minted' \in Session
      BY <1>3, <2>2, <3>1, BudgetSpent DEF ServiceInv, Numbered
    <3>3. QED
      BY <3>2, BoundAssumption DEF Session
  <2>3. QED
    BY <1>2, <2>1, <2>2
<1>5. TypeOK'
  <2>1. pc[w] = "build" => req[w].session \in Session
    BY NoneAssumption, BoundAssumption DEF ServiceInv, TypeOK, Threads, Session
  <2>2. spoilt' \subseteq Session
    BY <2>1 DEF CreateFails, ServiceInv, TypeOK
  <2>3. QED
    BY <1>1, <1>3, <1>4, <2>2 DEF ServiceInv, TypeOK, Respond
<1>6. Numbered'
  BY <1>1, <1>2, <1>4, RespondNumbered DEF Numbered
<1>7. Linked'
  <2>1. ASSUME NEW seg \in shm PROVE seg[1] <= minted'
    <3>1. seg[1] \in Nat /\ seg[1] <= minted
      BY DEF ServiceInv, TypeOK, Linked, Segment, Session
    <3>2. QED
      BY <1>2, <3>1
  <2>2. QED
    BY <1>1, <1>3, <2>1 DEF Linked
<1>8. SegmentsAccounted'
  <2> SUFFICES ASSUME NEW seg \in shm PROVE seg[1] \in spoilt'
    BY <1>1 DEF SegmentsAccounted
  <2>1. \A v \in Workers : pc[v] = "build" => v = w
    BY OneInside, <1>1
  <2>2. seg[1] # None
    BY NoneAssumption DEF ServiceInv, TypeOK, Segment, Session
  <2>3. QED
    BY <1>1, <2>1, <2>2 DEF CreateFails, ServiceInv, SegmentsAccounted
<1>9. QED
  BY <1>3, <1>5, <1>6, <1>7, <1>8 DEF ServiceInv

\* A response that ends a handler which changed neither the session nor its
\* segments.
LEMMA PlainRespondKeeps ==
  ASSUME ServiceInv, NEW w \in Workers, pc[w] \in {"body", "model", "write"},
         req[w].rpc \in {"chunk", "destroy"},
         NEW code \in {"ok", "error", "not_found"},
         Respond(w, code, req[w].session),
         UNCHANGED <<active, minted, shm, spoilt, ran, frames>>,
         result' \in [Session -> 0 .. MaxChunks]
  PROVE  ServiceInv'
<1>1. req[w].session \in 1 .. minted /\ req[w].session \in Session \cup {None}
  BY DEF ServiceInv, TypeOK, Threads, Request
<1>2. /\ lock' \in Workers \cup {None}
      /\ pc' \in [Workers -> {"idle", "entry", "body", "build", "model", "write"}]
      /\ req' \in [Workers -> Request]
      /\ got' \in [Workers -> 0 .. MaxChunks]
      /\ reply' \in [Clients -> Response \cup {None}]
      /\ \A v \in Workers : pc'[v] \in {"idle", "entry"}
      /\ Unnumbered' \subseteq Unnumbered \ {w}
      /\ Threads'
  BY <1>1, RespondKeeps
<1>3. TypeOK'
  BY <1>2 DEF ServiceInv, TypeOK, Respond
<1>4. Numbered'
  BY <1>1, <1>2, BudgetKept, RespondNumbered DEF ServiceInv, Numbered
<1>5. Linked'
  BY <1>2 DEF ServiceInv, Linked
<1>6. SegmentsAccounted'
  <2>1. \A v \in Workers : pc[v] # "build"
    BY OneInside
  <2>2. QED
    BY <2>1 DEF ServiceInv, SegmentsAccounted
<1>7. QED
  BY <1>2, <1>3, <1>4, <1>5, <1>6 DEF ServiceInv

\* A request for a session that is not active changes nothing.
LEMMA NotFoundKeeps ==
  ASSUME ServiceInv, NEW w \in Workers, NotFound(w)
  PROVE  ServiceInv'
<1>1. result' \in [Session -> 0 .. MaxChunks]
  BY DEF NotFound, memoryVars, ServiceInv, TypeOK
<1>2. QED
  BY <1>1, PlainRespondKeeps DEF NotFound, memoryVars

\* A chunk that fails leaves the session active and its segments linked.
LEMMA ChunkFailsKeeps ==
  ASSUME ServiceInv, NEW w \in Workers, ChunkFails(w)
  PROVE  ServiceInv'
<1>1. result' \in [Session -> 0 .. MaxChunks]
  BY DEF ChunkFails, memoryVars, ServiceInv, TypeOK
<1>2. req[w].rpc = "chunk" /\ pc[w] \in {"body", "model", "write"}
  BY DEF ChunkFails, ServiceInv, Threads
<1>3. QED
  BY <1>1, <1>2, PlainRespondKeeps DEF ChunkFails, memoryVars

\* A result that is written changes the output segment only.
LEMMA WriteResultKeeps ==
  ASSUME ServiceInv, NEW w \in Workers, WriteResult(w)
  PROVE  ServiceInv'
<1>1. result' \in [Session -> 0 .. MaxChunks]
  BY DEF WriteResult, ServiceInv, TypeOK
<1>2. req[w].rpc = "chunk"
  BY DEF WriteResult, ServiceInv, Threads
<1>3. QED
  BY <1>1, <1>2, PlainRespondKeeps DEF WriteResult

\* Reading the frames and running the model move one worker on, inside the
\* lock and with the session it looked up.
LEMMA ReadFramesKeeps ==
  ASSUME ServiceInv, NEW w \in Workers, ReadFrames(w)
  PROVE  ServiceInv'
<1> USE DEF ReadFrames, memoryVars, clientVars
<1>1. TypeOK'
  <2>1. active \in Session
    BY NoneAssumption, ThreadAssumption DEF ServiceInv, TypeOK, Threads, Numbered, Session
  <2>2. QED
    BY <2>1 DEF ServiceInv, TypeOK
<1>2. Threads'
  BY OneInside DEF ServiceInv, TypeOK, Threads
<1>3. Linked' /\ SegmentsAccounted'
  BY DEF ServiceInv, TypeOK, Linked, SegmentsAccounted
<1>4. Unnumbered' = Unnumbered
  BY DEF Unnumbered
<1>5. Numbered'
  BY <1>4, NumberedKept DEF ServiceInv, Numbered
<1>6. QED
  BY <1>1, <1>2, <1>3, <1>5 DEF ServiceInv

\* The chunk is counted for the session of the request.
LEMMA RunModelKeeps ==
  ASSUME ServiceInv, NEW w \in Workers, RunModel(w)
  PROVE  ServiceInv'
<1> USE DEF RunModel, memoryVars, clientVars
<1>1. TypeOK'
  <2>1. ran' \in [Session -> Nat]
    <3>1. ran \in [Session -> Nat]
      BY DEF ServiceInv, TypeOK
    <3>2. ran' = [ran EXCEPT ![req[w].session] = ran[req[w].session] + 1]
      OBVIOUS
    <3>3. req[w].session \in Session
      <4>1. req[w].session \in 1 .. minted
        BY DEF ServiceInv, Threads
      <4>2. minted \in Nat /\ minted <= MaxSessions
        BY BoundAssumption DEF ServiceInv, TypeOK
      <4>3. QED
        BY <4>1, <4>2, BoundAssumption DEF Session
    <3>4. ran[req[w].session] + 1 \in Nat
      BY <3>1, <3>3
    <3>5. QED
      BY <3>1, <3>2, <3>3, <3>4
  <2>2. pc' \in [Workers -> {"idle", "entry", "body", "build", "model", "write"}]
    BY DEF ServiceInv, TypeOK
  <2>3. QED
    BY <2>1, <2>2 DEF ServiceInv, TypeOK
<1>2. Threads'
  BY OneInside DEF ServiceInv, TypeOK, Threads
<1>3. Linked' /\ SegmentsAccounted'
  BY DEF ServiceInv, TypeOK, Linked, SegmentsAccounted
<1>4. Unnumbered' = Unnumbered
  BY DEF Unnumbered
<1>5. Numbered'
  BY <1>4, NumberedKept DEF ServiceInv, Numbered
<1>6. QED
  BY <1>1, <1>2, <1>3, <1>5 DEF ServiceInv

\* DestroySession closes the session it names, while it is alone inside.
LEMMA DestroyKeeps ==
  ASSUME ServiceInv, NEW w \in Workers, Destroy(w)
  PROVE  ServiceInv'
<1>1. /\ pc[w] = "body" /\ req[w].rpc = "destroy"
      /\ active = req[w].session
      /\ active \in 1 .. minted
      /\ active \in Session \cup {None}
      /\ active # None
      /\ Respond(w, "ok", active)
      /\ Close
      /\ UNCHANGED <<minted, ran, frames, result>>
  BY NoneAssumption DEF Destroy, memoryVars, ServiceInv, TypeOK, Threads
<1>2. \A v \in Workers : pc[v] # "build"
  BY <1>1, OneInside
<1>3. /\ lock' \in Workers \cup {None}
      /\ pc' \in [Workers -> {"idle", "entry", "body", "build", "model", "write"}]
      /\ req' \in [Workers -> Request]
      /\ got' \in [Workers -> 0 .. MaxChunks]
      /\ reply' \in [Clients -> Response \cup {None}]
      /\ \A v \in Workers : pc'[v] \in {"idle", "entry"}
      /\ Unnumbered' \subseteq Unnumbered \ {w}
      /\ Threads'
  BY <1>1, RespondKeeps
<1>4. /\ active' = None
      /\ shm' \subseteq Segment
      /\ spoilt' \subseteq Session
      /\ Linked'
      /\ SegmentsAccounted'
  BY <1>1, <1>2, <1>3, CloseKeeps
<1>5. TypeOK'
  BY <1>1, <1>3, <1>4 DEF ServiceInv, TypeOK, Respond
<1>6. Numbered'
  BY <1>1, <1>3, <1>4, BudgetKept, RespondNumbered DEF ServiceInv, Numbered
<1>7. QED
  BY <1>3, <1>4, <1>5, <1>6 DEF ServiceInv

\* reset() at shutdown takes the lock: no worker is inside.
LEMMA ResetKeeps ==
  ASSUME ServiceInv, Reset
  PROVE  ServiceInv'
<1> USE DEF Reset, memoryVars, clientVars
<1>1. \A v \in Workers : pc[v] \in {"idle", "entry"}
  BY ThreadAssumption DEF ServiceInv, TypeOK, Threads
<1>2. /\ active' \in {active, None}
      /\ shm' \subseteq Segment
      /\ spoilt' \subseteq Session
      /\ Linked'
      /\ SegmentsAccounted'
  <2>1. CASE active # None
    BY <1>1, <2>1, CloseKeeps
  <2>2. CASE active = None
    BY <1>1, <2>2 DEF ServiceInv, TypeOK, Linked, SegmentsAccounted
  <2>3. QED
    BY <2>1, <2>2
<1>3. TypeOK'
  BY <1>2 DEF ServiceInv, TypeOK
<1>4. Threads'
  BY <1>1 DEF ServiceInv, Threads
<1>5. Unnumbered' = Unnumbered
  BY DEF Unnumbered
<1>6. Numbered'
  BY <1>2, <1>5, NumberedKept DEF ServiceInv, Numbered
<1>7. QED
  BY <1>2, <1>3, <1>4, <1>6 DEF ServiceInv

\* The other steps of the main thread touch no session, nor does stuttering.
LEMMA MainKeeps ==
  ASSUME ServiceInv, Signal \/ Stop \/ Stopped \/ UNCHANGED vars
  PROVE  ServiceInv'
<1>1. /\ UNCHANGED <<lock, active, minted, shm, ran, pc, req, got, spoilt>>
      /\ UNCHANGED <<frames, result, sess, chunk, waits, reply>>
      /\ main' \in {"serving", "teardown", "reset", "draining", "stopped"}
  BY DEF Signal, Stop, Stopped, vars, daemonVars, memoryVars, clientVars, ServiceInv, TypeOK
<1>2. Unnumbered' = Unnumbered
  BY <1>1 DEF Unnumbered
<1>3. QED
  BY <1>1, <1>2 DEF ServiceInv, TypeOK, Threads, Numbered, Linked, SegmentsAccounted

\* Every step of a handler keeps the invariant.
LEMMA HandleKeeps ==
  ASSUME ServiceInv, NEW w \in Workers, Handle(w)
  PROVE  ServiceInv'
BY PreemptKeeps, CreateReaderKeeps, CreateWriterKeeps, CreateFailsKeeps, NotFoundKeeps,
   DestroyKeeps, ReadFramesKeeps, RunModelKeeps, WriteResultKeeps, ChunkFailsKeeps
   DEF Handle

\* ServiceInv is inductive.
LEMMA NextInv == ServiceInv /\ [Next]_vars => ServiceInv'
<1> SUFFICES ASSUME ServiceInv, [Next]_vars PROVE ServiceInv'
  OBVIOUS
<1>1. ASSUME NEW c \in Clients, NEW w \in Workers,
             CallCreate(c, w) \/ CallChunk(c, w) \/ CallDestroy(c, w)
      PROVE  ServiceInv'
  BY <1>1, CallCreateKeeps, CallChunkKeeps, CallDestroyKeeps
<1>2. ASSUME NEW c \in Clients, Timeout(c) \/ Receive(c)
      PROVE  ServiceInv'
  BY <1>2, TimeoutKeeps, ReceiveKeeps
<1>3. ASSUME NEW w \in Workers, RejectCreate(w) \/ Acquire(w) \/ Handle(w)
      PROVE  ServiceInv'
  BY <1>3, RejectCreateKeeps, AcquireKeeps, HandleKeeps
<1>4. ASSUME Signal \/ Reset \/ Stop \/ Stopped \/ Ended \/ UNCHANGED vars
      PROVE  ServiceInv'
  BY <1>4, MainKeeps, ResetKeeps DEF Ended
<1>5. QED
  BY <1>1, <1>2, <1>3, <1>4 DEF Next

\* In every execution the stages of the handlers, the session numbers and the
\* segments in /dev/shm fit together (service.py, session.py, shm.py).
THEOREM ServiceInvariant == Spec => []ServiceInv
BY InitInv, NextInv, PTL DEF Spec

\* The type invariant is part of it.
THEOREM ServiceTypes == Spec => []TypeOK
<1>1. ServiceInv => TypeOK
  BY DEF ServiceInv
<1>2. QED
  BY <1>1, ServiceInvariant, PTL

\* No preemption, destruction or shutdown pulls the session away from under
\* a worker that computes in it, with any number of workers and clients.
THEOREM ChunksRunInActiveSession == Spec => []WorkOnActive
<1>1. ServiceInv => WorkOnActive
  <2> SUFFICES ASSUME ServiceInv, NEW w \in Workers, pc[w] \in {"model", "write"}
               PROVE  active = req[w].session /\ Segs(active) \subseteq shm
    BY DEF WorkOnActive
  <2>1. active = req[w].session /\ req[w].session \in 1 .. minted
    BY DEF ServiceInv, Threads
  <2>2. active # None
    BY <2>1, NoneAssumption DEF ServiceInv, TypeOK
  <2>3. QED
    BY <2>1, <2>2 DEF ServiceInv, Linked
<1>2. QED
  BY <1>1, ServiceInvariant, PTL

\* /dev/shm holds nothing but the segments of the session in use, of the one
\* being built, and of sessions whose construction or closing raised.
THEOREM NothingElseLeaks == Spec => []SegmentsAccounted
<1>1. ServiceInv => SegmentsAccounted
  BY DEF ServiceInv
<1>2. QED
  BY <1>1, ServiceInvariant, PTL

-----------------------------------------------------------------------------
(***************************************************************************)
(* Nothing in the code compares a chunk with the one before it.  The order *)
(* rests on who can name a session: one client at a time, with one call at *)
(* a time, and a session whose client gave up is named by nobody again.    *)
(***************************************************************************)


\* A response with a new session has reached the client.
Given(c) == reply[c] # None /\ reply[c].code = "ok" /\ reply[c].rpc = "create"

\* The session a client has, or is about to take up.
Held(c) == IF Given(c) THEN reply[c].session ELSE sess[c]

\* A client waits for the call it made last, and each worker that has its
\* call knows what the client knows.
Calling ==
  /\ \A w \in Workers : req[w].rpc = "none" => req[w].client = None
  /\ \A c \in Clients :
       /\ reply[c] # None => waits[c] # None
       /\ sess[c] = None => chunk[c] = 0
       /\ Given(c) => sess[c] = None
       /\ reply[c] # None /\ reply[c].rpc # "create" => sess[c] # None
       /\ reply[c] # None /\ reply[c].code = "not_found" => reply[c].rpc # "create"
  /\ \A c \in Clients, w \in Workers : waits[c] = w /\ req[w].client = c =>
       /\ reply[c] = None
       /\ req[w].rpc = "create" => sess[c] = None
       /\ req[w].rpc # "create" => sess[c] = req[w].session
       /\ req[w].rpc = "chunk" => chunk[c] = req[w].chunk

\* Nobody has named the session yet.
Untouched(s) ==
  /\ frames[s] = 0 /\ ran[s] = 0
  /\ \A w \in Workers : req[w].rpc \in {"chunk", "destroy"} => req[w].session # s

\* A session has one client, who has not used it before he knows of it.
Owned ==
  /\ \A c, d \in Clients : Held(c) # None /\ Held(c) = Held(d) => c = d
  /\ \A c \in Clients : Given(c) => Untouched(reply[c].session)
  /\ \A w \in Workers : pc[w] = "build" =>
       Untouched(minted) /\ \A c \in Clients : Held(c) # minted
  /\ \A s \in Session : s > minted => Untouched(s)

\* A chunk on its way is the only one of its session, its frames are staged,
\* and if its session has a client, then he waits for it.
Staged ==
  /\ \A w \in Workers : req[w].rpc = "chunk" =>
       /\ req[w].chunk # 0
       /\ frames[req[w].session] = req[w].chunk
       /\ pc[w] # "write" => ran[req[w].session] = req[w].chunk - 1
       /\ pc[w] = "write" => ran[req[w].session] = req[w].chunk
       /\ pc[w] \in {"model", "write"} => got[w] = req[w].chunk
  /\ \A v, w \in Workers :
       req[v].rpc = "chunk" /\ req[w].rpc = "chunk" /\ req[v].session = req[w].session => v = w
  /\ \A w \in Workers, c \in Clients :
       req[w].rpc \in {"chunk", "destroy"} /\ sess[c] = req[w].session =>
         waits[c] = w /\ req[w].client = c

\* Between two calls the session has run what its client staged.
Done ==
  \A c \in Clients :
    /\ sess[c] # None /\ waits[c] = None => ran[sess[c]] = chunk[c]
    /\ reply[c] # None /\ reply[c].code = "ok" /\ reply[c].rpc = "chunk" =>
         /\ reply[c].session = sess[c]
         /\ ran[sess[c]] = chunk[c] /\ result[sess[c]] = chunk[c]

\* A session that has a client and is not active any more was replaced, is
\* being replaced, was destroyed by that client, or the daemon shuts down.
Replaced ==
  \A c \in Clients : Held(c) # None =>
    \/ active = Held(c)
    \/ minted > Held(c)
    \/ main \notin {"serving", "teardown"}
    \/ \E w \in Workers : pc[w] = "body" /\ req[w].rpc = "create"
    \/ reply[c] # None /\ reply[c].code = "ok" /\ reply[c].rpc = "destroy"

OrderInv ==
  ServiceInv /\ Calling /\ Owned /\ Staged /\ Done /\ Replaced /\ NotFoundMeansReplaced

-----------------------------------------------------------------------------
\* Which numbers are sessions: null is none, and those in use have been drawn.
LEMMA Drawn ==
  ASSUME ServiceInv, Calling
  PROVE  /\ minted \in Nat /\ None \notin Session
         /\ Session \subseteq Nat /\ 1 .. minted \subseteq Session
         /\ \A c \in Clients : Held(c) # None => Held(c) \in 1 .. minted
         /\ \A c \in Clients : sess[c] # None => Held(c) = sess[c] /\ sess[c] \in 1 .. minted
         /\ \A w \in Workers : req[w].rpc \in {"chunk", "destroy"} =>
              req[w].session \in 1 .. minted /\ req[w].client \in Clients
<1>1. minted \in Nat /\ minted <= MaxSessions /\ MaxSessions \in Nat
  BY BoundAssumption DEF ServiceInv, TypeOK
<1>2. None \notin Session /\ Session \subseteq Nat /\ 1 .. minted \subseteq Session
  BY <1>1, NoneAssumption DEF Session
<1>3. \A c \in Clients : Held(c) # None => Held(c) \in 1 .. minted
  BY DEF ServiceInv, Numbered, Held, Given
<1>4. \A c \in Clients : sess[c] # None => Held(c) = sess[c] /\ sess[c] \in 1 .. minted
  BY DEF ServiceInv, Numbered, Held, Calling
<1>5. \A w \in Workers : req[w].rpc \in {"chunk", "destroy"} =>
        req[w].session \in 1 .. minted /\ req[w].client \in Clients
  BY DEF ServiceInv, Threads
<1> QED
  BY <1>1, <1>2, <1>3, <1>4, <1>5

\* The daemon starts with the invariant.
LEMMA OrderInit == Init => OrderInv
<1> SUFFICES ASSUME Init PROVE OrderInv
  OBVIOUS
<1>1. ServiceInv
  BY InitInv
<1>2. \A c \in Clients : ~ Given(c) /\ Held(c) = None
  BY DEF Init, Given, Held
<1>3. \A s \in Session : Untouched(s)
  BY DEF Init, Untouched, NoRequest
<1>4. Calling
  BY <1>2, ThreadAssumption DEF Init, Calling, NoRequest
<1>5. Owned
  BY <1>2, <1>3 DEF Init, Owned
<1>6. Staged
  BY DEF Init, Staged, NoRequest
<1>7. Done /\ Replaced /\ NotFoundMeansReplaced
  BY <1>2 DEF Init, Done, Replaced, NotFoundMeansReplaced
<1> QED
  BY <1>1, <1>4, <1>5, <1>6, <1>7 DEF OrderInv

-----------------------------------------------------------------------------
(* Clients.                                                                *)

\* A call begins when its client waits for nothing, at an idle worker.
LEMMA CallBegins ==
  ASSUME OrderInv, NEW c \in Clients, NEW w \in Workers, NEW rpc \in Rpc, NEW s, NEW k,
         Call(c, w, rpc, s, k)
  PROVE  /\ reply[c] = None /\ Held(c) = sess[c]
         /\ req[w].rpc = "none"
         /\ waits' = [waits EXCEPT ![c] = w]
         /\ pc'[w] = "entry" /\ \A v \in Workers \ {w} : pc'[v] = pc[v]
         /\ req'[w] = [rpc |-> rpc, client |-> c, session |-> s, chunk |-> k]
         /\ \A v \in Workers \ {w} : req'[v] = req[v]
         /\ UNCHANGED <<active, minted, ran, got, main, result, sess, reply>>
         /\ \A d \in Clients : Held(d)' = Held(d)
<1>1. reply[c] = None
  BY DEF OrderInv, Calling, Call
<1>2. Held(c) = sess[c]
  BY <1>1 DEF Held, Given
<1>3. req[w].rpc = "none"
  BY DEF OrderInv, ServiceInv, Threads, Call
<1>4. waits' = [waits EXCEPT ![c] = w]
  BY DEF Call
<1>5. pc'[w] = "entry" /\ \A v \in Workers \ {w} : pc'[v] = pc[v]
  BY DEF Call, OrderInv, ServiceInv, TypeOK
<1>6. /\ req'[w] = [rpc |-> rpc, client |-> c, session |-> s, chunk |-> k]
      /\ \A v \in Workers \ {w} : req'[v] = req[v]
  BY DEF Call, OrderInv, ServiceInv, TypeOK
<1>7. UNCHANGED <<active, minted, ran, got, main, result, sess, reply>>
  BY DEF Call
<1>8. \A d \in Clients : Held(d)' = Held(d)
  BY <1>7 DEF Held, Given
<1> QED
  BY <1>1, <1>2, <1>3, <1>4, <1>5, <1>6, <1>7, <1>8

\* What a call of a client that knows its session leaves as it is.
LEMMA CallOrder ==
  ASSUME OrderInv, NEW c \in Clients, NEW w \in Workers, NEW rpc \in Rpc, NEW s, NEW k,
         Call(c, w, rpc, s, k), ServiceInv',
         rpc = "create" => sess[c] = None,
         rpc # "create" => s = sess[c] /\ sess[c] # None,
         rpc = "chunk" => chunk' = [chunk EXCEPT ![c] = k],
         rpc # "chunk" => chunk' = chunk,
         \A t \in Session : t # sess[c] => frames'[t] = frames[t],
         rpc = "create" => frames' = frames
  PROVE  Calling' /\ Owned' /\ Replaced' /\ NotFoundMeansReplaced'
<1> DEFINE r == [rpc |-> rpc, client |-> c, session |-> s, chunk |-> k]
<1>0. /\ reply[c] = None /\ Held(c) = sess[c]
      /\ req[w].rpc = "none"
      /\ waits' = [waits EXCEPT ![c] = w]
      /\ pc'[w] = "entry" /\ \A v \in Workers \ {w} : pc'[v] = pc[v]
      /\ req'[w] = r
      /\ \A v \in Workers \ {w} : req'[v] = req[v]
      /\ UNCHANGED <<active, minted, ran, got, main, result, sess, reply>>
      /\ \A d \in Clients : Held(d)' = Held(d)
  BY CallBegins
<1>1. r.rpc = rpc /\ r.client = c /\ r.session = s /\ r.chunk = k
  OBVIOUS
<1> HIDE DEF r
<1>2. Calling'
  <2>1. \A v \in Workers : (req[v].rpc = "none" => req[v].client = None)'
    BY <1>0, <1>1 DEF OrderInv, Calling, Rpc
  <2>2. \A d \in Clients :
          /\ (reply[d] # None => waits[d] # None)'
          /\ (sess[d] = None => chunk[d] = 0)'
          /\ (Given(d) => sess[d] = None)'
          /\ (reply[d] # None /\ reply[d].rpc # "create" => sess[d] # None)'
          /\ (reply[d] # None /\ reply[d].code = "not_found" => reply[d].rpc # "create")'
    BY <1>0, ThreadAssumption DEF OrderInv, Calling, ServiceInv, TypeOK, Given, Rpc
  <2>3. \A d \in Clients, v \in Workers : waits'[d] = v /\ req'[v].client = d =>
          /\ reply'[d] = None
          /\ req'[v].rpc = "create" => sess'[d] = None
          /\ req'[v].rpc # "create" => sess'[d] = req'[v].session
          /\ req'[v].rpc = "chunk" => chunk'[d] = req'[v].chunk
    <3> SUFFICES ASSUME NEW d \in Clients, NEW v \in Workers,
                        waits'[d] = v, req'[v].client = d
                 PROVE  /\ reply'[d] = None
                        /\ req'[v].rpc = "create" => sess'[d] = None
                        /\ req'[v].rpc # "create" => sess'[d] = req'[v].session
                        /\ req'[v].rpc = "chunk" => chunk'[d] = req'[v].chunk
      OBVIOUS
    <3>1. CASE v = w
      <4>1. d = c
        BY <1>0, <1>1, <3>1
      <4> QED
        BY <1>0, <1>1, <3>1, <4>1 DEF OrderInv, ServiceInv, TypeOK
    <3>2. CASE v # w
      <4>1. d # c
        BY <1>0, <3>2 DEF OrderInv, ServiceInv, TypeOK
      <4>2. waits[d] = v /\ req'[v] = req[v] /\ chunk'[d] = chunk[d]
        BY <1>0, <3>2, <4>1 DEF OrderInv, ServiceInv, TypeOK
      <4> QED
        BY <1>0, <4>2 DEF OrderInv, Calling
    <3> QED
      BY <3>1, <3>2
  <2> QED
    BY <2>1, <2>2, <2>3 DEF Calling
<1>3. Owned'
  <2>1. ASSUME NEW t \in Session, Untouched(t), t # sess[c] PROVE Untouched(t)'
    BY <1>0, <1>1, <2>1 DEF Untouched, Rpc
  <2>2. \A d \in Clients : Given(d) => reply[d].session # sess[c] /\ reply[d].session \in Session
    <3> SUFFICES ASSUME NEW d \in Clients, Given(d)
                 PROVE  reply[d].session # sess[c] /\ reply[d].session \in Session
      OBVIOUS
    <3>1. Held(d) = reply[d].session /\ reply[d].session \in 1 .. minted /\ d # c
      BY <1>0 DEF Given, Held, OrderInv, ServiceInv, Numbered
    <3>2. reply[d].session \in Session /\ None \notin Session
      BY <3>1, Drawn DEF OrderInv
    <3>3. Held(d) # None /\ Held(d) # Held(c)
      BY <3>1, <3>2 DEF OrderInv, Owned
    <3> QED
      BY <1>0, <3>1, <3>2, <3>3
  <2>3. \A d \in Clients : Given(d)' => Untouched(reply[d].session)'
    <3> SUFFICES ASSUME NEW d \in Clients, Given(d)' PROVE Untouched(reply[d].session)'
      OBVIOUS
    <3>1. Given(d) /\ reply'[d] = reply[d]
      BY <1>0 DEF Given
    <3>2. Untouched(reply[d].session)
      BY <3>1 DEF OrderInv, Owned
    <3>3. frames'[reply[d].session] = 0 /\ ran'[reply[d].session] = 0
      BY <1>0, <2>2, <3>1, <3>2 DEF Untouched
    <3>4. \A v \in Workers :
            req'[v].rpc \in {"chunk", "destroy"} => req'[v].session # reply[d].session
      BY <1>0, <1>1, <2>2, <3>1, <3>2 DEF Untouched, Rpc
    <3> QED
      BY <3>1, <3>3, <3>4 DEF Untouched
  <2>4. \A v \in Workers : pc'[v] = "build" =>
          Untouched(minted)' /\ \A d \in Clients : Held(d)' # minted'
    <3> SUFFICES ASSUME NEW v \in Workers, pc'[v] = "build"
                 PROVE  Untouched(minted)' /\ \A d \in Clients : Held(d)' # minted'
      OBVIOUS
    <3>1. pc[v] = "build" /\ minted' = minted
      BY <1>0
    <3>2. Untouched(minted) /\ \A d \in Clients : Held(d) # minted
      BY <3>1 DEF OrderInv, Owned
    <3>3. minted \in Session
      BY <3>1, Drawn DEF OrderInv, ServiceInv, Threads
    <3>4. minted # sess[c]
      BY <1>0, <3>2
    <3>5. frames'[minted] = 0 /\ ran'[minted] = 0
      BY <1>0, <3>2, <3>3, <3>4 DEF Untouched
    <3>6. \A x \in Workers : req'[x].rpc \in {"chunk", "destroy"} => req'[x].session # minted
      BY <1>0, <1>1, <3>2, <3>4 DEF Untouched, Rpc
    <3> QED
      BY <1>0, <3>1, <3>2, <3>5, <3>6 DEF Untouched
  <2>5. \A t \in Session : t > minted' => Untouched(t)'
    <3> SUFFICES ASSUME NEW t \in Session, t > minted PROVE Untouched(t)'
      BY <1>0
    <3>1. t # sess[c]
      BY Drawn DEF OrderInv
    <3>2. Untouched(t)
      BY DEF OrderInv, Owned
    <3> QED
      BY <2>1, <3>1, <3>2
  <2>6. \A d, e \in Clients : Held(d)' # None /\ Held(d)' = Held(e)' => d = e
    BY <1>0 DEF OrderInv, Owned
  <2> QED
    BY <2>3, <2>4, <2>5, <2>6 DEF Owned
<1>4. Replaced'
  <2> SUFFICES ASSUME NEW d \in Clients, Held(d) # None
               PROVE  \/ active = Held(d) \/ minted > Held(d)
                      \/ main \notin {"serving", "teardown"}
                      \/ \E v \in Workers : pc'[v] = "body" /\ req'[v].rpc = "create"
                      \/ reply[d] # None /\ reply[d].code = "ok" /\ reply[d].rpc = "destroy"
    BY <1>0 DEF Replaced
  <2>1. ASSUME NEW v \in Workers, pc[v] = "body", req[v].rpc = "create"
        PROVE  \E x \in Workers : pc'[x] = "body" /\ req'[x].rpc = "create"
    BY <1>0, <2>1
  <2> QED
    BY <2>1 DEF OrderInv, Replaced
<1>5. NotFoundMeansReplaced'
  BY <1>0 DEF OrderInv, NotFoundMeansReplaced
<1> QED
  BY <1>2, <1>3, <1>4, <1>5

\* CreateSession names no session, and stages nothing.
LEMMA CallCreateOrder ==
  ASSUME OrderInv, NEW c \in Clients, NEW w \in Workers, CallCreate(c, w), ServiceInv'
  PROVE  OrderInv'
<1>1. /\ Call(c, w, "create", None, 0) /\ "create" \in Rpc
      /\ sess[c] = None /\ UNCHANGED <<frames, chunk>>
  BY DEF CallCreate, Rpc
<1>2. /\ waits' = [waits EXCEPT ![c] = w]
      /\ pc'[w] = "entry" /\ \A v \in Workers \ {w} : pc'[v] = pc[v]
      /\ req'[w] = [rpc |-> "create", client |-> c, session |-> None, chunk |-> 0]
      /\ \A v \in Workers \ {w} : req'[v] = req[v]
      /\ UNCHANGED <<ran, got, result, sess, reply>>
  BY <1>1, CallBegins
<1>3. Calling' /\ Owned' /\ Replaced' /\ NotFoundMeansReplaced'
  BY <1>1, CallOrder
<1>4. Staged'
  <2>1. \A v \in Workers : req'[v].rpc \in {"chunk", "destroy"} =>
          v # w /\ req'[v] = req[v] /\ pc'[v] = pc[v]
    BY <1>2
  <2>2. \A v \in Workers, d \in Clients :
          req'[v].rpc \in {"chunk", "destroy"} /\ sess'[d] = req'[v].session =>
            waits'[d] = v /\ req'[v].client = d
    <3> SUFFICES ASSUME NEW v \in Workers, NEW d \in Clients,
                        req'[v].rpc \in {"chunk", "destroy"}, sess'[d] = req'[v].session
                 PROVE  waits'[d] = v /\ req'[v].client = d
      OBVIOUS
    <3>1. waits[d] = v /\ req[v].client = d
      BY <1>2, <2>1 DEF OrderInv, Staged
    <3>2. d # c
      BY <3>1, <1>1, ThreadAssumption DEF Call
    <3> QED
      BY <1>2, <2>1, <3>1, <3>2 DEF OrderInv, ServiceInv, TypeOK
  <2> QED
    BY <1>1, <1>2, <2>1, <2>2 DEF OrderInv, Staged
<1>5. Done'
  BY <1>1, <1>2, ThreadAssumption DEF OrderInv, Done, ServiceInv, TypeOK
<1> QED
  BY <1>3, <1>4, <1>5 DEF OrderInv

\* InterpolateChunk comes after the chunk before it has run: nobody else has
\* a call on the session.
LEMMA CallChunkOrder ==
  ASSUME OrderInv, NEW c \in Clients, NEW w \in Workers, CallChunk(c, w), ServiceInv'
  PROVE  OrderInv'
<1> DEFINE s == sess[c]
           k == chunk[c] + 1
<1>1. /\ Call(c, w, "chunk", s, k) /\ "chunk" \in Rpc /\ s # None
      /\ chunk' = [chunk EXCEPT ![c] = k] /\ frames' = [frames EXCEPT ![s] = k]
      /\ waits[c] = None
  BY DEF CallChunk, Call, Rpc
<1>2. s \in Session /\ s \in 1 .. minted /\ Held(c) = s
  BY <1>1, Drawn DEF OrderInv
<1>3. frames'[s] = k /\ \A t \in Session : t # s => frames'[t] = frames[t]
  BY <1>1, <1>2 DEF OrderInv, ServiceInv, TypeOK
<1>4. /\ reply[c] = None
      /\ waits' = [waits EXCEPT ![c] = w]
      /\ pc'[w] = "entry" /\ \A v \in Workers \ {w} : pc'[v] = pc[v]
      /\ req'[w] = [rpc |-> "chunk", client |-> c, session |-> s, chunk |-> k]
      /\ \A v \in Workers \ {w} : req'[v] = req[v]
      /\ UNCHANGED <<ran, got, result, sess, reply>>
  BY <1>1, CallBegins
<1>5. Calling' /\ Owned' /\ Replaced' /\ NotFoundMeansReplaced'
  BY <1>1, <1>3, CallOrder
<1>6. chunk[c] \in Nat /\ k # 0 /\ ran[s] = k - 1
  <2>1. chunk[c] \in Nat
    BY BoundAssumption DEF OrderInv, ServiceInv, TypeOK
  <2> QED
    BY <1>1, <2>1 DEF OrderInv, Done
<1>7. \A v \in Workers : req[v].rpc \in {"chunk", "destroy"} => req[v].session # s
  BY <1>1, ThreadAssumption DEF OrderInv, Staged
<1>8. \A d \in Clients : d # c => sess[d] # s
  BY <1>1, <1>2, Drawn DEF OrderInv, Owned
<1>9. Staged'
  <2>1. /\ req'[w].rpc = "chunk" /\ req'[w].client = c
        /\ req'[w].session = s /\ req'[w].chunk = k
    BY <1>4
  <2>2. \A v \in Workers : v # w /\ req'[v].rpc \in {"chunk", "destroy"} =>
          /\ req'[v] = req[v] /\ pc'[v] = pc[v]
          /\ req[v].session # s /\ req[v].session \in Session
    BY <1>4, <1>7, Drawn DEF OrderInv
  <2> HIDE DEF s, k
  <2>3. \A v \in Workers : req'[v].rpc = "chunk" =>
          /\ req'[v].chunk # 0
          /\ frames'[req'[v].session] = req'[v].chunk
          /\ pc'[v] # "write" => ran'[req'[v].session] = req'[v].chunk - 1
          /\ pc'[v] = "write" => ran'[req'[v].session] = req'[v].chunk
          /\ pc'[v] \in {"model", "write"} => got'[v] = req'[v].chunk
    BY <1>3, <1>4, <1>6, <2>1, <2>2 DEF OrderInv, Staged
  <2>4. \A v, x \in Workers :
          req'[v].rpc = "chunk" /\ req'[x].rpc = "chunk" /\ req'[v].session = req'[x].session
            => v = x
    BY <2>1, <2>2 DEF OrderInv, Staged
  <2>5. \A v \in Workers, d \in Clients :
          req'[v].rpc \in {"chunk", "destroy"} /\ sess'[d] = req'[v].session =>
            waits'[d] = v /\ req'[v].client = d
    <3> SUFFICES ASSUME NEW v \in Workers, NEW d \in Clients,
                        req'[v].rpc \in {"chunk", "destroy"}, sess[d] = req'[v].session
                 PROVE  waits'[d] = v /\ req'[v].client = d
      BY <1>4
    <3>1. CASE v = w
      <4>1. d = c
        BY <1>8, <2>1, <3>1
      <4> QED
        BY <1>4, <2>1, <3>1, <4>1 DEF OrderInv, ServiceInv, TypeOK
    <3>2. CASE v # w
      <4>1. d # c
        BY <2>2, <3>2 DEF s
      <4>2. waits[d] = v /\ req[v].client = d
        BY <2>2, <3>2 DEF OrderInv, Staged
      <4> QED
        BY <1>4, <2>2, <3>2, <4>1, <4>2 DEF OrderInv, ServiceInv, TypeOK
    <3> QED
      BY <3>1, <3>2
  <2> QED
    BY <2>3, <2>4, <2>5 DEF Staged
<1>10. Done'
  <2> SUFFICES ASSUME NEW d \in Clients
               PROVE  /\ sess[d] # None /\ waits'[d] = None => ran[sess[d]] = chunk'[d]
                      /\ reply[d] # None /\ reply[d].code = "ok" /\ reply[d].rpc = "chunk" =>
                           /\ reply[d].session = sess[d]
                           /\ ran[sess[d]] = chunk'[d] /\ result[sess[d]] = chunk'[d]
    BY <1>4 DEF Done
  <2>1. CASE d = c
    BY <1>4, <2>1, ThreadAssumption DEF OrderInv, ServiceInv, TypeOK
  <2>2. CASE d # c
    <3>1. chunk'[d] = chunk[d] /\ waits'[d] = waits[d]
      BY <1>1, <1>4, <2>2 DEF OrderInv, ServiceInv, TypeOK
    <3> QED
      BY <3>1 DEF OrderInv, Done
  <2> QED
    BY <2>1, <2>2
<1> QED
  BY <1>5, <1>9, <1>10 DEF OrderInv

\* DestroySession stages nothing, and nobody else has a call on the session.
LEMMA CallDestroyOrder ==
  ASSUME OrderInv, NEW c \in Clients, NEW w \in Workers, CallDestroy(c, w), ServiceInv'
  PROVE  OrderInv'
<1> DEFINE s == sess[c]
<1>1. /\ Call(c, w, "destroy", s, 0) /\ "destroy" \in Rpc /\ s # None
      /\ UNCHANGED <<frames, chunk>> /\ waits[c] = None
  BY DEF CallDestroy, Call, Rpc
<1>2. s \in Session /\ Held(c) = s
  BY <1>1, Drawn DEF OrderInv
<1>3. /\ reply[c] = None
      /\ waits' = [waits EXCEPT ![c] = w]
      /\ pc'[w] = "entry" /\ \A v \in Workers \ {w} : pc'[v] = pc[v]
      /\ req'[w] = [rpc |-> "destroy", client |-> c, session |-> s, chunk |-> 0]
      /\ \A v \in Workers \ {w} : req'[v] = req[v]
      /\ UNCHANGED <<ran, got, result, sess, reply>>
  BY <1>1, CallBegins
<1>4. Calling' /\ Owned' /\ Replaced' /\ NotFoundMeansReplaced'
  BY <1>1, CallOrder
<1>5. \A d \in Clients : d # c => sess[d] # s
  BY <1>1, <1>2, Drawn DEF OrderInv, Owned
<1>6. Staged'
  <2>1. req'[w].rpc = "destroy" /\ req'[w].client = c /\ req'[w].session = s
    BY <1>3
  <2>2. \A v \in Workers : v # w => req'[v] = req[v] /\ pc'[v] = pc[v]
    BY <1>3
  <2> HIDE DEF s
  <2>3. \A v \in Workers, d \in Clients :
          req'[v].rpc \in {"chunk", "destroy"} /\ sess'[d] = req'[v].session =>
            waits'[d] = v /\ req'[v].client = d
    <3> SUFFICES ASSUME NEW v \in Workers, NEW d \in Clients,
                        req'[v].rpc \in {"chunk", "destroy"}, sess[d] = req'[v].session
                 PROVE  waits'[d] = v /\ req'[v].client = d
      BY <1>3
    <3>1. CASE v = w
      <4>1. d = c
        BY <1>5, <2>1, <3>1
      <4> QED
        BY <1>3, <2>1, <3>1, <4>1 DEF OrderInv, ServiceInv, TypeOK
    <3>2. CASE v # w
      <4>1. waits[d] = v /\ req[v].client = d
        BY <2>2, <3>2 DEF OrderInv, Staged
      <4>2. d # c
        BY <1>1, <4>1, ThreadAssumption
      <4> QED
        BY <1>3, <2>2, <3>2, <4>1, <4>2 DEF OrderInv, ServiceInv, TypeOK
    <3> QED
      BY <3>1, <3>2
  <2> QED
    BY <1>1, <1>3, <2>1, <2>2, <2>3 DEF OrderInv, Staged
<1>7. Done'
  BY <1>1, <1>3, ThreadAssumption DEF OrderInv, Done, ServiceInv, TypeOK
<1> QED
  BY <1>4, <1>6, <1>7 DEF OrderInv

\* A step that numbers and runs nothing, and gives nobody a session he did
\* not hold.
LEMMA OwnedKept ==
  ASSUME ServiceInv, Owned, UNCHANGED <<minted, frames, ran>>,
         \A w \in Workers : req'[w].rpc \in {"chunk", "destroy"} =>
           req[w].rpc \in {"chunk", "destroy"} /\ req'[w].session = req[w].session,
         \A w \in Workers : pc'[w] = "build" => pc[w] = "build",
         \A c \in Clients : Given(c)' => Given(c) /\ reply'[c] = reply[c],
         \A c \in Clients : Held(c)' \in {Held(c), None}
  PROVE  Owned'
<1>1. \A c, d \in Clients : Held(c)' # None /\ Held(c)' = Held(d)' => c = d
  BY DEF Owned
<1>2. ASSUME NEW c \in Clients, Given(c)'
      PROVE  /\ frames'[reply'[c].session] = 0 /\ ran'[reply'[c].session] = 0
             /\ \A w \in Workers : req'[w].rpc \in {"chunk", "destroy"} =>
                  req'[w].session # reply'[c].session
  <2>1. Given(c) /\ reply'[c] = reply[c]
    BY <1>2
  <2> QED
    BY <2>1 DEF Owned, Untouched
<1>3. ASSUME NEW v \in Workers, pc'[v] = "build"
      PROVE  /\ frames'[minted'] = 0 /\ ran'[minted'] = 0
             /\ \A w \in Workers : req'[w].rpc \in {"chunk", "destroy"} =>
                  req'[w].session # minted'
             /\ \A c \in Clients : Held(c)' # minted'
  <2>1. Untouched(minted) /\ \A c \in Clients : Held(c) # minted
    BY <1>3 DEF Owned
  <2>2. minted' = minted /\ minted # None
    BY NoneAssumption DEF ServiceInv, TypeOK
  <2> QED
    BY <2>1, <2>2 DEF Untouched
<1>4. ASSUME NEW s \in Session, s > minted'
      PROVE  /\ frames'[s] = 0 /\ ran'[s] = 0
             /\ \A w \in Workers : req'[w].rpc \in {"chunk", "destroy"} => req'[w].session # s
  BY <1>4 DEF Owned, Untouched
<1> QED
  BY <1>1, <1>2, <1>3, <1>4 DEF Owned, Untouched

\* A client that gives up holds no session any more.
LEMMA TimeoutOrder ==
  ASSUME OrderInv, NEW c \in Clients, Timeout(c), ServiceInv'
  PROVE  OrderInv'
<1>1. /\ waits' = [waits EXCEPT ![c] = None] /\ sess' = [sess EXCEPT ![c] = None]
      /\ chunk' = [chunk EXCEPT ![c] = 0] /\ reply[c] = None
      /\ UNCHANGED <<active, minted, ran, pc, req, got, main, frames, result, reply>>
  BY DEF Timeout, daemonVars, memoryVars
<1>2. /\ sess'[c] = None /\ waits'[c] = None /\ chunk'[c] = 0 /\ reply'[c] = None
      /\ \A d \in Clients : d # c =>
           sess'[d] = sess[d] /\ waits'[d] = waits[d] /\ chunk'[d] = chunk[d]
  BY <1>1 DEF OrderInv, ServiceInv, TypeOK
<1>3. /\ \A d \in Clients : Given(d)' = Given(d)
      /\ Held(c)' = None
      /\ \A d \in Clients : d # c => Held(d)' = Held(d)
  BY <1>1, <1>2 DEF Given, Held
<1>5. Calling'
  BY <1>1, <1>2, ThreadAssumption DEF OrderInv, Calling, Given
<1>6. Owned'
  BY <1>1, <1>3, OwnedKept DEF OrderInv
<1>7. Staged'
  <2>1. \A w \in Workers : req[w].rpc \in {"chunk", "destroy"} => req[w].session # None
    BY Drawn, NoneAssumption DEF OrderInv
  <2> QED
    BY <1>1, <1>2, <2>1 DEF OrderInv, Staged
<1>8. Done'
  BY <1>1, <1>2 DEF OrderInv, Done
<1>9. Replaced'
  BY <1>1, <1>3 DEF OrderInv, Replaced
<1>10. NotFoundMeansReplaced'
  BY <1>1, <1>2 DEF OrderInv, NotFoundMeansReplaced
<1> QED
  BY <1>5, <1>6, <1>7, <1>8, <1>9, <1>10 DEF OrderInv

\* A client takes up a session nobody has named, keeps the one it has, or
\* gives it up.
LEMMA ReceiveOrder ==
  ASSUME OrderInv, NEW c \in Clients, Receive(c), ServiceInv'
  PROVE  OrderInv'
<1>1. /\ waits' = [waits EXCEPT ![c] = None] /\ reply' = [reply EXCEPT ![c] = None]
      /\ reply[c] # None
      /\ UNCHANGED <<active, minted, ran, pc, req, got, main, frames, result>>
  BY DEF Receive, daemonVars, memoryVars
<1>2. /\ waits'[c] = None /\ reply'[c] = None
      /\ \A d \in Clients : d # c =>
           sess'[d] = sess[d] /\ waits'[d] = waits[d] /\ chunk'[d] = chunk[d] /\ reply'[d] = reply[d]
  BY <1>1 DEF Receive, OrderInv, ServiceInv, TypeOK
<1>3. \/ Given(c) /\ sess'[c] = Held(c) /\ chunk'[c] = 0 /\ Held(c) # None
      \/ /\ reply[c].code = "ok" /\ reply[c].rpc = "chunk"
         /\ sess'[c] = sess[c] /\ chunk'[c] = chunk[c] /\ sess[c] # None
      \/ sess'[c] = None /\ chunk'[c] = 0
  <2>1. reply[c].code = "ok" /\ reply[c].rpc = "create" => Held(c) # None
    BY <1>1, NoneAssumption DEF Given, Held, OrderInv, ServiceInv, Numbered, TypeOK
  <2> QED
    BY <1>1, <2>1 DEF Receive, Given, Held, OrderInv, ServiceInv, TypeOK, Calling
<1>4. /\ ~ Given(c)' /\ \A d \in Clients : d # c => (Given(d)' <=> Given(d))
      /\ Held(c)' = sess'[c] /\ sess'[c] \in {Held(c), None}
      /\ \A d \in Clients : d # c => Held(d)' = Held(d)
  <2>1. ~ Given(c)' /\ \A d \in Clients : d # c => (Given(d)' <=> Given(d))
    BY <1>2 DEF Given
  <2>2. Held(c)' = sess'[c] /\ \A d \in Clients : d # c => Held(d)' = Held(d)
    BY <1>2, <2>1 DEF Held
  <2>3. sess'[c] \in {Held(c), None}
    BY <1>3, Drawn DEF OrderInv
  <2> QED
    BY <2>1, <2>2, <2>3
<1>6. \A w \in Workers : ~ (waits[c] = w /\ req[w].client = c)
  BY <1>1 DEF OrderInv, Calling
<1>7. \A w \in Workers : req[w].rpc \in {"chunk", "destroy"} => sess'[c] # req[w].session
  <2> SUFFICES ASSUME NEW w \in Workers, req[w].rpc \in {"chunk", "destroy"},
                      sess'[c] = req[w].session
               PROVE  FALSE
    OBVIOUS
  <2>1. req[w].session # None
    BY Drawn, NoneAssumption DEF OrderInv
  <2>2. CASE Given(c) /\ sess'[c] = Held(c)
    <3>1. Untouched(reply[c].session) /\ Held(c) = reply[c].session
      BY <2>2 DEF Held, OrderInv, Owned
    <3> QED
      BY <2>2, <3>1 DEF Untouched
  <2>3. CASE sess'[c] = sess[c]
    BY <1>6, <2>3 DEF OrderInv, Staged
  <2> QED
    BY <1>3, <2>1, <2>2, <2>3
<1>8. Calling'
  <2>1. \A w \in Workers : req[w].client = c => waits'[c] # w
    BY <1>2, ThreadAssumption
  <2>2. \A d \in Clients :
          /\ reply'[d] # None => waits'[d] # None
          /\ sess'[d] = None => chunk'[d] = 0
          /\ Given(d)' => sess'[d] = None
          /\ reply'[d] # None /\ reply'[d].rpc # "create" => sess'[d] # None
          /\ reply'[d] # None /\ reply'[d].code = "not_found" => reply'[d].rpc # "create"
    BY <1>2, <1>3, <1>4 DEF OrderInv, Calling
  <2>3. \A d \in Clients, w \in Workers : waits'[d] = w /\ req'[w].client = d =>
          /\ reply'[d] = None
          /\ req'[w].rpc = "create" => sess'[d] = None
          /\ req'[w].rpc # "create" => sess'[d] = req'[w].session
          /\ req'[w].rpc = "chunk" => chunk'[d] = req'[w].chunk
    BY <1>1, <1>2, <2>1 DEF OrderInv, Calling
  <2> QED
    BY <1>1, <2>2, <2>3 DEF OrderInv, Calling
<1>9. Owned'
  <2>1. /\ \A d \in Clients : Given(d)' => Given(d) /\ reply'[d] = reply[d]
        /\ \A d \in Clients : Held(d)' \in {Held(d), None}
    BY <1>2, <1>4
  <2> QED
    BY <1>1, <2>1, OwnedKept DEF OrderInv
<1>10. Staged'
  BY <1>1, <1>2, <1>7 DEF OrderInv, Staged
<1>11. Done'
  <2>1. sess'[c] # None => ran[sess'[c]] = chunk'[c]
    <3>1. CASE Given(c) /\ sess'[c] = Held(c) /\ chunk'[c] = 0
      BY <3>1 DEF Held, OrderInv, Owned, Untouched
    <3>2. CASE /\ reply[c].code = "ok" /\ reply[c].rpc = "chunk"
               /\ sess'[c] = sess[c] /\ chunk'[c] = chunk[c]
      BY <1>1, <3>2 DEF OrderInv, Done
    <3> QED
      BY <1>3, <3>1, <3>2
  <2> QED
    BY <1>1, <1>2, <2>1 DEF OrderInv, Done
<1>12. Replaced'
  <2> SUFFICES ASSUME NEW d \in Clients, Held(d)' # None
               PROVE  \/ active = Held(d)' \/ minted > Held(d)'
                      \/ main \notin {"serving", "teardown"}
                      \/ \E w \in Workers : pc[w] = "body" /\ req[w].rpc = "create"
                      \/ reply'[d] # None /\ reply'[d].code = "ok" /\ reply'[d].rpc = "destroy"
    BY <1>1 DEF Replaced
  <2>1. CASE d # c
    BY <1>2, <1>4, <2>1 DEF OrderInv, Replaced
  <2>2. CASE d = c
    <3>1. Held(c)' = Held(c) /\ ~ (reply[c].code = "ok" /\ reply[c].rpc = "destroy")
      BY <1>3, <1>4, <2>2 DEF Given
    <3> QED
      BY <2>2, <3>1 DEF OrderInv, Replaced
  <2> QED
    BY <2>1, <2>2
<1>13. NotFoundMeansReplaced'
  BY <1>1, <1>2 DEF OrderInv, NotFoundMeansReplaced
<1> QED
  BY <1>8, <1>9, <1>10, <1>11, <1>12, <1>13 DEF OrderInv

-----------------------------------------------------------------------------
(* Handlers.                                                               *)

\* A step that changes no call and no client.
LEMMA CallingKept ==
  ASSUME Calling, UNCHANGED <<waits, reply, sess, chunk>>,
         \A w \in Workers :
           /\ req'[w].rpc = req[w].rpc /\ req'[w].client = req[w].client
           /\ req'[w].chunk = req[w].chunk
           /\ req[w].rpc # "create" => req'[w].session = req[w].session
  PROVE  Calling'
BY DEF Calling, Given

\* Nor does it change who holds what.
LEMMA HeldKept ==
  ASSUME UNCHANGED <<reply, sess>>
  PROVE  \A c \in Clients : Held(c)' = Held(c) /\ (Given(c)' <=> Given(c))
BY DEF Held, Given

\* A step of the daemon that neither reads, runs nor answers anything.
LEMMA QuietOrder ==
  ASSUME OrderInv, ServiceInv',
         UNCHANGED <<minted, frames, result, ran, req, got, sess, chunk, waits, reply>>,
         \A w \in Workers : pc'[w] = "build" <=> pc[w] = "build",
         \A w \in Workers : pc'[w] = "write" <=> pc[w] = "write",
         \A w \in Workers : pc'[w] = "model" => pc[w] = "model",
         main' \in {"serving", "teardown"} => main \in {"serving", "teardown"},
         Replaced'
  PROVE  OrderInv'
<1>1. Calling'
  BY CallingKept DEF OrderInv
<1>2. Owned'
  BY HeldKept, OwnedKept DEF OrderInv
<1>3. Staged' /\ Done'
  BY DEF OrderInv, Staged, Done
<1>4. NotFoundMeansReplaced'
  BY DEF OrderInv, NotFoundMeansReplaced
<1> QED
  BY <1>1, <1>2, <1>3, <1>4 DEF OrderInv

\* Taking the lock changes nothing else.
LEMMA AcquireOrder ==
  ASSUME OrderInv, NEW w \in Workers, Acquire(w), ServiceInv'
  PROVE  OrderInv'
<1>1. /\ pc[w] = "entry" /\ pc' = [pc EXCEPT ![w] = "body"]
      /\ UNCHANGED <<active, minted, frames, result, ran, req, got, main,
                     sess, chunk, waits, reply>>
  BY DEF Acquire, memoryVars, clientVars
<1>2. pc'[w] = "body" /\ \A v \in Workers : v # w => pc'[v] = pc[v]
  BY <1>1 DEF OrderInv, ServiceInv, TypeOK
<1>3. Replaced'
  <2>1. ASSUME NEW v \in Workers, pc[v] = "body", req[v].rpc = "create"
        PROVE  pc'[v] = "body" /\ req'[v].rpc = "create"
    BY <1>1, <1>2, <2>1
  <2> QED
    BY <1>1, <2>1, HeldKept DEF OrderInv, Replaced
<1> QED
  BY <1>1, <1>2, <1>3, QuietOrder

\* A preempted session is about to be replaced.
LEMMA PreemptOrder ==
  ASSUME OrderInv, NEW w \in Workers, Preempt(w), ServiceInv'
  PROVE  OrderInv'
<1>1. /\ pc[w] = "body" /\ req[w].rpc = "create"
      /\ UNCHANGED <<pc, minted, frames, result, ran, req, got, main,
                     sess, chunk, waits, reply>>
  BY DEF Preempt, memoryVars, clientVars
<1>2. Replaced'
  BY <1>1 DEF Replaced
<1> QED
  BY <1>1, <1>2, QuietOrder

\* The steps of the main thread, after which nothing is served any more.
LEMMA MainOrder ==
  ASSUME OrderInv, Signal \/ Reset \/ Stop \/ Stopped \/ UNCHANGED vars, ServiceInv'
  PROVE  OrderInv'
<1>1. UNCHANGED <<pc, minted, frames, result, ran, req, got, sess, chunk, waits, reply>>
  BY DEF Signal, Reset, Stop, Stopped, vars, daemonVars, memoryVars, clientVars
<1>2. \/ main' \notin {"serving", "teardown"}
      \/ main \in {"serving", "teardown"} /\ active' = active
      \/ main' = main /\ active' = active
  BY DEF Signal, Reset, Stop, Stopped, vars, daemonVars
<1>3. Replaced'
  BY <1>1, <1>2, HeldKept DEF OrderInv, Replaced
<1> QED
  BY <1>1, <1>2, <1>3, QuietOrder

\* The frames that are read are those of the chunk.
LEMMA ReadFramesOrder ==
  ASSUME OrderInv, NEW w \in Workers, ReadFrames(w), ServiceInv'
  PROVE  OrderInv'
<1>1. /\ pc[w] = "body" /\ req[w].rpc = "chunk" /\ active = req[w].session
      /\ got' = [got EXCEPT ![w] = frames[active]]
      /\ pc' = [pc EXCEPT ![w] = "model"]
      /\ UNCHANGED <<active, minted, frames, result, ran, req, main,
                     sess, chunk, waits, reply>>
  BY DEF ReadFrames, memoryVars, clientVars
<1>2. /\ pc'[w] = "model" /\ got'[w] = frames[req[w].session]
      /\ \A v \in Workers : v # w => pc'[v] = pc[v] /\ got'[v] = got[v]
  BY <1>1 DEF OrderInv, ServiceInv, TypeOK
<1>3. Calling'
  BY <1>1, CallingKept DEF OrderInv
<1>4. Owned'
  BY <1>1, <1>2, HeldKept, OwnedKept DEF OrderInv
<1>5. Staged'
  BY <1>1, <1>2 DEF OrderInv, Staged
<1>6. Done' /\ NotFoundMeansReplaced'
  BY <1>1 DEF OrderInv, Done, NotFoundMeansReplaced
<1>7. Replaced'
  <2>1. ASSUME NEW v \in Workers, pc[v] = "body", req[v].rpc = "create"
        PROVE  pc'[v] = "body" /\ req'[v].rpc = "create"
    BY <1>1, <1>2, <2>1
  <2> QED
    BY <1>1, <2>1, HeldKept DEF OrderInv, Replaced
<1> QED
  BY <1>3, <1>4, <1>5, <1>6, <1>7 DEF OrderInv

\* A chunk that runs is the only one of its session, and nobody thinks the
\* session idle or new.
LEMMA RunModelOrder ==
  ASSUME OrderInv, NEW w \in Workers, RunModel(w), ServiceInv'
  PROVE  OrderInv'
<1> DEFINE s == req[w].session
<1>1. /\ pc[w] = "model" /\ req[w].rpc = "chunk" /\ s \in Session /\ s \in 1 .. minted
      /\ ran' = [ran EXCEPT ![s] = ran[s] + 1]
      /\ pc' = [pc EXCEPT ![w] = "write"]
      /\ UNCHANGED <<active, minted, frames, result, req, got, main,
                     sess, chunk, waits, reply>>
  <2>1. pc[w] = "model" /\ req[w].rpc = "chunk"
    BY DEF RunModel, OrderInv, ServiceInv, Threads
  <2>2. s \in Session /\ s \in 1 .. minted
    BY <2>1, Drawn DEF OrderInv
  <2> QED
    BY <2>1, <2>2 DEF RunModel, memoryVars, clientVars
<1>2. /\ pc'[w] = "write" /\ \A v \in Workers : v # w => pc'[v] = pc[v]
      /\ ran'[s] = ran[s] + 1 /\ ran[s] \in Nat
      /\ \A t \in Session : t # s => ran'[t] = ran[t]
  BY <1>1 DEF OrderInv, ServiceInv, TypeOK
<1>3. \A t \in Session : Untouched(t) => t # s /\ Untouched(t)'
  BY <1>1, <1>2 DEF Untouched
<1>4. Calling'
  BY <1>1, CallingKept DEF OrderInv
<1>5. Owned'
  <2>1. \A c, d \in Clients : Held(c)' # None /\ Held(c)' = Held(d)' => c = d
    BY <1>1, HeldKept DEF OrderInv, Owned
  <2>2. ASSUME NEW c \in Clients, Given(c)'
        PROVE  /\ frames'[reply'[c].session] = 0 /\ ran'[reply'[c].session] = 0
               /\ \A v \in Workers : req'[v].rpc \in {"chunk", "destroy"} =>
                    req'[v].session # reply'[c].session
    <3>1. Given(c) /\ reply'[c] = reply[c]
      BY <1>1, <2>2 DEF Given
    <3>2. reply[c].session \in Session
      BY <3>1, Drawn DEF OrderInv, ServiceInv, Numbered, Given
    <3>3. Untouched(reply[c].session)
      BY <3>1 DEF OrderInv, Owned
    <3> QED
      BY <1>1, <1>2, <1>3, <3>1, <3>2, <3>3 DEF Untouched
  <2>3. ASSUME NEW v \in Workers, pc'[v] = "build"
        PROVE  /\ frames'[minted'] = 0 /\ ran'[minted'] = 0
               /\ \A x \in Workers : req'[x].rpc \in {"chunk", "destroy"} =>
                    req'[x].session # minted'
               /\ \A c \in Clients : Held(c)' # minted'
    <3>1. pc[v] = "build"
      BY <1>2, <2>3
    <3>2. Untouched(minted) /\ \A c \in Clients : Held(c) # minted
      BY <3>1 DEF OrderInv, Owned
    <3>3. minted \in Session
      BY <3>1, Drawn DEF OrderInv, ServiceInv, Threads
    <3> QED
      BY <1>1, <1>2, <1>3, <3>2, <3>3, HeldKept DEF Untouched
  <2>4. ASSUME NEW t \in Session, t > minted'
        PROVE  /\ frames'[t] = 0 /\ ran'[t] = 0
               /\ \A v \in Workers : req'[v].rpc \in {"chunk", "destroy"} => req'[v].session # t
    <3>1. Untouched(t)
      BY <1>1, <2>4 DEF OrderInv, Owned
    <3> QED
      BY <1>1, <1>2, <1>3, <3>1 DEF Untouched
  <2> QED
    BY <2>1, <2>2, <2>3, <2>4 DEF Owned, Untouched
<1>6. Staged'
  <2>1. \A v \in Workers : req[v].rpc = "chunk" /\ v # w =>
          req[v].session # s /\ req[v].session \in Session
    BY <1>1, Drawn DEF OrderInv, Staged
  <2>2. req[w].chunk \in Nat
    BY <1>1, BoundAssumption DEF OrderInv, ServiceInv, TypeOK, Request
  <2>3. \A v \in Workers : req'[v].rpc = "chunk" =>
          /\ req'[v].chunk # 0
          /\ frames'[req'[v].session] = req'[v].chunk
          /\ pc'[v] # "write" => ran'[req'[v].session] = req'[v].chunk - 1
          /\ pc'[v] = "write" => ran'[req'[v].session] = req'[v].chunk
          /\ pc'[v] \in {"model", "write"} => got'[v] = req'[v].chunk
    BY <1>1, <1>2, <2>1, <2>2 DEF OrderInv, Staged
  <2> QED
    BY <1>1, <2>3 DEF OrderInv, Staged
<1>7. Done'
  <2>1. \A c \in Clients : sess[c] = s => waits[c] # None /\ reply[c] = None
    BY <1>1, ThreadAssumption DEF OrderInv, Staged, Calling
  <2>2. \A c \in Clients : sess[c] # None => sess[c] \in Session
    BY Drawn DEF OrderInv
  <2>3. \A c \in Clients : reply[c] # None /\ reply[c].rpc = "chunk" => sess[c] # None
    BY DEF OrderInv, Calling
  <2> QED
    BY <1>1, <1>2, <2>1, <2>2, <2>3 DEF OrderInv, Done
<1>8. Replaced'
  <2>1. ASSUME NEW v \in Workers, pc[v] = "body", req[v].rpc = "create"
        PROVE  pc'[v] = "body" /\ req'[v].rpc = "create"
    BY <1>1, <1>2, <2>1
  <2> QED
    BY <1>1, <2>1, HeldKept DEF OrderInv, Replaced
<1>9. NotFoundMeansReplaced'
  BY <1>1 DEF OrderInv, NotFoundMeansReplaced
<1> QED
  BY <1>4, <1>5, <1>6, <1>7, <1>8, <1>9 DEF OrderInv

\* A session that is numbered is nobody's yet, and replaces every other.
LEMMA CreateReaderOrder ==
  ASSUME OrderInv, NEW w \in Workers, CreateReader(w), ServiceInv'
  PROVE  OrderInv'
<1>1. /\ pc[w] = "body" /\ req[w].rpc = "create"
      /\ minted' = minted + 1 /\ minted \in Nat
      /\ req' = [req EXCEPT ![w].session = minted + 1]
      /\ pc' = [pc EXCEPT ![w] = "build"]
      /\ UNCHANGED <<active, frames, result, ran, got, main, sess, chunk, waits, reply>>
  BY Drawn DEF CreateReader, memoryVars, clientVars, OrderInv
<1>2. /\ pc'[w] = "build" /\ \A v \in Workers : v # w => pc'[v] = pc[v] /\ req'[v] = req[v]
      /\ req'[w].rpc = "create" /\ req'[w].client = req[w].client
      /\ req'[w].chunk = req[w].chunk
  BY <1>1 DEF OrderInv, ServiceInv, TypeOK, Request
<1>3. minted' \in Session /\ minted' > minted
  <2>1. minted' \in 0 .. MaxSessions
    BY DEF ServiceInv, TypeOK
  <2> QED
    BY <1>1, <2>1, BoundAssumption DEF Session
<1>4. /\ \A c \in Clients : Held(c)' = Held(c) /\ (Given(c)' <=> Given(c))
      /\ \A c \in Clients : Held(c) # None => Held(c) < minted'
  BY <1>1, HeldKept, Drawn DEF OrderInv
<1>5. Calling'
  BY <1>1, <1>2, CallingKept DEF OrderInv
<1>6. \A v \in Workers : req'[v].rpc \in {"chunk", "destroy"} => v # w /\ req'[v] = req[v]
  BY <1>2
<1>7. Owned'
  <2>1. \A c, d \in Clients : Held(c)' # None /\ Held(c)' = Held(d)' => c = d
    BY <1>4 DEF OrderInv, Owned
  <2>2. ASSUME NEW c \in Clients, Given(c)'
        PROVE  /\ frames'[reply'[c].session] = 0 /\ ran'[reply'[c].session] = 0
               /\ \A v \in Workers : req'[v].rpc \in {"chunk", "destroy"} =>
                    req'[v].session # reply'[c].session
    <3>1. Given(c) /\ reply'[c] = reply[c]
      BY <1>1, <2>2 DEF Given
    <3> QED
      BY <1>1, <1>6, <3>1 DEF OrderInv, Owned, Untouched
  <2>3. /\ frames'[minted'] = 0 /\ ran'[minted'] = 0
        /\ \A v \in Workers : req'[v].rpc \in {"chunk", "destroy"} => req'[v].session # minted'
        /\ \A c \in Clients : Held(c)' # minted'
    <3>1. Untouched(minted')
      BY <1>3 DEF OrderInv, Owned
    <3>2. \A c \in Clients : Held(c)' # minted'
      BY <1>3, <1>4, NoneAssumption DEF Session
    <3> QED
      BY <1>1, <1>6, <3>1, <3>2 DEF Untouched
  <2>4. ASSUME NEW t \in Session, t > minted'
        PROVE  /\ frames'[t] = 0 /\ ran'[t] = 0
               /\ \A v \in Workers : req'[v].rpc \in {"chunk", "destroy"} => req'[v].session # t
    <3>1. t > minted
      BY <1>1, <1>3, <2>4 DEF Session
    <3> QED
      BY <1>1, <1>6, <3>1 DEF OrderInv, Owned, Untouched
  <2> QED
    BY <2>1, <2>2, <2>3, <2>4 DEF Owned, Untouched
<1>8. Staged'
  BY <1>1, <1>2, <1>6 DEF OrderInv, Staged
<1>9. Done'
  BY <1>1 DEF OrderInv, Done
<1>10. Replaced'
  <2>1. \A c \in Clients : Held(c)' # None => minted' > Held(c)'
    BY <1>3, <1>4, Drawn DEF OrderInv
  <2> QED
    BY <2>1 DEF Replaced
<1>11. NotFoundMeansReplaced'
  <2>1. \A c \in Clients : minted > sess[c] /\ sess[c] # None => minted' > sess[c]
    BY <1>1, Drawn DEF OrderInv
  <2>2. \A c \in Clients : reply[c] # None /\ reply[c].code = "not_found" => sess[c] # None
    BY DEF OrderInv, Calling
  <2> QED
    BY <1>1, <2>1, <2>2 DEF OrderInv, NotFoundMeansReplaced
<1> QED
  BY <1>5, <1>7, <1>8, <1>9, <1>10, <1>11 DEF OrderInv

-----------------------------------------------------------------------------
(* The end of a handler.                                                   *)

\* A handler ends and its response goes to the client that still waits.
Ends(w, code, s) ==
  LET c == req[w].client IN
  /\ pc[w] # "idle"
  /\ pc' = [pc EXCEPT ![w] = "idle"]
  /\ req' = [req EXCEPT ![w] = NoRequest]
  /\ \A v \in Workers : v # w => got'[v] = got[v]
  /\ reply' = IF waits[c] = w
                THEN [reply EXCEPT ![c] = [code |-> code, rpc |-> req[w].rpc, session |-> s]]
                ELSE reply
  /\ UNCHANGED <<main, sess, chunk, waits>>

\* Respond is such an end.
LEMMA RespondEnds ==
  ASSUME ServiceInv, NEW w \in Workers, pc[w] # "idle", NEW code, NEW s, Respond(w, code, s)
  PROVE  Ends(w, code, s)
BY DEF Respond, Ends, ServiceInv, TypeOK

\* The client the response reaches waits for it and has no other.
LEMMA Answers ==
  ASSUME OrderInv, NEW w \in Workers, NEW code \in {"ok", "error", "not_found"},
         NEW s \in Session \cup {None}, Ends(w, code, s)
  PROVE  /\ req[w].client \in Clients /\ req[w].rpc \in Rpc
         /\ pc'[w] = "idle" /\ req'[w].rpc = "none" /\ req'[w].client = None
         /\ \A v \in Workers : v # w => pc'[v] = pc[v] /\ req'[v] = req[v] /\ got'[v] = got[v]
         /\ UNCHANGED <<main, sess, chunk, waits>>
         /\ \A c \in Clients :
              \/ reply'[c] = reply[c] /\ ~ (waits[c] = w /\ req[w].client = c)
              \/ /\ reply'[c].code = code /\ reply'[c].rpc = req[w].rpc
                 /\ reply'[c].session = s /\ reply'[c] # None
                 /\ waits[c] = w /\ req[w].client = c /\ reply[c] = None
                 /\ req[w].rpc = "create" => sess[c] = None
                 /\ req[w].rpc # "create" => sess[c] = req[w].session
                 /\ req[w].rpc = "chunk" => chunk[c] = req[w].chunk
<1>1. req[w].client \in Clients /\ req[w].rpc \in Rpc
  BY DEF Ends, OrderInv, ServiceInv, Threads, TypeOK, Request
<1>2. /\ pc'[w] = "idle" /\ req'[w].rpc = "none" /\ req'[w].client = None
      /\ \A v \in Workers : v # w => pc'[v] = pc[v] /\ req'[v] = req[v] /\ got'[v] = got[v]
      /\ UNCHANGED <<main, sess, chunk, waits>>
  BY DEF Ends, NoRequest, OrderInv, ServiceInv, TypeOK
<1>3. ASSUME NEW c \in Clients, waits[c] = w, req[w].client = c
      PROVE  /\ reply'[c].code = code /\ reply'[c].rpc = req[w].rpc
             /\ reply'[c].session = s /\ reply'[c] # None
  <2>1. reply'[c] = [code |-> code, rpc |-> req[w].rpc, session |-> s]
    BY <1>3 DEF Ends, OrderInv, ServiceInv, TypeOK
  <2>2. reply'[c] \in Response
    BY <1>1, <2>1 DEF Response
  <2> QED
    BY <2>1, <2>2, ResponseAssumption
<1>4. ASSUME NEW c \in Clients, ~ (waits[c] = w /\ req[w].client = c)
      PROVE  reply'[c] = reply[c]
  BY <1>1, <1>4 DEF Ends, OrderInv, ServiceInv, TypeOK
<1>5. ASSUME NEW c \in Clients, waits[c] = w, req[w].client = c
      PROVE  /\ reply[c] = None
             /\ req[w].rpc = "create" => sess[c] = None
             /\ req[w].rpc # "create" => sess[c] = req[w].session
             /\ req[w].rpc = "chunk" => chunk[c] = req[w].chunk
  BY <1>5 DEF OrderInv, Calling
<1> QED
  BY <1>1, <1>2, <1>3, <1>4, <1>5

\* Whatever the answer, the calls of the others go on as they were.
LEMMA AnswerCalls ==
  ASSUME OrderInv, ServiceInv', NEW w \in Workers,
         NEW code \in {"ok", "error", "not_found"}, NEW s \in Session \cup {None},
         Ends(w, code, s),
         code = "not_found" => req[w].rpc # "create",
         UNCHANGED <<frames, ran>>
  PROVE  Calling' /\ Staged'
<1>1. /\ req[w].client \in Clients /\ req[w].rpc \in Rpc
      /\ pc'[w] = "idle" /\ req'[w].rpc = "none" /\ req'[w].client = None
      /\ \A v \in Workers : v # w => pc'[v] = pc[v] /\ req'[v] = req[v] /\ got'[v] = got[v]
      /\ UNCHANGED <<sess, chunk, waits>>
      /\ \A c \in Clients :
           \/ reply'[c] = reply[c] /\ ~ (waits[c] = w /\ req[w].client = c)
           \/ /\ reply'[c].code = code /\ reply'[c].rpc = req[w].rpc
              /\ waits[c] = w /\ reply[c] = None
              /\ req[w].rpc = "create" => sess[c] = None
              /\ req[w].rpc # "create" => sess[c] = req[w].session
  BY Answers
<1>2. req[w].rpc # "create" => req[w].session # None
  BY <1>1, Drawn, NoneAssumption DEF OrderInv, Rpc
<1>3. Calling'
  <2>1. \A v \in Workers : req'[v].rpc = "none" => req'[v].client = None
    BY <1>1 DEF OrderInv, Calling
  <2>2. ASSUME NEW c \in Clients
        PROVE  /\ reply'[c] # None => waits'[c] # None
               /\ sess'[c] = None => chunk'[c] = 0
               /\ Given(c)' => sess'[c] = None
               /\ reply'[c] # None /\ reply'[c].rpc # "create" => sess'[c] # None
               /\ reply'[c] # None /\ reply'[c].code = "not_found" => reply'[c].rpc # "create"
    <3>1. CASE reply'[c] = reply[c]
      BY <1>1, <3>1 DEF OrderInv, Calling, Given
    <3>2. CASE reply'[c] # reply[c]
      BY <1>1, <1>2, <3>2, ThreadAssumption DEF OrderInv, Calling, Given
    <3> QED
      BY <3>1, <3>2
  <2>3. ASSUME NEW c \in Clients, NEW v \in Workers, waits'[c] = v, req'[v].client = c
        PROVE  /\ reply'[c] = None
               /\ req'[v].rpc = "create" => sess'[c] = None
               /\ req'[v].rpc # "create" => sess'[c] = req'[v].session
               /\ req'[v].rpc = "chunk" => chunk'[c] = req'[v].chunk
    <3>1. v # w
      BY <1>1, <2>3, ThreadAssumption
    <3>2. waits[c] = v /\ req[v].client = c /\ req'[v] = req[v] /\ reply'[c] = reply[c]
      BY <1>1, <2>3, <3>1
    <3> QED
      BY <1>1, <3>2 DEF OrderInv, Calling
  <2> QED
    BY <2>1, <2>2, <2>3 DEF Calling
<1>4. Staged'
  <2>1. \A v \in Workers : req'[v].rpc \in {"chunk", "destroy"} => v # w /\ req'[v] = req[v]
    BY <1>1
  <2> QED
    BY <1>1, <2>1 DEF OrderInv, Staged
<1> QED
  BY <1>3, <1>4

\* An answer that is not a new session leaves each client what it holds.
LEMMA AnswerHeld ==
  ASSUME OrderInv, NEW w \in Workers,
         NEW code \in {"ok", "error", "not_found"}, NEW s \in Session \cup {None},
         Ends(w, code, s),
         code # "ok" \/ req[w].rpc # "create"
  PROVE  \A c \in Clients :
           Held(c)' = Held(c) /\ (Given(c)' => Given(c) /\ reply'[c] = reply[c])
<1> SUFFICES ASSUME NEW c \in Clients
             PROVE  Held(c)' = Held(c) /\ (Given(c)' => Given(c) /\ reply'[c] = reply[c])
  OBVIOUS
<1>1. /\ sess' = sess
      /\ \/ reply'[c] = reply[c]
         \/ reply'[c].code = code /\ reply'[c].rpc = req[w].rpc /\ reply[c] = None
  BY Answers
<1> QED
  BY <1>1 DEF Held, Given

\* Such an answer takes no session away, if the session in use stays.
LEMMA AnswerKeeps ==
  ASSUME OrderInv, ServiceInv', NEW w \in Workers,
         NEW code \in {"ok", "error", "not_found"}, NEW s \in Session \cup {None},
         Ends(w, code, s),
         code # "ok" \/ req[w].rpc # "create",
         UNCHANGED <<active, frames, ran>>,
         \/ minted' = minted /\ ~ (pc[w] = "body" /\ req[w].rpc = "create")
         \/ minted' = minted + 1 /\ \A v \in Workers : pc'[v] # "build"
  PROVE  Owned' /\ Replaced'
<1>1. /\ pc'[w] = "idle" /\ req'[w].rpc = "none"
      /\ \A v \in Workers : v # w => pc'[v] = pc[v] /\ req'[v] = req[v]
      /\ main' = main
      /\ \A c \in Clients : reply[c] # None => reply'[c] = reply[c]
  BY Answers
<1>2. \A c \in Clients :
        Held(c)' = Held(c) /\ (Given(c)' => Given(c) /\ reply'[c] = reply[c])
  BY AnswerHeld
<1>3. Owned'
  <2>1. \A v \in Workers : req'[v].rpc \in {"chunk", "destroy"} =>
          req[v].rpc \in {"chunk", "destroy"} /\ req'[v].session = req[v].session
    BY <1>1
  <2>2. \A v \in Workers : pc'[v] = "build" => pc[v] = "build"
    BY <1>1
  <2>3. CASE minted' = minted
    BY <1>2, <2>1, <2>2, <2>3, OwnedKept DEF OrderInv
  <2>4. CASE minted' = minted + 1 /\ \A v \in Workers : pc'[v] # "build"
    <3>1. \A c, d \in Clients : Held(c)' # None /\ Held(c)' = Held(d)' => c = d
      BY <1>2 DEF OrderInv, Owned
    <3>2. ASSUME NEW c \in Clients, Given(c)'
          PROVE  /\ frames'[reply'[c].session] = 0 /\ ran'[reply'[c].session] = 0
                 /\ \A v \in Workers : req'[v].rpc \in {"chunk", "destroy"} =>
                      req'[v].session # reply'[c].session
      <4>1. Given(c) /\ reply'[c] = reply[c]
        BY <1>2, <3>2
      <4>2. Untouched(reply[c].session)
        BY <4>1 DEF OrderInv, Owned
      <4> QED
        BY <2>1, <4>1, <4>2 DEF Untouched
    <3>3. ASSUME NEW t \in Session, t > minted'
          PROVE  /\ frames'[t] = 0 /\ ran'[t] = 0
                 /\ \A v \in Workers :
                      req'[v].rpc \in {"chunk", "destroy"} => req'[v].session # t
      <4>1. t > minted
        BY <2>4, <3>3, Drawn DEF OrderInv
      <4>2. Untouched(t)
        BY <4>1 DEF OrderInv, Owned
      <4> QED
        BY <2>1, <4>2 DEF Untouched
    <3> QED
      BY <2>4, <3>1, <3>2, <3>3 DEF Owned, Untouched
  <2> QED
    BY <2>3, <2>4
<1>4. Replaced'
  <2> SUFFICES ASSUME NEW c \in Clients, Held(c) # None
               PROVE  \/ active = Held(c) \/ minted' > Held(c)
                      \/ main \notin {"serving", "teardown"}
                      \/ \E v \in Workers : pc'[v] = "body" /\ req'[v].rpc = "create"
                      \/ reply'[c] # None /\ reply'[c].code = "ok" /\ reply'[c].rpc = "destroy"
    BY <1>1, <1>2 DEF Replaced
  <2>1. Held(c) \in 1 .. minted /\ minted \in Nat
    BY Drawn DEF OrderInv
  <2>2. CASE minted' = minted + 1
    BY <2>1, <2>2
  <2>3. CASE minted' = minted /\ ~ (pc[w] = "body" /\ req[w].rpc = "create")
    <3>1. ASSUME NEW v \in Workers, pc[v] = "body", req[v].rpc = "create"
          PROVE  pc'[v] = "body" /\ req'[v].rpc = "create"
      BY <1>1, <2>3, <3>1
    <3> QED
      BY <1>1, <2>3, <3>1 DEF OrderInv, Replaced
  <2> QED
    BY <2>2, <2>3
<1> QED
  BY <1>3, <1>4

\* A handler that ends with an error leaves the session in use as it was.
LEMMA FailureOrder ==
  ASSUME OrderInv, ServiceInv', NEW w \in Workers, NEW s \in Session \cup {None},
         Ends(w, "error", s),
         UNCHANGED <<active, frames, result, ran>>,
         \/ minted' = minted /\ ~ (pc[w] = "body" /\ req[w].rpc = "create")
         \/ minted' = minted + 1 /\ \A v \in Workers : pc'[v] # "build"
  PROVE  OrderInv'
<1>1. Calling' /\ Staged'
  BY AnswerCalls
<1>2. Owned' /\ Replaced'
  BY AnswerKeeps
<1>3. /\ UNCHANGED <<main, sess, chunk, waits>>
      /\ \A c \in Clients : reply'[c] = reply[c] \/ reply'[c].code = "error"
  BY Answers
<1>4. Done'
  BY <1>3 DEF OrderInv, Done
<1>5. NotFoundMeansReplaced'
  <2>1. \A c \in Clients : minted > sess[c] /\ sess[c] # None => minted' > sess[c]
    BY Drawn DEF OrderInv
  <2>2. \A c \in Clients : reply[c] # None /\ reply[c].code = "not_found" => sess[c] # None
    BY DEF OrderInv, Calling
  <2> QED
    BY <1>3, <2>1, <2>2 DEF OrderInv, NotFoundMeansReplaced
<1> QED
  BY <1>1, <1>2, <1>4, <1>5 DEF OrderInv

\* Refused metadata touches no session.
LEMMA RejectCreateOrder ==
  ASSUME OrderInv, NEW w \in Workers, RejectCreate(w), ServiceInv'
  PROVE  OrderInv'
<1>1. Ends(w, "error", None) /\ pc[w] = "entry"
  BY DEF RejectCreate, Ends
<1>2. UNCHANGED <<active, minted, frames, result, ran>>
  BY DEF RejectCreate, memoryVars
<1> QED
  BY <1>1, <1>2, FailureOrder

\* A construction that fails uses its number up, or had it already.
LEMMA CreateFailsOrder ==
  ASSUME OrderInv, NEW w \in Workers, CreateFails(w), ServiceInv'
  PROVE  OrderInv'
<1>1. Ends(w, "error", None)
  BY RespondEnds DEF CreateFails, OrderInv
<1>2. UNCHANGED <<active, frames, result, ran>>
  BY DEF CreateFails, memoryVars
<1>3. CASE pc[w] = "build" /\ minted' = minted
  BY <1>1, <1>2, <1>3, FailureOrder
<1>4. CASE pc[w] = "body" /\ minted' = minted + 1
  <2>1. \A v \in Workers : pc'[v] # "build"
    <3>1. \A v \in Workers \ {w} : pc[v] # "build"
      BY <1>4, OneInside DEF OrderInv
    <3> QED
      BY <1>1, <3>1, Answers
  <2> QED
    BY <1>1, <1>2, <1>4, <2>1, FailureOrder
<1> QED
  BY <1>3, <1>4 DEF CreateFails

\* A chunk that fails leaves the session in use.
LEMMA ChunkFailsOrder ==
  ASSUME OrderInv, NEW w \in Workers, ChunkFails(w), ServiceInv'
  PROVE  OrderInv'
<1>1. pc[w] # "idle" /\ req[w].rpc = "chunk" /\ Respond(w, "error", req[w].session)
  BY DEF ChunkFails, OrderInv, ServiceInv, Threads
<1>2. Ends(w, "error", req[w].session)
  BY <1>1, RespondEnds DEF OrderInv
<1>3. req[w].session \in Session
  BY <1>1, Drawn DEF OrderInv
<1>4. UNCHANGED <<active, minted, frames, result, ran>>
  BY DEF ChunkFails, memoryVars
<1> QED
  BY <1>1, <1>2, <1>3, <1>4, FailureOrder

\* The client whose session is not the active one was replaced: it did not
\* destroy the session itself, and no CreateSession is inside.
LEMMA NotFoundOrder ==
  ASSUME OrderInv, NEW w \in Workers, NotFound(w), ServiceInv'
  PROVE  OrderInv'
<1> DEFINE s == req[w].session
<1>1. /\ pc[w] = "body" /\ req[w].rpc \in {"chunk", "destroy"} /\ active # s
      /\ Respond(w, "not_found", s)
      /\ UNCHANGED <<active, minted, frames, result, ran>>
  BY DEF NotFound, memoryVars
<1>2. s \in Session
  BY <1>1, Drawn DEF OrderInv
<1>3. Ends(w, "not_found", s)
  BY <1>1, RespondEnds DEF OrderInv
<1>4. Calling' /\ Staged'
  BY <1>1, <1>2, <1>3, AnswerCalls
<1>5. Owned' /\ Replaced'
  BY <1>1, <1>2, <1>3, AnswerKeeps
<1>6. /\ UNCHANGED <<main, sess, chunk, waits>>
      /\ \A c \in Clients :
           \/ reply'[c] = reply[c]
           \/ reply'[c].code = "not_found" /\ reply[c] = None /\ sess[c] = s
  BY <1>1, <1>2, <1>3, Answers
<1>7. Done'
  BY <1>1, <1>6 DEF OrderInv, Done
<1>8. NotFoundMeansReplaced'
  <2> SUFFICES ASSUME NEW c \in Clients, reply'[c] # None, reply'[c].code = "not_found"
               PROVE  minted > sess[c] \/ main \notin {"serving", "teardown"}
    BY <1>1, <1>6 DEF NotFoundMeansReplaced
  <2>1. CASE reply'[c] = reply[c]
    BY <2>1 DEF OrderInv, NotFoundMeansReplaced
  <2>2. CASE reply[c] = None /\ sess[c] = s
    <3>1. Held(c) = s /\ s # None
      BY <1>2, <2>2, Drawn DEF OrderInv
    <3>2. \A v \in Workers : ~ (pc[v] = "body" /\ req[v].rpc = "create")
      BY <1>1, OneInside DEF OrderInv
    <3> QED
      BY <1>1, <2>2, <3>1, <3>2 DEF OrderInv, Replaced
  <2> QED
    BY <1>6, <2>1, <2>2
<1> QED
  BY <1>4, <1>5, <1>7, <1>8 DEF OrderInv

\* The result that is announced is that of the chunk the client staged.
LEMMA WriteResultOrder ==
  ASSUME OrderInv, NEW w \in Workers, WriteResult(w), ServiceInv'
  PROVE  OrderInv'
<1> DEFINE s == req[w].session
<1>1. /\ pc[w] = "write" /\ req[w].rpc = "chunk"
      /\ Respond(w, "ok", s) /\ result' = [result EXCEPT ![s] = got[w]]
      /\ UNCHANGED <<active, minted, frames, ran>>
  BY DEF WriteResult, OrderInv, ServiceInv, Threads
<1>2. s \in Session
  BY <1>1, Drawn DEF OrderInv
<1>3. Ends(w, "ok", s)
  BY <1>1, RespondEnds DEF OrderInv
<1>4. Calling' /\ Staged'
  BY <1>1, <1>2, <1>3, AnswerCalls
<1>5. Owned' /\ Replaced'
  BY <1>1, <1>2, <1>3, AnswerKeeps
<1>6. /\ UNCHANGED <<main, sess, chunk, waits>>
      /\ \A c \in Clients :
           \/ reply'[c] = reply[c] /\ ~ (waits[c] = w /\ req[w].client = c)
           \/ /\ reply'[c].code = "ok" /\ reply'[c].rpc = "chunk" /\ reply'[c].session = s
              /\ waits[c] = w /\ sess[c] = s /\ chunk[c] = req[w].chunk
  BY <1>1, <1>2, <1>3, Answers
<1>7. /\ result'[s] = got[w] /\ \A t \in Session : t # s => result'[t] = result[t]
      /\ got[w] = req[w].chunk /\ ran[s] = req[w].chunk
  BY <1>1, <1>2 DEF OrderInv, ServiceInv, TypeOK, Staged
<1>8. Done'
  <2> SUFFICES ASSUME NEW c \in Clients
               PROVE  /\ sess[c] # None /\ waits[c] = None => ran[sess[c]] = chunk[c]
                      /\ reply'[c] # None /\ reply'[c].code = "ok" /\ reply'[c].rpc = "chunk" =>
                           /\ reply'[c].session = sess[c]
                           /\ ran[sess[c]] = chunk[c] /\ result'[sess[c]] = chunk[c]
    BY <1>1, <1>6 DEF Done
  <2>1. CASE reply'[c] = reply[c] /\ ~ (waits[c] = w /\ req[w].client = c)
    <3>1. sess[c] # s
      BY <1>1, <2>1 DEF OrderInv, Staged
    <3>2. reply[c] # None /\ reply[c].rpc = "chunk" => sess[c] \in Session
      BY Drawn DEF OrderInv, Calling
    <3> QED
      BY <1>7, <2>1, <3>1, <3>2 DEF OrderInv, Done
  <2>2. CASE /\ reply'[c].session = s /\ waits[c] = w
             /\ sess[c] = s /\ chunk[c] = req[w].chunk
    BY <1>7, <2>2, ThreadAssumption
  <2> QED
    BY <1>6, <2>1, <2>2
<1>9. NotFoundMeansReplaced'
  BY <1>1, <1>6 DEF OrderInv, NotFoundMeansReplaced
<1> QED
  BY <1>4, <1>5, <1>8, <1>9 DEF OrderInv

\* The session that is destroyed is its client's own, and he is told so if
\* he still waits.
LEMMA DestroyOrder ==
  ASSUME OrderInv, NEW w \in Workers, Destroy(w), ServiceInv'
  PROVE  OrderInv'
<1> DEFINE s == req[w].session
<1>1. /\ pc[w] = "body" /\ req[w].rpc = "destroy" /\ active = s
      /\ Respond(w, "ok", s)
      /\ UNCHANGED <<minted, frames, result, ran>>
  BY DEF Destroy, memoryVars
<1>2. s \in Session
  BY <1>1, Drawn DEF OrderInv
<1>3. Ends(w, "ok", s)
  BY <1>1, RespondEnds DEF OrderInv
<1>4. Calling' /\ Staged'
  BY <1>1, <1>2, <1>3, AnswerCalls
<1>5. /\ UNCHANGED <<main, sess, chunk, waits>>
      /\ pc'[w] = "idle" /\ req'[w].rpc = "none"
      /\ \A v \in Workers : v # w => pc'[v] = pc[v] /\ req'[v] = req[v]
      /\ \A c \in Clients :
           \/ reply'[c] = reply[c] /\ ~ (waits[c] = w /\ req[w].client = c)
           \/ /\ reply'[c].code = "ok" /\ reply'[c].rpc = "destroy" /\ reply'[c] # None
              /\ reply[c] = None
  BY <1>1, <1>2, <1>3, Answers
<1>6. \A c \in Clients :
        Held(c)' = Held(c) /\ (Given(c)' => Given(c) /\ reply'[c] = reply[c])
  BY <1>1, <1>2, <1>3, AnswerHeld
<1>7. Owned'
  <2>1. \A v \in Workers : req'[v].rpc \in {"chunk", "destroy"} =>
          req[v].rpc \in {"chunk", "destroy"} /\ req'[v].session = req[v].session
    BY <1>5
  <2>2. \A v \in Workers : pc'[v] = "build" => pc[v] = "build"
    BY <1>5
  <2> QED
    BY <1>1, <1>6, <2>1, <2>2, OwnedKept DEF OrderInv
<1>8. Done'
  BY <1>1, <1>5 DEF OrderInv, Done
<1>9. Replaced'
  <2> SUFFICES ASSUME NEW c \in Clients, Held(c) # None
               PROVE  \/ minted > Held(c) \/ main \notin {"serving", "teardown"}
                      \/ reply'[c] # None /\ reply'[c].code = "ok" /\ reply'[c].rpc = "destroy"
    BY <1>1, <1>5, <1>6 DEF Replaced
  <2>1. CASE reply'[c] = reply[c] /\ ~ (waits[c] = w /\ req[w].client = c)
    <3>1. Held(c) # s
      <4>1. CASE Given(c)
        <5>1. Untouched(reply[c].session) /\ Held(c) = reply[c].session
          BY <4>1 DEF Held, OrderInv, Owned
        <5> QED
          BY <1>1, <5>1 DEF Untouched
      <4>2. CASE ~ Given(c)
        BY <1>1, <2>1, <4>2 DEF Held, OrderInv, Staged
      <4> QED
        BY <4>1, <4>2
    <3>2. \A v \in Workers : ~ (pc[v] = "body" /\ req[v].rpc = "create")
      BY <1>1, OneInside DEF OrderInv
    <3> QED
      BY <1>1, <2>1, <3>1, <3>2 DEF OrderInv, Replaced
  <2>2. CASE reply'[c].code = "ok" /\ reply'[c].rpc = "destroy" /\ reply'[c] # None
    BY <2>2
  <2> QED
    BY <1>5, <2>1, <2>2
<1>10. NotFoundMeansReplaced'
  BY <1>1, <1>5 DEF OrderInv, NotFoundMeansReplaced
<1> QED
  BY <1>4, <1>7, <1>8, <1>9, <1>10 DEF OrderInv

\* A session that is built goes to the client that asked for it, if to any.
LEMMA CreateWriterOrder ==
  ASSUME OrderInv, NEW w \in Workers, CreateWriter(w), ServiceInv'
  PROVE  OrderInv'
<1>1. /\ pc[w] = "build" /\ req[w].rpc = "create" /\ req[w].session = minted
      /\ active = None /\ active' = minted /\ minted > 0
      /\ Respond(w, "ok", minted)
      /\ UNCHANGED <<minted, frames, result, ran>>
  BY DEF CreateWriter, memoryVars, OrderInv, ServiceInv, Threads
<1>2. minted \in Session /\ minted \in Nat /\ minted # None
  BY <1>1, Drawn, NoneAssumption DEF OrderInv
<1>3. Ends(w, "ok", minted)
  BY <1>1, RespondEnds DEF OrderInv
<1>4. Calling' /\ Staged'
  BY <1>1, <1>2, <1>3, AnswerCalls
<1>5. /\ UNCHANGED <<main, sess, chunk, waits>>
      /\ req[w].client \in Clients
      /\ pc'[w] = "idle" /\ req'[w].rpc = "none"
      /\ \A v \in Workers : v # w => pc'[v] = pc[v] /\ req'[v] = req[v]
      /\ \A c \in Clients :
           \/ reply'[c] = reply[c]
           \/ /\ reply'[c].code = "ok" /\ reply'[c].rpc = "create" /\ reply'[c] # None
              /\ reply'[c].session = minted
              /\ reply[c] = None /\ req[w].client = c
  BY <1>1, <1>2, <1>3, Answers
<1>6. Untouched(minted) /\ \A c \in Clients : Held(c) # minted
  BY <1>1 DEF OrderInv, Owned
<1>7. \A c \in Clients :
        \/ Held(c)' = Held(c) /\ reply'[c] = reply[c] /\ (Given(c)' <=> Given(c))
        \/ Held(c)' = minted /\ reply'[c].session = minted /\ req[w].client = c /\ reply[c] = None
  BY <1>5 DEF Held, Given
<1>8. Owned'
  <2>1. \A c, d \in Clients : Held(c)' # None /\ Held(c)' = Held(d)' => c = d
    BY <1>6, <1>7 DEF OrderInv, Owned
  <2>2. \A v \in Workers : req'[v].rpc \in {"chunk", "destroy"} => req'[v] = req[v]
    BY <1>5
  <2>3. ASSUME NEW c \in Clients, Given(c)'
        PROVE  /\ frames'[reply'[c].session] = 0 /\ ran'[reply'[c].session] = 0
               /\ \A v \in Workers : req'[v].rpc \in {"chunk", "destroy"} =>
                    req'[v].session # reply'[c].session
    <3>1. Untouched(reply'[c].session)
      BY <1>6, <1>7, <2>3 DEF OrderInv, Owned
    <3> QED
      BY <1>1, <2>2, <3>1 DEF Untouched
  <2>4. \A v \in Workers : pc'[v] # "build"
    BY <1>1, <1>5, OneInside DEF OrderInv
  <2>5. ASSUME NEW t \in Session, t > minted'
        PROVE  /\ frames'[t] = 0 /\ ran'[t] = 0
               /\ \A v \in Workers : req'[v].rpc \in {"chunk", "destroy"} => req'[v].session # t
    <3>1. Untouched(t)
      BY <1>1, <2>5 DEF OrderInv, Owned
    <3> QED
      BY <1>1, <2>2, <3>1 DEF Untouched
  <2> QED
    BY <2>1, <2>3, <2>4, <2>5 DEF Owned, Untouched
<1>9. Done'
  BY <1>1, <1>5 DEF OrderInv, Done
<1>10. Replaced'
  <2> SUFFICES ASSUME NEW c \in Clients, Held(c)' # None
               PROVE  minted = Held(c)' \/ minted > Held(c)'
    BY <1>1 DEF Replaced
  <2>1. CASE Held(c)' = Held(c)
    BY <1>2, <2>1, Drawn DEF OrderInv
  <2> QED
    BY <1>7, <2>1
<1>11. NotFoundMeansReplaced'
  BY <1>1, <1>5 DEF OrderInv, NotFoundMeansReplaced
<1> QED
  BY <1>4, <1>8, <1>9, <1>10, <1>11 DEF OrderInv

-----------------------------------------------------------------------------
\* Every step of a handler keeps the invariant.
LEMMA HandleOrder ==
  ASSUME OrderInv, NEW w \in Workers, Handle(w), ServiceInv'
  PROVE  OrderInv'
BY PreemptOrder, CreateReaderOrder, CreateWriterOrder, CreateFailsOrder, NotFoundOrder,
   DestroyOrder, ReadFramesOrder, RunModelOrder, WriteResultOrder, ChunkFailsOrder
   DEF Handle

\* OrderInv is inductive.
LEMMA OrderNext == OrderInv /\ [Next]_vars => OrderInv'
<1> SUFFICES ASSUME OrderInv, [Next]_vars PROVE OrderInv'
  OBVIOUS
<1>1. ServiceInv'
  BY NextInv DEF OrderInv
<1>2. ASSUME NEW c \in Clients, NEW w \in Workers,
             CallCreate(c, w) \/ CallChunk(c, w) \/ CallDestroy(c, w)
      PROVE  OrderInv'
  BY <1>1, <1>2, CallCreateOrder, CallChunkOrder, CallDestroyOrder
<1>3. ASSUME NEW c \in Clients, Timeout(c) \/ Receive(c)
      PROVE  OrderInv'
  BY <1>1, <1>3, TimeoutOrder, ReceiveOrder
<1>4. ASSUME NEW w \in Workers, RejectCreate(w) \/ Acquire(w) \/ Handle(w)
      PROVE  OrderInv'
  BY <1>1, <1>4, RejectCreateOrder, AcquireOrder, HandleOrder
<1>5. ASSUME Signal \/ Reset \/ Stop \/ Stopped \/ Ended \/ UNCHANGED vars
      PROVE  OrderInv'
  BY <1>1, <1>5, MainOrder DEF Ended
<1> QED
  BY <1>2, <1>3, <1>4, <1>5 DEF Next

\* In every execution sessions have one client each, which knows what it
\* staged, and a chunk under way is the one its client waits for
\* (service.py:132-192 under _lock).
THEOREM OrderInvariant == Spec => []OrderInv
BY OrderInit, OrderNext, PTL DEF Spec

\* The chunks of a session run once each, in the order they were staged and
\* from their own frames, although calls whose client gave up still run.
THEOREM ChunksStayInOrder == Spec => []ChunksInOrder
<1>1. OrderInv => ChunksInOrder
  <2> SUFFICES ASSUME OrderInv, NEW w \in Workers, pc[w] = "model"
               PROVE  got[w] = req[w].chunk /\ ran[req[w].session] = got[w] - 1
    BY DEF ChunksInOrder
  <2>1. req[w].rpc = "chunk"
    BY DEF OrderInv, ServiceInv, Threads
  <2> QED
    BY <2>1 DEF OrderInv, Staged
<1> QED
  BY <1>1, OrderInvariant, PTL

\* The client that is told its chunk is done finds the result of that chunk
\* in the output segment of its session.
THEOREM ResultsAreOwn == Spec => []OwnResult
<1>1. OrderInv => OwnResult
  BY DEF OrderInv, Done, OwnResult
<1> QED
  BY <1>1, OrderInvariant, PTL

\* "Session not found" means that another CreateSession came after, or that
\* the daemon shuts down.
THEOREM NotFoundIsTrue == Spec => []NotFoundMeansReplaced
<1>1. OrderInv => NotFoundMeansReplaced
  BY DEF OrderInv
<1> QED
  BY <1>1, OrderInvariant, PTL

-----------------------------------------------------------------------------
(* The refinement of SessionRegistry.                                      *)

\* A session is retired when it has been numbered and is neither active nor
\* being built; at most one session is one of these.
LEMMA RetiredIs ==
  ServiceInv =>
    /\ (\A w \in Workers : pc[w] # "build") => Retired = 1 .. minted \ {active}
    /\ (\E w \in Workers : pc[w] = "build") => Retired = 1 .. minted \ {minted}
<1> SUFFICES ASSUME ServiceInv
             PROVE  /\ (\A w \in Workers : pc[w] # "build") => Retired = 1 .. minted \ {active}
                    /\ (\E w \in Workers : pc[w] = "build") => Retired = 1 .. minted \ {minted}
  OBVIOUS
<1>1. ASSUME \A w \in Workers : pc[w] # "build"
      PROVE  Retired = 1 .. minted \ {active}
  BY <1>1 DEF Retired
<1>2. ASSUME NEW w \in Workers, pc[w] = "build"
      PROVE  Retired = 1 .. minted \ {minted}
  <2>1. active = None /\ \A s \in 1 .. minted : s # None
    BY <1>2, NoneAssumption DEF ServiceInv, Threads, TypeOK
  <2>2. \A v \in Workers : pc[v] = "build" => req[v].session = minted
    BY DEF ServiceInv, Threads
  <2>3. req[w].session = minted
    BY <1>2, <2>2
  <2> QED
    BY <1>2, <2>1, <2>2, <2>3 DEF Retired
<1> QED
  BY <1>1, <1>2

\* The same after a step.
LEMMA RetiredIsNext ==
  ASSUME ServiceInv'
  PROVE  /\ (\A w \in Workers : pc'[w] # "build") => Retired' = 1 .. minted' \ {active'}
         /\ (\E w \in Workers : pc'[w] = "build") => Retired' = 1 .. minted' \ {minted'}
<1>1. (ServiceInv =>
         /\ (\A w \in Workers : pc[w] # "build") => Retired = 1 .. minted \ {active}
         /\ (\E w \in Workers : pc[w] = "build") => Retired = 1 .. minted \ {minted})'
  BY RetiredIs, PTL
<1> QED
  BY <1>1

\* The daemon starts where the registry starts.
LEMMA RegistryInit == Init => Registry!Init
<1> SUFFICES ASSUME Init PROVE Registry!Init
  OBVIOUS
<1>1. Retired = {}
  BY DEF Init, Retired
<1> QED
  BY <1>1 DEF Init, Registry!Init

\* A step that builds nothing and changes no session is a stutter.
LEMMA RegistryStutters ==
  ASSUME ServiceInv, ServiceInv', UNCHANGED <<active, minted, ran, result>>,
         \A w \in Workers : pc'[w] = "build" <=> pc[w] = "build"
  PROVE  UNCHANGED <<active, Retired, ran, result>>
BY RetiredIs, RetiredIsNext

\* The end of a handler ends a construction too, if it was in one.
LEMMA EndsBuildNothing ==
  ASSUME ServiceInv, NEW w \in Workers, NEW code, NEW s,
         pc[w] \notin {"idle", "entry"}, Respond(w, code, s)
  PROVE  \A v \in Workers : pc'[v] # "build"
<1>1. pc'[w] = "idle" /\ \A v \in Workers : v # w => pc'[v] = pc[v]
  BY DEF Respond, ServiceInv, TypeOK
<1> QED
  BY <1>1, OneInside

\* Closing the session in use retires it.
LEMMA CloseRetires ==
  ASSUME ServiceInv, ServiceInv', active # None, Close, UNCHANGED <<minted, ran, result>>,
         \A w \in Workers : pc[w] # "build" /\ pc'[w] # "build"
  PROVE  Registry!Retire(active)
<1>1. active \in 1 .. minted /\ active \in Session /\ active' = None
  BY DEF Close, ServiceInv, Numbered, TypeOK
<1>2. Retired = 1 .. minted \ {active} /\ Retired' = 1 .. minted \ {None}
  BY <1>1, RetiredIs, RetiredIsNext
<1>3. Retired' = Retired \cup {active}
  BY <1>1, <1>2, NoneAssumption DEF ServiceInv, TypeOK
<1> QED
  BY <1>1, <1>2, <1>3 DEF Registry!Retire

\* Every step of a handler is a step of the registry, or a stutter.
LEMMA HandleRefines ==
  ASSUME OrderInv, ServiceInv', NEW w \in Workers, Handle(w)
  PROVE  Registry!Next \/ UNCHANGED <<active, Retired, ran, result>>
<1>0. ServiceInv /\ minted \in Nat
  BY Drawn DEF OrderInv
<1>1. CASE Preempt(w)
  <2>1. pc[w] = "body" /\ active # None /\ Close /\ UNCHANGED <<pc, minted, ran, result>>
    BY <1>1 DEF Preempt, memoryVars
  <2>2. \A v \in Workers : pc[v] # "build" /\ pc'[v] # "build"
    BY <1>0, <2>1, OneInside
  <2>3. Registry!Retire(active) /\ active \in Session
    BY <1>0, <2>1, <2>2, CloseRetires DEF ServiceInv, TypeOK
  <2> QED
    BY <2>3 DEF Registry!Next
<1>2. CASE CreateReader(w)
  <2>1. /\ pc[w] = "body" /\ active = None /\ active' = None /\ minted' = minted + 1
        /\ pc' = [pc EXCEPT ![w] = "build"] /\ UNCHANGED <<ran, result>>
    BY <1>2 DEF CreateReader, memoryVars
  <2>2. Retired = 1 .. minted \ {None}
    BY <1>0, <2>1, OneInside, RetiredIs
  <2>3. Retired' = 1 .. (minted + 1) \ {minted + 1}
    <3>1. pc'[w] = "build"
      BY <1>0, <2>1 DEF ServiceInv, TypeOK
    <3> QED
      BY <2>1, <3>1, RetiredIsNext
  <2>4. Retired' = Retired
    BY <1>0, <2>2, <2>3, NoneAssumption
  <2> QED
    BY <2>1, <2>4
<1>3. CASE CreateWriter(w)
  <2>1. /\ pc[w] = "build" /\ active = None /\ minted > 0 /\ active' = minted
        /\ UNCHANGED <<minted, ran, result>>
    BY <1>0, <1>3 DEF CreateWriter, memoryVars, ServiceInv, Threads
  <2>2. Retired = 1 .. minted \ {minted}
    BY <1>0, <2>1, RetiredIs
  <2>3. \A v \in Workers : pc'[v] # "build"
    BY <1>0, <1>3, <2>1, EndsBuildNothing DEF CreateWriter
  <2>4. Retired' = 1 .. minted \ {minted}
    BY <2>1, <2>3, RetiredIsNext
  <2>5. minted \in Session
    BY <1>0, <2>1, Drawn DEF OrderInv
  <2>6. Registry!Open(minted)
    BY <2>1, <2>2, <2>4, <2>5 DEF Registry!Open
  <2> QED
    BY <2>5, <2>6 DEF Registry!Next
<1>4. CASE CreateFails(w)
  <2>1. \A v \in Workers : pc'[v] # "build"
    BY <1>0, <1>4, EndsBuildNothing DEF CreateFails
  <2>2. UNCHANGED <<active, ran, result>>
    BY <1>4 DEF CreateFails, memoryVars
  <2>3. CASE pc[w] = "build" /\ minted' = minted
    <3>1. active = None /\ minted > 0
      BY <1>0, <2>3 DEF ServiceInv, Threads
    <3>2. Retired = 1 .. minted \ {minted} /\ Retired' = 1 .. minted \ {None}
      BY <1>0, <2>1, <2>2, <2>3, <3>1, RetiredIs, RetiredIsNext
    <3>3. Retired' = Retired \cup {minted} /\ minted \in Session
      BY <1>0, <3>1, <3>2, NoneAssumption, Drawn DEF OrderInv
    <3>4. Registry!Retire(minted)
      BY <2>2, <3>1, <3>2, <3>3 DEF Registry!Retire
    <3> QED
      BY <3>3, <3>4 DEF Registry!Next
  <2>4. CASE pc[w] = "body" /\ active = None /\ minted' = minted + 1
    <3>1. Retired = 1 .. minted \ {None} /\ Retired' = 1 .. (minted + 1) \ {None}
      <4>1. \A v \in Workers : pc[v] # "build"
        BY <1>0, <2>4, OneInside
      <4> QED
        BY <1>0, <2>1, <2>2, <2>4, <4>1, RetiredIs, RetiredIsNext
    <3>2. minted + 1 \in Session
      <4>1. minted' \in 0 .. MaxSessions
        BY DEF ServiceInv, TypeOK
      <4> QED
        BY <1>0, <2>4, <4>1, BoundAssumption DEF Session
    <3>3. Retired' = Retired \cup {minted + 1} /\ minted + 1 \notin Retired
      BY <1>0, <3>1, NoneAssumption
    <3>4. Registry!Retire(minted + 1)
      BY <2>2, <2>4, <3>2, <3>3 DEF Registry!Retire
    <3> QED
      BY <3>2, <3>4 DEF Registry!Next
  <2> QED
    BY <1>4, <2>3, <2>4 DEF CreateFails
<1>5. CASE Destroy(w)
  <2>1. /\ pc[w] = "body" /\ active = req[w].session /\ Close
        /\ Respond(w, "ok", active) /\ UNCHANGED <<minted, ran, result>>
        /\ req[w].rpc = "destroy"
    BY <1>5 DEF Destroy, memoryVars
  <2>2. \A v \in Workers : pc[v] # "build" /\ pc'[v] # "build"
    BY <1>0, <2>1, OneInside, EndsBuildNothing
  <2>3. active \in Session /\ active # None
    BY <2>1, Drawn DEF OrderInv
  <2>4. Registry!Retire(active)
    BY <1>0, <2>1, <2>2, <2>3, CloseRetires
  <2> QED
    BY <2>3, <2>4 DEF Registry!Next
<1>6. CASE RunModel(w)
  <2>1. /\ pc[w] = "model" /\ active = req[w].session /\ req[w].rpc = "chunk"
        /\ ran' = [ran EXCEPT ![active] = @ + 1]
        /\ pc' = [pc EXCEPT ![w] = "write"] /\ UNCHANGED <<active, minted, result>>
    BY <1>0, <1>6 DEF RunModel, memoryVars, ServiceInv, Threads
  <2>2. active # None
    BY <2>1, Drawn DEF OrderInv
  <2>3. \A v \in Workers : pc'[v] = "build" <=> pc[v] = "build"
    BY <1>0, <2>1 DEF ServiceInv, TypeOK
  <2>4. Retired' = Retired
    BY <1>0, <2>1, <2>3, RetiredIs, RetiredIsNext
  <2> QED
    BY <2>1, <2>2, <2>4 DEF Registry!Next, Registry!RunChunk
<1>7. CASE WriteResult(w)
  <2>1. /\ pc[w] = "write" /\ active = req[w].session /\ req[w].rpc = "chunk"
        /\ result' = [result EXCEPT ![active] = got[w]]
        /\ UNCHANGED <<active, minted, ran>>
    BY <1>0, <1>7 DEF WriteResult, memoryVars, ServiceInv, Threads
  <2>2. active # None
    BY <2>1, Drawn DEF OrderInv
  <2>3. got[w] \in 1 .. ran[active]
    <3>1. got[w] = ran[active] /\ got[w] # 0
      BY <2>1 DEF OrderInv, Staged
    <3>2. got[w] \in Nat
      BY <1>0, BoundAssumption DEF ServiceInv, TypeOK
    <3> QED
      BY <3>1, <3>2
  <2>4. \A v \in Workers : pc'[v] # "build" /\ pc[v] # "build"
    BY <1>0, <1>7, <2>1, OneInside, EndsBuildNothing DEF WriteResult
  <2>5. Retired' = Retired
    BY <1>0, <2>1, <2>4, RetiredIs, RetiredIsNext
  <2> QED
    BY <2>1, <2>2, <2>3, <2>5 DEF Registry!Next, Registry!Publish
<1>8. CASE NotFound(w)
  <2>1. pc[w] = "body" /\ UNCHANGED <<active, minted, ran, result>>
    BY <1>8 DEF NotFound, memoryVars
  <2>2. \A v \in Workers : pc'[v] # "build" /\ pc[v] # "build"
    BY <1>0, <1>8, <2>1, OneInside, EndsBuildNothing DEF NotFound
  <2> QED
    BY <1>0, <2>1, <2>2, RegistryStutters
<1>9. CASE ReadFrames(w)
  <2>1. /\ pc[w] = "body" /\ pc' = [pc EXCEPT ![w] = "model"]
        /\ UNCHANGED <<active, minted, ran, result>>
    BY <1>9 DEF ReadFrames, memoryVars
  <2>2. \A v \in Workers : pc'[v] = "build" <=> pc[v] = "build"
    BY <1>0, <2>1 DEF ServiceInv, TypeOK
  <2> QED
    BY <1>0, <2>1, <2>2, RegistryStutters
<1>10. CASE ChunkFails(w)
  <2>1. /\ pc[w] \in {"body", "model", "write"} /\ Respond(w, "error", req[w].session)
        /\ UNCHANGED <<active, minted, ran, result>>
    BY <1>10 DEF ChunkFails, memoryVars
  <2>2. \A v \in Workers : pc'[v] # "build" /\ pc[v] # "build"
    BY <1>0, <2>1, OneInside, EndsBuildNothing
  <2> QED
    BY <1>0, <2>1, <2>2, RegistryStutters
<1> QED
  BY <1>1, <1>2, <1>3, <1>4, <1>5, <1>6, <1>7, <1>8, <1>9, <1>10 DEF Handle

\* So is every step of the daemon and its clients.
LEMMA NextRefines ==
  OrderInv /\ [Next]_vars => [Registry!Next]_(Registry!registryVars)
<1> SUFFICES ASSUME OrderInv, [Next]_vars
             PROVE  Registry!Next \/ UNCHANGED <<active, Retired, ran, result>>
  BY DEF Registry!registryVars
<1>0. ServiceInv /\ ServiceInv'
  BY NextInv DEF OrderInv
<1>1. ASSUME NEW c \in Clients, NEW w \in Workers,
             CallCreate(c, w) \/ CallChunk(c, w) \/ CallDestroy(c, w)
      PROVE  UNCHANGED <<active, Retired, ran, result>>
  <2>1. /\ UNCHANGED <<active, minted, ran, result>>
        /\ pc[w] = "idle" /\ pc' = [pc EXCEPT ![w] = "entry"]
    BY <1>1 DEF CallCreate, CallChunk, CallDestroy, Call
  <2>2. \A v \in Workers : pc'[v] = "build" <=> pc[v] = "build"
    BY <1>0, <2>1 DEF ServiceInv, TypeOK
  <2> QED
    BY <1>0, <2>1, <2>2, RegistryStutters
<1>2. ASSUME NEW c \in Clients, Timeout(c) \/ Receive(c)
      PROVE  UNCHANGED <<active, Retired, ran, result>>
  <2>1. UNCHANGED <<active, minted, ran, result, pc>>
    BY <1>2 DEF Timeout, Receive, daemonVars, memoryVars
  <2> QED
    BY <1>0, <2>1, RegistryStutters
<1>3. ASSUME NEW w \in Workers, RejectCreate(w) \/ Acquire(w)
      PROVE  UNCHANGED <<active, Retired, ran, result>>
  <2>1. /\ UNCHANGED <<active, minted, ran, result>> /\ pc[w] = "entry"
        /\ pc' = [pc EXCEPT ![w] = "idle"] \/ pc' = [pc EXCEPT ![w] = "body"]
    BY <1>3 DEF RejectCreate, Acquire, memoryVars
  <2>2. \A v \in Workers : pc'[v] = "build" <=> pc[v] = "build"
    BY <1>0, <2>1 DEF ServiceInv, TypeOK
  <2> QED
    BY <1>0, <2>1, <2>2, RegistryStutters
<1>4. ASSUME NEW w \in Workers, Handle(w)
      PROVE  Registry!Next \/ UNCHANGED <<active, Retired, ran, result>>
  BY <1>0, <1>4, HandleRefines
<1>5. CASE Reset
  <2>1. /\ lock = None /\ UNCHANGED <<pc, minted, ran, result>>
        /\ (active # None /\ Close) \/ active' = active
    BY <1>5 DEF Reset, memoryVars
  <2>2. \A v \in Workers : pc[v] # "build" /\ pc'[v] # "build"
    BY <1>0, <2>1, ThreadAssumption DEF ServiceInv, Threads
  <2>3. CASE active # None /\ Close
    <3>1. Registry!Retire(active) /\ active \in Session
      BY <1>0, <2>1, <2>2, <2>3, CloseRetires DEF ServiceInv, TypeOK
    <3> QED
      BY <3>1 DEF Registry!Next
  <2>4. CASE active' = active
    BY <1>0, <2>1, <2>4, RegistryStutters
  <2> QED
    BY <2>1, <2>3, <2>4
<1>6. CASE Signal \/ Stop \/ Stopped \/ Ended \/ UNCHANGED vars
  <2>1. UNCHANGED <<active, minted, ran, result, pc>>
    BY <1>6 DEF Signal, Stop, Stopped, Ended, vars, daemonVars, memoryVars
  <2> QED
    BY <1>0, <2>1, RegistryStutters
<1> QED
  BY <1>1, <1>2, <1>3, <1>4, <1>5, <1>6 DEF Next

\* The daemon implements SessionRegistry: at most one live session, each
\* alive once, and only chunks that ran are published.
THEOREM DaemonRefines == Spec => RegistrySpec
BY OrderInvariant, RegistryInit, NextRefines, PTL DEF Spec, RegistrySpec, Registry!Spec
=============================================================================
