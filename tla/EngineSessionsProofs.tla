------------------------ MODULE EngineSessionsProofs ------------------------
(***************************************************************************)
(* Proofs about the engine's control plane, for any number of threads,     *)
(* connections, paths and sessions, any faults and any number of crashes,  *)
(* and about what its socket threads read of their streams.                *)
(***************************************************************************)
EXTENDS EngineSessions, FiniteSetTheorems, TLAPS

\* Coming is finite, and counting it gives a natural number.
LEMMA ComingFinite ==
  /\ IsFiniteSet(Coming)
  /\ Cardinality(Coming) \in Nat
<1>1. Coming \subseteq Workers
  BY DEF Coming
<1>2. QED
  BY <1>1, ThreadAssumption, FS_Subset, FS_CardinalityType

\* The engine starts with the invariant.
LEMMA InitInv == Init => EngineInv
<1> SUFFICES ASSUME Init PROVE EngineInv
  OBVIOUS
<1>1. TypeOK
  BY BoundAssumption DEF Init, TypeOK
<1>2. Holders /\ Reachable /\ OneThread /\ FilesAccounted
  BY ThreadAssumption DEF Init, Holders, Reachable, OneThread, FilesAccounted, Live
<1>3. Coming = {}
  BY DEF Coming, Init
<1>4. Numbers
  BY <1>3, FS_EmptySet, BoundAssumption DEF Init, Numbers
<1>5. QED
  BY <1>1, <1>2, <1>4 DEF EngineInv

\* A step that constructs no session and lets no call in keeps the budget.
LEMMA BudgetKept ==
  ASSUME TypeOK, made + Cardinality(Coming) <= MaxSessions,
         Coming' \subseteq Coming, made' = made
  PROVE  made' + Cardinality(Coming') <= MaxSessions
<1>1. /\ Cardinality(Coming') \in Nat
      /\ Cardinality(Coming) \in Nat
      /\ Cardinality(Coming') <= Cardinality(Coming)
  BY ComingFinite, FS_Subset, FS_CardinalityType
<1>2. QED
  BY <1>1, BoundAssumption DEF TypeOK

\* A call that was counted may construct its session.
LEMMA BudgetSpent ==
  ASSUME TypeOK, made + Cardinality(Coming) <= MaxSessions,
         NEW w \in Coming, Coming' \subseteq Coming \ {w}, made' = made + 1
  PROVE  /\ made' + Cardinality(Coming') <= MaxSessions
         /\ made' \in Session /\ made' \in 0 .. MaxSessions
<1>1. /\ IsFiniteSet(Coming \ {w})
      /\ Cardinality(Coming \ {w}) = Cardinality(Coming) - 1
  BY ComingFinite, FS_RemoveElement
<1>2. /\ Cardinality(Coming') \in Nat
      /\ Cardinality(Coming) \in Nat
      /\ Cardinality(Coming') <= Cardinality(Coming) - 1
  BY <1>1, ComingFinite, FS_Subset, FS_CardinalityType
<1>3. made \in Nat /\ MaxSessions \in Nat
  BY BoundAssumption DEF TypeOK
<1>4. (made + 1) + Cardinality(Coming') <= MaxSessions
  BY <1>2, <1>3
<1>5. QED
  BY <1>2, <1>3, <1>4 DEF Session

\* Steps of clients touch no session, thread or file.
LEMMA FeederKeeps ==
  ASSUME EngineInv, NEW f \in Feeders,
         \/ \E p \in Paths : Connect(f, p)
         \/ \E piece \in Piece : Write(f, piece)
         \/ Hangup(f) \/ Reuse(f)
  PROVE  EngineInv'
<1>1. UNCHANGED <<processVars, thread, taken, frames, fileVars>>
  BY DEF Connect, Write, Hangup, Reuse, processVars, threadVars, fileVars
<1>2. /\ feeder' \in [Feeders -> {"away", "connected", "closed"}]
      /\ at' \in [Feeders -> Session \cup {None}]
  BY DEF Connect, Write, Hangup, Reuse, EngineInv, TypeOK
<1>3. served' \in [Session -> Feeders \cup {None}]
  BY DEF Connect, Write, Hangup, Reuse, threadVars, EngineInv, TypeOK
<1>4. backlog' \in [Session -> Seq(Feeders)]
  <2>1. ASSUME NEW p \in Paths, Connect(f, p)
        PROVE  backlog' \in [Session -> Seq(Feeders)]
    <3>1. file[p] \in Session
      BY <2>1, ThreadAssumption DEF Connect, EngineInv, TypeOK
    <3>2. Append(backlog[file[p]], f) \in Seq(Feeders)
      BY <3>1 DEF EngineInv, TypeOK
    <3>3. QED
      BY <2>1, <3>1, <3>2 DEF Connect, EngineInv, TypeOK
  <2>2. QED
    BY <2>1 DEF Write, Hangup, Reuse, threadVars, EngineInv, TypeOK
<1>5. wire' \in [Feeders -> Seq(Piece)]
  <2>1. ASSUME NEW piece \in Piece, Write(f, piece)
        PROVE  wire' \in [Feeders -> Seq(Piece)]
    <3>1. Append(wire[f], piece) \in Seq(Piece)
      BY DEF EngineInv, TypeOK
    <3>2. QED
      BY <2>1, <3>1 DEF Write, EngineInv, TypeOK
  <2>2. <<>> \in Seq(Piece)
    OBVIOUS
  <2>3. QED
    BY <2>1, <2>2 DEF Connect, Hangup, Reuse, EngineInv, TypeOK
<1>6. TypeOK'
  BY <1>1, <1>2, <1>3, <1>4, <1>5 DEF EngineInv, TypeOK, processVars, fileVars
<1>7. Coming' = Coming
  BY <1>1 DEF Coming, processVars
<1>8. (Holders /\ Numbers /\ Reachable /\ OneThread /\ FilesAccounted)'
  BY <1>1, <1>7 DEF EngineInv, Holders, Numbers, Reachable, OneThread, FilesAccounted,
     Live, processVars, fileVars
<1>9. QED
  BY <1>6, <1>8 DEF EngineInv

\* A socket thread starts no other, and is live until it ends.
LEMMA ThreadKeeps ==
  ASSUME EngineInv, NEW s \in Session, SocketThread(s)
  PROVE  EngineInv'
<1>1. UNCHANGED <<processVars, fileVars, feederVars>>
  BY DEF SocketThread, Accept, ReadHeader, ReadPayload, EndRead
<1>2. Live(s) /\ \A r \in Session : Live(r)' => Live(r)
  <2>1. Live(s)
    BY DEF SocketThread, Accept, ReadHeader, ReadPayload, EndRead, Live
  <2>2. \A r \in Session \ {s} : thread'[r] = thread[r]
    BY DEF SocketThread, Accept, ReadHeader, ReadPayload, EndRead, EngineInv, TypeOK
  <2>3. QED
    BY <2>1, <2>2 DEF Live
<1>3. thread' \in [Session -> {"none", "accept", "header", "payload", "ended", "killed"}]
  BY DEF SocketThread, Accept, ReadHeader, ReadPayload, EndRead, EngineInv, TypeOK
<1>4. served' \in [Session -> Feeders \cup {None}] /\ backlog' \in [Session -> Seq(Feeders)]
  <2>1. CASE Accept(s)
    <3>1. backlog[s] \in Seq(Feeders) /\ backlog[s] # <<>>
      BY <2>1 DEF Accept, EngineInv, TypeOK
    <3>2. Head(backlog[s]) \in Feeders /\ Tail(backlog[s]) \in Seq(Feeders)
      BY <3>1
    <3>3. QED
      BY <2>1, <3>2 DEF Accept, EngineInv, TypeOK
  <2>2. CASE ~Accept(s)
    BY <2>2 DEF SocketThread, ReadHeader, ReadPayload, EndRead, EngineInv, TypeOK
  <2>3. QED
    BY <2>1, <2>2
<1>5. taken' \in [Session -> Nat] /\ frames' \in [Session -> Nat]
  <2>1. /\ taken \in [Session -> Nat] /\ frames \in [Session -> Nat]
        /\ taken[s] + 1 \in Nat /\ frames[s] + 1 \in Nat
    BY DEF EngineInv, TypeOK
  <2>2. /\ taken' \in {taken, [taken EXCEPT ![s] = taken[s] + 1]}
        /\ frames' \in {frames, [frames EXCEPT ![s] = frames[s] + 1]}
    BY DEF SocketThread, Accept, ReadHeader, ReadPayload, EndRead
  <2>3. QED
    BY <2>1, <2>2
<1>6. TypeOK'
  BY <1>1, <1>3, <1>4, <1>5 DEF EngineInv, TypeOK, processVars, fileVars, feederVars
<1>7. Coming' = Coming
  BY <1>1 DEF Coming, processVars
<1>8. OneThread'
  BY <1>1, <1>2 DEF EngineInv, OneThread, processVars
<1>9. (Holders /\ Numbers /\ Reachable /\ FilesAccounted)'
  BY <1>1, <1>7 DEF EngineInv, Holders, Numbers, Reachable, FilesAccounted,
     processVars, fileVars
<1>10. QED
  BY <1>6, <1>8, <1>9 DEF EngineInv

\* A call is counted before it has a session.
LEMMA CallKeeps ==
  ASSUME EngineInv, NEW w \in Workers, NEW p \in Paths \cup {None}, Call(w, p)
  PROVE  EngineInv'
<1> USE DEF Call, threadVars, fileVars, feederVars
<1>1. TypeOK'
  BY DEF EngineInv, TypeOK
<1>2. Holders'
  BY DEF EngineInv, TypeOK, Holders
<1>3. Coming' = IF p = None THEN Coming ELSE Coming \cup {w}
  BY DEF EngineInv, TypeOK, Coming
<1>4. w \notin Coming
  BY DEF Coming
<1>5. made' + Cardinality(Coming') <= MaxSessions
  <2>1. CASE p = None
    BY <1>3, <2>1 DEF EngineInv, Numbers
  <2>2. CASE p # None
    <3>1. Cardinality(Coming') = Cardinality(Coming) + 1
      BY <1>3, <1>4, <2>2, ComingFinite, FS_AddElement
    <3>2. QED
      BY <2>2, <3>1, ComingFinite, BoundAssumption DEF EngineInv, TypeOK
  <2>3. QED
    BY <2>1, <2>2
<1>6. Numbers'
  BY <1>5 DEF EngineInv, Numbers
<1>7. (Reachable /\ OneThread /\ FilesAccounted)'
  BY DEF EngineInv, TypeOK, Reachable, OneThread, FilesAccounted, Live
<1>8. QED
  BY <1>1, <1>2, <1>6, <1>7 DEF EngineInv

\* A call that is refused, or that takes the free mutex, changes nothing else.
LEMMA EntryKeeps ==
  ASSUME EngineInv, NEW w \in Workers, RejectEmpty(w) \/ Lock(w)
  PROVE  EngineInv'
<1> USE DEF RejectEmpty, Lock, threadVars, fileVars, feederVars
<1>1. TypeOK'
  BY DEF EngineInv, TypeOK
<1>2. Holders'
  <2>1. CASE RejectEmpty(w)
    BY <2>1 DEF EngineInv, TypeOK, Holders
  <2>2. CASE Lock(w)
    BY <2>2, ThreadAssumption DEF EngineInv, TypeOK, Holders
  <2>3. QED
    BY <2>1, <2>2
<1>3. Coming' \subseteq Coming
  BY DEF EngineInv, TypeOK, Coming
<1>4. Numbers'
  BY <1>3, BudgetKept DEF EngineInv, Numbers
<1>5. (Reachable /\ OneThread /\ FilesAccounted)'
  BY DEF EngineInv, TypeOK, Holders, Reachable, OneThread, FilesAccounted, Live
<1>6. QED
  BY <1>1, <1>2, <1>4, <1>5 DEF EngineInv

\* The worker that holds the mutex is the only one past the entry.
LEMMA OneInside ==
  ASSUME EngineInv, NEW w \in Workers, pc[w] \in {"join", "start", "listen"}
  PROVE  mutex = w /\ \A v \in Workers \ {w} : pc[v] \in {"idle", "entry"}
BY DEF EngineInv, TypeOK, Holders

\* The destructor ends with neither thread nor file, unless a crash or a
\* failed listen() left the file to it.
LEMMA DestroyKeeps ==
  ASSUME EngineInv, DestroySession, \A w \in Workers : pc[w] # "listen",
         UNCHANGED <<made, path>>
  PROVE  /\ session' = None
         /\ file' \in [Paths -> Session \cup {None}]
         /\ backlog' \in [Session -> Seq(Feeders)]
         /\ UNCHANGED <<thread, served, taken, frames, left>>
         /\ \A p \in Paths : file'[p] # None =>
              file'[p] <= made' /\ path'[file'[p]] = p /\ file'[p] \in left
         /\ OneThread'
<1>1. session' = None /\ UNCHANGED <<thread, served, taken, frames, left>>
  BY DEF DestroySession
<1>2. session \in Session /\ <<>> \in Seq(Feeders)
  BY DEF DestroySession, EngineInv, TypeOK
<1>3. /\ file' \in [Paths -> Session \cup {None}]
      /\ backlog' \in [Session -> Seq(Feeders)]
  BY <1>2 DEF DestroySession, EngineInv, TypeOK
<1>4. ASSUME NEW p \in Paths, file'[p] # None
      PROVE  file'[p] <= made' /\ path'[file'[p]] = p /\ file'[p] \in left
  <2>1. file'[p] = file[p] /\ p # path[session]
    BY <1>4 DEF DestroySession, EngineInv, TypeOK
  <2>2. path[file[p]] = p /\ file[p] <= made
    BY <1>4, <2>1 DEF EngineInv, Numbers
  <2>3. file[p] # session
    BY <2>1, <2>2
  <2>4. QED
    BY <1>4, <2>1, <2>2, <2>3 DEF EngineInv, FilesAccounted
<1>5. \A s \in Session : ~Live(s)
  BY DEF DestroySession, EngineInv, OneThread, Live
<1>6. OneThread'
  BY <1>1, <1>5 DEF OneThread, Live
<1>7. QED
  BY <1>1, <1>3, <1>4, <1>6

\* Reset leaves the engine without a session, whether it had one or not.
LEMMA ResetKeeps ==
  ASSUME EngineInv, NEW w \in Workers, Reset(w)
  PROVE  EngineInv'
<1>1. /\ pc[w] = "join" /\ pc' = [pc EXCEPT ![w] = "start"]
      /\ UNCHANGED <<mutex, made, path, req, main, crashes, feederVars>>
  BY DEF Reset
<1>2. \A v \in Workers : pc[v] # "listen"
  BY <1>1, OneInside
<1>3. /\ session' = None
      /\ file' \in [Paths -> Session \cup {None}]
      /\ backlog' \in [Session -> Seq(Feeders)]
      /\ UNCHANGED <<thread, served, taken, frames, left>>
      /\ \A p \in Paths : file'[p] # None =>
           file'[p] <= made' /\ path'[file'[p]] = p /\ file'[p] \in left
      /\ OneThread'
  <2>1. CASE session # None
    <3>1. DestroySession
      BY <2>1 DEF Reset
    <3>2. QED
      BY <1>1, <1>2, <3>1, DestroyKeeps
  <2>2. CASE session = None
    <3>1. UNCHANGED <<session, thread, served, backlog, taken, frames, file, left>>
      BY <2>2 DEF Reset, threadVars, fileVars
    <3>2. OneThread'
      BY <3>1 DEF EngineInv, OneThread, Live
    <3>3. QED
      BY <1>1, <1>2, <2>2, <3>1, <3>2 DEF EngineInv, TypeOK, Numbers, FilesAccounted
  <2>3. QED
    BY <2>1, <2>2
<1>4. TypeOK'
  BY <1>1, <1>3 DEF EngineInv, TypeOK, feederVars
<1>5. Holders'
  BY <1>1, <1>2, <1>3 DEF EngineInv, TypeOK, Holders
<1>6. Coming' \subseteq Coming
  BY <1>1 DEF EngineInv, TypeOK, Coming
<1>7. Numbers'
  BY <1>1, <1>3, <1>6, BudgetKept DEF EngineInv, Numbers
<1>8. (Reachable /\ FilesAccounted)'
  BY <1>3 DEF Reachable, FilesAccounted
<1>9. QED
  BY <1>3, <1>4, <1>5, <1>7, <1>8 DEF EngineInv

\* Start() binds a new number, which no file and no session has yet.
LEMMA BindKeeps ==
  ASSUME EngineInv, NEW w \in Workers, Bind(w)
  PROVE  EngineInv'
<1> USE DEF Bind, threadVars, feederVars
<1>1. /\ mutex = w /\ session = None
      /\ \A v \in Workers \ {w} : pc[v] \in {"idle", "entry"}
      /\ req[w] \in Paths
  BY OneInside DEF EngineInv, TypeOK, Holders
<1>2. w \in Coming /\ Coming' \subseteq Coming \ {w}
  BY <1>1, ThreadAssumption DEF EngineInv, TypeOK, Coming
<1>3. /\ made' + Cardinality(Coming') <= MaxSessions
      /\ made' \in Session /\ made' \in 0 .. MaxSessions
  BY <1>2, BudgetSpent DEF EngineInv, Numbers
<1>4. made \in Nat /\ made + 1 # None
  BY NoneAssumption DEF EngineInv, TypeOK
<1>5. TypeOK'
  BY <1>1, <1>3 DEF EngineInv, TypeOK
<1>6. \A p \in Paths : file[p] # None => file[p] \in Nat /\ file[p] <= made
  BY DEF EngineInv, TypeOK, Numbers, Session
<1>7. Holders'
  <2>1. /\ pc' = [pc EXCEPT ![w] = "listen"] /\ path'[made'] = req'[w]
        /\ file'[req'[w]] = made' /\ made' > 0
    BY <1>1, <1>3, <1>4 DEF EngineInv, TypeOK
  <2>2. main \notin {"returning", "exited"}
    BY DEF EngineInv, Holders
  <2>3. QED
    BY <1>1, <2>1, <2>2 DEF EngineInv, TypeOK, Holders
<1>8. Numbers'
  <2>1. ASSUME NEW p \in Paths, file'[p] # None
        PROVE  file'[p] <= made' /\ path'[file'[p]] = p
    <3>1. CASE p = req[w]
      BY <1>3, <1>4, <3>1 DEF EngineInv, TypeOK
    <3>2. CASE p # req[w]
      <4>1. file'[p] = file[p] /\ file[p] <= made /\ path[file[p]] = p /\ file[p] \in Nat
        BY <1>6, <2>1, <3>2 DEF EngineInv, TypeOK, Numbers
      <4>2. path'[file[p]] = path[file[p]]
        BY <1>4, <2>1, <4>1 DEF EngineInv, TypeOK
      <4>3. QED
        BY <1>4, <4>1, <4>2
    <3>3. QED
      BY <3>1, <3>2
  <2>2. QED
    BY <1>1, <1>3, <2>1 DEF Numbers
<1>9. (Reachable /\ OneThread)'
  BY <1>1 DEF EngineInv, Reachable, OneThread, Live
<1>10. FilesAccounted'
  <2>1. \A p \in Paths : file'[p] # None => file'[p] = made' \/ file'[p] \in left
    BY <1>1 DEF EngineInv, TypeOK, FilesAccounted
  <2>2. pc'[w] = "listen"
    BY DEF EngineInv, TypeOK
  <2>3. QED
    BY <2>1, <2>2 DEF FilesAccounted
<1>11. QED
  BY <1>5, <1>7, <1>8, <1>9, <1>10 DEF EngineInv

\* A Start() that fails before the socket is bound leaves no file of its own.
LEMMA BindFailsKeeps ==
  ASSUME EngineInv, NEW w \in Workers, BindFails(w)
  PROVE  EngineInv'
<1> USE DEF BindFails, Respond, threadVars, feederVars
<1>1. /\ mutex = w /\ session = None
      /\ \A v \in Workers \ {w} : pc[v] \in {"idle", "entry"}
      /\ req[w] \in Paths
  BY OneInside DEF EngineInv, TypeOK, Holders
<1>2. w \in Coming /\ Coming' \subseteq Coming \ {w}
  BY <1>1, ThreadAssumption DEF EngineInv, TypeOK, Coming
<1>3. /\ made' + Cardinality(Coming') <= MaxSessions
      /\ made' \in Session /\ made' \in 0 .. MaxSessions
  BY <1>2, BudgetSpent DEF EngineInv, Numbers
<1>4. made \in Nat
  BY DEF EngineInv, TypeOK
<1>5. file' \in [Paths -> Session \cup {None}]
        /\ \A p \in Paths : file'[p] \in {file[p], None}
  BY DEF EngineInv, TypeOK
<1>6. TypeOK'
  BY <1>1, <1>3, <1>5 DEF EngineInv, TypeOK
<1>7. Holders'
  <2>1. main \notin {"returning", "exited"}
    BY DEF EngineInv, Holders
  <2>2. QED
    BY <1>1, <2>1, ThreadAssumption DEF EngineInv, TypeOK, Holders
<1>8. Numbers'
  <2>1. ASSUME NEW p \in Paths, file'[p] # None
        PROVE  file'[p] <= made' /\ path'[file'[p]] = p
    <3>1. file'[p] = file[p] /\ file[p] \in Nat
      BY <1>5, <2>1 DEF EngineInv, TypeOK, Session
    <3>2. QED
      BY <1>4, <2>1, <3>1 DEF EngineInv, Numbers
  <2>2. QED
    BY <1>1, <1>3, <2>1 DEF Numbers
<1>9. (Reachable /\ OneThread)'
  BY <1>1 DEF EngineInv, Reachable, OneThread, Live
<1>10. FilesAccounted'
  <2>1. \A v \in Workers : pc[v] # "listen"
    BY OneInside
  <2>2. QED
    BY <1>1, <1>5, <2>1 DEF EngineInv, FilesAccounted
<1>11. QED
  BY <1>6, <1>7, <1>8, <1>9, <1>10 DEF EngineInv

\* The session that listens is kept, and its thread is the only one.
LEMMA ListenKeeps ==
  ASSUME EngineInv, NEW w \in Workers, Listen(w)
  PROVE  EngineInv'
<1> USE DEF Listen, Respond, fileVars, feederVars
<1>1. /\ mutex = w /\ session = None
      /\ \A v \in Workers \ {w} : pc[v] \in {"idle", "entry"}
      /\ req[w] \in Paths /\ made > 0 /\ path[made] = req[w] /\ file[req[w]] = made
  BY OneInside DEF EngineInv, TypeOK, Holders
<1>2. made \in Session
  BY <1>1, BoundAssumption DEF EngineInv, TypeOK, Session
<1>3. TypeOK'
  BY <1>2 DEF EngineInv, TypeOK
<1>4. Holders'
  <2>1. main \notin {"returning", "exited"}
    BY DEF EngineInv, Holders
  <2>2. QED
    BY <1>1, <2>1, ThreadAssumption DEF EngineInv, TypeOK, Holders
<1>5. Coming' \subseteq Coming
  BY DEF EngineInv, TypeOK, Coming
<1>6. Numbers'
  <2>1. made' + Cardinality(Coming') <= MaxSessions
    BY <1>5, BudgetKept DEF EngineInv, Numbers
  <2>2. made \in Nat
    BY DEF EngineInv, TypeOK
  <2>3. QED
    BY <1>1, <2>1, <2>2 DEF EngineInv, Numbers
<1>7. Reachable'
  BY <1>1 DEF Reachable
<1>8. OneThread'
  <2>1. \A s \in Session : ~Live(s)
    BY <1>1, NoneAssumption DEF EngineInv, OneThread, Session
  <2>2. \A s \in Session \ {made} : thread'[s] = thread[s]
    BY DEF EngineInv, TypeOK
  <2>3. QED
    BY <2>1, <2>2 DEF OneThread, Live
<1>9. FilesAccounted'
  <2>1. ASSUME NEW p \in Paths, file[p] # None
        PROVE  file[p] = made \/ file[p] \in left
    BY <1>1, <2>1 DEF EngineInv, FilesAccounted
  <2>2. QED
    BY <2>1 DEF FilesAccounted
<1>10. QED
  BY <1>3, <1>4, <1>6, <1>7, <1>8, <1>9 DEF EngineInv

\* The file of a session that cannot listen stays, accounted to it.
LEMMA ListenFailsKeeps ==
  ASSUME EngineInv, NEW w \in Workers, ListenFails(w)
  PROVE  EngineInv'
<1> USE DEF ListenFails, Respond, threadVars, feederVars
<1>1. /\ mutex = w /\ session = None
      /\ \A v \in Workers \ {w} : pc[v] \in {"idle", "entry"}
      /\ made > 0
  BY OneInside DEF EngineInv, TypeOK, Holders
<1>2. made \in Session
  BY <1>1, BoundAssumption DEF EngineInv, TypeOK, Session
<1>3. TypeOK'
  BY <1>2 DEF EngineInv, TypeOK
<1>4. Holders'
  <2>1. main \notin {"returning", "exited"}
    BY DEF EngineInv, Holders
  <2>2. QED
    BY <1>1, <2>1, ThreadAssumption DEF EngineInv, TypeOK, Holders
<1>5. Coming' \subseteq Coming
  BY DEF EngineInv, TypeOK, Coming
<1>6. Numbers'
  BY <1>5, BudgetKept DEF EngineInv, Numbers
<1>7. (Reachable /\ OneThread)'
  BY <1>1 DEF EngineInv, Reachable, OneThread, Live
<1>8. FilesAccounted'
  <2>1. ASSUME NEW p \in Paths, file[p] # None
        PROVE  file[p] = made \/ file[p] \in left
    BY <1>1, <2>1 DEF EngineInv, FilesAccounted
  <2>2. QED
    BY <2>1 DEF FilesAccounted
<1>9. QED
  BY <1>3, <1>4, <1>6, <1>7, <1>8 DEF EngineInv

\* main() and a crash end the session; a crash leaves its file, accounted for.
LEMMA ProcessKeeps ==
  ASSUME EngineInv, Signal \/ Drained \/ Exit \/ Crash \/ Ended \/ UNCHANGED vars
  PROVE  EngineInv'
<1>1. CASE Signal \/ Drained \/ Ended \/ UNCHANGED vars
  <2>1. /\ UNCHANGED <<mutex, session, made, path, pc, req, crashes>>
        /\ UNCHANGED <<threadVars, fileVars, feederVars>>
        /\ main' \in {"serving", "shutdown", "returning", "exited"}
        /\ main' \in {"returning", "exited"} => \A v \in Workers : pc[v] = "idle"
    BY <1>1 DEF Signal, Drained, Ended, vars, processVars, EngineInv, TypeOK, Holders
  <2>2. Coming' = Coming
    BY <2>1 DEF Coming
  <2>3. TypeOK'
    BY <2>1 DEF EngineInv, TypeOK, threadVars, fileVars, feederVars
  <2>4. Holders'
    BY <2>1 DEF EngineInv, Holders, fileVars
  <2>5. (Numbers /\ Reachable /\ OneThread /\ FilesAccounted)'
    BY <2>1, <2>2 DEF EngineInv, Numbers, Reachable, OneThread, FilesAccounted,
       Live, threadVars, fileVars
  <2>6. QED
    BY <2>3, <2>4, <2>5 DEF EngineInv
<1>2. CASE Exit
  <2>1. /\ \A v \in Workers : pc[v] = "idle"
        /\ UNCHANGED <<mutex, made, path, pc, req, crashes, feederVars>>
        /\ main' = "exited"
    BY <1>2 DEF Exit, EngineInv, Holders
  <2>2. /\ session' = None
        /\ file' \in [Paths -> Session \cup {None}]
        /\ backlog' \in [Session -> Seq(Feeders)]
        /\ UNCHANGED <<thread, served, taken, frames, left>>
        /\ \A p \in Paths : file'[p] # None =>
             file'[p] <= made' /\ path'[file'[p]] = p /\ file'[p] \in left
        /\ OneThread'
    <3>1. CASE session # None
      <4>1. DestroySession
        BY <1>2, <3>1 DEF Exit
      <4>2. QED
        BY <2>1, <4>1, DestroyKeeps
    <3>2. CASE session = None
      <4>1. UNCHANGED <<session, thread, served, backlog, taken, frames, file, left>>
        BY <1>2, <3>2 DEF Exit, threadVars, fileVars
      <4>2. OneThread'
        BY <4>1 DEF EngineInv, OneThread, Live
      <4>3. QED
        BY <2>1, <3>2, <4>1, <4>2 DEF EngineInv, TypeOK, Numbers, FilesAccounted
    <3>3. QED
      BY <3>1, <3>2
  <2>3. TypeOK'
    BY <2>1, <2>2 DEF EngineInv, TypeOK, feederVars
  <2>4. Holders'
    BY <2>1, <2>2 DEF EngineInv, Holders
  <2>5. Coming' = Coming
    BY <2>1 DEF Coming
  <2>6. Numbers'
    BY <2>1, <2>2, <2>5 DEF EngineInv, Numbers
  <2>7. (Reachable /\ FilesAccounted)'
    BY <2>2 DEF Reachable, FilesAccounted
  <2>8. QED
    BY <2>2, <2>3, <2>4, <2>6, <2>7 DEF EngineInv
<1>3. CASE Crash
  <2> USE <1>3 DEF Crash, feederVars
  <2>1. \A p \in Paths : file[p] # None => file[p] \in left'
    OBVIOUS
  <2>2. TypeOK'
    <3>1. crashes' \in 0 .. MaxCrashes
      BY BoundAssumption DEF EngineInv, TypeOK
    <3>2. left' \subseteq Session
      BY DEF EngineInv, TypeOK
    <3>3. thread' \in [Session -> {"none", "accept", "header", "payload", "ended", "killed"}]
      BY DEF EngineInv, TypeOK
    <3>4. <<>> \in Seq(Feeders)
      OBVIOUS
    <3>5. QED
      BY <3>1, <3>2, <3>3, <3>4 DEF EngineInv, TypeOK
  <2>3. Holders'
    BY ThreadAssumption DEF Holders
  <2>4. Coming' = {}
    BY DEF Coming
  <2>5. Numbers'
    BY <2>4, FS_EmptySet, BoundAssumption DEF EngineInv, TypeOK, Numbers
  <2>6. OneThread'
    BY DEF OneThread, Live
  <2>7. (Reachable /\ FilesAccounted)'
    BY <2>1 DEF Reachable, FilesAccounted
  <2>8. QED
    BY <2>2, <2>3, <2>5, <2>6, <2>7 DEF EngineInv
<1>4. QED
  BY <1>1, <1>2, <1>3

\* EngineInv is inductive.
LEMMA NextInv == EngineInv /\ [Next]_vars => EngineInv'
<1> SUFFICES ASSUME EngineInv, [Next]_vars PROVE EngineInv'
  OBVIOUS
<1>1. ASSUME NEW f \in Feeders,
             \/ \E p \in Paths : Connect(f, p)
             \/ \E piece \in Piece : Write(f, piece)
             \/ Hangup(f) \/ Reuse(f)
      PROVE  EngineInv'
  BY <1>1, FeederKeeps
<1>2. ASSUME NEW s \in Session, SocketThread(s)
      PROVE  EngineInv'
  BY <1>2, ThreadKeeps
<1>3. ASSUME NEW w \in Workers,
             \/ \E p \in Paths \cup {None} : Call(w, p)
             \/ RejectEmpty(w) \/ Lock(w) \/ Handle(w)
      PROVE  EngineInv'
  BY <1>3, CallKeeps, EntryKeeps, ResetKeeps, BindKeeps, BindFailsKeeps, ListenKeeps,
     ListenFailsKeeps DEF Handle
<1>4. ASSUME Signal \/ Drained \/ Exit \/ Crash \/ Ended \/ UNCHANGED vars
      PROVE  EngineInv'
  BY <1>4, ProcessKeeps
<1>5. QED
  BY <1>1, <1>2, <1>3, <1>4 DEF Next

\* In every execution the mutex, the session, its number and the socket files
\* fit together (engine_service_impl.cc, engine_session.cpp).
THEOREM EngineInvariant == Spec => []EngineInv
BY InitInv, NextInv, PTL DEF Spec

\* A client that was told its session is there finds it at the socket path.
THEOREM SessionsAreReachable == Spec => []Reachable
<1>1. EngineInv => Reachable
  BY DEF EngineInv
<1>2. QED
  BY <1>1, EngineInvariant, PTL

\* No socket thread outlives its session or runs beside another one.
THEOREM ThreadsAreJoined == Spec => []OneThread
<1>1. EngineInv => OneThread
  BY DEF EngineInv
<1>2. QED
  BY <1>1, EngineInvariant, PTL

\* Only a crash or a failed listen() leaves a socket file behind.
THEOREM NoStrayFiles == Spec => []FilesAccounted
<1>1. EngineInv => FilesAccounted
  BY DEF EngineInv
<1>2. QED
  BY <1>1, EngineInvariant, PTL

-----------------------------------------------------------------------------
(* Whole frames.                                                           *)

\* The frames among the first n pieces of a stream.
Whole(stream, n) == Cardinality({i \in 1 .. n : stream[i] # "header"})

\* The thread of s has read a part of the stream it serves and passed on the
\* frames of that part.
Passed(s) ==
  /\ taken[s] <= Len(wire[served[s]])
  /\ frames[s] = Whole(wire[served[s]], taken[s])

\* Behind each header, and nowhere else, comes a payload.
Alternating ==
  \A f \in Feeders : \A i \in 1 .. Len(wire[f]) :
    wire[f][i] = "payload" <=> i > 1 /\ wire[f][i - 1] = "header"

\* A connection that waits or is served leads to its session.
Connected ==
  \A s \in Session :
    /\ \A i \in 1 .. Len(backlog[s]) : at[backlog[s][i]] = s /\ feeder[backlog[s][i]] # "away"
    /\ served[s] # None => at[served[s]] = s /\ feeder[served[s]] # "away"

\* A thread that has not accepted has read nothing, and is spawned once.
Fresh ==
  /\ \A s \in Session : thread[s] \in {"none", "accept"} => taken[s] = 0 /\ frames[s] = 0
  /\ \A s \in Session : s > made => thread[s] = "none"
  /\ \A w \in Workers : pc[w] = "listen" => thread[made] = "none"

\* A thread that reads knows whether the next piece is a payload.
Reading ==
  \A s \in Session : thread[s] \in {"header", "payload"} =>
    /\ served[s] # None /\ Passed(s)
    /\ thread[s] = "payload" <=> taken[s] > 0 /\ wire[served[s]][taken[s]] = "header"

\* A thread that ended has read all there ever was.
AtEnd ==
  \A s \in Session : thread[s] = "ended" /\ served[s] # None =>
    Passed(s) /\ taken[s] = Len(wire[served[s]]) /\ feeder[served[s]] = "closed"

StreamInv ==
  EngineInv /\ Alternating /\ Connected /\ Fresh /\ Reading /\ AtEnd

\* How many frames there are before and behind the next piece.
LEMMA WholeNext ==
  ASSUME NEW stream \in Seq(Piece), NEW n \in Nat
  PROVE  /\ Whole(stream, n) \in Nat /\ Whole(stream, 0) = 0
         /\ stream[n + 1] = "header" => Whole(stream, n + 1) = Whole(stream, n)
         /\ stream[n + 1] # "header" => Whole(stream, n + 1) = Whole(stream, n) + 1
<1> DEFINE S(m) == {i \in 1 .. m : stream[i] # "header"}
<1>1. IsFiniteSet(S(n))
  <2>1. IsFiniteSet(1 .. n)
    BY FS_Interval
  <2> QED
    BY <2>1, FS_Subset
<1>2. Cardinality(S(n)) \in Nat
  BY <1>1, FS_CardinalityType
<1>3. S(0) = {}
  OBVIOUS
<1>4. stream[n + 1] = "header" => S(n + 1) = S(n)
  OBVIOUS
<1>5. stream[n + 1] # "header" => S(n + 1) = S(n) \cup {n + 1} /\ n + 1 \notin S(n)
  OBVIOUS
<1> HIDE DEF S
<1>6. stream[n + 1] # "header" => Cardinality(S(n + 1)) = Cardinality(S(n)) + 1
  BY <1>1, <1>5, FS_AddElement
<1> QED
  BY <1>2, <1>3, <1>4, <1>6, FS_EmptySet DEF Whole, S

\* What is written later does not change the frames before.
LEMMA WholeAppend ==
  ASSUME NEW stream \in Seq(Piece), NEW piece \in Piece, NEW n \in 0 .. Len(stream)
  PROVE  Whole(Append(stream, piece), n) = Whole(stream, n)
<1>1. \A i \in 1 .. n : Append(stream, piece)[i] = stream[i]
  OBVIOUS
<1>2. {i \in 1 .. n : Append(stream, piece)[i] # "header"} = {i \in 1 .. n : stream[i] # "header"}
  BY <1>1
<1> QED
  BY <1>2 DEF Whole

\* At first no session has a thread, and nothing is written.
LEMMA StreamInit == Init => StreamInv
<1> SUFFICES ASSUME Init PROVE StreamInv
  OBVIOUS
<1>1. EngineInv
  BY InitInv
<1>2. Alternating /\ Connected /\ Fresh
  BY DEF Init, Alternating, Connected, Fresh
<1>3. Reading /\ AtEnd
  BY DEF Init, Reading, AtEnd
<1> QED
  BY <1>1, <1>2, <1>3 DEF StreamInv

\* Steps that leave threads, connections and streams alone.
LEMMA StreamKept ==
  ASSUME StreamInv, EngineInv', UNCHANGED <<thread, served, taken, frames, feederVars>>,
         \A s \in Session : backlog'[s] \in {backlog[s], <<>>},
         \/ /\ made' = made
            /\ \A w \in Workers : pc'[w] = "listen" => pc[w] = "listen"
         \/ made' = made + 1
  PROVE  StreamInv'
<1>1. UNCHANGED <<feeder, at, wire>>
  BY DEF feederVars
<1>2. Alternating' /\ Reading' /\ AtEnd'
  BY <1>1 DEF StreamInv, Alternating, Reading, AtEnd, Passed
<1>3. Connected'
  <2>1. ASSUME NEW s \in Session, NEW i \in 1 .. Len(backlog'[s])
        PROVE  at[backlog'[s][i]] = s /\ feeder[backlog'[s][i]] # "away"
    BY <2>1 DEF StreamInv, Connected
  <2> QED
    BY <1>1, <2>1 DEF StreamInv, Connected
<1>4. Fresh'
  <2>1. made \in Nat /\ made' \in Nat /\ made' <= MaxSessions
    BY BoundAssumption DEF StreamInv, EngineInv, TypeOK
  <2>2. \A s \in Session : s > made' => thread'[s] = "none"
    BY <2>1 DEF StreamInv, Fresh, Session
  <2>3. ASSUME NEW w \in Workers, pc'[w] = "listen" PROVE thread'[made'] = "none"
    <3>1. CASE made' = made + 1
      <4>1. made' \in Session /\ made' > made
        BY <2>1, <3>1, BoundAssumption DEF Session
      <4> QED
        BY <4>1 DEF StreamInv, Fresh
    <3>2. CASE made' = made /\ pc[w] = "listen"
      BY <3>2 DEF StreamInv, Fresh
    <3> QED
      BY <2>3, <3>1, <3>2
  <2> QED
    BY <2>2, <2>3 DEF StreamInv, Fresh
<1> QED
  BY <1>2, <1>3, <1>4 DEF StreamInv

\* A connection that is made waits at its session, and did not before.
LEMMA ConnectStream ==
  ASSUME StreamInv, NEW f \in Feeders, NEW p \in Paths, Connect(f, p), EngineInv'
  PROVE  StreamInv'
<1> DEFINE q == file[p]
<1>1. /\ feeder[f] = "away" /\ q \in Session
      /\ feeder' = [feeder EXCEPT ![f] = "connected"] /\ at' = [at EXCEPT ![f] = q]
      /\ backlog' = [backlog EXCEPT ![q] = Append(@, f)]
      /\ UNCHANGED <<made, pc, wire, thread, served, taken, frames>>
  BY DEF Connect, processVars, StreamInv, EngineInv, TypeOK
<1>2. /\ feeder'[f] = "connected" /\ at'[f] = q
      /\ \A g \in Feeders : g # f => feeder'[g] = feeder[g] /\ at'[g] = at[g]
  BY <1>1 DEF StreamInv, EngineInv, TypeOK
<1>3. /\ backlog'[q] = Append(backlog[q], f)
      /\ \A s \in Session : s # q => backlog'[s] = backlog[s]
      /\ \A s \in Session : backlog[s] \in Seq(Feeders) /\ served[s] \in Feeders \cup {None}
  BY <1>1 DEF StreamInv, EngineInv, TypeOK
<1> HIDE DEF q
<1>4. \A s \in Session : served[s] # f
  BY <1>1, ThreadAssumption DEF StreamInv, Connected
<1>5. \A s \in Session : \A i \in 1 .. Len(backlog[s]) :
        backlog[s][i] # f /\ backlog[s][i] \in Feeders
  BY <1>1, <1>3 DEF StreamInv, Connected
<1>6. Alternating' /\ Fresh' /\ Reading'
  BY <1>1 DEF StreamInv, Alternating, Fresh, Reading, Passed
<1>7. AtEnd'
  BY <1>1, <1>2, <1>3, <1>4 DEF StreamInv, AtEnd, Passed
<1>8. Connected'
  <2>1. ASSUME NEW s \in Session, NEW i \in 1 .. Len(backlog'[s])
        PROVE  at'[backlog'[s][i]] = s /\ feeder'[backlog'[s][i]] # "away"
    <3>1. CASE s # q
      BY <1>2, <1>3, <1>5, <2>1, <3>1 DEF StreamInv, Connected
    <3>2. CASE s = q /\ i = Len(backlog[q]) + 1
      BY <1>1, <1>2, <1>3, <3>2
    <3>3. CASE s = q /\ i \in 1 .. Len(backlog[q])
      <4>1. backlog'[s][i] = backlog[s][i]
        BY <1>1, <1>3, <3>3
      <4> QED
        BY <1>2, <1>5, <3>3, <4>1 DEF StreamInv, Connected
    <3> QED
      BY <1>1, <1>3, <2>1, <3>1, <3>2, <3>3
  <2>2. ASSUME NEW s \in Session, served'[s] # None
        PROVE  at'[served'[s]] = s /\ feeder'[served'[s]] # "away"
    BY <1>1, <1>2, <1>3, <1>4, <2>2 DEF StreamInv, Connected
  <2> QED
    BY <2>1, <2>2 DEF Connected
<1> QED
  BY <1>6, <1>7, <1>8 DEF StreamInv

\* What is written comes behind all that was read, and nothing is written to
\* a thread that ended.
LEMMA WriteStream ==
  ASSUME StreamInv, NEW f \in Feeders, NEW piece \in Piece, Write(f, piece), EngineInv'
  PROVE  StreamInv'
<1>1. /\ feeder[f] = "connected"
      /\ piece = "payload" <=> wire[f] # <<>> /\ Last(wire[f]) = "header"
      /\ wire' = [wire EXCEPT ![f] = Append(@, piece)]
      /\ UNCHANGED <<made, pc, thread, served, backlog, taken, frames, feeder, at>>
  BY DEF Write, processVars, threadVars
<1>2. /\ wire[f] \in Seq(Piece) /\ wire'[f] = Append(wire[f], piece)
      /\ \A g \in Feeders : g # f => wire'[g] = wire[g]
      /\ \A s \in Session : served[s] \in Feeders \cup {None} /\ taken[s] \in Nat
  BY <1>1 DEF StreamInv, EngineInv, TypeOK
<1>3. /\ Len(wire'[f]) = Len(wire[f]) + 1 /\ wire'[f][Len(wire[f]) + 1] = piece
      /\ Len(wire[f]) \in Nat
      /\ \A i \in 1 .. Len(wire[f]) : wire'[f][i] = wire[f][i]
  BY <1>2
<1>4. Alternating'
  <2>1. ASSUME NEW i \in 1 .. Len(wire'[f])
        PROVE  wire'[f][i] = "payload" <=> i > 1 /\ wire'[f][i - 1] = "header"
    <3>1. CASE i \in 1 .. Len(wire[f])
      <4>1. wire[f][i] = "payload" <=> i > 1 /\ wire[f][i - 1] = "header"
        BY <3>1 DEF StreamInv, Alternating
      <4>2. wire'[f][i] = wire[f][i] /\ (i > 1 => wire'[f][i - 1] = wire[f][i - 1])
        BY <1>3, <3>1
      <4> QED
        BY <4>1, <4>2
    <3>2. CASE i = Len(wire[f]) + 1
      <4>1. piece = "payload" <=> Len(wire[f]) > 0 /\ wire[f][Len(wire[f])] = "header"
        BY <1>1, <1>2 DEF Last
      <4> QED
        BY <1>3, <3>2, <4>1
    <3> QED
      BY <1>3, <2>1, <3>1, <3>2
  <2>2. ASSUME NEW g \in Feeders, g # f, NEW i \in 1 .. Len(wire'[g])
        PROVE  wire'[g][i] = "payload" <=> i > 1 /\ wire'[g][i - 1] = "header"
    BY <1>2, <2>2 DEF StreamInv, Alternating
  <2> QED
    BY <2>1, <2>2 DEF Alternating
<1>5. ASSUME NEW s \in Session, served[s] = f, Passed(s)
      PROVE  /\ taken[s] <= Len(wire'[f]) /\ frames[s] = Whole(wire'[f], taken[s])
             /\ taken[s] > 0 => wire'[f][taken[s]] = wire[f][taken[s]]
  <2>1. taken[s] \in 0 .. Len(wire[f])
    BY <1>2, <1>3, <1>5 DEF Passed
  <2>2. Whole(wire'[f], taken[s]) = Whole(wire[f], taken[s])
    BY <1>2, <2>1, WholeAppend
  <2> QED
    BY <1>1, <1>3, <1>5, <2>1, <2>2 DEF Passed
<1>6. Reading'
  <2>1. ASSUME NEW s \in Session, thread'[s] \in {"header", "payload"}
        PROVE  /\ served'[s] # None
               /\ taken'[s] <= Len(wire'[served'[s]])
               /\ frames'[s] = Whole(wire'[served'[s]], taken'[s])
               /\ thread'[s] = "payload" <=>
                    taken'[s] > 0 /\ wire'[served'[s]][taken'[s]] = "header"
    <3>1. /\ served[s] # None /\ Passed(s)
          /\ thread[s] = "payload" <=> taken[s] > 0 /\ wire[served[s]][taken[s]] = "header"
      BY <1>1, <2>1 DEF StreamInv, Reading
    <3>2. CASE served[s] = f
      BY <1>1, <1>5, <3>1, <3>2
    <3>3. CASE served[s] # f
      <4>1. wire'[served[s]] = wire[served[s]]
        BY <1>2, <3>1, <3>3
      <4> QED
        BY <1>1, <3>1, <4>1 DEF Passed
    <3> QED
      BY <3>2, <3>3
  <2> QED
    BY <2>1 DEF Reading, Passed
<1>7. AtEnd'
  <2>1. \A s \in Session : thread[s] = "ended" /\ served[s] # None =>
          served[s] # f /\ wire'[served[s]] = wire[served[s]]
    BY <1>1, <1>2 DEF StreamInv, AtEnd
  <2> QED
    BY <1>1, <2>1 DEF StreamInv, AtEnd, Passed
<1>8. Connected' /\ Fresh'
  BY <1>1 DEF StreamInv, Connected, Fresh
<1> QED
  BY <1>4, <1>6, <1>7, <1>8 DEF StreamInv

\* A client that hangs up writes nothing any more.
LEMMA HangupStream ==
  ASSUME StreamInv, NEW f \in Feeders, Hangup(f), EngineInv'
  PROVE  StreamInv'
<1>1. /\ feeder' = [feeder EXCEPT ![f] = "closed"]
      /\ UNCHANGED <<made, pc, thread, served, backlog, taken, frames, wire, at>>
  BY DEF Hangup, processVars, threadVars
<1>2. \A g \in Feeders : feeder'[g] = feeder[g] \/ feeder'[g] = "closed"
  BY <1>1 DEF StreamInv, EngineInv, TypeOK
<1>3. \A s \in Session : backlog[s] \in Seq(Feeders) /\ served[s] \in Feeders \cup {None}
  BY DEF StreamInv, EngineInv, TypeOK
<1>4. \A s \in Session : \A i \in 1 .. Len(backlog[s]) : backlog[s][i] \in Feeders
  BY <1>3
<1>5. Connected'
  BY <1>1, <1>2, <1>3, <1>4 DEF StreamInv, Connected
<1>6. Alternating' /\ Fresh' /\ Reading' /\ AtEnd'
  BY <1>1, <1>2, <1>3 DEF StreamInv, Alternating, Fresh, Reading, AtEnd, Passed
<1> QED
  BY <1>5, <1>6 DEF StreamInv

\* A name is used again when no thread reads from its connection.
LEMMA ReuseStream ==
  ASSUME StreamInv, NEW f \in Feeders, Reuse(f), EngineInv'
  PROVE  StreamInv'
<1>1. /\ ~ Open(f)
      /\ feeder' = [feeder EXCEPT ![f] = "away"] /\ at' = [at EXCEPT ![f] = None]
      /\ wire' = [wire EXCEPT ![f] = <<>>]
      /\ served' = [s \in Session |-> IF served[s] = f THEN None ELSE served[s]]
      /\ UNCHANGED <<made, pc, thread, backlog, taken, frames>>
  BY DEF Reuse, processVars
<1>2. /\ wire'[f] = <<>>
      /\ \A g \in Feeders : g # f =>
           feeder'[g] = feeder[g] /\ at'[g] = at[g] /\ wire'[g] = wire[g]
  BY <1>1 DEF StreamInv, EngineInv, TypeOK
<1>3. \A s \in Session : backlog[s] \in Seq(Feeders) /\ served[s] \in Feeders \cup {None}
  BY DEF StreamInv, EngineInv, TypeOK
<1>4. \A s \in Session : \A i \in 1 .. Len(backlog[s]) :
        backlog[s][i] # f /\ backlog[s][i] \in Feeders
  <2> SUFFICES ASSUME NEW s \in Session, NEW i \in 1 .. Len(backlog[s])
               PROVE  backlog[s][i] # f /\ backlog[s][i] \in Feeders
    OBVIOUS
  <2>1. backlog[s][i] \in Feeders /\ at[backlog[s][i]] = s /\ s # None
    BY <1>3, NoneAssumption DEF StreamInv, Connected, Session
  <2>2. backlog[s][i] \in Range(backlog[s])
    BY <1>3 DEF Range
  <2> QED
    BY <1>1, <2>1, <2>2 DEF Open
<1>5. \A s \in Session : served[s] = f => ~ Live(s)
  <2> SUFFICES ASSUME NEW s \in Session, served[s] = f PROVE ~ Live(s)
    OBVIOUS
  <2>1. at[f] = s /\ s # None
    BY ThreadAssumption, NoneAssumption DEF StreamInv, Connected, Session
  <2> QED
    BY <1>1, <2>1 DEF Open
<1>6. \A s \in Session : served'[s] # None => served'[s] = served[s] /\ served[s] # f
  BY <1>1
<1>7. Alternating'
  BY <1>2 DEF StreamInv, Alternating
<1>8. Connected'
  BY <1>1, <1>2, <1>3, <1>4, <1>6 DEF StreamInv, Connected
<1>9. Reading'
  <2>1. \A s \in Session : thread[s] \in {"header", "payload"} => served'[s] = served[s]
    BY <1>1, <1>5 DEF Live
  <2>2. \A s \in Session : thread[s] \in {"header", "payload"} => served[s] # f
    BY <1>5 DEF Live
  <2> QED
    BY <1>1, <1>2, <1>3, <2>1, <2>2 DEF StreamInv, Reading, Passed
<1>10. AtEnd'
  BY <1>1, <1>2, <1>3, <1>6 DEF StreamInv, AtEnd, Passed
<1>11. Fresh'
  BY <1>1 DEF StreamInv, Fresh
<1> QED
  BY <1>7, <1>8, <1>9, <1>10, <1>11 DEF StreamInv

\* A thread that goes on reading, or ends, is neither spawned again nor fresh.
LEMMA FreshKept ==
  ASSUME StreamInv, NEW s \in Session, thread[s] # "none",
         thread'[s] \notin {"none", "accept"}, UNCHANGED <<made, pc>>,
         \A r \in Session : r # s =>
           thread'[r] = thread[r] /\ taken'[r] = taken[r] /\ frames'[r] = frames[r]
  PROVE  Fresh'
<1>1. ASSUME NEW w \in Workers, pc[w] = "listen" PROVE thread'[made] = "none"
  <2>1. made \in Session
    BY <1>1, BoundAssumption DEF StreamInv, EngineInv, TypeOK, Holders, Session
  <2>2. thread[made] = "none"
    BY <1>1 DEF StreamInv, Fresh
  <2> QED
    BY <2>1, <2>2
<1>2. \A r \in Session : r > made => r # s
  BY DEF StreamInv, Fresh
<1> QED
  BY <1>1, <1>2 DEF StreamInv, Fresh

\* The connection that is accepted is one of the session, and unread.
LEMMA AcceptStream ==
  ASSUME StreamInv, NEW s \in Session, Accept(s), EngineInv'
  PROVE  StreamInv'
<1>1. /\ thread[s] = "accept" /\ backlog[s] # <<>>
      /\ UNCHANGED <<made, pc, feeder, at, wire, taken, frames>>
  BY DEF Accept, processVars, feederVars
<1>2. /\ served'[s] = Head(backlog[s]) /\ backlog'[s] = Tail(backlog[s])
      /\ thread'[s] = "header"
      /\ \A r \in Session : r # s =>
           served'[r] = served[r] /\ backlog'[r] = backlog[r] /\ thread'[r] = thread[r]
  BY DEF Accept, StreamInv, EngineInv, TypeOK
<1>3. /\ backlog[s] \in Seq(Feeders) /\ Head(backlog[s]) = backlog[s][1]
      /\ 1 \in 1 .. Len(backlog[s]) /\ backlog[s][1] \in Feeders
      /\ Len(backlog'[s]) = Len(backlog[s]) - 1
      /\ \A i \in 1 .. Len(backlog'[s]) :
           i + 1 \in 1 .. Len(backlog[s]) /\ backlog'[s][i] = backlog[s][i + 1]
  <2>1. backlog[s] \in Seq(Feeders) /\ backlog[s] # <<>>
    BY <1>1 DEF StreamInv, EngineInv, TypeOK
  <2> QED
    BY <1>2, <2>1
<1>4. Alternating'
  BY <1>1 DEF StreamInv, Alternating
<1>5. Connected'
  <2>1. at[served'[s]] = s /\ feeder[served'[s]] # "away"
    BY <1>2, <1>3 DEF StreamInv, Connected
  <2>2. \A i \in 1 .. Len(backlog'[s]) :
          at[backlog'[s][i]] = s /\ feeder[backlog'[s][i]] # "away"
    BY <1>3 DEF StreamInv, Connected
  <2>3. ASSUME NEW r \in Session, r # s
        PROVE  /\ \A i \in 1 .. Len(backlog'[r]) :
                    at'[backlog'[r][i]] = r /\ feeder'[backlog'[r][i]] # "away"
               /\ served'[r] # None => at'[served'[r]] = r /\ feeder'[served'[r]] # "away"
    BY <1>1, <1>2, <2>3 DEF StreamInv, Connected
  <2> QED
    BY <1>1, <2>1, <2>2, <2>3 DEF Connected
<1>6. Fresh'
  BY <1>1, <1>2, FreshKept
<1>7. Reading'
  <2>1. taken[s] = 0 /\ frames[s] = 0
    BY <1>1 DEF StreamInv, Fresh
  <2>2. wire[served'[s]] \in Seq(Piece) /\ served'[s] # None
    BY <1>2, <1>3, ThreadAssumption DEF StreamInv, EngineInv, TypeOK
  <2>3. Len(wire[served'[s]]) >= 0 /\ Whole(wire[served'[s]], 0) = 0
    BY <2>2, WholeNext
  <2> QED
    BY <1>1, <1>2, <2>1, <2>2, <2>3 DEF StreamInv, Reading, Passed
<1>8. AtEnd'
  BY <1>1, <1>2 DEF StreamInv, AtEnd, Passed
<1> QED
  BY <1>4, <1>5, <1>6, <1>7, <1>8 DEF StreamInv

\* A thread that reads a piece counts it if it ends a frame.
LEMMA ReadStream ==
  ASSUME StreamInv, NEW s \in Session, ReadHeader(s) \/ ReadPayload(s), EngineInv'
  PROVE  StreamInv'
<1> DEFINE stream == wire[served[s]]
           n == taken[s]
<1>1. /\ thread[s] \in {"header", "payload"} /\ n < Len(stream)
      /\ UNCHANGED <<made, pc, feeder, at, wire, served, backlog>>
  BY DEF ReadHeader, ReadPayload, Arrived, processVars, feederVars
<1>2. /\ served[s] \in Feeders /\ stream \in Seq(Piece) /\ n \in Nat /\ frames[s] \in Nat
      /\ n + 1 \in 1 .. Len(stream) /\ stream[n + 1] \in Piece
      /\ served[s] # None /\ frames[s] = Whole(stream, n)
      /\ thread[s] = "payload" <=> n > 0 /\ stream[n] = "header"
  <2>1. /\ served[s] # None /\ frames[s] = Whole(stream, n)
        /\ thread[s] = "payload" <=> n > 0 /\ stream[n] = "header"
    BY <1>1 DEF StreamInv, Reading, Passed
  <2>2. served[s] \in Feeders /\ stream \in Seq(Piece) /\ n \in Nat /\ frames[s] \in Nat
    BY <2>1 DEF StreamInv, EngineInv, TypeOK
  <2> QED
    BY <1>1, <2>1, <2>2
<1>3. stream[n + 1] = "payload" <=> thread[s] = "payload"
  <2>1. stream[n + 1] = "payload" <=> n + 1 > 1 /\ stream[n + 1 - 1] = "header"
    BY <1>2 DEF StreamInv, Alternating
  <2>2. n + 1 - 1 = n /\ (n + 1 > 1 <=> n > 0)
    BY <1>2
  <2> QED
    BY <1>2, <2>1, <2>2
<1>4. /\ taken'[s] = n + 1
      /\ thread'[s] = IF stream[n + 1] = "header" THEN "payload" ELSE "header"
      /\ frames'[s] = IF stream[n + 1] = "header" THEN frames[s] ELSE frames[s] + 1
      /\ \A r \in Session : r # s =>
           thread'[r] = thread[r] /\ taken'[r] = taken[r] /\ frames'[r] = frames[r]
  <2>1. CASE ReadHeader(s)
    <3>1. stream[n + 1] \in {"header", "bare"}
      BY <1>2, <1>3, <2>1 DEF ReadHeader, Piece
    <3> QED
      BY <2>1, <3>1 DEF ReadHeader, StreamInv, EngineInv, TypeOK
  <2>2. CASE ReadPayload(s)
    <3>1. stream[n + 1] = "payload"
      BY <1>3, <2>2 DEF ReadPayload
    <3> QED
      BY <2>2, <3>1 DEF ReadPayload, StreamInv, EngineInv, TypeOK
  <2> QED
    BY <2>1, <2>2
<1>5. frames'[s] = Whole(stream, n + 1)
  BY <1>2, <1>4, WholeNext
<1>6. Alternating' /\ Connected'
  BY <1>1 DEF StreamInv, Alternating, Connected
<1>7. Fresh'
  <2>1. thread[s] # "none" /\ thread'[s] \notin {"none", "accept"}
    BY <1>1, <1>4
  <2> QED
    BY <1>1, <1>4, <2>1, FreshKept
<1>8. Reading'
  <2>1. /\ served'[s] # None /\ taken'[s] <= Len(wire'[served'[s]])
        /\ frames'[s] = Whole(wire'[served'[s]], taken'[s])
        /\ thread'[s] = "payload" <=> taken'[s] > 0 /\ wire'[served'[s]][taken'[s]] = "header"
    BY <1>1, <1>2, <1>4, <1>5
  <2> QED
    BY <1>1, <1>4, <2>1 DEF StreamInv, Reading, Passed
<1>9. AtEnd'
  BY <1>1, <1>4 DEF StreamInv, AtEnd, Passed
<1> QED
  BY <1>6, <1>7, <1>8, <1>9 DEF StreamInv

\* A thread ends with nothing left to read, now or later.
LEMMA EndReadStream ==
  ASSUME StreamInv, NEW s \in Session, EndRead(s), EngineInv'
  PROVE  StreamInv'
<1>1. /\ thread[s] \in {"header", "payload"} /\ ~ (taken[s] < Len(wire[served[s]]))
      /\ feeder[served[s]] = "closed"
      /\ UNCHANGED <<made, pc, feeder, at, wire, served, backlog, taken, frames>>
  BY DEF EndRead, Eof, Arrived, processVars, feederVars
<1>2. thread'[s] = "ended" /\ \A r \in Session : r # s => thread'[r] = thread[r]
  BY DEF EndRead, StreamInv, EngineInv, TypeOK
<1>3. Passed(s) /\ taken[s] = Len(wire[served[s]])
  <2>1. served[s] # None /\ Passed(s)
    BY <1>1 DEF StreamInv, Reading
  <2>2. taken[s] \in Nat /\ wire[served[s]] \in Seq(Piece)
    BY <2>1 DEF StreamInv, EngineInv, TypeOK
  <2> QED
    BY <1>1, <2>1, <2>2 DEF Passed
<1>4. Alternating' /\ Connected'
  BY <1>1 DEF StreamInv, Alternating, Connected
<1>5. Fresh'
  BY <1>1, <1>2, FreshKept
<1>6. Reading'
  BY <1>1, <1>2 DEF StreamInv, Reading, Passed
<1>7. AtEnd'
  BY <1>1, <1>2, <1>3 DEF StreamInv, AtEnd, Passed
<1> QED
  BY <1>4, <1>5, <1>6, <1>7 DEF StreamInv

\* The thread that is spawned has read nothing.
LEMMA ListenStream ==
  ASSUME StreamInv, NEW w \in Workers, Listen(w), EngineInv'
  PROVE  StreamInv'
<1>1. /\ pc[w] = "listen" /\ thread' = [thread EXCEPT ![made] = "accept"]
      /\ pc' = [pc EXCEPT ![w] = "idle"]
      /\ UNCHANGED <<made, feeder, at, wire, served, backlog, taken, frames>>
  BY DEF Listen, Respond, feederVars
<1>2. made \in Session /\ thread[made] = "none"
  <2>1. made \in Session
    BY <1>1, BoundAssumption DEF StreamInv, EngineInv, TypeOK, Holders, Session
  <2> QED
    BY <1>1, <2>1 DEF StreamInv, Fresh
<1>3. thread'[made] = "accept" /\ \A s \in Session : s # made => thread'[s] = thread[s]
  BY <1>1, <1>2 DEF StreamInv, EngineInv, TypeOK
<1>4. \A v \in Workers : pc'[v] # "listen"
  <2>1. \A v \in Workers \ {w} : pc[v] # "listen"
    BY <1>1, OneInside DEF StreamInv
  <2> QED
    BY <1>1, <2>1 DEF StreamInv, EngineInv, TypeOK
<1>5. Alternating' /\ Connected'
  BY <1>1 DEF StreamInv, Alternating, Connected
<1>6. Fresh'
  <2>1. \A s \in Session : s > made => s # made
    BY <1>2 DEF Session
  <2> QED
    BY <1>1, <1>2, <1>3, <1>4, <2>1 DEF StreamInv, Fresh
<1>7. Reading' /\ AtEnd'
  BY <1>1, <1>3 DEF StreamInv, Reading, AtEnd, Passed
<1> QED
  BY <1>5, <1>6, <1>7 DEF StreamInv

\* A crash ends the threads that read; what those before them did, stays.
LEMMA CrashStream ==
  ASSUME StreamInv, Crash, EngineInv'
  PROVE  StreamInv'
<1>1. /\ \A w \in Workers : pc'[w] = "idle"
      /\ \A s \in Session : thread'[s] = (IF Live(s) THEN "killed" ELSE thread[s])
      /\ \A s \in Session : backlog'[s] = <<>>
      /\ UNCHANGED <<made, feeder, at, wire, served, taken, frames>>
  BY DEF Crash, feederVars
<1>2. \A s \in Session : thread'[s] \notin {"accept", "header", "payload"}
  BY <1>1 DEF Live
<1>3. \A s \in Session : thread'[s] \in {"none", "ended"} => thread[s] = thread'[s]
  BY <1>1
<1>4. Alternating' /\ Connected'
  BY <1>1 DEF StreamInv, Alternating, Connected
<1>5. Fresh'
  <2>1. \A s \in Session : s > made => thread'[s] = "none"
    BY <1>1 DEF StreamInv, Fresh, Live
  <2> QED
    BY <1>1, <1>2, <1>3, <2>1 DEF StreamInv, Fresh
<1>6. Reading' /\ AtEnd'
  BY <1>1, <1>2, <1>3 DEF StreamInv, Reading, AtEnd, Passed
<1> QED
  BY <1>4, <1>5, <1>6 DEF StreamInv

\* The other steps of a handler.
LEMMA HandlerStream ==
  ASSUME StreamInv, NEW w \in Workers, EngineInv',
         \/ \E p \in Paths \cup {None} : Call(w, p)
         \/ RejectEmpty(w) \/ Lock(w) \/ Reset(w) \/ Bind(w) \/ BindFails(w) \/ ListenFails(w)
  PROVE  StreamInv'
<1>1. UNCHANGED <<thread, served, taken, frames, feederVars>>
  BY DEF Call, RejectEmpty, Lock, Reset, DestroySession, Bind, BindFails, ListenFails,
     threadVars
<1>2. \A s \in Session : backlog'[s] \in {backlog[s], <<>>}
  BY DEF Call, RejectEmpty, Lock, Reset, DestroySession, Bind, BindFails, ListenFails,
     threadVars, StreamInv, EngineInv, TypeOK
<1>3. \/ /\ made' = made
         /\ \A v \in Workers : pc'[v] = "listen" => pc[v] = "listen"
      \/ made' = made + 1
  BY DEF Call, RejectEmpty, Lock, Reset, Bind, BindFails, ListenFails, Respond,
     StreamInv, EngineInv, TypeOK
<1> QED
  BY <1>1, <1>2, <1>3, StreamKept

\* The steps of the main thread.
LEMMA MainStream ==
  ASSUME StreamInv, EngineInv', Signal \/ Drained \/ Exit \/ UNCHANGED vars
  PROVE  StreamInv'
<1>1. UNCHANGED <<thread, served, taken, frames, feederVars, made, pc>>
  BY DEF Signal, Drained, Exit, DestroySession, threadVars, processVars, vars
<1>2. \A s \in Session : backlog'[s] \in {backlog[s], <<>>}
  BY DEF Signal, Drained, Exit, DestroySession, threadVars, vars, StreamInv, EngineInv, TypeOK
<1> QED
  BY <1>1, <1>2, StreamKept

\* StreamInv is inductive.
LEMMA StreamNext == StreamInv /\ [Next]_vars => StreamInv'
<1> SUFFICES ASSUME StreamInv, [Next]_vars PROVE StreamInv'
  OBVIOUS
<1>1. EngineInv'
  BY NextInv DEF StreamInv
<1>2. ASSUME NEW f \in Feeders, NEW p \in Paths, Connect(f, p) PROVE StreamInv'
  BY <1>1, <1>2, ConnectStream
<1>3. ASSUME NEW f \in Feeders, NEW piece \in Piece, Write(f, piece) PROVE StreamInv'
  BY <1>1, <1>3, WriteStream
<1>4. ASSUME NEW f \in Feeders, Hangup(f) \/ Reuse(f) PROVE StreamInv'
  BY <1>1, <1>4, HangupStream, ReuseStream
<1>5. ASSUME NEW s \in Session, SocketThread(s) PROVE StreamInv'
  BY <1>1, <1>5, AcceptStream, ReadStream, EndReadStream DEF SocketThread
<1>6. ASSUME NEW w \in Workers,
             \/ \E p \in Paths \cup {None} : Call(w, p)
             \/ RejectEmpty(w) \/ Lock(w) \/ Handle(w)
      PROVE  StreamInv'
  BY <1>1, <1>6, HandlerStream, ListenStream DEF Handle
<1>7. ASSUME Signal \/ Drained \/ Exit \/ Crash \/ Ended \/ UNCHANGED vars
      PROVE  StreamInv'
  BY <1>1, <1>7, MainStream, CrashStream DEF Ended
<1> QED
  BY <1>2, <1>3, <1>4, <1>5, <1>6, <1>7 DEF Next

\* In every execution a socket thread has passed on the frames of what it has
\* read of its own connection's stream (ReadFrame in engine_session.cpp).
THEOREM StreamInvariant == Spec => []StreamInv
BY StreamInit, StreamNext, PTL DEF Spec

\* A thread that ended because its client left has passed on every frame
\* that was written in full, and no torn one.
THEOREM FramesArriveWhole == Spec => []NothingLost
<1>1. StreamInv => NothingLost
  <2> SUFFICES ASSUME StreamInv, NEW f \in Feeders, NEW s \in Session,
                      at[f] = s, served[s] = f, thread[s] = "ended"
               PROVE  frames[s] = Complete(wire[f])
    BY DEF NothingLost
  <2>1. f # None
    BY ThreadAssumption
  <2>2. frames[s] = Whole(wire[f], Len(wire[f]))
    BY <2>1 DEF StreamInv, AtEnd, Passed
  <2> QED
    BY <2>2 DEF Whole, Complete
<1> QED
  BY <1>1, StreamInvariant, PTL
=============================================================================
