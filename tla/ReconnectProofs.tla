--------------------------- MODULE ReconnectProofs ---------------------------
(***************************************************************************)
(* Proofs about ReconnectingMoonLightClient over MoonLightClient, for any  *)
(* number of connections, calls and listeners and any plan: the supervisor *)
(* is never stranded, there is one connection at a time, and neither the   *)
(* end of a connection nor a drain leaves a call behind.                   *)
(***************************************************************************)
EXTENDS Reconnect, FiniteSetTheorems, TLAPS

ConnState == [phase : Phases, accepting : BOOLEAN, events : BOOLEAN,
              reader : {None, "waiting", "stopped"} \cup Calls,
              drain : {"no", "waiting", "closing", "completed", "failed"},
              watched : BOOLEAN]
CallState == [at : {"new", "taken", "admitted", "registered", "written", "sent",
                    "settled", "refused", "thrown"},
              conn : Conns \cup {None}, future : {"open", "answered", "done"},
              late : BOOLEAN]

\* The types the proofs need.  Lists of listeners do not matter to them.
Shapes ==
  /\ plan \in Plans
  /\ active \in Conns \cup {None}
  /\ worker \in [at : {worker.at}, conn : {worker.conn}, todo : {worker.todo},
                 list : {worker.list}]
  /\ worker.at \in {"idle", "connect", "install", "set", "each", "subscribe", "add", "watch"}
  /\ drainer \in [at : {"no", "read", "called", "waiting", "done"}, conn : Conns \cup {None}]
  /\ closer \in {"no", "closing", "done"}
Flags == closed \in BOOLEAN /\ scheduled \in BOOLEAN /\ timer \in BOOLEAN

\* The steps of tryReconnect that have a connection, and those after active is
\* set to it.
Holding == {"install", "set", "each", "subscribe", "add", "watch"}
Installed == {"each", "subscribe", "add", "watch"}

\* Only the scheduler's thread sets active, and what it holds nobody watches.
Owned ==
  /\ worker.at \notin Holding => worker.conn = None
  /\ worker.at \in Holding => /\ worker.conn \in Conns
                              /\ ~conn[worker.conn].watched
  /\ worker.at \in {"connect", "install", "set"} => active = None
  /\ worker.at \in Installed => active = None \/ active = worker.conn
  /\ worker.at \in Installed /\ active = None => closed
  /\ closer = "closing" => closed
  /\ drainer.at = "waiting" => closed
  /\ drainer.at \in {"read", "called", "waiting"} => drainer.conn \in Conns

\* The supervisor is not stranded, with what it takes to stay so:
\* reconnectScheduled means that an attempt is queued, and a connection that
\* is installed is watched.
Supervised ==
  ~closed =>
    /\ scheduled => timer
    /\ worker.at = "idle" => timer \/ active # None
    /\ active # None /\ worker.at \notin Installed /\ conn[active].events
         => conn[active].watched /\ conn[active].phase # "gone"

\* A connection that is open is the active one or the one being installed.
Single ==
  /\ \A c \in Conns : conn[c].phase = "open" =>
       c = active \/ (worker.at \in Holding /\ c = worker.conn)
  /\ worker.at \in Installed /\ active = None => conn[worker.conn].phase # "open"

\* A drain stops admission first, and closes the connection before it ends.
Draining ==
  \A c \in Conns :
    /\ conn[c].drain # "no" => ~conn[c].accepting
    /\ conn[c].drain \in {"closing", "completed", "failed"} => conn[c].phase # "open"

\* A call that waits and is not late is in its map, and neither failAll nor a
\* drain has passed that map yet.
Waiting(k) ==
  /\ call[k].at \in {"registered", "written", "sent", "thrown"}
  /\ call[k].future = "open" /\ ~call[k].late
Awaited ==
  \A k \in Calls :
    /\ call[k].at = "new" => k \notin table /\ call[k].future = "open"
    /\ call[k].at \notin {"new", "refused"} \/ k \in table \/ call[k].future # "open"
         => call[k].conn \in Conns
    /\ Waiting(k) =>
         /\ k \in table
         /\ conn[call[k].conn].drain \notin {"closing", "completed"}
         /\ conn[call[k].conn].phase \in {"open", "goodbye", "pending"}
              \/ (k \in Streams /\ conn[call[k].conn].phase \in {"clear", "streams"})

IInv == ClientTypeOK /\ Shapes /\ Flags /\ Owned /\ Supervised /\ Single /\ Draining /\ Awaited

-----------------------------------------------------------------------------
(* Types                                                                   *)

\* Completing futures keeps the types of calls and of the table.
LEMMA FinishTyped ==
  ASSUME ClientTypeOK, NEW ks \in SUBSET Calls, Finish(ks)
  PROVE  call' \in [Calls -> CallState] /\ table' \subseteq Calls
<1> USE Zenon
<1>1. ASSUME NEW k \in Calls
      PROVE  call'[k] \in CallState
  <2>1. call[k] \in CallState
    BY DEF ClientTypeOK, CallState
  <2>2. \/ call'[k] = [call[k] EXCEPT !.at = "settled", !.future = "done"]
        \/ call'[k] = [call[k] EXCEPT !.future = "done"]
        \/ call'[k] = call[k]
    BY DEF Finish
  <2>3. QED
    BY <2>1, <2>2 DEF CallState
<1>2. call' = [k \in Calls |-> call'[k]]
  BY DEF Finish
<1>3. table' \subseteq Calls
  BY DEF ClientTypeOK, Finish
<1>4. QED
  BY <1>1, <1>2, <1>3

\* The steps of a call keep the types.
LEMMA CallTyped ==
  ASSUME ClientTypeOK, NEW k \in Calls, CallStep(k) \/ Cancel(k)
  PROVE  ClientTypeOK'
<1> USE Zenon
<1>0. call \in [Calls -> CallState] /\ call[k] \in CallState
  BY DEF ClientTypeOK, CallState
<1>1. CASE Complete(k) \/ Expire(k) \/ Cancel(k)
  <2>1. Finish({k}) /\ UNCHANGED conn
    BY <1>1 DEF Complete, Expire, Cancel
  <2>2. QED
    BY <2>1, FinishTyped DEF ClientTypeOK, CallState
<1>2. CASE Admit(k)
  BY <1>0, <1>2 DEF Admit, ClientTypeOK, CallState
<1>3. CASE Register(k)
  <2>1. (IsClosed(call[k].conn) \/ ~conn[call[k].conn].accepting) \in BOOLEAN
    OBVIOUS
  <2>2. call' \in [Calls -> CallState]
    BY <1>0, <1>3, <2>1 DEF Register, CallState
  <2>3. QED
    BY <1>3, <2>2 DEF Register, ClientTypeOK, CallState
<1>4. CASE Enqueue(k) \/ EnqueueThrows(k)
  <2>1. CASE Enqueue(k)
    BY <1>0, <2>1 DEF Enqueue, ClientTypeOK, CallState
  <2>2. CASE EnqueueThrows(k)
    BY <1>0, <2>2 DEF EnqueueThrows, ClientTypeOK, CallState
  <2>3. QED
    BY <1>4, <2>1, <2>2
<1>5. CASE EnqueueFails(k)
  BY <1>0, <1>5 DEF EnqueueFails, ClientTypeOK, CallState
<1>6. CASE Arm(k)
  BY <1>0, <1>6, SMTT(30) DEF Arm, ClientTypeOK, CallState
<1>7. QED
  BY <1>1, <1>2, <1>3, <1>4, <1>5, <1>6 DEF CallStep

-----------------------------------------------------------------------------
(* The steps of a connection                                               *)

\* What a connection does on its own keeps who watches it; it is neither
\* opened nor is its end reported.
Quiet ==
  \A c \in Conns :
    /\ conn'[c].watched = conn[c].watched
    /\ conn'[c].events = conn[c].events
    /\ conn'[c].phase = "open" => conn[c].phase = "open"
    /\ conn'[c].phase = "gone" => conn[c].phase = "gone"

\* A change of the record of one connection that is quiet.
LEMMA OneRecord ==
  ASSUME ClientTypeOK, Draining, NEW c \in Conns, NEW r \in ConnState,
         conn' = [conn EXCEPT ![c] = r],
         r.watched = conn[c].watched, r.events = conn[c].events,
         r.phase = "open" => conn[c].phase = "open",
         r.phase = "gone" => conn[c].phase = "gone",
         r.drain # "no" => ~r.accepting,
         r.drain \in {"closing", "completed", "failed"} => r.phase # "open"
  PROVE  conn' \in [Conns -> ConnState] /\ Quiet /\ Draining'
<1> USE Zenon
<1>1. conn \in [Conns -> ConnState]
  BY DEF ClientTypeOK, ConnState
<1>2. conn'[c] = r /\ \A d \in Conns : d # c => conn'[d] = conn[d]
  BY <1>1
<1>3. conn' \in [Conns -> ConnState]
  BY <1>1
<1>4. Quiet
  <2> SUFFICES ASSUME NEW d \in Conns
               PROVE  /\ conn'[d].watched = conn[d].watched
                      /\ conn'[d].events = conn[d].events
                      /\ conn'[d].phase = "open" => conn[d].phase = "open"
                      /\ conn'[d].phase = "gone" => conn[d].phase = "gone"
    BY DEF Quiet
  <2>1. CASE d = c
    BY <1>2, <2>1
  <2>2. CASE d # c
    BY <1>2, <2>2
  <2>3. QED
    BY <2>1, <2>2
<1>5. Draining'
  <2> SUFFICES ASSUME NEW d \in Conns
               PROVE  /\ conn'[d].drain # "no" => ~conn'[d].accepting
                      /\ conn'[d].drain \in {"closing", "completed", "failed"}
                           => conn'[d].phase # "open"
    BY DEF Draining
  <2>1. CASE d = c
    BY <1>2, <2>1
  <2>2. CASE d # c
    BY <1>2, <2>2 DEF Draining
  <2>3. QED
    BY <2>1, <2>2
<1>6. QED
  BY <1>3, <1>4, <1>5

\* close(), from the drain thread or the supervisor.
LEMMA CloseRecord ==
  ASSUME NEW r \in ConnState
  PROVE  /\ CloseFrom(r) \in ConnState
         /\ CloseFrom(r).watched = r.watched /\ CloseFrom(r).events = r.events
         /\ CloseFrom(r).drain = r.drain /\ ~CloseFrom(r).accepting
         /\ CloseFrom(r).phase # "open"
         /\ CloseFrom(r).phase = (IF r.phase = "open" THEN "goodbye" ELSE r.phase)
<1> USE Zenon
<1>1. CASE r.phase = "open"
  BY <1>1 DEF CloseFrom, ConnState, Phases
<1>2. CASE r.phase # "open"
  BY <1>2 DEF CloseFrom, ConnState, Phases
<1>3. QED
  BY <1>1, <1>2

\* drain() before its thread runs.
LEMMA DrainRecord ==
  ASSUME NEW r \in ConnState, r.drain # "no" => ~r.accepting
  PROVE  /\ DrainFrom(r) \in ConnState
         /\ DrainFrom(r).watched = r.watched /\ DrainFrom(r).events = r.events
         /\ DrainFrom(r).drain = (IF r.drain = "no" THEN "waiting" ELSE r.drain)
         /\ ~DrainFrom(r).accepting
         /\ DrainFrom(r).phase = r.phase
<1> USE Zenon
<1>1. CASE r.drain = "no"
  BY <1>1 DEF DrainFrom, ConnState
<1>2. CASE r.drain # "no"
  BY <1>2 DEF DrainFrom, ConnState
<1>3. QED
  BY <1>1, <1>2

\* A connection goes from one phase to another that is neither open nor gone.
LEMMA OnePhase ==
  ASSUME ClientTypeOK, Draining, NEW c \in Conns,
         NEW x \in Phases \ {"open", "gone"},
         conn' = [conn EXCEPT ![c].phase = x]
  PROVE  conn' \in [Conns -> ConnState] /\ Quiet /\ Draining'
<1> USE Zenon
<1> DEFINE r == [conn[c] EXCEPT !.phase = x]
<1>1. conn[c] \in ConnState
  BY DEF ClientTypeOK, ConnState
<1>2. r \in ConnState /\ r.watched = conn[c].watched /\ r.events = conn[c].events
      /\ r.phase = x /\ r.drain = conn[c].drain /\ r.accepting = conn[c].accepting
  BY <1>1 DEF ConnState
<1>3. conn' = [conn EXCEPT ![c] = r]
  OBVIOUS
<1>4. (r.drain # "no" => ~r.accepting)
  BY <1>2 DEF Draining
<1> HIDE DEF r
<1>5. QED
  BY <1>2, <1>3, <1>4, OneRecord

\* Everything a connection does, but for the report of its end.
LEMMA ConnectionSteps ==
  ASSUME ClientTypeOK, Draining, NEW c \in Conns,
         \/ Terminate(c) \/ FailAll(c) \/ GoAway(c) \/ DrainStep(c) \/ Dispatch(c) \/ Close(c)
         \/ \E k \in Calls : Receive(c, k)
  PROVE  ClientTypeOK' /\ Quiet /\ Draining'
<1> USE Zenon
<1>0. conn \in [Conns -> ConnState] /\ conn[c] \in ConnState
  BY DEF ClientTypeOK, ConnState
<1>a. (conn[c].drain # "no" => ~conn[c].accepting)
      /\ (conn[c].drain \in {"closing", "completed", "failed"} => conn[c].phase # "open")
  BY DEF Draining
<1>b. ASSUME conn' \in [Conns -> ConnState], call' \in [Calls -> CallState], table' \subseteq Calls
      PROVE  ClientTypeOK'
  BY <1>b DEF ClientTypeOK, ConnState, CallState
<1>c. call \in [Calls -> CallState] /\ table \subseteq Calls
  BY DEF ClientTypeOK, CallState
<1>1. CASE Terminate(c) \/ Goodbye(c)
  <2>1. conn' = [conn EXCEPT ![c].phase = "pending"] /\ UNCHANGED <<call, table>>
    BY <1>1 DEF Terminate, Goodbye
  <2>2. "pending" \in Phases \ {"open", "gone"}
    BY DEF Phases
  <2>3. QED
    BY <1>b, <1>c, <2>1, <2>2, OnePhase
<1>2. CASE FailPending(c) \/ FailStreams(c)
  <2>1. PICK x \in {"clear", "drop"} : conn' = [conn EXCEPT ![c].phase = x]
    BY <1>2 DEF FailPending, FailStreams
  <2>2. x \in Phases \ {"open", "gone"}
    BY DEF Phases
  <2>3. \E ks \in SUBSET Calls : Finish(ks)
    <3>1. InTable(c) \cap Unary \in SUBSET Calls /\ InTable(c) \cap Streams \in SUBSET Calls
      BY DEF InTable, Of
    <3>2. QED
      BY <1>2, <3>1 DEF FailPending, FailStreams
  <2>4. QED
    BY <1>b, <2>1, <2>2, <2>3, OnePhase, FinishTyped
<1>3. CASE ClearPending(c) \/ ClearStreams(c)
  <2>1. PICK x \in {"streams", "finish"} : conn' = [conn EXCEPT ![c].phase = x]
    BY <1>3 DEF ClearPending, ClearStreams
  <2>2. x \in Phases \ {"open", "gone"}
    BY DEF Phases
  <2>3. call' = call /\ table' \subseteq table
    BY <1>3 DEF ClearPending, ClearStreams
  <2>4. QED
    BY <1>b, <1>c, <2>1, <2>2, <2>3, OnePhase
<1>4. CASE GoAway(c)
  <2> DEFINE s == [DrainFrom(conn[c]) EXCEPT !.reader = IF IsClosed(c) THEN "stopped" ELSE "waiting"]
  <2>1. conn' = [conn EXCEPT ![c] = s] /\ UNCHANGED <<call, table>>
    BY <1>4 DEF GoAway
  <2>2. s \in ConnState /\ s.watched = conn[c].watched /\ s.events = conn[c].events
        /\ s.phase = conn[c].phase /\ ~s.accepting
        /\ s.drain = (IF conn[c].drain = "no" THEN "waiting" ELSE conn[c].drain)
    BY <1>0, <1>a, DrainRecord DEF ConnState
  <2> HIDE DEF s
  <2>3. QED
    BY <1>a, <1>b, <1>c, <2>1, <2>2, OneRecord
<1>5. CASE DrainEmpty(c) \/ DrainTimeout(c)
  <2>1. PICK x \in {"closing", "completed", "failed"} :
          conn' = [conn EXCEPT ![c] = [CloseFrom(conn[c]) EXCEPT !.drain = x]]
    BY <1>5 DEF DrainEmpty, DrainTimeout
  <2> DEFINE s == [CloseFrom(conn[c]) EXCEPT !.drain = x]
  <2>2. s \in ConnState /\ s.watched = conn[c].watched /\ s.events = conn[c].events
        /\ s.phase # "open" /\ ~s.accepting /\ (s.phase = "gone" => conn[c].phase = "gone")
    BY <1>0, CloseRecord DEF ConnState
  <2>3. UNCHANGED <<call, table>>
    BY <1>5 DEF DrainEmpty, DrainTimeout
  <2>4. conn' = [conn EXCEPT ![c] = s]
    BY <2>1
  <2> HIDE DEF s
  <2>5. QED
    BY <1>b, <1>c, <2>2, <2>3, <2>4, OneRecord
<1>6. CASE DrainCloses(c)
  <2>1. PICK x \in {"completed", "failed"} : conn' = [conn EXCEPT ![c].drain = x]
    BY <1>6 DEF DrainCloses
  <2> DEFINE s == [conn[c] EXCEPT !.drain = x]
  <2>2. s \in ConnState /\ s.watched = conn[c].watched /\ s.events = conn[c].events
        /\ s.phase = "gone" /\ conn[c].phase = "gone" /\ ~s.accepting
    BY <1>0, <1>6, <1>a DEF ConnState, DrainCloses
  <2>3. UNCHANGED <<call, table>>
    BY <1>6 DEF DrainCloses
  <2>4. conn' = [conn EXCEPT ![c] = s]
    BY <2>1
  <2> HIDE DEF s
  <2>5. QED
    BY <1>b, <1>c, <2>2, <2>3, <2>4, OneRecord
<1>7. CASE Close(c)
  <2>1. conn' = [conn EXCEPT ![c] = CloseFrom(conn[c])] /\ UNCHANGED <<call, table>>
    BY <1>7 DEF Close
  <2>2. QED
    BY <1>0, <1>b, <1>c, <2>1, CloseRecord, OneRecord
<1>8. CASE Dispatch(c) \/ \E k \in Calls : Receive(c, k)
  <2>1. PICK x \in {"waiting", "stopped"} \cup Calls : conn' = [conn EXCEPT ![c].reader = x]
    BY <1>8 DEF Dispatch, Receive
  <2> DEFINE s == [conn[c] EXCEPT !.reader = x]
  <2>2. s \in ConnState /\ s.watched = conn[c].watched /\ s.events = conn[c].events
        /\ s.phase = conn[c].phase /\ s.accepting = conn[c].accepting /\ s.drain = conn[c].drain
    BY <1>0 DEF ConnState
  <2>3. conn' = [conn EXCEPT ![c] = s]
    BY <2>1
  <2>4. call' \in [Calls -> CallState] /\ table' \subseteq Calls
    <3>1. CASE \E k \in Calls : Receive(c, k)
      BY <1>c, <3>1 DEF Receive
    <3>2. CASE Dispatch(c)
      <4> DEFINE k == conn[c].reader
      <4>0. k \in Calls
        BY <3>2 DEF Dispatch
      <4>1. CASE k \notin table
        BY <1>c, <3>2, <4>1 DEF Dispatch
      <4>2. CASE k \in table /\ k \in Streams
        BY <3>2, <4>0, <4>2, FinishTyped DEF Dispatch
      <4>3. CASE k \in table /\ k \notin Streams
        <5>1. PICK f \in {"open", "answered", "done"} : call' = [call EXCEPT ![k].future = f]
          BY <1>c, <3>2, <4>0, <4>3 DEF Dispatch, CallState
        <5>2. table' \subseteq table
          BY <3>2, <4>3 DEF Dispatch
        <5>3. QED
          BY <1>c, <4>0, <5>1, <5>2, SMTT(30) DEF CallState
      <4>4. QED
        BY <4>1, <4>2, <4>3
    <3>3. QED
      BY <1>8, <3>1, <3>2
  <2> HIDE DEF s
  <2>5. QED
    BY <1>a, <1>b, <2>2, <2>3, <2>4, OneRecord
<1>9. QED
  BY <1>1, <1>2, <1>3, <1>4, <1>5, <1>6, <1>7, <1>8 DEF FailAll, DrainStep

-----------------------------------------------------------------------------
(* The steps of the supervisor                                             *)

Super == Shapes /\ Flags /\ Owned /\ Supervised /\ Single

\* What a connection does on its own does not disturb the supervisor.
LEMMA QuietKeeps ==
  ASSUME ClientTypeOK, Super, Quiet, UNCHANGED <<plan, supervisor>>
  PROVE  Super'
<1> USE Zenon
<1>0. /\ active' = active /\ closed' = closed /\ scheduled' = scheduled /\ timer' = timer
      /\ worker' = worker /\ closer' = closer /\ drainer' = drainer
  BY DEF supervisor
<1>1. Shapes' /\ Flags'
  <2>1. plan' = plan
    OBVIOUS
  <2>2. Flags'
    BY <1>0 DEF Super, Flags
  <2>3. Shapes'
    BY <1>0, <2>1 DEF Super, Shapes
  <2>4. QED
    BY <2>2, <2>3
<1>2. Owned'
  BY <1>0 DEF Super, Owned, Quiet
<1>3. Supervised'
  <2>1. active \in Conns \/ active = None
    BY DEF Super, Shapes
  <2>2. QED
    BY <1>0, <2>1 DEF Super, Supervised, Quiet
<1>4. Single'
  <2>1. \A c \in Conns : conn'[c].phase = "open" =>
          c = active \/ (worker.at \in Holding /\ c = worker.conn)
    BY DEF Super, Single, Quiet
  <2>2. worker.at \in Installed /\ active = None => conn'[worker.conn].phase # "open"
    BY DEF Super, Single, Quiet, Owned, Installed, Holding
  <2>3. QED
    BY <1>0, <2>1, <2>2 DEF Single
<1>5. QED
  BY <1>1, <1>2, <1>3, <1>4 DEF Super

\* scheduleReconnect queues an attempt unless one is queued or the client is
\* closed.
LEMMA ScheduleQueues ==
  ASSUME Flags, Supervised, Schedule(scheduled)
  PROVE  /\ scheduled' \in BOOLEAN /\ timer' \in BOOLEAN
         /\ ~closed => timer'
<1> USE Zenon
<1>1. ~closed /\ scheduled => timer
  BY DEF Supervised
<1>2. QED
  BY <1>1 DEF Flags, Schedule

\* Records with the fields of worker.
IsWorker(w) == w \in [at : {w.at}, conn : {w.conn}, todo : {w.todo}, list : {w.list}]

\* A record with these fields is one.
LEMMA WorkerRecord ==
  ASSUME NEW i, NEW j, NEW k, NEW l, NEW v,
         v \in [at : {i}, conn : {j}, todo : {k}, list : {l}]
  PROVE  IsWorker(v) /\ v.at = i /\ v.conn = j
  BY Zenon DEF IsWorker

\* So are the idle worker and one that starts to connect.
LEMMA WorkerIdle ==
  ASSUME NEW x, NEW v, v = Idle \/ v = [Idle EXCEPT !.at = x]
  PROVE  IsWorker(v) /\ v.conn = None /\ (v = Idle => v.at = "idle")
                     /\ (v = [Idle EXCEPT !.at = x] => v.at = x)
<1> USE Zenon
<1>1. CASE v = Idle
  <2>1. v \in [at : {"idle"}, conn : {None}, todo : {{}}, list : {0}]
    BY <1>1 DEF Idle
  <2>2. v = [Idle EXCEPT !.at = x] => v.at = x
    BY DEF Idle
  <2>3. QED
    BY <2>1, <2>2, WorkerRecord, SMTT(30)
<1>2. CASE v = [Idle EXCEPT !.at = x]
  <2>1. v \in [at : {x}, conn : {None}, todo : {{}}, list : {0}]
    BY <1>2 DEF Idle
  <2>2. v = Idle => v.at = "idle"
    BY SMTT(30) DEF Idle
  <2>3. QED
    BY <2>1, <2>2, WorkerRecord, SMTT(30)
<1>3. QED
  BY <1>1, <1>2

\* The head of tryReconnect.
LEMMA TryReconnectKeeps ==
  ASSUME ClientTypeOK, Super, TryReconnect
  PROVE  Super'
<1> USE Zenon
<1> USE DEF Super
<1>0. /\ UNCHANGED <<plan, conn, active, closed, closer, drainer>>
      /\ timer' = FALSE /\ scheduled' = FALSE /\ worker.at = "idle"
  BY DEF TryReconnect, client
<1>1. IsWorker(worker)
  BY DEF Shapes, IsWorker
<1>2. IsWorker(worker') /\ worker'.conn = None
  BY <1>1, WorkerIdle DEF TryReconnect
<1>3. \/ worker'.at = "idle" /\ (closed \/ active # None)
      \/ worker'.at = "connect" /\ active = None /\ ~closed
  BY <1>1, WorkerIdle DEF TryReconnect
<1>4. Shapes'
  BY <1>0, <1>2, <1>3 DEF Shapes, IsWorker
<1>5. Flags'
  BY <1>0 DEF Flags
<1>6. Owned'
  BY <1>0, <1>2, <1>3 DEF Owned, Holding, Installed
<1>7. Supervised'
  BY <1>0, <1>2, <1>3 DEF Supervised, Installed
<1>8. Single'
  BY <1>0, <1>2, <1>3 DEF Single, Holding, Installed
<1>9. QED
  BY <1>4, <1>5, <1>6, <1>7, <1>8

\* A new connection is in the hands of the scheduler's thread.
LEMMA ConnectKeeps ==
  ASSUME ClientTypeOK, Draining, Super, Connect
  PROVE  ClientTypeOK' /\ Draining' /\ Super'
<1> USE Zenon
<1> USE DEF Super
<1>0. /\ UNCHANGED <<call, table, active, closed, scheduled, timer, closer, drainer>>
      /\ worker.at = "connect"
  BY DEF Connect
<1>1. IsWorker(worker) /\ conn \in [Conns -> ConnState]
  BY DEF Shapes, IsWorker, ClientTypeOK, ConnState
<1>2. PICK c \in Conns, events \in plan.events :
        conn' = [conn EXCEPT ![c] = Made(events)] /\ worker' = [worker EXCEPT !.at = "install", !.conn = c]
  BY DEF Connect
<1>3. IsWorker(worker') /\ worker'.conn = c /\ worker'.at = "install"
  <2>1. worker' \in [at : {"install"}, conn : {c}, todo : {worker.todo}, list : {worker.list}]
    BY <1>1, <1>2 DEF IsWorker
  <2>2. QED
    BY <2>1 DEF IsWorker
<1>4. events \in BOOLEAN
  BY <1>2, PlansAssumption DEF Shapes
<1>5. /\ Made(events) \in ConnState /\ Made(events).phase = "open" /\ ~Made(events).watched
      /\ Made(events).drain = "no"
  BY <1>4 DEF Made, Unmade, ConnState, Phases
<1>6. conn'[c] = Made(events) /\ \A d \in Conns : d # c => conn'[d] = conn[d]
  BY <1>1, <1>2
<1>7. conn' \in [Conns -> ConnState]
  BY <1>1, <1>2, <1>5
<1>8. ClientTypeOK'
  BY <1>0, <1>7 DEF ClientTypeOK, ConnState
<1>9. Draining'
  <2> SUFFICES ASSUME NEW d \in Conns
               PROVE  /\ conn'[d].drain # "no" => ~conn'[d].accepting
                      /\ conn'[d].drain \in {"closing", "completed", "failed"}
                           => conn'[d].phase # "open"
    BY DEF Draining
  <2>1. QED
    BY <1>5, <1>6 DEF Draining
<1>10. active = None /\ active' = None
  BY <1>0 DEF Owned
<1>11. Shapes'
  BY <1>0, <1>3 DEF Shapes, IsWorker, Connect
<1>12. Flags'
  BY <1>0 DEF Flags
<1>13. Owned'
  BY <1>0, <1>3, <1>5, <1>6, <1>10 DEF Owned, Holding, Installed
<1>14. Supervised'
  BY <1>0, <1>3, <1>10 DEF Supervised
<1>15. Single'
  <2>1. \A d \in Conns : conn[d].phase # "open"
    BY <1>0, <1>10, ClientAssumption DEF Single, Holding
  <2>2. QED
    BY <1>3, <1>6, <2>1 DEF Single, Holding, Installed
<1>16. QED
  BY <1>8, <1>9, <1>11, <1>12, <1>13, <1>14, <1>15

\* The steps of install after active is set, up to the last.
LEMMA InstallKeeps ==
  ASSUME ClientTypeOK, Super,
         InstallEach \/ InstallAdds \/ InstallResets
           \/ (InstallSubscribes /\ conn[worker.conn].events)
  PROVE  Super' /\ conn' = conn
<1> USE Zenon
<1> USE DEF Super
<1>0. UNCHANGED <<plan, conn, active, closed, closer, drainer, timer>>
  BY DEF InstallEach, InstallAdds, InstallResets, InstallSubscribes, client
<1>1. scheduled' = scheduled \/ scheduled' = FALSE
  BY DEF InstallEach, InstallAdds, InstallResets, InstallSubscribes
<1>2. IsWorker(worker)
  BY DEF Shapes, IsWorker
<1>3. worker.at \in Installed
  BY DEF InstallEach, InstallAdds, InstallResets, InstallSubscribes, Installed
<1>4. IsWorker(worker') /\ worker'.conn = worker.conn /\ worker'.at \in Installed
  <2>1. \E x \in Installed : \E z, g :
          worker' \in [at : {x}, conn : {worker.conn}, todo : {z}, list : {g}]
    <3>1. CASE InstallEach
      <4>1. worker' \in [at : {"subscribe"}, conn : {worker.conn},
                         todo : {Members(Own, map[Own])}, list : {worker.list}]
        BY <1>2, <3>1 DEF IsWorker, InstallEach
      <4>2. QED
        BY <4>1 DEF Installed
    <3>2. CASE InstallAdds
      <4>1. PICK l : worker' = [worker EXCEPT !.at = "subscribe", !.todo = @ \ {l}, !.list = 0]
        BY <3>2 DEF InstallAdds
      <4>2. worker' \in [at : {"subscribe"}, conn : {worker.conn}, todo : {worker.todo \ {l}}, list : {0}]
        BY <1>2, <4>1 DEF IsWorker
      <4>3. QED
        BY <4>2 DEF Installed
    <3>3. CASE InstallResets
      <4>1. worker' \in [at : {"watch"}, conn : {worker.conn}, todo : {worker.todo}, list : {worker.list}]
        BY <1>2, <3>3 DEF IsWorker, InstallResets
      <4>2. QED
        BY <4>1 DEF Installed
    <3>4. CASE InstallSubscribes /\ conn[worker.conn].events
      <4>1. worker' \in [at : {"add"}, conn : {worker.conn}, todo : {worker.todo},
                         list : {Joined(worker.conn)}]
        BY <1>2, <3>4 DEF IsWorker, InstallSubscribes
      <4>2. QED
        BY <4>1 DEF Installed
    <3>5. QED
      BY <3>1, <3>2, <3>3, <3>4
  <2>2. QED
    BY <2>1 DEF IsWorker
<1>5. Shapes'
  BY <1>0, <1>4 DEF Shapes, IsWorker, Installed
<1>6. Flags'
  BY <1>0, <1>1 DEF Flags
<1>7. Owned'
  BY <1>0, <1>3, <1>4 DEF Owned, Holding, Installed
<1>8. Supervised'
  BY <1>0, <1>1, <1>3, <1>4 DEF Supervised, Installed
<1>9. Single'
  BY <1>0, <1>3, <1>4 DEF Single, Holding, Installed
<1>10. QED
  BY <1>0, <1>5, <1>6, <1>7, <1>8, <1>9

\* install sets active.
LEMMA InstallSetsKeeps ==
  ASSUME ClientTypeOK, Super, InstallSets
  PROVE  Super' /\ conn' = conn
<1> USE Zenon
<1> USE DEF Super
<1>0. /\ UNCHANGED <<plan, conn, closed, closer, drainer, timer, scheduled>>
      /\ worker.at = "set" /\ active' = worker.conn
  BY DEF InstallSets, client
<1>1. IsWorker(worker)
  BY DEF Shapes, IsWorker
<1>2. IsWorker(worker') /\ worker'.conn = worker.conn /\ worker'.at = "each"
  <2>1. worker' \in [at : {"each"}, conn : {worker.conn}, todo : {worker.todo}, list : {worker.list}]
    BY <1>1 DEF IsWorker, InstallSets
  <2>2. QED
    BY <2>1 DEF IsWorker
<1>3. worker.conn \in Conns /\ worker.conn # None /\ ~conn[worker.conn].watched
  BY <1>0, ClientAssumption DEF Owned, Holding
<1>4. active = None
  BY <1>0 DEF Owned
<1>5. Shapes'
  BY <1>0, <1>2, <1>3 DEF Shapes, IsWorker
<1>6. Flags'
  BY <1>0 DEF Flags
<1>7. Owned'
  BY <1>0, <1>2, <1>3 DEF Owned, Holding, Installed
<1>8. Supervised'
  BY <1>0, <1>2 DEF Supervised, Installed
<1>9. Single'
  <2>1. \A c \in Conns : conn[c].phase = "open" => c = worker.conn
    BY <1>0, <1>4, ClientAssumption DEF Single
  <2>2. QED
    BY <1>0, <1>2, <1>3, <2>1 DEF Single
<1>10. QED
  BY <1>0, <1>5, <1>6, <1>7, <1>8, <1>9

\* An attempt that fails: no connection, or install throws.
LEMMA FailedKeeps ==
  ASSUME ClientTypeOK, Super,
         ConnectFails \/ (InstallSubscribes /\ ~conn[worker.conn].events)
  PROVE  Super' /\ conn' = conn
<1> USE Zenon
<1> USE DEF Super
<1>0. /\ UNCHANGED <<plan, conn, active, closed, closer, drainer>>
      /\ worker' = Idle /\ Schedule(scheduled)
  BY DEF ConnectFails, InstallSubscribes, client
<1>1. IsWorker(worker') /\ worker'.conn = None /\ worker'.at = "idle"
  BY <1>0, WorkerIdle
<1>2. scheduled' \in BOOLEAN /\ timer' \in BOOLEAN /\ (~closed => timer')
  BY <1>0, ScheduleQueues
<1>3. \/ worker.at = "connect" /\ active = None
      \/ worker.at \in Installed /\ ~conn[worker.conn].events
  BY DEF ConnectFails, InstallSubscribes, Installed, Owned
<1>4. Shapes'
  BY <1>0, <1>1 DEF Shapes, IsWorker
<1>5. Flags'
  BY <1>0, <1>2 DEF Flags
<1>6. Owned'
  BY <1>0, <1>1 DEF Owned, Holding, Installed
<1>7. Supervised'
  <2>1. active # None => ~conn[active].events
    BY <1>3 DEF Owned
  <2>2. QED
    BY <1>0, <1>1, <1>2, <2>1 DEF Supervised
<1>8. Single'
  <2>1. ASSUME NEW c \in Conns, conn[c].phase = "open"
        PROVE  c = active
    BY <1>3, <2>1 DEF Single, Owned, Holding, Installed
  <2>2. QED
    BY <1>0, <1>1, <2>1 DEF Single, Holding, Installed
<1>9. QED
  BY <1>0, <1>4, <1>5, <1>6, <1>7, <1>8

\* install finds the client closed, or goes on.
LEMMA InstallChecksKeeps ==
  ASSUME ClientTypeOK, Draining, Super, InstallChecks
  PROVE  ClientTypeOK' /\ Draining' /\ Super'
<1> USE Zenon
<1> USE DEF Super
<1>0. /\ UNCHANGED <<plan, active, closed, closer, drainer, timer, scheduled>>
      /\ worker.at = "install"
  BY DEF InstallChecks
<1>1. worker.conn \in Conns /\ active = None /\ IsWorker(worker)
  BY <1>0 DEF Owned, Holding, Shapes, IsWorker
<1>2. Flags'
  BY <1>0 DEF Flags
<1>3. CASE closed
  <2>1. Close(worker.conn) /\ worker' = Idle
    BY <1>3 DEF InstallChecks
  <2>2. ClientTypeOK' /\ Draining' /\ Quiet
    BY <1>1, <2>1, ConnectionSteps
  <2>3. IsWorker(worker') /\ worker'.conn = None /\ worker'.at = "idle"
    BY <2>1, WorkerIdle
  <2>4. conn'[worker.conn].phase # "open"
    BY <1>1, <2>1, CloseRecord DEF Close, ClientTypeOK, ConnState
  <2>5. Shapes'
    BY <1>0, <2>3 DEF Shapes, IsWorker
  <2>6. Owned'
    BY <1>0, <1>1, <2>3 DEF Owned, Holding, Installed
  <2>7. Supervised'
    BY <1>0, <1>3 DEF Supervised
  <2>8. Single'
    <3>1. ASSUME NEW c \in Conns
          PROVE  conn'[c].phase # "open"
      BY <1>0, <1>1, <2>2, <2>4, ClientAssumption DEF Quiet, Single
    <3>2. QED
      BY <2>3, <3>1 DEF Single, Installed
  <2>9. QED
    BY <1>2, <2>2, <2>5, <2>6, <2>7, <2>8
<1>4. CASE ~closed
  <2>1. worker' = [worker EXCEPT !.at = "set"] /\ UNCHANGED <<conn, call, table>>
    BY <1>4 DEF InstallChecks, client
  <2>2. IsWorker(worker') /\ worker'.conn = worker.conn /\ worker'.at = "set"
    <3>1. worker' \in [at : {"set"}, conn : {worker.conn}, todo : {worker.todo}, list : {worker.list}]
      BY <1>1, <2>1 DEF IsWorker
    <3>2. QED
      BY <3>1 DEF IsWorker
  <2>3. ClientTypeOK' /\ Draining'
    BY <2>1 DEF ClientTypeOK, Draining
  <2>4. Shapes'
    BY <1>0, <2>2 DEF Shapes, IsWorker
  <2>5. Owned'
    BY <1>0, <1>1, <2>1, <2>2 DEF Owned, Holding, Installed
  <2>6. Supervised'
    BY <1>0, <1>1, <2>2 DEF Supervised
  <2>7. Single'
    BY <1>0, <2>1, <2>2 DEF Single, Holding, Installed
  <2>8. QED
    BY <1>2, <2>3, <2>4, <2>5, <2>6, <2>7
<1>5. QED
  BY <1>3, <1>4

\* The callback on the end of a connection.
LEMMA TerminatedSchedules ==
  ASSUME Flags, Supervised, NEW c, Terminated(c)
  PROVE  /\ active' = (IF active = c THEN None ELSE active)
         /\ scheduled' \in BOOLEAN /\ timer' \in BOOLEAN
         /\ active = c /\ ~closed => timer'
         /\ active # c \/ closed => scheduled' = scheduled /\ timer' = timer
<1> USE Zenon
<1>1. active' = (IF active = c THEN None ELSE active)
  BY DEF Terminated
<1>2. CASE active = c /\ ~closed
  <2>1. Schedule(scheduled)
    BY <1>2 DEF Terminated
  <2>2. QED
    BY <1>1, <1>2, <2>1, ScheduleQueues
<1>3. CASE active # c \/ closed
  <2>1. scheduled' = scheduled /\ timer' = timer
    BY <1>3 DEF Terminated
  <2>2. QED
    BY <1>1, <1>3, <2>1 DEF Flags
<1>4. QED
  BY <1>2, <1>3

\* install watches the connection, or finds it gone.
LEMMA InstallWatchesKeeps ==
  ASSUME ClientTypeOK, Draining, Super, InstallWatches
  PROVE  ClientTypeOK' /\ Draining' /\ Super'
<1> USE Zenon
<1> USE DEF Super
<1>0. /\ UNCHANGED <<plan, call, table, closed, closer, drainer>>
      /\ worker.at = "watch" /\ worker' = Idle
  BY DEF InstallWatches
<1>1. /\ worker.conn \in Conns /\ worker.conn # None
      /\ (active = worker.conn \/ active = None)
      /\ (active = None => closed /\ conn[worker.conn].phase # "open")
  BY <1>0, ClientAssumption DEF Owned, Holding, Installed, Single
<1>2. IsWorker(worker') /\ worker'.conn = None /\ worker'.at = "idle"
  BY <1>0, WorkerIdle
<1>3. conn \in [Conns -> ConnState]
  BY DEF ClientTypeOK, ConnState
<1>4. CASE conn[worker.conn].phase = "gone"
  <2>1. Terminated(worker.conn) /\ conn' = conn
    BY <1>4 DEF InstallWatches
  <2>2. /\ active' = None
        /\ scheduled' \in BOOLEAN /\ timer' \in BOOLEAN
        /\ ~closed => timer'
    BY <1>1, <2>1, TerminatedSchedules
  <2>3. Shapes'
    BY <1>0, <1>2, <2>2 DEF Shapes, IsWorker
  <2>4. Flags'
    BY <1>0, <2>2 DEF Flags
  <2>5. Owned'
    BY <1>0, <1>2, <2>2 DEF Owned, Holding, Installed
  <2>6. Supervised'
    BY <1>0, <1>2, <2>2 DEF Supervised
  <2>7. Single'
    <3>1. ASSUME NEW c \in Conns
          PROVE  conn[c].phase # "open"
      <4>1. conn[c].phase = "open" => c = worker.conn
        BY <1>0, <1>1, ClientAssumption DEF Single
      <4>2. QED
        BY <1>4, <4>1
    <3>2. QED
      BY <1>2, <2>1, <3>1 DEF Single, Installed
  <2>8. ClientTypeOK' /\ Draining'
    BY <1>0, <2>1 DEF ClientTypeOK, Draining
  <2>9. QED
    BY <2>3, <2>4, <2>5, <2>6, <2>7, <2>8
<1>5. CASE conn[worker.conn].phase # "gone"
  <2>1. /\ conn' = [conn EXCEPT ![worker.conn].watched = TRUE]
        /\ UNCHANGED <<active, scheduled, timer>>
    BY <1>5 DEF InstallWatches
  <2>2. conn[worker.conn] \in ConnState
    BY <1>1, <1>3
  <2>3. /\ conn' \in [Conns -> ConnState]
        /\ conn'[worker.conn].watched
        /\ conn'[worker.conn].phase = conn[worker.conn].phase
        /\ conn'[worker.conn].drain = conn[worker.conn].drain
        /\ conn'[worker.conn].accepting = conn[worker.conn].accepting
        /\ \A c \in Conns : c # worker.conn => conn'[c] = conn[c]
    BY <1>1, <1>3, <2>1, <2>2 DEF ConnState
  <2>4. \A c \in Conns : conn'[c].phase = conn[c].phase /\ conn'[c].drain = conn[c].drain
                         /\ conn'[c].accepting = conn[c].accepting
    BY <2>3
  <2>5. ClientTypeOK'
    BY <1>0, <2>3 DEF ClientTypeOK, ConnState
  <2>6. Draining'
    BY <2>4 DEF Draining
  <2>7. Shapes'
    BY <1>0, <1>2, <2>1 DEF Shapes, IsWorker
  <2>8. Flags'
    BY <1>0, <2>1 DEF Flags
  <2>9. Owned'
    BY <1>0, <1>2, <2>1 DEF Owned, Holding, Installed
  <2>10. Supervised'
    BY <1>0, <1>1, <1>2, <1>5, <2>1, <2>3 DEF Supervised
  <2>11. Single'
    <3>1. ASSUME NEW c \in Conns, conn'[c].phase = "open"
          PROVE  c = active'
      BY <1>1, <2>1, <2>4, <3>1 DEF Single
    <3>2. QED
      BY <1>2, <3>1 DEF Single, Installed
  <2>12. QED
    BY <2>5, <2>6, <2>7, <2>8, <2>9, <2>10, <2>11
<1>6. QED
  BY <1>4, <1>5

\* The end of a connection is reported.
LEMMA TerminationKeeps ==
  ASSUME ClientTypeOK, Draining, Super, NEW c \in Conns, TerminationCompletes(c)
  PROVE  ClientTypeOK' /\ Draining' /\ Super'
<1> USE Zenon
<1> USE DEF Super
<1>0. /\ UNCHANGED <<plan, call, table, closed, worker, closer, drainer>>
      /\ conn[c].phase = "finish" /\ conn' = [conn EXCEPT ![c].phase = "gone"]
  BY DEF TerminationCompletes
<1>1. conn \in [Conns -> ConnState] /\ conn[c] \in ConnState
  BY DEF ClientTypeOK, ConnState
<1>2. /\ conn' \in [Conns -> ConnState]
      /\ conn'[c].phase = "gone"
      /\ \A d \in Conns : d # c => conn'[d].phase = conn[d].phase
      /\ \A d \in Conns : conn'[d].drain = conn[d].drain /\ conn'[d].accepting = conn[d].accepting
                          /\ conn'[d].watched = conn[d].watched /\ conn'[d].events = conn[d].events
  BY <1>0, <1>1 DEF ConnState, Phases
<1>3. ClientTypeOK' /\ Draining'
  BY <1>0, <1>2 DEF ClientTypeOK, ConnState, Draining
<1>4. \/ conn[c].watched /\ Terminated(c)
      \/ ~conn[c].watched /\ UNCHANGED <<active, scheduled, timer>>
  BY DEF TerminationCompletes
<1>5. c # None
  BY ClientAssumption
<1>6. /\ scheduled' \in BOOLEAN /\ timer' \in BOOLEAN
      /\ active' = active \/ (active = c /\ active' = None)
      /\ active' # active /\ ~closed => timer'
      /\ active' = active => scheduled' = scheduled /\ timer' = timer
      /\ conn[c].watched => active' # c
      /\ active' # active => conn[c].watched
  <2>1. CASE conn[c].watched /\ Terminated(c)
    BY <1>5, <2>1, TerminatedSchedules
  <2>2. CASE ~conn[c].watched /\ UNCHANGED <<active, scheduled, timer>>
    BY <2>2 DEF Flags
  <2>3. QED
    BY <1>4, <2>1, <2>2
<1>7. Shapes'
  BY <1>0, <1>6 DEF Shapes
<1>8. Flags'
  BY <1>0, <1>6 DEF Flags
<1>9. Owned'
  <2>1. active' # active => ~(worker.at \in Installed)
    BY <1>5, <1>6 DEF Owned, Installed, Holding
  <2>2. QED
    BY <1>0, <1>2, <1>6, <2>1 DEF Owned, Holding
<1>10. Supervised'
  <2>1. ASSUME ~closed, active' # None, worker.at \notin Installed, conn[active].events
        PROVE  conn'[active].watched /\ conn'[active].phase # "gone"
    <3>1. active' = active /\ active \in Conns
      BY <1>6, <2>1 DEF Shapes
    <3>2. conn[active].watched /\ conn[active].phase # "gone"
      BY <2>1, <3>1 DEF Supervised
    <3>3. active # c
      BY <1>6, <3>1, <3>2
    <3>4. QED
      BY <1>2, <3>1, <3>2, <3>3
  <2>2. ~closed /\ scheduled' => timer'
    <3>1. ~closed => (scheduled => timer)
      BY DEF Supervised
    <3>2. CASE active' = active
      <4>1. scheduled' = scheduled /\ timer' = timer
        BY <1>6, <3>2
      <4>2. QED
        BY <3>1, <4>1
    <3>3. CASE active' # active
      BY <1>6, <3>3
    <3>4. QED
      BY <3>2, <3>3
  <2>3. ~closed /\ worker.at = "idle" => timer' \/ active' # None
    BY <1>6, SMTT(30) DEF Supervised
  <2>4. active' # None => active' = active /\ active \in Conns
    BY <1>6 DEF Shapes
  <2>5. QED
    BY <1>0, <1>2, <2>1, <2>2, <2>3, <2>4 DEF Supervised
<1>11. Single'
  <2>1. ASSUME NEW d \in Conns, conn'[d].phase = "open"
        PROVE  d = active' \/ (worker.at \in Holding /\ d = worker.conn)
    BY <1>2, <1>6, <2>1 DEF Single
  <2>2. ASSUME worker.at \in Installed, active' = None
        PROVE  conn'[worker.conn].phase # "open"
    BY <1>2, <1>6, <2>2 DEF Single, Owned, Holding, Installed
  <2>3. QED
    BY <1>0, <2>1, <2>2 DEF Single
<1>12. QED
  BY <1>3, <1>7, <1>8, <1>9, <1>10, <1>11

\* close() and drain() stop the supervisor, and the client they take from it.
LEMMA StopKeeps ==
  ASSUME ClientTypeOK, Draining, Super, Stop
  PROVE  ClientTypeOK' /\ Draining' /\ Super'
<1> USE Zenon
<1> USE DEF Super
<1>0. plan' = plan /\ scheduled' = scheduled /\ worker' = worker
  BY DEF Stop, CloseBegins, CloseEnds, DrainReads, DrainCalls, DrainStops, DrainEnds
<1>1. drainer \in [at : {"no", "read", "called", "waiting", "done"}, conn : Conns \cup {None}]
  BY DEF Shapes
<1>2. CASE CloseBegins \/ DrainReads \/ DrainStops
  <2>1. UNCHANGED <<conn, call, table, active>>
    BY <1>2 DEF CloseBegins, DrainReads, DrainStops, client
  <2>2. \/ closed' = closed /\ timer' = timer
        \/ closed' = TRUE /\ timer' = FALSE
    BY <1>2 DEF CloseBegins, DrainReads, DrainStops
  <2>3. /\ closer' = closer \/ (closer' = "closing" /\ closed' = TRUE) \/ closer' = "done"
    BY <1>2 DEF CloseBegins, DrainReads, DrainStops
  <2>4. /\ drainer' \in [at : {"no", "read", "called", "waiting", "done"}, conn : Conns \cup {None}]
        /\ \/ drainer' = drainer
           \/ drainer'.at = "done"
           \/ drainer'.at = "read" /\ drainer'.conn \in Conns
           \/ drainer'.at = "waiting" /\ closed' = TRUE /\ drainer'.conn = drainer.conn
              /\ drainer.at = "called"
    <3>1. CASE CloseBegins
      BY <1>1, <3>1 DEF CloseBegins
    <3>2. CASE DrainReads
      BY <1>1, <3>2, SMTT(30) DEF DrainReads, Shapes
    <3>3. CASE DrainStops
      BY <1>1, <3>3 DEF DrainStops
    <3>4. QED
      BY <1>2, <3>1, <3>2, <3>3
  <2>5. ClientTypeOK' /\ Draining'
    BY <2>1 DEF ClientTypeOK, Draining
  <2>6. Shapes'
    BY <1>0, <2>1, <2>3, <2>4 DEF Shapes
  <2>7. Flags'
    BY <1>0, <2>2 DEF Flags
  <2>8. closed => closed'
    BY <2>2
  <2>9. Owned'
    <3>1. closer' = "closing" => closed'
      BY <2>3, <2>8 DEF Owned
    <3>2. drainer'.at = "waiting" => closed'
      BY <2>4, <2>8 DEF Owned
    <3>3. drainer'.at \in {"read", "called", "waiting"} => drainer'.conn \in Conns
      BY <2>4 DEF Owned
    <3>4. QED
      BY <1>0, <2>1, <2>8, <3>1, <3>2, <3>3 DEF Owned
  <2>10. Supervised'
    <3>1. CASE closed' = closed /\ timer' = timer
      BY <1>0, <2>1, <3>1 DEF Supervised
    <3>2. CASE closed' = TRUE
      BY <3>2 DEF Supervised
    <3>3. QED
      BY <2>2, <3>1, <3>2
  <2>11. Single'
    BY <1>0, <2>1 DEF Single
  <2>12. QED
    BY <2>5, <2>6, <2>7, <2>9, <2>10, <2>11
<1>3. CASE DrainCalls
  <2>1. drainer.conn \in Conns
    BY <1>3 DEF DrainCalls, Owned
  <2> DEFINE r == DrainFrom(conn[drainer.conn])
  <2>2. conn' = [conn EXCEPT ![drainer.conn] = r] /\ UNCHANGED <<call, table>>
    BY <1>3 DEF DrainCalls
  <2>3. conn[drainer.conn] \in ConnState
    BY <2>1 DEF ClientTypeOK, ConnState
  <2>4. /\ r \in ConnState
        /\ r.watched = conn[drainer.conn].watched /\ r.events = conn[drainer.conn].events
        /\ r.drain = (IF conn[drainer.conn].drain = "no" THEN "waiting" ELSE conn[drainer.conn].drain)
        /\ ~r.accepting
        /\ r.phase = conn[drainer.conn].phase
    BY <2>1, <2>3, DrainRecord DEF Draining
  <2>5. r.drain \in {"closing", "completed", "failed"} => r.phase # "open"
    BY <2>1, <2>4 DEF Draining
  <2> HIDE DEF r
  <2>6. conn' \in [Conns -> ConnState] /\ Quiet /\ Draining'
    BY <2>1, <2>2, <2>4, <2>5, OneRecord
  <2>7. ClientTypeOK'
    BY <2>2, <2>6 DEF ClientTypeOK, ConnState
  <2>8. /\ UNCHANGED <<active, closed, timer, closer>>
        /\ drainer.at = "read" /\ drainer' = [drainer EXCEPT !.at = "called"]
    BY <1>3 DEF DrainCalls
  <2>9. /\ drainer' \in [at : {"no", "read", "called", "waiting", "done"}, conn : Conns \cup {None}]
        /\ drainer'.at = "called" /\ drainer'.conn = drainer.conn
    BY <1>1, <2>8
  <2>10. Shapes'
    BY <1>0, <2>8, <2>9 DEF Shapes
  <2>11. Flags'
    BY <1>0, <2>8 DEF Flags
  <2>12. Owned'
    BY <1>0, <2>1, <2>6, <2>8, <2>9 DEF Owned, Quiet
  <2>13. Supervised'
    <3>1. active \in Conns \/ active = None
      BY DEF Shapes
    <3>2. QED
      BY <1>0, <2>6, <2>8, <3>1 DEF Supervised, Quiet
  <2>14. Single'
    BY <1>0, <2>6, <2>8 DEF Single, Quiet, Owned, Installed, Holding
  <2>15. QED
    BY <2>6, <2>7, <2>10, <2>11, <2>12, <2>13, <2>14
<1>4. CASE CloseEnds \/ DrainEnds
  <2>1. closed /\ UNCHANGED <<closed, timer>>
    BY <1>4 DEF CloseEnds, DrainEnds, Owned
  <2>2. /\ active' = None \/ active' = active
        /\ closer' \in {closer, "done"}
        /\ drainer' \in [at : {"no", "read", "called", "waiting", "done"}, conn : Conns \cup {None}]
        /\ drainer' = drainer \/ drainer'.at = "done"
    BY <1>1, <1>4 DEF CloseEnds, DrainEnds
  <2>3. ClientTypeOK' /\ Draining' /\ Quiet /\ (active # None /\ active' = None => conn'[active].phase # "open")
    <3>1. CASE CloseEnds /\ active # None
      <4>1. Close(active) /\ active \in Conns
        BY <3>1 DEF CloseEnds, Shapes
      <4>2. ClientTypeOK' /\ Draining' /\ Quiet
        BY <4>1, ConnectionSteps
      <4>3. conn'[active].phase # "open"
        BY <4>1, CloseRecord DEF Close, ClientTypeOK, ConnState
      <4>4. QED
        BY <4>2, <4>3
    <3>2. CASE CloseEnds /\ active = None
      <4>1. UNCHANGED <<conn, call, table>>
        BY <3>2 DEF CloseEnds, client
      <4>2. QED
        BY <3>2, <4>1 DEF ClientTypeOK, Draining, Quiet
    <3>3. CASE DrainEnds
      <4>1. UNCHANGED <<conn, call, table>>
        BY <3>3 DEF DrainEnds, client
      <4>2. active # None /\ active' = None => conn[active].phase # "open"
        BY <3>3 DEF DrainEnds, Draining, Owned
      <4>3. QED
        BY <4>1, <4>2 DEF ClientTypeOK, Draining, Quiet
    <3>4. QED
      BY <1>4, <3>1, <3>2, <3>3
  <2>4. Shapes'
    BY <1>0, <2>2 DEF Shapes
  <2>5. Flags'
    BY <1>0, <2>1 DEF Flags
  <2>6. Owned'
    BY <1>0, <2>1, <2>2, <2>3 DEF Owned, Quiet
  <2>7. Supervised'
    BY <2>1 DEF Supervised
  <2>8. Single'
    <3>1. ASSUME NEW c \in Conns, conn'[c].phase = "open"
          PROVE  c = active' \/ (worker.at \in Holding /\ c = worker.conn)
      BY <2>2, <2>3, <3>1, ClientAssumption DEF Single, Quiet
    <3>2. ASSUME worker.at \in Installed, active' = None
          PROVE  conn'[worker.conn].phase # "open"
      BY <2>2, <2>3, <3>2 DEF Single, Quiet, Owned, Installed, Holding
    <3>3. QED
      BY <1>0, <3>1, <3>2 DEF Single
  <2>9. QED
    BY <2>3, <2>4, <2>5, <2>6, <2>7, <2>8
<1>5. QED
  BY <1>2, <1>3, <1>4 DEF Stop

-----------------------------------------------------------------------------
(* Calls                                                                   *)

\* A change of connections alone: no drain decides over a call that waits, and
\* failAll does not go past one.
LEMMA AwaitedConn ==
  ASSUME Awaited, UNCHANGED <<call, table>>,
         ASSUME NEW c \in Conns
         PROVE  /\ conn'[c].drain \in {"closing", "completed"}
                     => conn[c].drain \in {"closing", "completed"} \/ InTable(c) = {}
                /\ \/ conn'[c].phase = conn[c].phase
                   \/ conn'[c].phase \in {"open", "goodbye", "pending"}
                   \/ conn[c].phase = "finish"
  PROVE  Awaited'
<1> USE Zenon
<1> SUFFICES ASSUME NEW k \in Calls, Waiting(k)
             PROVE  /\ conn'[call[k].conn].drain \notin {"closing", "completed"}
                    /\ \/ conn'[call[k].conn].phase \in {"open", "goodbye", "pending"}
                       \/ k \in Streams /\ conn'[call[k].conn].phase \in {"clear", "streams"}
  BY DEF Awaited, Waiting
<1>1. /\ k \in table /\ call[k].conn \in Conns
      /\ conn[call[k].conn].drain \notin {"closing", "completed"}
      /\ \/ conn[call[k].conn].phase \in {"open", "goodbye", "pending"}
         \/ k \in Streams /\ conn[call[k].conn].phase \in {"clear", "streams"}
  BY DEF Awaited, Waiting
<1>2. InTable(call[k].conn) # {}
  BY <1>1 DEF InTable, Of
<1>3. QED
  BY <1>1, <1>2

\* A change of one call that does not wait afterwards.
LEMMA AwaitedBut ==
  ASSUME Awaited, NEW k \in Calls,
         \A c \in Conns : conn'[c].drain = conn[c].drain /\ conn'[c].phase = conn[c].phase,
         \A j \in Calls : j # k => call'[j] = call[j] /\ (j \in table' <=> j \in table),
         call'[k].at # "new" /\ ~Waiting(k)',
         \/ call'[k].conn \in Conns
         \/ call'[k].at = "refused" /\ k \notin table' /\ call'[k].future = "open"
  PROVE  Awaited'
<1> USE Zenon
<1> SUFFICES ASSUME NEW j \in Calls, j # k
             PROVE  /\ call'[j].at = "new" => j \notin table' /\ call'[j].future = "open"
                    /\ call'[j].at \notin {"new", "refused"} \/ j \in table' \/ call'[j].future # "open"
                         => call'[j].conn \in Conns
                    /\ Waiting(j)' =>
                         /\ j \in table'
                         /\ conn'[call'[j].conn].drain \notin {"closing", "completed"}
                         /\ conn'[call'[j].conn].phase \in {"open", "goodbye", "pending"}
                              \/ (j \in Streams /\ conn'[call'[j].conn].phase \in {"clear", "streams"})
  BY DEF Awaited
<1>1. call'[j] = call[j] /\ (j \in table' <=> j \in table)
  OBVIOUS
<1>2. Waiting(j)' => Waiting(j) /\ call[j].conn \in Conns
  BY <1>1 DEF Waiting, Awaited
<1>3. /\ call'[j].at = "new" => j \notin table' /\ call'[j].future = "open"
      /\ call'[j].at \notin {"new", "refused"} \/ j \in table' \/ call'[j].future # "open"
           => call'[j].conn \in Conns
  BY <1>1 DEF Awaited
<1>4. ASSUME Waiting(j)'
      PROVE  /\ j \in table'
             /\ conn'[call'[j].conn].drain \notin {"closing", "completed"}
             /\ conn'[call'[j].conn].phase \in {"open", "goodbye", "pending"}
                  \/ (j \in Streams /\ conn'[call'[j].conn].phase \in {"clear", "streams"})
  BY <1>1, <1>2, <1>4, SMTT(30) DEF Awaited
<1>5. QED
  BY <1>3, <1>4

\* Completing futures leaves the other calls as they are.
LEMMA AwaitedFinish ==
  ASSUME ClientTypeOK, Awaited, NEW ks \in SUBSET Calls, Finish(ks),
         \A k \in ks : call[k].at # "new" /\ call[k].conn \in Conns
  PROVE  \A k \in Calls :
           /\ call'[k].conn = call[k].conn
           /\ k \in ks => call'[k].at # "new" /\ call'[k].future = "done" /\ ~Waiting(k)'
           /\ k \notin ks => call'[k] = call[k] /\ (k \in table' <=> k \in table)
<1> USE Zenon
<1> SUFFICES ASSUME NEW k \in Calls
             PROVE  /\ call'[k].conn = call[k].conn
                    /\ k \in ks => call'[k].at # "new" /\ call'[k].future = "done" /\ ~Waiting(k)'
                    /\ k \notin ks => call'[k] = call[k] /\ (k \in table' <=> k \in table)
  OBVIOUS
<1>1. call[k] \in CallState
  BY DEF ClientTypeOK, CallState
<1>2. CASE k \in ks
  <2>1. \/ call'[k] = [call[k] EXCEPT !.at = "settled", !.future = "done"]
        \/ call'[k] = [call[k] EXCEPT !.future = "done"]
    BY <1>2 DEF Finish
  <2>2. call[k].at # "new"
    BY <1>2
  <2>3. call'[k].conn = call[k].conn /\ call'[k].at # "new" /\ call'[k].future = "done"
    BY <1>1, <2>1, <2>2 DEF CallState
  <2>4. ~Waiting(k)'
    BY <2>3 DEF Waiting
  <2>5. QED
    BY <1>2, <2>3, <2>4
<1>3. CASE k \notin ks
  <2>1. call'[k] = call[k]
    BY <1>3 DEF Finish
  <2>2. k \in table' <=> k \in table
    BY <1>3 DEF Finish
  <2>3. QED
    BY <1>3, <2>1, <2>2
<1>4. QED
  BY <1>2, <1>3

\* The steps of a call.
LEMMA AwaitedCall ==
  ASSUME ClientTypeOK, Draining, Awaited, NEW k \in Calls, CallStep(k) \/ Cancel(k)
  PROVE  Awaited' /\ conn' = conn
<1> USE Zenon
<1>0. conn' = conn
  BY DEF CallStep, Cancel, Admit, Register, Enqueue, EnqueueFails, EnqueueThrows, Arm, Complete,
     Expire
<1>1. call \in [Calls -> CallState] /\ call[k] \in CallState
  BY DEF ClientTypeOK, CallState
<1>2. CASE Complete(k) \/ Expire(k) \/ Cancel(k)
  <2>1. Finish({k}) /\ call[k].at # "new" /\ call[k].conn \in Conns
    BY <1>2 DEF Complete, Expire, Cancel, Awaited
  <2>2. \A j \in Calls :
           /\ call'[j].conn = call[j].conn
           /\ j = k => call'[j].at # "new" /\ call'[j].future = "done" /\ ~Waiting(j)'
           /\ j # k => call'[j] = call[j] /\ (j \in table' <=> j \in table)
    BY <2>1, AwaitedFinish
  <2>3. QED
    BY <1>0, <2>1, <2>2, AwaitedBut
<1>3. CASE Admit(k) \/ Register(k) \/ Enqueue(k) \/ EnqueueFails(k) \/ EnqueueThrows(k) \/ Arm(k)
  <2>1. \A j \in Calls : j # k => call'[j] = call[j] /\ (j \in table' <=> j \in table)
    BY <1>1, <1>3 DEF Admit, Register, Enqueue, EnqueueFails, EnqueueThrows, Arm
  <2>2. /\ call'[k].conn = call[k].conn /\ call'[k].at # "new"
        /\ call[k].at \notin {"new", "refused"}
    BY <1>1, <1>3, SMTT(30) DEF Admit, Register, Enqueue, EnqueueFails, EnqueueThrows, Arm,
       CallState
  <2>3. call[k].conn \in Conns
    BY <2>2 DEF Awaited
  <2>4. ASSUME Waiting(k)'
        PROVE  /\ k \in table'
               /\ conn[call[k].conn].drain \notin {"closing", "completed"}
               /\ conn[call[k].conn].phase \in {"open", "goodbye", "pending"}
                    \/ (k \in Streams /\ conn[call[k].conn].phase \in {"clear", "streams"})
    <3>1. CASE Register(k)
      <4>1. call'[k].late = (IsClosed(call[k].conn) \/ ~conn[call[k].conn].accepting)
        BY <1>1, <3>1 DEF Register, CallState
      <4>2. conn[call[k].conn].phase = "open" /\ conn[call[k].conn].accepting
        BY <2>4, <4>1 DEF Waiting, IsClosed
      <4>3. QED
        BY <2>3, <3>1, <4>2 DEF Register, Draining
    <3>2. CASE Admit(k) \/ EnqueueFails(k)
      <4>1. call'[k].at \notin {"registered", "written", "sent", "thrown"}
        BY <1>1, <3>2, SMTT(30) DEF Admit, EnqueueFails, CallState
      <4>2. QED
        BY <2>4, <4>1 DEF Waiting
    <3>3. CASE Enqueue(k) \/ EnqueueThrows(k) \/ Arm(k)
      <4>1. Waiting(k) /\ k \in table'
        <5>1. call[k].at \in {"registered", "written"}
          BY <3>3 DEF Enqueue, EnqueueThrows, Arm
        <5>2. call'[k].future = call[k].future /\ call'[k].late = call[k].late
          BY <1>1, <3>3, SMTT(30) DEF Enqueue, EnqueueThrows, Arm, CallState
        <5>3. Waiting(k)
          BY <2>4, <5>1, <5>2 DEF Waiting
        <5>4. table' = table
          BY <3>3, <5>3 DEF Enqueue, EnqueueThrows, Arm, Waiting
        <5>5. QED
          BY <5>3, <5>4 DEF Awaited
      <4>2. QED
        BY <4>1 DEF Awaited
    <3>4. QED
      BY <1>3, <3>1, <3>2, <3>3
  <2>5. QED
    BY <1>0, <2>1, <2>2, <2>3, <2>4, SMTT(30) DEF Awaited, Waiting
<1>4. QED
  BY <1>0, <1>2, <1>3 DEF CallStep

\* The steps of a connection: failAll completes a map before it clears it, and
\* a drain decides only when both maps are empty.
LEMMA AwaitedConnection ==
  ASSUME ClientTypeOK, Draining, Awaited, NEW c \in Conns,
         \/ Terminate(c) \/ FailAll(c) \/ GoAway(c) \/ DrainStep(c) \/ Dispatch(c) \/ Close(c)
         \/ \E k \in Calls : Receive(c, k)
  PROVE  Awaited'
<1> USE Zenon
<1>0. conn \in [Conns -> ConnState] /\ conn[c] \in ConnState
  BY DEF ClientTypeOK, ConnState
<1>1. CASE \/ Terminate(c) \/ Goodbye(c) \/ GoAway(c) \/ DrainStep(c) \/ Close(c)
           \/ \E k \in Calls : Receive(c, k)
  <2>0. UNCHANGED <<call, table>>
    BY <1>1 DEF Terminate, Goodbye, GoAway, DrainStep, DrainEmpty, DrainTimeout, DrainCloses,
       Close, Receive
  <2>1. \A d \in Conns : d # c => conn'[d] = conn[d]
    BY <1>0, <1>1 DEF Terminate, Goodbye, GoAway, DrainStep, DrainEmpty, DrainTimeout,
       DrainCloses, Close, Receive
  <2>2. /\ conn'[c].drain \in {"closing", "completed"}
             => conn[c].drain \in {"closing", "completed"} \/ InTable(c) = {}
        /\ conn'[c].phase = conn[c].phase \/ conn'[c].phase \in {"open", "goodbye", "pending"}
    <3>1. CASE Terminate(c) \/ Goodbye(c)
      BY <1>0, <3>1, SMTT(30) DEF Terminate, Goodbye, ConnState
    <3>2. CASE GoAway(c)
      <4>1. /\ DrainFrom(conn[c]) \in ConnState
            /\ DrainFrom(conn[c]).drain = (IF conn[c].drain = "no" THEN "waiting" ELSE conn[c].drain)
            /\ DrainFrom(conn[c]).phase = conn[c].phase
        BY <1>0, DrainRecord DEF Draining
      <4>2. conn'[c] = [DrainFrom(conn[c]) EXCEPT !.reader = IF IsClosed(c) THEN "stopped" ELSE "waiting"]
        BY <1>0, <3>2 DEF GoAway
      <4>3. QED
        BY <4>1, <4>2 DEF ConnState
    <3>3. CASE Close(c)
      BY <1>0, <3>3, CloseRecord DEF Close
    <3>4. CASE DrainEmpty(c)
      <4>1. InTable(c) = {}
        BY <3>4 DEF DrainEmpty
      <4>2. PICK x : conn'[c] = [CloseFrom(conn[c]) EXCEPT !.drain = x]
        BY <1>0, <3>4 DEF DrainEmpty
      <4>3. QED
        BY <1>0, <4>1, <4>2, CloseRecord DEF ConnState
    <3>5. CASE DrainTimeout(c)
      <4>1. conn'[c] = [CloseFrom(conn[c]) EXCEPT !.drain = "failed"]
        BY <1>0, <3>5 DEF DrainTimeout
      <4>2. QED
        BY <1>0, <4>1, CloseRecord DEF ConnState
    <3>6. CASE DrainCloses(c)
      BY <1>0, <3>6 DEF DrainCloses, ConnState
    <3>7. CASE \E k \in Calls : Receive(c, k)
      BY <1>0, <3>7, SMTT(30) DEF Receive, ConnState
    <3>8. QED
      BY <1>1, <3>1, <3>2, <3>3, <3>4, <3>5, <3>6, <3>7 DEF DrainStep
  <2>3. ASSUME NEW d \in Conns
        PROVE  /\ conn'[d].drain \in {"closing", "completed"}
                    => conn[d].drain \in {"closing", "completed"} \/ InTable(d) = {}
               /\ \/ conn'[d].phase = conn[d].phase
                  \/ conn'[d].phase \in {"open", "goodbye", "pending"}
                  \/ conn[d].phase = "finish"
    BY <2>1, <2>2
  <2>4. QED
    BY <2>0, <2>3, AwaitedConn
<1>2. CASE FailPending(c) \/ FailStreams(c)
  <2> DEFINE mine == IF FailPending(c) THEN Unary ELSE Streams
             ks == InTable(c) \cap mine
  <2>1. /\ ks \in SUBSET Calls
        /\ \A k \in ks : call[k].at # "new" /\ call[k].conn \in Conns /\ call[k].conn = c
    BY ClientAssumption DEF InTable, Of, Unary, Awaited
  <2>2. Finish(ks)
    BY <1>2 DEF FailPending, FailStreams
  <2>3. /\ \A d \in Conns : conn'[d].drain = conn[d].drain
        /\ \A d \in Conns : d # c => conn'[d].phase = conn[d].phase
        /\ conn'[c].phase = (IF FailPending(c) THEN "clear" ELSE "drop")
        /\ conn[c].phase = (IF FailPending(c) THEN "pending" ELSE "streams")
    BY <1>0, <1>2, SMTT(30) DEF FailPending, FailStreams, ConnState
  <2>4. \A k \in Calls :
           /\ call'[k].conn = call[k].conn
           /\ k \in ks => call'[k].at # "new" /\ call'[k].future = "done" /\ ~Waiting(k)'
           /\ k \notin ks => call'[k] = call[k] /\ (k \in table' <=> k \in table)
    BY <2>1, <2>2, AwaitedFinish
  <2>5. ASSUME NEW k \in Calls
        PROVE  /\ call'[k].at = "new" => k \notin table' /\ call'[k].future = "open"
               /\ call'[k].at \notin {"new", "refused"} \/ k \in table' \/ call'[k].future # "open"
                    => call'[k].conn \in Conns
    BY <2>1, <2>4 DEF Awaited
  <2>6. ASSUME NEW k \in Calls, Waiting(k)'
        PROVE  /\ k \in table'
               /\ conn'[call'[k].conn].drain \notin {"closing", "completed"}
               /\ conn'[call'[k].conn].phase \in {"open", "goodbye", "pending"}
                    \/ (k \in Streams /\ conn'[call'[k].conn].phase \in {"clear", "streams"})
    <3>1. Waiting(k) /\ k \notin ks /\ k \in table' /\ call'[k].conn = call[k].conn
      <4>1. k \notin ks
        BY <2>4, <2>6
      <4>2. call'[k] = call[k]
        BY <2>4, <4>1
      <4>3. Waiting(k)
        BY <2>6, <4>2 DEF Waiting
      <4>4. QED
        BY <2>4, <4>1, <4>2, <4>3 DEF Awaited
    <3>2. /\ k \in table /\ call[k].conn \in Conns
          /\ conn[call[k].conn].drain \notin {"closing", "completed"}
          /\ conn[call[k].conn].phase \in {"open", "goodbye", "pending"}
               \/ (k \in Streams /\ conn[call[k].conn].phase \in {"clear", "streams"})
      BY <3>1 DEF Awaited
    <3>3. call[k].conn = c => k \notin mine
      BY <3>1, <3>2 DEF InTable, Of
    <3>4. k \in Streams \/ k \in Unary
      BY DEF Unary
    <3>5. QED
      BY <2>3, <3>1, <3>2, <3>3, <3>4
  <2>7. QED
    BY <2>5, <2>6 DEF Awaited
<1>3. CASE ClearPending(c) \/ ClearStreams(c)
  <2> DEFINE mine == IF ClearPending(c) THEN Unary ELSE Streams
  <2>1. call' = call /\ table' = table \ (Of(c) \cap mine)
    BY <1>3 DEF ClearPending, ClearStreams
  <2>2. /\ \A d \in Conns : conn'[d].drain = conn[d].drain
        /\ \A d \in Conns : d # c => conn'[d].phase = conn[d].phase
        /\ conn'[c].phase = (IF ClearPending(c) THEN "streams" ELSE "finish")
        /\ conn[c].phase = (IF ClearPending(c) THEN "clear" ELSE "drop")
    BY <1>0, <1>3, SMTT(30) DEF ClearPending, ClearStreams, ConnState
  <2>3. ASSUME NEW k \in Calls, Waiting(k)
        PROVE  /\ k \in table'
               /\ conn'[call[k].conn].drain \notin {"closing", "completed"}
               /\ conn'[call[k].conn].phase \in {"open", "goodbye", "pending"}
                    \/ (k \in Streams /\ conn'[call[k].conn].phase \in {"clear", "streams"})
    <3>1. /\ k \in table /\ call[k].conn \in Conns
          /\ conn[call[k].conn].drain \notin {"closing", "completed"}
          /\ conn[call[k].conn].phase \in {"open", "goodbye", "pending"}
               \/ (k \in Streams /\ conn[call[k].conn].phase \in {"clear", "streams"})
      BY <2>3 DEF Awaited, Waiting
    <3>2. call[k].conn = c => k \in Streams /\ ClearPending(c)
      BY <2>2, <3>1
    <3>3. k \in table'
      BY <2>1, <3>1, <3>2 DEF Of, Unary
    <3>4. QED
      BY <2>2, <3>1, <3>2, <3>3
  <2>4. QED
    BY <2>1, <2>3 DEF Awaited, Waiting
<1>4. CASE Dispatch(c)
  <2>1. PICK k \in Calls : k = conn[c].reader
    BY <1>4 DEF Dispatch
  <2>2. \A d \in Conns : conn'[d].drain = conn[d].drain /\ conn'[d].phase = conn[d].phase
    BY <1>0, <1>4 DEF Dispatch, ConnState
  <2>3. CASE k \notin table
    <3>1. UNCHANGED <<call, table>>
      BY <1>4, <2>1, <2>3 DEF Dispatch
    <3>2. QED
      BY <2>2, <3>1, AwaitedConn
  <2>4. CASE k \in table
    <3>1. call[k].at # "new" /\ call[k].conn \in Conns
      BY <2>1, <2>4 DEF Awaited
    <3>2. \A j \in Calls :
             /\ call'[j].conn = call[j].conn
             /\ j = k => call'[j].at # "new" /\ call'[j].future # "open"
             /\ j # k => call'[j] = call[j] /\ (j \in table' <=> j \in table)
      <4>1. CASE k \in Streams
        <5>1. Finish({k})
          BY <1>4, <2>1, <2>4, <4>1 DEF Dispatch
        <5>2. \A j \in Calls :
                 /\ call'[j].conn = call[j].conn
                 /\ j \in {k} => call'[j].at # "new" /\ call'[j].future = "done" /\ ~Waiting(j)'
                 /\ j \notin {k} => call'[j] = call[j] /\ (j \in table' <=> j \in table)
          <6>1. {k} \in SUBSET Calls /\ \A i \in {k} : call[i].at # "new" /\ call[i].conn \in Conns
            BY <2>1, <3>1
          <6>2. QED
            BY <5>1, <6>1, AwaitedFinish
        <5>3. QED
          BY <5>2
      <4>2. CASE k \notin Streams
        <5>1. /\ table' = table \ {k}
              /\ call' = [call EXCEPT ![k].future = IF @ = "open" THEN "answered" ELSE @]
          BY <1>4, <2>1, <2>4, <4>2 DEF Dispatch
        <5>2. call \in [Calls -> CallState] /\ call[k] \in CallState
          BY <2>1 DEF ClientTypeOK, CallState
        <5>3. QED
          BY <2>1, <3>1, <5>1, <5>2 DEF CallState
      <4>3. QED
        BY <4>1, <4>2
    <3>3. ~Waiting(k)'
      BY <2>1, <3>2 DEF Waiting
    <3>4. call'[k].at # "new" /\ call'[k].conn \in Conns
      BY <2>1, <3>1, <3>2
    <3>5. QED
      BY <2>1, <2>2, <3>2, <3>3, <3>4, AwaitedBut
  <2>5. QED
    BY <2>3, <2>4
<1>5. QED
  BY <1>1, <1>2, <1>3, <1>4 DEF FailAll

\* A call starts in no map; it has a connection or is refused.
LEMMA StartKeeps ==
  ASSUME ClientTypeOK, Shapes, Awaited, NEW k \in Calls, Start(k)
  PROVE  ClientTypeOK' /\ Awaited' /\ conn' = conn /\ UNCHANGED <<plan, supervisor>>
<1> USE Zenon
<1>1. UNCHANGED <<conn, table, plan, supervisor>>
  BY DEF Start, Unsupervised
<1>2. call \in [Calls -> CallState] /\ call[k] \in CallState
  BY DEF ClientTypeOK, CallState
<1>3. /\ \A j \in Calls : j # k => call'[j] = call[j]
      /\ call'[k].at = (IF active = None THEN "refused" ELSE "taken")
      /\ call'[k].conn = active /\ call'[k].future = call[k].future
      /\ call' \in [Calls -> CallState]
  BY <1>2 DEF Start, Shapes, CallState
<1>4. ClientTypeOK'
  BY <1>1, <1>3 DEF ClientTypeOK, CallState
<1>5. k \notin table /\ call[k].future = "open"
  BY DEF Awaited, Start
<1>6. Awaited'
  <2>1. ~Waiting(k)' /\ call'[k].at # "new"
    BY <1>3 DEF Waiting
  <2>2. \/ call'[k].conn \in Conns
        \/ call'[k].at = "refused" /\ k \notin table' /\ call'[k].future = "open"
    BY <1>1, <1>3, <1>5 DEF Shapes
  <2>3. QED
    BY <1>1, <1>3, <2>1, <2>2, AwaitedBut
<1>7. QED
  BY <1>1, <1>4, <1>6

\* The supervisor leaves calls alone, and of a connection it changes only what
\* a call does not wait for.
LEMMA AwaitedSupervisor ==
  ASSUME ClientTypeOK, Draining, Shapes, Owned, Awaited,
         Worker \/ Stop \/ \E c \in Conns : TerminationCompletes(c)
  PROVE  Awaited'
<1> USE Zenon
<1>0. conn \in [Conns -> ConnState] /\ \A c \in Conns : conn[c] \in ConnState
  BY DEF ClientTypeOK, ConnState
<1>1. CASE Connect
  <2>1. PICK c \in Conns, events \in plan.events :
          conn[c].phase = "none" /\ conn' = [conn EXCEPT ![c] = Made(events)]
    BY <1>1 DEF Connect
  <2>2. Made(events).phase = "open" /\ Made(events).drain = "no"
    BY DEF Made, Unmade
  <2>3. UNCHANGED <<call, table>>
    BY <1>1 DEF Connect
  <2>4. ASSUME NEW d \in Conns
        PROVE  /\ conn'[d].drain \in {"closing", "completed"}
                    => conn[d].drain \in {"closing", "completed"} \/ InTable(d) = {}
               /\ \/ conn'[d].phase = conn[d].phase
                  \/ conn'[d].phase \in {"open", "goodbye", "pending"}
                  \/ conn[d].phase = "finish"
    BY <1>0, <2>1, <2>2
  <2>5. QED
    BY <2>3, <2>4, AwaitedConn
<1>2. CASE InstallChecks /\ closed
  <2>1. Close(worker.conn) /\ worker.conn \in Conns
    BY <1>2 DEF InstallChecks, Owned, Holding
  <2>2. QED
    BY <2>1, AwaitedConnection
<1>3. CASE CloseEnds /\ active # None
  <2>1. Close(active) /\ active \in Conns
    BY <1>3 DEF CloseEnds, Shapes
  <2>2. QED
    BY <2>1, AwaitedConnection
<1>4. CASE InstallWatches
  <2>1. UNCHANGED <<call, table>>
    BY <1>4 DEF InstallWatches
  <2>2. conn' = conn \/ conn' = [conn EXCEPT ![worker.conn].watched = TRUE]
    BY <1>4 DEF InstallWatches
  <2>3. ASSUME NEW d \in Conns
        PROVE  conn'[d].drain = conn[d].drain /\ conn'[d].phase = conn[d].phase
    BY <1>0, <2>2, SMTT(30) DEF ConnState
  <2>4. QED
    BY <2>1, <2>3, AwaitedConn
<1>5. CASE DrainCalls
  <2>1. UNCHANGED <<call, table>> /\ drainer.conn \in Conns
        /\ conn' = [conn EXCEPT ![drainer.conn] = DrainFrom(conn[drainer.conn])]
    BY <1>5 DEF DrainCalls, Owned
  <2>2. LET r == conn[drainer.conn]
        IN  /\ DrainFrom(r).drain = (IF r.drain = "no" THEN "waiting" ELSE r.drain)
            /\ DrainFrom(r).phase = r.phase
    BY <1>0, <2>1, DrainRecord DEF Draining
  <2>3. ASSUME NEW d \in Conns
        PROVE  /\ conn'[d].drain \in {"closing", "completed"}
                    => conn[d].drain \in {"closing", "completed"}
               /\ conn'[d].phase = conn[d].phase
    BY <1>0, <2>1, <2>2
  <2>4. QED
    BY <2>1, <2>3, AwaitedConn
<1>6. CASE \E c \in Conns : TerminationCompletes(c)
  <2>1. PICK c \in Conns : TerminationCompletes(c)
    BY <1>6
  <2>2. UNCHANGED <<call, table>> /\ conn[c].phase = "finish"
        /\ conn' = [conn EXCEPT ![c].phase = "gone"]
    BY <2>1 DEF TerminationCompletes
  <2>3. ASSUME NEW d \in Conns
        PROVE  /\ conn'[d].drain = conn[d].drain
               /\ conn'[d].phase = conn[d].phase \/ conn[d].phase = "finish"
    BY <1>0, <2>2 DEF ConnState
  <2>4. QED
    BY <2>2, <2>3, AwaitedConn
<1>7. CASE UNCHANGED client
  BY <1>7, AwaitedConn DEF client
<1>8. QED
  BY <1>1, <1>2, <1>3, <1>4, <1>5, <1>6, <1>7 DEF Worker, Stop, TryReconnect, ConnectFails,
     InstallChecks, InstallSets, InstallEach, InstallSubscribes, InstallAdds, InstallResets,
     CloseBegins, CloseEnds, DrainReads, DrainStops, DrainEnds

-----------------------------------------------------------------------------
(* The invariant                                                           *)

\* The invariant holds when the client has been made.
LEMMA InitHolds == Init => IInv
<1> USE Zenon
<1> SUFFICES ASSUME Init
             PROVE  IInv
  OBVIOUS
<1>0. /\ Unmade \in ConnState /\ NewCall \in CallState
      /\ \A events \in BOOLEAN : Made(events) \in ConnState
  BY DEF Unmade, Made, NewCall, ConnState, CallState, Phases
<1>1. /\ \A c \in Conns : /\ conn[c] \in {Unmade} \cup {Made(events) : events \in BOOLEAN}
                          /\ ~conn[c].watched /\ conn[c].drain = "no"
                          /\ conn[c].phase = "open" => worker.at = "install" /\ c = worker.conn
      /\ conn \in [Conns -> ConnState]
  <2>1. CASE plan.begin = "start"
    <3>1. conn = [c \in Conns |-> Unmade]
      BY <2>1 DEF Init
    <3>2. QED
      BY <1>0, <3>1 DEF Unmade
  <2>2. CASE plan.begin = "connect"
    <3>1. PICK events \in plan.events : conn = [c \in Conns |-> IF c = 1 THEN Made(events) ELSE Unmade]
      BY <2>2 DEF Init
    <3>2. events \in BOOLEAN
      BY <3>1, PlansAssumption DEF Init
    <3>3. worker.at = "install" /\ worker.conn = 1
      BY <2>2 DEF Init, Idle
    <3>4. QED
      BY <1>0, <3>1, <3>2, <3>3 DEF Made, Unmade
  <2>3. QED
    BY <2>1, <2>2 DEF Init
<1>2. ClientTypeOK
  BY <1>0, <1>1, SMTT(30) DEF Init, ClientTypeOK, ConnState, CallState
<1>3. Flags
  BY DEF Init, Flags
<1>4. \/ worker = [at |-> "idle", conn |-> None, todo |-> {}, list |-> 0] /\ scheduled /\ timer
      \/ worker = [at |-> "install", conn |-> 1, todo |-> {}, list |-> 0] /\ ~scheduled
  BY DEF Init, Idle
<1>5. Shapes
  BY <1>4, SMTT(30) DEF Init, Shapes
<1>6. Owned
  <2>1. worker.at \in Holding => worker.conn = 1 /\ worker.at = "install"
    BY <1>4, SMTT(30) DEF Holding
  <2>2. worker.at \notin Holding => worker.conn = None
    BY <1>4, SMTT(30) DEF Holding
  <2>3. QED
    BY <1>1, <2>1, <2>2, ClientAssumption DEF Init, Owned, Installed, Holding
<1>7. Supervised
  BY <1>4 DEF Init, Supervised, Installed
<1>8. Single
  <2>1. worker.at \notin Installed
    BY <1>4, SMTT(30) DEF Installed
  <2>2. QED
    BY <1>1, <2>1 DEF Single, Holding
<1>9. Draining
  BY <1>1 DEF Draining
<1>10. Awaited
  BY DEF Init, Awaited, Waiting, NewCall
<1>11. QED
  BY <1>2, <1>3, <1>5, <1>6, <1>7, <1>8, <1>9, <1>10 DEF IInv

\* Subscribing and unsubscribing touch lists of listeners only.
LEMMA ListenersAlone ==
  ASSUME \E l \in Listeners : Subscription(l)
  PROVE  UNCHANGED <<plan, client, supervisor>>
BY Zenon DEF Subscription, SubscribeJoins, SubscribeAdds, SubscribeReads, SubscribeClient, Unsubscribe,
       UnsubscribeLooks, UnsubscribeUnmaps, UnsubscribeReads, UnsubscribeClient, UnsubscribeEnds,
       Listening

\* Types, the supervisor's part and drains, per kind of step.
LEMMA SuperStep ==
  ASSUME IInv, Next
  PROVE  ClientTypeOK' /\ Draining' /\ Super'
<1> USE Zenon
<1>0. ClientTypeOK /\ Draining /\ Super
  BY DEF IInv, Super
<1>1. CASE Worker
  <2>1. CASE TryReconnect \/ InstallEach \/ InstallAdds \/ InstallResets \/ InstallSubscribes
               \/ InstallSets \/ ConnectFails
    <3>1. UNCHANGED client
      BY <2>1 DEF TryReconnect, InstallEach, InstallAdds, InstallResets, InstallSubscribes,
         InstallSets, ConnectFails
    <3>2. ClientTypeOK' /\ Draining'
      BY <1>0, <3>1 DEF client, ClientTypeOK, Draining
    <3>3. Super'
      BY <1>0, <2>1, TryReconnectKeeps, InstallKeeps, InstallSetsKeeps, FailedKeeps
    <3>4. QED
      BY <3>2, <3>3
  <2>2. CASE Connect \/ InstallChecks \/ InstallWatches
    BY <1>0, <2>2, ConnectKeeps, InstallChecksKeeps, InstallWatchesKeeps
  <2>3. QED
    BY <1>1, <2>1, <2>2 DEF Worker
<1>2. CASE Stop
  BY <1>0, <1>2, StopKeeps
<1>3. CASE \E c \in Conns : TerminationCompletes(c)
  BY <1>0, <1>3, TerminationKeeps
<1>4. ASSUME NEW c \in Conns,
             \/ Terminate(c) \/ FailAll(c) \/ GoAway(c) \/ DrainStep(c) \/ Dispatch(c) \/ Close(c)
             \/ \E k \in Calls : Receive(c, k),
             Unsupervised
      PROVE  ClientTypeOK' /\ Draining' /\ Super'
  <2>1. ClientTypeOK' /\ Quiet /\ Draining'
    BY <1>0, <1>4, ConnectionSteps
  <2>2. UNCHANGED <<plan, supervisor>>
    BY <1>4 DEF Unsupervised
  <2>3. QED
    BY <1>0, <2>1, <2>2, QuietKeeps
<1>5. ASSUME ClientTypeOK', conn' = conn, UNCHANGED <<plan, supervisor>>
      PROVE  ClientTypeOK' /\ Draining' /\ Super'
  <2>1. Quiet /\ Draining'
    BY <1>0, <1>5 DEF Quiet, Draining
  <2>2. QED
    BY <1>0, <1>5, <2>1, QuietKeeps
<1>6. ASSUME NEW k \in Calls, Start(k)
      PROVE  ClientTypeOK' /\ Draining' /\ Super'
  <2>1. ClientTypeOK' /\ conn' = conn /\ UNCHANGED <<plan, supervisor>>
    BY <1>6, StartKeeps DEF IInv
  <2>2. QED
    BY <1>5, <2>1
<1>7. ASSUME NEW k \in Calls, CallStep(k) \/ Cancel(k), Unsupervised
      PROVE  ClientTypeOK' /\ Draining' /\ Super'
  <2>1. ClientTypeOK' /\ conn' = conn
    BY <1>7, CallTyped, AwaitedCall DEF IInv
  <2>2. UNCHANGED <<plan, supervisor>>
    BY <1>7 DEF Unsupervised
  <2>3. QED
    BY <1>5, <2>1, <2>2
<1>8. ASSUME UNCHANGED <<plan, client, supervisor>>
      PROVE  ClientTypeOK' /\ Draining' /\ Super'
  <2>1. ClientTypeOK'
    BY <1>0, <1>8 DEF client, ClientTypeOK
  <2>2. QED
    BY <1>5, <1>8, <2>1 DEF client
<1>9. CASE \E l \in Listeners : Subscription(l)
  BY <1>8, <1>9, ListenersAlone
<1>10. QED
  BY <1>1, <1>2, <1>3, <1>4, <1>6, <1>7, <1>9 DEF Next, Breaks, ServerDrains

\* The calls, per kind of step.
LEMMA AwaitedStep ==
  ASSUME IInv, Next
  PROVE  Awaited'
<1> USE Zenon
<1>0. ClientTypeOK /\ Draining /\ Shapes /\ Owned /\ Awaited
  BY DEF IInv
<1>1. CASE Worker \/ Stop \/ \E c \in Conns : TerminationCompletes(c)
  BY <1>0, <1>1, AwaitedSupervisor
<1>2. ASSUME NEW c \in Conns,
             \/ Terminate(c) \/ FailAll(c) \/ GoAway(c) \/ DrainStep(c) \/ Dispatch(c) \/ Close(c)
             \/ \E k \in Calls : Receive(c, k)
      PROVE  Awaited'
  BY <1>0, <1>2, AwaitedConnection
<1>3. ASSUME NEW k \in Calls, Start(k) \/ CallStep(k) \/ Cancel(k)
      PROVE  Awaited'
  BY <1>0, <1>3, StartKeeps, AwaitedCall
<1>4. CASE \E l \in Listeners : Subscription(l)
  <2>1. UNCHANGED <<conn, call, table>>
    BY <1>4, ListenersAlone DEF client
  <2>2. QED
    BY <1>0, <2>1, AwaitedConn
<1>5. QED
  BY <1>1, <1>2, <1>3, <1>4 DEF Next, Breaks, ServerDrains

\* Every step keeps the invariant.
LEMMA StepHolds == IInv /\ [Next]_vars => IInv'
<1> USE Zenon
<1> SUFFICES ASSUME IInv, [Next]_vars
             PROVE  IInv'
  OBVIOUS
<1>1. CASE Next
  BY <1>1, SuperStep, AwaitedStep DEF IInv, Super
<1>2. CASE UNCHANGED vars
  <2>1. UNCHANGED <<plan, conn, call, table, active, closed, scheduled, timer, worker, first,
                    closer, drainer>>
    BY <1>2 DEF vars, client, supervisor
  <2>2. ClientTypeOK' /\ Shapes' /\ Flags' /\ Owned'
    BY <2>1, SMTT(30) DEF IInv, ClientTypeOK, Shapes, Flags, Owned
  <2>3. Supervised' /\ Single' /\ Draining'
    BY <2>1 DEF IInv, Supervised, Single, Draining
  <2>4. Awaited'
    BY <2>1, AwaitedConn DEF IInv
  <2>5. QED
    BY <2>2, <2>3, <2>4 DEF IInv
<1>3. QED
  BY <1>1, <1>2

\* The inductive invariant holds.
THEOREM Invariant == Spec => []IInv
<1>1. QED
  BY InitHolds, StepHolds, PTL DEF Spec

-----------------------------------------------------------------------------
(* Results                                                                 *)

\* ReconnectingMoonLightClient is never stranded: until it is closed, an
\* attempt is queued or running, or the end of the installed connection will
\* be reported to it, for any number of connections, calls and listeners.
THEOREM SupervisorNeverStranded == Spec => []NeverStranded
<1>1. IInv => NeverStranded
  <2> USE Zenon
  <2> SUFFICES ASSUME IInv, ~closed, ~timer, worker.at = "idle"
               PROVE  active # None
                        /\ (conn[active].events => conn[active].watched /\ conn[active].phase # "gone")
    BY DEF NeverStranded
  <2>1. QED
    BY DEF IInv, Supervised, Installed
<1>2. QED
  BY <1>1, Invariant, PTL

\* tryReconnect never opens a second connection beside one that is open.
THEOREM SingleConnection == Spec => []OneConnection
<1>1. IInv => OneConnection
  <2> USE Zenon
  <2> SUFFICES ASSUME IInv
               PROVE  OneConnection
    OBVIOUS
  <2> DEFINE open == {c \in Conns : conn[c].phase = "open"}
             x == IF worker.at \in Holding THEN worker.conn ELSE active
  <2>1. open \subseteq {x}
    BY ClientAssumption DEF IInv, Single, Owned, Holding, Installed
  <2>2. open \subseteq {x} => Cardinality(open) <= 1
    <3> HIDE DEF open, x
    <3>1. IsFiniteSet({x}) /\ Cardinality({x}) = 1
      BY FS_Singleton
    <3>2. QED
      BY <3>1, FS_Subset
  <2>3. QED
    BY <2>1, <2>2 DEF OneConnection
<1>2. QED
  BY <1>1, Invariant, PTL

\* close(), terminate() and drain() leave no call behind: what was in the maps
\* of a connection before it stopped accepting calls has been completed when
\* the connection is gone or its drain has decided.
THEOREM NoCallLeftBehind == Spec => []NoneLeftBehind
<1>1. IInv => NoneLeftBehind
  BY Zenon DEF IInv, Awaited, Waiting, NoneLeftBehind, Of
<1>2. QED
  BY <1>1, Invariant, PTL

=============================================================================
