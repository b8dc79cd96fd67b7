-------------------------- MODULE ClientConnection --------------------------
(***************************************************************************)
(* MoonLightClient, one physical connection of the Java client: the table  *)
(* of pending requests and streams, the completion of a call by a          *)
(* response, its deadline, its caller or the end of the connection,        *)
(* drain(), close() and terminate().  Steps are those of the threads that  *)
(* meet here: callers, the reader, completion threads, timers, the drain   *)
(* thread, and the thread that ends the connection.                        *)
(*                                                                         *)
(* What a frame holds and the writer's batches are left out; so are the    *)
(* interceptors and the telemetry of a call.                               *)
(***************************************************************************)
EXTENDS Naturals, FiniteSets

CONSTANTS Conns,       \* connections, in the order they are made
          Calls,       \* the calls a behaviour can make
          Streams,     \* those that are server streams
          MaxInFlight, \* the permits of a connection
          None

ASSUME ClientAssumption ==
  /\ 1 \in Conns /\ None \notin Conns
  /\ Streams \subseteq Calls

VARIABLES
  conn,  \* per connection: how far its end is, and the state of its threads
  call,  \* per call: its thread, its connection and its future
  table  \* the calls in the maps pending and streams

Unary == Calls \ Streams

\* How far the end of a connection is.  closed is set from "goodbye" on.
Phases == {"none", "open", "goodbye", "pending", "clear", "streams", "drop", "finish", "gone"}

Unmade == [phase |-> "none", accepting |-> TRUE, events |-> TRUE, reader |-> None, drain |-> "no",
           watched |-> FALSE]
Made(events) == [Unmade EXCEPT !.phase = "open", !.events = events, !.reader = "waiting"]
NewCall == [at |-> "new", conn |-> None, future |-> "open", late |-> FALSE]

ClientTypeOK ==
  /\ conn \in [Conns -> [phase : Phases, accepting : BOOLEAN, events : BOOLEAN,
                         reader : {None, "waiting", "stopped"} \cup Calls,
                         drain : {"no", "waiting", "closing", "completed", "failed"},
                         watched : BOOLEAN]]
  /\ call \in [Calls -> [at : {"new", "taken", "admitted", "registered", "written", "sent",
                               "settled", "refused", "thrown"},
                         conn : Conns \cup {None}, future : {"open", "answered", "done"},
                         late : BOOLEAN]]
  /\ table \subseteq Calls

IsClosed(c) == conn[c].phase # "open"
Of(c) == {k \in Calls : call[k].conn = c}
InTable(c) == table \cap Of(c)

\* The permits in use: from tryAcquire to the handler of the completed call,
\* which a call that has thrown does not have.
InFlight(c) ==
  {k \in Of(c) : call[k].at \in {"admitted", "registered", "written", "sent", "thrown"}}

----------------------------------------------------------------------------
\* The caller's thread.

\* The checks at the head of a call, up to inFlight.tryAcquire.
Admit(k) ==
  LET c == call[k].conn
      admitted == ~IsClosed(c) /\ conn[c].accepting /\ Cardinality(InFlight(c)) < MaxInFlight
  IN  /\ call[k].at = "taken"
      /\ call' = [call EXCEPT ![k].at = IF admitted THEN "admitted" ELSE "refused"]
      /\ UNCHANGED <<conn, table>>

\* pending.put or streams.put.  A call is late when the connection has
\* stopped accepting calls since it was admitted.
Register(k) ==
  LET c == call[k].conn
  IN  /\ call[k].at = "admitted"
      /\ call' = [call EXCEPT ![k].at = "registered",
                              ![k].late = IsClosed(c) \/ ~conn[c].accepting]
      /\ table' = table \cup {k}
      /\ UNCHANGED conn

\* The frame is written or queued.
Enqueue(k) ==
  /\ call[k].at = "registered"
  /\ call' = [call EXCEPT ![k].at = "written"]
  /\ UNCHANGED <<conn, table>>

\* An IOException completes the call: the queue or its byte budget is full.
EnqueueFails(k) ==
  /\ call[k].at = "registered"
  /\ call' = [call EXCEPT ![k].at = "settled", ![k].future = "done"]
  /\ table' = table \ {k}
  /\ UNCHANGED conn

\* Any other exception leaves the method with the permit taken and the entry in
\* its map: requestPrefixLength refuses metadata in which an interceptor has set
\* a key of the runtime.
EnqueueThrows(k) ==
  /\ call[k].at = "registered"
  /\ call' = [call EXCEPT ![k].at = "thrown"]
  /\ UNCHANGED <<conn, table>>

\* orTimeout and whenComplete, or the schedule of the stream's deadline.  The
\* handler of a future that is already completed runs here.
Arm(k) ==
  /\ call[k].at = "written"
  /\ IF call[k].future = "done"
       THEN call' = [call EXCEPT ![k].at = "settled"] /\ table' = table \ {k}
       ELSE call' = [call EXCEPT ![k].at = "sent"] /\ UNCHANGED table
  /\ UNCHANGED conn

----------------------------------------------------------------------------
\* What completes a call.

\* The futures of the calls ks are completed: the handlers that are registered
\* run, and a stream runs its cleanup in any case.
Finish(ks) ==
  LET settled == {k \in ks : k \in Streams \/ call[k].at = "sent"}
  IN  /\ call' = [k \in Calls |->
                    IF k \in settled THEN [call[k] EXCEPT !.at = "settled", !.future = "done"]
                    ELSE IF k \in ks THEN [call[k] EXCEPT !.future = "done"]
                    ELSE call[k]]
      /\ table' = table \ settled

\* The reader has passed its check of closed and waits in readFrame.
Receive(c, k) ==
  /\ conn[c].reader = "waiting" /\ conn[c].phase \in {"open", "goodbye"}
  /\ call[k].conn = c /\ call[k].at \in {"written", "sent", "settled"}
  /\ call[k].future = "open"
  /\ conn' = [conn EXCEPT ![c].reader = k]
  /\ UNCHANGED <<call, table>>

\* The rest of the loop: a response leaves pending for a thread that completes
\* it; the end of a stream is handled by the reader itself.
Dispatch(c) ==
  LET k == conn[c].reader
  IN  /\ k \in Calls
      /\ conn' = [conn EXCEPT ![c].reader = IF IsClosed(c) THEN "stopped" ELSE "waiting"]
      /\ IF k \notin table THEN UNCHANGED <<call, table>>
         ELSE IF k \in Streams THEN Finish({k})
         ELSE /\ table' = table \ {k}
              /\ call' = [call EXCEPT ![k].future = IF @ = "open" THEN "answered" ELSE @]

\* completeResponse, on a thread of its own.
Complete(k) ==
  /\ call[k].future = "answered"
  /\ Finish({k})
  /\ UNCHANGED conn

\* Mutant: the deadline of a unary call written like that of a stream.
Expire_InTable(k) ==
  /\ call[k].at = "sent" /\ call[k].future # "done"
  /\ k \in table
  /\ Finish({k})
  /\ UNCHANGED conn

\* The deadline.  A stream's task only acts on a stream still in the map.
Expire(k) ==
  /\ call[k].at = "sent" /\ call[k].future # "done"
  /\ k \in Unary \/ k \in table
  /\ Finish({k})
  /\ UNCHANGED conn

\* The caller gives up: the future is cancelled, or the stream closed.
Cancel(k) ==
  /\ call[k].at = "sent" /\ call[k].future # "done"
  /\ Finish({k})
  /\ UNCHANGED conn

----------------------------------------------------------------------------
\* The end of a connection.

\* close() and terminate() up to failAll; only the first to set closed goes on.
CloseFrom(record) ==
  IF record.phase = "open" THEN [record EXCEPT !.accepting = FALSE, !.phase = "goodbye"]
  ELSE [record EXCEPT !.accepting = FALSE]

Close(c) ==
  /\ conn' = [conn EXCEPT ![c] = CloseFrom(@)]
  /\ UNCHANGED <<call, table>>

\* terminate(): the reader, the writer or a caller met an IOException.
Terminate(c) ==
  /\ conn[c].phase = "open"
  /\ conn' = [conn EXCEPT ![c].phase = "pending"]
  /\ UNCHANGED <<call, table>>

\* GOODBYE was written, or 250 ms have passed, and the socket is closed.
Goodbye(c) ==
  /\ conn[c].phase = "goodbye"
  /\ conn' = [conn EXCEPT ![c].phase = "pending"]
  /\ UNCHANGED <<call, table>>

\* failAll, step by step.
FailPending(c) ==
  /\ conn[c].phase = "pending"
  /\ conn' = [conn EXCEPT ![c].phase = "clear"]
  /\ Finish(InTable(c) \cap Unary)

ClearPending(c) ==
  /\ conn[c].phase = "clear"
  /\ conn' = [conn EXCEPT ![c].phase = "streams"]
  /\ table' = table \ (Of(c) \cap Unary)
  /\ UNCHANGED call

FailStreams(c) ==
  /\ conn[c].phase = "streams"
  /\ conn' = [conn EXCEPT ![c].phase = "drop"]
  /\ Finish(InTable(c) \cap Streams)

ClearStreams(c) ==
  /\ conn[c].phase = "drop"
  /\ conn' = [conn EXCEPT ![c].phase = "finish"]
  /\ table' = table \ (Of(c) \cap Streams)
  /\ UNCHANGED call

FailAll(c) == Goodbye(c) \/ FailPending(c) \/ ClearPending(c) \/ FailStreams(c) \/ ClearStreams(c)

----------------------------------------------------------------------------
\* drain() and its thread.

DrainFrom(record) ==
  IF record.drain = "no" THEN [record EXCEPT !.drain = "waiting", !.accepting = FALSE] ELSE record

\* The server's GOAWAY, handled by the reader.
GoAway(c) ==
  /\ conn[c].reader = "waiting" /\ conn[c].phase \in {"open", "goodbye"} /\ conn[c].drain = "no"
  /\ conn' = [conn EXCEPT ![c] = [DrainFrom(@) EXCEPT
                !.reader = IF IsClosed(c) THEN "stopped" ELSE "waiting"]]
  /\ UNCHANGED <<call, table>>

\* Mutant: the wait ends when no unary call is left.
DrainEmpty_Unary(c) ==
  /\ conn[c].drain = "waiting" /\ InTable(c) \cap Unary = {}
  /\ conn' = [conn EXCEPT ![c] = [CloseFrom(@) EXCEPT
                !.drain = IF IsClosed(c) THEN "completed" ELSE "closing"]]
  /\ UNCHANGED <<call, table>>

\* Both maps are empty: close().  It returns at once when another thread has
\* set closed.
DrainEmpty(c) ==
  /\ conn[c].drain = "waiting" /\ InTable(c) = {}
  /\ conn' = [conn EXCEPT ![c] = [CloseFrom(@) EXCEPT
                !.drain = IF IsClosed(c) THEN "completed" ELSE "closing"]]
  /\ UNCHANGED <<call, table>>

DrainTimeout(c) ==
  /\ conn[c].drain = "waiting" /\ InTable(c) # {}
  /\ conn' = [conn EXCEPT ![c] = [CloseFrom(@) EXCEPT !.drain = "failed"]]
  /\ UNCHANGED <<call, table>>

\* close() returns, or throws because GOODBYE found the outgoing queue full.
DrainCloses(c) ==
  /\ conn[c].drain = "closing" /\ conn[c].phase = "gone"
  /\ \E result \in {"completed", "failed"} : conn' = [conn EXCEPT ![c].drain = result]
  /\ UNCHANGED <<call, table>>

DrainStep(c) == DrainEmpty(c) \/ DrainTimeout(c) \/ DrainCloses(c)

CallStep(k) ==
  \/ Admit(k) \/ Register(k) \/ Enqueue(k) \/ EnqueueFails(k) \/ EnqueueThrows(k) \/ Arm(k)
  \/ Complete(k) \/ Expire(k)
=============================================================================
