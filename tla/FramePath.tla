------------------------------ MODULE FramePath ------------------------------
(***************************************************************************)
(* The way of a frame through a connection of moonlight-bridge-server      *)
(* (serve_connection in lib.rs): the reader task and the request byte      *)
(* budget, the connection loop, the request tasks, the two byte budgets of *)
(* the response queue, the writer task with its batches, and the events    *)
(* every connection forwards.  Connections share the request budget, the   *)
(* global response budget and the decoded-byte budget.                     *)
(*                                                                         *)
(* Each client sends the frames of a script.  A worker of a connection is  *)
(* its loop (0) or the task of the request at a place of the script.       *)
(* Draining is the subject of ServerDrain and streaming of StreamCredit;   *)
(* both are left out here.                                                 *)
(***************************************************************************)
EXTENDS Payload, FairSemaphore

CONSTANTS Conns,
          Scenes,          \* what clients do, and how many events are published
          MaxScript,       \* the length of the longest script
          Server,          \* the server's PeerSettings
          RequestBytes,    \* max_buffered_request_bytes
          ResponseBytes,   \* max_buffered_response_bytes
          ConnectionBytes, \* max_buffered_response_bytes_per_connection
          DecodedBytes,    \* the capacity of the decoded-byte budget
          BatchFrames, BatchBytes, \* MAX_BATCH_FRAMES, WRITER_BATCH_BYTES
          HubCapacity, Events,
          StatusLen,       \* the body of HEALTH_STATUS
          Stalled          \* connections whose peer may stop reading

\* What with_limits asserts.
ASSUME LimitsHold ==
  /\ RequestBytes >= Server.max_body
  /\ ConnectionBytes >= Server.max_decoded + HeaderLen
  /\ ResponseBytes >= ConnectionBytes

\* What it does not assert: the frames that wait for bytes fit a connection,
\* and a connection that is full leaves room for one of them.
ASSUME WaitingFramesFit ==
  LET largest == HeaderLen + Max({ErrorLen, StatusLen, Server.max_body})
  IN  ConnectionBytes >= largest /\ ResponseBytes >= ConnectionBytes + largest

VARIABLES
  scene,     \* the scene of this behaviour
  neg,       \* the negotiated settings
  budget,    \* the semaphores: "request", "global" and one per connection
  used,      \* DecodedByteBudget::used
  reader,    \* where the reader task is
  sent,      \* how many frames of the script it has begun to read
  frames,    \* the channel from reader to loop: places, 0 for an error
  held,      \* the frame whose body permit the loop holds, or 0
  active,    \* the table of active requests
  aborted,   \* the tasks that were aborted
  at,        \* where each worker is
  out,       \* the frame it sends
  reserve,   \* the decoded bytes a task holds
  queue,     \* the response channel
  writer,    \* the writer task, its batch and its deferred response
  answered,  \* the ids answered on the wire
  published, \* how many events were published
  backlog    \* the events each connection has not received

budgets == <<budget, used>>
reading == <<reader, sent>>
tables == <<held, active, aborted>>
working == <<at, out, reserve>>
writing == <<queue, writer, answered>>
hub == <<published, backlog>>
vars == <<scene, neg, budgets, reading, frames, tables, working, writing, hub>>

Tasks == 1 .. MaxScript
Workers == {0} \cup Tasks
Script(c) == scene.script[c]
Received(c, n) == Script(c)[n]

\* The bytes of the request budget that go with a received frame.
PermitLen(c, n) == IF n = 0 THEN 0 ELSE BodyLen(Received(c, n))

Sending == {"first", "second", "queue"}
Live == {"parse", "handler"} \cup Sending
Running == {"select"} \cup Sending
LoopState == {"hello", "break", "closing", "closed"} \cup Running

InFlight(c) == {w \in Tasks : at[c][w] \in Live}
Wire(frame) == HeaderLen + OutLen(frame)
Writer(state) == [state |-> state, batch |-> <<>>, deferred |-> Nothing]

Init ==
  /\ scene \in Scenes
  /\ neg = [c \in Conns |-> Server]
  /\ budget = [b \in Conns \cup {"request", "global"} |->
                 New(CASE b = "request" -> RequestBytes [] b = "global" -> ResponseBytes
                       [] OTHER -> ConnectionBytes)]
  /\ used = 0
  /\ reader = [c \in Conns |-> "header"] /\ sent = [c \in Conns |-> 0]
  /\ frames = [c \in Conns |-> <<>>]
  /\ held = [c \in Conns |-> 0]
  /\ active = [c \in Conns |-> {}] /\ aborted = [c \in Conns |-> {}]
  /\ at = [c \in Conns |-> [w \in Workers |-> IF w > 0 THEN "none"
                             ELSE IF scene.hello[c] = Nothing THEN "closed" ELSE "hello"]]
  /\ out = [c \in Conns |-> [w \in Workers |-> Nothing]]
  /\ reserve = [c \in Conns |-> [w \in Workers |-> 0]]
  /\ queue = [c \in Conns |-> <<>>]
  /\ writer = [c \in Conns |-> Writer("idle")]
  /\ answered = [c \in Conns |-> {}]
  /\ published = 0 /\ backlog = [c \in Conns |-> <<>>]

Return(b, key, n) == [b EXCEPT ![key] = Release(@, n)]
ReturnBoth(b, c, n) == Return(Return(b, c, n), "global", n)

-----------------------------------------------------------------------------
(* The handshake                                                           *)

Handshake(c) ==
  /\ at[c][0] = "hello"
  /\ DecodeSettings(scene.hello[c])
  /\ neg' = [neg EXCEPT ![c] = Negotiate(scene.hello[c], Server)]
  /\ at' = [at EXCEPT ![c][0] = "select"]
  /\ UNCHANGED <<scene, budgets, reading, frames, tables, out, reserve, writing, hub>>

\* HELLO does not come in time or is not accepted.
HelloFails(c) ==
  /\ at[c][0] = "hello"
  /\ at' = [at EXCEPT ![c][0] = "closed"]
  /\ UNCHANGED <<scene, neg, budgets, reading, frames, tables, out, reserve, writing, hub>>

-----------------------------------------------------------------------------
(* The reader task: read_frame_buffered                                    *)

Reads(c) == at[c][0] \in Running \cup {"break"}

\* A header arrives; its body waits for a permit of the request budget.
ReadHeader(c) ==
  LET n == sent[c] + 1
  IN  /\ Reads(c) /\ reader[c] = "header" /\ n <= Len(Script(c))
      /\ sent' = [sent EXCEPT ![c] = n]
      /\ IF ~DecodeHeader(Received(c, n), neg[c].max_body)
         THEN reader' = [reader EXCEPT ![c] = "error"] /\ UNCHANGED budget
         ELSE IF PermitLen(c, n) = 0
         THEN reader' = [reader EXCEPT ![c] = "push"] /\ UNCHANGED budget
         ELSE /\ reader' = [reader EXCEPT ![c] = "body"]
              /\ budget' = [budget EXCEPT !["request"] = Acquire(@, c, PermitLen(c, n))]
      /\ UNCHANGED <<scene, neg, used, frames, tables, working, writing, hub>>

ReadBody(c) ==
  /\ Reads(c) /\ reader[c] = "body" /\ ~Waits(budget["request"], c)
  /\ reader' = [reader EXCEPT ![c] = "push"]
  /\ UNCHANGED <<scene, neg, budgets, sent, frames, tables, working, writing, hub>>

\* What the read future holds goes back when it is dropped.
DropRead(b, c) ==
  IF reader[c] = "body" /\ Waits(b["request"], c)
  THEN [b EXCEPT !["request"] = Cancel(@, c)]
  ELSE IF reader[c] \in {"body", "push"} THEN Return(b, "request", PermitLen(c, sent[c]))
  ELSE b

\* The frame is not complete in time, or the client is gone.
ReadFails(c) ==
  /\ Reads(c) /\ reader[c] \in {"header", "body"}
  /\ reader' = [reader EXCEPT ![c] = "error"]
  /\ budget' = DropRead(budget, c)
  /\ UNCHANGED <<scene, neg, used, sent, frames, tables, working, writing, hub>>

Push(c) ==
  /\ Reads(c) /\ reader[c] \in {"push", "error"}
  /\ Len(frames[c]) < neg[c].max_in_flight
  /\ frames' = [frames EXCEPT ![c] = Append(@, IF reader[c] = "error" THEN 0 ELSE sent[c])]
  /\ reader' = [reader EXCEPT ![c] = IF @ = "error" THEN "stopped" ELSE "header"]
  /\ UNCHANGED <<scene, neg, budgets, sent, tables, working, writing, hub>>

-----------------------------------------------------------------------------
(* ResponseQueue                                                           *)

\* Mutant: the shared budget is taken first.
ReserveOrder_GlobalFirst(c) == <<"global", c>>

\* The order in which reserve waits for its two permits.
ReserveOrder(c) == <<c, "global">>

\* send_observed up to its first await: what fits takes its bytes, an event
\* that does not is dropped, a response becomes an error, which waits.
TrySend(c, w, frame) ==
  LET fits  == TryAcquire(budget[c], Wire(frame)) /\ TryAcquire(budget["global"], Wire(frame))
      waits == IF frame.kind \in {"RESPONSE", "STREAM_ITEM"}
               THEN ErrorFrame(frame.id, ErrorLen) ELSE frame
  IN  IF fits
      THEN /\ budget' = [budget EXCEPT ![c] = Take(@, Wire(frame)),
                                       !["global"] = Take(@, Wire(frame))]
           /\ at' = [at EXCEPT ![c][w] = "queue"]
           /\ out' = [out EXCEPT ![c][w] = frame]
      ELSE IF frame.kind = "EVENT" THEN UNCHANGED <<budget, at, out>>
      ELSE /\ budget' = [budget EXCEPT ![ReserveOrder(c)[1]] = Acquire(@, <<c, w>>, Wire(waits))]
           /\ at' = [at EXCEPT ![c][w] = "first"]
           /\ out' = [out EXCEPT ![c][w] = waits]

\* reserve has its first permit and asks for the second.
ReserveSecond(c, w) ==
  /\ at[c][w] = "first" /\ ~Waits(budget[ReserveOrder(c)[1]], <<c, w>>)
  /\ at' = [at EXCEPT ![c][w] = "second"]
  /\ budget' = [budget EXCEPT ![ReserveOrder(c)[2]] = Acquire(@, <<c, w>>, Wire(out[c][w]))]
  /\ UNCHANGED <<scene, neg, used, reading, frames, tables, out, reserve, writing, hub>>

Reserved2(c, w) ==
  \/ at[c][w] = "queue"
  \/ at[c][w] = "second" /\ ~Waits(budget[ReserveOrder(c)[2]], <<c, w>>)

\* The worker is through: a task removes the entry with its id, which may be
\* that of a later request once it is aborted; the loop drops the frame it
\* handled.
Finished(c, w, next) ==
  /\ at' = [at EXCEPT ![c][w] = IF w = 0 THEN next ELSE "done"]
  /\ out' = [out EXCEPT ![c][w] = Nothing]
  /\ active' = [active EXCEPT ![c] =
       {v \in @ : w # 0 => Received(c, v).id # Received(c, w).id}]
  /\ held' = [held EXCEPT ![c] = IF w = 0 THEN 0 ELSE @]

HeldBy(c, w) == PermitLen(c, IF w = 0 THEN held[c] ELSE w)

\* self.sender.send, and what follows it without an await: a task removes its
\* entry and drops the permit of its request.  The writer can come between
\* them, which makes no difference to the properties.
SendQueue(c, w) ==
  /\ Reserved2(c, w)
  /\ writer[c].state # "ended" /\ Len(queue[c]) < neg[c].max_in_flight
  /\ queue' = [queue EXCEPT ![c] = Append(@, [frame |-> out[c][w], was |-> out[c][w],
                                              bytes |-> Wire(out[c][w])])]
  /\ Finished(c, w, "select")
  /\ budget' = Return(budget, "request", HeldBy(c, w))
  /\ UNCHANGED <<scene, neg, used, reading, frames, aborted, reserve, writer, answered, hub>>

\* The writer has gone and its end of the channel with it.
SendFails(c, w) ==
  /\ Reserved2(c, w)
  /\ writer[c].state = "ended"
  /\ Finished(c, w, "break")
  /\ budget' = Return(ReturnBoth(budget, c, Wire(out[c][w])), "request", HeldBy(c, w))
  /\ UNCHANGED <<scene, neg, used, reading, frames, aborted, reserve, writing, hub>>

-----------------------------------------------------------------------------
(* The connection loop                                                     *)

Takes(c, n) ==
  /\ at[c][0] = "select" /\ frames[c] # <<>>
  /\ n = Head(frames[c])
  /\ frames' = [frames EXCEPT ![c] = Tail(@)]

Violation(c, f) ==
  CASE f.kind = "REQUEST" ->
         \/ f.id = 0
         \/ /\ Cardinality(InFlight(c)) < neg[c].max_in_flight
            /\ \E w \in active[c] : Received(c, w).id = f.id
    [] f.kind = "PING" -> f.id = 0
    [] f.kind = "HEALTH" -> f.id = 0 \/ BodyLen(f) # 0
    [] f.kind = "CANCEL" -> FALSE
    [] OTHER -> f.kind # "GOODBYE"

\* The reader failed, the client said GOODBYE or broke the protocol.
LoopBreaks(c) ==
  \E n \in {0} \cup Tasks :
    /\ Takes(c, n)
    /\ n # 0 => Received(c, n).kind = "GOODBYE" \/ Violation(c, Received(c, n))
    /\ at' = [at EXCEPT ![c][0] = "break"]
    /\ budget' = Return(budget, "request", PermitLen(c, n))
    /\ UNCHANGED <<scene, neg, used, reading, tables, out, reserve, writing, hub>>

\* A request gets a task of its own.
LoopSpawns(c) ==
  \E n \in Tasks :
    /\ Takes(c, n)
    /\ Received(c, n).kind = "REQUEST" /\ ~Violation(c, Received(c, n))
    /\ Cardinality(InFlight(c)) < neg[c].max_in_flight
    /\ at' = [at EXCEPT ![c][n] = "parse"]
    /\ active' = [active EXCEPT ![c] = @ \cup {n}]
    /\ UNCHANGED <<scene, neg, budgets, reading, held, aborted, out, reserve, writing, hub>>

\* Frames the loop answers itself.
LoopReply(c, n) ==
  LET f == Received(c, n)
  IN  CASE f.kind = "REQUEST" -> ErrorFrame(f.id, ErrorLen)
        [] f.kind = "PING"    -> Frame("PONG", f.id, [len |-> BodyLen(f), zip |-> "dense"])
        [] f.kind = "HEALTH"  -> Frame("HEALTH_STATUS", f.id, [len |-> StatusLen, zip |-> "dense"])

LoopAnswers(c) ==
  \E n \in Tasks :
    /\ Takes(c, n)
    /\ Received(c, n).kind \in {"REQUEST", "PING", "HEALTH"} /\ ~Violation(c, Received(c, n))
    /\ Received(c, n).kind = "REQUEST" => Cardinality(InFlight(c)) >= neg[c].max_in_flight
    /\ TrySend(c, 0, LoopReply(c, n))
    /\ held' = [held EXCEPT ![c] = n]
    /\ UNCHANGED <<scene, neg, used, reading, active, aborted, reserve, writing, hub>>

\* Mutant: a CANCEL is answered as well.
LoopCancels_Replies(c) ==
  \E n \in Tasks :
    /\ Takes(c, n)
    /\ Received(c, n).kind = "CANCEL"
    /\ aborted' = [aborted EXCEPT ![c] = @ \cup {w \in active[c] : Received(c, w).id = Received(c, n).id}]
    /\ TrySend(c, 0, ErrorFrame(Received(c, n).id, ErrorLen))
    /\ held' = [held EXCEPT ![c] = n]
    /\ UNCHANGED <<scene, neg, used, reading, active, reserve, writing, hub>>

LoopCancels(c) ==
  \E n \in Tasks :
    /\ Takes(c, n)
    /\ Received(c, n).kind = "CANCEL"
    /\ LET named == {w \in active[c] : Received(c, w).id = Received(c, n).id}
       IN  /\ active' = [active EXCEPT ![c] = @ \ named]
           /\ aborted' = [aborted EXCEPT ![c] = @ \cup named]
    /\ budget' = Return(budget, "request", PermitLen(c, n))
    /\ UNCHANGED <<scene, neg, used, reading, held, working, writing, hub>>

\* EventHub::publish; a receiver that lags loses its oldest events.
Publish ==
  \E e \in Events :
    /\ published < scene.events
    /\ published' = published + 1
    /\ backlog' = [c \in Conns |->
         IF at[c][0] \notin Running \/ ~neg[c].events THEN backlog[c]
         ELSE LET all == Append(backlog[c], e)
              IN  IF Len(all) > HubCapacity THEN Tail(all) ELSE all]
    /\ UNCHANGED <<scene, neg, budgets, reading, frames, tables, working, writing>>

\* event_rx.recv(): an event over the decoded limit is skipped.
LoopForwards(c) ==
  /\ at[c][0] = "select" /\ backlog[c] # <<>>
  /\ backlog' = [backlog EXCEPT ![c] = Tail(@)]
  /\ IF Head(backlog[c]).len > neg[c].max_decoded THEN UNCHANGED <<budget, at, out>>
     ELSE TrySend(c, 0, Frame("EVENT", 0, Head(backlog[c])))
  /\ UNCHANGED <<scene, neg, used, reading, frames, tables, reserve, writing, published>>

-----------------------------------------------------------------------------
(* Request tasks                                                           *)

\* dispatch_observed up to the handler.
TaskParse(c, w) ==
  LET f      == Received(c, w)
      parsed == RequestPayload(f, neg[c], used, DecodedBytes)
  IN  /\ at[c][w] = "parse"
      /\ IF parsed.ok /\ f.outcomes # {}
         THEN /\ at' = [at EXCEPT ![c][w] = "handler"]
              /\ reserve' = [reserve EXCEPT ![c][w] = parsed.reserve]
              /\ used' = used + parsed.reserve
              /\ UNCHANGED <<budget, out>>
         ELSE /\ TrySend(c, w, FitOutbound(ErrorFrame(f.id, ErrorLen), neg[c].max_decoded))
              /\ UNCHANGED <<reserve, used>>
      /\ UNCHANGED <<scene, neg, reading, frames, tables, writing, hub>>

\* What the handler makes of a request; a deadline is an error as well.
Outcome(c, w) ==
  LET f == Received(c, w)
  IN  {IF r = Nothing \/ r.len > neg[c].max_decoded THEN ErrorFrame(f.id, ErrorLen)
       ELSE Frame("RESPONSE", f.id, r) :
         r \in f.outcomes \cup IF HasDeadline(f) THEN {Nothing} ELSE {}}

HandlerReturns(c, w) ==
  /\ at[c][w] = "handler"
  /\ \E frame \in Outcome(c, w) : TrySend(c, w, FitOutbound(frame, neg[c].max_decoded))
  /\ used' = used - reserve[c][w]
  /\ reserve' = [reserve EXCEPT ![c][w] = 0]
  /\ UNCHANGED <<scene, neg, reading, frames, tables, writing, hub>>

\* What a task that is dropped at an await gives back.
DropSend(b, c, w) ==
  LET order == ReserveOrder(c)
      n     == Wire(out[c][w])
      wait(k) == Waits(b[k], <<c, w>>)
      undo(k, bb) == IF wait(k) THEN [bb EXCEPT ![k] = Cancel(@, <<c, w>>)]
                     ELSE Return(bb, k, n)
  IN  CASE at[c][w] = "first" -> undo(order[1], b)
        [] at[c][w] = "second" -> Return(undo(order[2], b), order[1], n)
        [] at[c][w] = "queue" -> ReturnBoth(b, c, n)
        [] OTHER -> b

TaskDropped(c, w) ==
  /\ w \in aborted[c] /\ at[c][w] \in Live
  /\ at' = [at EXCEPT ![c][w] = "done"]
  /\ out' = [out EXCEPT ![c][w] = Nothing]
  /\ used' = used - reserve[c][w]
  /\ reserve' = [reserve EXCEPT ![c][w] = 0]
  /\ budget' = Return(DropSend(budget, c, w), "request", PermitLen(c, w))
  /\ UNCHANGED <<scene, neg, reading, frames, tables, writing, hub>>

-----------------------------------------------------------------------------
(* The writer task                                                         *)

Prepared(c, response) == [response EXCEPT !.frame = Outbound(@, neg[c])]

\* Mutant: only the first response of a batch is compressed.
WriterTakes_FirstCompressed(c) ==
  LET w     == writer[c]
      first == IF w.deferred # Nothing THEN w.deferred ELSE Head(queue[c])
      rest  == IF w.deferred # Nothing THEN queue[c] ELSE Tail(queue[c])
      more  == [i \in 1 .. Lower(BatchFrames - 1, Len(rest)) |->
                 [rest[i] EXCEPT !.frame = FitOutbound(@, neg[c].max_body)]]
      total(k) == Wire(Prepared(c, first).frame)
                  + SumFunctionOnSet([i \in DOMAIN more |-> Wire(more[i].frame)], 1 .. k)
      k     == Max({0} \cup {i \in DOMAIN more : total(i) <= BatchBytes})
  IN  /\ w.state = "idle" /\ (w.deferred # Nothing \/ queue[c] # <<>>)
      /\ writer' = [writer EXCEPT ![c] =
           [state |-> "writing", batch |-> <<Prepared(c, first)>> \o SubSeq(more, 1, k),
            deferred |-> IF k < Len(more) THEN more[k + 1] ELSE Nothing]]
      /\ queue' = [queue EXCEPT ![c] =
           SubSeq(rest, 1 + Lower(k + 1, Len(more)), Len(rest))]
      /\ UNCHANGED <<scene, neg, budgets, reading, frames, tables, working, answered, hub>>

\* The first response, and those already there as long as they fit the batch;
\* the one that does not is deferred as it is.
WriterTakes(c) ==
  LET w     == writer[c]
      first == IF w.deferred # Nothing THEN w.deferred ELSE Head(queue[c])
      rest  == IF w.deferred # Nothing THEN queue[c] ELSE Tail(queue[c])
      more  == [i \in 1 .. Lower(BatchFrames - 1, Len(rest)) |-> Prepared(c, rest[i])]
      total(k) == Wire(Prepared(c, first).frame)
                  + SumFunctionOnSet([i \in DOMAIN more |-> Wire(more[i].frame)], 1 .. k)
      k     == Max({0} \cup {i \in DOMAIN more : total(i) <= BatchBytes})
  IN  /\ w.state = "idle" /\ (w.deferred # Nothing \/ queue[c] # <<>>)
      /\ writer' = [writer EXCEPT ![c] =
           [state |-> "writing", batch |-> <<Prepared(c, first)>> \o SubSeq(more, 1, k),
            deferred |-> IF k < Len(more) THEN more[k + 1] ELSE Nothing]]
      /\ queue' = [queue EXCEPT ![c] =
           SubSeq(rest, 1 + Lower(k + 1, Len(more)), Len(rest))]
      /\ UNCHANGED <<scene, neg, budgets, reading, frames, tables, working, answered, hub>>

\* Mutant: a response gives back what it takes on the wire.
Bytes_OnWire(responses) == SumFunction([i \in DOMAIN responses |-> Wire(responses[i].frame)])

Bytes(responses) == SumFunction([i \in DOMAIN responses |-> responses[i].bytes])
Deferred(c) == IF writer[c].deferred = Nothing THEN <<>> ELSE <<writer[c].deferred>>
Ids(responses) == {responses[i].frame.id : i \in DOMAIN responses} \ {0}

\* write_all returns, and the batch gives its bytes back.
WriterWrites(c) ==
  /\ writer[c].state = "writing"
  /\ writer' = [writer EXCEPT ![c].state = "idle", ![c].batch = <<>>]
  /\ answered' = [answered EXCEPT ![c] = @ \cup Ids(writer[c].batch)]
  /\ budget' = ReturnBoth(budget, c, Bytes(writer[c].batch))
  /\ UNCHANGED <<scene, neg, used, reading, frames, tables, working, queue, hub>>

\* The writer ends with all responses it has or had to come.
WriterDrops(b, c) == ReturnBoth(b, c, Bytes(writer[c].batch \o Deferred(c) \o queue[c]))

WriterFails(c) ==
  /\ writer[c].state = "writing"
  /\ writer' = [writer EXCEPT ![c] = Writer("ended")]
  /\ queue' = [queue EXCEPT ![c] = <<>>]
  /\ budget' = WriterDrops(budget, c)
  /\ UNCHANGED <<scene, neg, used, reading, frames, tables, working, answered, hub>>

-----------------------------------------------------------------------------
(* The end of a connection                                                 *)

\* All tasks in the table and the reader are aborted.
Epilogue(c) ==
  /\ at[c][0] = "break"
  /\ at' = [at EXCEPT ![c][0] = "closing"]
  /\ aborted' = [aborted EXCEPT ![c] = @ \cup active[c]]
  /\ active' = [active EXCEPT ![c] = {}]
  /\ reader' = [reader EXCEPT ![c] = "stopped"]
  /\ budget' = DropRead(budget, c)
  /\ UNCHANGED <<scene, neg, used, sent, frames, held, out, reserve, writing, hub>>

\* The writer is done or runs out of time; the frames in the channel go.
Close(c) ==
  /\ at[c][0] = "closing"
  /\ at' = [at EXCEPT ![c][0] = "closed"]
  /\ writer' = [writer EXCEPT ![c] = Writer("ended")]
  /\ queue' = [queue EXCEPT ![c] = <<>>]
  /\ frames' = [frames EXCEPT ![c] = <<>>]
  /\ backlog' = [backlog EXCEPT ![c] = <<>>]
  /\ budget' = Return(WriterDrops(budget, c), "request",
                      SumFunction([i \in DOMAIN frames[c] |-> PermitLen(c, frames[c][i])]))
  /\ UNCHANGED <<scene, neg, used, reading, tables, out, reserve, answered, published>>

-----------------------------------------------------------------------------
Loop(c) == LoopBreaks(c) \/ LoopSpawns(c) \/ LoopAnswers(c) \/ LoopCancels(c) \/ LoopForwards(c)
Send(c, w) == ReserveSecond(c, w) \/ SendQueue(c, w) \/ SendFails(c, w)
Task(c, w) == TaskParse(c, w) \/ HandlerReturns(c, w) \/ TaskDropped(c, w)

Overdue(c) == reader[c] = "body" \/ writer[c].state = "ended"

\* What the runtime polls when it is ready, timers and handlers included, and
\* what a peer does that reads.  A client that pings is never silent for long;
\* one that nothing can be written to is gone, and the reader finds out.
Progress(c) ==
  \/ Handshake(c) \/ HelloFails(c) \/ Push(c)
  \/ Overdue(c) /\ ReadFails(c)
  \/ Loop(c)
  \/ WriterTakes(c) \/ (c \notin Stalled /\ (WriterWrites(c) \/ WriterFails(c)))
  \/ Epilogue(c) \/ Close(c)
  \/ \E w \in Workers : Send(c, w)
  \/ \E w \in Tasks : Task(c, w)

Next ==
  \/ Publish
  \/ \E c \in Conns :
       \/ ReadHeader(c) \/ ReadBody(c) \/ (~Overdue(c) /\ ReadFails(c))
       \/ c \in Stalled /\ (WriterWrites(c) \/ WriterFails(c))
       \/ Progress(c)

\* A behaviour makes finitely many steps, so it is enough that it does not
\* stop while one of these is possible.
Fairness == WF_vars(\E c \in Conns : Progress(c))

Spec == Init /\ [][Next]_vars /\ Fairness

-----------------------------------------------------------------------------
(* Properties                                                              *)

\* What the state of a connection may be: in particular no limit is above the
\* server's own, and channels and tasks keep to the negotiated number.
TypeOK ==
  /\ published \in 0 .. scene.events
  /\ used \in 0 .. DecodedBytes
  /\ \A k \in DOMAIN budget : budget[k].queue # <<>> => budget[k].free = 0
  /\ \A c \in Conns :
       /\ \A l \in {"max_body", "max_decoded", "max_metadata", "max_in_flight"} :
            neg[c][l] \in 1 .. Server[l]
       /\ reader[c] \in {"header", "body", "push", "error", "stopped"}
       /\ sent[c] \in 0 .. Len(Script(c)) /\ held[c] \in 0 .. sent[c]
       /\ frames[c] \in Seq(0 .. sent[c])
       /\ active[c] \cup aborted[c] \subseteq Tasks
       /\ at[c][0] \in LoopState
       /\ \A w \in Tasks : at[c][w] \in {"none", "done"} \cup Live
       /\ \A w \in Workers : out[c][w] # Nothing <=> at[c][w] \in Sending
       /\ writer[c].state \in {"idle", "writing", "ended"}
       /\ {Len(frames[c]), Len(queue[c]), Cardinality(InFlight(c))}
            \subseteq 0 .. Server.max_in_flight
       /\ Len(writer[c].batch) <= BatchFrames /\ Len(backlog[c]) <= HubCapacity

\* The bytes of the request budget in the hands of a connection.
RequestHeld(c) ==
  (IF reader[c] = "push" \/ (reader[c] = "body" /\ ~Waits(budget["request"], c))
   THEN PermitLen(c, sent[c]) ELSE 0)
  + SumFunction([i \in DOMAIN frames[c] |-> PermitLen(c, frames[c][i])])
  + PermitLen(c, held[c])
  + SumFunctionOnSet([w \in Tasks |-> IF w \in InFlight(c) THEN PermitLen(c, w) ELSE 0], Tasks)

\* The bytes of a response budget held for the frames of a connection.
ResponseHeld(c, k) ==
  LET first == ReserveOrder(c)[1]
      holds(w) == \/ at[c][w] = "queue"
                  \/ at[c][w] = "second" /\ (k = first \/ ~Waits(budget[k], <<c, w>>))
                  \/ at[c][w] = "first" /\ k = first /\ ~Waits(budget[k], <<c, w>>)
  IN  SumFunctionOnSet([w \in Workers |-> IF holds(w) THEN Wire(out[c][w]) ELSE 0], Workers)
      + Bytes(writer[c].batch \o Deferred(c) \o queue[c])

Sum(f(_)) == SumFunctionOnSet([c \in Conns |-> f(c)], Conns)

\* No byte of a budget is lost or counted twice, whatever is cancelled, times
\* out or fails while bytes are waited for, queued, batched or deferred; a
\* closed connection whose tasks are gone holds none.
BytesExact ==
  /\ Undrawn(budget["request"]) + Sum(RequestHeld) = RequestBytes
  /\ Undrawn(budget["global"]) + Sum(LAMBDA c : ResponseHeld(c, "global")) = ResponseBytes
  /\ \A c \in Conns : Undrawn(budget[c]) + ResponseHeld(c, c) = ConnectionBytes
  /\ used = Sum(LAMBDA c : SumFunctionOnSet(reserve[c], Tasks))
  /\ \A c \in Conns : at[c][0] = "closed" /\ InFlight(c) = {}
       => RequestHeld(c) + ResponseHeld(c, c) = 0

\* What the writer is about to write keeps every bound of the handshake, and
\* a peer that checks as the protocol asks can decompress it.
PeerAccepts ==
  \A c \in Conns : \A i \in DOMAIN writer[c].batch :
    LET f == writer[c].batch[i].frame
        s == neg[c]
    IN  /\ OutLen(f) <= s.max_body
        /\ f.payload.len <= s.max_decoded
        /\ f.kind = "EVENT" => s.events
        /\ f.zstd => /\ s.zstd /\ f.kind \in {"RESPONSE", "EVENT", "STREAM_ITEM"}
                     /\ MayDecode(f.data.len, f.payload.len, s.max_decoded)
                     /\ Validate(CompressionBlock(f.payload.len), OutLen(f) - PrefixLen,
                                 s.max_metadata)

\* A request reaches its handler only with a block that can be read one way:
\* no key twice, get_reserved finds what the loop over the entries finds, and
\* encoding what into_metadata keeps gives a block that validates to the same.
MetadataCanonical ==
  \A c \in Conns : \A w \in Tasks :
    at[c][w] = "handler" /\ Received(c, w).block # Nothing =>
      LET block == Received(c, w).block
          kept  == IntoMetadata(block)
      IN  /\ kept # Nothing
          /\ \A key \in ReservedKeys : GetReserved(block, key) = Reserved(block, key)
          /\ Validate(EncodePrefix(kept), EncodePrefix(kept).announced, neg[c].max_metadata)
          /\ IntoMetadata(EncodePrefix(kept)) = kept

Asking(c, id) ==
  {n \in 1 .. sent[c] : /\ Received(c, n).id = id
                        /\ Received(c, n).kind \in {"REQUEST", "PING", "HEALTH"}}

\* An id is answered at most as often as it is asked, whatever is deferred,
\* cancelled or refused on the way, and no id that was not asked is answered.
AnsweredOnce ==
  \A c \in Conns :
    LET rs == writer[c].batch \o Deferred(c) \o queue[c]
        answers(id) == Cardinality({n \in DOMAIN rs : rs[n].frame.id = id})
                       + IF id \in answered[c] THEN 1 ELSE 0
    IN  \A id \in Ids(rs) : answers(id) <= Cardinality(Asking(c, id))

\* Where a batch ends makes no difference to what is sent for a response,
\* except that one which zstd can shrink twice may be deferred and become an
\* error.
BatchingHarmless ==
  \A c \in Conns : \A i \in DOMAIN writer[c].batch :
    LET r == writer[c].batch[i]
    IN  \/ r.frame = Outbound(r.was, neg[c])
        \/ r.frame = Outbound(Outbound(r.was, neg[c]), neg[c]) /\ r.was.data.zip = "regular"

Cancelled(c, id) ==
  \E n \in DOMAIN Script(c) : Received(c, n).kind = "CANCEL" /\ Received(c, n).id = id

Asked(c, n) ==
  /\ n <= sent[c] /\ Received(c, n).kind \in {"REQUEST", "PING", "HEALTH"}
  /\ ~Cancelled(c, Received(c, n).id)

Settled(c, n) ==
  at[c][0] \in {"closing", "closed"} \/ (n <= sent[c] /\ Received(c, n).id \in answered[c])

\* What a client that reads has asked is answered, or its connection ends,
\* however many frames a peer that does not read has waiting: there is always
\* a later time when nothing that was asked is open.
HealthyServed ==
  []<>(\A c \in Conns \ Stalled : \A n \in Tasks : Asked(c, n) => Settled(c, n))

=============================================================================
