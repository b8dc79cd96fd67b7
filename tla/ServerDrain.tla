----------------------------- MODULE ServerDrain -----------------------------
(***************************************************************************)
(* The accept loop, the connection loops, the request tasks and the drain  *)
(* controller of the server runtime                                        *)
(* (crates/moonlight-bridge-server/src/lib.rs and drain.rs).               *)
(*                                                                         *)
(* Every statement of run, serve_connection, of a request task and of      *)
(* drain that another of them can observe is a step of its own.  A watch   *)
(* receiver is the flag that says whether the value was already set when   *)
(* it subscribed: changed() then never resolves.  The response queue of a  *)
(* connection is the sequence of all frames ever queued on it together     *)
(* with the number of them that its writer has taken.                      *)
(*                                                                         *)
(* What a request computes, and how the items of a stream are paced, is    *)
(* left out: a request ends with one frame.  So are the frames that do not *)
(* concern requests: PING, HEALTH and events.                              *)
(***************************************************************************)
EXTENDS Integers, Sequences, FiniteSets

CONSTANTS Conns,           \* connections that clients may open, each once
          Reqs,            \* requests that clients may send, each once
          Owner,           \* the connection each request is sent on
          MaxConnections,  \* ServerLimits::max_connections
          MaxInFlight      \* negotiated max_in_flight

ASSUME OwnerType == Owner \in [Reqs -> Conns]
ASSUME FinitelyMany == IsFiniteSet(Conns) /\ IsFiniteSet(Reqs)
ASSUME LimitsPositive == MaxConnections \in Nat \ {0} /\ MaxInFlight \in Nat \ {0}

VARIABLES
  run,       \* where Server::run is
  ready,     \* RuntimeState::ready
  draining,  \* RuntimeState::draining
  drainTx,   \* the value of the watch channel drain_tx
  forceTx,   \* the value of the watch channel force_drain_tx
  conns,     \* RuntimeState::active_connections
  reqs,      \* RuntimeState::active_requests
  ctl,       \* where the caller of ServerHandle::drain is
  woken,     \* whether its state_changed.notified() has been woken
  runStale,  \* run subscribed to drain_tx after the value was set
  at,        \* where the connection's task is
  pend,      \* the frame it is about to queue
  local,     \* its variable `draining`
  stale,     \* the channels it subscribed to after the value was set
  active,    \* its table of active requests
  changed,   \* the permit stored in active_changed
  out,       \* the frames queued on it so far
  taken,     \* how many of them the writer has taken
  writer,    \* whether its writer task runs
  task,      \* where the task of each request is
  aborted,   \* the requests whose task has been aborted
  permits    \* the permits left in its semaphore of requests in flight

server == <<run, ready, runStale>>
control == <<draining, drainTx, forceTx, ctl>>
counters == <<conns, reqs, woken>>
loops == <<at, pend, local, stale>>
tables == <<active, changed>>
queues == <<out, taken, writer>>
tasks == <<task, aborted, permits>>
vars == <<server, control, counters, loops, tables, queues, tasks>>

NoReq == 0
GoAway == <<"goaway", NoReq>>
Goodbye == <<"goodbye", NoReq>>
Answer(r) == <<"answer", r>>
Refusal(r) == <<"refusal", r>>
Frame == {GoAway, Goodbye} \cup {Answer(r) : r \in Reqs} \cup {Refusal(r) : r \in Reqs}

RunState == {"start", "checked", "storing", "accepting", "stopped"}
CtlState == {"idle", "marked", "unready", "conns", "reqs", "register", "waiting",
             "idle_reached", "timed_out"}
Looping == {"select", "send", "drain", "check", "leave", "break"}
ConnState == {"none", "spawned", "hello", "closing", "closed"} \cup Looping
Alive == {"spawned", "counted", "answering", "answered", "removed", "notified"}
Counted == Alive \ {"spawned"}
TaskState == {"none", "refused", "done", "panicked"} \cup Alive

TypeOK ==
  /\ run \in RunState /\ ctl \in CtlState
  /\ {ready, draining, drainTx, forceTx, woken, runStale} \subseteq BOOLEAN
  /\ conns \in 0..Cardinality(Conns) /\ reqs \in 0..Cardinality(Reqs)
  /\ at \in [Conns -> ConnState]
  /\ pend \in [Conns -> Frame \cup {<<>>}]
  /\ local \in [Conns -> BOOLEAN] /\ changed \in [Conns -> BOOLEAN]
  /\ stale \in [Conns -> SUBSET {"drain", "force"}]
  /\ active \in [Conns -> SUBSET Reqs]
  /\ out \in [Conns -> Seq(Frame)]
  /\ \A c \in Conns : taken[c] \in 0..Len(out[c])
  /\ writer \in [Conns -> {"none", "up", "dead"}]
  /\ task \in [Reqs -> TaskState]
  /\ aborted \subseteq Reqs
  /\ permits \in [Conns -> 0..MaxInFlight]

Init ==
  /\ run = "start" /\ ready = FALSE /\ runStale = FALSE
  /\ draining = FALSE /\ drainTx = FALSE /\ forceTx = FALSE /\ ctl = "idle"
  /\ conns = 0 /\ reqs = 0 /\ woken = FALSE
  /\ at = [c \in Conns |-> "none"] /\ pend = [c \in Conns |-> <<>>]
  /\ local = [c \in Conns |-> FALSE] /\ stale = [c \in Conns |-> {}]
  /\ active = [c \in Conns |-> {}] /\ changed = [c \in Conns |-> FALSE]
  /\ out = [c \in Conns |-> <<>>] /\ taken = [c \in Conns |-> 0]
  /\ writer = [c \in Conns |-> "none"]
  /\ task = [r \in Reqs |-> "none"] /\ aborted = {}
  /\ permits = [c \in Conns |-> MaxInFlight]

-----------------------------------------------------------------------------
(* Derived state                                                           *)

\* Connections whose task holds a permit of the connection semaphore.
Admitted == {c \in Conns : at[c] \notin {"none", "closed"}}

\* Connections that hold receivers of the two watch channels.
Receivers == {c \in Conns : at[c] \in Looping \cup {"closing"}}

\* The request tasks of a connection that run.
Tasks(c) == {r \in Reqs : Owner[r] = c /\ task[r] \in Alive}

\* The permit a task of the connection holds is dropped with the task.
GiveBack(c) == permits' = [permits EXCEPT ![c] = @ + 1]

Room(c) == Len(out[c]) - taken[c] < MaxInFlight

\* state_changed.notify_waiters(): wakes a drain that has registered, and
\* leaves nothing behind for one that has not.
NotifyWaiters == woken' = (woken \/ ctl = "waiting")

-----------------------------------------------------------------------------
(* Server::run                                                             *)

\* self.runtime.draining.load()
RunChecks ==
  /\ run = "start"
  /\ run' = IF draining THEN "stopped" ELSE "checked"
  /\ UNCHANGED <<ready, runStale, control, counters, loops, tables, queues, tasks>>

\* self.runtime.ready.store(true)
RunReady ==
  /\ run = "checked"
  /\ run' = "storing"
  /\ ready' = TRUE
  /\ UNCHANGED <<runStale, control, counters, loops, tables, queues, tasks>>

\* drain_tx.subscribe() and the accept loop
RunListens ==
  /\ run = "storing"
  /\ run' = "accepting"
  /\ runStale' = drainTx
  /\ UNCHANGED <<ready, control, counters, loops, tables, queues, tasks>>

\* drain_rx.changed() resolves and run returns.
RunStops ==
  /\ run = "accepting"
  /\ drainTx /\ ~runStale
  /\ run' = "stopped"
  /\ UNCHANGED <<ready, runStale, control, counters, loops, tables, queues, tasks>>

\* accept() or set_nodelay() fails and run returns the error.
RunFails ==
  /\ run = "accepting"
  /\ run' = "stopped"
  /\ UNCHANGED <<ready, runStale, control, counters, loops, tables, queues, tasks>>

\* accept(), try_acquire_owned() and spawn.  Without a permit the stream is
\* dropped and nothing changes.
Accept(c) ==
  /\ run = "accepting"
  /\ at[c] = "none"
  /\ Cardinality(Admitted) < MaxConnections
  /\ at' = [at EXCEPT ![c] = "spawned"]
  /\ UNCHANGED <<server, control, counters, pend, local, stale, tables, queues, tasks>>

-----------------------------------------------------------------------------
(* serve_connection: from its first poll to its select loop                *)

\* The spawned task is polled, for TLS after the TLS handshake, and counts
\* itself.
Enter(c) ==
  /\ at[c] = "spawned"
  /\ at' = [at EXCEPT ![c] = "hello"]
  /\ conns' = conns + 1
  /\ UNCHANGED <<reqs, woken, server, control, pend, local, stale, tables, queues, tasks>>

\* The TLS handshake fails or times out.
TlsFails(c) ==
  /\ at[c] = "spawned"
  /\ at' = [at EXCEPT ![c] = "closed"]
  /\ UNCHANGED <<server, control, counters, pend, local, stale, tables, queues, tasks>>

\* The HELLO is bad or late: ConnectionGuard is dropped.
HelloFails(c) ==
  /\ at[c] = "hello"
  /\ at' = [at EXCEPT ![c] = "closed"]
  /\ conns' = conns - 1
  /\ NotifyWaiters
  /\ UNCHANGED <<reqs, server, control, pend, local, stale, tables, queues, tasks>>

\* Mutant: the connection starts out as not draining.
Open_NotDraining(c) ==
  /\ at[c] = "hello"
  /\ stale' = [stale EXCEPT ![c] = (IF drainTx THEN {"drain"} ELSE {})
                                     \cup (IF forceTx THEN {"force"} ELSE {})]
  /\ writer' = [writer EXCEPT ![c] = "up"]
  /\ at' = [at EXCEPT ![c] = "select"]
  /\ UNCHANGED <<local, pend, server, control, counters, tables, out, taken, tasks>>

\* HELLO was negotiated and WELCOME written: the connection subscribes to both
\* channels, reads drain_rx, spawns its reader and writer and, when the server
\* already drains, sends GOAWAY.
Open(c) ==
  /\ at[c] = "hello"
  /\ stale' = [stale EXCEPT ![c] = (IF drainTx THEN {"drain"} ELSE {})
                                     \cup (IF forceTx THEN {"force"} ELSE {})]
  /\ local' = [local EXCEPT ![c] = drainTx]
  /\ writer' = [writer EXCEPT ![c] = "up"]
  /\ at' = [at EXCEPT ![c] = IF drainTx THEN "send" ELSE "select"]
  /\ pend' = [pend EXCEPT ![c] = IF drainTx THEN GoAway ELSE <<>>]
  /\ UNCHANGED <<server, control, counters, tables, out, taken, tasks>>

-----------------------------------------------------------------------------
(* The select loop                                                         *)

\* responses_tx.send(frame).await, and where the loop goes from there.
Queue(c) ==
  /\ at[c] \in {"send", "drain", "leave"}
  /\ writer[c] = "up" /\ Room(c)
  /\ out' = [out EXCEPT ![c] = Append(@, pend[c])]
  /\ pend' = [pend EXCEPT ![c] = <<>>]
  /\ at' = [at EXCEPT ![c] = IF @ = "send" THEN "select"
                             ELSE IF @ = "drain" THEN "check" ELSE "break"]
  /\ UNCHANGED <<local, stale, server, control, counters, tables, taken, writer, tasks>>

\* The writer has stopped: the send fails and the loop ends.
QueueFails(c) ==
  /\ at[c] \in {"send", "drain", "leave"}
  /\ writer[c] = "dead"
  /\ pend' = [pend EXCEPT ![c] = <<>>]
  /\ at' = [at EXCEPT ![c] = "break"]
  /\ UNCHANGED <<local, stale, server, control, counters, tables, queues, tasks>>

\* drain_rx.changed(), if !draining
SeeDrain(c) ==
  /\ at[c] = "select"
  /\ ~local[c] /\ drainTx /\ "drain" \notin stale[c]
  /\ local' = [local EXCEPT ![c] = TRUE]
  /\ at' = [at EXCEPT ![c] = "drain"]
  /\ pend' = [pend EXCEPT ![c] = GoAway]
  /\ UNCHANGED <<stale, server, control, counters, tables, queues, tasks>>

\* active_changed.notified(), if draining
SeeChange(c) ==
  /\ at[c] = "select"
  /\ local[c] /\ changed[c]
  /\ changed' = [changed EXCEPT ![c] = FALSE]
  /\ at' = [at EXCEPT ![c] = "check"]
  /\ UNCHANGED <<pend, local, stale, active, server, control, counters, queues, tasks>>

\* active.lock().await.is_empty()
CheckEmpty(c) ==
  /\ at[c] = "check"
  /\ at' = [at EXCEPT ![c] = IF active[c] = {} THEN "leave" ELSE "select"]
  /\ pend' = [pend EXCEPT ![c] = IF active[c] = {} THEN Goodbye ELSE <<>>]
  /\ UNCHANGED <<local, stale, server, control, counters, tables, queues, tasks>>

\* force_drain_rx.changed()
SeeForce(c) ==
  /\ at[c] = "select"
  /\ forceTx /\ "force" \notin stale[c]
  /\ at' = [at EXCEPT ![c] = "leave"]
  /\ pend' = [pend EXCEPT ![c] = Goodbye]
  /\ UNCHANGED <<local, stale, server, control, counters, tables, queues, tasks>>

\* REQUEST while draining, with no permit left, or for a streaming method when
\* streaming was not negotiated.  Which requests are such is left open, so a
\* request may be refused at any time.
Refuse(r) ==
  LET c == Owner[r] IN
  /\ at[c] = "select" /\ task[r] = "none"
  /\ task' = [task EXCEPT ![r] = "refused"]
  /\ at' = [at EXCEPT ![c] = "send"]
  /\ pend' = [pend EXCEPT ![c] = Refusal(r)]
  /\ UNCHANGED <<local, stale, aborted, permits, server, control, counters, tables, queues>>

\* REQUEST: a permit is taken and moved into the task that, under the table
\* lock, is spawned and registered.
Admit(r) ==
  LET c == Owner[r] IN
  /\ at[c] = "select" /\ task[r] = "none"
  /\ ~local[c] /\ permits[c] > 0
  /\ permits' = [permits EXCEPT ![c] = @ - 1]
  /\ task' = [task EXCEPT ![r] = "spawned"]
  /\ active' = [active EXCEPT ![c] = @ \cup {r}]
  /\ UNCHANGED <<aborted, changed, server, control, counters, loops, queues>>

\* Mutant: the permit is kept with the entry of the table and goes with it.
Cancel_FreesPermit(r) ==
  LET c == Owner[r] IN
  /\ at[c] = "select" /\ r \in active[c]
  /\ active' = [active EXCEPT ![c] = @ \ {r}]
  /\ aborted' = aborted \cup {r}
  /\ changed' = [changed EXCEPT ![c] = TRUE]
  /\ GiveBack(c)
  /\ UNCHANGED <<task, server, control, counters, loops, queues>>

\* CANCEL of an active request.  Its permit stays with the task, which may run
\* on for a while.
Cancel(r) ==
  LET c == Owner[r] IN
  /\ at[c] = "select" /\ r \in active[c]
  /\ active' = [active EXCEPT ![c] = @ \ {r}]
  /\ aborted' = aborted \cup {r}
  /\ changed' = [changed EXCEPT ![c] = TRUE]
  /\ UNCHANGED <<task, permits, server, control, counters, loops, queues>>

\* End of stream, GOODBYE, a read error or timeout, or a frame that breaks the
\* protocol.
LoopEnds(c) ==
  /\ at[c] = "select"
  /\ at' = [at EXCEPT ![c] = "break"]
  /\ UNCHANGED <<pend, local, stale, server, control, counters, tables, queues, tasks>>

\* The epilogue: every registered task is aborted.
Epilogue(c) ==
  /\ at[c] = "break"
  /\ at' = [at EXCEPT ![c] = "closing"]
  /\ aborted' = aborted \cup active[c]
  /\ active' = [active EXCEPT ![c] = {}]
  /\ UNCHANGED <<pend, local, stale, changed, task, permits, server, control, counters, queues>>

\* The writer ends once no task holds a sender and the queue is empty, or is
\* aborted after writer_shutdown_timeout; then ConnectionGuard is dropped.
Close(c) ==
  /\ at[c] = "closing"
  /\ at' = [at EXCEPT ![c] = "closed"]
  /\ writer' = [writer EXCEPT ![c] = "dead"]
  /\ conns' = conns - 1
  /\ NotifyWaiters
  /\ UNCHANGED <<reqs, pend, local, stale, out, taken, server, control, tables, tasks>>

\* The writer takes a frame for its next batch.
Write(c) ==
  /\ writer[c] = "up" /\ taken[c] < Len(out[c])
  /\ taken' = [taken EXCEPT ![c] = @ + 1]
  /\ UNCHANGED <<out, writer, server, control, counters, loops, tables, tasks>>

\* A write fails and the writer stops.
WriteFails(c) ==
  /\ writer[c] = "up" /\ taken[c] > 0
  /\ writer' = [writer EXCEPT ![c] = "dead"]
  /\ UNCHANGED <<out, taken, server, control, counters, loops, tables, tasks>>

-----------------------------------------------------------------------------
(* A request task.  An aborted one is dropped at its next await, or runs   *)
(* on when the abort found it inside a poll.                               *)

\* The first poll counts the request.
Start(r) ==
  /\ task[r] = "spawned"
  /\ task' = [task EXCEPT ![r] = "counted"]
  /\ reqs' = reqs + 1
  /\ UNCHANGED <<conns, woken, aborted, permits, server, control, loops, tables, queues>>

\* dispatch_observed or dispatch_stream ends with a frame: a response, an
\* error, or the expiry of the deadline.
Handle(r) ==
  /\ task[r] = "counted"
  /\ task' = [task EXCEPT ![r] = "answering"]
  /\ UNCHANGED <<aborted, permits, server, control, counters, loops, tables, queues>>

\* A handler panics outside the unwind boundary of the middleware chain: the
\* guards are dropped, the table keeps its entry.
Panic(r) ==
  /\ task[r] = "counted"
  /\ task' = [task EXCEPT ![r] = "panicked"]
  /\ GiveBack(Owner[r])
  /\ reqs' = reqs - 1
  /\ NotifyWaiters
  /\ UNCHANGED <<conns, aborted, server, control, loops, tables, queues>>

\* responses_tx.send_observed(response).await, whose failure is ignored.
Send(r) ==
  LET c == Owner[r] IN
  /\ task[r] = "answering"
  /\ \/ writer[c] = "up" /\ Room(c) /\ out' = [out EXCEPT ![c] = Append(@, Answer(r))]
     \/ writer[c] = "dead" /\ UNCHANGED out
  /\ task' = [task EXCEPT ![r] = "answered"]
  /\ UNCHANGED <<taken, writer, aborted, permits, server, control, counters, loops, tables>>

\* Mutant: the entry is removed before the response is sent.
Remove_BeforeSend(r) ==
  LET c == Owner[r] IN
  /\ task[r] \in {"answering", "answered"} /\ r \in active[c]
  /\ active' = [active EXCEPT ![c] = @ \ {r}]
  /\ task' = [task EXCEPT ![r] = IF @ = "answering" THEN @ ELSE "removed"]
  /\ UNCHANGED <<aborted, permits, changed, server, control, counters, loops, queues>>

\* active.lock().await.remove(&request_id)
Remove(r) ==
  LET c == Owner[r] IN
  /\ task[r] = "answered"
  /\ task' = [task EXCEPT ![r] = "removed"]
  /\ active' = [active EXCEPT ![c] = @ \ {r}]
  /\ UNCHANGED <<aborted, permits, changed, server, control, counters, loops, queues>>

\* Mutant: notify_waiters instead of notify_one leaves no permit behind for a
\* loop that is busy.
Notify_Waiters(r) ==
  LET c == Owner[r] IN
  /\ task[r] = "removed"
  /\ task' = [task EXCEPT ![r] = "notified"]
  /\ changed' = [changed EXCEPT ![c] = @ \/ at[c] = "select"]
  /\ UNCHANGED <<aborted, permits, active, server, control, counters, loops, queues>>

\* active_changed.notify_one()
Notify(r) ==
  LET c == Owner[r] IN
  /\ task[r] = "removed"
  /\ task' = [task EXCEPT ![r] = "notified"]
  /\ changed' = [changed EXCEPT ![c] = TRUE]
  /\ UNCHANGED <<aborted, permits, active, server, control, counters, loops, queues>>

\* The task ends and drops RequestGuard and its permit.
Release(r) ==
  /\ task[r] = "notified"
  /\ task' = [task EXCEPT ![r] = "done"]
  /\ GiveBack(Owner[r])
  /\ reqs' = reqs - 1
  /\ NotifyWaiters
  /\ UNCHANGED <<conns, aborted, server, control, loops, tables, queues>>

\* Mutant: an aborted task is subtracted even when it was never counted.
DropAborted_Uncounted(r) ==
  /\ r \in aborted /\ task[r] \in {"spawned", "counted", "answering", "answered"}
  /\ task' = [task EXCEPT ![r] = "done"]
  /\ GiveBack(Owner[r])
  /\ reqs' = reqs - 1
  /\ NotifyWaiters
  /\ UNCHANGED <<conns, aborted, server, control, loops, tables, queues>>

\* The runtime drops an aborted task at an await point.
DropAborted(r) ==
  /\ r \in aborted /\ task[r] \in {"spawned", "counted", "answering", "answered"}
  /\ task' = [task EXCEPT ![r] = "done"]
  /\ GiveBack(Owner[r])
  /\ IF task[r] \in Counted THEN reqs' = reqs - 1 /\ NotifyWaiters
     ELSE UNCHANGED <<reqs, woken>>
  /\ UNCHANGED <<conns, aborted, server, control, loops, tables, queues>>

-----------------------------------------------------------------------------
(* ServerHandle::begin_drain and drain, by one caller                      *)

\* draining.compare_exchange(false, true)
DrainMarks ==
  /\ ctl = "idle"
  /\ draining' = TRUE
  /\ ctl' = "marked"
  /\ UNCHANGED <<drainTx, forceTx, server, counters, loops, tables, queues, tasks>>

\* ready.store(false)
DrainUnready ==
  /\ ctl = "marked"
  /\ ready' = FALSE
  /\ ctl' = "unready"
  /\ UNCHANGED <<run, runStale, draining, drainTx, forceTx, counters, loops, tables,
                 queues, tasks>>

\* drain_tx.send(true), which has no effect when nobody subscribed
DrainSends ==
  /\ ctl = "unready"
  /\ drainTx' = (run = "accepting" \/ Receivers # {})
  /\ ctl' = "conns"
  /\ UNCHANGED <<draining, forceTx, server, counters, loops, tables, queues, tasks>>

\* active_connections.load() == 0
DrainConns ==
  /\ ctl = "conns"
  /\ ctl' = IF conns = 0 THEN "reqs" ELSE "register"
  /\ UNCHANGED <<draining, drainTx, forceTx, server, counters, loops, tables, queues, tasks>>

\* active_requests.load() == 0
DrainReqs ==
  /\ ctl = "reqs"
  /\ ctl' = IF reqs = 0 THEN "idle_reached" ELSE "register"
  /\ UNCHANGED <<draining, drainTx, forceTx, server, counters, loops, tables, queues, tasks>>

\* state_changed.notified()
DrainRegisters ==
  /\ ctl = "register"
  /\ ctl' = "waiting"
  /\ woken' = FALSE
  /\ UNCHANGED <<draining, drainTx, forceTx, conns, reqs, server, loops, tables, queues, tasks>>

\* its await resolves
DrainWakes ==
  /\ ctl = "waiting" /\ woken
  /\ ctl' = "conns"
  /\ UNCHANGED <<draining, drainTx, forceTx, server, counters, loops, tables, queues, tasks>>

\* The timeout elapses: force_drain_tx.send(true), and drain returns false.
DrainTimesOut ==
  /\ ctl = "waiting" /\ ~woken
  /\ ctl' = "timed_out"
  /\ forceTx' = (Receivers # {})
  /\ UNCHANGED <<draining, drainTx, server, counters, loops, tables, queues, tasks>>

-----------------------------------------------------------------------------
RunStep == RunChecks \/ RunReady \/ RunListens \/ RunStops
LoopStep(c) == Queue(c) \/ QueueFails(c) \/ SeeDrain(c) \/ SeeChange(c) \/ CheckEmpty(c)
                 \/ SeeForce(c) \/ Epilogue(c) \/ Close(c)
TaskStep(r) == Start(r) \/ Handle(r) \/ Send(r) \/ Remove(r) \/ Notify(r) \/ Release(r)
                 \/ DropAborted(r)
DrainStep == DrainUnready \/ DrainSends \/ DrainConns \/ DrainReqs \/ DrainRegisters
               \/ DrainWakes

Next ==
  \/ RunStep \/ RunFails
  \/ DrainMarks \/ DrainStep \/ DrainTimesOut
  \/ \E c \in Conns :
       \/ Accept(c) \/ Enter(c) \/ TlsFails(c) \/ HelloFails(c) \/ Open(c)
       \/ LoopStep(c) \/ LoopEnds(c) \/ Write(c) \/ WriteFails(c)
  \/ \E r \in Reqs :
       \/ Admit(r) \/ Refuse(r) \/ Cancel(r) \/ TaskStep(r) \/ Panic(r)

\* The runtime schedules every task of an open connection that can run, handlers
\* end (deadlines), and clients read what they are sent.
ServingFairness ==
  /\ \A c \in Conns : WF_vars(LoopStep(c)) /\ WF_vars(Write(c))
  /\ \A r \in Reqs : WF_vars(TaskStep(r))

\* It also schedules the accept loop and drain, and handshakes end (HELLO
\* timeout).  Nobody has to connect, send a request, leave or start a drain,
\* and no timeout has to elapse.
Fairness ==
  /\ ServingFairness
  /\ WF_vars(RunStep)
  /\ WF_vars(DrainStep)
  /\ \A c \in Conns : /\ WF_vars(Enter(c) \/ TlsFails(c))
                      /\ WF_vars(Open(c) \/ HelloFails(c))

Spec == Init /\ [][Next]_vars
ServingSpec == Spec /\ ServingFairness
FairSpec == Spec /\ Fairness

-----------------------------------------------------------------------------
Position(c, f) == {i \in DOMAIN out[c] : out[c][i] = f}

\* "waits for accepted work": as long as nothing was forced, a GOODBYE is
\* queued behind the answer or the refusal of every request the connection
\* took, except the cancelled ones.
AnsweredBeforeGoodbye ==
  \A c \in Conns : ~forceTx =>
    \A i \in Position(c, Goodbye), r \in Reqs :
      Owner[r] = c /\ task[r] # "none" /\ r \notin aborted =>
        \E j \in Position(c, Answer(r)) \cup Position(c, Refusal(r)) : j < i

\* Every permit of a connection is in its semaphore or held by one task that
\* still runs: however requests end, by their answer, a CANCEL, a panic, or the
\* end of the connection between any two of their steps, no capacity is lost
\* and none is handed out while the task that held it runs on.
PermitsExact == \A c \in Conns : permits[c] + Cardinality(Tasks(c)) = MaxInFlight

\* Once drain has returned true and its signal was delivered, the only request
\* tasks left are ones that a closed connection has already aborted: a
\* connection that opens later admits nothing.
NoWorkAfterDrain ==
  ctl = "idle_reached" /\ drainTx =>
    \A r \in Reqs : task[r] \in Alive => r \in aborted

\* A connection that sees the drain signal in its loop says GOODBYE and closes
\* once its requests are answered, unless a handler of it panicked: no
\* completion is lost between its check of the table and its wait.
DrainCloses ==
  \A c \in Conns :
    (local[c] /\ "drain" \notin stale[c])
      ~> (at[c] = "closed" \/ \E r \in active[c] : task[r] = "panicked")

-----------------------------------------------------------------------------
(* What the documentation of drain says and the code does not keep         *)

\* "Begins draining and waits until every connection and request exits": when
\* drain returns true no connection is being served.
DrainTrueMeansIdle ==
  ctl = "idle_reached" => Admitted = {} /\ \A r \in Reqs : task[r] \notin Alive

\* The same sentence: a drain that waits notices that the last connection and
\* the last request are gone.
DrainNoticesIdle ==
  (ctl = "waiting" /\ conns = 0 /\ reqs = 0)
    ~> (ctl # "waiting" \/ conns # 0 \/ reqs # 0)

\* "A `false` result means the timeout elapsed and the runtime forced the
\* remaining connections closed."
ForcedDrainCloses == ctl = "timed_out" ~> Admitted = {}

=============================================================================
