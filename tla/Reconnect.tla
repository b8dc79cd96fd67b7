------------------------------ MODULE Reconnect ------------------------------
(***************************************************************************)
(* ReconnectingMoonLightClient: the supervisor that keeps one              *)
(* MoonLightClient (ClientConnection) installed.  Its own thread, the      *)
(* scheduler's, connects and installs; the thread that ends a connection   *)
(* schedules the next attempt; users call, subscribe, drain and close.     *)
(*                                                                         *)
(* Listeners are those of one event.  The CopyOnWriteArrayList of an event *)
(* is a number, given out when it is made; each map holds the list it      *)
(* reaches, and each listener the list it was added to.                    *)
(* Delays, failedAttempts and lastFailure are left out: no step reads them *)
(* but to compute a delay.                                                 *)
(***************************************************************************)
EXTENDS ClientConnection

CONSTANTS Listeners,
          Plans    \* what users and servers do in a behaviour

ASSUME PlansAssumption == \A p \in Plans : p.events \subseteq BOOLEAN
ASSUME FinitenessAssumption == IsFiniteSet(Conns) /\ IsFiniteSet(Listeners)

VARIABLES
  plan,      \* the plan of this behaviour
  active,    \* the installed connection
  closed,
  scheduled, \* reconnectScheduled
  timer,     \* tryReconnect is queued in the scheduler
  worker,    \* tryReconnect and install: where they are and what they hold
  first,     \* firstConnection
  closer,    \* where a thread in close() is
  drainer,   \* where a thread in drain() is, and the client it read
  map,       \* per owner of listeners: the list it maps the event to, or 0
  member,    \* per owner and listener: the list the listener is in, or 0
  sub        \* per listener: where its subscribe or unsubscribe is

client == <<conn, call, table>>
supervisor == <<active, closed, scheduled, timer, worker, first, closer, drainer>>
listeners == <<map, member, sub>>
vars == <<plan, client, supervisor, listeners>>

Idle == [at |-> "idle", conn |-> None, todo |-> {}, list |-> 0]
Own == None
Owners == Conns \cup {Own}

\* One list more than threads, maps and listeners can refer to.
MaxLists ==
  2 + Cardinality(Owners) + Cardinality(Owners \X Listeners) + 2 * Cardinality(Listeners)

TypeOK ==
  /\ ClientTypeOK
  /\ plan \in Plans
  /\ \A k \in Calls : call[k].at \notin {"new", "refused"} => call[k].conn # None
  /\ active \in Conns \cup {None}
  /\ closed \in BOOLEAN /\ scheduled \in BOOLEAN /\ timer \in BOOLEAN
  /\ worker \in [at : {"idle", "connect", "install", "set", "each", "subscribe", "add", "watch"},
                 conn : Conns \cup {None}, todo : SUBSET Listeners, list : 0 .. MaxLists]
  /\ first \in {"waiting", "completed", "failed"}
  /\ closer \in {"no", "closing", "done"}
  /\ drainer \in [at : {"no", "read", "called", "waiting", "done"}, conn : Conns \cup {None}]
  /\ map \in [Owners -> 0 .. MaxLists]
  /\ member \in [Owners -> [Listeners -> 0 .. MaxLists]]
  /\ sub \in [Listeners -> [at : {"out", "join", "joined", "client", "in", "leave", "empty",
                                  "left", "clientEmpty", "clientLeft", "done", "thrown"},
                            list : 0 .. MaxLists, found : 0 .. MaxLists,
                            conn : Conns \cup {None}]]

\* Either start(), whose first attempt the scheduler makes, or connect(), whose
\* constructor installs the first connection itself.
Init ==
  /\ plan \in Plans
  /\ active = None /\ closed = FALSE
  /\ call = [k \in Calls |-> NewCall] /\ table = {}
  /\ first = "waiting" /\ closer = "no" /\ drainer = [at |-> "no", conn |-> None]
  /\ \/ /\ plan.begin = "start" /\ conn = [c \in Conns |-> Unmade]
        /\ worker = Idle /\ scheduled = TRUE /\ timer = TRUE
     \/ /\ plan.begin = "connect"
        /\ \E events \in plan.events :
             conn = [c \in Conns |-> IF c = 1 THEN Made(events) ELSE Unmade]
        /\ worker = [Idle EXCEPT !.at = "install", !.conn = 1]
        /\ scheduled = FALSE /\ timer = FALSE
  /\ map = [o \in Owners |-> 0]
  /\ member = [o \in Owners |-> [l \in Listeners |-> 0]]
  /\ sub = [l \in Listeners |-> [at |-> "out", list |-> 0, found |-> 0, conn |-> None]]

----------------------------------------------------------------------------
\* The lists of listeners.

Members(o, g) == {l \in Listeners : g # 0 /\ member[o][l] = g}

\* A list no thread, map or listener refers to.
Fresh ==
  CHOOSE g \in 1 .. MaxLists :
    /\ g # worker.list
    /\ \A o \in Owners : g # map[o] /\ \A l \in Listeners : g # member[o][l]
    /\ \A l \in Listeners : g # sub[l].list /\ g # sub[l].found

\* computeIfAbsent(eventId, new list).
Joined(o) == IF map[o] = 0 THEN Fresh ELSE map[o]
ComputeIfAbsent(o) == map' = [map EXCEPT ![o] = Joined(o)]

\* addIfAbsent and remove of a list.  A listener the list does not hold is in
\* no list this owner still reaches.
AddIfAbsent(o, g, l) == member' = [member EXCEPT ![o][l] = g]
RemoveFrom(o, g, l) ==
  member' = [member EXCEPT ![o][l] = IF @ = g THEN 0 ELSE @]

\* eventListeners.remove(eventId, list) compares lists by what they hold.
Unmap(o, g) ==
  map' = [map EXCEPT ![o] =
            IF @ # 0 /\ (@ = g \/ Members(o, @) = Members(o, g)) THEN 0 ELSE @]

----------------------------------------------------------------------------
\* The scheduler's thread.

\* scheduleReconnect, from a state where reconnectScheduled is flag.
Schedule(flag) ==
  /\ scheduled' = TRUE
  /\ timer' = (timer \/ (~flag /\ ~closed))

\* Mutant: the check of active is missing.
TryReconnect_Unchecked ==
  /\ timer /\ worker.at = "idle"
  /\ timer' = FALSE /\ scheduled' = FALSE
  /\ worker' = IF closed THEN Idle ELSE [Idle EXCEPT !.at = "connect"]
  /\ UNCHANGED <<plan, client, active, closed, first, closer, drainer, listeners>>

\* Mutant: reconnectScheduled is left set.
TryReconnect_NoReset ==
  /\ timer /\ worker.at = "idle"
  /\ timer' = FALSE /\ UNCHANGED scheduled
  /\ worker' = IF closed \/ active # None THEN Idle ELSE [Idle EXCEPT !.at = "connect"]
  /\ UNCHANGED <<plan, client, active, closed, first, closer, drainer, listeners>>

\* The head of tryReconnect.
TryReconnect ==
  /\ timer /\ worker.at = "idle"
  /\ timer' = FALSE /\ scheduled' = FALSE
  /\ worker' = IF closed \/ active # None THEN Idle ELSE [Idle EXCEPT !.at = "connect"]
  /\ UNCHANGED <<plan, client, active, closed, first, closer, drainer, listeners>>

\* MoonLightClient.connect: the server negotiates events or does not.
Connect ==
  /\ worker.at = "connect"
  /\ \E c \in Conns, events \in plan.events :
       /\ conn[c].phase = "none" /\ \A d \in Conns : d < c => conn[d].phase # "none"
       /\ conn' = [conn EXCEPT ![c] = Made(events)]
       /\ worker' = [worker EXCEPT !.at = "install", !.conn = c]
  /\ UNCHANGED <<plan, call, table, active, closed, scheduled, timer, first, closer, drainer,
                 listeners>>

ConnectFails ==
  /\ worker.at = "connect"
  /\ worker' = Idle
  /\ Schedule(scheduled)
  /\ UNCHANGED <<plan, client, active, closed, first, closer, drainer, listeners>>

\* install: the check of closed.
InstallChecks ==
  /\ worker.at = "install"
  /\ IF closed
       THEN Close(worker.conn) /\ worker' = Idle
       ELSE worker' = [worker EXCEPT !.at = "set"] /\ UNCHANGED client
  /\ UNCHANGED <<plan, active, closed, scheduled, timer, first, closer, drainer, listeners>>

InstallSets ==
  /\ worker.at = "set"
  /\ active' = worker.conn
  /\ worker' = [worker EXCEPT !.at = "each"]
  /\ UNCHANGED <<plan, client, closed, scheduled, timer, first, closer, drainer, listeners>>

\* eventListeners.forEach takes the listeners there are.
InstallEach ==
  /\ worker.at = "each"
  /\ worker' = [worker EXCEPT !.at = "subscribe", !.todo = Members(Own, map[Own])]
  /\ UNCHANGED <<plan, client, active, closed, scheduled, timer, first, closer, drainer, listeners>>

\* client.subscribe for each; it throws when the server has no events, and
\* tryReconnect catches that as a failed attempt.
InstallSubscribes ==
  /\ worker.at = "subscribe" /\ worker.todo # {}
  /\ IF conn[worker.conn].events
       THEN /\ ComputeIfAbsent(worker.conn)
            /\ worker' = [worker EXCEPT !.at = "add", !.list = Joined(worker.conn)]
            /\ UNCHANGED <<scheduled, timer>>
       ELSE worker' = Idle /\ Schedule(scheduled) /\ UNCHANGED map
  /\ UNCHANGED <<plan, client, active, closed, first, closer, drainer, member, sub>>

InstallAdds ==
  /\ worker.at = "add"
  /\ \E l \in worker.todo :
       /\ AddIfAbsent(worker.conn, worker.list, l)
       /\ worker' = [worker EXCEPT !.at = "subscribe", !.todo = @ \ {l}, !.list = 0]
  /\ UNCHANGED <<plan, client, active, closed, scheduled, timer, first, closer, drainer, map, sub>>

InstallResets ==
  /\ worker.at = "subscribe" /\ worker.todo = {}
  /\ first' = IF first = "waiting" THEN "completed" ELSE first
  /\ scheduled' = FALSE
  /\ worker' = [worker EXCEPT !.at = "watch"]
  /\ UNCHANGED <<plan, client, active, closed, timer, closer, drainer, listeners>>

\* The callback on termination of c, from a state where c has ended.
Terminated(c) ==
  /\ active' = IF active = c THEN None ELSE active
  /\ IF active = c /\ ~closed THEN Schedule(scheduled) ELSE UNCHANGED <<scheduled, timer>>

\* termination().thenAccept: the callback runs here if the connection is gone.
InstallWatches ==
  /\ worker.at = "watch"
  /\ worker' = Idle
  /\ IF conn[worker.conn].phase = "gone" THEN Terminated(worker.conn) /\ UNCHANGED conn
     ELSE /\ conn' = [conn EXCEPT ![worker.conn].watched = TRUE]
          /\ UNCHANGED <<active, scheduled, timer>>
  /\ UNCHANGED <<plan, call, table, closed, first, closer, drainer, listeners>>

Worker ==
  \/ TryReconnect \/ Connect \/ ConnectFails \/ InstallChecks \/ InstallSets \/ InstallEach
  \/ InstallSubscribes \/ InstallAdds \/ InstallResets \/ InstallWatches

----------------------------------------------------------------------------
\* The end of a connection reaches the supervisor.

\* termination.complete, the last step of close() and terminate().
TerminationCompletes(c) ==
  /\ conn[c].phase = "finish"
  /\ conn' = [conn EXCEPT ![c].phase = "gone"]
  /\ IF conn[c].watched THEN Terminated(c) ELSE UNCHANGED <<active, scheduled, timer>>
  /\ UNCHANGED <<plan, call, table, closed, worker, first, closer, drainer, listeners>>

----------------------------------------------------------------------------
\* Users.

Unsupervised == UNCHANGED <<plan, supervisor, listeners>>

\* The constructor has returned.
Constructed == plan.begin = "connect" => worker.conn # 1

\* Mutant: the check for a missing connection is gone.
Start_Unchecked(k) ==
  /\ k \in plan.calls /\ call[k].at = "new" /\ Constructed
  /\ call' = [call EXCEPT ![k].at = "taken", ![k].conn = active]
  /\ UNCHANGED <<conn, table>> /\ Unsupervised

\* request, call, serverStream: the active client is read once.
Start(k) ==
  /\ k \in plan.calls /\ call[k].at = "new" /\ Constructed
  /\ call' = [call EXCEPT ![k].at = IF active = None THEN "refused" ELSE "taken",
                          ![k].conn = active]
  /\ UNCHANGED <<conn, table>> /\ Unsupervised

\* close(): closed, the scheduler and firstConnection ...
CloseBegins ==
  /\ "close" \in plan.stop /\ closer = "no" /\ Constructed
  /\ IF closed THEN closer' = "done" /\ UNCHANGED <<closed, timer, first>>
     ELSE /\ closer' = "closing" /\ closed' = TRUE /\ timer' = FALSE
          /\ first' = IF first = "waiting" THEN "failed" ELSE first
  /\ UNCHANGED <<plan, client, active, scheduled, worker, drainer, listeners>>

\* ... then the client it takes out of active.
CloseEnds ==
  /\ closer = "closing"
  /\ closer' = "done" /\ active' = None
  /\ IF active = None THEN UNCHANGED client ELSE Close(active)
  /\ UNCHANGED <<plan, closed, scheduled, timer, worker, first, drainer, listeners>>

\* drain() reads the active client; without one it is done.
DrainReads ==
  /\ "drain" \in plan.stop /\ drainer.at = "no" /\ Constructed
  /\ IF active = None
       THEN drainer' = [drainer EXCEPT !.at = "done"] /\ closed' = TRUE /\ timer' = FALSE
       ELSE drainer' = [at |-> "read", conn |-> active] /\ UNCHANGED <<closed, timer>>
  /\ UNCHANGED <<plan, client, active, scheduled, worker, first, closer, listeners>>

DrainCalls ==
  /\ drainer.at = "read"
  /\ conn' = [conn EXCEPT ![drainer.conn] = DrainFrom(@)]
  /\ drainer' = [drainer EXCEPT !.at = "called"]
  /\ UNCHANGED <<plan, call, table, active, closed, scheduled, timer, worker, first, closer,
                 listeners>>

DrainStops ==
  /\ drainer.at = "called"
  /\ drainer' = [drainer EXCEPT !.at = "waiting"]
  /\ closed' = TRUE /\ timer' = FALSE
  /\ UNCHANGED <<plan, client, active, scheduled, worker, first, closer, listeners>>

\* The callback on the handle's completion.
DrainEnds ==
  /\ drainer.at = "waiting" /\ conn[drainer.conn].drain \in {"completed", "failed"}
  /\ drainer' = [drainer EXCEPT !.at = "done"]
  /\ active' = IF active = drainer.conn THEN None ELSE active
  /\ UNCHANGED <<plan, client, closed, scheduled, timer, worker, first, closer, listeners>>

Stop == CloseBegins \/ CloseEnds \/ DrainReads \/ DrainCalls \/ DrainStops \/ DrainEnds

----------------------------------------------------------------------------
\* subscribe() and the handle it returns.

Goto(l, at) == sub' = [sub EXCEPT ![l].at = at]
Listening == UNCHANGED <<plan, client, supervisor>>

SubscribeJoins(l) ==
  /\ l \in plan.listeners /\ sub[l].at = "out" /\ Constructed
  /\ ComputeIfAbsent(Own)
  /\ sub' = [sub EXCEPT ![l].at = "join", ![l].list = Joined(Own)]
  /\ UNCHANGED member /\ Listening

SubscribeAdds(l) ==
  /\ sub[l].at = "join"
  /\ AddIfAbsent(Own, sub[l].list, l)
  /\ Goto(l, "joined")
  /\ UNCHANGED map /\ Listening

\* Mutant: a connection that is being installed is left to install.
SubscribeReads_Installed(l) ==
  /\ sub[l].at = "joined"
  /\ IF active = None \/ worker.conn = active THEN Goto(l, "in") /\ UNCHANGED map
     ELSE IF ~conn[active].events THEN Goto(l, "thrown") /\ UNCHANGED map
     ELSE /\ ComputeIfAbsent(active)
          /\ sub' = [sub EXCEPT ![l].at = "client", ![l].conn = active, ![l].found = Joined(active)]
  /\ UNCHANGED member /\ Listening

\* client.subscribe on the client that is active now.
SubscribeReads(l) ==
  /\ sub[l].at = "joined"
  /\ IF active = None THEN Goto(l, "in") /\ UNCHANGED map
     ELSE IF ~conn[active].events THEN Goto(l, "thrown") /\ UNCHANGED map
     ELSE /\ ComputeIfAbsent(active)
          /\ sub' = [sub EXCEPT ![l].at = "client", ![l].conn = active, ![l].found = Joined(active)]
  /\ UNCHANGED member /\ Listening

SubscribeClient(l) ==
  /\ sub[l].at = "client"
  /\ AddIfAbsent(sub[l].conn, sub[l].found, l)
  /\ sub' = [sub EXCEPT ![l].at = "in", ![l].conn = None, ![l].found = 0]
  /\ UNCHANGED map /\ Listening

\* The handle is closed: out of the list, and the list out of the map if empty.
Unsubscribe(l) ==
  /\ l \in plan.leavers /\ sub[l].at = "in"
  /\ RemoveFrom(Own, sub[l].list, l)
  /\ Goto(l, "leave")
  /\ UNCHANGED map /\ Listening

UnsubscribeLooks(l) ==
  /\ sub[l].at = "leave"
  /\ Goto(l, IF Members(Own, sub[l].list) = {} THEN "empty" ELSE "left")
  /\ UNCHANGED <<map, member>> /\ Listening

UnsubscribeUnmaps(l) ==
  /\ sub[l].at = "empty"
  /\ Unmap(Own, sub[l].list)
  /\ Goto(l, "left")
  /\ UNCHANGED member /\ Listening

\* removeEventListener on the client that is active now.
UnsubscribeReads(l) ==
  /\ sub[l].at = "left"
  /\ LET g == IF active = None THEN 0 ELSE map[active]
     IN  IF g = 0 THEN sub' = [sub EXCEPT ![l].at = "done", ![l].list = 0] /\ UNCHANGED member
         ELSE /\ RemoveFrom(active, g, l)
              /\ sub' = [sub EXCEPT ![l].at = "clientLeft", ![l].conn = active,
                                    ![l].list = 0, ![l].found = g]
  /\ UNCHANGED map /\ Listening

UnsubscribeClient(l) ==
  /\ sub[l].at = "clientLeft"
  /\ IF Members(sub[l].conn, sub[l].found) = {} THEN Goto(l, "clientEmpty")
     ELSE sub' = [sub EXCEPT ![l].at = "done", ![l].conn = None, ![l].found = 0]
  /\ UNCHANGED <<map, member>> /\ Listening

UnsubscribeEnds(l) ==
  /\ sub[l].at = "clientEmpty"
  /\ Unmap(sub[l].conn, sub[l].found)
  /\ sub' = [sub EXCEPT ![l].at = "done", ![l].conn = None, ![l].found = 0]
  /\ UNCHANGED member /\ Listening

Subscription(l) ==
  \/ SubscribeJoins(l) \/ SubscribeAdds(l) \/ SubscribeReads(l) \/ SubscribeClient(l)
  \/ Unsubscribe(l) \/ UnsubscribeLooks(l) \/ UnsubscribeUnmaps(l) \/ UnsubscribeReads(l)
  \/ UnsubscribeClient(l) \/ UnsubscribeEnds(l)

----------------------------------------------------------------------------
\* The network ends a connection, and the server drains.
Breaks(c) == plan.breaks /\ Terminate(c)
ServerDrains(c) == plan.goaway /\ GoAway(c)

Next ==
  \/ Worker \/ Stop
  \/ \E c \in Conns :
       \/ TerminationCompletes(c)
       \/ (Breaks(c) \/ FailAll(c) \/ ServerDrains(c) \/ DrainStep(c) \/ Dispatch(c)) /\ Unsupervised
  \/ \E k \in Calls :
       \/ Start(k)
       \/ (CallStep(k) \/ Cancel(k) \/ \E c \in Conns : Receive(c, k)) /\ Unsupervised
  \/ \E l \in Listeners : Subscription(l)

\* The threads of a call, its timer and the thread that ends a connection run.
\* Users, servers and the network may stop; so may the supervisor's thread.
Settling ==
  \/ \E c \in Conns : (FailAll(c) /\ Unsupervised) \/ TerminationCompletes(c)
  \/ \E k \in Calls : CallStep(k) /\ Unsupervised

Spec == Init /\ [][Next]_vars /\ WF_vars(Settling)

----------------------------------------------------------------------------
\* Properties.

\* The supervisor is never stranded: as long as it is open, an attempt to
\* connect is queued or running, or a connection is installed whose end will
\* be reported to it (scheduleReconnect, tryReconnect and install of
\* ReconnectingMoonLightClient).  The exception is a server without events:
\* there install may fail between setting active and watching the connection.
NeverStranded ==
  ~closed =>
    \/ timer \/ worker.at # "idle"
    \/ active # None /\ (conn[active].events => conn[active].watched /\ conn[active].phase # "gone")

\* There is never a second connection beside one that is open: an attempt is
\* only made while none is, whatever ends connections in the meantime.
OneConnection == Cardinality({c \in Conns : conn[c].phase = "open"}) <= 1

\* "Subscriptions survive reconnects": once install is done, every listener the
\* supervisor retains was added to the installed connection, however subscribe,
\* unsubscribe and install overlap.  Which listeners a map retains is another
\* matter: see Unmap.
RetainedHeard ==
  active # None /\ worker.conn # active /\ conn[active].events =>
    \A l \in Members(Own, map[Own]) : sub[l].at = "in" => member[active][l] # 0

\* close(), terminate() and a drain leave no call behind: when a connection is
\* gone, or a drain has decided that it is empty, every call that was in its
\* tables before it stopped accepting has its result or has its response in
\* the hands of a thread.
NoneLeftBehind ==
  \A c \in Conns : conn[c].phase = "gone" \/ conn[c].drain \in {"closing", "completed"} =>
    \A k \in Of(c) :
      call[k].at \in {"registered", "written", "sent", "thrown"} =>
        call[k].late \/ call[k].future # "open"

\* Every call that took a permit gives it back, with a result: a response, an
\* error, its deadline or the end of the connection.  There are two exceptions:
\* a stream that failAll clears from the map and has not failed, and a call
\* that has thrown between its registration and its handler.
CallsSettle ==
  \A k \in Calls :
    call[k].at = "admitted" ~>
      call[k].at \in {"settled", "thrown"} \/ (k \in Streams /\ k \notin table /\ call[k].late)
=============================================================================
