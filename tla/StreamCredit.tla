---------------------------- MODULE StreamCredit ----------------------------
(***************************************************************************)
(* One server-streaming call, end to end: the subscriber and the callback  *)
(* queue of MoonLightServerStream.java, the frames of the stream in both   *)
(* directions, and the request task that runs Router::dispatch_stream.     *)
(*                                                                         *)
(* The monitor `callbacks` makes each of subscribe, request, emit, the end *)
(* of a callback and signalTerminal one step.  A thread that ends the      *)
(* stream from outside it sets `terminated` in one step and signals the    *)
(* end in another.  The credits on their way to the server are known by   *)
(* their sum, and the frames on their way to the client by the number of   *)
(* items and the terminal frame behind them: what the server sends after   *)
(* its first terminal frame finds no stream at the client and is dropped.  *)
(***************************************************************************)
EXTENDS Integers, Sequences, FiniteSets

CONSTANTS Items,       \* how many items the handler's stream yields
          Counts,      \* what the subscriber may request at a time
          MaxPending,  \* MAX_PENDING_CALLBACKS
          MaxLong      \* Long.MAX_VALUE

ASSUME ItemsType == Items \in Nat
ASSUME CountsType == Counts \subseteq Nat \ {0}
ASSUME LimitsType == MaxPending \in Nat \ {0} /\ MaxLong \in Nat \ {0}

VARIABLES
  sub,        \* subscriber and subscribing
  demand,     \* demand
  wire,       \* outstandingWireCredit
  pendingCb,  \* pendingCallbacks
  verdict,    \* terminated and terminalError: how the stream ended
  cancelled,  \* cancelled
  finishing,  \* a thread has ended the stream and has not signalled it yet
  signalled,  \* terminalDelivered
  queue,      \* callbackQueue
  flag,       \* drainingCallbacks
  job,        \* the drainCallbacks run that holds the flag
  cur,        \* the callback it executes
  late,       \* drainCallbacks runs past drainingCallbacks.set(false)
  shut,       \* callbackExecutor.shutdownNow() was called
  delivered,  \* onNext calls
  ended,      \* the terminal signal the subscriber got
  up,         \* credit on its way to the server
  cancelUp,   \* a CANCEL is on its way to the server
  items,      \* items on their way to the client
  tail,       \* the terminal frame behind them
  srv,        \* where dispatch_stream is
  credits,    \* its credit semaphore
  made        \* items its stream has yielded

subscription == <<sub, demand, wire, pendingCb>>
ending == <<verdict, cancelled, finishing, signalled>>
drainer == <<queue, flag, job, cur, late, shut>>
history == <<delivered, ended>>
network == <<up, cancelUp, items, tail>>
producer == <<srv, credits, made>>
vars == <<subscription, ending, drainer, history, network, producer>>

Verdict == {"none", "end", "error"}
Callback == {"next", "terminal", "noop"}

TypeOK ==
  /\ sub \in {"none", "subscribing", "done"}
  /\ demand \in 0..MaxLong /\ wire \in Nat /\ pendingCb \in Nat
  /\ verdict \in Verdict /\ cancelled \in BOOLEAN
  /\ finishing \in BOOLEAN /\ signalled \in BOOLEAN
  /\ queue \in Seq(Callback) /\ flag \in BOOLEAN
  /\ job \in {"none", "queued", "running", "empty"}
  /\ cur \in {"none", "next", "after", "terminal"} /\ late \in Nat /\ shut \in BOOLEAN
  /\ delivered \in Nat /\ ended \in Verdict
  /\ up \in Nat /\ cancelUp \in BOOLEAN /\ items \in Nat /\ tail \in Verdict
  /\ srv \in {"next", "item", "send", "gone"} /\ credits \in Nat /\ made \in 0..Items

Init ==
  /\ sub = "none" /\ demand = 0 /\ wire = 0 /\ pendingCb = 0
  /\ verdict = "none" /\ cancelled = FALSE /\ finishing = FALSE /\ signalled = FALSE
  /\ queue = <<>> /\ flag = FALSE /\ job = "none" /\ cur = "none" /\ late = 0
  /\ shut = FALSE
  /\ delivered = 0 /\ ended = "none"
  /\ up = 0 /\ cancelUp = FALSE /\ items = 0 /\ tail = "none"
  /\ srv = "next" /\ credits = 0 /\ made = 0

-----------------------------------------------------------------------------
(* Parts of MoonLightServerStream                                          *)

Least(m, n) == IF m <= n THEN m ELSE n

\* callbacks is free: no onSubscribe is running under it.
Unlocked == sub # "subscribing"

\* Mutant: credit up to the limit is granted whatever is still pending.
Grantable_IgnoresPending(d, p) ==
  IF verdict # "none" \/ d <= wire THEN 0 ELSE Least(d - wire, MaxPending)

\* Mutant: demand that was granted before is granted again.
Grantable_IgnoresWire(d, p) ==
  IF verdict # "none" \/ d <= wire \/ p >= MaxPending THEN 0
  ELSE Least(d, MaxPending - p)

\* The credit that grantAvailableCredit finds with demand d and p pending.
Grantable(d, p) ==
  IF verdict # "none" \/ d <= wire \/ p >= MaxPending THEN 0
  ELSE Least(d - wire, MaxPending - p)

\* finish(error, cancel) up to its terminalCleanup.
Finish(v, cancel) ==
  /\ verdict' = v
  /\ cancelled' = cancel
  /\ finishing' = ~cancel
  /\ UNCHANGED signalled

\* dispatchCallback: queue it and, unless a run holds the flag, submit one.
Dispatch(q, cb) ==
  /\ queue' = Append(q, cb)
  /\ flag' = TRUE
  /\ job' = IF flag THEN job ELSE "queued"

\* fail by a thread that holds callbacks: it also signals the end, unless
\* there is no subscriber or its onSubscribe is still running.
FailLocked ==
  /\ verdict' = "error"
  /\ UNCHANGED <<cancelled, finishing>>
  /\ IF sub = "done"
     THEN signalled' = TRUE /\ Dispatch(queue, "terminal")
     ELSE UNCHANGED <<signalled, queue, flag, job>>

\* grantAvailableCredit with demand d and p pending: STREAM_CREDIT is queued,
\* or the outgoing queue is full and the stream fails.
Grant(d, p) ==
  LET g == Grantable(d, p) IN
  /\ demand' = d
  /\ wire' = wire + g
  /\ pendingCb' = p + g
  /\ \/ up' = up + g /\ UNCHANGED <<ending, queue, flag, job>>
     \/ g > 0 /\ UNCHANGED up /\ FailLocked

\* cancelRemote: sendCancel, which does nothing on a closed client.
SendCancel == cancelUp' = (cancelUp \/ ~shut)

\* signalTerminal, outside onSubscribe.
SignalTerminal ==
  IF verdict = "none" \/ signalled \/ cancelled \/ sub = "none"
  THEN UNCHANGED <<signalled, queue, flag, job>>
  ELSE signalled' = TRUE /\ Dispatch(queue, "terminal")

-----------------------------------------------------------------------------
(* The subscriber                                                          *)

\* subscribe: the subscriber is set and its onSubscribe runs.
Subscribe ==
  /\ sub = "none"
  /\ sub' = "subscribing"
  /\ UNCHANGED <<demand, wire, pendingCb, ending, drainer, history, network, producer>>

\* onSubscribe returns: a stream that has ended meanwhile is signalled.
Subscribed ==
  /\ sub = "subscribing"
  /\ sub' = "done"
  /\ SignalTerminal
  /\ UNCHANGED <<demand, wire, pendingCb, verdict, cancelled, finishing, cur, late, shut,
                 history, network, producer>>

\* Mutant: the sum of two demands is not capped.
Request_NotCapped(n) ==
  /\ sub # "none" /\ verdict = "none"
  /\ Grant(demand + n, pendingCb)
  /\ UNCHANGED <<sub, cur, late, shut, history, cancelUp, items, tail, producer>>

\* Subscription.request(n), which saturates at Long.MAX_VALUE.
Request(n) ==
  /\ sub # "none" /\ verdict = "none"
  /\ Grant(Least(demand + n, MaxLong), pendingCb)
  /\ UNCHANGED <<sub, cur, late, shut, history, cancelUp, items, tail, producer>>

\* Subscription.request of a count that is not positive.
BadRequest ==
  /\ sub # "none" /\ verdict = "none"
  /\ FailLocked
  /\ SendCancel
  /\ UNCHANGED <<subscription, cur, late, shut, history, up, items, tail, producer>>

\* Subscription.cancel, close, or an onSubscribe that throws.
Cancel ==
  /\ verdict = "none"
  /\ Finish("error", TRUE)
  /\ SendCancel
  /\ UNCHANGED <<subscription, drainer, history, up, items, tail, producer>>

-----------------------------------------------------------------------------
(* Frames and events at the client                                         *)

\* Mutant: emit does not look at terminated.
ReceiveItem_NotTerminated ==
  /\ items > 0 /\ Unlocked
  /\ items' = items - 1
  /\ IF sub = "none" \/ demand = 0 \/ wire = 0
     THEN UNCHANGED <<demand, wire, queue, flag, job>>
     ELSE /\ wire' = wire - 1
          /\ demand' = IF demand = MaxLong THEN demand ELSE demand - 1
          /\ Dispatch(queue, "next")
  /\ UNCHANGED <<sub, pendingCb, ending, cur, late, shut, delivered, ended, up,
                 cancelUp, tail, producer>>

\* The reader takes a STREAM_ITEM: emit, when the stream is still registered.
ReceiveItem ==
  /\ items > 0 /\ Unlocked
  /\ items' = items - 1
  /\ IF verdict # "none"
     THEN UNCHANGED <<subscription, ending, queue, flag, job, cancelUp>>
     ELSE IF sub = "none" \/ demand = 0 \/ wire = 0
     THEN FailLocked /\ SendCancel /\ UNCHANGED subscription
     ELSE /\ wire' = wire - 1
          /\ demand' = IF demand = MaxLong THEN demand ELSE demand - 1
          /\ Dispatch(queue, "next")
          /\ UNCHANGED <<sub, pendingCb, ending, cancelUp>>
  /\ UNCHANGED <<cur, late, shut, delivered, ended, up, tail, producer>>

\* The reader takes STREAM_END or ERROR: complete or fail.
ReceiveTail ==
  /\ items = 0 /\ tail # "none" /\ verdict = "none"
  /\ Finish(tail, FALSE)
  /\ UNCHANGED <<subscription, drainer, history, network, producer>>

\* The stream's deadline task: CANCEL, then fail.
Deadline ==
  /\ verdict = "none"
  /\ SendCancel
  /\ Finish("error", FALSE)
  /\ UNCHANGED <<subscription, drainer, history, up, items, tail, producer>>

\* close or terminate: the connection is closed and callbackExecutor shut
\* down, which drops a drainCallbacks run it has not started.
Shutdown ==
  /\ ~shut
  /\ shut' = TRUE
  /\ job' = IF job = "queued" THEN "none" ELSE job
  /\ UNCHANGED <<subscription, ending, queue, flag, cur, late, history, network, producer>>

\* failAll, the next step of close and terminate.
FailAll ==
  /\ shut /\ verdict = "none"
  /\ Finish("error", FALSE)
  /\ UNCHANGED <<subscription, drainer, history, network, producer>>

\* The rest of finish: signalTerminal under callbacks.
FinishSignals ==
  /\ finishing /\ Unlocked
  /\ finishing' = FALSE
  /\ SignalTerminal
  /\ UNCHANGED <<subscription, verdict, cancelled, cur, late, shut, history, network,
                 producer>>

-----------------------------------------------------------------------------
(* drainCallbacks                                                          *)

\* An executor thread starts the run.
DrainStarts ==
  /\ job = "queued"
  /\ job' = "running"
  /\ UNCHANGED <<subscription, ending, queue, flag, cur, late, shut, history, network,
                 producer>>

\* poll: the next callback, or none and the loop ends.
Poll ==
  /\ job = "running" /\ cur = "none"
  /\ \/ /\ queue # <<>>
        /\ cur' = IF Head(queue) = "noop" THEN "none" ELSE Head(queue)
        /\ queue' = Tail(queue)
        /\ UNCHANGED job
     \/ /\ queue = <<>>
        /\ job' = "empty"
        /\ UNCHANGED <<cur, queue>>
  /\ UNCHANGED <<subscription, ending, flag, late, shut, history, network, producer>>

\* onNext returns.
OnNext ==
  /\ cur = "next"
  /\ cur' = "after"
  /\ delivered' = delivered + 1
  /\ UNCHANGED <<subscription, ending, queue, flag, job, late, shut,
                 ended, network, producer>>

\* onNext throws: fail, then cancelRemote.
OnNextThrows ==
  /\ cur = "next"
  /\ cur' = "after"
  /\ delivered' = delivered + 1
  /\ IF verdict = "none" THEN Finish("error", FALSE) ELSE UNCHANGED ending
  /\ SendCancel
  /\ UNCHANGED <<subscription, queue, flag, job, late, shut, ended, up,
                 items, tail, producer>>

\* The finally block of an onNext callback.
AfterNext ==
  /\ cur = "after" /\ Unlocked
  /\ cur' = "none"
  /\ Grant(demand, pendingCb - 1)
  /\ UNCHANGED <<sub, late, shut, delivered, ended, cancelUp, items, tail, producer>>

\* onComplete or onError.
OnTerminal ==
  /\ cur = "terminal"
  /\ cur' = "none"
  /\ ended' = verdict
  /\ UNCHANGED <<subscription, ending, queue, flag, job, late, shut,
                 delivered, network, producer>>

\* Mutant: the run ends without looking at the queue again.
DrainClears_NoRecheck ==
  /\ job = "empty"
  /\ job' = "none"
  /\ flag' = FALSE
  /\ UNCHANGED <<subscription, ending, queue, cur, late, shut, history, network, producer>>

\* drainingCallbacks.set(false)
DrainClears ==
  /\ job = "empty"
  /\ job' = "none"
  /\ flag' = FALSE
  /\ late' = late + 1
  /\ UNCHANGED <<subscription, ending, queue, cur, shut, history, network, producer>>

\* The last look at the queue, which may submit another run.
DrainRechecks ==
  /\ late > 0
  /\ late' = late - 1
  /\ IF queue = <<>> THEN UNCHANGED <<queue, flag, job>> ELSE Dispatch(queue, "noop")
  /\ UNCHANGED <<subscription, ending, cur, shut, history, network, producer>>

-----------------------------------------------------------------------------
(* The connection loop and the request task of the server                  *)

\* STREAM_CREDIT: permits are added when the request is still active.
CreditArrives(n) ==
  /\ up' = up - n
  /\ credits' = IF srv = "gone" THEN credits ELSE credits + n
  /\ UNCHANGED <<subscription, ending, drainer, history, cancelUp, items, tail, srv, made>>

\* CANCEL, or the end of the connection: the task is aborted.
Abort ==
  /\ srv # "gone" /\ (cancelUp \/ shut)
  /\ srv' = "gone"
  /\ UNCHANGED <<subscription, ending, drainer, history, network, credits, made>>

\* Only the first terminal frame of a stream finds it registered.
SendTail(v) == tail' = IF tail = "none" THEN v ELSE tail

\* stream.next() yields an item.
Yield ==
  /\ srv = "next" /\ made < Items
  /\ made' = made + 1
  /\ srv' = "item"
  /\ UNCHANGED <<subscription, ending, drainer, history, network, credits>>

\* stream.next() yields none: STREAM_END.
StreamEnds ==
  /\ srv = "next" /\ made = Items
  /\ srv' = "gone"
  /\ SendTail("end")
  /\ UNCHANGED <<subscription, ending, drainer, history, up, cancelUp, items, credits, made>>

\* Mutant: a stream that is cut short ends like one that is complete.
StreamFails_AsEnd ==
  /\ srv \in {"next", "item"}
  /\ srv' = "gone"
  /\ SendTail("end")
  /\ UNCHANGED <<subscription, ending, drainer, history, up, cancelUp, items, credits, made>>

\* The request is refused, its handler or an item fails, an item is too long,
\* or the deadline passes while the task waits: ERROR.
StreamFails ==
  /\ srv \in {"next", "item"}
  /\ srv' = "gone"
  /\ SendTail("error")
  /\ UNCHANGED <<subscription, ending, drainer, history, up, cancelUp, items, credits, made>>

\* Mutant: the permit goes back to the semaphore when the item is sent.
TakeCredit_NotForgotten ==
  /\ srv = "item" /\ credits > 0
  /\ srv' = "send"
  /\ UNCHANGED <<subscription, ending, drainer, history, network, credits, made>>

\* credits.acquire() and permit.forget()
TakeCredit ==
  /\ srv = "item" /\ credits > 0
  /\ srv' = "send"
  /\ credits' = credits - 1
  /\ UNCHANGED <<subscription, ending, drainer, history, network, made>>

\* responses.send of the STREAM_ITEM.
SendItem ==
  /\ srv = "send"
  /\ srv' = "next"
  /\ items' = IF tail = "none" THEN items + 1 ELSE items
  /\ UNCHANGED <<subscription, ending, drainer, history, up, cancelUp, tail, credits, made>>

\* responses.send finds the byte budget exhausted: it queues ERROR in the
\* item's place and returns Ok, so the task goes on.
SendRejected ==
  /\ srv = "send"
  /\ srv' = "next"
  /\ SendTail("error")
  /\ UNCHANGED <<subscription, ending, drainer, history, up, cancelUp, items, credits, made>>

-----------------------------------------------------------------------------
Next ==
  \/ Subscribe \/ Subscribed \/ BadRequest \/ Cancel
  \/ \E n \in Counts : Request(n)
  \/ ReceiveItem \/ ReceiveTail \/ Deadline \/ Shutdown \/ FailAll \/ FinishSignals
  \/ DrainStarts \/ Poll \/ OnNext \/ OnNextThrows \/ AfterNext \/ OnTerminal
  \/ DrainClears \/ DrainRechecks
  \/ \E n \in 1..up : CreditArrives(n)
  \/ Abort \/ Yield \/ StreamEnds \/ StreamFails \/ TakeCredit \/ SendItem \/ SendRejected

Spec == Init /\ [][Next]_vars

\* Threads that are running get to run: the subscribing thread and its
\* onNext return, the reader and the thread in finish or failAll go on, an
\* executor runs what it was given, frames arrive, and the task is polled.
Fairness ==
  /\ WF_vars(Subscribed) /\ WF_vars(ReceiveItem) /\ WF_vars(ReceiveTail)
  /\ WF_vars(FailAll) /\ WF_vars(FinishSignals)
  /\ WF_vars(DrainStarts) /\ WF_vars(Poll) /\ WF_vars(OnNext \/ OnNextThrows)
  /\ WF_vars(AfterNext) /\ WF_vars(OnTerminal) /\ WF_vars(DrainClears)
  /\ WF_vars(DrainRechecks) /\ WF_vars(\E n \in 1..up : CreditArrives(n))
  /\ WF_vars(Abort) /\ WF_vars(Yield) /\ WF_vars(StreamEnds) /\ WF_vars(TakeCredit)
  /\ WF_vars(SendItem \/ SendRejected)

FairSpec == Spec /\ Fairness
-----------------------------------------------------------------------------
(* Properties                                                              *)

\* The item the task holds a credit for.
InHand == IF srv = "send" THEN 1 ELSE 0

\* Every credit the client counts in outstandingWireCredit is in exactly one
\* place: on its way, in the semaphore, taken for the item in hand, or used
\* by an item on its way.  No credit is lost, which would stall the stream,
\* and none is counted twice.
CreditConserved ==
  verdict = "none" /\ tail = "none" /\ srv # "gone"
    => wire = up + credits + InHand + items

\* The check that ends a stream with "server sent a stream item without
\* delivery credit" never fires on this server: every item on its way to an
\* open stream has a subscriber, a wire credit and demand waiting for it.
ItemsCovered ==
  verdict = "none" /\ items > 0 => sub # "none" /\ items <= wire /\ wire <= demand

\* The onNext callbacks in a callback queue.
Waiting(q) == Cardinality({i \in DOMAIN q : q[i] = "next"})

\* The onNext callback that has not ended yet.
InCallback == IF cur \in {"next", "after"} THEN 1 ELSE 0

\* pendingCallbacks counts exactly the credit not used yet, the callbacks
\* queued and the one running, and MAX_PENDING_CALLBACKS bounds them all,
\* whatever the demand: a slow subscriber never makes the queue grow past it.
BacklogBounded ==
  /\ pendingCb = wire + Waiting(queue) + InCallback
  /\ pendingCb <= MaxPending

\* onComplete means that every item of the handler's stream was delivered
\* before it: none is dropped by the budget, the wire or the callback queue.
CompleteMeansAll == ended = "end" => delivered = Items

\* The subscriber gets one terminal signal and no onNext after it, although
\* items, deadline, cancellation and disconnect come from different threads.
NothingAfterTerminal == [][ended # "none" => UNCHANGED <<ended, delivered>>]_vars

\* A subscriber that has asked for every item, or whose stream has ended, is
\* told how it ended: neither the credit loop nor the callback drain stalls.
\* It may have cancelled, and the client may have been closed.
SubscriberTold ==
  (sub = "done" /\ (verdict # "none" \/ demand + delivered >= Items))
    ~> (ended # "none" \/ cancelled \/ shut)

\* docs/java-sdk.md: "Cancellation, the configured deadline, connection loss,
\* and remote errors terminate the publisher."  The code breaks it when the
\* client closes: shutdownNow drops a submitted drainCallbacks run, the flag
\* stays set, and the onError that failAll queues is never run.
LossTerminates ==
  (sub = "done" /\ verdict # "none") ~> (ended # "none" \/ cancelled)

\* docs/protocol.md: "ERROR, CANCEL, a deadline, or a disconnect terminates
\* the stream."  The code goes on after the ERROR that replaces an item.
ErrorEndsStream == tail = "error" => srv = "gone"
=============================================================================
