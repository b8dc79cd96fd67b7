-------------------------- MODULE IdempotencyCache --------------------------
(***************************************************************************)
(* The process-local idempotency cache of the server runtime               *)
(* (crates/moonlight-bridge-server/src/idempotency.rs).                    *)
(*                                                                         *)
(* A call of execute(key, operation) either shares the entry its key       *)
(* already has or creates one and spawns a worker that runs the operation  *)
(* independently of the call.  An entry is an Arc that outlives its slot   *)
(* in the map, so it is identified here with the call that created it:     *)
(* entries[k] is the creator of the entry under key k, and result[c] is    *)
(* the OnceCell of the entry that call c created.                          *)
(*                                                                         *)
(* Everything execute does under the state lock is one step, and so is     *)
(* everything the worker does under it.  The waiting loop is split where   *)
(* a completion may fall between two of its statements.                    *)
(***************************************************************************)
EXTENDS Integers, Sequences, FiniteSets

CONSTANTS Keys,      \* operation identifiers
          Calls,     \* calls of execute, each made once
          Capacity,  \* IdempotencyCache::capacity
          Ttl,       \* IdempotencyCache::ttl, in clock ticks
          MaxTime,   \* bound on the clock
          Determinate, \* what an operation may return, Ok and Err alike
          Nil        \* no entry

ASSUME CapacityPositive == Capacity \in Nat \ {0}
ASSUME TtlPositive == Ttl \in Nat \ {0}
ASSUME TimeBound == MaxTime \in Nat
ASSUME NilIsNoCall == Nil \notin Calls
ASSUME DeterminateResults ==
  Determinate \cap {"none", "running", "indeterminate"} = {}

VARIABLES
  entries,    \* CacheState::entries: the creator of each key's entry, or Nil
  completed,  \* CacheState::completed: keys in completion order
  result,     \* Entry::result of the entry each call created
  doneAt,     \* the Instant stored with that result
  key,        \* the key each call passes to execute
  entry,      \* the entry a call holds while it waits
  pc,         \* where in execute a call is
  notified,   \* whether the call's Notified future has been woken
  now         \* Instant::now()

vars == <<entries, completed, result, doneAt, key, entry, pc, notified, now>>

Outcome == Determinate \cup {"indeterminate"}
ResultState == {"none", "running"} \cup Outcome
CallState == {"idle", "register", "check", "sleep",
              "returned", "overloaded", "cancelled"}

TypeOK ==
  /\ entries \in [Keys -> Calls \cup {Nil}]
  /\ completed \in Seq(Keys)
  /\ result \in [Calls -> ResultState]
  /\ doneAt \in [Calls -> Nat]
  /\ key \in [Calls -> Keys]
  /\ entry \in [Calls -> Calls \cup {Nil}]
  /\ pc \in [Calls -> CallState]
  /\ notified \in [Calls -> BOOLEAN]
  /\ now \in Nat

Init ==
  /\ entries = [k \in Keys |-> Nil]
  /\ completed = <<>>
  /\ result = [c \in Calls |-> "none"]
  /\ doneAt = [c \in Calls |-> 0]
  /\ key \in [Calls -> Keys]
  /\ entry = [c \in Calls |-> Nil]
  /\ pc = [c \in Calls |-> "idle"]
  /\ notified = [c \in Calls |-> FALSE]
  /\ now = 0

-----------------------------------------------------------------------------
\* The keys that have a slot in the map: state.entries.
Cached == {k \in Keys : entries[k] # Nil}

\* Mutant: is_some_and instead of is_none_or, so that a pending entry expires.
Live_PendingExpires(w) ==
  \/ result[w] = "indeterminate"
  \/ result[w] \in Determinate /\ now - doneAt[w] < Ttl

\* Mutant: an indeterminate entry expires like any other.
Live_IndeterminateExpires(w) ==
  \/ result[w] \notin Determinate \cup {"indeterminate"}
  \/ now - doneAt[w] < Ttl

\* entry.result.get().is_none_or(...): an unfinished or indeterminate entry
\* is live for ever, a determinate one until ttl after its completion.
Live(w) ==
  \/ result[w] \notin Determinate
  \/ now - doneAt[w] < Ttl

\* How many keys a pop_front loop over `completed` removes when it stops at
\* the first key of S, or runs dry.
PopCount(S) ==
  LET hits == {i \in DOMAIN completed : completed[i] \in S}
  IN  IF hits = {} THEN Len(completed)
      ELSE CHOOSE i \in hits : \A j \in hits : i <= j

Popped(n) == {completed[i] : i \in 1..n}

\* state.entries after the first n completed keys were removed and call c
\* inserted its own fresh entry.
Replaced(c, n) ==
  [k \in Keys |-> IF k = key[c] THEN c
                  ELSE IF k \in Popped(n) THEN Nil ELSE entries[k]]

\* The end of the locked section for a call that creates an entry, and the
\* spawn of its worker.
Start(c, n) ==
  /\ completed' = SubSeq(completed, n + 1, Len(completed))
  /\ entries' = Replaced(c, n)
  /\ entry' = [entry EXCEPT ![c] = c]
  /\ result' = [result EXCEPT ![c] = "running"]
  /\ pc' = [pc EXCEPT ![c] = "register"]
  /\ UNCHANGED <<doneAt, key, notified, now>>

-----------------------------------------------------------------------------
\* A live entry is shared.
Hit(c) ==
  /\ pc[c] = "idle"
  /\ key[c] \in Cached
  /\ Live(entries[key[c]])
  /\ entry' = [entry EXCEPT ![c] = entries[key[c]]]
  /\ pc' = [pc EXCEPT ![c] = "register"]
  /\ UNCHANGED <<entries, completed, result, doneAt, key, notified, now>>

\* Mutant: the pop_front loop misses its break.
Renew_NoBreak(c) ==
  /\ pc[c] = "idle"
  /\ key[c] \in Cached
  /\ ~Live(entries[key[c]])
  /\ Start(c, Len(completed))

\* An expired entry is replaced, and every entry completed before it goes.
Renew(c) ==
  /\ pc[c] = "idle"
  /\ key[c] \in Cached
  /\ ~Live(entries[key[c]])
  /\ Start(c, PopCount({key[c]}))

\* Mutant: len() > capacity instead of len() >= capacity.
Admit_OffByOne(c) ==
  /\ pc[c] = "idle"
  /\ key[c] \notin Cached
  /\ Cardinality(Cached) <= Capacity
  /\ Start(c, 0)

\* A miss with a free slot.
Admit(c) ==
  /\ pc[c] = "idle"
  /\ key[c] \notin Cached
  /\ Cardinality(Cached) < Capacity
  /\ Start(c, 0)

\* A miss with every slot taken: the oldest completed entry is evicted.
Evict(c) ==
  /\ pc[c] = "idle"
  /\ key[c] \notin Cached
  /\ Cardinality(Cached) >= Capacity
  /\ \E i \in DOMAIN completed : completed[i] \in Cached
  /\ Start(c, PopCount(Cached))

\* Mutant: a full cache rejects without trying to evict.
Overload_NoEviction(c) ==
  /\ pc[c] = "idle"
  /\ key[c] \notin Cached
  /\ Cardinality(Cached) >= Capacity
  /\ pc' = [pc EXCEPT ![c] = "overloaded"]
  /\ UNCHANGED <<entries, completed, result, doneAt, key, entry, notified, now>>

\* A miss with every slot taken and nothing to evict.
Overload(c) ==
  /\ pc[c] = "idle"
  /\ key[c] \notin Cached
  /\ Cardinality(Cached) >= Capacity
  /\ \A i \in DOMAIN completed : completed[i] \notin Cached
  /\ completed' = <<>>
  /\ pc' = [pc EXCEPT ![c] = "overloaded"]
  /\ UNCHANGED <<entries, result, doneAt, key, entry, notified, now>>

\* The effect of a completion, with the stored instant, the new queue and the
\* waiters that are woken left open.
CompleteWith(w, r, at, queue, woken) ==
  /\ result[w] = "running"
  /\ result' = [result EXCEPT ![w] = r]
  /\ doneAt' = [doneAt EXCEPT ![w] = at]
  /\ completed' = queue
  /\ notified' = [c \in Calls |-> notified[c] \/ c \in woken]
  /\ UNCHANGED <<entries, key, entry, pc, now>>

Queued(w, r) == IF r \in Determinate THEN Append(completed, key[w]) ELSE completed

\* The calls whose Notified future is registered with the entry of w.
Registered(w) == {c \in Calls : entry[c] = w /\ pc[c] \in {"check", "sleep"}}

\* Mutant: the stored instant is moved back by the ttl.
Complete_Backdated(w, r) ==
  CompleteWith(w, r, now - Ttl, Queued(w, r), Registered(w))

\* Mutant: an indeterminate key is queued like any other.
Complete_QueuesIndeterminate(w, r) ==
  CompleteWith(w, r, now, Append(completed, key[w]), Registered(w))

\* Mutant: push_front instead of push_back.
Complete_PushFront(w, r) ==
  CompleteWith(w, r, now,
               IF r \in Determinate THEN <<key[w]>> \o completed ELSE completed,
               Registered(w))

\* Mutant: notify_one instead of notify_waiters.
Complete_NotifyOne(w, r) ==
  CompleteWith(w, r, now, Queued(w, r),
               IF Registered(w) = {} THEN {} ELSE {CHOOSE c \in Registered(w) : TRUE})

\* The worker's operation resolved or panicked; under the lock it stores the
\* result, queues a determinate key for expiry and wakes the waiters that
\* have registered.  Waiters read the result without the lock, but one that
\* does so between set and notify_waiters returns, woken or not.
Complete(w, r) ==
  CompleteWith(w, r, now, Queued(w, r), Registered(w))

\* entry.ready.notified() followed by enable(): from here on a completion
\* wakes this waiter.
Register(c) ==
  /\ pc[c] = "register"
  /\ notified' = [notified EXCEPT ![c] = FALSE]
  /\ pc' = [pc EXCEPT ![c] = "check"]
  /\ UNCHANGED <<entries, completed, result, doneAt, key, entry, now>>

\* entry.result.get(): return what is there, otherwise await.
Check(c) ==
  /\ pc[c] = "check"
  /\ pc' = [pc EXCEPT ![c] = IF result[entry[c]] \in Outcome
                             THEN "returned" ELSE "sleep"]
  /\ UNCHANGED <<entries, completed, result, doneAt, key, entry, notified, now>>

\* notified.await resolves and the loop starts over.
Wake(c) ==
  /\ pc[c] = "sleep"
  /\ notified[c]
  /\ pc' = [pc EXCEPT ![c] = "register"]
  /\ UNCHANGED <<entries, completed, result, doneAt, key, entry, notified, now>>

\* The caller drops the future at its await point: a deadline, a CANCEL or a
\* disconnect.  The worker is not touched.
CancelWaiter(c) ==
  /\ pc[c] = "sleep"
  /\ pc' = [pc EXCEPT ![c] = "cancelled"]
  /\ UNCHANGED <<entries, completed, result, doneAt, key, entry, notified, now>>

Tick ==
  /\ now < MaxTime
  /\ now' = now + 1
  /\ UNCHANGED <<entries, completed, result, doneAt, key, entry, pc, notified>>

Next ==
  \/ \E c \in Calls :
       \/ Hit(c) \/ Renew(c) \/ Admit(c) \/ Evict(c) \/ Overload(c)
       \/ Register(c) \/ Check(c) \/ Wake(c) \/ CancelWaiter(c)
       \/ \E r \in Outcome : Complete(c, r)
  \/ Tick

\* The runtime polls a woken waiter and a finished worker, and operations
\* terminate; nobody has to call execute, cancel a call or advance the clock.
Fairness ==
  \A c \in Calls :
    /\ WF_vars(Register(c) \/ Check(c) \/ Wake(c))
    /\ WF_vars(\E r \in Outcome : Complete(c, r))

Spec == Init /\ [][Next]_vars
FairSpec == Spec /\ Fairness

-----------------------------------------------------------------------------
\* "A strictly bounded process-local cache": the map never holds more than
\* `capacity` entries, whatever mix of hits, renewals, admissions and
\* evictions led there.
CacheBounded == Cardinality(Cached) <= Capacity

\* The expiry queue lists exactly the entries that have a determinate result,
\* each once: execute pops keys from it blindly and would otherwise drop a
\* pending entry, or never find the one it is after.
CompletedExact ==
  /\ \A i, j \in DOMAIN completed : completed[i] = completed[j] => i = j
  /\ \A k \in Keys :
       (\E i \in DOMAIN completed : completed[i] = k)
         <=> (entries[k] # Nil /\ result[entries[k]] \in Determinate)

\* The expiry queue is in completion order, so what execute pops on the way to
\* an expired key has expired as well.
CompletionOrdered ==
  \A i, j \in DOMAIN completed :
    i <= j => doneAt[entries[completed[i]]] <= doneAt[entries[completed[j]]]

\* Two runs of one key's operation never overlap.
OneRunPerKey ==
  \A v, w \in Calls :
    result[v] = "running" /\ result[w] = "running" /\ key[v] = key[w] => v = w

\* A determinate result that has not reached its ttl is dropped only to make
\* room in a full cache, alone, and as the oldest of the completed ones.
DroppedLive(k) ==
  /\ entries[k] # Nil
  /\ entries'[k] # entries[k]
  /\ Live(entries[k])
EarlyDropOnlyUnderPressure ==
  [][\A k \in Keys : DroppedLive(k) =>
       /\ Cardinality(Cached) >= Capacity
       /\ completed # <<>> /\ k = Head(completed)
       /\ \A q \in Cached \ {k} : entries'[q] = entries[q]]_vars

\* "All cache slots are occupied by pending or indeterminate operations": the
\* meaning of the Overloaded error.
OverloadedOnlyWhenPinned ==
  [][\A c \in Calls : pc[c] # "overloaded" /\ pc'[c] = "overloaded" =>
       /\ Cardinality(Cached) >= Capacity
       /\ \A k \in Cached : result[entries[k]] \notin Determinate]_vars

\* A call that waits is answered once its operation ends, unless it is
\* cancelled: the completion between its check and its await is not lost.
WaiterServed ==
  \A c \in Calls : pc[c] = "sleep" ~> pc[c] \in {"returned", "cancelled"}

-----------------------------------------------------------------------------
\* The promise the cache implements.
Promise == INSTANCE SingleFlight WITH
  status <- [k \in Keys |-> IF entries[k] = Nil THEN "absent"
                            ELSE result[entries[k]]],
  outcomes <- [k \in Keys |->
                {result[w] : w \in {c \in Calls : key[c] = k /\ result[c] \in Outcome}}],
  answer <- [c \in Calls |-> IF pc[c] = "returned" THEN result[entry[c]]
                             ELSE "none"]

\* The cache implements SingleFlight: no key runs twice at once, an
\* indeterminate run is pinned for ever, a cancelled waiter leaves the
\* operation running, and each answer is an outcome of the caller's own key.
ImplementsSingleFlight == Promise!Spec
=============================================================================
