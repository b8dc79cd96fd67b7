------------------------- MODULE StreamCreditProofs -------------------------
(***************************************************************************)
(* Proofs that one stream keeps its credit, backlog and signals straight   *)
(* for every number of items, every pattern of demand and every limit.     *)
(***************************************************************************)
EXTENDS StreamCredit, FunctionTheorems, FiniteSetTheorems, SequenceTheorems, TLAPS

\* The Boolean part of the type invariant, and the rest of it.
Flags ==
  /\ cancelled \in BOOLEAN /\ finishing \in BOOLEAN /\ signalled \in BOOLEAN
  /\ flag \in BOOLEAN /\ shut \in BOOLEAN /\ cancelUp \in BOOLEAN
Sorts ==
  /\ sub \in {"none", "subscribing", "done"}
  /\ demand \in 0..MaxLong /\ wire \in Nat /\ pendingCb \in Nat
  /\ verdict \in Verdict /\ queue \in Seq(Callback)
  /\ job \in {"none", "queued", "running", "empty"}
  /\ cur \in {"none", "next", "after", "terminal"} /\ late \in Nat
  /\ delivered \in Nat /\ ended \in Verdict
  /\ up \in Nat /\ items \in Nat /\ tail \in Verdict
  /\ srv \in {"next", "item", "send", "gone"} /\ credits \in Nat /\ made \in 0..Items

\* The credit the server may still use never exceeds what the client counts.
Funded == verdict = "none" => up + credits + InHand + items <= wire

\* Credit is only granted for demand, and demand only comes from a subscriber.
Demanded == wire <= demand /\ (sub = "none" => demand = 0)

\* The item between stream.next() and responses.send.
Held == IF srv \in {"item", "send"} THEN 1 ELSE 0

\* Items that reached the client: delivered, being delivered or queued.
Arrived == delivered + Waiting(queue) + (IF cur = "next" THEN 1 ELSE 0)

\* No item is lost between the handler's stream and onNext while neither
\* side has failed, and a stream that completed has all of them.
Tallied ==
  /\ tail = "end" => made = Items /\ srv = "gone"
  /\ verdict = "none" /\ (tail = "end" \/ (tail = "none" /\ srv # "gone"))
       => Arrived + items + Held = made
  /\ verdict = "end" => tail = "end" /\ Arrived = Items

\* No signal is queued behind the terminal one, or left once it is out.
Spent(q) == \A i \in DOMAIN q : q[i] = "noop"
Ordered ==
  /\ signalled => verdict # "none"
  /\ ~signalled => /\ \A i \in DOMAIN queue : queue[i] # "terminal"
                   /\ cur # "terminal" /\ ended = "none"
  /\ \A i, j \in DOMAIN queue : i < j /\ queue[i] = "terminal" => queue[j] = "noop"
  /\ cur = "terminal" => Spent(queue)
  /\ ended # "none" => Spent(queue) /\ cur = "none"

IInv ==
  /\ Flags
  /\ Sorts
  /\ Funded
  /\ CreditConserved
  /\ Demanded
  /\ BacklogBounded
  /\ Tallied
  /\ Ordered
  /\ CompleteMeansAll

-----------------------------------------------------------------------------
(* Counting the onNext callbacks of a queue                                *)

\* The count is a natural number.
LEMMA WaitingNat ==
  ASSUME NEW q \in Seq(Callback)
  PROVE  /\ Waiting(q) \in Nat
         /\ IsFiniteSet({i \in DOMAIN q : q[i] = "next"})
<1>1. IsFiniteSet(1..Len(q))
  BY FS_Interval
<1>2. {i \in DOMAIN q : q[i] = "next"} \subseteq 1..Len(q)
  OBVIOUS
<1>3. QED
  BY <1>1, <1>2, FS_Subset, FS_CardinalityType, Zenon DEF Waiting

\* It is 0 when no callback of the queue is an onNext.
LEMMA WaitingNone ==
  ASSUME NEW q \in Seq(Callback), \A i \in DOMAIN q : q[i] # "next"
  PROVE  Waiting(q) = 0
<1> USE Zenon
<1>1. {i \in DOMAIN q : q[i] = "next"} = {}
  OBVIOUS
<1>2. QED
  BY <1>1, FS_EmptySet DEF Waiting

\* Dispatching a callback adds one when it is an onNext.
LEMMA WaitingAppend ==
  ASSUME NEW q \in Seq(Callback), NEW cb \in Callback
  PROVE  Waiting(Append(q, cb)) = Waiting(q) + (IF cb = "next" THEN 1 ELSE 0)
<1> USE Zenon
<1> DEFINE S == {i \in DOMAIN q : q[i] = "next"}
           T == {i \in DOMAIN Append(q, cb) : Append(q, cb)[i] = "next"}
           e == Len(q) + 1
<1>1. IsFiniteSet(S)
  BY WaitingNat
<1>2. e \notin S
  BY SMTT(30)
<1>w. Waiting(q) = Cardinality(S) /\ Waiting(Append(q, cb)) = Cardinality(T)
  BY DEF Waiting
<1>3. CASE cb = "next"
  <2>1. T = S \cup {e}
    BY <1>3, SMTT(30)
  <2>2. Cardinality(S \cup {e}) = Cardinality(S) + 1
    BY <1>1, <1>2, FS_AddElement
  <2>3. QED
    <3> HIDE DEF S, T, e
    <3> QED BY <2>1, <2>2, <1>3, <1>w
<1>4. CASE cb # "next"
  <2>1. T = S
    BY <1>4, SMTT(30)
  <2>2. Cardinality(S) \in Nat
    BY WaitingNat DEF Waiting
  <2>3. QED
    <3> HIDE DEF S, T, e
    <3> QED BY <2>1, <2>2, <1>4, <1>w, SMTT(30)
<1>5. QED
  BY <1>3, <1>4

\* Polling a callback takes one away when it is an onNext.
LEMMA WaitingTail ==
  ASSUME NEW q \in Seq(Callback), q # <<>>
  PROVE  Waiting(q) = Waiting(Tail(q)) + (IF Head(q) = "next" THEN 1 ELSE 0)
<1> USE Zenon
<1> DEFINE S == {i \in DOMAIN q : q[i] = "next"}
           R == S \ {1}
           T == {i \in DOMAIN Tail(q) : Tail(q)[i] = "next"}
           f == [i \in T |-> i + 1]
<1>0. Len(q) \in Nat \ {0} /\ DOMAIN q = 1..Len(q) /\ DOMAIN Tail(q) = 1..(Len(q) - 1)
  BY SMTT(30)
<1>1. Tail(q) \in Seq(Callback) /\ \A i \in 1..(Len(q) - 1) : Tail(q)[i] = q[i + 1]
  BY SMTT(30)
<1>2. IsFiniteSet(S) /\ IsFiniteSet(T)
  BY <1>1, WaitingNat
<1>3. f \in Bijection(T, R)
  <2> USE SMTT(30)
  <2>1. f \in [T -> R]
    BY <1>0, <1>1
  <2>2. \A i, j \in T : f[i] = f[j] => i = j
    BY <1>0
  <2>3. \A r \in R : \E i \in T : f[i] = r
    <3>1. SUFFICES ASSUME NEW r \in R PROVE r - 1 \in T /\ f[r - 1] = r
      BY Zenon
    <3>2. r \in 2..Len(q) /\ q[r] = "next"
      BY <1>0
    <3>3. r - 1 \in 1..(Len(q) - 1) /\ Tail(q)[r - 1] = q[r]
      BY <3>2, <1>0, <1>1
    <3>4. QED
      BY <3>2, <3>3, <1>0
  <2>4. QED
    BY <2>1, <2>2, <2>3, Fun_IsBij, Zenon
<1>4. Cardinality(T) = Cardinality(R)
  <2> HIDE DEF S, R, T, f
  <2>1. ExistsBijection(T, R)
    BY <1>3 DEF ExistsBijection
  <2>2. QED
    BY <1>2, <2>1, FS_Bijection
<1>w. Waiting(q) = Cardinality(S) /\ Waiting(Tail(q)) = Cardinality(T)
  BY DEF Waiting
<1>5. CASE Head(q) = "next"
  <2>1. 1 \in S
    BY <1>5, <1>0, SMTT(30)
  <2>2. Cardinality(R) = Cardinality(S) - 1
    BY <2>1, <1>2, FS_RemoveElement
  <2>3. Cardinality(S) \in Nat
    BY <1>2, FS_CardinalityType
  <2>4. QED
    <3> HIDE DEF S, R, T, f
    <3> QED BY <2>2, <2>3, <1>4, <1>5, <1>w, SMTT(30)
<1>6. CASE Head(q) # "next"
  <2>1. R = S
    BY <1>6, <1>0, SMTT(30)
  <2>2. Cardinality(S) \in Nat
    BY <1>2, FS_CardinalityType
  <2>3. QED
    <3> HIDE DEF S, R, T, f
    <3> QED BY <2>1, <2>2, <1>4, <1>6, <1>w, SMTT(30)
<1>7. QED
  BY <1>5, <1>6

-----------------------------------------------------------------------------
(* The invariant is inductive                                              *)

\* Together they are the type invariant.
LEMMA TypeParts == TypeOK <=> Flags /\ Sorts
BY Zenon DEF TypeOK, Flags, Sorts

\* What grantAvailableCredit grants fits the demand and the callback limit.
LEMMA GrantFits ==
  ASSUME Sorts, NEW d \in Nat, NEW p \in Int, p <= MaxPending, wire <= d
  PROVE  /\ Grantable(d, p) \in Nat
         /\ wire + Grantable(d, p) <= d
         /\ p + Grantable(d, p) <= MaxPending
         /\ verdict # "none" => Grantable(d, p) = 0
BY LimitsType DEF Sorts, Grantable, Least

\* The invariant holds initially.
LEMMA InitIInv == Init => IInv
<1> USE Zenon
<1> SUFFICES ASSUME Init PROVE IInv
  OBVIOUS
<1>1. queue = <<>> /\ queue \in Seq(Callback) /\ DOMAIN queue = {}
  BY SMTT(30) DEF Init
<1>2. Waiting(queue) = 0
  BY <1>1, WaitingNone
<1>3. Flags
  BY DEF Init, Flags
<1>4. Sorts
  BY <1>1, ItemsType, LimitsType, SMTT(30) DEF Init, Sorts, Verdict
<1>5. QED
  BY <1>1, <1>2, <1>3, <1>4, ItemsType, LimitsType, SMTT(30) DEF Init, IInv, Funded,
     CreditConserved, InHand, Demanded, BacklogBounded, InCallback, Tallied, Arrived, Held,
     Ordered, Spent, CompleteMeansAll

\* A step of the server or of the wire cannot disturb what only concerns the
\* client's counters, callbacks and signals.
LEMMA ClientIdle ==
  ASSUME Demanded, BacklogBounded, Ordered, CompleteMeansAll,
         UNCHANGED <<sub, demand, wire, pendingCb, verdict, signalled, queue, cur,
                     delivered, ended>>
  PROVE  /\ Demanded' /\ BacklogBounded' /\ Ordered' /\ CompleteMeansAll'
         /\ Arrived' = Arrived
<1> USE Zenon
<1>1. Demanded' /\ CompleteMeansAll'
  BY DEF Demanded, CompleteMeansAll
<1>2. BacklogBounded'
  BY DEF BacklogBounded, InCallback
<1>3. Ordered'
  BY DEF Ordered, Spent
<1>4. Arrived' = Arrived
  BY DEF Arrived
<1>5. QED
  BY <1>1, <1>2, <1>3, <1>4

\* Queueing the terminal signal leaves it the last one and counts no item.
LEMMA TerminalQueued ==
  ASSUME Sorts, Ordered, ~signalled, signalled' = TRUE, verdict' # "none",
         queue' = Append(queue, "terminal"), cur' # "terminal", ended' = ended
  PROVE  Ordered' /\ Waiting(queue') = Waiting(queue) /\ queue' \in Seq(Callback)
<1> USE Zenon
<1> DEFINE L == Len(queue)
<1>1. queue \in Seq(Callback) /\ "terminal" \in Callback
  BY DEF Sorts, Callback
<1>2. Waiting(queue') = Waiting(queue)
  <2>1. Waiting(queue) \in Nat
    BY <1>1, WaitingNat
  <2>2. Waiting(Append(queue, "terminal")) = Waiting(queue) + 0
    BY <1>1, WaitingAppend
  <2>3. QED
    BY <2>1, <2>2, SMTT(30)
<1>3. ended = "none" /\ \A i \in DOMAIN queue : queue[i] # "terminal"
  BY DEF Ordered
<1>4. /\ L \in Nat /\ DOMAIN queue = 1..L /\ DOMAIN queue' = 1..(L + 1)
      /\ \A i \in 1..L : queue'[i] = queue[i]
      /\ queue' \in Seq(Callback)
  BY <1>1, SMTT(30)
<1> HIDE DEF L
<1>5. \A i, j \in DOMAIN queue' : i < j => i \in 1..L
  BY <1>4, SMTT(30)
<1>6. \A i, j \in DOMAIN queue' : i < j /\ queue'[i] = "terminal" => queue'[j] = "noop"
  BY <1>3, <1>4, <1>5
<1>7. Ordered'
  BY <1>3, <1>6 DEF Ordered
<1>8. QED
  BY <1>2, <1>4, <1>7

\* signalTerminal, whether or not it has something to signal.
LEMMA SignalKeeps ==
  ASSUME Sorts, Ordered, SignalTerminal, UNCHANGED <<verdict, cur, ended>>
  PROVE  /\ Ordered' /\ Waiting(queue') = Waiting(queue) /\ queue' \in Seq(Callback)
         /\ job' \in {"none", "queued", "running", "empty"}
<1> USE Zenon
<1>1. CASE UNCHANGED <<signalled, queue, flag, job>>
  <2>1. Ordered'
    BY <1>1 DEF Ordered, Spent
  <2>2. QED
    BY <1>1, <2>1 DEF Sorts
<1>2. CASE /\ verdict # "none" /\ ~signalled /\ signalled' = TRUE
           /\ Dispatch(queue, "terminal")
  <2>1. cur' # "terminal" /\ queue' = Append(queue, "terminal")
    BY <1>2 DEF Ordered, Dispatch
  <2>2. Ordered' /\ Waiting(queue') = Waiting(queue) /\ queue' \in Seq(Callback)
    BY <1>2, <2>1, TerminalQueued
  <2>3. job' \in {"none", "queued", "running", "empty"}
    BY <1>2 DEF Dispatch, Sorts
  <2>4. QED
    BY <2>2, <2>3
<1>3. QED
  BY <1>1, <1>2 DEF SignalTerminal

\* fail under the monitor, from request, emit or the end of a callback.
LEMMA FailLockedKeeps ==
  ASSUME Sorts, Ordered, Tallied, verdict = "none", FailLocked,
         cur' # "terminal", UNCHANGED <<delivered, ended, tail, srv, made>>
  PROVE  /\ verdict' = "error"
         /\ Funded' /\ CreditConserved' /\ Tallied' /\ Ordered'
         /\ Waiting(queue') = Waiting(queue) /\ queue' \in Seq(Callback)
         /\ job' \in {"none", "queued", "running", "empty"}
<1> USE Zenon
<1>1. verdict' = "error"
  BY DEF FailLocked
<1>2. Funded' /\ CreditConserved'
  BY <1>1 DEF Funded, CreditConserved
<1>3. Tallied'
  BY <1>1 DEF Tallied
<1>4. ~signalled
  BY DEF Ordered
<1>5. CASE UNCHANGED <<signalled, queue, flag, job>>
  <2>1. Ordered'
    BY <1>1, <1>4, <1>5 DEF Ordered
  <2>2. QED
    BY <1>1, <1>2, <1>3, <1>5, <2>1 DEF Sorts
<1>6. CASE signalled' = TRUE /\ Dispatch(queue, "terminal")
  <2>1. Ordered' /\ Waiting(queue') = Waiting(queue) /\ queue' \in Seq(Callback)
    BY <1>1, <1>4, <1>6, TerminalQueued DEF Dispatch
  <2>2. job' \in {"none", "queued", "running", "empty"}
    BY <1>6 DEF Dispatch, Sorts
  <2>3. QED
    BY <1>1, <1>2, <1>3, <2>1, <2>2
<1>7. QED
  BY <1>5, <1>6 DEF FailLocked

\* Every step keeps the invariant.
LEMMA NextIInv == IInv /\ [Next]_vars => IInv'
<1> USE Zenon
<1> SUFFICES ASSUME IInv, [Next]_vars PROVE IInv'
  OBVIOUS
<1> USE DEF subscription, ending, drainer, history, network, producer
<1>a. /\ Flags /\ Sorts /\ Funded /\ CreditConserved /\ Demanded /\ BacklogBounded
      /\ Tallied /\ Ordered /\ CompleteMeansAll
  BY DEF IInv
<1>b. Items \in Nat /\ MaxPending \in Nat /\ MaxLong \in Nat
  BY ItemsType, LimitsType
<1>c. Waiting(queue) \in Nat /\ queue \in Seq(Callback)
  BY <1>a, WaitingNat DEF Sorts
<1>d. Arrived \in Nat
  BY <1>a, <1>c, SMTT(30) DEF Arrived, Sorts
<1>1. CASE Subscribe
  <2>1. Flags'
    BY <1>a, <1>1 DEF Subscribe, Flags
  <2>2. Sorts'
    BY <1>a, <1>b, <1>1, SMTT(30) DEF Subscribe, Sorts, Verdict
  <2>3. Funded' /\ CreditConserved' /\ Demanded'
    BY <1>a, <1>1 DEF Subscribe, Funded, CreditConserved, InHand, Demanded
  <2>4. BacklogBounded'
    BY <1>a, <1>c, <1>1 DEF Subscribe, BacklogBounded, InCallback, Sorts
  <2>5. Tallied'
    BY <1>a, <1>b, <1>c, <1>1 DEF Subscribe, Tallied, Arrived, Held, Sorts
  <2>6. Ordered' /\ CompleteMeansAll'
    BY <1>a, <1>1 DEF Subscribe, Ordered, Spent, CompleteMeansAll
  <2>7. QED
    BY <2>1, <2>2, <2>3, <2>4, <2>5, <2>6 DEF IInv
<1>2. CASE Subscribed
  <2>1. Flags'
    BY <1>a, <1>2 DEF Subscribed, SignalTerminal, Dispatch, Flags
  <2>2. /\ Ordered' /\ Waiting(queue') = Waiting(queue) /\ queue' \in Seq(Callback)
        /\ job' \in {"none", "queued", "running", "empty"}
    BY <1>a, <1>2, SignalKeeps DEF Subscribed
  <2>3. Sorts'
    BY <2>2, <1>a, <1>2 DEF Subscribed, Sorts
  <2>4. Funded' /\ CreditConserved' /\ Demanded'
    BY <1>a, <1>2 DEF Subscribed, Funded, CreditConserved, InHand, Demanded
  <2>5. BacklogBounded'
    BY <2>2, <1>a, <1>2 DEF Subscribed, BacklogBounded, InCallback
  <2>6. Tallied' /\ CompleteMeansAll'
    BY <2>2, <1>a, <1>2 DEF Subscribed, Tallied, Arrived, Held, CompleteMeansAll
  <2>7. QED
    BY <2>1, <2>2, <2>3, <2>4, <2>5, <2>6 DEF IInv
<1>3. CASE BadRequest
  <2>1. Flags'
    BY <1>a, <1>3 DEF BadRequest, FailLocked, Dispatch, SendCancel, Flags
  <2>2. verdict = "none" /\ ~signalled /\ cur # "terminal"
    BY <1>a, <1>3 DEF BadRequest, Ordered
  <2>3. /\ verdict' = "error" /\ Funded' /\ CreditConserved' /\ Tallied' /\ Ordered'
        /\ Waiting(queue') = Waiting(queue) /\ queue' \in Seq(Callback)
        /\ job' \in {"none", "queued", "running", "empty"}
    BY <2>2, <1>a, <1>3, FailLockedKeeps DEF BadRequest
  <2>4. Sorts'
    BY <2>3, <1>a, <1>3 DEF BadRequest, Sorts, Verdict
  <2>5. Demanded' /\ BacklogBounded' /\ CompleteMeansAll'
    BY <2>3, <1>a, <1>3 DEF BadRequest, Demanded, BacklogBounded, InCallback, CompleteMeansAll
  <2>6. QED
    BY <2>1, <2>3, <2>4, <2>5 DEF IInv
<1>4. CASE Cancel
  <2>1. Flags'
    BY <1>a, <1>4 DEF Cancel, Finish, SendCancel, Flags
  <2>2. Sorts'
    BY <1>a, <1>b, <1>4, SMTT(30) DEF Cancel, Finish, SendCancel, Sorts, Verdict
  <2>3. Funded' /\ CreditConserved' /\ Demanded'
    BY <1>a, <1>4 DEF Cancel, Finish, SendCancel, Funded, CreditConserved, InHand, Demanded
  <2>4. BacklogBounded'
    BY <1>a, <1>c, <1>4 DEF Cancel, Finish, SendCancel, BacklogBounded, InCallback, Sorts
  <2>5. Tallied'
    BY <1>a, <1>b, <1>c, <1>4 DEF Cancel, Finish, SendCancel, Tallied, Arrived, Held, Sorts
  <2>6. Ordered' /\ CompleteMeansAll'
    BY <1>a, <1>4 DEF Cancel, Finish, SendCancel, Ordered, Spent, CompleteMeansAll
  <2>7. QED
    BY <2>1, <2>2, <2>3, <2>4, <2>5, <2>6 DEF IInv
<1>5. ASSUME NEW n \in Counts, Request(n) PROVE IInv'
  <2> DEFINE d == Least(demand + n, MaxLong)
             g == Grantable(d, pendingCb)
  <2>1. d \in Nat /\ d <= MaxLong /\ demand <= d
    BY <1>a, <1>b, CountsType, SMTT(30) DEF Least, Sorts
  <2>2. /\ g \in Nat /\ wire + g <= d /\ pendingCb + g <= MaxPending
    <3>1. wire <= d /\ pendingCb \in Int /\ pendingCb <= MaxPending
      BY <2>1, <1>a, <1>b, SMTT(30) DEF Demanded, Sorts, BacklogBounded
    <3> HIDE DEF d
    <3>2. QED
      BY <3>1, <2>1, <1>a, GrantFits
  <2>3. /\ demand' = d /\ wire' = wire + g /\ pendingCb' = pendingCb + g
        /\ sub # "none" /\ verdict = "none"
        /\ UNCHANGED <<sub, cur, late, shut, history, cancelUp, items, tail, producer>>
    BY <1>5 DEF Request, Grant
  <2>4. \/ up' = up + g /\ UNCHANGED <<ending, queue, flag, job>>
        \/ up' = up /\ FailLocked
    BY <1>5 DEF Request, Grant
  <2>5. Flags'
    BY <2>3, <2>4, <1>a DEF Flags, FailLocked, Dispatch
  <2> HIDE DEF d, g
  <2>6. /\ Funded' /\ CreditConserved' /\ Tallied' /\ Ordered' /\ Sorts'
        /\ Waiting(queue') = Waiting(queue)
    <3>1. CASE up' = up + g /\ UNCHANGED <<ending, queue, flag, job>>
      <4>1. Funded' /\ CreditConserved'
        BY <3>1, <2>2, <2>3, <1>a, SMTT(30) DEF Funded, CreditConserved, InHand, Sorts
      <4>2. Tallied' /\ Ordered'
        BY <3>1, <2>3, <1>a DEF Tallied, Arrived, Held, Ordered, Spent
      <4>3. Sorts'
        BY <3>1, <2>1, <2>2, <2>3, <1>a, SMTT(30) DEF Sorts
      <4>4. QED
        BY <3>1, <4>1, <4>2, <4>3
    <3>2. CASE up' = up /\ FailLocked
      <4>1. cur # "terminal"
        BY <2>3, <1>a DEF Ordered
      <4>2. /\ verdict' = "error" /\ Funded' /\ CreditConserved' /\ Tallied' /\ Ordered'
            /\ Waiting(queue') = Waiting(queue) /\ queue' \in Seq(Callback)
            /\ job' \in {"none", "queued", "running", "empty"}
        BY <3>2, <4>1, <2>3, <1>a, FailLockedKeeps
      <4>3. Sorts'
        BY <3>2, <4>2, <2>1, <2>2, <2>3, <1>a, SMTT(30) DEF Sorts, Verdict
      <4>4. QED
        BY <4>2, <4>3
    <3>3. QED
      BY <2>4, <3>1, <3>2
  <2>7. Demanded' /\ CompleteMeansAll'
    BY <2>2, <2>3, <1>a DEF Demanded, CompleteMeansAll
  <2>8. BacklogBounded'
    <3>1. InCallback' = InCallback /\ InCallback \in Nat
      BY <2>3 DEF InCallback
    <3>2. /\ pendingCb = wire + Waiting(queue) + InCallback
          /\ wire \in Nat /\ Waiting(queue) \in Nat
      BY <1>a, <1>c DEF BacklogBounded, Sorts
    <3>3. QED
      BY <3>1, <3>2, <2>2, <2>3, <2>6, SMTT(30) DEF BacklogBounded
  <2>9. QED
    BY <2>5, <2>6, <2>7, <2>8 DEF IInv
<1>6. CASE ReceiveItem
  <2>1. Flags'
    BY <1>a, <1>6 DEF ReceiveItem, FailLocked, SendCancel, Dispatch, Flags
  <2>2. CASE verdict # "none"
    <3>1. /\ items' = items - 1 /\ items > 0
          /\ UNCHANGED <<subscription, ending, drainer, history, up, cancelUp, tail,
                         producer>>
      BY <2>2, <1>6 DEF ReceiveItem
    <3>2. Sorts'
      BY <3>1, <1>a, SMTT(30) DEF Sorts
    <3>3. Funded' /\ CreditConserved'
      BY <2>2, <3>1 DEF Funded, CreditConserved
    <3>4. Tallied'
      BY <2>2, <3>1, <1>a DEF Tallied, Arrived
    <3>5. Demanded' /\ BacklogBounded' /\ Ordered' /\ CompleteMeansAll'
      BY <3>1, <1>a, ClientIdle
    <3>6. QED
      BY <2>1, <3>2, <3>3, <3>4, <3>5 DEF IInv
  <2>3. CASE verdict = "none"
    <3> USE SMTT(30)
    <3>1. /\ sub # "none" /\ wire > 0 /\ demand > 0
          /\ ~(sub = "none" \/ demand = 0 \/ wire = 0)
      BY <2>3, <1>a, <1>6 DEF ReceiveItem, Funded, InHand, Demanded, Sorts
    <3>2. /\ wire' = wire - 1 /\ items' = items - 1 /\ items > 0
          /\ demand' = IF demand = MaxLong THEN demand ELSE demand - 1
          /\ queue' = Append(queue, "next")
          /\ job' = IF flag THEN job ELSE "queued"
          /\ UNCHANGED <<sub, pendingCb, ending, cur, late, shut, history, up, cancelUp,
                         tail, producer>>
      BY <2>3, <3>1, <1>6, Zenon DEF ReceiveItem, Dispatch
    <3>3. Waiting(queue') = Waiting(queue) + 1
      BY <3>2, <1>c, WaitingAppend, Zenon DEF Callback
    <3>4. wire <= MaxLong
      BY <1>a, <1>b DEF Demanded, Sorts
    <3>5. Sorts'
      BY <3>1, <3>2, <1>a, <1>b DEF Sorts, Callback
    <3>6. Funded' /\ CreditConserved' /\ Demanded'
      BY <3>1, <3>2, <3>4, <1>a, <1>b
         DEF Funded, CreditConserved, InHand, Demanded, Sorts
    <3>7. BacklogBounded'
      BY <3>1, <3>2, <3>3, <1>a, <1>c DEF BacklogBounded, InCallback, Sorts
    <3>8. Tallied'
      BY <2>3, <3>2, <3>3, <1>a, <1>c DEF Tallied, Arrived, Held, Sorts
    <3>9. Ordered' /\ CompleteMeansAll'
      <4>1. ~signalled /\ ended = "none"
        BY <2>3, <1>a, Zenon DEF Ordered
      <4>2. \A i \in DOMAIN queue' : queue'[i] # "terminal"
        BY <4>1, <3>2, <1>a, <1>c DEF Ordered
      <4>3. QED
        BY <4>1, <4>2, <3>2, <1>a, Zenon DEF Ordered, CompleteMeansAll
    <3>10. QED
      BY <2>1, <3>5, <3>6, <3>7, <3>8, <3>9, Zenon DEF IInv
  <2>4. QED
    BY <2>2, <2>3
<1>7. CASE ReceiveTail
  <2>1. Flags'
    BY <1>a, <1>7 DEF ReceiveTail, Finish, Flags
  <2>2. Sorts'
    BY <1>a, <1>b, <1>7, SMTT(30) DEF ReceiveTail, Finish, Sorts, Verdict
  <2>3. Funded' /\ CreditConserved' /\ Demanded'
    BY <1>a, <1>7 DEF ReceiveTail, Finish, Funded, CreditConserved, InHand, Demanded
  <2>4. BacklogBounded'
    BY <1>a, <1>c, <1>7 DEF ReceiveTail, Finish, BacklogBounded, InCallback, Sorts
  <2>5. Tallied'
    BY <1>a, <1>b, <1>c, <1>7, SMTT(30) DEF ReceiveTail, Finish, Tallied, Arrived, Held, Sorts
  <2>6. Ordered' /\ CompleteMeansAll'
    BY <1>a, <1>7 DEF ReceiveTail, Finish, Ordered, Spent, CompleteMeansAll
  <2>7. QED
    BY <2>1, <2>2, <2>3, <2>4, <2>5, <2>6 DEF IInv
<1>8. CASE Deadline
  <2>1. Flags'
    BY <1>a, <1>8 DEF Deadline, Finish, SendCancel, Flags
  <2>2. Sorts'
    BY <1>a, <1>b, <1>8, SMTT(30) DEF Deadline, Finish, SendCancel, Sorts, Verdict
  <2>3. Funded' /\ CreditConserved' /\ Demanded'
    BY <1>a, <1>8 DEF Deadline, Finish, SendCancel, Funded, CreditConserved, InHand, Demanded
  <2>4. BacklogBounded'
    BY <1>a, <1>c, <1>8 DEF Deadline, Finish, SendCancel, BacklogBounded, InCallback, Sorts
  <2>5. Tallied'
    BY <1>a, <1>b, <1>c, <1>8 DEF Deadline, Finish, SendCancel, Tallied, Arrived, Held, Sorts
  <2>6. Ordered' /\ CompleteMeansAll'
    BY <1>a, <1>8 DEF Deadline, Finish, SendCancel, Ordered, Spent, CompleteMeansAll
  <2>7. QED
    BY <2>1, <2>2, <2>3, <2>4, <2>5, <2>6 DEF IInv
<1>9. CASE Shutdown
  <2>1. Flags'
    BY <1>a, <1>9 DEF Shutdown, Flags
  <2>2. Sorts'
    BY <1>a, <1>b, <1>9, SMTT(30) DEF Shutdown, Sorts, Verdict
  <2>3. Funded' /\ CreditConserved' /\ Demanded'
    BY <1>a, <1>9 DEF Shutdown, Funded, CreditConserved, InHand, Demanded
  <2>4. BacklogBounded'
    BY <1>a, <1>c, <1>9 DEF Shutdown, BacklogBounded, InCallback, Sorts
  <2>5. Tallied'
    BY <1>a, <1>b, <1>c, <1>9 DEF Shutdown, Tallied, Arrived, Held, Sorts
  <2>6. Ordered' /\ CompleteMeansAll'
    BY <1>a, <1>9 DEF Shutdown, Ordered, Spent, CompleteMeansAll
  <2>7. QED
    BY <2>1, <2>2, <2>3, <2>4, <2>5, <2>6 DEF IInv
<1>10. CASE FailAll
  <2>1. Flags'
    BY <1>a, <1>10 DEF FailAll, Finish, Flags
  <2>2. Sorts'
    BY <1>a, <1>b, <1>10, SMTT(30) DEF FailAll, Finish, Sorts, Verdict
  <2>3. Funded' /\ CreditConserved' /\ Demanded'
    BY <1>a, <1>10 DEF FailAll, Finish, Funded, CreditConserved, InHand, Demanded
  <2>4. BacklogBounded'
    BY <1>a, <1>c, <1>10 DEF FailAll, Finish, BacklogBounded, InCallback, Sorts
  <2>5. Tallied'
    BY <1>a, <1>b, <1>c, <1>10 DEF FailAll, Finish, Tallied, Arrived, Held, Sorts
  <2>6. Ordered' /\ CompleteMeansAll'
    BY <1>a, <1>10 DEF FailAll, Finish, Ordered, Spent, CompleteMeansAll
  <2>7. QED
    BY <2>1, <2>2, <2>3, <2>4, <2>5, <2>6 DEF IInv
<1>11. CASE FinishSignals
  <2>1. Flags'
    BY <1>a, <1>11 DEF FinishSignals, SignalTerminal, Dispatch, Flags
  <2>2. /\ Ordered' /\ Waiting(queue') = Waiting(queue) /\ queue' \in Seq(Callback)
        /\ job' \in {"none", "queued", "running", "empty"}
    BY <1>a, <1>11, SignalKeeps DEF FinishSignals
  <2>3. Sorts'
    BY <2>2, <1>a, <1>11 DEF FinishSignals, Sorts
  <2>4. Funded' /\ CreditConserved' /\ Demanded'
    BY <1>a, <1>11 DEF FinishSignals, Funded, CreditConserved, InHand, Demanded
  <2>5. BacklogBounded'
    BY <2>2, <1>a, <1>11 DEF FinishSignals, BacklogBounded, InCallback
  <2>6. Tallied' /\ CompleteMeansAll'
    BY <2>2, <1>a, <1>11 DEF FinishSignals, Tallied, Arrived, Held, CompleteMeansAll
  <2>7. QED
    BY <2>1, <2>2, <2>3, <2>4, <2>5, <2>6 DEF IInv
<1>12. CASE DrainStarts
  <2>1. Flags'
    BY <1>a, <1>12 DEF DrainStarts, Flags
  <2>2. Sorts'
    BY <1>a, <1>b, <1>12 DEF DrainStarts, Sorts, Verdict
  <2>3. Funded' /\ CreditConserved' /\ Demanded'
    BY <1>a, <1>12 DEF DrainStarts, Funded, CreditConserved, InHand, Demanded
  <2>4. BacklogBounded'
    BY <1>a, <1>c, <1>12 DEF DrainStarts, BacklogBounded, InCallback, Sorts
  <2>5. Tallied'
    BY <1>a, <1>b, <1>c, <1>12 DEF DrainStarts, Tallied, Arrived, Held, Sorts
  <2>6. Ordered' /\ CompleteMeansAll'
    BY <1>a, <1>12 DEF DrainStarts, Ordered, Spent, CompleteMeansAll
  <2>7. QED
    BY <2>1, <2>2, <2>3, <2>4, <2>5, <2>6 DEF IInv
<1>13. CASE Poll
  <2>1. Flags'
    BY <1>a, <1>13 DEF Poll, Flags
  <2>2. CASE queue = <<>>
    <3>1. /\ job' = "empty"
          /\ UNCHANGED <<subscription, ending, queue, flag, cur, late, shut, history,
                         network, producer>>
      BY <2>2, <1>13 DEF Poll
    <3>2. Sorts'
      BY <3>1, <1>a DEF Sorts
    <3>3. Funded' /\ CreditConserved'
      BY <3>1, <1>a DEF Funded, CreditConserved, InHand
    <3>4. Tallied'
      BY <3>1, <1>a DEF Tallied, Arrived, Held
    <3>5. Demanded' /\ BacklogBounded' /\ Ordered' /\ CompleteMeansAll'
      BY <3>1, <1>a, ClientIdle
    <3>6. QED
      BY <2>1, <3>2, <3>3, <3>4, <3>5 DEF IInv
  <2>3. CASE queue # <<>>
    <3>1. /\ cur = "none" /\ cur' = IF Head(queue) = "noop" THEN "none" ELSE Head(queue)
          /\ queue' = Tail(queue)
          /\ UNCHANGED <<subscription, ending, flag, job, late, shut, history, network,
                         producer>>
      BY <2>3, <1>13 DEF Poll
    <3>2. Waiting(queue) = Waiting(queue') + (IF Head(queue) = "next" THEN 1 ELSE 0)
      BY <2>3, <3>1, <1>c, WaitingTail
    <3>3. /\ Head(queue) \in Callback /\ Head(queue) = queue[1] /\ 1 \in DOMAIN queue
          /\ queue' \in Seq(Callback)
          /\ \A i \in DOMAIN queue' : i + 1 \in DOMAIN queue /\ queue'[i] = queue[i + 1]
                                      /\ i \in Nat /\ i > 0
      BY <2>3, <3>1, <1>c, SMTT(30)
    <3>4. Waiting(queue') \in Nat
      BY <3>3, WaitingNat
    <3>5. Sorts'
      BY <3>1, <3>3, <1>a DEF Sorts, Callback
    <3>6. Funded' /\ CreditConserved' /\ Demanded'
      BY <3>1, <1>a DEF Funded, CreditConserved, InHand, Demanded
    <3>7. BacklogBounded'
      BY <3>1, <3>2, <3>3, <3>4, <1>a, SMTT(30) DEF BacklogBounded, InCallback, Sorts, Callback
    <3>8. Tallied'
      BY <3>1, <3>2, <3>3, <3>4, <1>a, SMTT(30) DEF Tallied, Arrived, Held, Sorts, Callback
    <3>9. Ordered'
      <4>1. Head(queue) = "terminal" => Spent(queue')
        BY <3>3, <1>a, SMTT(30) DEF Ordered, Spent
      <4>2. Spent(queue) => Spent(queue') /\ cur' = "none"
        BY <3>1, <3>3 DEF Spent
      <4>3. \A i, j \in DOMAIN queue' : i < j /\ queue'[i] = "terminal" => queue'[j] = "noop"
        BY <3>3, <1>a, SMTT(30) DEF Ordered
      <4>4. ~signalled => \A i \in DOMAIN queue' : queue'[i] # "terminal"
        BY <3>3, <1>a DEF Ordered
      <4>5. ~signalled => cur' # "terminal"
        BY <3>1, <3>3, <1>a DEF Ordered
      <4>6. cur' = "terminal" => Head(queue) = "terminal"
        BY <3>1
      <4>7. QED
        BY <4>1, <4>2, <4>3, <4>4, <4>5, <4>6, <3>1, <1>a DEF Ordered
    <3>10. CompleteMeansAll'
      BY <3>1, <1>a DEF CompleteMeansAll
    <3>11. QED
      BY <2>1, <3>5, <3>6, <3>7, <3>8, <3>9, <3>10 DEF IInv
  <2>4. QED
    BY <2>2, <2>3
<1>14. CASE OnNext
  <2>1. Flags'
    BY <1>a, <1>14 DEF OnNext, Flags
  <2>2. Sorts'
    BY <1>a, <1>b, <1>14, SMTT(30) DEF OnNext, Sorts, Verdict
  <2>3. Funded' /\ CreditConserved' /\ Demanded'
    BY <1>a, <1>14 DEF OnNext, Funded, CreditConserved, InHand, Demanded
  <2>4. BacklogBounded'
    BY <1>a, <1>c, <1>14 DEF OnNext, BacklogBounded, InCallback, Sorts
  <2>5. Tallied'
    BY <1>a, <1>b, <1>c, <1>14, SMTT(30) DEF OnNext, Tallied, Arrived, Held, Sorts
  <2>6. Ordered' /\ CompleteMeansAll'
    BY <1>a, <1>14 DEF OnNext, Ordered, Spent, CompleteMeansAll
  <2>7. QED
    BY <2>1, <2>2, <2>3, <2>4, <2>5, <2>6 DEF IInv
<1>15. CASE OnNextThrows
  <2>1. Flags'
    BY <1>a, <1>15 DEF OnNextThrows, Finish, SendCancel, Flags
  <2>2. Sorts'
    BY <1>a, <1>b, <1>c, <1>15, SMTT(30) DEF OnNextThrows, Finish, SendCancel, Sorts, Verdict,
       Callback
  <2>3. Funded' /\ CreditConserved'
    BY <1>a, <1>b, <1>c, <1>15 DEF OnNextThrows, Finish, SendCancel, Funded, CreditConserved,
       InHand, Sorts, Verdict, Callback
  <2>4. Demanded'
    BY <1>a, <1>b, <1>c, <1>15 DEF OnNextThrows, Finish, SendCancel, Demanded, Sorts, Verdict,
       Callback
  <2>5. BacklogBounded'
    BY <1>a, <1>b, <1>c, <1>15 DEF OnNextThrows, Finish, SendCancel, BacklogBounded, InCallback,
       Sorts, Verdict, Callback
  <2>6. Tallied'
    BY <1>a, <1>b, <1>c, <1>15, SMTT(30) DEF OnNextThrows, Finish, SendCancel, Tallied, Arrived,
       Held, Sorts, Verdict, Callback
  <2>7. Ordered'
    BY <1>a, <1>b, <1>c, <1>15 DEF OnNextThrows, Finish, SendCancel, Ordered, Spent, Sorts,
       Verdict, Callback
  <2>8. CompleteMeansAll'
    BY <1>a, <1>b, <1>c, <1>15 DEF OnNextThrows, Finish, SendCancel, CompleteMeansAll, Ordered,
       Sorts, Verdict, Callback
  <2>9. QED
    BY <2>1, <2>2, <2>3, <2>4, <2>5, <2>6, <2>7, <2>8 DEF IInv
<1>16. CASE AfterNext
  <2> DEFINE p == pendingCb - 1
             g == Grantable(demand, p)
  <2>1. /\ cur = "after" /\ cur' = "none" /\ p \in Nat /\ p <= MaxPending
        /\ p = wire + Waiting(queue)
    BY <1>16, <1>a, <1>b, <1>c, SMTT(30) DEF AfterNext, BacklogBounded, InCallback, Sorts
  <2>2. /\ g \in Nat /\ wire + g <= demand /\ p + g <= MaxPending
        /\ verdict # "none" => g = 0
    BY <2>1, <1>a, <1>b, GrantFits, SMTT(30) DEF Demanded, Sorts
  <2>3. /\ demand' = demand /\ wire' = wire + g /\ pendingCb' = p + g
        /\ UNCHANGED <<sub, late, shut, delivered, ended, cancelUp, items, tail,
                       producer>>
    BY <1>16 DEF AfterNext, Grant
  <2>4. \/ up' = up + g /\ UNCHANGED <<ending, queue, flag, job>>
        \/ up' = up /\ g > 0 /\ FailLocked
    BY <1>16 DEF AfterNext, Grant
  <2>5. Flags'
    BY <2>3, <2>4, <1>a DEF Flags, FailLocked, Dispatch
  <2> HIDE DEF p, g
  <2>6. /\ Funded' /\ CreditConserved' /\ Tallied' /\ Ordered' /\ Sorts'
        /\ Waiting(queue') = Waiting(queue)
    <3>1. CASE up' = up + g /\ UNCHANGED <<ending, queue, flag, job>>
      <4>1. Funded' /\ CreditConserved'
        BY <3>1, <2>2, <2>3, <1>a, SMTT(30) DEF Funded, CreditConserved, InHand, Sorts
      <4>2. Tallied'
        BY <3>1, <2>1, <2>3, <1>a DEF Tallied, Arrived, Held
      <4>3. Ordered'
        BY <3>1, <2>1, <2>3, <1>a DEF Ordered, Spent
      <4>4. Sorts'
        BY <3>1, <2>1, <2>2, <2>3, <1>a, SMTT(30) DEF Sorts
      <4>5. QED
        BY <3>1, <4>1, <4>2, <4>3, <4>4
    <3>2. CASE up' = up /\ g > 0 /\ FailLocked
      <4>1. verdict = "none" /\ cur' # "terminal"
        BY <3>2, <2>1, <2>2, SMTT(30)
      <4>2. /\ verdict' = "error" /\ Funded' /\ CreditConserved' /\ Tallied' /\ Ordered'
            /\ Waiting(queue') = Waiting(queue) /\ queue' \in Seq(Callback)
            /\ job' \in {"none", "queued", "running", "empty"}
        BY <3>2, <4>1, <2>3, <1>a, FailLockedKeeps
      <4>3. Sorts'
        BY <3>2, <4>2, <2>1, <2>2, <2>3, <1>a, SMTT(30) DEF Sorts, Verdict
      <4>4. QED
        BY <4>2, <4>3
    <3>3. QED
      BY <2>4, <3>1, <3>2
  <2>7. Demanded' /\ CompleteMeansAll'
    BY <2>2, <2>3, <1>a DEF Demanded, CompleteMeansAll
  <2>8. BacklogBounded'
    <3>1. InCallback' = 0
      BY <2>1 DEF InCallback
    <3>2. wire \in Nat /\ Waiting(queue) \in Nat
      BY <1>a, <1>c DEF Sorts
    <3>3. QED
      BY <3>1, <3>2, <2>1, <2>2, <2>3, <2>6, SMTT(30) DEF BacklogBounded
  <2>9. QED
    BY <2>5, <2>6, <2>7, <2>8 DEF IInv
<1>17. CASE OnTerminal
  <2>1. Flags'
    BY <1>a, <1>17 DEF OnTerminal, Flags
  <2>2. cur = "terminal" /\ signalled /\ verdict # "none" /\ Spent(queue)
    BY <1>a, <1>17 DEF OnTerminal, Ordered, Flags
  <2>3. Waiting(queue) = 0
    BY <2>2, <1>c, WaitingNone DEF Spent
  <2>4. CompleteMeansAll'
    BY <2>2, <2>3, <1>a, <1>b, <1>17, SMTT(30) DEF OnTerminal, CompleteMeansAll, Tallied,
       Arrived, Sorts
  <2>5. Ordered'
    BY <2>2, <1>a, <1>17 DEF OnTerminal, Ordered
  <2>6. QED
    BY <2>1, <2>2, <2>4, <2>5, <1>a, <1>c, <1>17 DEF OnTerminal, IInv, Sorts, Verdict, Funded,
       CreditConserved, InHand, Demanded, BacklogBounded, InCallback, Tallied, Arrived, Held
<1>18. CASE DrainClears
  <2>1. Flags'
    BY <1>a, <1>18 DEF DrainClears, Flags
  <2>2. Sorts'
    BY <1>a, <1>b, <1>18, SMTT(30) DEF DrainClears, Sorts, Verdict
  <2>3. Funded' /\ CreditConserved' /\ Demanded'
    BY <1>a, <1>18 DEF DrainClears, Funded, CreditConserved, InHand, Demanded
  <2>4. BacklogBounded'
    BY <1>a, <1>c, <1>18 DEF DrainClears, BacklogBounded, InCallback, Sorts
  <2>5. Tallied'
    BY <1>a, <1>b, <1>c, <1>18 DEF DrainClears, Tallied, Arrived, Held, Sorts
  <2>6. Ordered' /\ CompleteMeansAll'
    BY <1>a, <1>18 DEF DrainClears, Ordered, Spent, CompleteMeansAll
  <2>7. QED
    BY <2>1, <2>2, <2>3, <2>4, <2>5, <2>6 DEF IInv
<1>19. CASE DrainRechecks
  <2>0. Waiting(Append(queue, "noop")) = Waiting(queue)
    BY <1>c, WaitingAppend, SMTT(30) DEF Callback
  <2>1. Flags'
    BY <1>a, <1>19 DEF DrainRechecks, Dispatch, Flags
  <2>2. Sorts'
    BY <2>0, <1>a, <1>b, <1>c, <1>19, SMTT(30) DEF DrainRechecks, Dispatch, Sorts, Verdict,
       Callback
  <2>3. Funded' /\ CreditConserved'
    BY <2>0, <1>a, <1>b, <1>c, <1>19 DEF DrainRechecks, Dispatch, Funded, CreditConserved,
       InHand, Sorts, Verdict, Callback
  <2>4. Demanded'
    BY <2>0, <1>a, <1>b, <1>c, <1>19 DEF DrainRechecks, Dispatch, Demanded, Sorts, Verdict,
       Callback
  <2>5. BacklogBounded'
    BY <2>0, <1>a, <1>b, <1>c, <1>19 DEF DrainRechecks, Dispatch, BacklogBounded, InCallback,
       Sorts, Verdict, Callback
  <2>6. Tallied'
    BY <2>0, <1>a, <1>b, <1>c, <1>19 DEF DrainRechecks, Dispatch, Tallied, Arrived, Held, Sorts,
       Verdict, Callback
  <2>7. Ordered'
    <3>0. UNCHANGED <<verdict, signalled, cur, ended>>
      BY <1>19 DEF DrainRechecks
    <3>1. CASE queue' = queue
      BY <3>0, <3>1, <1>a DEF Ordered, Spent
    <3>2. CASE queue' = Append(queue, "noop")
      <4> DEFINE L == Len(queue)
      <4>1. /\ L \in Nat /\ DOMAIN queue = 1..L /\ DOMAIN queue' = 1..(L + 1)
            /\ \A i \in 1..L : queue'[i] = queue[i]
            /\ queue'[L + 1] = "noop"
        BY <3>2, <1>c, SMTT(30) DEF Callback
      <4> HIDE DEF L
      <4>2. \A i \in DOMAIN queue' : \/ i \in DOMAIN queue /\ queue'[i] = queue[i]
                                    \/ queue'[i] = "noop"
        BY <4>1, SMTT(30)
      <4>3. \A i, j \in DOMAIN queue' :
              i < j /\ queue'[i] = "terminal" => queue'[j] = "noop"
        BY <4>2, <1>a DEF Ordered
      <4>4. Spent(queue) => Spent(queue')
        BY <4>2 DEF Spent
      <4>5. ~signalled => \A i \in DOMAIN queue' : queue'[i] # "terminal"
        BY <4>2, <1>a DEF Ordered
      <4>6. QED
        BY <3>0, <4>3, <4>4, <4>5, <1>a DEF Ordered
    <3>3. QED
      BY <3>1, <3>2, <1>19 DEF DrainRechecks, Dispatch
  <2>8. CompleteMeansAll'
    BY <2>0, <1>a, <1>b, <1>c, <1>19 DEF DrainRechecks, Dispatch, CompleteMeansAll, Ordered,
       Sorts, Verdict, Callback
  <2>9. QED
    BY <2>1, <2>2, <2>3, <2>4, <2>5, <2>6, <2>7, <2>8 DEF IInv
<1>20. ASSUME NEW n \in 1..up, CreditArrives(n) PROVE IInv'
  <2>1. Flags'
    BY <1>a, <1>20 DEF CreditArrives, Flags
  <2>2. Sorts'
    BY <1>a, <1>b, <1>20, SMTT(30) DEF CreditArrives, Sorts, Verdict
  <2>3. Funded' /\ CreditConserved'
    BY <1>a, <1>20, SMTT(30) DEF CreditArrives, Funded, CreditConserved, InHand, Sorts
  <2>4. /\ Demanded' /\ BacklogBounded' /\ Ordered' /\ CompleteMeansAll'
        /\ Arrived' = Arrived
    BY <1>a, <1>20, ClientIdle DEF CreditArrives
  <2>5. Tallied'
    BY <2>4, <1>a, <1>b, <1>d, <1>20 DEF CreditArrives, Tallied, Held, Sorts
  <2>6. QED
    BY <2>1, <2>2, <2>3, <2>4, <2>5 DEF IInv
<1>21. CASE Abort
  <2>1. Flags'
    BY <1>a, <1>21 DEF Abort, Flags
  <2>2. Sorts'
    BY <1>a, <1>b, <1>21, SMTT(30) DEF Abort, Sorts, Verdict
  <2>3. Funded' /\ CreditConserved'
    BY <1>a, <1>21, SMTT(30) DEF Abort, Funded, CreditConserved, InHand, Sorts
  <2>4. /\ Demanded' /\ BacklogBounded' /\ Ordered' /\ CompleteMeansAll'
        /\ Arrived' = Arrived
    BY <1>a, <1>21, ClientIdle DEF Abort
  <2>5. Tallied'
    BY <2>4, <1>a, <1>b, <1>d, <1>21 DEF Abort, Tallied, Held, Sorts
  <2>6. QED
    BY <2>1, <2>2, <2>3, <2>4, <2>5 DEF IInv
<1>22. CASE Yield
  <2>1. Flags'
    BY <1>a, <1>22 DEF Yield, Flags
  <2>2. Sorts'
    BY <1>a, <1>b, <1>22, SMTT(30) DEF Yield, Sorts, Verdict
  <2>3. Funded' /\ CreditConserved'
    BY <1>a, <1>22 DEF Yield, Funded, CreditConserved, InHand, Sorts
  <2>4. /\ Demanded' /\ BacklogBounded' /\ Ordered' /\ CompleteMeansAll'
        /\ Arrived' = Arrived
    BY <1>a, <1>22, ClientIdle DEF Yield
  <2>5. Tallied'
    BY <2>4, <1>a, <1>b, <1>d, <1>22, SMTT(30) DEF Yield, Tallied, Held, Sorts
  <2>6. QED
    BY <2>1, <2>2, <2>3, <2>4, <2>5 DEF IInv
<1>23. CASE StreamEnds
  <2>1. Flags'
    BY <1>a, <1>23 DEF StreamEnds, SendTail, Flags
  <2>2. Sorts'
    BY <1>a, <1>b, <1>23, SMTT(30) DEF StreamEnds, SendTail, Sorts, Verdict
  <2>3. Funded' /\ CreditConserved'
    BY <1>a, <1>23 DEF StreamEnds, SendTail, Funded, CreditConserved, InHand, Sorts
  <2>4. /\ Demanded' /\ BacklogBounded' /\ Ordered' /\ CompleteMeansAll'
        /\ Arrived' = Arrived
    BY <1>a, <1>23, ClientIdle DEF StreamEnds, SendTail
  <2>5. Tallied'
    BY <2>4, <1>a, <1>b, <1>d, <1>23 DEF StreamEnds, SendTail, Tallied, Held, Sorts
  <2>6. QED
    BY <2>1, <2>2, <2>3, <2>4, <2>5 DEF IInv
<1>24. CASE StreamFails
  <2>1. Flags'
    BY <1>a, <1>24 DEF StreamFails, SendTail, Flags
  <2>2. Sorts'
    BY <1>a, <1>b, <1>24, SMTT(30) DEF StreamFails, SendTail, Sorts, Verdict
  <2>3. Funded' /\ CreditConserved'
    BY <1>a, <1>24 DEF StreamFails, SendTail, Funded, CreditConserved, InHand, Sorts
  <2>4. /\ Demanded' /\ BacklogBounded' /\ Ordered' /\ CompleteMeansAll'
        /\ Arrived' = Arrived
    BY <1>a, <1>24, ClientIdle DEF StreamFails, SendTail
  <2>5. Tallied'
    BY <2>4, <1>a, <1>b, <1>d, <1>24 DEF StreamFails, SendTail, Tallied, Held, Sorts
  <2>6. QED
    BY <2>1, <2>2, <2>3, <2>4, <2>5 DEF IInv
<1>25. CASE TakeCredit
  <2>1. Flags'
    BY <1>a, <1>25 DEF TakeCredit, Flags
  <2>2. Sorts'
    BY <1>a, <1>b, <1>25, SMTT(30) DEF TakeCredit, Sorts, Verdict
  <2>3. Funded' /\ CreditConserved'
    BY <1>a, <1>25, SMTT(30) DEF TakeCredit, Funded, CreditConserved, InHand, Sorts
  <2>4. /\ Demanded' /\ BacklogBounded' /\ Ordered' /\ CompleteMeansAll'
        /\ Arrived' = Arrived
    BY <1>a, <1>25, ClientIdle DEF TakeCredit
  <2>5. Tallied'
    BY <2>4, <1>a, <1>b, <1>d, <1>25 DEF TakeCredit, Tallied, Held, Sorts
  <2>6. QED
    BY <2>1, <2>2, <2>3, <2>4, <2>5 DEF IInv
<1>26. CASE SendItem
  <2>1. Flags'
    BY <1>a, <1>26 DEF SendItem, Flags
  <2>2. Sorts'
    BY <1>a, <1>b, <1>26, SMTT(30) DEF SendItem, Sorts, Verdict
  <2>3. Funded' /\ CreditConserved'
    BY <1>a, <1>26, SMTT(30) DEF SendItem, Funded, CreditConserved, InHand, Sorts
  <2>4. /\ Demanded' /\ BacklogBounded' /\ Ordered' /\ CompleteMeansAll'
        /\ Arrived' = Arrived
    BY <1>a, <1>26, ClientIdle DEF SendItem
  <2>5. Tallied'
    BY <2>4, <1>a, <1>b, <1>d, <1>26, SMTT(30) DEF SendItem, Tallied, Held, Sorts
  <2>6. QED
    BY <2>1, <2>2, <2>3, <2>4, <2>5 DEF IInv
<1>27. CASE SendRejected
  <2>1. Flags'
    BY <1>a, <1>27 DEF SendRejected, SendTail, Flags
  <2>2. Sorts'
    BY <1>a, <1>b, <1>27, SMTT(30) DEF SendRejected, SendTail, Sorts, Verdict
  <2>3. Funded' /\ CreditConserved'
    BY <1>a, <1>27, SMTT(30) DEF SendRejected, SendTail, Funded, CreditConserved, InHand, Sorts
  <2>4. /\ Demanded' /\ BacklogBounded' /\ Ordered' /\ CompleteMeansAll'
        /\ Arrived' = Arrived
    BY <1>a, <1>27, ClientIdle DEF SendRejected, SendTail
  <2>5. Tallied'
    BY <2>4, <1>a, <1>b, <1>d, <1>27 DEF SendRejected, SendTail, Tallied, Held, Sorts
  <2>6. QED
    BY <2>1, <2>2, <2>3, <2>4, <2>5 DEF IInv
<1>28. CASE UNCHANGED vars
  <2>1. Flags'
    BY <1>a, <1>28 DEF vars, Flags
  <2>2. Sorts'
    BY <1>a, <1>28 DEF vars, Sorts
  <2>3. Funded' /\ CreditConserved'
    BY <1>a, <1>28 DEF vars, Funded, CreditConserved, InHand
  <2>4. Tallied'
    BY <1>a, <1>28 DEF vars, Tallied, Arrived, Held
  <2>5. Demanded' /\ BacklogBounded' /\ Ordered' /\ CompleteMeansAll'
    BY <1>a, <1>28, ClientIdle DEF vars
  <2>6. QED
    BY <2>1, <2>2, <2>3, <2>4, <2>5 DEF IInv
<1> QED
  BY <1>1, <1>2, <1>3, <1>4, <1>5, <1>6, <1>7, <1>8, <1>9, <1>10, <1>11, <1>12, <1>13, <1>14,
     <1>15, <1>16, <1>17, <1>18, <1>19, <1>20, <1>21, <1>22, <1>23, <1>24, <1>25, <1>26, <1>27,
     <1>28 DEF Next

\* The invariant always holds.
LEMMA AlwaysIInv == Spec => []IInv
BY InitIInv, NextIInv, PTL DEF Spec

-----------------------------------------------------------------------------
(* Theorems                                                                *)

\* The fields of the stream, its queue, its frames and its task keep their
\* types; in particular demand saturates and no counter goes below zero.
THEOREM TypeCorrect == Spec => []TypeOK
<1>1. IInv => TypeOK
  BY TypeParts, Zenon DEF IInv
<1>2. QED
  BY <1>1, AlwaysIInv, PTL

\* No credit is lost or counted twice between grantAvailableCredit and emit.
THEOREM Conserved == Spec => []CreditConserved
<1>1. IInv => CreditConserved
  BY Zenon DEF IInv
<1>2. QED
  BY <1>1, AlwaysIInv, PTL

\* emit never meets an item that the client did not ask this server for.
THEOREM Covered == Spec => []ItemsCovered
<1>1. IInv => ItemsCovered
  BY LimitsType DEF IInv, ItemsCovered, Funded, InHand, Demanded, Sorts
<1>2. QED
  BY <1>1, AlwaysIInv, PTL

\* MAX_PENDING_CALLBACKS bounds the items in flight and in callbacks.
THEOREM Backlog == Spec => []BacklogBounded
<1>1. IInv => BacklogBounded
  BY Zenon DEF IInv
<1>2. QED
  BY <1>1, AlwaysIInv, PTL

\* onComplete comes only after every item of the stream.
THEOREM Complete == Spec => []CompleteMeansAll
<1>1. IInv => CompleteMeansAll
  BY Zenon DEF IInv
<1>2. QED
  BY <1>1, AlwaysIInv, PTL

\* After its terminal signal the subscriber gets no other signal: the only
\* steps that signal are OnNext, OnNextThrows and OnTerminal, and each runs a
\* callback, of which a spent queue has none left.
THEOREM TerminalIsLast == Spec => NothingAfterTerminal
<1>1. IInv /\ [Next]_vars => [ended # "none" => UNCHANGED <<ended, delivered>>]_vars
  <2> USE Zenon
  <2>1. SUFFICES ASSUME IInv, Next, ended # "none"
                 PROVE  UNCHANGED <<ended, delivered>>
    BY DEF vars
  <2>2. cur = "none"
    BY <2>1 DEF IInv, Ordered
  <2>3. QED
    BY <2>1, <2>2 DEF Next, history, Subscribe, Subscribed, Request, BadRequest, Cancel,
       ReceiveItem, ReceiveTail, Deadline, Shutdown, FailAll, FinishSignals, DrainStarts, Poll,
       OnNext, OnNextThrows, AfterNext, OnTerminal, DrainClears, DrainRechecks, CreditArrives,
       Abort, Yield, StreamEnds, StreamFails, TakeCredit, SendItem, SendRejected
<1>2. QED
  BY <1>1, AlwaysIInv, PTL DEF Spec, NothingAfterTerminal
=============================================================================
