---------------------------- MODULE FairSemaphore ----------------------------
(***************************************************************************)
(* tokio::sync::Semaphore as acquire_many and try_acquire_many use it.     *)
(* Waiters are served in order; the first one takes what is released       *)
(* although it is not yet enough, so nothing is free while someone waits.  *)
(***************************************************************************)
EXTENDS Integers, SequencesExt

New(permits) == [free |-> permits, queue |-> <<>>]

TryAcquire(sem, n) == n <= sem.free

Take(sem, n) == [sem EXCEPT !.free = @ - n]

\* acquire_many: at once, or in the queue with what there is.
Acquire(sem, who, n) ==
  IF TryAcquire(sem, n) THEN Take(sem, n)
  ELSE [free |-> 0, queue |-> Append(sem.queue, [who |-> who, need |-> n - sem.free,
                                                 got |-> sem.free])]

Waits(sem, who) == \E i \in DOMAIN sem.queue : sem.queue[i].who = who

\* A permit of n is dropped: the waiters get it in order.
Release(sem, n) ==
  LET q         == sem.queue
      before(i) == SumFunctionOnSet([k \in DOMAIN q |-> q[k].need], 1 .. i - 1)
      share(i)  == LET left == n - before(i)
                   IN  IF left <= 0 THEN 0
                       ELSE IF left < q[i].need THEN left ELSE q[i].need
      fed       == [i \in DOMAIN q |-> [q[i] EXCEPT !.need = @ - share(i), !.got = @ + share(i)]]
      rest      == n - before(Len(q) + 1)
  IN  [free |-> sem.free + IF rest > 0 THEN rest ELSE 0,
       queue |-> SelectSeq(fed, LAMBDA w : w.need > 0)]

\* The future of a waiter is dropped: what it had goes back.
Cancel(sem, who) ==
  LET mine == SelectSeq(sem.queue, LAMBDA w : w.who = who)
  IN  Release([sem EXCEPT !.queue = SelectSeq(@, LAMBDA w : w.who # who)], Head(mine).got)

\* All permits that are free or with a waiter.
Undrawn(sem) ==
  sem.free + SumFunction([i \in DOMAIN sem.queue |-> sem.queue[i].got])

=============================================================================
