----------------------- MODULE IdempotencyCacheProofs -----------------------
(***************************************************************************)
(* Safety of the idempotency cache for every number of keys and calls and  *)
(* every capacity and ttl.  The invariants the runs check are not          *)
(* inductive by themselves: the links between the map, the entries and the *)
(* calls (Linked, Callers), the clock (Clocked) and the finiteness of the  *)
(* map make them so.                                                       *)
(***************************************************************************)
EXTENDS IdempotencyCache, FiniteSetTheorems, SequenceTheorems, TLAPS

\* A slot holds the started entry of a call on that key, and a run in progress
\* has its slot.
Linked ==
  /\ \A k \in Keys : entries[k] # Nil =>
       key[entries[k]] = k /\ result[entries[k]] # "none"
  /\ \A w \in Calls : result[w] = "running" => entries[key[w]] = w

\* No completion lies in the future.
Clocked == \A w \in Calls : doneAt[w] <= now

\* A call that has not entered execute has no entry; one that waits or has
\* returned holds a started entry of its own key.
Callers ==
  \A c \in Calls :
    /\ pc[c] = "idle" => result[c] = "none"
    /\ pc[c] \in {"register", "check", "sleep", "returned"} =>
         entry[c] \in Calls /\ key[entry[c]] = key[c] /\ result[entry[c]] # "none"
    /\ pc[c] = "returned" => result[entry[c]] \in Outcome

IInv ==
  /\ TypeOK
  /\ Linked
  /\ Clocked
  /\ Callers
  /\ CompletedExact
  /\ CompletionOrdered
  /\ IsFiniteSet(Cached)
  /\ CacheBounded

USE CapacityPositive, TtlPositive, TimeBound, NilIsNoCall, DeterminateResults

-----------------------------------------------------------------------------
\* The initial state satisfies the inductive invariant.
LEMMA InitIInv == Init => IInv
<1> USE SMTT(30)
<1> SUFFICES ASSUME Init PROVE IInv
  BY Zenon
<1>1. TypeOK
  BY DEF Init, TypeOK, ResultState, CallState
<1>2. Linked /\ Clocked /\ Callers
  BY DEF Init, Linked, Clocked, Callers
<1>3. CompletedExact /\ CompletionOrdered
  BY DEF Init, CompletedExact, CompletionOrdered
<1>4. Cached = {}
  BY Zenon DEF Init, Cached
<1>5. IsFiniteSet(Cached) /\ CacheBounded
  BY <1>4, FS_EmptySet DEF CacheBounded
<1> QED
  BY <1>1, <1>2, <1>3, <1>5, Zenon DEF IInv

\* The pop_front loop that looks for a queued key stops exactly there.
LEMMA PopCountKey ==
  ASSUME IInv, NEW k \in Keys, k \in Cached, ~Live(entries[k])
  PROVE  /\ PopCount({k}) \in DOMAIN completed
         /\ completed[PopCount({k})] = k
<1> USE Zenon
<1>1. entries[k] # Nil /\ result[entries[k]] \in Determinate
  BY DEF Cached, Live
<1>2. PICK i \in DOMAIN completed : completed[i] = k
  BY <1>1 DEF IInv, CompletedExact
<1>3. {j \in DOMAIN completed : completed[j] \in {k}} = {i}
  BY <1>2, SMTT(30) DEF IInv, CompletedExact
<1>4. i \in Nat
  BY <1>2, LenProperties, SMTT(30) DEF IInv, TypeOK
<1>5. PopCount({k}) = i
  BY <1>3, <1>4, SMTT(30) DEF PopCount
<1> QED
  BY <1>2, <1>5

\* The pop_front loop that looks for a cached key stops at the first one.
LEMMA PopCountOldest ==
  ASSUME IInv, NEW j \in DOMAIN completed
  PROVE  /\ PopCount(Cached) = 1
         /\ 1 \in DOMAIN completed
         /\ completed[1] \in Cached
<1> USE Zenon
<1>1. /\ completed \in Seq(Keys)
      /\ DOMAIN completed = 1..Len(completed)
      /\ Len(completed) \in Nat
  BY LenProperties DEF IInv, TypeOK
<1>2. 1 \in DOMAIN completed
  BY <1>1, SMTT(30)
<1>3. \A i \in DOMAIN completed : completed[i] \in Keys
  BY <1>1, ElementOfSeq
<1>4. \A i \in DOMAIN completed : completed[i] \in Cached
  BY <1>3 DEF IInv, CompletedExact, Cached
<1>5. {i \in DOMAIN completed : completed[i] \in Cached} = 1..Len(completed)
  BY <1>1, <1>4
<1>6. /\ 1 \in 1..Len(completed)
      /\ \A i \in 1..Len(completed) : 1 <= i
      /\ \A i \in 1..Len(completed) :
           (\A m \in 1..Len(completed) : i <= m) => i = 1
  BY <1>1, <1>2, SMTT(30)
<1>7. PopCount(Cached) = CHOOSE i \in 1..Len(completed) :
                           \A m \in 1..Len(completed) : i <= m
  BY <1>5, <1>6 DEF PopCount
<1>8. PopCount(Cached) = 1
  BY <1>6, <1>7
<1> QED
  BY <1>2, <1>4, <1>8

\* Creating an entry after popping n completed keys, up to and including the
\* creator's own key when it had a slot, preserves every part of the invariant
\* that does not count the slots.
LEMMA StartPreserves ==
  ASSUME IInv, NEW c \in Calls, NEW n \in 0..Len(completed),
         pc[c] = "idle",
         Start(c, n),
         key[c] \in Cached => n \in DOMAIN completed /\ completed[n] = key[c]
  PROVE  /\ TypeOK' /\ Linked' /\ Clocked' /\ Callers'
         /\ CompletedExact' /\ CompletionOrdered'
         /\ Cached' = (Cached \ Popped(n)) \cup {key[c]}
<1> USE Zenon
<1> DEFINE m == Len(completed) - n
<1>1. /\ completed \in Seq(Keys)
      /\ Len(completed) \in Nat
      /\ DOMAIN completed = 1..Len(completed)
      /\ \A i \in DOMAIN completed : completed[i] \in Keys
  BY LenProperties, ElementOfSeq, SMTT(30) DEF IInv, TypeOK
<1>m. n \in Nat /\ m \in Nat /\ n + m = Len(completed) /\ n <= Len(completed)
  BY <1>1, SMTT(30)
<1> HIDE DEF m
<1>2. /\ completed' \in Seq(Keys)
      /\ DOMAIN completed' = 1..m
      /\ \A i \in 1..m : completed'[i] = completed[n + i] /\ n + i \in DOMAIN completed
  <2>1. completed' = SubSeq(completed, n + 1, Len(completed))
    BY DEF Start
  <2>2. completed' = [i \in 1..m |-> completed[n + i]]
    BY <1>1, <1>m, <2>1, SMTT(30)
  <2>3. \A i \in 1..m : n + i \in DOMAIN completed
    BY <1>1, <1>m, SMTT(30)
  <2>4. completed' \in [1..m -> Keys]
    BY <1>1, <2>2, <2>3
  <2>5. completed' \in Seq(Keys)
    BY <1>m, <2>4, SMTT(30)
  <2> QED
    BY <2>2, <2>3, <2>5
<1>3. \A k \in Popped(n) : \E i \in DOMAIN completed : i <= n /\ completed[i] = k
  BY <1>1, SMTT(30) DEF Popped
<1>4. \A i \in DOMAIN completed : i <= n => completed[i] \in Popped(n)
  BY <1>1, SMTT(30) DEF Popped
<1>5. /\ key[c] \in Keys
      /\ result[c] = "none"
      /\ \A k \in Keys : entries[k] # c
  BY SMTT(30) DEF IInv, TypeOK, Linked, Callers
<1>6. \A i \in DOMAIN completed' : completed'[i] \notin Popped(n)
  <2> SUFFICES ASSUME NEW i \in 1..m, NEW j \in DOMAIN completed, j <= n,
                      completed[j] = completed[n + i]
               PROVE  FALSE
    BY <1>2, <1>3, SMTT(30)
  <2>1. j = n + i
    BY <1>2 DEF IInv, CompletedExact
  <2> QED
    BY <1>m, <2>1, SMTT(30)
<1>7. \A i \in DOMAIN completed' : completed'[i] # key[c]
  <2>1. CASE key[c] \in Cached
    <3>1. key[c] \in Popped(n)
      BY <1>4, <1>m, <2>1, SMTT(30)
    <3> QED
      BY <1>6, <3>1
  <2>2. CASE key[c] \notin Cached
    <3>1. \A i \in DOMAIN completed : completed[i] # key[c]
      BY <1>5, <2>2, SMTT(30) DEF IInv, CompletedExact, Cached
    <3> QED
      BY <1>2, <3>1
  <2> QED
    BY <2>1, <2>2
<1>8. \A k \in Keys : entries'[k] = IF k = key[c] THEN c
                                    ELSE IF k \in Popped(n) THEN Nil ELSE entries[k]
  BY DEF Start, Replaced
<1>9. /\ \A w \in Calls : result'[w] = IF w = c THEN "running" ELSE result[w]
      /\ \A d \in Calls : pc'[d] = IF d = c THEN "register" ELSE pc[d]
      /\ \A d \in Calls : entry'[d] = IF d = c THEN c ELSE entry[d]
      /\ doneAt' = doneAt /\ key' = key /\ notified' = notified /\ now' = now
  BY DEF Start, IInv, TypeOK
<1>10. \A k \in Popped(n) : /\ k \in Keys
                            /\ entries[k] # Nil
                            /\ result[entries[k]] \in Determinate
  BY <1>1, <1>3, SMTT(30) DEF IInv, CompletedExact
<1>11. TypeOK'
  <2>1. /\ entries' \in [Keys -> Calls \cup {Nil}]
        /\ result' \in [Calls -> ResultState]
        /\ entry' \in [Calls -> Calls \cup {Nil}]
        /\ pc' \in [Calls -> CallState]
    BY DEF IInv, TypeOK, Start, Replaced, ResultState, CallState
  <2> QED
    BY <1>2, <1>9, <2>1 DEF IInv, TypeOK
<1>12. Linked'
  <2>1. ASSUME NEW k \in Keys, entries'[k] # Nil
        PROVE  key'[entries'[k]] = k /\ result'[entries'[k]] # "none"
    <3>1. CASE k = key[c]
      BY <1>8, <1>9, <3>1
    <3>2. CASE k # key[c]
      <4>1. entries'[k] = entries[k] /\ entries[k] # Nil
        BY <1>8, <2>1, <3>2
      <4>2. entries[k] \in Calls /\ entries[k] # c
        BY <1>5, <4>1 DEF IInv, TypeOK
      <4>3. key[entries[k]] = k /\ result[entries[k]] # "none"
        BY <4>1 DEF IInv, Linked
      <4> QED
        BY <1>9, <4>1, <4>2, <4>3
    <3> QED
      BY <3>1, <3>2
  <2>2. ASSUME NEW w \in Calls, result'[w] = "running"
        PROVE  entries'[key'[w]] = w
    <3>1. CASE w = c
      BY <1>5, <1>8, <1>9, <3>1
    <3>2. CASE w # c
      <4>1. result[w] = "running" /\ entries[key[w]] = w /\ key[w] \in Keys
        BY <1>9, <2>2, <3>2 DEF IInv, TypeOK, Linked
      <4>2. key[w] \notin Popped(n)
        BY <1>10, <4>1
      <4>3. key[w] # key[c]
        <5> SUFFICES ASSUME key[w] = key[c] PROVE FALSE
          OBVIOUS
        <5>1. key[c] \in Cached
          BY <1>5, <4>1 DEF Cached
        <5>2. key[c] \in Popped(n)
          BY <1>1, <1>4, <5>1, SMTT(30)
        <5> QED
          BY <4>2, <5>2
      <4> QED
        BY <1>8, <1>9, <4>1, <4>2, <4>3
    <3> QED
      BY <3>1, <3>2
  <2> QED
    BY <2>1, <2>2 DEF Linked
<1>13. Clocked'
  BY <1>9 DEF IInv, Clocked
<1>14. Callers'
  <2> SUFFICES ASSUME NEW d \in Calls
               PROVE  /\ pc'[d] = "idle" => result'[d] = "none"
                      /\ pc'[d] \in {"register", "check", "sleep", "returned"} =>
                           /\ entry'[d] \in Calls
                           /\ key'[entry'[d]] = key'[d]
                           /\ result'[entry'[d]] # "none"
                      /\ pc'[d] = "returned" => result'[entry'[d]] \in Outcome
    BY DEF Callers
  <2>1. CASE d = c
    BY <1>9, <2>1
  <2>2. CASE d # c
    BY <1>5, <1>9, <2>2, SMTT(30) DEF IInv, TypeOK, Callers
  <2> QED
    BY <2>1, <2>2
<1>15. CompletedExact'
  <2>1. \A i, j \in DOMAIN completed' : completed'[i] = completed'[j] => i = j
    <3> SUFFICES ASSUME NEW i \in 1..m, NEW j \in 1..m, completed'[i] = completed'[j]
                 PROVE  i = j
      BY <1>2
    <3>1. completed[n + i] = completed[n + j]
      BY <1>2
    <3>2. n + i = n + j
      BY <1>2, <3>1, SMTT(30) DEF IInv, CompletedExact
    <3> QED
      BY <1>m, <3>2, SMTT(30)
  <2>2. ASSUME NEW i \in DOMAIN completed'
        PROVE  /\ entries'[completed'[i]] # Nil
               /\ result'[entries'[completed'[i]]] \in Determinate
    <3>1. /\ completed'[i] \in Keys
          /\ entries[completed'[i]] # Nil
          /\ result[entries[completed'[i]]] \in Determinate
      BY <1>1, <1>2, SMTT(30) DEF IInv, CompletedExact
    <3>2. entries'[completed'[i]] = entries[completed'[i]]
      BY <1>6, <1>7, <1>8, <3>1
    <3> QED
      BY <1>5, <1>9, <3>1, <3>2, SMTT(30) DEF IInv, TypeOK
  <2>3. ASSUME NEW k \in Keys, entries'[k] # Nil, result'[entries'[k]] \in Determinate
        PROVE  \E i \in DOMAIN completed' : completed'[i] = k
    <3>1. k # key[c]
      BY <1>8, <1>9, <2>3
    <3>2. k \notin Popped(n) /\ entries'[k] = entries[k]
      BY <1>8, <2>3, <3>1
    <3>3. result[entries[k]] \in Determinate
      BY <1>5, <1>9, <2>3, <3>2, SMTT(30) DEF IInv, TypeOK
    <3>4. PICK j \in DOMAIN completed : completed[j] = k
      BY <2>3, <3>2, <3>3 DEF IInv, CompletedExact
    <3>5. ~(j <= n)
      BY <1>4, <3>2, <3>4
    <3>6. j - n \in 1..m /\ n + (j - n) = j
      BY <1>1, <1>m, <3>5, SMTT(30)
    <3> QED
      BY <1>2, <3>4, <3>6
  <2> QED
    BY <2>1, <2>2, <2>3 DEF CompletedExact
<1>16. CompletionOrdered'
  <2>1. \A i \in DOMAIN completed' : entries'[completed'[i]] = entries[completed[n + i]]
    BY <1>1, <1>2, <1>6, <1>7, <1>8
  <2> SUFFICES ASSUME NEW i \in DOMAIN completed', NEW j \in DOMAIN completed', i <= j
               PROVE  doneAt'[entries'[completed'[i]]] <= doneAt'[entries'[completed'[j]]]
    BY DEF CompletionOrdered
  <2>2. n + i \in DOMAIN completed /\ n + j \in DOMAIN completed /\ n + i <= n + j
    <3>1. i \in 1..m /\ j \in 1..m
      BY <1>2
    <3>2. n + i <= n + j
      BY <1>m, <3>1, SMTT(30)
    <3> QED
      BY <1>2, <3>1, <3>2
  <2>3. doneAt[entries[completed[n + i]]] <= doneAt[entries[completed[n + j]]]
    BY <2>2 DEF IInv, CompletionOrdered
  <2> QED
    BY <1>9, <2>1, <2>3
<1>17. Cached' = (Cached \ Popped(n)) \cup {key[c]}
  <2>1. \A k \in Keys : entries'[k] # Nil <=> k = key[c] \/ (k \notin Popped(n) /\ entries[k] # Nil)
    BY <1>8
  <2> QED
    BY <1>5, <2>1 DEF Cached
<1> QED
  BY <1>11, <1>12, <1>13, <1>14, <1>15, <1>16, <1>17

\* Renewing an expired key keeps the invariant: its slot is reused.
LEMMA RenewIInv ==
  ASSUME IInv, NEW c \in Calls, Renew(c)
  PROVE  IInv'
<1> USE Zenon
<1> DEFINE n == PopCount({key[c]})
<1>1. pc[c] = "idle" /\ key[c] \in Cached /\ ~Live(entries[key[c]]) /\ Start(c, n)
  BY DEF Renew
<1>2. key[c] \in Keys
  BY DEF IInv, TypeOK
<1>3. n \in DOMAIN completed /\ completed[n] = key[c]
  BY <1>1, <1>2, PopCountKey
<1>4. n \in 0..Len(completed)
  BY <1>3, LenProperties, SMTT(30) DEF IInv, TypeOK
<1> HIDE DEF n
<1>5. /\ TypeOK' /\ Linked' /\ Clocked' /\ Callers'
      /\ CompletedExact' /\ CompletionOrdered'
      /\ Cached' = (Cached \ Popped(n)) \cup {key[c]}
  BY <1>1, <1>3, <1>4, StartPreserves
<1>6. Cached' \subseteq Cached
  BY <1>1, <1>5
<1>7. IsFiniteSet(Cached') /\ Cardinality(Cached') <= Cardinality(Cached)
  BY <1>6, FS_Subset DEF IInv
<1>8. Cardinality(Cached) \in Nat /\ Cardinality(Cached') \in Nat
  BY <1>7, FS_CardinalityType DEF IInv
<1>9. CacheBounded'
  BY <1>7, <1>8, SMTT(30) DEF IInv, CacheBounded
<1> QED
  BY <1>5, <1>7, <1>9 DEF IInv

\* Taking a free slot keeps the invariant.
LEMMA AdmitIInv ==
  ASSUME IInv, NEW c \in Calls, Admit(c)
  PROVE  IInv'
<1> USE Zenon
<1>1. /\ pc[c] = "idle" /\ key[c] \notin Cached
      /\ Cardinality(Cached) < Capacity /\ Start(c, 0)
  BY DEF Admit
<1>2. 0 \in 0..Len(completed)
  BY LenProperties, SMTT(30) DEF IInv, TypeOK
<1>3. /\ TypeOK' /\ Linked' /\ Clocked' /\ Callers'
      /\ CompletedExact' /\ CompletionOrdered'
      /\ Cached' = (Cached \ Popped(0)) \cup {key[c]}
  BY <1>1, <1>2, StartPreserves
<1>4. Popped(0) = {}
  BY SMTT(30) DEF Popped
<1>5. Cached' = Cached \cup {key[c]}
  BY <1>3, <1>4
<1>6. IsFiniteSet(Cached') /\ Cardinality(Cached') = Cardinality(Cached) + 1
  BY <1>1, <1>5, FS_AddElement DEF IInv
<1>7. Cardinality(Cached) \in Nat
  BY FS_CardinalityType DEF IInv
<1>8. CacheBounded'
  BY <1>1, <1>6, <1>7, SMTT(30) DEF CacheBounded
<1> QED
  BY <1>3, <1>6, <1>8 DEF IInv

\* Evicting the oldest completed entry frees exactly the slot that is taken.
LEMMA EvictIInv ==
  ASSUME IInv, NEW c \in Calls, Evict(c)
  PROVE  IInv'
<1> USE Zenon
<1>1. /\ pc[c] = "idle" /\ key[c] \notin Cached
      /\ Start(c, PopCount(Cached))
  BY DEF Evict
<1>2. PICK j \in DOMAIN completed : completed[j] \in Cached
  BY DEF Evict
<1>3. PopCount(Cached) = 1 /\ 1 \in DOMAIN completed /\ completed[1] \in Cached
  BY <1>2, PopCountOldest
<1>4. 1 \in 0..Len(completed)
  BY <1>3, LenProperties, SMTT(30) DEF IInv, TypeOK
<1>5. /\ TypeOK' /\ Linked' /\ Clocked' /\ Callers'
      /\ CompletedExact' /\ CompletionOrdered'
      /\ Cached' = (Cached \ Popped(1)) \cup {key[c]}
  BY <1>1, <1>3, <1>4, StartPreserves
<1>6. Popped(1) = {completed[1]}
  BY SMTT(30) DEF Popped
<1>7. /\ IsFiniteSet(Cached \ {completed[1]})
      /\ Cardinality(Cached \ {completed[1]}) = Cardinality(Cached) - 1
  BY <1>3, FS_RemoveElement DEF IInv
<1>8. /\ IsFiniteSet(Cached')
      /\ Cardinality(Cached') = Cardinality(Cached \ {completed[1]}) + 1
  BY <1>1, <1>5, <1>6, <1>7, FS_AddElement
<1>9. Cardinality(Cached) \in Nat
  BY FS_CardinalityType DEF IInv
<1>10. CacheBounded'
  BY <1>7, <1>8, <1>9, SMTT(30) DEF IInv, CacheBounded
<1> QED
  BY <1>5, <1>8, <1>10 DEF IInv

\* A rejected call finds the completion queue empty and changes nothing else.
LEMMA OverloadIInv ==
  ASSUME IInv, NEW c \in Calls, Overload(c)
  PROVE  /\ IInv'
         /\ completed = <<>>
<1> USE Zenon
<1>1. DOMAIN completed = {}
  BY PopCountOldest DEF Overload
<1>2. completed = <<>>
  BY <1>1, EmptySeq, LenProperties, SMTT(30) DEF IInv, TypeOK
<1>3. completed' = completed
  BY <1>2 DEF Overload
<1>4. pc' \in [Calls -> CallState]
  BY DEF Overload, IInv, TypeOK, CallState
<1>5. TypeOK'
  BY <1>3, <1>4 DEF Overload, IInv, TypeOK
<1>6. Linked' /\ Clocked' /\ CompletedExact' /\ CompletionOrdered'
  BY <1>3, SMTT(30) DEF Overload, IInv, Linked, Clocked, CompletedExact, CompletionOrdered
<1>7. Callers'
  BY DEF Overload, IInv, TypeOK, Callers
<1>8. Cached' = Cached
  BY DEF Overload, Cached
<1> QED
  BY <1>2, <1>5, <1>6, <1>7, <1>8 DEF IInv, CacheBounded

\* A completion keeps the queue exact and ordered: the run still has its slot,
\* is not queued yet, and ends no earlier than every queued one.
LEMMA CompleteIInv ==
  ASSUME IInv, NEW w \in Calls, NEW r \in Outcome, Complete(w, r)
  PROVE  IInv'
<1> USE Zenon
<1> DEFINE L == Len(completed)
<1>1. /\ result[w] = "running" /\ completed' = Queued(w, r)
      /\ \A v \in Calls : result'[v] = IF v = w THEN r ELSE result[v]
      /\ \A v \in Calls : doneAt'[v] = IF v = w THEN now ELSE doneAt[v]
      /\ entries' = entries /\ key' = key /\ entry' = entry /\ pc' = pc /\ now' = now
  BY DEF Complete, CompleteWith, IInv, TypeOK
<1>2. /\ key[w] \in Keys /\ entries[key[w]] = w /\ w # Nil
  BY <1>1 DEF IInv, TypeOK, Linked
<1>3. /\ completed \in Seq(Keys) /\ L \in Nat /\ DOMAIN completed = 1..L
      /\ \A i \in DOMAIN completed : completed[i] \in Keys
  BY LenProperties, ElementOfSeq, SMTT(30) DEF IInv, TypeOK
<1>4. \A i \in DOMAIN completed : completed[i] # key[w]
  BY <1>1, <1>2, SMTT(30) DEF IInv, CompletedExact
<1>5. \A i \in DOMAIN completed : entries[completed[i]] \in Calls \ {w}
  <2> TAKE i \in DOMAIN completed
  <2>1. /\ completed[i] \in Keys /\ entries[completed[i]] \in Calls
        /\ key[entries[completed[i]]] = completed[i]
    BY <1>3, SMTT(30) DEF IInv, TypeOK, Linked, CompletedExact
  <2> QED
    BY <1>4, <2>1
<1>6. CompletedExact' /\ CompletionOrdered' /\ completed' \in Seq(Keys)
  <2>1. CASE r \in Determinate
    <3>1. /\ completed' \in Seq(Keys)
          /\ DOMAIN completed' = 1..(L + 1)
          /\ \A i \in 1..L : completed'[i] = completed[i]
          /\ completed'[L + 1] = key[w]
      BY <1>1, <1>2, <1>3, <2>1, SMTT(30) DEF Queued
    <3> HIDE DEF L
    <3>2. \A i \in 1..(L + 1) : i \in 1..L \/ i = L + 1
      BY <1>3, SMTT(30)
    <3>3. \A i, j \in DOMAIN completed' : completed'[i] = completed'[j] => i = j
      BY <1>3, <1>4, <3>1, <3>2, SMTT(30) DEF IInv, CompletedExact
    <3>4. ASSUME NEW k \in Keys
          PROVE  (\E i \in DOMAIN completed' : completed'[i] = k)
                   <=> (entries'[k] # Nil /\ result'[entries'[k]] \in Determinate)
      <4>1. CASE k = key[w]
        BY <1>1, <1>2, <1>3, <2>1, <3>1, <4>1, SMTT(30)
      <4>2. CASE k # key[w]
        <5>1. (\E i \in DOMAIN completed' : completed'[i] = k)
                <=> (\E i \in DOMAIN completed : completed[i] = k)
          BY <1>3, <3>1, <3>2, <4>2, SMTT(30)
        <5>2. entries[k] # w
          BY <4>2, NilIsNoCall DEF IInv, Linked
        <5>3. entries'[k] = entries[k] /\ (entries[k] # Nil => entries[k] \in Calls)
          BY <1>1 DEF IInv, TypeOK
        <5> QED
          BY <1>1, <5>1, <5>2, <5>3 DEF IInv, CompletedExact
      <4> QED
        BY <4>1, <4>2
    <3>5. ASSUME NEW i \in DOMAIN completed', NEW j \in DOMAIN completed', i <= j
          PROVE  doneAt'[entries'[completed'[i]]] <= doneAt'[entries'[completed'[j]]]
      <4>1. CASE j \in 1..L
        <5>1. i \in 1..L
          BY <1>3, <3>1, <3>5, <4>1, SMTT(30)
        <5>2. doneAt[entries[completed[i]]] <= doneAt[entries[completed[j]]]
          BY <1>3, <3>5, <4>1, <5>1 DEF IInv, CompletionOrdered
        <5> QED
          BY <1>1, <1>3, <1>5, <3>1, <4>1, <5>1, <5>2, SMTT(30)
      <4>2. CASE j = L + 1
        <5>1. doneAt'[entries'[completed'[j]]] = now
          BY <1>1, <1>2, <3>1, <4>2
        <5>2. CASE i \in 1..L
          <6>1. doneAt[entries[completed[i]]] <= now
            BY <1>3, <1>5, <5>2 DEF IInv, Clocked
          <6> QED
            BY <1>1, <1>3, <1>5, <3>1, <5>1, <5>2, <6>1, SMTT(30)
        <5>3. CASE i = L + 1
          BY <4>2, <5>1, <5>3, SMTT(30) DEF IInv, TypeOK
        <5> QED
          BY <3>1, <3>2, <5>2, <5>3
      <4> QED
        BY <3>1, <3>2, <4>1, <4>2
    <3> QED
      BY <3>1, <3>3, <3>4, <3>5 DEF CompletedExact, CompletionOrdered
  <2>2. CASE r \notin Determinate
    <3>1. completed' = completed
      BY <1>1, <2>2 DEF Queued
    <3>2. \A k \in Keys : (entries'[k] # Nil /\ result'[entries'[k]] \in Determinate)
                           <=> (entries[k] # Nil /\ result[entries[k]] \in Determinate)
      <4>1. \A k \in Keys : entries[k] # Nil => entries[k] \in Calls
        BY DEF IInv, TypeOK
      <4>2. \A v \in Calls : result'[v] \in Determinate <=> result[v] \in Determinate
        BY <1>1, <2>2
      <4> QED
        BY <1>1, <4>1, <4>2
    <3>3. CompletedExact'
      BY <3>1, <3>2 DEF IInv, CompletedExact
    <3>4. CompletionOrdered'
      BY <1>1, <1>5, <3>1, SMTT(30) DEF IInv, CompletionOrdered
    <3> QED
      BY <1>3, <3>1, <3>3, <3>4
  <2> QED
    BY <2>1, <2>2
<1>7. TypeOK'
  <2>1. notified' \in [Calls -> BOOLEAN]
    BY DEF Complete, CompleteWith
  <2>2. result' \in [Calls -> ResultState] /\ doneAt' \in [Calls -> Nat]
    BY DEF Complete, CompleteWith, IInv, TypeOK, ResultState
  <2> QED
    BY <1>1, <1>6, <2>1, <2>2 DEF IInv, TypeOK
<1>8. r # "none" /\ r # "running"
  BY DEF Outcome
<1>9. Linked'
  <2>1. ASSUME NEW k \in Keys, entries'[k] # Nil
        PROVE  key'[entries'[k]] = k /\ result'[entries'[k]] # "none"
    <3>1. entries[k] \in Calls
      BY <1>1, <2>1 DEF IInv, TypeOK
    <3>2. key[entries[k]] = k /\ result[entries[k]] # "none"
      BY <1>1, <2>1 DEF IInv, Linked
    <3> QED
      BY <1>1, <1>8, <3>1, <3>2
  <2>2. ASSUME NEW v \in Calls, result'[v] = "running"
        PROVE  entries'[key'[v]] = v
    <3>1. result[v] = "running"
      BY <1>1, <2>2
    <3> QED
      BY <1>1, <3>1 DEF IInv, Linked
  <2> QED
    BY <2>1, <2>2 DEF Linked
<1>10. Clocked'
  <2>1. now \in Nat
    BY DEF IInv, TypeOK
  <2> QED
    BY <1>1, <2>1, SMTT(30) DEF IInv, Clocked
<1>11. Callers'
  BY <1>1, <1>8 DEF IInv, TypeOK, Callers
<1>12. Cached' = Cached
  BY <1>1 DEF Cached
<1> QED
  BY <1>6, <1>7, <1>9, <1>10, <1>11, <1>12 DEF IInv, CacheBounded

\* A step that leaves the map, the queue and the results alone keeps the
\* invariant when it keeps the part about the calls.
LEMMA LocalIInv ==
  ASSUME IInv, TypeOK', Callers', now <= now',
         UNCHANGED <<entries, completed, result, doneAt, key>>
  PROVE  IInv'
<1> USE Zenon
<1>1. Linked' /\ CompletedExact' /\ CompletionOrdered'
  BY DEF IInv, Linked, CompletedExact, CompletionOrdered
<1>2. Clocked'
  BY SMTT(30) DEF IInv, TypeOK, Clocked
<1>3. Cached' = Cached
  BY DEF Cached
<1> QED
  BY <1>1, <1>2, <1>3 DEF IInv, CacheBounded

\* Every step keeps the inductive invariant.
LEMMA NextIInv == IInv /\ [Next]_vars => IInv'
<1> USE Zenon
<1> SUFFICES ASSUME IInv, [Next]_vars PROVE IInv'
  OBVIOUS
<1> now \in Nat
  BY DEF IInv, TypeOK
<1>1. ASSUME NEW c \in Calls, Hit(c) PROVE IInv'
  <2>1. /\ entries[key[c]] \in Calls /\ key[c] \in Keys
        /\ key[entries[key[c]]] = key[c] /\ result[entries[key[c]]] # "none"
    BY <1>1 DEF Hit, Cached, IInv, TypeOK, Linked
  <2>2. TypeOK'
    BY <1>1, <2>1 DEF Hit, IInv, TypeOK, CallState
  <2>3. Callers'
    BY <1>1, <2>1 DEF Hit, IInv, TypeOK, Callers
  <2> QED
    BY <1>1, <2>2, <2>3, LocalIInv, SMTT(30) DEF Hit
<1>2. ASSUME NEW c \in Calls, Register(c) PROVE IInv'
  <2>1. TypeOK'
    BY <1>2 DEF Register, IInv, TypeOK, CallState
  <2>2. Callers'
    BY <1>2 DEF Register, IInv, TypeOK, Callers
  <2> QED
    BY <1>2, <2>1, <2>2, LocalIInv, SMTT(30) DEF Register
<1>3. ASSUME NEW c \in Calls, Check(c) PROVE IInv'
  <2>1. TypeOK'
    BY <1>3 DEF Check, IInv, TypeOK, CallState
  <2>2. Callers'
    BY <1>3 DEF Check, IInv, TypeOK, Callers
  <2> QED
    BY <1>3, <2>1, <2>2, LocalIInv, SMTT(30) DEF Check
<1>4. ASSUME NEW c \in Calls, Wake(c) PROVE IInv'
  <2>1. TypeOK'
    BY <1>4 DEF Wake, IInv, TypeOK, CallState
  <2>2. Callers'
    BY <1>4 DEF Wake, IInv, TypeOK, Callers
  <2> QED
    BY <1>4, <2>1, <2>2, LocalIInv, SMTT(30) DEF Wake
<1>5. ASSUME NEW c \in Calls, CancelWaiter(c) PROVE IInv'
  <2>1. TypeOK'
    BY <1>5 DEF CancelWaiter, IInv, TypeOK, CallState
  <2>2. Callers'
    BY <1>5 DEF CancelWaiter, IInv, TypeOK, Callers
  <2> QED
    BY <1>5, <2>1, <2>2, LocalIInv, SMTT(30) DEF CancelWaiter
<1>6. ASSUME Tick PROVE IInv'
  <2>1. TypeOK' /\ now <= now'
    BY <1>6, SMTT(30) DEF Tick, IInv, TypeOK
  <2>2. Callers'
    BY <1>6 DEF Tick, IInv, Callers
  <2> QED
    BY <1>6, <2>1, <2>2, LocalIInv DEF Tick
<1>7. ASSUME UNCHANGED vars PROVE IInv'
  <2>1. TypeOK' /\ Callers' /\ now <= now'
    BY <1>7, SMTT(30) DEF vars, IInv, TypeOK, Callers
  <2> QED
    BY <1>7, <2>1, LocalIInv DEF vars
<1> QED
  BY <1>1, <1>2, <1>3, <1>4, <1>5, <1>6, <1>7, RenewIInv, AdmitIInv, EvictIInv, OverloadIInv,
     CompleteIInv DEF Next

\* Every reachable state satisfies the inductive invariant.
LEMMA AlwaysIInv == Spec => []IInv
  BY InitIInv, NextIInv, PTL DEF Spec

-----------------------------------------------------------------------------
\* The map, the queue, the entries and the calls keep their types.
THEOREM TypeCorrect == Spec => []TypeOK
<1>1. IInv => TypeOK
  BY Zenon DEF IInv
<1> QED
  BY <1>1, AlwaysIInv, PTL

\* The map of execute never holds more than `capacity` entries.
THEOREM Bounded == Spec => []CacheBounded
<1>1. IInv => CacheBounded
  BY Zenon DEF IInv
<1> QED
  BY <1>1, AlwaysIInv, PTL

\* The completion queue lists exactly the determinate entries of the map.
THEOREM QueueExact == Spec => []CompletedExact
<1>1. IInv => CompletedExact
  BY Zenon DEF IInv
<1> QED
  BY <1>1, AlwaysIInv, PTL

\* It lists them in the order in which their workers completed them, so that
\* the entry dropped under pressure is the oldest.
THEOREM QueueOrdered == Spec => []CompletionOrdered
<1>1. IInv => CompletionOrdered
  BY Zenon DEF IInv
<1> QED
  BY <1>1, AlwaysIInv, PTL

\* The workers of one key never overlap.
THEOREM SingleRun == Spec => []OneRunPerKey
<1>1. IInv => OneRunPerKey
  BY Zenon DEF IInv, Linked, OneRunPerKey
<1> QED
  BY <1>1, AlwaysIInv, PTL

\* The pops of a renewal only remove entries that have themselves expired.
LEMMA RenewDropsExpired ==
  ASSUME IInv, NEW c \in Calls, Renew(c), NEW k \in Keys
  PROVE  ~DroppedLive(k)
<1> USE Zenon
<1> SUFFICES ASSUME DroppedLive(k) PROVE FALSE
  OBVIOUS
<1> DEFINE n == PopCount({key[c]})
<1>1. key[c] \in Keys /\ key[c] \in Cached /\ ~Live(entries[key[c]]) /\ Start(c, n)
  BY DEF Renew, IInv, TypeOK
<1>2. n \in DOMAIN completed /\ completed[n] = key[c]
  BY <1>1, PopCountKey
<1> HIDE DEF n
<1>3. entries[k] # Nil /\ Live(entries[k]) /\ entries'[k] # entries[k]
  BY DEF DroppedLive
<1>4. k # key[c]
  BY <1>1, <1>3
<1>5. k \in Popped(n)
  BY <1>1, <1>3, <1>4 DEF Start, Replaced
<1>6. PICK i \in 1..n : completed[i] = k
  BY <1>5 DEF Popped
<1>7. i \in DOMAIN completed /\ i <= n
  BY <1>2, <1>6, LenProperties, SMTT(30) DEF IInv, TypeOK
<1>8. doneAt[entries[k]] <= doneAt[entries[key[c]]]
  BY <1>2, <1>6, <1>7 DEF IInv, CompletionOrdered
<1>9. result[entries[k]] \in Determinate
  BY <1>6, <1>7 DEF IInv, CompletedExact
<1>10. /\ doneAt[entries[k]] \in Nat /\ doneAt[entries[key[c]]] \in Nat /\ now \in Nat
  BY <1>1, <1>3 DEF Cached, IInv, TypeOK
<1>11. ~(now - doneAt[entries[key[c]]] < Ttl) /\ now - doneAt[entries[k]] < Ttl
  BY <1>1, <1>3, <1>9 DEF Live
<1> QED
  BY <1>8, <1>10, <1>11, SMTT(30)

\* A determinate result younger than the ttl leaves the map only as the oldest
\* completed entry of a full cache, and alone.
THEOREM EarlyDrop == Spec => EarlyDropOnlyUnderPressure
<1> USE Zenon
<1> DEFINE Pressed(k) == /\ Cardinality(Cached) >= Capacity
                         /\ completed # <<>> /\ k = Head(completed)
                         /\ \A q \in Cached \ {k} : entries'[q] = entries[q]
<1>1. ASSUME IInv, [Next]_vars, NEW k \in Keys, DroppedLive(k)
      PROVE  Pressed(k)
  <2>1. entries[k] # Nil /\ entries'[k] # entries[k] /\ k \in Cached
    BY <1>1 DEF DroppedLive, Cached
  <2>2. PICK c \in Calls : Renew(c) \/ Admit(c) \/ Evict(c)
    BY <1>1, <2>1 DEF Next, vars, Hit, Overload, Register, Check, Wake, CancelWaiter, Complete,
       CompleteWith, Tick
  <2>3. CASE Renew(c)
    BY <1>1, <2>3, RenewDropsExpired
  <2>4. CASE Admit(c)
    <3>1. Popped(0) = {}
      BY SMTT(30) DEF Popped
    <3> QED
      BY <2>1, <2>4, <3>1 DEF Admit, Start, Replaced
  <2>5. CASE Evict(c)
    <3>1. PICK j \in DOMAIN completed : completed[j] \in Cached
      BY <2>5 DEF Evict
    <3>2. PopCount(Cached) = 1 /\ 1 \in DOMAIN completed
      BY <1>1, <3>1, PopCountOldest
    <3>3. Popped(1) = {completed[1]}
      BY SMTT(30) DEF Popped
    <3>4. entries' = [q \in Keys |-> IF q = key[c] THEN c
                                     ELSE IF q = completed[1] THEN Nil ELSE entries[q]]
      BY <2>5, <3>2, <3>3 DEF Evict, Start, Replaced
    <3>5. key[c] \notin Cached /\ Cardinality(Cached) >= Capacity
      BY <2>5 DEF Evict
    <3>6. k = completed[1]
      BY <2>1, <3>4, <3>5
    <3>7. completed # <<>> /\ Head(completed) = completed[1]
      BY <1>1, <3>2, SMTT(30) DEF IInv, TypeOK
    <3>8. \A q \in Cached \ {k} : entries'[q] = entries[q]
      BY <3>4, <3>5, <3>6 DEF Cached
    <3> QED
      BY <3>5, <3>6, <3>7, <3>8
  <2> QED
    BY <2>2, <2>3, <2>4, <2>5
<1>2. IInv /\ [Next]_vars => [\A k \in Keys : DroppedLive(k) => Pressed(k)]_vars
  BY <1>1
<1> QED
  BY <1>2, AlwaysIInv, PTL DEF Spec, EarlyDropOnlyUnderPressure

\* Overloaded is returned only when every slot is held by a pending or an
\* indeterminate operation.
THEOREM OverloadedMeansPinned == Spec => OverloadedOnlyWhenPinned
<1> USE Zenon
<1> DEFINE Pinned == /\ Cardinality(Cached) >= Capacity
                     /\ \A k \in Cached : result[entries[k]] \notin Determinate
<1>1. ASSUME IInv, [Next]_vars, NEW c \in Calls,
             pc[c] # "overloaded", pc'[c] = "overloaded"
      PROVE  Pinned
  <2>1. PICK d \in Calls : Overload(d)
    BY <1>1 DEF Next, vars, Hit, Renew, Admit, Evict, Start, Register, Check, Wake, CancelWaiter,
       Complete, CompleteWith, Tick, IInv, TypeOK
  <2>2. completed = <<>>
    BY <1>1, <2>1, OverloadIInv
  <2>3. \A k \in Cached : result[entries[k]] \notin Determinate
    <3>1. \A k \in Keys : ~\E i \in DOMAIN completed : completed[i] = k
      BY <2>2, SMTT(30)
    <3> QED
      BY <1>1, <3>1 DEF IInv, CompletedExact, Cached
  <2> QED
    BY <2>1, <2>3 DEF Overload
<1>2. IInv /\ [Next]_vars =>
        [\A c \in Calls : pc[c] # "overloaded" /\ pc'[c] = "overloaded" => Pinned]_vars
  BY <1>1
<1> QED
  BY <1>2, AlwaysIInv, PTL DEF Spec, OverloadedOnlyWhenPinned

-----------------------------------------------------------------------------
(***************************************************************************)
(* The refinement: what SingleFlight sees of the cache.                    *)
(***************************************************************************)
StatusOf == [k \in Keys |-> IF entries[k] = Nil THEN "absent" ELSE result[entries[k]]]
OutcomesOf ==
  [k \in Keys |-> {result[w] : w \in {c \in Calls : key[c] = k /\ result[c] \in Outcome}}]
AnswerOf == [c \in Calls |-> IF pc[c] = "returned" THEN result[entry[c]] ELSE "none"]

\* Creating an entry is the Begin of its key, letting go of the popped keys.
LEMMA StartImplements ==
  ASSUME IInv, NEW c \in Calls, NEW n \in 0..Len(completed),
         pc[c] = "idle", Start(c, n),
         key[c] \in Cached => result[entries[key[c]]] \in Determinate
  PROVE  Promise!Next
<1> USE Zenon
<1>1. key[c] \in Keys /\ result[c] = "none" /\ \A k \in Keys : entries[k] # c
  BY SMTT(30) DEF IInv, TypeOK, Linked, Callers
<1>2. \A f \in Popped(n) : /\ f \in Keys /\ entries[f] # Nil
                           /\ result[entries[f]] \in Determinate
  <2> SUFFICES ASSUME NEW i \in 1..n
               PROVE  /\ completed[i] \in Keys /\ entries[completed[i]] # Nil
                      /\ result[entries[completed[i]]] \in Determinate
    BY DEF Popped
  <2>1. i \in DOMAIN completed
    BY LenProperties, SMTT(30) DEF IInv, TypeOK
  <2>2. completed[i] \in Keys
    BY <2>1, ElementOfSeq, LenProperties, SMTT(30) DEF IInv, TypeOK
  <2> QED
    BY <2>1, <2>2 DEF IInv, CompletedExact
<1>3. /\ entries' = Replaced(c, n)
      /\ \A w \in Calls : result'[w] = IF w = c THEN "running" ELSE result[w]
      /\ \A d \in Calls : pc'[d] = IF d = c THEN "register" ELSE pc[d]
      /\ \A d \in Calls : entry'[d] = IF d = c THEN c ELSE entry[d]
      /\ key' = key
  BY DEF Start, IInv, TypeOK
<1>4. StatusOf' = [q \in Keys |-> IF q = key[c] THEN "running"
                                  ELSE IF q \in Popped(n) THEN "absent" ELSE StatusOf[q]]
  <2>1. ASSUME NEW q \in Keys
        PROVE  StatusOf'[q] = IF q = key[c] THEN "running"
                              ELSE IF q \in Popped(n) THEN "absent" ELSE StatusOf[q]
    <3>1. StatusOf'[q] = IF entries'[q] = Nil THEN "absent" ELSE result'[entries'[q]]
      BY DEF StatusOf
    <3>2. StatusOf[q] = IF entries[q] = Nil THEN "absent" ELSE result[entries[q]]
      BY DEF StatusOf
    <3>3. entries'[q] = IF q = key[c] THEN c
                        ELSE IF q \in Popped(n) THEN Nil ELSE entries[q]
      BY <1>3 DEF Replaced
    <3>4. entries[q] = Nil \/ (entries[q] \in Calls /\ entries[q] # c)
      BY <1>1 DEF IInv, TypeOK
    <3> QED
      BY <1>3, <3>1, <3>2, <3>3, <3>4
  <2> QED
    BY <2>1 DEF StatusOf
<1>5. OutcomesOf' = OutcomesOf
  <2>1. \A k \in Keys : {d \in Calls : key'[d] = k /\ result'[d] \in Outcome}
                         = {d \in Calls : key[d] = k /\ result[d] \in Outcome}
    BY <1>1, <1>3 DEF Outcome
  <2>2. \A k \in Keys : \A d \in {e \in Calls : key[e] = k /\ result[e] \in Outcome} :
          result'[d] = result[d]
    BY <1>1, <1>3 DEF Outcome
  <2>3. ASSUME NEW k \in Keys
        PROVE  {result'[w] : w \in {d \in Calls : key'[d] = k /\ result'[d] \in Outcome}}
                 = {result[w] : w \in {d \in Calls : key[d] = k /\ result[d] \in Outcome}}
    BY <2>1, <2>2, SMTT(30)
  <2> QED
    BY <2>3 DEF OutcomesOf
<1>6. AnswerOf' = AnswerOf
  <2>1. ASSUME NEW d \in Calls
        PROVE  (IF pc'[d] = "returned" THEN result'[entry'[d]] ELSE "none")
                 = (IF pc[d] = "returned" THEN result[entry[d]] ELSE "none")
    <3>1. CASE d = c
      BY <1>3, <3>1
    <3>2. CASE d # c
      <4>1. pc[d] = "returned" => entry[d] \in Calls /\ result[entry[d]] # "none"
        BY DEF IInv, Callers
      <4> QED
        BY <1>1, <1>3, <3>2, <4>1
    <3> QED
      BY <3>1, <3>2
  <2> QED
    BY <2>1 DEF AnswerOf
<1>7. StatusOf[key[c]] \in {"absent"} \cup Determinate
  BY <1>1 DEF StatusOf, Cached
<1>8. \A f \in Popped(n) : StatusOf[f] \in Determinate
  BY <1>2 DEF StatusOf
<1>9. PICK k \in Keys, F \in SUBSET Keys : k = key[c] /\ F = Popped(n)
  BY <1>1, <1>2
<1>10. Promise!Begin(k, F)
  BY <1>3, <1>4, <1>5, <1>6, <1>7, <1>8, <1>9 DEF Promise!Begin, StatusOf, OutcomesOf, AnswerOf
<1> QED
  BY <1>9, <1>10 DEF Promise!Next

\* A completion is the Settle of its key.
LEMMA CompleteImplements ==
  ASSUME IInv, NEW w \in Calls, NEW r \in Outcome, Complete(w, r)
  PROVE  Promise!Next
<1> USE Zenon
<1>1. /\ result[w] = "running"
      /\ \A v \in Calls : result'[v] = IF v = w THEN r ELSE result[v]
      /\ entries' = entries /\ key' = key /\ entry' = entry /\ pc' = pc
  BY DEF Complete, CompleteWith, IInv, TypeOK
<1>2. /\ key[w] \in Keys /\ entries[key[w]] = w /\ w # Nil
  BY <1>1 DEF IInv, TypeOK, Linked
<1>3. PICK k \in Keys : k = key[w]
  BY <1>2
<1>4. StatusOf' = [StatusOf EXCEPT ![k] = r]
  <2>1. ASSUME NEW q \in Keys
        PROVE  (IF entries'[q] = Nil THEN "absent" ELSE result'[entries'[q]])
                 = IF q = k THEN r
                   ELSE IF entries[q] = Nil THEN "absent" ELSE result[entries[q]]
    <3>1. CASE q = k
      BY <1>1, <1>2, <1>3, <3>1
    <3>2. CASE q # k
      <4>1. entries[q] # w /\ (entries[q] # Nil => entries[q] \in Calls)
        BY <1>2, <1>3, <3>2 DEF IInv, TypeOK, Linked
      <4> QED
        BY <1>1, <3>2, <4>1
    <3> QED
      BY <3>1, <3>2
  <2> QED
    BY <2>1 DEF StatusOf
<1>5. OutcomesOf' = [OutcomesOf EXCEPT ![k] = @ \cup {r}]
  <2>1. result[w] \notin Outcome
    BY <1>1 DEF Outcome
  <2>2. ASSUME NEW q \in Keys
        PROVE  {result'[v] : v \in {d \in Calls : key'[d] = q /\ result'[d] \in Outcome}}
                 = {result[v] : v \in {d \in Calls : key[d] = q /\ result[d] \in Outcome}}
                     \cup (IF q = k THEN {r} ELSE {})
    <3>1. CASE q = k
      <4>1. {d \in Calls : key'[d] = q /\ result'[d] \in Outcome}
              = {d \in Calls : key[d] = q /\ result[d] \in Outcome} \cup {w}
        BY <1>1, <1>3, <2>1, <3>1
      <4>2. \A d \in {e \in Calls : key[e] = q /\ result[e] \in Outcome} :
              result'[d] = result[d]
        BY <1>1, <2>1
      <4> QED
        BY <1>1, <3>1, <4>1, <4>2, SMTT(30)
    <3>2. CASE q # k
      <4>1. {d \in Calls : key'[d] = q /\ result'[d] \in Outcome}
              = {d \in Calls : key[d] = q /\ result[d] \in Outcome}
        BY <1>1, <1>3, <3>2
      <4>2. \A d \in {e \in Calls : key[e] = q /\ result[e] \in Outcome} :
              result'[d] = result[d]
        BY <1>1, <2>1
      <4> QED
        BY <3>2, <4>1, <4>2
    <3> QED
      BY <3>1, <3>2
  <2> QED
    BY <2>2 DEF OutcomesOf
<1>6. AnswerOf' = AnswerOf
  <2>1. ASSUME NEW d \in Calls
        PROVE  (IF pc'[d] = "returned" THEN result'[entry'[d]] ELSE "none")
                 = (IF pc[d] = "returned" THEN result[entry[d]] ELSE "none")
    <3>1. pc[d] = "returned" => entry[d] \in Calls /\ result[entry[d]] \in Outcome
      BY DEF IInv, Callers
    <3>2. pc[d] = "returned" => entry[d] # w
      BY <1>1, <3>1 DEF Outcome
    <3> QED
      BY <1>1, <3>1, <3>2
  <2> QED
    BY <2>1 DEF AnswerOf
<1>7. StatusOf[k] = "running"
  BY <1>1, <1>2, <1>3 DEF StatusOf
<1>8. Promise!Settle(k, r)
  BY <1>1, <1>4, <1>5, <1>6, <1>7 DEF Promise!Settle, StatusOf, OutcomesOf, AnswerOf
<1>9. r \in Promise!Outcome
  BY DEF Outcome, Promise!Outcome
<1> QED
  BY <1>8, <1>9 DEF Promise!Next

\* A waiter that finds the result is the Answer of its call, and one that goes
\* to sleep is a stuttering step.
LEMMA CheckImplements ==
  ASSUME IInv, NEW c \in Calls, Check(c)
  PROVE  [Promise!Next]_(Promise!vars)
<1> USE Zenon
<1>1. /\ pc[c] = "check"
      /\ \A d \in Calls : pc'[d] = IF d = c THEN IF result[entry[c]] \in Outcome
                                                 THEN "returned" ELSE "sleep"
                                   ELSE pc[d]
      /\ entries' = entries /\ result' = result /\ key' = key /\ entry' = entry
  BY DEF Check, IInv, TypeOK
<1>2. entry[c] \in Calls /\ key[entry[c]] = key[c] /\ key[c] \in Keys
  BY <1>1 DEF IInv, TypeOK, Callers
<1>3. StatusOf' = StatusOf /\ OutcomesOf' = OutcomesOf
  BY <1>1 DEF StatusOf, OutcomesOf
<1>4. CASE result[entry[c]] \in Outcome
  <2>1. PICK r \in Outcome : r = result[entry[c]]
    BY <1>4
  <2>2. AnswerOf' = [AnswerOf EXCEPT ![c] = r]
    BY <1>1, <2>1 DEF AnswerOf
  <2>3. AnswerOf[c] = "none"
    BY <1>1 DEF AnswerOf
  <2>4. r \in OutcomesOf[key[c]]
    BY <1>2, <2>1 DEF OutcomesOf
  <2>5. Promise!Answer(c, r)
    BY <1>1, <1>3, <2>2, <2>3, <2>4 DEF Promise!Answer, StatusOf, OutcomesOf, AnswerOf
  <2>6. r \in Promise!Outcome
    BY DEF Outcome, Promise!Outcome
  <2> QED
    BY <2>5, <2>6 DEF Promise!Next
<1>5. CASE result[entry[c]] \notin Outcome
  <2>1. AnswerOf' = AnswerOf
    BY <1>1, <1>5 DEF AnswerOf
  <2> QED
    BY <1>1, <1>3, <2>1 DEF Promise!vars, StatusOf, OutcomesOf, AnswerOf
<1> QED
  BY <1>4, <1>5

\* Every step of the cache is a step of SingleFlight or a stuttering one.
LEMMA StepImplements == IInv /\ [Next]_vars => [Promise!Next]_(Promise!vars)
<1> USE Zenon
<1> SUFFICES ASSUME IInv, [Next]_vars PROVE [Promise!Next]_(Promise!vars)
  OBVIOUS
<1>1. ASSUME NEW c \in Calls, Renew(c) PROVE Promise!Next
  <2>1. pc[c] = "idle" /\ key[c] \in Cached /\ ~Live(entries[key[c]]) /\ key[c] \in Keys
    BY <1>1 DEF Renew, IInv, TypeOK
  <2>2. PopCount({key[c]}) \in DOMAIN completed
    BY <2>1, PopCountKey
  <2>3. PopCount({key[c]}) \in 0..Len(completed)
    BY <2>2, LenProperties, SMTT(30) DEF IInv, TypeOK
  <2>4. PICK n \in 0..Len(completed) : n = PopCount({key[c]})
    BY <2>3
  <2> QED
    BY <1>1, <2>1, <2>4, StartImplements DEF Renew, Live
<1>2. ASSUME NEW c \in Calls, Admit(c) PROVE Promise!Next
  <2>1. 0 \in 0..Len(completed)
    BY LenProperties, SMTT(30) DEF IInv, TypeOK
  <2> QED
    BY <1>2, <2>1, StartImplements DEF Admit
<1>3. ASSUME NEW c \in Calls, Evict(c) PROVE Promise!Next
  <2>1. PICK j \in DOMAIN completed : completed[j] \in Cached
    BY <1>3 DEF Evict
  <2>2. PopCount(Cached) = 1 /\ 1 \in 0..Len(completed)
    BY <2>1, PopCountOldest, LenProperties, SMTT(30) DEF IInv, TypeOK
  <2> QED
    BY <1>3, <2>2, StartImplements DEF Evict
<1>4. ASSUME NEW c \in Calls, Hit(c) \/ Overload(c) \/ Register(c) \/ Wake(c) \/ CancelWaiter(c)
      PROVE  UNCHANGED Promise!vars
  <2>1. /\ entries' = entries /\ result' = result /\ key' = key
        /\ \A d \in Calls \ {c} : pc'[d] = pc[d] /\ entry'[d] = entry[d]
        /\ pc[c] # "returned" /\ pc'[c] # "returned"
    BY <1>4 DEF Hit, Overload, Register, Wake, CancelWaiter, IInv, TypeOK
  <2>2. AnswerOf' = AnswerOf
    BY <2>1 DEF AnswerOf
  <2> QED
    BY <2>1, <2>2, SMTT(30) DEF Promise!vars, AnswerOf
<1>5. ASSUME Tick \/ UNCHANGED vars PROVE UNCHANGED Promise!vars
  BY <1>5 DEF Tick, vars, Promise!vars
<1> QED
  BY <1>1, <1>2, <1>3, <1>4, <1>5, CheckImplements, CompleteImplements DEF Next

\* The cache implements SingleFlight, for every number of keys and calls: the
\* map, the clock, the evictions and the cancellations are invisible.
THEOREM Implements == Spec => ImplementsSingleFlight
<1>1. ASSUME Init PROVE Promise!Init
  <2> USE Zenon
  <2>1. \A k \in Keys : {c \in Calls : key[c] = k /\ result[c] \in Outcome} = {}
    BY <1>1 DEF Init, Outcome
  <2>2. OutcomesOf = [k \in Keys |-> {}]
    BY <2>1 DEF OutcomesOf
  <2> QED
    BY <1>1, <2>2 DEF Init, Promise!Init, OutcomesOf
<1> QED
  BY <1>1, AlwaysIInv, StepImplements, PTL DEF Spec, ImplementsSingleFlight, Promise!Spec

=============================================================================
