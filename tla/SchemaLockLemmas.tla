--------------------------- MODULE SchemaLockLemmas ---------------------------
(***************************************************************************)
(* What the operators of the contract, its lock and its router do, for any *)
(* declarations, methods and numbers: the walk of range_is_covered is      *)
(* exact, generated declarations and locks have the numbers of their       *)
(* source, edits keep to their place, and a builder that takes the methods *)
(* of a contract one after the other serves them.                          *)
(***************************************************************************)
EXTENDS SchemaLock, FoldLemmas

-----------------------------------------------------------------------------
(* The walk over the ranges                                                *)

\* The ends a step of the walk can move to, and where it moves.
Ends(available, x, at) == {r.end : r \in {q \in available : q.start = x - 1 /\ q.end > at}}

Walk(required, available, x, at) ==
  IF at = Gap \/ (at > required.start /\ at >= required.end) \/ Ends(available, x, at) = {}
  THEN at
  ELSE IF x - 1 > at THEN Gap
  ELSE Furthest(Ends(available, x, at))

\* g is the cursor of range_is_covered.
IsCursor(g, required, available) ==
  g = [x \in 0 .. MaxNumber + 1 |->
         IF x = 0 THEN required.start ELSE Walk(required, available, x, g[x - 1])]

\* The largest of the ends, as Furthest chooses it.
LEMMA FurthestEnd ==
  ASSUME NEW available \in SUBSET Ranges, NEW x \in Nat, NEW at \in Int,
         Ends(available, x, at) # {}
  PROVE  LET e == Furthest(Ends(available, x, at))
         IN  /\ e \in Ends(available, x, at) /\ e \in 0 .. MaxNumber + 1 /\ e > at
             /\ \A o \in Ends(available, x, at) : o <= e
<1> USE Zenon
<1> DEFINE E == Ends(available, x, at)
<1>1. \A e \in E : e \in 0 .. MaxNumber + 1 /\ e > at
  BY DEF Ends, Ranges
<1>2. E \in SUBSET Int /\ E # {} /\ MaxNumber + 1 \in Int /\ \A e \in E : e <= MaxNumber + 1
  BY <1>1, SchemaAssumption, SMTT(30)
<1>3. \E m \in E : \A k \in E : k <= m
  <2> HIDE DEF E
  <2>1. QED
    BY <1>2, LargestMember
<1> DEFINE e == Furthest(E)
<1>4. e \in E /\ \A o \in E : o <= e
  <2> HIDE DEF E
  <2>1. QED
    BY <1>3 DEF Furthest
<1>5. QED
  BY <1>1, <1>4

\* A step of the walk stays among the integers.
LEMMA WalkType ==
  ASSUME NEW required \in Ranges, NEW available \in SUBSET Ranges, NEW x \in Nat, NEW at \in Int
  PROVE  Walk(required, available, x, at) \in Int
<1> USE Zenon
<1>1. CASE Ends(available, x, at) = {}
  BY <1>1 DEF Walk
<1>2. CASE Ends(available, x, at) # {}
  <2>1. Furthest(Ends(available, x, at)) \in 0 .. MaxNumber + 1
    BY <1>2, FurthestEnd
  <2>2. QED
    BY <2>1, SchemaAssumption, SMTT(30) DEF Walk, Gap
<1>3. QED
  BY <1>1, <1>2

\* The cursor is a function the definition determines, and its last value is
\* what decides.
LEMMA CursorExists ==
  ASSUME NEW required \in Ranges, NEW available \in SUBSET Ranges
  PROVE  \E g \in [0 .. MaxNumber + 1 -> Int] :
           /\ g[0] = required.start
           /\ \A x \in 1 .. MaxNumber + 1 : g[x] = Walk(required, available, x, g[x - 1])
           /\ RangeIsCovered(required, available) <=> g[MaxNumber + 1] >= required.end
<1> USE Zenon
<1> DEFINE N == MaxNumber + 1
           F == [x \in 1 .. N |-> [at \in Int |-> Walk(required, available, x, at)]]
           v == required.start
<1>1. N \in Nat /\ v \in Int
  BY SchemaAssumption, SMTT(30) DEF Ranges
<1>2. F \in [1 .. N -> [Int -> Int]]
  BY WalkType, <1>1, SMTT(30)
<1>3. PICK h \in [0 .. N -> Int] : Iterates(h, F, v, N)
  <2> HIDE DEF F, N, v
  <2>1. QED
    BY <1>1, <1>2, IterationExists
<1>4. h[0] = v /\ \A x \in 1 .. N : h[x] = Walk(required, available, x, h[x - 1])
  <2>1. ASSUME NEW x \in 1 .. N
        PROVE  h[x] = Walk(required, available, x, h[x - 1])
    <3>1. x - 1 \in 0 .. N
      BY <1>1, SMTT(30)
    <3>2. h[x - 1] \in Int
      BY <1>3, <3>1
    <3>3. h[x] = F[x][h[x - 1]]
      BY <1>3 DEF Iterates
    <3>4. QED
      BY <3>2, <3>3
  <2>2. QED
    BY <1>3, <2>1 DEF Iterates
<1>5. IsCursor(h, required, available)
  <2>1. ASSUME NEW x \in 0 .. N
        PROVE  h[x] = IF x = 0 THEN required.start ELSE Walk(required, available, x, h[x - 1])
    <3>1. CASE x = 0
      BY <1>4, <3>1
    <3>2. CASE x # 0
      <4>1. x \in 1 .. N
        BY <1>1, <3>2, SMTT(30)
      <4>2. QED
        BY <1>4, <3>2, <4>1
    <3>3. QED
      BY <3>1, <3>2
  <2>2. QED
    BY <1>3, <2>1 DEF IsCursor
<1> DEFINE c == CHOOSE g : IsCursor(g, required, available)
<1>6. IsCursor(c, required, available)
  BY <1>5
<1>7. RangeIsCovered(required, available) <=> c[MaxNumber + 1] >= required.end
  BY DEF RangeIsCovered, IsCursor, Walk, Ends
<1> HIDE DEF c
<1>8. /\ c[0] = v
      /\ \A x \in 1 .. N : c[x] = Walk(required, available, x, c[x - 1])
      /\ DOMAIN c = 0 .. N /\ c = [x \in 0 .. N |-> c[x]]
  <2>1. DOMAIN c = 0 .. N /\ c = [x \in 0 .. N |-> c[x]]
    BY <1>6 DEF IsCursor
  <2>2. \A x \in 0 .. N : c[x] = IF x = 0 THEN required.start
                                 ELSE Walk(required, available, x, c[x - 1])
    BY <1>6 DEF IsCursor
  <2>3. 0 \in 0 .. N /\ \A x \in 1 .. N : x \in 0 .. N /\ x # 0
    BY <1>1, SMTT(30)
  <2> HIDE DEF N
  <2>4. QED
    BY <2>1, <2>2, <2>3
<1>9. \A x \in 0 .. N : c[x] \in Int
  <2> DEFINE P == {n \in Nat : n <= N => c[n] \in Int}
  <2>1. 0 \in P
    BY <1>1, <1>8
  <2>2. ASSUME NEW n \in P
        PROVE  n + 1 \in P
    <3> USE SMTT(30)
    <3> SUFFICES ASSUME n + 1 <= N
                 PROVE  c[n + 1] \in Int
      OBVIOUS
    <3>1. n \in Nat /\ n <= N /\ n + 1 \in 1 .. N /\ (n + 1) - 1 = n
      BY <1>1
    <3>2. c[n + 1] = Walk(required, available, n + 1, c[n]) /\ c[n] \in Int
      BY <1>8, <3>1, Zenon
    <3>3. QED
      BY <3>1, <3>2, WalkType
  <2>3. P = Nat
    <3>1. P \in SUBSET Nat
      OBVIOUS
    <3> HIDE DEF P
    <3>2. QED
      BY <2>1, <2>2, <3>1, NatSetInduction
  <2>4. QED
    BY <1>1, <2>3, SMTT(30)
<1>10. c \in [0 .. N -> Int]
  BY <1>8, <1>9
<1>11. QED
  BY <1>7, <1>8, <1>10

\* The walk reaches the end of a required range that is not empty exactly when
\* every number of it is in an available one.
LEMMA WalkOfSome ==
  ASSUME NEW required \in Ranges, NEW available \in SUBSET Ranges,
         required.start < required.end
  PROVE  RangeIsCovered(required, available)
           <=> (required.start .. required.end - 1) \subseteq Reserved(available)
<1> USE SMTT(30)
<1> DEFINE N == MaxNumber + 1
           s == required.start
           e == required.end
<1>1. PICK g \in [0 .. N -> Int] :
        /\ g[0] = s
        /\ \A x \in 1 .. N : g[x] = Walk(required, available, x, g[x - 1])
        /\ RangeIsCovered(required, available) <=> g[N] >= e
  BY CursorExists, Zenon
<1>2. N \in Nat /\ MaxNumber \in Nat /\ s \in 0 .. MaxNumber /\ e \in 0 .. N
  BY SchemaAssumption DEF Ranges
<1>3. \A q \in available : q.start \in 0 .. MaxNumber /\ q.end \in 0 .. N
  BY Zenon DEF Ranges
<1> DEFINE Bound(at)  == at = Gap \/ (at \in s .. N /\ at >= s)
           Done(at)   == at # Gap => \A n \in s .. at - 1 : n \in Reserved(available)
           Past(x, at) == at # Gap /\ at < e => \A q \in available : q.start < x => q.end <= at
           Missed(at) == at = Gap => \E n \in s .. e - 1 : n \notin Reserved(available)
           I(x) == Bound(g[x]) /\ Done(g[x]) /\ Past(x, g[x]) /\ Missed(g[x])
           P == {n \in Nat : n <= N => I(n)}
<1>4. 0 \in P
  BY <1>1, <1>2, <1>3 DEF Gap
<1>5. ASSUME NEW n \in P
      PROVE  n + 1 \in P
  <2> SUFFICES ASSUME n + 1 <= N
               PROVE  I(n + 1)
    OBVIOUS
  <2> DEFINE at == g[n]
             to == g[n + 1]
             E == Ends(available, n + 1, at)
  <2>1. n \in Nat /\ n <= N /\ n + 1 \in 1 .. N /\ (n + 1) - 1 = n /\ at \in Int /\ to \in Int
    BY <1>1, <1>2
  <2>2. Bound(at) /\ Done(at) /\ Past(n, at) /\ Missed(at)
    BY <2>1, Zenon
  <2>3. to = Walk(required, available, n + 1, at)
    BY <1>1, <2>1, Zenon
  <2>4. \A q \in available : q.start = n /\ q.end > at => q.end \in E
    BY <2>1, Zenon DEF Ends
  <2>a. at # Gap => ((at > s /\ at >= e) <=> at >= e)
    BY <1>2, <2>1, <2>2
  <2>b. to = IF at = Gap \/ at >= e \/ E = {} THEN at
             ELSE IF (n + 1) - 1 > at THEN Gap ELSE Furthest(E)
    BY <2>3, <2>a, Zenon DEF Walk
  <2>5. CASE at = Gap \/ at >= e \/ E = {}
    <3>1. to = at
      BY <2>5, <2>b, Zenon
    <3>2. ASSUME NEW q \in available, at # Gap, at < e, q.start < n + 1
          PROVE  q.end <= at
      <4>1. q.start < n \/ q.start = n
        BY <1>3, <2>1, <3>2
      <4>2. CASE q.start < n
        BY <2>2, <3>2, <4>2, Zenon
      <4>3. E = {}
        BY <1>2, <2>1, <2>5, <3>2
      <4>4. CASE q.start = n
        BY <1>3, <2>1, <2>4, <4>3, <4>4
      <4>5. QED
        BY <4>1, <4>2, <4>4, Zenon
    <3>3. QED
      BY <2>2, <3>1, <3>2, Zenon
  <2>6. CASE at # Gap /\ at < e /\ E # {} /\ n > at
    <3>1. to = Gap
      BY <1>2, <2>1, <2>6, <2>b
    <3>2. at \in s .. e - 1
      BY <1>2, <2>1, <2>2, <2>6
    <3>3. at \notin Reserved(available)
      <4> SUFFICES ASSUME NEW q \in available, q.start <= at, at < q.end
                   PROVE  FALSE
        BY Zenon DEF Reserved
      <4>1. q.start < n
        BY <1>3, <2>1, <2>6
      <4>2. q.end <= at
        BY <2>2, <2>6, <4>1, Zenon
      <4>3. QED
        BY <1>2, <1>3, <2>1, <4>2
    <3>4. QED
      BY <3>1, <3>2, <3>3, Zenon
  <2>7. CASE at # Gap /\ at < e /\ E # {} /\ ~(n > at)
    <3>1. to = Furthest(E)
      BY <1>2, <2>1, <2>7, <2>b
    <3>2. to \in E /\ to \in 0 .. MaxNumber + 1 /\ to > at /\ \A o \in E : o <= to
      BY <2>1, <2>7, <3>1, FurthestEnd
    <3>3. PICK r \in available : r.start = n /\ r.end = to
      BY <2>1, <3>2, Zenon DEF Ends
    <3>4. at >= s /\ at \in Int /\ at <= N
      BY <1>2, <2>1, <2>2, <2>7
    <3>5. to # Gap /\ Bound(to)
      BY <1>2, <2>1, <3>2, <3>4 DEF Gap
    <3>6. ASSUME NEW k \in s .. to - 1
          PROVE  k \in Reserved(available)
      <4>1. CASE k < at
        BY <1>2, <2>1, <2>2, <2>7, <4>1
      <4>2. CASE k >= at
        <5>1. k \in 0 .. MaxNumber /\ r.start <= k /\ k < r.end
          BY <1>2, <2>1, <2>7, <3>2, <3>3, <4>2
        <5>2. QED
          BY <3>3, <5>1, Zenon DEF Reserved
      <4>3. QED
        BY <1>2, <2>1, <4>1, <4>2
    <3>7. ASSUME NEW q \in available, q.start < n + 1
          PROVE  q.end <= to
      <4>1. CASE q.start < n
        <5>1. q.end <= at
          BY <2>2, <2>7, <4>1, Zenon
        <5>2. QED
          BY <1>2, <1>3, <2>1, <3>2, <5>1
      <4>2. CASE q.start = n /\ q.end > at
        BY <2>4, <3>2, <4>2, Zenon
      <4>3. CASE q.start = n /\ ~(q.end > at)
        BY <1>2, <1>3, <2>1, <3>2, <4>3
      <4>4. q.start < n \/ q.start = n
        BY <1>3, <2>1, <3>7
      <4>5. QED
        BY <4>1, <4>2, <4>3, <4>4, Zenon
    <3>8. QED
      BY <3>5, <3>6, <3>7, Zenon
  <2>8. QED
    BY <1>2, <2>1, <2>5, <2>6, <2>7
<1>6. P = Nat
  <2> USE Zenon
  <2>1. P \in SUBSET Nat
    OBVIOUS
  <2> HIDE DEF P
  <2>2. QED
    BY <1>4, <1>5, <2>1, NatSetInduction
<1>7. I(N) /\ g[N] \in Int
  <2> USE Zenon
  <2>1. N \in P /\ N <= N /\ N \in 0 .. N
    BY <1>2, <1>6, SMTT(30)
  <2>2. g[N] \in Int
    BY <1>1, <2>1
  <2>3. I(N)
    <3> HIDE DEF I, N
    <3>1. QED
      BY <2>1
  <2>4. QED
    BY <2>2, <2>3
<1>8. CASE g[N] >= e
  BY <1>1, <1>2, <1>7, <1>8 DEF Gap
<1>9. CASE g[N] < e /\ g[N] = Gap
  BY <1>1, <1>2, <1>7, <1>9
<1>10. CASE g[N] < e /\ g[N] # Gap
  <2>1. g[N] \in s .. e - 1
    BY <1>2, <1>7, <1>10
  <2>2. g[N] \notin Reserved(available)
    <3> SUFFICES ASSUME NEW q \in available, q.start <= g[N], g[N] < q.end
                 PROVE  FALSE
      BY Zenon DEF Reserved
    <3>1. q.start < N
      BY <1>2, <1>3
    <3>2. q.end <= g[N]
      BY <1>7, <1>10, <3>1, Zenon
    <3>3. QED
      BY <1>2, <1>3, <1>7, <3>2
  <2>3. QED
    BY <1>1, <1>2, <1>7, <1>10, <2>1, <2>2
<1>11. QED
  BY <1>2, <1>7, <1>8, <1>9, <1>10

\* Where every available range ends before the required one starts, the walk
\* does not move.
LEMMA WalkOfNone ==
  ASSUME NEW required \in Ranges, NEW available \in SUBSET Ranges,
         \A q \in available : q.end <= required.start
  PROVE  RangeIsCovered(required, available) <=> required.start >= required.end
<1> USE Zenon
<1> DEFINE N == MaxNumber + 1
<1>1. PICK g \in [0 .. N -> Int] :
        /\ g[0] = required.start
        /\ \A x \in 1 .. N : g[x] = Walk(required, available, x, g[x - 1])
        /\ RangeIsCovered(required, available) <=> g[N] >= required.end
  BY CursorExists
<1>2. N \in Nat /\ required.start \in Int
  BY SchemaAssumption, SMTT(30) DEF Ranges
<1>3. ASSUME NEW x
      PROVE  Walk(required, available, x, required.start) = required.start
  <2>1. \A q \in available : ~(q.end > required.start)
    <3>1. \A q \in available : q.end \in Int
      BY SchemaAssumption, SMTT(30) DEF Ranges
    <3>2. QED
      BY <1>2, <3>1, SMTT(30)
  <2>2. Ends(available, x, required.start) = {}
    BY <2>1 DEF Ends
  <2>3. QED
    BY <2>2 DEF Walk
<1> DEFINE P == {n \in Nat : n <= N => g[n] = required.start}
<1>4. 0 \in P
  BY <1>1
<1>5. ASSUME NEW n \in P
      PROVE  n + 1 \in P
  <2>1. n \in Nat /\ n + 1 \in Nat /\ (n + 1 <= N => n <= N /\ n + 1 \in 1 .. N /\ (n + 1) - 1 = n)
    BY <1>2, SMTT(30)
  <2>2. QED
    BY <1>1, <1>3, <2>1
<1>6. P = Nat
  <2>1. P \in SUBSET Nat
    OBVIOUS
  <2> HIDE DEF P
  <2>2. QED
    BY <1>4, <1>5, <2>1, NatSetInduction
<1>7. g[N] = required.start
  <2>1. N <= N
    BY <1>2, SMTT(30)
  <2>2. N \in P
    BY <1>2, <1>6
  <2> HIDE DEF N
  <2>3. QED
    BY <2>1, <2>2
<1>8. QED
  BY <1>1, <1>7

\* range_is_covered is exact: the walk reaches the end of the required range
\* exactly when every number of it is in an available one, in whatever order,
\* overlap or piece the ranges come.  (An empty range is found not covered if
\* an available range starts later, so it must come after all of them.)
THEOREM WalkIsExact ==
  ASSUME NEW required \in Ranges, NEW available \in SUBSET Ranges,
         \/ required.start < required.end
         \/ \A q \in available : q.end <= required.start
  PROVE  RangeIsCovered(required, available)
           <=> (required.start .. required.end - 1) \subseteq Reserved(available)
<1> USE Zenon
<1>1. CASE required.start < required.end
  BY <1>1, WalkOfSome
<1>2. CASE ~(required.start < required.end)
  <2>1. required.start \in Int /\ required.end \in Int
    BY SchemaAssumption, SMTT(30) DEF Ranges
  <2>2. required.start >= required.end /\ required.start .. required.end - 1 = {}
    BY <1>2, <2>1, SMTT(30)
  <2>3. RangeIsCovered(required, available)
    BY <1>2, <2>2, WalkOfNone
  <2>4. QED
    BY <2>2, <2>3
<1>3. QED
  BY <1>1, <1>2

-----------------------------------------------------------------------------
(* Numbers of members                                                      *)

\* Min as it is used here.
LEMMA MinIs ==
  ASSUME NEW T \in SUBSET Nat, T # {}
  PROVE  Min(T) \in T /\ \A k \in T : Min(T) <= k
<1> USE Zenon
<1>1. \E m \in T : \A k \in T : m <= k
  BY SmallestMember
<1>2. QED
  BY <1>1 DEF Min

\* next_number gives a number nobody uses, or one that protoc refuses.
LEMMA NextNumberIs ==
  ASSUME NEW first \in {0, 1}, NEW used
  PROVE  LET n == NextNumber(first, used)
         IN  /\ n \in 0 .. MaxNumber + 1 /\ n >= first
             /\ n <= MaxNumber => n \notin used /\ n \notin ProtobufInternal
<1> USE Zenon
<1> DEFINE free == (first .. MaxNumber) \ (used \cup ProtobufInternal)
<1>1. CASE free = {}
  <2>1. NextNumber(first, used) = MaxNumber + 1
    BY <1>1 DEF NextNumber
  <2>2. QED
    BY <2>1, SchemaAssumption, SMTT(30)
<1>2. CASE free # {}
  <2>1. NextNumber(first, used) = Min(free)
    BY <1>2 DEF NextNumber
  <2>2. free \in SUBSET Nat
    BY SchemaAssumption, SMTT(30)
  <2>3. Min(free) \in free
    <3> HIDE DEF free
    <3>1. QED
      BY <1>2, <2>2, MinIs
  <2>4. QED
    BY <2>1, <2>3, SchemaAssumption, SMTT(30)
<1>3. QED
  BY <1>1, <1>2

\* The numbers the lock has used up.
Taken(previous) == DOMAIN previous.fields \cup Reserved(previous.ranges)

\* The number of member i where others are in use.
NumberOf(members, previous, first, i, others) ==
  IF LockedNumbers(previous, members[i].name) # {}
  THEN Min(LockedNumbers(previous, members[i].name))
  ELSE NextNumber(first, Taken(previous) \cup others)

\* A number that generation gives a member is one, or the first past them.
LEMMA NumberOfType ==
  ASSUME NEW members, NEW previous, IsDeclaration(previous), NEW first \in {0, 1}, NEW i, NEW others
  PROVE  NumberOf(members, previous, first, i, others) \in 0 .. MaxNumber + 1
<1> USE Zenon
<1> DEFINE old == LockedNumbers(previous, members[i].name)
<1>1. old \subseteq 0 .. MaxNumber /\ old \in SUBSET Nat
  BY SchemaAssumption, SMTT(30) DEF LockedNumbers, IsDeclaration
<1>2. CASE old # {}
  <2>1. Min(old) \in old
    <3> HIDE DEF old
    <3>1. QED
      BY <1>1, <1>2, MinIs
  <2>2. QED
    BY <1>1, <1>2, <2>1, SchemaAssumption, SMTT(30) DEF NumberOf
<1>3. CASE old = {}
  <2>1. NextNumber(first, Taken(previous) \cup others) \in 0 .. MaxNumber + 1
    BY NextNumberIs
  <2>2. QED
    BY <1>3, <2>1 DEF NumberOf
<1>4. QED
  BY <1>2, <1>3

\* number is what Numbering defines by recursion.
IsNumbering(number, members, previous, first) ==
  /\ number \in [1 .. Len(members) -> 0 .. MaxNumber + 1]
  /\ \A i \in 1 .. Len(members) :
       number[i] = NumberOf(members, previous, first, i, {number[j] : j \in 1 .. i - 1})

\* The recursive definition of Numbering has the value it says, member by member.
LEMMA NumberingIs ==
  ASSUME NEW members, Len(members) \in Nat, NEW previous, IsDeclaration(previous),
         NEW first \in {0, 1}
  PROVE  IsNumbering(Numbering(members, previous, first), members, previous, first)
<1> USE Zenon
<1> DEFINE N == Len(members)
           V == 0 .. MaxNumber + 1
           F == [i \in 1 .. N |-> [others \in SUBSET V |->
                                     NumberOf(members, previous, first, i, others)]]
           Is(g) == g = [i \in 1 .. N |->
                           NumberOf(members, previous, first, i, {g[j] : j \in 1 .. i - 1})]
<1>1. F \in [1 .. N -> [SUBSET V -> V]]
  BY NumberOfType
<1>2. PICK h \in [1 .. N -> V] : Accumulates(h, F, N)
  <2> HIDE DEF F, V
  <2>1. QED
    BY <1>1, AccumulationExists
<1>3. ASSUME NEW i \in 1 .. N
      PROVE  h[i] = NumberOf(members, previous, first, i, {h[j] : j \in 1 .. i - 1})
  <2> DEFINE others == {h[j] : j \in 1 .. i - 1}
  <2>1. \A j \in 1 .. i - 1 : j \in 1 .. N
    BY SMTT(30)
  <2>2. others \in SUBSET V
    BY <1>2, <2>1
  <2>3. h[i] = F[i][others]
    BY <1>2 DEF Accumulates
  <2> HIDE DEF others
  <2>4. F[i][others] = NumberOf(members, previous, first, i, others)
    BY <2>2
  <2>5. QED
    BY <2>3, <2>4 DEF others
<1>4. Is(h)
  BY <1>2, <1>3
<1> DEFINE c == CHOOSE g : Is(g)
<1>5. Is(c)
  BY <1>4
<1>6. Numbering(members, previous, first) = c
  BY DEF Numbering, NumberOf, Taken
<1> HIDE DEF c
<1>7. DOMAIN c = 1 .. N /\ c = [i \in 1 .. N |-> c[i]]
  BY <1>5
<1>8. \A i \in 1 .. N :
        c[i] = NumberOf(members, previous, first, i, {c[j] : j \in 1 .. i - 1})
  BY <1>5
<1>9. ASSUME NEW i \in 1 .. N
      PROVE  c[i] \in V
  <2> DEFINE others == {c[j] : j \in 1 .. i - 1}
  <2>1. c[i] = NumberOf(members, previous, first, i, others)
    BY <1>8
  <2> HIDE DEF others
  <2>2. QED
    BY <2>1, NumberOfType
<1>10. QED
  BY <1>6, <1>7, <1>8, <1>9 DEF IsNumbering

-----------------------------------------------------------------------------
(* Generated declarations                                                  *)

\* What member i is written as.
Member(members, i) ==
  [name |-> members[i].name, type |-> ProtoType(members[i].type), oneof |-> OneofIndex(members, i)]

\* The index of a oneof is a number, where there is one.
LEMMA OneofIndexType ==
  ASSUME NEW members, NEW i \in Nat
  PROVE  OneofIndex(members, i) \in Nat \cup {None}
<1> USE Zenon
<1> DEFINE S == {j \in 1 .. i - 1 : IsOptional(members[j].type)}
<1>1. IsFiniteSet(1 .. i - 1)
  <2>1. 1 \in Int /\ i - 1 \in Int
    BY SMTT(30)
  <2>2. QED
    BY <2>1, FS_Interval
<1>2. IsFiniteSet(S)
  <2>1. S \subseteq 1 .. i - 1
    OBVIOUS
  <2> HIDE DEF S
  <2>2. QED
    BY <1>1, <2>1, FS_Subset
<1>3. Cardinality(S) \in Nat
  <2> HIDE DEF S
  <2>1. QED
    BY <1>2, FS_CardinalityType
<1>4. QED
  BY <1>3 DEF OneofIndex

\* What Written puts down, member by member.
IsWritten(w, number, members, previous, past) ==
  /\ w = [fields |-> w.fields, ranges |-> w.ranges, names |-> w.names]
  /\ w.fields \in [{number[i] : i \in 1 .. Len(members)} -> Fields]
  /\ \A n \in DOMAIN w.fields :
       \E i \in 1 .. Len(members) : number[i] = n /\ w.fields[n] = Member(members, i)
  /\ w.ranges = {[start |-> n, end |-> n + past] :
                   n \in Removed(members, previous) \cup Reserved(previous.ranges)}
  /\ w.names = previous.names \cup {previous.fields[n].name : n \in Removed(members, previous)}

\* A member of a Rust item becomes a field.
LEMMA StructMember ==
  ASSUME NEW d, NEW members \in Lists(d, Names), NEW i \in 1 .. Len(members)
  PROVE  members[i].name \in Names /\ Member(members, i) \in Fields
<1> USE Zenon
<1> DEFINE M == [name : Names, type : MemberTypes(d)]
<1>1. members \in Seq(M)
  BY DEF Lists
<1>2. members[i] \in M
  <2> HIDE DEF M
  <2>1. QED
    BY <1>1, SMTT(30)
<1>3. members[i].name \in Names /\ members[i].type \in Types \cup {ValueType}
  BY <1>2 DEF MemberTypes
<1>4. ProtoType(members[i].type) \in FieldTypes
  BY <1>3 DEF FieldTypes
<1>5. OneofIndex(members, i) \in Nat \cup {None}
  <2>1. i \in Nat
    BY SMTT(30)
  <2>2. QED
    BY <2>1, OneofIndexType
<1>6. QED
  BY <1>3, <1>4, <1>5 DEF Member, Fields

\* generate_message and generate_enum write every member under its number.
LEMMA WrittenIs ==
  ASSUME NEW d, NEW members \in Lists(d, Names), NEW previous, IsDeclaration(previous),
         NEW first \in {0, 1}, NEW past \in {0, 1}
  PROVE  IsWritten(Written(members, previous, first, past),
                   Numbering(members, previous, first), members, previous, past)
<1> USE Zenon
<1> DEFINE number == Numbering(members, previous, first)
           w == Written(members, previous, first, past)
           N == 1 .. Len(members)
           D == {number[i] : i \in N}
           at(n) == CHOOSE i \in N : number[i] = n
<1>1. members \in Seq([name : Names, type : MemberTypes(d)]) /\ Len(members) \in Nat
  BY SMTT(30) DEF Lists
<1>2. DOMAIN number = N
  <2>1. IsNumbering(number, members, previous, first)
    <3> HIDE DEF number
    <3>1. QED
      BY <1>1, NumberingIs DEF number
  <2>2. QED
    BY <2>1 DEF IsNumbering
<1>3. w = [fields |-> [n \in D |-> Member(members, at(n))],
           ranges |-> {[start |-> n, end |-> n + past] :
                         n \in Removed(members, previous) \cup Reserved(previous.ranges)},
           names  |-> previous.names
                        \cup {previous.fields[n].name : n \in Removed(members, previous)}]
  <2> HIDE DEF number
  <2>1. QED
    BY <1>2 DEF Written, Member, number
<1>4. \A n \in D : at(n) \in N /\ number[at(n)] = n
  <2> HIDE DEF number
  <2>1. QED
    OBVIOUS
<1> HIDE DEF w, number, at
<1>5. /\ w = [fields |-> w.fields, ranges |-> w.ranges, names |-> w.names]
      /\ w.fields = [n \in D |-> Member(members, at(n))]
      /\ w.ranges = {[start |-> n, end |-> n + past] :
                       n \in Removed(members, previous) \cup Reserved(previous.ranges)}
      /\ w.names = previous.names
                     \cup {previous.fields[n].name : n \in Removed(members, previous)}
  BY <1>3
<1>6. \A n \in D : Member(members, at(n)) \in Fields
  BY <1>4, StructMember
<1>7. w.fields \in [D -> Fields]
  BY <1>5, <1>6
<1>8. \A n \in DOMAIN w.fields : \E i \in N : number[i] = n /\ w.fields[n] = Member(members, i)
  BY <1>4, <1>5
<1>9. QED
  BY <1>5, <1>7, <1>8 DEF IsWritten, w, number

\* What is written within the numbers there are is a declaration.
LEMMA WrittenDeclares ==
  ASSUME NEW members, NEW previous, IsDeclaration(previous), NEW past \in {0, 1},
         NEW w, NEW number, IsWritten(w, number, members, previous, past),
         DOMAIN w.fields \subseteq 0 .. MaxNumber
  PROVE  IsDeclaration(w)
<1> USE Zenon
<1> DEFINE gone == Removed(members, previous) \cup Reserved(previous.ranges)
<1>1. gone \subseteq 0 .. MaxNumber
  BY DEF Removed, Reserved, IsDeclaration
<1>2. w.ranges \subseteq Ranges
  <2>1. w.ranges = {[start |-> n, end |-> n + past] : n \in gone}
    BY DEF IsWritten
  <2> HIDE DEF gone
  <2>2. \A n \in gone : n \in 0 .. MaxNumber /\ n + past \in 0 .. MaxNumber + 1
    BY <1>1, SchemaAssumption, SMTT(30)
  <2>3. QED
    BY <2>1, <2>2, SMTT(30) DEF Ranges
<1>3. w.names \subseteq Names
  <2>1. \A n \in Removed(members, previous) : previous.fields[n].name \in Names
    BY DEF Removed, IsDeclaration, Fields
  <2>2. previous.names \subseteq Names
    BY DEF IsDeclaration
  <2>3. QED
    BY <2>1, <2>2, SMTT(30) DEF IsWritten
<1>4. w.fields \in [DOMAIN w.fields -> Fields]
  BY DEF IsWritten
<1>5. QED
  BY <1>2, <1>3, <1>4 DEF IsDeclaration, IsWritten

-----------------------------------------------------------------------------
(* Contracts and locks                                                     *)

\* A declaration in a lock: nothing it reserves is in use, no name is there
\* twice, and its ranges can be read by generation.
Locked(d, decl) ==
  /\ IsDeclaration(decl)
  /\ \A n \in DOMAIN decl.fields :
       /\ n \notin Reserved(decl.ranges)
       /\ decl.fields[n].name \notin decl.names
       /\ \A o \in DOMAIN decl.fields : decl.fields[o].name = decl.fields[n].name => o = n
  /\ \A r \in decl.ranges : r.start < r.end \/ (d \in Enums /\ r.start = MaxNumber)
  /\ IF d \in Enums
     THEN 0 \in DOMAIN decl.fields /\ \A r \in decl.ranges : r.end <= MaxNumber
     ELSE DOMAIN decl.fields \cap (ProtobufInternal \cup {0}) = {}

\* The ranges of a declaration in a lock, one of which may be empty, the last.
LEMMA RangesInOrder ==
  ASSUME NEW d, NEW decl, Locked(d, decl), NEW other, Locked(d, other), NEW r \in decl.ranges
  PROVE  r.start < r.end \/ \A q \in other.ranges : q.end <= r.start
BY Zenon DEF Locked

\* A contract that protoc has accepted, and a lock made of one.
Accepted(c) ==
  /\ c.decls = [d \in Decls |-> c.decls[d]]
  /\ \A d \in Decls : c.decls[d] # None =>
       IsDeclaration(c.decls[d]) /\ ProtocAccepts(d, c.decls[d])
  /\ c.methods \in [Methods -> Rpcs \cup {None}]

LockMade(l) ==
  /\ l \in Locks
  /\ \A d \in Decls : l.decls[d] # None => Locked(d, l.decls[d])

SnapshotOf(d, decl) == IF d \in Enums THEN SnapshotEnum(decl) ELSE SnapshotMessage(decl)

\* snapshot_enum moves the ends and leaves the rest.
LEMMA SnapshotEnumIs ==
  ASSUME NEW decl, IsDeclaration(decl)
  PROVE  LET s == SnapshotEnum(decl)
         IN  /\ s = [fields |-> s.fields, ranges |-> s.ranges, names |-> s.names]
             /\ s.fields = decl.fields /\ s.names = decl.names
             /\ s.ranges = {[start |-> r.start,
                             end   |-> IF r.end < MaxNumber THEN r.end + 1 ELSE MaxNumber] :
                              r \in decl.ranges}
<1> USE Zenon
<1> DEFINE moved == {[start |-> r.start,
                     end   |-> IF r.end < MaxNumber THEN r.end + 1 ELSE MaxNumber] :
                      r \in decl.ranges}
<1>1. SnapshotEnum(decl) = [decl EXCEPT !.ranges = moved]
  BY DEF SnapshotEnum
<1> HIDE DEF moved
<1>2. decl = [fields |-> decl.fields, ranges |-> decl.ranges, names |-> decl.names]
  BY DEF IsDeclaration
<1>3. ASSUME NEW f, NEW r, NEW n
      PROVE  [[fields |-> f, ranges |-> r, names |-> n] EXCEPT !.ranges = moved]
               = [fields |-> f, ranges |-> moved, names |-> n]
  BY SMTT(30)
<1>4. SnapshotEnum(decl) = [fields |-> decl.fields, ranges |-> moved, names |-> decl.names]
  BY <1>1, <1>2, <1>3
<1>5. QED
  BY <1>4, SMTT(30) DEF moved

\* What protoc accepts makes a lock.
LEMMA SnapshotLocked ==
  ASSUME NEW d \in Decls, NEW decl, IsDeclaration(decl), ProtocAccepts(d, decl)
  PROVE  /\ Locked(d, SnapshotOf(d, decl))
         /\ SnapshotOf(d, decl).fields = decl.fields
         /\ SnapshotOf(d, decl).names = decl.names
<1> USE Zenon
<1>1. CASE d \notin Enums
  <2>1. SnapshotOf(d, decl) = decl
    BY <1>1 DEF SnapshotOf, SnapshotMessage
  <2>2. ASSUME NEW n \in DOMAIN decl.fields
        PROVE  n \notin Reserved(decl.ranges)
    <3> SUFFICES ASSUME NEW r \in decl.ranges, r.start <= n, n < r.end
                 PROVE  FALSE
      BY DEF Reserved
    <3>1. n \notin r.start .. r.end + 0 - 1
      BY <1>1 DEF ProtocAccepts
    <3>2. n \in 0 .. MaxNumber /\ r.start \in 0 .. MaxNumber /\ r.end \in 0 .. MaxNumber + 1
      BY DEF IsDeclaration, Ranges
    <3>3. QED
      BY <3>1, <3>2, SchemaAssumption, SMTT(30)
  <2>3. \A n \in DOMAIN decl.fields :
          /\ decl.fields[n].name \notin decl.names
          /\ \A o \in DOMAIN decl.fields : decl.fields[o].name = decl.fields[n].name => o = n
    BY DEF ProtocAccepts
  <2>4. DOMAIN decl.fields \cap (ProtobufInternal \cup {0}) = {}
    BY <1>1 DEF ProtocAccepts
  <2>5. ASSUME NEW r \in decl.ranges
        PROVE  r.start < r.end
    <3>1. r.start .. r.end + 0 - 1 # {}
      BY <1>1 DEF ProtocAccepts
    <3>2. r.start \in 0 .. MaxNumber /\ r.end \in 0 .. MaxNumber + 1
      BY DEF IsDeclaration, Ranges
    <3>3. QED
      BY <3>1, <3>2, SchemaAssumption, SMTT(30)
  <2>6. QED
    BY <1>1, <2>1, <2>2, <2>3, <2>4, <2>5 DEF Locked
<1>2. CASE d \in Enums
  <2> DEFINE s == SnapshotEnum(decl)
             End(r) == IF r.end < MaxNumber THEN r.end + 1 ELSE MaxNumber
  <2>1. SnapshotOf(d, decl) = s
    BY <1>2 DEF SnapshotOf
  <2>2. /\ s = [fields |-> s.fields, ranges |-> s.ranges, names |-> s.names]
        /\ s.fields = decl.fields /\ s.names = decl.names
        /\ s.ranges = {[start |-> r.start, end |-> End(r)] : r \in decl.ranges}
    BY SnapshotEnumIs
  <2> HIDE DEF s
  <2>3. ASSUME NEW q \in s.ranges
        PROVE  \E r \in decl.ranges : /\ q = [start |-> r.start, end |-> End(r)]
                                      /\ r.start \in 0 .. MaxNumber /\ r.end \in 0 .. MaxNumber + 1
                                      /\ End(r) \in 0 .. MaxNumber /\ End(r) <= r.end + 1
    <3>1. PICK r \in decl.ranges : q = [start |-> r.start, end |-> End(r)]
      BY <2>2
    <3>2. r.start \in 0 .. MaxNumber /\ r.end \in 0 .. MaxNumber + 1
      BY DEF IsDeclaration, Ranges
    <3>3. End(r) \in 0 .. MaxNumber /\ End(r) <= r.end + 1
      BY <3>2, SchemaAssumption, SMTT(30)
    <3>4. QED
      BY <3>1, <3>2, <3>3
  <2>4. s.ranges \subseteq Ranges /\ \A q \in s.ranges : q.end <= MaxNumber
    <3> SUFFICES ASSUME NEW q \in s.ranges
                 PROVE  q \in Ranges /\ q.end <= MaxNumber
      OBVIOUS
    <3>1. PICK r \in decl.ranges : /\ q = [start |-> r.start, end |-> End(r)]
                                   /\ r.start \in 0 .. MaxNumber /\ End(r) \in 0 .. MaxNumber
      BY <2>3
    <3> HIDE DEF End
    <3>2. End(r) \in 0 .. MaxNumber + 1 /\ End(r) <= MaxNumber
      BY <3>1, SchemaAssumption, SMTT(30)
    <3>3. QED
      BY <3>1, <3>2 DEF Ranges
  <2>5. IsDeclaration(s)
    BY <2>2, <2>4 DEF IsDeclaration
  <2>6. ASSUME NEW n \in DOMAIN decl.fields
        PROVE  n \notin Reserved(s.ranges)
    <3> SUFFICES ASSUME NEW q \in s.ranges, q.start <= n, n < q.end
                 PROVE  FALSE
      BY DEF Reserved
    <3>1. PICK r \in decl.ranges : /\ q = [start |-> r.start, end |-> End(r)]
                                   /\ r.start \in 0 .. MaxNumber /\ r.end \in 0 .. MaxNumber + 1
                                   /\ End(r) \in 0 .. MaxNumber /\ End(r) <= r.end + 1
      BY <2>3
    <3>2. n \notin r.start .. r.end + 1 - 1
      BY <1>2 DEF ProtocAccepts
    <3>3. n \in 0 .. MaxNumber
      BY DEF IsDeclaration
    <3>4. q.start = r.start /\ q.end = End(r)
      BY <3>1
    <3> HIDE DEF End
    <3>5. QED
      BY <3>1, <3>2, <3>3, <3>4, SchemaAssumption, SMTT(30)
  <2>7. \A n \in DOMAIN decl.fields :
          /\ decl.fields[n].name \notin decl.names
          /\ \A o \in DOMAIN decl.fields : decl.fields[o].name = decl.fields[n].name => o = n
    BY DEF ProtocAccepts
  <2>8. 0 \in DOMAIN decl.fields
    BY <1>2 DEF ProtocAccepts
  <2>9. ASSUME NEW q \in s.ranges
        PROVE  q.start < q.end \/ q.start = MaxNumber
    <3>1. PICK r \in decl.ranges : q = [start |-> r.start, end |-> End(r)]
      BY <2>2
    <3>2. r.start .. r.end + 1 - 1 # {}
      BY <1>2 DEF ProtocAccepts
    <3>3. r.start \in 0 .. MaxNumber /\ r.end \in 0 .. MaxNumber + 1
      BY DEF IsDeclaration, Ranges
    <3>4. r.start < End(r) \/ r.start = MaxNumber
      BY <3>2, <3>3, SchemaAssumption, SMTT(30)
    <3> HIDE DEF End
    <3>5. QED
      BY <3>1, <3>4
  <2>10. QED
    BY <1>2, <2>1, <2>2, <2>4, <2>5, <2>6, <2>7, <2>8, <2>9 DEF Locked
<1>3. QED
  BY <1>1, <1>2

\* What a lock is made of, declaration by declaration.
LEMMA SnapshotIs ==
  ASSUME NEW c, NEW d \in Decls
  PROVE  Snapshot(c).decls[d] = IF c.decls[d] = None THEN None ELSE SnapshotOf(d, c.decls[d])
BY Zenon DEF Snapshot, SnapshotOf

\* The two ways of saying that something is a declaration agree.
LEMMA DeclarationTyped ==
  ASSUME NEW decl, IsDeclaration(decl)
  PROVE  decl \in Declarations
<1> USE Zenon
<1>1. decl.fields \in UNION {[numbers -> Fields] : numbers \in SUBSET (0 .. MaxNumber)}
  BY DEF IsDeclaration
<1>2. QED
  BY <1>1 DEF IsDeclaration, Declarations

\* A snapshot of an accepted contract is a lock, and there is one.
LEMMA SnapshotMade ==
  ASSUME NEW c, Accepted(c)
  PROVE  LockMade(Snapshot(c)) /\ Snapshot(c) # None
<1> USE Zenon
<1> DEFINE s == Snapshot(c)
<1>1. ASSUME NEW d \in Decls, s.decls[d] # None
      PROVE  Locked(d, s.decls[d])
  <2>1. c.decls[d] # None /\ s.decls[d] = SnapshotOf(d, c.decls[d])
    BY <1>1, SnapshotIs
  <2>2. IsDeclaration(c.decls[d]) /\ ProtocAccepts(d, c.decls[d])
    BY <2>1 DEF Accepted
  <2>3. QED
    BY <2>1, <2>2, SnapshotLocked
<1>2. \A d \in Decls : s.decls[d] \in Declarations \cup {None}
  <2> HIDE DEF s
  <2>1. QED
    BY <1>1, DeclarationTyped DEF Locked
<1>3. \A m \in Methods : s.methods[m] \in {SnapshotMethod(rpc) : rpc \in Rpcs \ {None}} \cup {None}
  BY DEF Snapshot, Accepted
<1>4. /\ s = [decls |-> s.decls, methods |-> s.methods]
      /\ s.decls = [d \in Decls |-> s.decls[d]]
      /\ s.methods = [m \in Methods |-> s.methods[m]]
  BY DEF Snapshot
<1>5. s \in Locks
  <2> HIDE DEF s
  <2>1. s.decls \in [Decls -> Declarations \cup {None}]
    BY <1>2, <1>4
  <2>2. s.methods \in [Methods -> {SnapshotMethod(rpc) : rpc \in Rpcs \ {None}} \cup {None}]
    BY <1>3, <1>4
  <2>3. QED
    BY <1>4, <2>1, <2>2 DEF Locks
<1>6. QED
  BY <1>1, <1>5, ContractAssumption DEF LockMade

-----------------------------------------------------------------------------
(* Promises                                                                *)

PromisesTyped(promises) ==
  /\ \A p \in promises.bound : p[1] \in Decls /\ p[2] \in 0 .. MaxNumber
  /\ \A p \in promises.numbers : p[1] \in Decls /\ p[2] \in 0 .. MaxNumber
  /\ \A p \in promises.names : p[1] \in Decls

\* check_preserved_reservations keeps every reserved number.
LEMMA ReservedKept ==
  ASSUME NEW old, IsDeclaration(old), NEW new, IsDeclaration(new),
         PreservedReservations(old, new), NEW n \in Reserved(old.ranges)
  PROVE  n \in Reserved(new.ranges)
<1> USE Zenon
<1>1. PICK r \in old.ranges : r.start <= n /\ n < r.end
  BY DEF Reserved
<1>2. r \in Ranges /\ new.ranges \in SUBSET Ranges
  BY DEF IsDeclaration
<1>3. (r.start .. r.end - 1) \subseteq Reserved(new.ranges)
  <2>1. RangeIsCovered(r, new.ranges)
    BY DEF PreservedReservations
  <2>2. r.start < r.end
    <3>1. n \in Int /\ r.start \in Int /\ r.end \in Int
      BY <1>2, SchemaAssumption, SMTT(30) DEF Reserved, Ranges
    <3>2. QED
      BY <1>1, <3>1, SMTT(30)
  <2>3. QED
    BY <1>2, <2>1, <2>2, WalkIsExact
<1>4. n \in r.start .. r.end - 1
  <2>1. n \in 0 .. MaxNumber /\ r.start \in 0 .. MaxNumber /\ r.end \in 0 .. MaxNumber + 1
    BY <1>2 DEF Reserved, Ranges
  <2>2. QED
    BY <1>1, <2>1, SchemaAssumption, SMTT(30)
<1>5. QED
  BY <1>3, <1>4

\* A schema that a lock accepts keeps what the lock keeps.
LEMMA KeepsOn ==
  ASSUME NEW l, LockMade(l), NEW new, LockMade(new), Compatible(l, new),
         NEW promises, PromisesTyped(promises), Keeps(l, promises)
  PROVE  Keeps(new, promises)
<1> USE Zenon
<1>1. ASSUME NEW d \in Decls, l.decls[d] # None
      PROVE  /\ new.decls[d] # None
             /\ Locked(d, l.decls[d]) /\ Locked(d, new.decls[d])
             /\ CompatibleDecl(l.decls[d], new.decls[d])
             /\ Reserved(l.decls[d].ranges) \subseteq Reserved(new.decls[d].ranges)
             /\ l.decls[d].names \subseteq new.decls[d].names
  <2>1. new.decls[d] # None /\ CompatibleDecl(l.decls[d], new.decls[d])
    BY <1>1 DEF Compatible
  <2>2. Locked(d, l.decls[d]) /\ Locked(d, new.decls[d])
    BY <1>1, <2>1 DEF LockMade
  <2>3. PreservedReservations(l.decls[d], new.decls[d])
    BY <2>1 DEF CompatibleDecl
  <2>4. \A n \in Reserved(l.decls[d].ranges) : n \in Reserved(new.decls[d].ranges)
    BY <2>2, <2>3, ReservedKept DEF Locked
  <2>5. QED
    BY <2>1, <2>2, <2>3, <2>4 DEF PreservedReservations
<1>2. ASSUME NEW p \in promises.bound
      PROVE  LET decl == new.decls[p[1]]
             IN  /\ decl # None
                 /\ IF p[2] \in DOMAIN decl.fields THEN decl.fields[p[2]] = p[3]
                    ELSE IsReserved(p[2], p[3].name, decl.ranges, decl.names)
  <2> DEFINE d == p[1]
             n == p[2]
             old == l.decls[d]
             decl == new.decls[d]
  <2>1. d \in Decls /\ n \in 0 .. MaxNumber
    BY DEF PromisesTyped
  <2>2. /\ old # None
        /\ IF n \in DOMAIN old.fields THEN old.fields[n] = p[3]
           ELSE IsReserved(n, p[3].name, old.ranges, old.names)
    BY DEF Keeps
  <2>3. /\ decl # None /\ Locked(d, old) /\ Locked(d, decl) /\ CompatibleDecl(old, decl)
        /\ Reserved(old.ranges) \subseteq Reserved(decl.ranges) /\ old.names \subseteq decl.names
    BY <1>1, <2>1, <2>2
  <2> HIDE DEF d, n, old, decl
  <2>4. CASE n \in DOMAIN old.fields
    <3>1. IF n \in DOMAIN decl.fields THEN decl.fields[n] = old.fields[n]
          ELSE IsReserved(n, old.fields[n].name, decl.ranges, decl.names)
      BY <2>3, <2>4 DEF CompatibleDecl
    <3>2. QED
      BY <2>2, <2>3, <2>4, <3>1 DEF d, n, decl
  <2>5. CASE n \notin DOMAIN old.fields
    <3>1. n \in Reserved(old.ranges) /\ p[3].name \in old.names
      BY <2>1, <2>2, <2>5 DEF IsReserved, Reserved
    <3>2. n \in Reserved(decl.ranges) /\ p[3].name \in decl.names
      BY <2>3, <3>1
    <3>3. n \notin DOMAIN decl.fields
      BY <2>3, <3>2 DEF Locked
    <3>4. IsReserved(n, p[3].name, decl.ranges, decl.names)
      BY <3>2 DEF IsReserved, Reserved
    <3>5. QED
      BY <2>3, <3>3, <3>4 DEF d, n, decl
  <2>6. QED
    BY <2>4, <2>5
<1>3. \A p \in promises.numbers :
        new.decls[p[1]] # None /\ p[2] \in Reserved(new.decls[p[1]].ranges)
  BY <1>1 DEF PromisesTyped, Keeps
<1>4. \A p \in promises.names : new.decls[p[1]] # None /\ p[2] \in new.decls[p[1]].names
  BY <1>1 DEF PromisesTyped, Keeps
<1>5. QED
  BY <1>2, <1>3, <1>4 DEF Keeps

\* A lock keeps what it promises itself.
LEMMA KeepsOwn ==
  ASSUME NEW l, LockMade(l)
  PROVE  Keeps(l, Promises(l)) /\ PromisesTyped(Promises(l))
<1> USE Zenon
<1> DEFINE P == Promises(l)
<1>1. ASSUME NEW p \in P.bound
      PROVE  /\ p[1] \in Decls /\ l.decls[p[1]] # None /\ p[2] \in DOMAIN l.decls[p[1]].fields
             /\ l.decls[p[1]].fields[p[2]] = p[3] /\ p[2] \in 0 .. MaxNumber
  <2>1. PICK d \in Decls : /\ l.decls[d] # None
                            /\ \E n \in DOMAIN l.decls[d].fields :
                                 p = <<d, n, l.decls[d].fields[n]>>
    BY DEF Promises
  <2>2. PICK n \in DOMAIN l.decls[d].fields : p = <<d, n, l.decls[d].fields[n]>>
    BY <2>1
  <2>3. n \in 0 .. MaxNumber
    BY <2>1 DEF LockMade, Locked, IsDeclaration
  <2>4. QED
    BY <2>1, <2>2, <2>3
<1>2. ASSUME NEW p \in P.numbers
      PROVE  /\ p[1] \in Decls /\ l.decls[p[1]] # None
             /\ p[2] \in Reserved(l.decls[p[1]].ranges) /\ p[2] \in 0 .. MaxNumber
  <2>1. PICK d \in Decls : /\ l.decls[d] # None
                            /\ \E n \in Reserved(l.decls[d].ranges) : p = <<d, n>>
    BY DEF Promises
  <2>2. QED
    BY <2>1, SMTT(30) DEF Reserved
<1>3. ASSUME NEW p \in P.names
      PROVE  p[1] \in Decls /\ l.decls[p[1]] # None /\ p[2] \in l.decls[p[1]].names
  <2>1. PICK d \in Decls : /\ l.decls[d] # None
                            /\ \E s \in l.decls[d].names : p = <<d, s>>
    BY DEF Promises
  <2>2. QED
    BY <2>1, SMTT(30)
<1> HIDE DEF P
<1>4. Keeps(l, P)
  BY <1>1, <1>2, <1>3 DEF Keeps
<1>5. PromisesTyped(P)
  BY <1>1, <1>2, <1>3 DEF PromisesTyped
<1>6. QED
  BY <1>4, <1>5 DEF P

-----------------------------------------------------------------------------
(* Edits                                                                   *)

PutIn(s, i, e) == SubSeq(s, 1, i) \o <<e>> \o SubSeq(s, i + 1, Len(s))
TakeOut(s, i) == SubSeq(s, 1, i - 1) \o SubSeq(s, i + 1, Len(s))

\* Members joined with members: the first keep their places.
LEMMA Joined ==
  ASSUME NEW M, NEW a \in Seq(M), NEW b \in Seq(M)
  PROVE  /\ a \o b \in Seq(M) /\ Len(a \o b) = Len(a) + Len(b)
         /\ \A k \in 1 .. Len(a) + Len(b) : (a \o b)[k] = IF k <= Len(a) THEN a[k] ELSE b[k - Len(a)]
  OBVIOUS

HasPut(t, s, i, e) ==
  /\ Len(t) = Len(s) + 1
  /\ \A k \in 1 .. Len(t) : t[k] = IF k <= i THEN s[k] ELSE IF k = i + 1 THEN e ELSE s[k - 1]

\* A member put in at a place moves the ones after it.
LEMMA Inserted ==
  ASSUME NEW M, NEW s \in Seq(M), NEW i \in 0 .. Len(s), NEW e \in M
  PROVE  PutIn(s, i, e) \in Seq(M) /\ HasPut(PutIn(s, i, e), s, i, e)
<1> USE SMTT(30)
<1> DEFINE a == SubSeq(s, 1, i)
           b == <<e>>
           c == SubSeq(s, i + 1, Len(s))
           t == a \o b \o c
<1>1. a \in Seq(M) /\ Len(a) = i /\ \A k \in 1 .. i : a[k] = s[k]
  OBVIOUS
<1>2. b \in Seq(M) /\ Len(b) = 1 /\ b[1] = e
  OBVIOUS
<1>3. c \in Seq(M) /\ Len(c) = Len(s) - i /\ \A k \in 1 .. Len(s) - i : c[k] = s[k + i]
  OBVIOUS
<1> HIDE DEF a, b, c
<1> DEFINE ab == a \o b
<1>4. /\ ab \in Seq(M) /\ Len(ab) = i + 1
      /\ \A k \in 1 .. i + 1 : ab[k] = IF k <= i THEN a[k] ELSE b[k - i]
  <2> USE Zenon
  <2>1. /\ ab \in Seq(M) /\ Len(ab) = Len(a) + Len(b)
        /\ \A k \in 1 .. Len(a) + Len(b) : ab[k] = IF k <= Len(a) THEN a[k] ELSE b[k - Len(a)]
    BY <1>1, <1>2, Joined
  <2>2. QED
    BY <1>1, <1>2, <2>1
<1> HIDE DEF ab
<1>5. /\ t \in Seq(M) /\ Len(t) = Len(s) + 1
      /\ \A k \in 1 .. Len(s) + 1 : t[k] = IF k <= i + 1 THEN ab[k] ELSE c[k - (i + 1)]
  <2>1. /\ ab \o c \in Seq(M) /\ Len(ab \o c) = Len(ab) + Len(c)
        /\ \A k \in 1 .. Len(ab) + Len(c) :
             (ab \o c)[k] = IF k <= Len(ab) THEN ab[k] ELSE c[k - Len(ab)]
    BY <1>3, <1>4, Joined, Zenon
  <2>2. (i + 1) + (Len(s) - i) = Len(s) + 1 /\ t = ab \o c
    BY DEF ab
  <2> HIDE DEF t
  <2>3. QED
    BY <1>3, <1>4, <2>1, <2>2, Zenon
<1> HIDE DEF t
<1>6. ASSUME NEW k \in 1 .. Len(s) + 1
      PROVE  t[k] = IF k <= i THEN s[k] ELSE IF k = i + 1 THEN e ELSE s[k - 1]
  <2>1. CASE k <= i
    BY <1>1, <1>4, <1>5, <2>1
  <2>2. CASE k = i + 1
    BY <1>2, <1>4, <1>5, <2>2
  <2>3. CASE k > i + 1
    <3>1. k - (i + 1) \in 1 .. Len(s) - i /\ (k - (i + 1)) + i = k - 1
      BY <2>3
    <3>2. t[k] = c[k - (i + 1)]
      BY <1>5, <2>3
    <3> DEFINE x == k - (i + 1)
    <3> HIDE DEF x
    <3>3. c[x] = s[x + i]
      BY <1>3, <3>1, Zenon DEF x
    <3>4. QED
      BY <2>3, <3>1, <3>2, <3>3 DEF x
  <2>4. k \in Int /\ i \in Int
    OBVIOUS
  <2>5. QED
    BY <2>1, <2>2, <2>3, <2>4
<1>7. QED
  BY <1>5, <1>6, Zenon DEF a, b, c, t, PutIn, HasPut

\* One taken out moves them back.
LEMMA TakenOut ==
  ASSUME NEW M, NEW s \in Seq(M), NEW i \in 1 .. Len(s)
  PROVE  LET t == TakeOut(s, i)
         IN  /\ t \in Seq(M) /\ Len(t) = Len(s) - 1
             /\ \A k \in 1 .. Len(t) : t[k] = IF k < i THEN s[k] ELSE s[k + 1]
<1> USE SMTT(30)
<1> DEFINE a == SubSeq(s, 1, i - 1)
           c == SubSeq(s, i + 1, Len(s))
           t == a \o c
<1>1. a \in Seq(M) /\ Len(a) = i - 1 /\ \A k \in 1 .. i - 1 : a[k] = s[k]
  OBVIOUS
<1>2. c \in Seq(M) /\ Len(c) = Len(s) - i /\ \A k \in 1 .. Len(s) - i : c[k] = s[k + i]
  OBVIOUS
<1> HIDE DEF a, c
<1>3. /\ t \in Seq(M) /\ Len(t) = Len(s) - 1
      /\ \A k \in 1 .. Len(s) - 1 : t[k] = IF k <= i - 1 THEN a[k] ELSE c[k - (i - 1)]
  <2>1. /\ a \o c \in Seq(M) /\ Len(a \o c) = Len(a) + Len(c)
        /\ \A k \in 1 .. Len(a) + Len(c) :
             (a \o c)[k] = IF k <= Len(a) THEN a[k] ELSE c[k - Len(a)]
    BY <1>1, <1>2, Joined, Zenon
  <2>2. (i - 1) + (Len(s) - i) = Len(s) - 1
    OBVIOUS
  <2>3. QED
    BY <1>1, <1>2, <2>1, <2>2, Zenon
<1> HIDE DEF t
<1>4. ASSUME NEW k \in 1 .. Len(s) - 1
      PROVE  t[k] = IF k < i THEN s[k] ELSE s[k + 1]
  <2>1. CASE k < i
    BY <1>1, <1>3, <2>1
  <2>2. CASE k >= i
    <3>1. k - (i - 1) \in 1 .. Len(s) - i /\ (k - (i - 1)) + i = k + 1
      BY <2>2
    <3>2. t[k] = c[k - (i - 1)] /\ c[k - (i - 1)] = s[k + 1]
      BY <1>2, <1>3, <2>2, <3>1
    <3>3. QED
      BY <2>2, <3>2
  <2>3. k \in Int /\ i \in Int
    OBVIOUS
  <2>4. QED
    BY <2>1, <2>2, <2>3
<1>5. QED
  BY <1>3, <1>4, Zenon DEF a, c, t, TakeOut

\* The same for the struct of a contract: names stay distinct.
LEMMA StructInserted ==
  ASSUME NEW d, NEW s \in Structs(d), NEW i \in 0 .. Len(s), NEW name \in MemberNames(d),
         NEW type \in MemberTypes(d), \A j \in 1 .. Len(s) : s[j].name # name
  PROVE  PutIn(s, i, [name |-> name, type |-> type]) \in Structs(d)
<1> USE Zenon
<1> DEFINE M == [name : MemberNames(d), type : MemberTypes(d)]
           e == [name |-> name, type |-> type]
           t == PutIn(s, i, e)
<1>1. e \in M /\ e.name = name
  OBVIOUS
<1>2. s \in Seq(M) /\ \A j, k \in 1 .. Len(s) : s[j].name = s[k].name => j = k
  BY SMTT(30) DEF Structs, Lists
<1> HIDE DEF M, e
<1>3. /\ t \in Seq(M) /\ Len(t) = Len(s) + 1
      /\ \A k \in 1 .. Len(t) : t[k] = IF k <= i THEN s[k] ELSE IF k = i + 1 THEN e ELSE s[k - 1]
  <2>1. t \in Seq(M) /\ HasPut(t, s, i, e)
    BY <1>1, <1>2, Inserted
  <2> HIDE DEF t
  <2>2. QED
    BY <2>1 DEF HasPut
<1> HIDE DEF t
<1>4. ASSUME NEW j \in 1 .. Len(t), NEW k \in 1 .. Len(t), t[j].name = t[k].name
      PROVE  j = k
  <2>1. Len(s) \in Nat
    BY <1>2, SMTT(30)
  <2>2. \A x \in 1 .. Len(t) :
          \/ x <= i /\ t[x] = s[x] /\ x \in 1 .. Len(s)
          \/ x = i + 1 /\ t[x] = e
          \/ x > i + 1 /\ t[x] = s[x - 1] /\ x - 1 \in 1 .. Len(s)
    <3>1. SUFFICES ASSUME NEW x \in 1 .. Len(t)
                   PROVE  \/ x <= i /\ t[x] = s[x] /\ x \in 1 .. Len(s)
                          \/ x = i + 1 /\ t[x] = e
                          \/ x > i + 1 /\ t[x] = s[x - 1] /\ x - 1 \in 1 .. Len(s)
      OBVIOUS
    <3>2. x \in Int /\ i \in Int /\ x >= 1 /\ i >= 0 /\ x <= Len(s) + 1 /\ i <= Len(s)
      BY <1>3, <2>1, SMTT(30)
    <3>3. t[x] = IF x <= i THEN s[x] ELSE IF x = i + 1 THEN e ELSE s[x - 1]
      BY <1>3
    <3>4. QED
      BY <2>1, <3>2, <3>3, SMTT(30)
  <2>3. \A x \in 1 .. Len(t) : x # i + 1 =>
          \E y \in 1 .. Len(s) : t[x] = s[y] /\ y = IF x <= i THEN x ELSE x - 1
    <3> USE SMTT(30)
    <3>1. SUFFICES ASSUME NEW x \in 1 .. Len(t), x # i + 1
                   PROVE  \E y \in 1 .. Len(s) : t[x] = s[y] /\ y = IF x <= i THEN x ELSE x - 1
      BY Zenon
    <3>2. x \in Int /\ i \in Int
      OBVIOUS
    <3>3. CASE x <= i
      BY <2>2, <3>1, <3>2, <3>3
    <3>4. CASE x > i + 1
      <4>1. x - 1 \in 1 .. Len(s) /\ t[x] = s[x - 1] /\ ~(x <= i)
        BY <2>2, <3>2, <3>4
      <4>2. QED
        BY <4>1, Zenon
    <3>5. QED
      BY <3>1, <3>2, <3>3, <3>4
  <2>4. \A x \in 1 .. Len(t) : x # i + 1 => t[x].name # name
    BY <2>3
  <2>5. \A x \in 1 .. Len(t) : x = i + 1 => t[x].name = name
    BY <1>1, <2>1, <2>2, SMTT(30)
  <2>6. CASE j = i + 1 \/ k = i + 1
    BY <1>4, <2>6, <2>4, <2>5
  <2>7. CASE j # i + 1 /\ k # i + 1
    <3>1. PICK y \in 1 .. Len(s) : t[j] = s[y] /\ y = IF j <= i THEN j ELSE j - 1
      BY <2>7, <2>3
    <3>2. PICK z \in 1 .. Len(s) : t[k] = s[z] /\ z = IF k <= i THEN k ELSE k - 1
      BY <2>7, <2>3
    <3>3. y = z
      BY <1>2, <1>4, <3>1, <3>2
    <3>4. QED
      BY <1>3, <2>1, <2>7, <3>1, <3>2, <3>3, SMTT(30)
  <2>8. QED
    BY <2>6, <2>7
<1>5. DOMAIN t = 1 .. Len(t)
  BY <1>3, SMTT(30)
<1>6. QED
  BY <1>3, <1>4, <1>5 DEF Structs, Lists, M, e, t

\* Taking a member out of a struct leaves a struct.
LEMMA StructTakenOut ==
  ASSUME NEW d, NEW s \in Structs(d), NEW i \in 1 .. Len(s)
  PROVE  TakeOut(s, i) \in Structs(d)
<1> USE SMTT(30)
<1> DEFINE M == [name : MemberNames(d), type : MemberTypes(d)]
           t == TakeOut(s, i)
<1>1. s \in Seq(M) /\ \A j, k \in 1 .. Len(s) : s[j].name = s[k].name => j = k
  BY DEF Structs, Lists
<1> HIDE DEF M
<1>2. /\ t \in Seq(M) /\ Len(t) = Len(s) - 1
      /\ \A k \in 1 .. Len(t) : t[k] = IF k < i THEN s[k] ELSE s[k + 1]
  BY <1>1, TakenOut, Zenon
<1> HIDE DEF t
<1>3. ASSUME NEW j \in 1 .. Len(t), NEW k \in 1 .. Len(t), t[j].name = t[k].name
      PROVE  j = k
  <2>1. Len(s) \in Nat
    BY <1>1
  <2>2. \A x \in 1 .. Len(t) : \/ x < i /\ t[x] = s[x] /\ x \in 1 .. Len(s)
                               \/ x >= i /\ t[x] = s[x + 1] /\ x + 1 \in 1 .. Len(s)
    BY <1>2, <2>1
  <2>3. PICK y \in 1 .. Len(s) : t[j] = s[y] /\ y = IF j < i THEN j ELSE j + 1
    BY <2>2
  <2>4. PICK z \in 1 .. Len(s) : t[k] = s[z] /\ z = IF k < i THEN k ELSE k + 1
    BY <2>2
  <2>5. y = z
    BY <1>1, <1>3, <2>3, <2>4, Zenon
  <2>6. j \in Int /\ k \in Int /\ i \in Int
    OBVIOUS
  <2>7. QED
    BY ONLY <2>3, <2>4, <2>5, <2>6
<1>4. DOMAIN t = 1 .. Len(t)
  BY <1>2
<1>5. QED
  BY <1>2, <1>3, <1>4, Zenon DEF Structs, Lists, M, t

\* Changing the type of a member leaves a struct.
LEMMA StructRetyped ==
  ASSUME NEW d, NEW s \in Structs(d), NEW i \in 1 .. Len(s), NEW type \in MemberTypes(d)
  PROVE  [s EXCEPT ![i].type = type] \in Structs(d)
<1> USE SMTT(30)
<1> DEFINE M == [name : MemberNames(d), type : MemberTypes(d)]
           t == [s EXCEPT ![i].type = type]
<1>1. s \in Seq(M) /\ \A j, k \in 1 .. Len(s) : s[j].name = s[k].name => j = k
  BY DEF Structs, Lists
<1>2. s[i] \in M
  <2> HIDE DEF M
  <2>1. QED
    BY <1>1
<1>3. [s[i] EXCEPT !.type = type] \in M /\ [s[i] EXCEPT !.type = type].name = s[i].name
  BY <1>2, Zenon
<1>4. t = [s EXCEPT ![i] = [s[i] EXCEPT !.type = type]]
  BY Zenon
<1> DEFINE e == [s[i] EXCEPT !.type = type]
<1> HIDE DEF M, t, e
<1>5. t \in Seq(M) /\ Len(t) = Len(s) /\ \A k \in 1 .. Len(s) : t[k] = IF k = i THEN e ELSE s[k]
  BY <1>1, <1>3, <1>4 DEF e
<1>6. \A k \in 1 .. Len(s) : t[k].name = s[k].name
  BY <1>3, <1>5, Zenon DEF e
<1>7. DOMAIN t = 1 .. Len(s)
  BY <1>5
<1>8. QED
  BY <1>1, <1>5, <1>6, <1>7 DEF Structs, Lists, M, t

-----------------------------------------------------------------------------
(* The router                                                              *)

Ids(T) == {WireId[m] : m \in T}
Owner(T, id) == CHOOSE m \in T : WireId[m] = id
Table(T) == [id \in Ids(T) |-> Owner(T, id)]

\* Every method of T has an id of its own.
Distinct(T) == T \subseteq Methods /\ \A x, y \in T : WireId[x] = WireId[y] => x = y

\* An id that belongs to one method only has that method as its owner.
LEMMA OwnerIs ==
  ASSUME NEW T, Distinct(T), NEW m \in T
  PROVE  Owner(T, WireId[m]) = m /\ WireId[m] \in Ids(T)
BY Zenon DEF Owner, Distinct, Ids

\* The table of a set of methods maps the id of each to it.
LEMMA TableIs ==
  ASSUME NEW T, Distinct(T), NEW m \in T
  PROVE  WireId[m] \in DOMAIN Table(T) /\ Table(T)[WireId[m]] = m
BY OwnerIs, Zenon DEF Table

\* Registering one more method.
LEMMA TableInsert ==
  ASSUME NEW T, Distinct(T), NEW x \in T
  PROVE  Insert(Table(T \ {x}), WireId[x], x) = Table(T)
<1> USE Zenon
<1> DEFINE U == T \ {x}
<1>1. Distinct(U)
  BY DEF Distinct
<1>2. Ids(T) = Ids(U) \cup {WireId[x]}
  BY DEF Ids
<1>3. DOMAIN Table(U) = Ids(U)
  BY DEF Table
<1>4. ASSUME NEW id \in Ids(T)
      PROVE  (IF id = WireId[x] THEN x ELSE Table(U)[id]) = Owner(T, id)
  <2>1. PICK m \in T : id = WireId[m]
    BY DEF Ids
  <2>2. Owner(T, id) = m
    BY <2>1, OwnerIs
  <2>3. CASE m = x
    BY <2>1, <2>2, <2>3
  <2>4. CASE m # x
    <3>1. m \in U /\ id # WireId[x]
      BY <2>1, <2>4 DEF Distinct
    <3> HIDE DEF U
    <3>2. Table(U)[id] = m
      BY <1>1, <2>1, <3>1, TableIs
    <3>3. QED
      BY <2>2, <3>1, <3>2
  <2>5. QED
    BY <2>3, <2>4
<1>5. QED
  <2> HIDE DEF U
  <2>1. Insert(Table(U), WireId[x], x) = [id \in Ids(T) |-> IF id = WireId[x] THEN x ELSE Table(U)[id]]
    BY <1>2, <1>3 DEF Insert
  <2>2. QED
    BY <1>4, <2>1 DEF Table, U

Scopes(m) == ParsePolicy(built.methods[m]).scopes
ScopeTable(T) == [id \in Ids(T) |-> Scopes(Owner(T, id))]

\* The same for the scopes a method requires.
LEMMA ScopeInsert ==
  ASSUME NEW T, Distinct(T), NEW x \in T
  PROVE  Insert(ScopeTable(T \ {x}), WireId[x], Scopes(x)) = ScopeTable(T)
<1> USE Zenon
<1> DEFINE U == T \ {x}
<1>1. Distinct(U)
  BY DEF Distinct
<1>2. Ids(T) = Ids(U) \cup {WireId[x]}
  BY DEF Ids
<1>3. DOMAIN ScopeTable(U) = Ids(U)
  BY DEF ScopeTable
<1>4. ASSUME NEW id \in Ids(T)
      PROVE  (IF id = WireId[x] THEN Scopes(x) ELSE ScopeTable(U)[id]) = Scopes(Owner(T, id))
  <2>1. PICK m \in T : id = WireId[m]
    BY DEF Ids
  <2>2. Owner(T, id) = m
    BY <2>1, OwnerIs
  <2>3. CASE m = x
    BY <2>1, <2>2, <2>3
  <2>4. CASE m # x
    <3>1. m \in U /\ id # WireId[x]
      BY <2>1, <2>4 DEF Distinct
    <3> HIDE DEF U
    <3>2. Owner(U, id) = m /\ id \in Ids(U)
      BY <1>1, <2>1, <3>1, OwnerIs
    <3>3. QED
      BY <2>2, <3>1, <3>2 DEF ScopeTable
  <2>5. QED
    BY <2>3, <2>4
<1>5. QED
  <2> HIDE DEF U
  <2>1. Insert(ScopeTable(U), WireId[x], Scopes(x))
          = [id \in Ids(T) |-> IF id = WireId[x] THEN Scopes(x) ELSE ScopeTable(U)[id]]
    BY <1>2, <1>3 DEF Insert
  <2>2. QED
    BY <1>4, <2>1 DEF ScopeTable, U

BuilderFields == {"handlers", "stream_handlers", "method_names", "required_scopes",
                  "authorization_configured", "unsecured_scopes_allowed", "panicked"}

\* A builder that has not panicked and not been told about authorization.
IsBuilder(b, handlers, streams, names, scopes) ==
  /\ DOMAIN b = BuilderFields
  /\ b.handlers = handlers /\ b.stream_handlers = streams /\ b.method_names = names
  /\ b.required_scopes = scopes
  /\ ~b.authorization_configured /\ ~b.unsecured_scopes_allowed /\ ~b.panicked

\* Assigning one map of a builder leaves the others alone.
LEMMA SetField ==
  ASSUME NEW b, NEW h, NEW t, NEW n, NEW q, IsBuilder(b, h, t, n, q), NEW v
  PROVE  /\ IsBuilder([b EXCEPT !.handlers = v], v, t, n, q)
         /\ IsBuilder([b EXCEPT !.stream_handlers = v], h, v, n, q)
         /\ IsBuilder([b EXCEPT !.method_names = v], h, t, v, q)
         /\ IsBuilder([b EXCEPT !.required_scopes = v], h, t, n, v)
<1> USE Zenon
<1>1. IsBuilder([b EXCEPT !.handlers = v], v, t, n, q)
  BY DEF IsBuilder, BuilderFields
<1>2. IsBuilder([b EXCEPT !.stream_handlers = v], h, v, n, q)
  BY DEF IsBuilder, BuilderFields
<1>3. IsBuilder([b EXCEPT !.method_names = v], h, t, v, q)
  BY DEF IsBuilder, BuilderFields
<1>4. IsBuilder([b EXCEPT !.required_scopes = v], h, t, n, v)
  BY DEF IsBuilder, BuilderFields
<1>5. QED
  BY <1>1, <1>2, <1>3, <1>4

\* What the generated code does for a method whose id is free.
LEMMA RegisterIs ==
  ASSUME NEW b, NEW h, NEW t, NEW n, NEW q, IsBuilder(b, h, t, n, q), NEW x,
         WireId[x] \notin DOMAIN h, WireId[x] \notin DOMAIN t, WireId[x] \notin DOMAIN n
  PROVE  LET id == WireId[x]
             r  == RegisterMethod(b, x)
         IN  IF built.methods[x].server_streaming
             THEN IsBuilder(r, h, Insert(t, id, x), Insert(n, id, x), Insert(q, id, Scopes(x)))
             ELSE IsBuilder(r, Insert(h, id, x), t, Insert(n, id, x), Insert(q, id, Scopes(x)))
<1> USE Zenon
<1> DEFINE id == WireId[x]
           hx == Insert(h, id, x)
           tx == Insert(t, id, x)
           nx == Insert(n, id, x)
           qx == Insert(q, id, Scopes(x))
<1> HIDE DEF id, hx, tx, nx, qx
<1>1. /\ ~b.panicked /\ b.handlers = h /\ b.stream_handlers = t /\ b.method_names = n
      /\ b.required_scopes = q
  BY DEF IsBuilder
<1>2. IsBuilder(Route(b, id, x), hx, t, n, q)
  <2>1. Route(b, id, x) = [b EXCEPT !.handlers = hx]
    BY <1>1 DEF Route, Require, hx, id
  <2>2. IsBuilder([b EXCEPT !.handlers = hx], hx, t, n, q)
    BY SetField
  <2>3. QED
    BY <2>1, <2>2
<1>3. IsBuilder(RouteStream(b, id, x), h, tx, n, q)
  <2>1. RouteStream(b, id, x) = [b EXCEPT !.stream_handlers = tx]
    BY <1>1 DEF RouteStream, Require, tx, id
  <2>2. IsBuilder([b EXCEPT !.stream_handlers = tx], h, tx, n, q)
    BY SetField
  <2>3. QED
    BY <2>1, <2>2
<1>4. IsBuilder(RouteScoped(b, id, Scopes(x), x), hx, t, n, qx)
  <2> DEFINE c == Route(b, id, x)
  <2>1. c.required_scopes = q
    BY <1>2 DEF IsBuilder
  <2>2. RouteScoped(b, id, Scopes(x), x) = [c EXCEPT !.required_scopes = qx]
    BY <2>1 DEF RouteScoped, qx
  <2> HIDE DEF c
  <2>3. IsBuilder(c, hx, t, n, q)
    BY <1>2 DEF c
  <2>4. IsBuilder([c EXCEPT !.required_scopes = qx], hx, t, n, qx)
    BY <2>3, SetField
  <2>5. QED
    BY <2>2, <2>4
<1>5. IsBuilder(RouteStreamScoped(b, id, Scopes(x), x), h, tx, n, qx)
  <2> DEFINE c == RouteStream(b, id, x)
  <2>1. c.required_scopes = q
    BY <1>3 DEF IsBuilder
  <2>2. RouteStreamScoped(b, id, Scopes(x), x) = [c EXCEPT !.required_scopes = qx]
    BY <2>1 DEF RouteStreamScoped, qx
  <2> HIDE DEF c
  <2>3. IsBuilder(c, h, tx, n, q)
    BY <1>3 DEF c
  <2>4. IsBuilder([c EXCEPT !.required_scopes = qx], h, tx, n, qx)
    BY <2>3, SetField
  <2>5. QED
    BY <2>2, <2>4
<1>6. ASSUME NEW c, NEW hh, NEW tt, NEW qq, IsBuilder(c, hh, tt, n, qq), id \in DOMAIN hh \cup DOMAIN tt
      PROVE  IsBuilder(MethodName(c, id, x), hh, tt, nx, qq)
  <2>1. c.method_names = n /\ c.handlers = hh /\ c.stream_handlers = tt
    BY <1>6 DEF IsBuilder
  <2>2. MethodName(c, id, x) = [c EXCEPT !.method_names = nx]
    BY <1>6, <2>1 DEF MethodName, Require, nx, id
  <2>3. IsBuilder([c EXCEPT !.method_names = nx], hh, tt, nx, qq)
    BY <1>6, SetField
  <2>4. QED
    BY <2>2, <2>3
<1>7. id \in DOMAIN hx /\ id \in DOMAIN tx
  BY DEF Insert, hx, tx
<1>8. RegisterMethod(b, x) =
        MethodName(IF built.methods[x].server_streaming
                   THEN RouteStreamScoped(b, id, Scopes(x), x)
                   ELSE RouteScoped(b, id, Scopes(x), x), id, x)
  BY <1>1 DEF RegisterMethod, Scopes, id
<1>9. CASE built.methods[x].server_streaming
  <2>1. RegisterMethod(b, x) = MethodName(RouteStreamScoped(b, id, Scopes(x), x), id, x)
    BY <1>8, <1>9
  <2>2. IsBuilder(RegisterMethod(b, x), h, tx, nx, qx)
    BY <1>5, <1>6, <1>7, <2>1
  <2>3. QED
    BY <1>9, <2>2 DEF id, hx, tx, nx, qx
<1>10. CASE ~built.methods[x].server_streaming
  <2>1. RegisterMethod(b, x) = MethodName(RouteScoped(b, id, Scopes(x), x), id, x)
    BY <1>8, <1>10
  <2>2. IsBuilder(RegisterMethod(b, x), hx, t, nx, qx)
    BY <1>4, <1>6, <1>7, <2>1
  <2>3. QED
    BY <1>10, <2>2 DEF id, hx, tx, nx, qx
<1>11. QED
  BY <1>9, <1>10

Unary(s) == {m \in s : ~built.methods[m].server_streaming}
Streams(s) == {m \in s : built.methods[m].server_streaming}

\* b is what registering the methods of s makes of a new builder.
Registered(b, s) == IsBuilder(b, Table(Unary(s)), Table(Streams(s)), Table(s), ScopeTable(s))

\* A new builder has no methods.
LEMMA RegisteredNone == Registered(NewBuilder, {})
<1> USE Zenon
<1>1. Unary({}) = {} /\ Streams({}) = {} /\ Ids({}) = {}
  BY DEF Unary, Streams, Ids
<1>2. Table({}) = <<>> /\ ScopeTable({}) = <<>>
  BY <1>1, SMTT(30) DEF Table, ScopeTable
<1>3. QED
  BY <1>1, <1>2 DEF Registered, IsBuilder, BuilderFields, NewBuilder

\* Registering a method of s after the others of s, whose ids differ, never panics
\* and leaves a builder for s (generate_rust_method, RouterBuilder).
LEMMA RegisteredOneMore ==
  ASSUME NEW s, Distinct(s), NEW x \in s, NEW b, Registered(b, s \ {x})
  PROVE  Registered(RegisterMethod(b, x), s)
<1> USE Zenon
<1> DEFINE u == s \ {x}
           id == WireId[x]
<1>1. id \notin Ids(u)
  BY DEF Distinct, Ids
<1>2. Ids(Unary(u)) \subseteq Ids(u) /\ Ids(Streams(u)) \subseteq Ids(u)
  BY DEF Ids, Unary, Streams
<1>3. \A T : DOMAIN Table(T) = Ids(T)
  BY DEF Table
<1>4. id \notin DOMAIN Table(Unary(u)) /\ id \notin DOMAIN Table(Streams(u)) /\ id \notin DOMAIN Table(u)
  BY <1>1, <1>2, <1>3
<1>5. IsBuilder(b, Table(Unary(u)), Table(Streams(u)), Table(u), ScopeTable(u))
  BY DEF Registered
<1>6. Insert(Table(u), id, x) = Table(s) /\ Insert(ScopeTable(u), id, Scopes(x)) = ScopeTable(s)
  BY TableInsert, ScopeInsert
<1>7. CASE built.methods[x].server_streaming
  <2>1. Unary(u) = Unary(s) /\ Streams(u) = Streams(s) \ {x} /\ x \in Streams(s) /\ Distinct(Streams(s))
    BY <1>7 DEF Unary, Streams, Distinct
  <2>2. Insert(Table(Streams(u)), id, x) = Table(Streams(s))
    BY <2>1, TableInsert
  <2> HIDE DEF id, u
  <2>3. IsBuilder(RegisterMethod(b, x), Table(Unary(u)), Insert(Table(Streams(u)), id, x),
                  Insert(Table(u), id, x), Insert(ScopeTable(u), id, Scopes(x)))
    BY <1>4, <1>5, <1>7, RegisterIs DEF id
  <2>4. QED
    BY <1>6, <2>1, <2>2, <2>3 DEF Registered
<1>8. CASE ~built.methods[x].server_streaming
  <2>1. Streams(u) = Streams(s) /\ Unary(u) = Unary(s) \ {x} /\ x \in Unary(s) /\ Distinct(Unary(s))
    BY <1>8 DEF Unary, Streams, Distinct
  <2>2. Insert(Table(Unary(u)), id, x) = Table(Unary(s))
    BY <2>1, TableInsert
  <2> HIDE DEF id, u
  <2>3. IsBuilder(RegisterMethod(b, x), Insert(Table(Unary(u)), id, x), Table(Streams(u)),
                  Insert(Table(u), id, x), Insert(ScopeTable(u), id, Scopes(x)))
    BY <1>4, <1>5, <1>8, RegisterIs DEF id
  <2>4. QED
    BY <1>6, <2>1, <2>2, <2>3 DEF Registered
<1>9. QED
  BY <1>7, <1>8

\* g registers the methods of every set it is defined for, one at a time.
Registers(g) ==
  \A s \in DOMAIN g :
    g[s] = IF s = {} THEN NewBuilder ELSE RegisterMethod(g[s \ {Pick(s)}], Pick(s))

\* There is a function that registers the methods of every subset of a finite set.
LEMMA RegistersExist ==
  ASSUME NEW S, IsFiniteSet(S)
  PROVE  \E g : DOMAIN g = SUBSET S /\ g = [s \in SUBSET S |-> g[s]] /\ Registers(g)
<1> USE Zenon
<1> DEFINE P == {n \in Nat : \E g : DOMAIN g = UpTo(S, n) /\ Registers(g)}
<1>1. 0 \in P
  <2> DEFINE g == [s \in UpTo(S, 0) |-> NewBuilder]
  <2>1. ASSUME NEW s \in UpTo(S, 0)
        PROVE  s = {}
    <3>1. s \in SUBSET S /\ Cardinality(s) <= 0
      BY DEF UpTo
    <3>2. IsFiniteSet(s)
      BY <3>1, FS_Subset
    <3>3. Cardinality(s) \in Nat
      BY <3>2, FS_CardinalityType
    <3>4. QED
      BY <3>1, <3>2, <3>3, FS_EmptySet, SMTT(30)
  <2>2. DOMAIN g = UpTo(S, 0) /\ Registers(g)
    BY <2>1 DEF Registers
  <2>3. QED
    BY <2>2
<1>2. ASSUME NEW n \in P
      PROVE  n + 1 \in P
  <2>1. n \in Nat /\ n + 1 \in Nat
    BY SMTT(30)
  <2>2. PICK g : DOMAIN g = UpTo(S, n) /\ Registers(g)
    OBVIOUS
  <2> DEFINE h == [s \in UpTo(S, n + 1) |-> IF s \in UpTo(S, n) THEN g[s]
                                            ELSE RegisterMethod(g[s \ {Pick(s)}], Pick(s))]
  <2>3. ASSUME NEW s \in UpTo(S, n + 1), s # {}
        PROVE  s \ {Pick(s)} \in UpTo(S, n) /\ s \ {Pick(s)} \in UpTo(S, n + 1)
    <3>1. s \in SUBSET S /\ Cardinality(s) <= n + 1
      BY DEF UpTo
    <3>2. Pick(s) \in s
      BY <2>3, PickIn
    <3>3. /\ s \ {Pick(s)} \in SUBSET S /\ Cardinality(s) \in Nat
          /\ Cardinality(s \ {Pick(s)}) = Cardinality(s) - 1
      BY <2>3, <3>1, <3>2, Smaller
    <3>4. QED
      BY <2>1, <3>1, <3>3, SMTT(30) DEF UpTo
  <2>4. {} \in UpTo(S, n)
    BY <2>1, FS_EmptySet, SMTT(30) DEF UpTo
  <2>5. ASSUME NEW s \in UpTo(S, n + 1)
        PROVE  h[s] = IF s = {} THEN NewBuilder ELSE RegisterMethod(h[s \ {Pick(s)}], Pick(s))
    <3>1. CASE s = {}
      BY <2>2, <2>4, <3>1 DEF Registers
    <3>2. CASE s # {}
      <4>1. s \ {Pick(s)} \in UpTo(S, n) /\ s \ {Pick(s)} \in UpTo(S, n + 1)
        BY <2>3, <3>2
      <4>2. h[s \ {Pick(s)}] = g[s \ {Pick(s)}]
        BY <4>1
      <4>3. h[s] = RegisterMethod(g[s \ {Pick(s)}], Pick(s))
        BY <2>2, <3>2 DEF Registers
      <4>4. QED
        BY <3>2, <4>2, <4>3
    <3>3. QED
      BY <3>1, <3>2
  <2>6. DOMAIN h = UpTo(S, n + 1)
    OBVIOUS
  <2>7. Registers(h)
    <3> HIDE DEF h
    <3>1. QED
      BY <2>5, <2>6 DEF Registers
  <2>8. QED
    BY <2>1, <2>6, <2>7
<1>3. P = Nat
  <2>1. P \in SUBSET Nat
    OBVIOUS
  <2> HIDE DEF P
  <2>2. QED
    BY <1>1, <1>2, <2>1, NatSetInduction
<1>4. PICK g : DOMAIN g = UpTo(S, Cardinality(S)) /\ Registers(g)
  <2>1. Cardinality(S) \in P
    BY <1>3, FS_CardinalityType
  <2>2. QED
    BY <2>1
<1>5. UpTo(S, Cardinality(S)) = SUBSET S
  BY FS_Subset DEF UpTo
<1> DEFINE f == [s \in SUBSET S |-> g[s]]
<1>6. DOMAIN f = SUBSET S /\ f = [s \in SUBSET S |-> f[s]]
  OBVIOUS
<1>7. Registers(f)
  <2> SUFFICES ASSUME NEW s \in SUBSET S
               PROVE  f[s] = IF s = {} THEN NewBuilder
                             ELSE RegisterMethod(f[s \ {Pick(s)}], Pick(s))
    BY DEF Registers
  <2>1. f[s] = g[s] /\ f[s \ {Pick(s)}] = g[s \ {Pick(s)}]
    OBVIOUS
  <2> HIDE DEF f
  <2>2. QED
    BY <1>4, <1>5, <2>1 DEF Registers
<1> HIDE DEF f
<1>8. QED
  BY <1>6, <1>7

\* The generated registrations: every method ends up in its table.
LEMMA ServicesRegistered ==
  ASSUME NEW S, IsFiniteSet(S), Distinct(S)
  PROVE  Registered(FoldSet(LAMBDA m, b : RegisterMethod(b, m), NewBuilder, S), S)
<1> USE Zenon
<1> DEFINE Body(g) == [s \in SUBSET S |-> IF s = {} THEN NewBuilder
                                          ELSE RegisterMethod(g[s \ {CHOOSE x \in s : TRUE}],
                                                              CHOOSE x \in s : TRUE)]
           iter == CHOOSE g : g = Body(g)
<1>1. FoldSet(LAMBDA m, b : RegisterMethod(b, m), NewBuilder, S) = iter[S]
  BY DEF FoldSet, MapThenFoldSet
<1>2. PICK h : DOMAIN h = SUBSET S /\ h = [s \in SUBSET S |-> h[s]] /\ Registers(h)
  BY RegistersExist
<1>3. h = Body(h)
  BY <1>2 DEF Registers, Pick
<1>4. iter = Body(iter)
  BY <1>3
<1> HIDE DEF iter
<1>5. DOMAIN iter = SUBSET S /\ Registers(iter)
  <2>1. DOMAIN iter = SUBSET S
    BY <1>4
  <2>2. \A s \in SUBSET S : iter[s] = IF s = {} THEN NewBuilder
                                      ELSE RegisterMethod(iter[s \ {CHOOSE x \in s : TRUE}],
                                                          CHOOSE x \in s : TRUE)
    BY <1>4
  <2>3. QED
    BY <2>1, <2>2 DEF Registers, Pick
<1> DEFINE P == {n \in Nat : \A s \in SUBSET S : Cardinality(s) <= n => Registered(iter[s], s)}
<1>6. ASSUME NEW s \in SUBSET S
      PROVE  IsFiniteSet(s) /\ Cardinality(s) \in Nat /\ Distinct(s)
  BY FS_Subset, FS_CardinalityType DEF Distinct
<1>7. 0 \in P
  <2> SUFFICES ASSUME NEW s \in SUBSET S, Cardinality(s) <= 0
               PROVE  Registered(iter[s], s)
    OBVIOUS
  <2>1. s = {}
    <3>1. Cardinality(s) = 0
      BY <1>6, SMTT(30)
    <3>2. QED
      BY <1>6, <3>1, FS_EmptySet
  <2>2. iter[s] = NewBuilder
    BY <1>5, <2>1 DEF Registers
  <2>3. QED
    BY <2>1, <2>2, RegisteredNone
<1>8. ASSUME NEW n \in P
      PROVE  n + 1 \in P
  <2> SUFFICES ASSUME NEW s \in SUBSET S, Cardinality(s) <= n + 1
               PROVE  Registered(iter[s], s)
    BY SMTT(30)
  <2>1. CASE s = {}
    <3>1. iter[s] = NewBuilder
      BY <1>5, <2>1 DEF Registers
    <3>2. QED
      BY <2>1, <3>1, RegisteredNone
  <2>2. CASE s # {}
    <3> DEFINE x == Pick(s)
    <3>1. x \in s
      BY <2>2, PickIn
    <3>2. s \ {x} \in SUBSET S /\ Cardinality(s \ {x}) = Cardinality(s) - 1 /\ Cardinality(s) \in Nat
      BY <2>2, <3>1, Smaller
    <3>3. Registered(iter[s \ {x}], s \ {x})
      BY <3>2, SMTT(30)
    <3>4. iter[s] = RegisterMethod(iter[s \ {x}], x)
      BY <1>5, <2>2 DEF Registers
    <3>5. Distinct(s)
      BY <1>6
    <3> HIDE DEF x
    <3>6. QED
      BY <3>1, <3>3, <3>4, <3>5, RegisteredOneMore, SMTT(30)
  <2>3. QED
    BY <2>1, <2>2
<1>9. P = Nat
  <2>1. P \in SUBSET Nat
    OBVIOUS
  <2> HIDE DEF P
  <2>2. QED
    BY <1>7, <1>8, <2>1, NatSetInduction
<1>10. Registered(iter[S], S)
  <2>1. S \in SUBSET S /\ Cardinality(S) \in P /\ Cardinality(S) <= Cardinality(S)
    BY <1>6, <1>9, SMTT(30)
  <2>2. QED
    BY <2>1
<1>11. QED
  BY <1>1, <1>10

\* The tables serve every method of s under its id, and beside them only raw.
Serving(h, t, s, raw) ==
  /\ \A m \in s : LET table == IF built.methods[m].server_streaming THEN t ELSE h
                  IN  WireId[m] \in DOMAIN table /\ table[WireId[m]] = m
  /\ DOMAIN h \cap DOMAIN t = {}
  /\ DOMAIN h \cup DOMAIN t \subseteq Ids(s) \cup {raw}

\* The tables that the generated registrations fill serve every method.
LEMMA TablesServe ==
  ASSUME NEW s, Distinct(s), NEW raw
  PROVE  Serving(Table(Unary(s)), Table(Streams(s)), s, raw)
<1> USE Zenon
<1>1. Distinct(Unary(s)) /\ Distinct(Streams(s))
  BY DEF Distinct, Unary, Streams
<1>2. DOMAIN Table(Unary(s)) = Ids(Unary(s)) /\ DOMAIN Table(Streams(s)) = Ids(Streams(s))
  BY DEF Table
<1>3. Ids(Unary(s)) \cap Ids(Streams(s)) = {} /\ Ids(Unary(s)) \cup Ids(Streams(s)) \subseteq Ids(s)
  BY DEF Ids, Unary, Streams, Distinct
<1>4. ASSUME NEW m \in s, built.methods[m].server_streaming
      PROVE  WireId[m] \in DOMAIN Table(Streams(s)) /\ Table(Streams(s))[WireId[m]] = m
  <2>1. m \in Streams(s)
    BY <1>4 DEF Streams
  <2>2. QED
    BY <1>1, <2>1, TableIs
<1>5. ASSUME NEW m \in s, ~built.methods[m].server_streaming
      PROVE  WireId[m] \in DOMAIN Table(Unary(s)) /\ Table(Unary(s))[WireId[m]] = m
  <2>1. m \in Unary(s)
    BY <1>5 DEF Unary
  <2>2. QED
    BY <1>1, <2>1, TableIs
<1>6. QED
  BY <1>2, <1>3, <1>4, <1>5 DEF Serving

\* A handler the application registers under a free id disturbs none of them.
LEMMA ServingMore ==
  ASSUME NEW h, NEW t, NEW s, NEW raw, NEW x, Serving(h, t, s, raw),
         raw \notin DOMAIN h, raw \notin DOMAIN t
  PROVE  Serving(Insert(h, raw, x), t, s, raw) /\ Serving(h, Insert(t, raw, x), s, raw)
<1> USE Zenon
<1>1. /\ DOMAIN Insert(h, raw, x) = DOMAIN h \cup {raw}
      /\ \A id \in DOMAIN h : Insert(h, raw, x)[id] = h[id]
  BY DEF Insert
<1>2. /\ DOMAIN Insert(t, raw, x) = DOMAIN t \cup {raw}
      /\ \A id \in DOMAIN t : Insert(t, raw, x)[id] = t[id]
  BY DEF Insert
<1>3. Serving(Insert(h, raw, x), t, s, raw)
  BY <1>1 DEF Serving
<1>4. Serving(h, Insert(t, raw, x), s, raw)
  BY <1>2 DEF Serving
<1>5. QED
  BY <1>3, <1>4

\* The builder after the application decided about authorization and built.
Secured(b, authorization) ==
  CASE authorization = "layer"     -> AuthorizationLayer(b)
    [] authorization = "unsecured" -> AllowUnsecuredScopes(b)
    [] OTHER -> b
Finished(b, authorization) ==
  LET secured == Secured(b, authorization)
  IN  IF secured.panicked THEN secured ELSE BuildRouter(secured)

\* A panic is never undone.
LEMMA FinishedPanicked ==
  ASSUME NEW b, DOMAIN b = BuilderFields, b.panicked = TRUE,
         NEW a \in {"none", "layer", "unsecured"}
  PROVE  Finished(b, a).panicked
<1> USE Zenon
<1>1. CASE a = "none"
  <2>1. Secured(b, a) = b
    BY <1>1 DEF Secured
  <2>2. QED
    BY <2>1 DEF Finished
<1>2. CASE a = "layer"
  <2>1. Secured(b, a) = AuthorizationLayer(b)
    BY <1>2 DEF Secured
  <2>2. Secured(b, a).panicked
    BY <2>1 DEF AuthorizationLayer, BuilderFields
  <2>3. QED
    BY <2>2 DEF Finished
<1>3. CASE a = "unsecured"
  <2>1. Secured(b, a) = AllowUnsecuredScopes(b)
    BY <1>3 DEF Secured
  <2>2. Secured(b, a).panicked
    BY <2>1 DEF AllowUnsecuredScopes, BuilderFields
  <2>3. QED
    BY <2>2 DEF Finished
<1>4. QED
  BY <1>1, <1>2, <1>3

\* What a builder holds, whatever it was told about authorization.
Holds(b, h, t, n, q) ==
  /\ DOMAIN b = BuilderFields
  /\ b.handlers = h /\ b.stream_handlers = t /\ b.method_names = n /\ b.required_scopes = q

\* build panics exactly when scopes are required and nobody decided about them.
LEMMA FinishedHolds ==
  ASSUME NEW b, NEW h, NEW t, NEW n, NEW q, IsBuilder(b, h, t, n, q),
         NEW a \in {"none", "layer", "unsecured"}
  PROVE  LET f == Finished(b, a)
         IN  /\ Holds(f, h, t, n, q)
             /\ f.panicked <=> a = "none" /\ \E id \in DOMAIN q : q[id] # {}
<1> USE Zenon
<1> DEFINE e == Secured(b, a)
           open == \A id \in DOMAIN q : q[id] = {}
<1>1. Holds(e, h, t, n, q) /\ ~e.panicked
        /\ (e.authorization_configured \/ e.unsecured_scopes_allowed <=> a # "none")
  <2>1. CASE a = "none"
    <3>1. e = b
      BY <2>1 DEF Secured
    <3>2. QED
      BY <2>1, <3>1 DEF IsBuilder, Holds
  <2>2. CASE a = "layer"
    <3>1. e = [b EXCEPT !.authorization_configured = TRUE]
      BY <2>2 DEF Secured, AuthorizationLayer
    <3> HIDE DEF e
    <3>2. e.authorization_configured /\ ~e.panicked
      BY <3>1 DEF IsBuilder, BuilderFields
    <3>3. Holds(e, h, t, n, q)
      BY <3>1 DEF IsBuilder, Holds, BuilderFields
    <3>4. QED
      BY <2>2, <3>2, <3>3
  <2>3. CASE a = "unsecured"
    <3>1. e = [b EXCEPT !.unsecured_scopes_allowed = TRUE]
      BY <2>3 DEF Secured, AllowUnsecuredScopes
    <3> HIDE DEF e
    <3>2. e.unsecured_scopes_allowed /\ ~e.panicked
      BY <3>1 DEF IsBuilder, BuilderFields
    <3>3. Holds(e, h, t, n, q)
      BY <3>1 DEF IsBuilder, Holds, BuilderFields
    <3>4. QED
      BY <2>3, <3>2, <3>3
  <2>4. QED
    BY <2>1, <2>2, <2>3
<1>2. Finished(b, a) = BuildRouter(e)
  BY <1>1 DEF Finished
<1> HIDE DEF e
<1>3. e.required_scopes = q
  BY <1>1 DEF Holds
<1>4. Finished(b, a) = IF open \/ e.authorization_configured \/ e.unsecured_scopes_allowed THEN e
                       ELSE [e EXCEPT !.panicked = TRUE]
  BY <1>2, <1>3 DEF BuildRouter, Require
<1>5. CASE open \/ a # "none"
  <2>1. Finished(b, a) = e
    BY <1>1, <1>4, <1>5
  <2>2. QED
    BY <1>1, <1>5, <2>1
<1>6. CASE ~open /\ a = "none"
  <2>1. Finished(b, a) = [e EXCEPT !.panicked = TRUE]
    BY <1>1, <1>4, <1>6
  <2>2. Finished(b, a).panicked
    BY <1>1, <2>1 DEF Holds, BuilderFields
  <2>3. Holds(Finished(b, a), h, t, n, q)
    BY <1>1, <2>1 DEF Holds, BuilderFields
  <2>4. QED
    BY <1>6, <2>2, <2>3
<1>7. QED
  BY <1>5, <1>6

\* The builder with the handler the application registers by hand.
Extended(b, raw) ==
  IF b.panicked \/ raw.id = None THEN b
  ELSE IF raw.stream THEN RouteStream(b, raw.id, raw)
  ELSE Route(b, raw.id, raw)

\* A hand registered handler with a free id, or none, leaves the methods served.
LEMMA ExtendedIs ==
  ASSUME NEW b, NEW s, Distinct(s), Registered(b, s), NEW raw, raw.id \notin Ids(s)
  PROVE  \E h, t : /\ IsBuilder(Extended(b, raw), h, t, Table(s), ScopeTable(s))
                   /\ Serving(h, t, s, raw.id)
<1> USE Zenon
<1> DEFINE h == Table(Unary(s))
           t == Table(Streams(s))
           n == Table(s)
           q == ScopeTable(s)
<1>1. IsBuilder(b, h, t, n, q)
  BY DEF Registered
<1>2. Serving(h, t, s, raw.id)
  BY TablesServe
<1>3. raw.id \notin DOMAIN h /\ raw.id \notin DOMAIN t
  BY DEF Table, Ids, Unary, Streams
<1>4. ~b.panicked /\ b.handlers = h /\ b.stream_handlers = t
  BY <1>1 DEF IsBuilder
<1> HIDE DEF h, t, n, q
<1>5. CASE raw.id = None
  <2>1. Extended(b, raw) = b
    BY <1>5 DEF Extended
  <2>2. QED
    BY <1>1, <1>2, <2>1 DEF n, q
<1>6. CASE raw.id # None /\ raw.stream
  <2> DEFINE t2 == Insert(t, raw.id, raw)
  <2>1. Extended(b, raw) = [b EXCEPT !.stream_handlers = t2]
    BY <1>3, <1>4, <1>6 DEF Extended, RouteStream, Require
  <2>2. Serving(h, t2, s, raw.id)
    BY <1>2, <1>3, ServingMore
  <2> HIDE DEF t2
  <2>3. IsBuilder([b EXCEPT !.stream_handlers = t2], h, t2, n, q)
    BY <1>1, SetField
  <2>4. IsBuilder(Extended(b, raw), h, t2, n, q)
    BY <2>1, <2>3
  <2>5. QED
    BY <2>2, <2>4 DEF n, q
<1>7. CASE raw.id # None /\ ~raw.stream
  <2> DEFINE h2 == Insert(h, raw.id, raw)
  <2>1. Extended(b, raw) = [b EXCEPT !.handlers = h2]
    BY <1>3, <1>4, <1>7 DEF Extended, Route, Require
  <2>2. Serving(h2, t, s, raw.id)
    BY <1>2, <1>3, ServingMore
  <2> HIDE DEF h2
  <2>3. IsBuilder([b EXCEPT !.handlers = h2], h2, t, n, q)
    BY <1>1, SetField
  <2>4. IsBuilder(Extended(b, raw), h2, t, n, q)
    BY <2>1, <2>3
  <2>5. QED
    BY <2>2, <2>4 DEF n, q
<1>8. QED
  BY <1>5, <1>6, <1>7

\* A hand registered handler with the id of a method panics.
LEMMA ExtendedPanicked ==
  ASSUME NEW b, NEW s, Distinct(s), Registered(b, s), NEW raw, raw.id \in Ids(s), raw.id # None
  PROVE  DOMAIN Extended(b, raw) = BuilderFields /\ Extended(b, raw).panicked = TRUE
<1> USE Zenon
<1> DEFINE h == Table(Unary(s))
           t == Table(Streams(s))
           e == [b EXCEPT !.handlers = Insert(b.handlers, raw.id, raw)]
           g == [b EXCEPT !.stream_handlers = Insert(b.stream_handlers, raw.id, raw)]
<1>1. DOMAIN b = BuilderFields /\ ~b.panicked /\ b.handlers = h /\ b.stream_handlers = t
  BY DEF Registered, IsBuilder
<1>2. raw.id \in DOMAIN b.stream_handlers \cup DOMAIN b.handlers
  <2>1. raw.id \in DOMAIN h \cup DOMAIN t
    BY DEF Table, Ids, Unary, Streams
  <2>2. QED
    BY <1>1, <2>1
<1>3. DOMAIN e = BuilderFields /\ DOMAIN g = BuilderFields
  BY <1>1
<1>4. Extended(b, raw) = IF raw.stream THEN [g EXCEPT !.panicked = TRUE]
                         ELSE [e EXCEPT !.panicked = TRUE]
  BY <1>1, <1>2 DEF Extended, RouteStream, Route, Require
<1> HIDE DEF e, g, h, t
<1>5. \A x : DOMAIN x = BuilderFields =>
        /\ DOMAIN [x EXCEPT !.panicked = TRUE] = BuilderFields
        /\ [x EXCEPT !.panicked = TRUE].panicked = TRUE
  BY DEF BuilderFields
<1>6. QED
  BY <1>3, <1>4, <1>5

=============================================================================
