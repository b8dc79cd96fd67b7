----------------------------- MODULE FoldLemmas -----------------------------
(***************************************************************************)
(* Facts about numbers, folds and sums that the proofs about the schema    *)
(* lock and the frame path rest on.  Induction is over a set of numbers.   *)
(***************************************************************************)
EXTENDS Integers, FiniteSets, Functions, WellFoundedInduction, FiniteSetTheorems, TLAPS

\* A set of numbers that holds 0 and every successor holds all.
LEMMA NatSetInduction ==
  ASSUME NEW P \in SUBSET Nat, 0 \in P, \A n \in P : n + 1 \in P
  PROVE  P = Nat
<1> USE Zenon
<1> DEFINE R == OpToRel(<, Nat)
           T == Nat \ P
<1>1. IsWellFoundedOn(R, Nat)
  BY NatLessThanWellFounded
<1> SUFFICES ASSUME T # {}
             PROVE  FALSE
  OBVIOUS
<1>2. PICK x \in T : \A y \in T : ~(<<y, x>> \in R)
  <2> HIDE DEF R
  <2>1. T \subseteq Nat
    OBVIOUS
  <2> HIDE DEF T
  <2>2. QED
    BY <1>1, <2>1, WFMin
<1>3. x # 0 /\ x - 1 \in Nat
  BY SMTT(30)
<1>4. x - 1 \in T
  <2>1. x - 1 \in P => x \in P
    BY <1>3, SMTT(30)
  <2>2. QED
    BY <1>3, <2>1
<1>5. <<x - 1, x>> \in R
  BY <1>3, SMTT(30) DEF OpToRel
<1>6. QED
  BY <1>2, <1>4, <1>5

\* A set of naturals has a smallest member, a bounded set of integers a
\* largest one.
LEMMA SmallestMember ==
  ASSUME NEW T \in SUBSET Nat, T # {}
  PROVE  \E m \in T : \A k \in T : m <= k
<1> USE Zenon
<1> DEFINE R == OpToRel(<, Nat)
<1>1. IsWellFoundedOn(R, Nat)
  BY NatLessThanWellFounded
<1>2. PICK x \in T : \A y \in T : ~(<<y, x>> \in R)
  <2> HIDE DEF R
  <2>1. QED
    BY <1>1, WFMin
<1>3. \A y \in T : ~(y < x)
  BY <1>2 DEF OpToRel
<1>4. QED
  BY <1>3, SMTT(30)

LEMMA LargestMember ==
  ASSUME NEW T \in SUBSET Int, T # {}, NEW b \in Int, \A t \in T : t <= b
  PROVE  \E m \in T : \A k \in T : k <= m
<1> USE Zenon
<1> DEFINE U == {b - t : t \in T}
<1>1. U \in SUBSET Nat /\ U # {}
  <2>1. \A t \in T : b - t \in Nat
    BY SMTT(30)
  <2>2. U \subseteq Nat
    BY <2>1
  <2>3. PICK t \in T : TRUE
    OBVIOUS
  <2>4. b - t \in U
    OBVIOUS
  <2>5. QED
    BY <2>2, <2>4
<1>2. PICK u \in U : \A k \in U : u <= k
  <2> HIDE DEF U
  <2>1. QED
    BY <1>1, SmallestMember
<1>3. PICK m \in T : u = b - m
  OBVIOUS
<1>4. ASSUME NEW k \in T
      PROVE  k <= m
  <2>1. b - k \in U
    OBVIOUS
  <2>2. b - m <= b - k
    BY <1>2, <1>3, <2>1
  <2>3. QED
    BY <2>2, SMTT(30)
<1>5. QED
  BY <1>4

-----------------------------------------------------------------------------
(* Sums over finite sets                                                   *)

Ints(f, S) == \A x \in S : f[x] \in Int

Pick(s) == CHOOSE x \in s : TRUE

\* g sums f over the sets it is defined for, a member at a time.
Sums(g, f) ==
  \A s \in DOMAIN g : g[s] = IF s = {} THEN 0 ELSE f[Pick(s)] + g[s \ {Pick(s)}]

\* It does so for every subset of S.
SumsAll(g, f, S) == DOMAIN g = SUBSET S /\ Sums(g, f)

UpTo(S, n) == {s \in SUBSET S : Cardinality(s) <= n}

\* A set that is not empty loses a member and gets smaller.
LEMMA Smaller ==
  ASSUME NEW S, IsFiniteSet(S), NEW s \in SUBSET S, s # {}, NEW x \in s
  PROVE  /\ s \ {x} \in SUBSET S /\ Cardinality(s) \in Nat /\ Cardinality(s \ {x}) = Cardinality(s) - 1
         /\ Cardinality(s) > 0 /\ Cardinality(s \ {x}) \in Nat
<1> USE Zenon
<1>1. IsFiniteSet(s)
  BY FS_Subset
<1>2. Cardinality(s) \in Nat /\ Cardinality(s) # 0
  BY <1>1, FS_CardinalityType, FS_EmptySet
<1>3. Cardinality(s \ {x}) = Cardinality(s) - 1
  BY <1>1, FS_RemoveElement
<1>4. QED
  BY <1>2, <1>3, SMTT(30)

LEMMA PickIn ==
  ASSUME NEW s, s # {}
  PROVE  Pick(s) \in s
BY Zenon DEF Pick

\* There is such a g for the subsets of a finite set.
LEMMA SumsExist ==
  ASSUME NEW S, IsFiniteSet(S), NEW f, Ints(f, S)
  PROVE  \E g \in [SUBSET S -> Int] : Sums(g, f)
<1> USE Zenon
<1> USE DEF Ints
<1> DEFINE P == {n \in Nat : \E g \in [UpTo(S, n) -> Int] : Sums(g, f)}
<1>1. 0 \in P
  <2> DEFINE g == [s \in UpTo(S, 0) |-> 0]
  <2>1. \A s \in UpTo(S, 0) : s = {}
    <3> SUFFICES ASSUME NEW s \in UpTo(S, 0)
                 PROVE  s = {}
      OBVIOUS
    <3>1. s \in SUBSET S /\ Cardinality(s) <= 0
      BY DEF UpTo
    <3>2. IsFiniteSet(s)
      BY <3>1, FS_Subset
    <3>3. Cardinality(s) \in Nat
      BY <3>2, FS_CardinalityType
    <3>4. QED
      BY <3>1, <3>2, <3>3, FS_EmptySet, SMTT(30)
  <2>2. g \in [UpTo(S, 0) -> Int] /\ Sums(g, f)
    BY <2>1, SMTT(30) DEF Sums
  <2>3. QED
    BY <2>2
<1>2. ASSUME NEW n \in P
      PROVE  n + 1 \in P
  <2>1. n \in Nat /\ n + 1 \in Nat
    BY SMTT(30)
  <2>2. PICK g \in [UpTo(S, n) -> Int] : Sums(g, f)
    OBVIOUS
  <2> DEFINE h == [s \in UpTo(S, n + 1) |-> IF s \in UpTo(S, n) THEN g[s]
                                            ELSE f[Pick(s)] + g[s \ {Pick(s)}]]
  <2>3. ASSUME NEW s \in UpTo(S, n + 1), s # {}
        PROVE  /\ Pick(s) \in S /\ f[Pick(s)] \in Int
               /\ s \ {Pick(s)} \in UpTo(S, n) /\ s \ {Pick(s)} \in UpTo(S, n + 1)
    <3>1. s \in SUBSET S /\ Cardinality(s) <= n + 1
      BY DEF UpTo
    <3>2. Pick(s) \in s
      BY <2>3, PickIn
    <3>3. /\ s \ {Pick(s)} \in SUBSET S /\ Cardinality(s) \in Nat
          /\ Cardinality(s \ {Pick(s)}) = Cardinality(s) - 1
      BY <2>3, <3>1, <3>2, Smaller
    <3>4. QED
      BY <2>1, <3>1, <3>2, <3>3, SMTT(30) DEF UpTo
  <2>4. {} \in UpTo(S, n)
    BY <2>1, FS_EmptySet, SMTT(30) DEF UpTo
  <2>5. h \in [UpTo(S, n + 1) -> Int]
    <3> SUFFICES ASSUME NEW s \in UpTo(S, n + 1)
                 PROVE  (IF s \in UpTo(S, n) THEN g[s] ELSE f[Pick(s)] + g[s \ {Pick(s)}]) \in Int
      OBVIOUS
    <3>1. CASE s \in UpTo(S, n)
      BY <2>2, <3>1
    <3>2. CASE s \notin UpTo(S, n)
      <4>1. s # {}
        BY <2>4, <3>2
      <4>2. f[Pick(s)] \in Int /\ g[s \ {Pick(s)}] \in Int
        BY <2>2, <2>3, <4>1
      <4>3. QED
        BY <3>2, <4>2, SMTT(30)
    <3>3. QED
      BY <3>1, <3>2
  <2>6. ASSUME NEW s \in UpTo(S, n + 1)
        PROVE  h[s] = IF s = {} THEN 0 ELSE f[Pick(s)] + h[s \ {Pick(s)}]
    <3>1. CASE s = {}
      BY <2>2, <2>4, <3>1 DEF Sums
    <3>2. CASE s # {}
      <4>1. s \ {Pick(s)} \in UpTo(S, n) /\ s \ {Pick(s)} \in UpTo(S, n + 1)
        BY <2>3, <3>2
      <4>2. h[s \ {Pick(s)}] = g[s \ {Pick(s)}]
        BY <4>1
      <4>3. h[s] = f[Pick(s)] + g[s \ {Pick(s)}]
        BY <2>2, <3>2 DEF Sums
      <4>4. QED
        BY <3>2, <4>2, <4>3
    <3>3. QED
      BY <3>1, <3>2
  <2>7. Sums(h, f)
    <3> HIDE DEF h
    <3>1. DOMAIN h = UpTo(S, n + 1)
      BY <2>5
    <3>2. QED
      BY <2>6, <3>1 DEF Sums
  <2>8. QED
    BY <2>1, <2>5, <2>7
<1>3. P = Nat
  <2>1. P \in SUBSET Nat
    OBVIOUS
  <2> HIDE DEF P
  <2>2. QED
    BY <1>1, <1>2, <2>1, NatSetInduction
<1>4. Cardinality(S) \in P
  BY <1>3, FS_CardinalityType
<1>5. UpTo(S, Cardinality(S)) = SUBSET S
  BY FS_Subset DEF UpTo
<1>6. QED
  BY <1>4, <1>5

\* Two such functions agree where both are defined.
LEMMA SumsAgree ==
  ASSUME NEW S, IsFiniteSet(S), NEW f, NEW T \in SUBSET S,
         NEW g, SumsAll(g, f, S), NEW h, SumsAll(h, f, T)
  PROVE  \A s \in SUBSET T : g[s] = h[s]
<1> USE Zenon
<1> USE DEF SumsAll
<1> DEFINE P == {n \in Nat : \A s \in SUBSET T : Cardinality(s) <= n => g[s] = h[s]}
<1>0. ASSUME NEW s \in SUBSET T
      PROVE  IsFiniteSet(s) /\ Cardinality(s) \in Nat /\ s \in SUBSET S
  BY FS_Subset, FS_CardinalityType
<1>1. 0 \in P
  <2> SUFFICES ASSUME NEW s \in SUBSET T, Cardinality(s) <= 0
               PROVE  g[s] = h[s]
    OBVIOUS
  <2>1. s = {}
    <3>1. Cardinality(s) = 0
      BY <1>0, SMTT(30)
    <3>2. QED
      BY <1>0, <3>1, FS_EmptySet
  <2>2. g[s] = 0 /\ h[s] = 0
    BY <2>1 DEF Sums
  <2>3. QED
    BY <2>2
<1>2. ASSUME NEW n \in P
      PROVE  n + 1 \in P
  <2> SUFFICES ASSUME NEW s \in SUBSET T, Cardinality(s) <= n + 1
               PROVE  g[s] = h[s]
    BY SMTT(30)
  <2>1. CASE s = {}
    BY <2>1 DEF Sums
  <2>2. CASE s # {}
    <3>1. Pick(s) \in s
      BY <2>2, PickIn
    <3>2. s \ {Pick(s)} \in SUBSET T /\ s \in SUBSET S /\ s \ {Pick(s)} \in SUBSET S
      BY <1>0
    <3>3. Cardinality(s \ {Pick(s)}) = Cardinality(s) - 1 /\ Cardinality(s) \in Nat
      BY <2>2, <3>1, <3>2, Smaller
    <3>4. g[s \ {Pick(s)}] = h[s \ {Pick(s)}]
      BY <3>2, <3>3, SMTT(30)
    <3>5. g[s] = f[Pick(s)] + g[s \ {Pick(s)}] /\ h[s] = f[Pick(s)] + h[s \ {Pick(s)}]
      BY <2>2, <3>2 DEF Sums
    <3>6. QED
      BY <3>4, <3>5
  <2>3. QED
    BY <2>1, <2>2
<1>3. P = Nat
  <2>1. P \in SUBSET Nat
    OBVIOUS
  <2> HIDE DEF P
  <2>2. QED
    BY <1>1, <1>2, <2>1, NatSetInduction
<1>4. QED
  <2> TAKE s \in SUBSET T
  <2>1. Cardinality(s) \in P
    BY <1>0, <1>3
  <2>2. Cardinality(s) <= Cardinality(s)
    BY <1>0, SMTT(30)
  <2>3. QED
    BY <2>1, <2>2

AnyOrder(g, f, s) == \A x \in s : g[s] = f[x] + g[s \ {x}]

\* It does not matter which member is taken first.
LEMMA SumsAnyOrder ==
  ASSUME NEW S, IsFiniteSet(S), NEW f, Ints(f, S),
         NEW g \in [SUBSET S -> Int], SumsAll(g, f, S)
  PROVE  \A s \in SUBSET S : AnyOrder(g, f, s)
<1> USE Zenon
<1> USE DEF SumsAll, Ints, AnyOrder
<1> DEFINE Q(s) == AnyOrder(g, f, s)
           P == {n \in Nat : \A s \in SUBSET S : Cardinality(s) <= n => Q(s)}
<1>0. ASSUME NEW s \in SUBSET S
      PROVE  IsFiniteSet(s) /\ Cardinality(s) \in Nat
  BY FS_Subset, FS_CardinalityType
<1>1. 0 \in P
  <2> SUFFICES ASSUME NEW s \in SUBSET S, Cardinality(s) <= 0
               PROVE  Q(s)
    OBVIOUS
  <2>1. s = {}
    <3>1. Cardinality(s) = 0
      BY <1>0, SMTT(30)
    <3>2. QED
      BY <1>0, <3>1, FS_EmptySet
  <2>2. QED
    BY <2>1
<1>2. ASSUME NEW n \in P
      PROVE  n + 1 \in P
  <2> SUFFICES ASSUME NEW s \in SUBSET S, Cardinality(s) <= n + 1, NEW x \in s
               PROVE  g[s] = f[x] + g[s \ {x}]
    BY SMTT(30)
  <2> DEFINE c == Pick(s)
             t == s \ {c}
             u == s \ {x}
             v == t \ {x}
  <2>1. c \in s
    BY PickIn
  <2>2. t \in SUBSET S /\ u \in SUBSET S /\ v \in SUBSET S
    OBVIOUS
  <2>3. Cardinality(t) <= n /\ Cardinality(u) <= n
    BY <2>1, Smaller, SMTT(30)
  <2>4. Q(t) /\ Q(u)
    BY <2>2, <2>3
  <2>5. g[s] = f[c] + g[t]
    BY DEF Sums
  <2>6. CASE x = c
    BY <2>5, <2>6
  <2>7. CASE x # c
    <3>1. x \in t /\ c \in u /\ u \ {c} = v
      BY <2>1, <2>7
    <3>2. g[t] = f[x] + g[v] /\ g[u] = f[c] + g[v]
      BY <2>4, <3>1
    <3>3. f[x] \in Int /\ f[c] \in Int /\ g[v] \in Int
      BY <2>1, <2>2
    <3> HIDE DEF c, t, u, v
    <3>4. f[c] + (f[x] + g[v]) = f[x] + (f[c] + g[v])
      BY <3>3, SMTT(30)
    <3>5. QED
      BY <2>5, <3>2, <3>4 DEF u
  <2>8. QED
    BY <2>6, <2>7
<1>3. P = Nat
  <2>1. P \in SUBSET Nat
    OBVIOUS
  <2> HIDE DEF P
  <2>2. QED
    BY <1>1, <1>2, <2>1, NatSetInduction
<1>4. QED
  <2> TAKE s \in SUBSET S
  <2>1. Cardinality(s) \in P
    BY <1>0, <1>3
  <2>2. Cardinality(s) <= Cardinality(s)
    BY <1>0, SMTT(30)
  <2>3. QED
    BY <2>1, <2>2

\* The sum over a finite set is what such a function gives for it.
LEMMA SumIsSums ==
  ASSUME NEW S, IsFiniteSet(S), NEW f, Ints(f, S)
  PROVE  \E g \in [SUBSET S -> Int] : SumsAll(g, f, S) /\ SumFunctionOnSet(f, S) = g[S]
<1> USE Zenon
<1> DEFINE Body(g) == [s \in SUBSET S |-> IF s = {} THEN 0
                                          ELSE f[CHOOSE x \in s : TRUE]
                                               + g[s \ {CHOOSE x \in s : TRUE}]]
           iter == CHOOSE g : g = Body(g)
<1>1. SumFunctionOnSet(f, S) = iter[S]
  BY DEF SumFunctionOnSet, FoldFunctionOnSet, MapThenFoldSet
<1>2. PICK h \in [SUBSET S -> Int] : Sums(h, f)
  BY SumsExist
<1>3. h = Body(h)
  BY <1>2 DEF SumsAll, Sums, Pick
<1>4. iter = Body(iter)
  BY <1>3
<1>5. DOMAIN iter = SUBSET S /\ iter = [s \in SUBSET S |-> iter[s]]
  <2> HIDE DEF iter
  <2>1. QED
    BY <1>4
<1>6. Sums(iter, f)
  <2> HIDE DEF iter
  <2>1. QED
    BY <1>4, <1>5 DEF Sums, Pick
<1>7. \A s \in SUBSET S : iter[s] = h[s]
  <2> HIDE DEF iter
  <2>1. S \in SUBSET S /\ SumsAll(h, f, S) /\ SumsAll(iter, f, S)
    BY <1>2, <1>5, <1>6 DEF SumsAll
  <2>2. QED
    BY <2>1, SumsAgree, SMTT(30)
<1>8. QED
  BY <1>1, <1>2, <1>7 DEF SumsAll

\* The sum over nothing.
LEMMA SumEmpty == \A f : SumFunctionOnSet(f, {}) = 0
<1> USE Zenon
<1> TAKE f
<1>1. IsFiniteSet({}) /\ Ints(f, {})
  BY FS_EmptySet DEF Ints
<1>2. PICK g \in [SUBSET {} -> Int] : SumsAll(g, f, {}) /\ SumFunctionOnSet(f, {}) = g[{}]
  BY <1>1, SumIsSums
<1>3. QED
  BY <1>2 DEF Sums, SumsAll

\* A sum of integers is one.
LEMMA SumType ==
  ASSUME NEW S, IsFiniteSet(S), NEW f, Ints(f, S)
  PROVE  SumFunctionOnSet(f, S) \in Int
<1> USE Zenon
<1>1. PICK g \in [SUBSET S -> Int] : SumsAll(g, f, S) /\ SumFunctionOnSet(f, S) = g[S]
  BY SumIsSums
<1>2. QED
  BY <1>1

\* Any member can be taken out of a sum.
LEMMA SumRemove ==
  ASSUME NEW S, IsFiniteSet(S), NEW f, Ints(f, S), NEW x \in S
  PROVE  SumFunctionOnSet(f, S) = f[x] + SumFunctionOnSet(f, S \ {x})
<1> USE Zenon
<1> DEFINE T == S \ {x}
<1>1. PICK g \in [SUBSET S -> Int] : SumsAll(g, f, S) /\ SumFunctionOnSet(f, S) = g[S]
  BY SumIsSums
<1>2. IsFiniteSet(T) /\ T \in SUBSET S /\ Ints(f, T)
  BY FS_RemoveElement DEF Ints
<1>3. PICK h \in [SUBSET T -> Int] : SumsAll(h, f, T) /\ SumFunctionOnSet(f, T) = h[T]
  <2> HIDE DEF T
  <2>1. QED
    BY <1>2, SumIsSums
<1>4. g[T] = h[T]
  <2>1. T \in SUBSET T
    OBVIOUS
  <2> HIDE DEF T
  <2>2. \A s \in SUBSET T : g[s] = h[s]
    BY <1>1, <1>2, <1>3, SumsAgree, SMTT(30)
  <2>3. QED
    BY <2>1, <2>2
<1>5. g[S] = f[x] + g[T]
  <2>1. S \in SUBSET S
    OBVIOUS
  <2>2. AnyOrder(g, f, S)
    BY <1>1, <2>1, SumsAnyOrder
  <2>3. QED
    BY <2>2 DEF AnyOrder
<1>6. QED
  BY <1>1, <1>3, <1>4, <1>5

-----------------------------------------------------------------------------
(* Functions defined by recursion over numbers                             *)

\* g starts with v, and step x takes F[x] of what was there.
Iterates(g, F, v, n) == g[0] = v /\ \A x \in 1 .. n : g[x] = F[x][g[x - 1]]

\* There is such a g.
LEMMA IterationExists ==
  ASSUME NEW N \in Nat, NEW V, NEW v \in V, NEW F \in [1 .. N -> [V -> V]]
  PROVE  \E g \in [0 .. N -> V] : Iterates(g, F, v, N)
<1> USE Zenon
<1> DEFINE P == {n \in Nat : n <= N => \E g \in [0 .. n -> V] : Iterates(g, F, v, n)}
<1>1. 0 \in P
  <2> DEFINE g == [x \in 0 .. 0 |-> v]
  <2>1. g \in [0 .. 0 -> V] /\ Iterates(g, F, v, 0)
    BY SMTT(30) DEF Iterates
  <2>2. QED
    BY <2>1
<1>2. ASSUME NEW n \in P
      PROVE  n + 1 \in P
  <2> USE SMTT(30)
  <2> SUFFICES ASSUME n + 1 <= N
               PROVE  \E g \in [0 .. n + 1 -> V] : Iterates(g, F, v, n + 1)
    OBVIOUS
  <2>1. n \in Nat /\ n <= N /\ n + 1 \in 1 .. N
    OBVIOUS
  <2>2. PICK g \in [0 .. n -> V] : Iterates(g, F, v, n)
    BY <2>1, Zenon
  <2> DEFINE h == [x \in 0 .. n + 1 |-> IF x = n + 1 THEN F[n + 1][g[n]] ELSE g[x]]
  <2>3. h \in [0 .. n + 1 -> V]
    BY <2>1
  <2>4. h[0] = v
    BY <2>1, <2>2 DEF Iterates
  <2>5. ASSUME NEW x \in 1 .. n + 1
        PROVE  h[x] = F[x][h[x - 1]]
    <3>1. CASE x = n + 1
      BY <2>1, <3>1
    <3>2. CASE x # n + 1
      <4>1. x \in 1 .. n /\ x - 1 \in 0 .. n + 1 /\ x - 1 # n + 1
        BY <2>1, <3>2
      <4>2. h[x] = g[x] /\ h[x - 1] = g[x - 1]
        BY <2>1, <3>2, <4>1
      <4>3. QED
        BY <2>2, <4>1, <4>2, Zenon DEF Iterates
    <3>3. QED
      BY <3>1, <3>2, Zenon
  <2>6. QED
    BY <2>3, <2>4, <2>5, Zenon DEF Iterates
<1>3. P = Nat
  <2>1. P \in SUBSET Nat
    OBVIOUS
  <2> HIDE DEF P
  <2>2. QED
    BY <1>1, <1>2, <2>1, NatSetInduction
<1>4. N \in P
  BY <1>3
<1>5. QED
  BY <1>4, SMTT(30)

\* g[i] is F[i] of the values before it.
Accumulates(g, F, n) == \A i \in 1 .. n : g[i] = F[i][{g[j] : j \in 1 .. i - 1}]

\* There is such a g.
LEMMA AccumulationExists ==
  ASSUME NEW N \in Nat, NEW V, NEW F \in [1 .. N -> [SUBSET V -> V]]
  PROVE  \E g \in [1 .. N -> V] : Accumulates(g, F, N)
<1> USE Zenon
<1> DEFINE P == {n \in Nat : n <= N => \E g \in [1 .. n -> V] : Accumulates(g, F, n)}
<1>1. 0 \in P
  <2> DEFINE g == [x \in 1 .. 0 |-> CHOOSE v \in V : TRUE]
  <2>1. g \in [1 .. 0 -> V] /\ Accumulates(g, F, 0)
    BY SMTT(30) DEF Accumulates
  <2>2. QED
    BY <2>1
<1>2. ASSUME NEW n \in P
      PROVE  n + 1 \in P
  <2> USE SMTT(30)
  <2> SUFFICES ASSUME n + 1 <= N
               PROVE  \E g \in [1 .. n + 1 -> V] : Accumulates(g, F, n + 1)
    OBVIOUS
  <2>1. n \in Nat /\ n <= N /\ n + 1 \in 1 .. N
    OBVIOUS
  <2>2. PICK g \in [1 .. n -> V] : Accumulates(g, F, n)
    BY <2>1, Zenon
  <2> DEFINE before == {g[j] : j \in 1 .. n}
             h == [i \in 1 .. n + 1 |-> IF i = n + 1 THEN F[n + 1][before] ELSE g[i]]
  <2>3. before \in SUBSET V
    BY <2>1
  <2>4. h \in [1 .. n + 1 -> V]
    BY <2>1, <2>3
  <2>5. \A j \in 1 .. n : h[j] = g[j]
    BY <2>1
  <2>6. ASSUME NEW i \in 1 .. n + 1
        PROVE  h[i] = F[i][{h[j] : j \in 1 .. i - 1}]
    <3> USE Zenon
    <3>1. 1 .. i - 1 \subseteq 1 .. n
      BY <2>1, SMTT(30)
    <3>2. {h[j] : j \in 1 .. i - 1} = {g[j] : j \in 1 .. i - 1}
      <4> HIDE DEF h
      <4>1. QED
        BY <2>5, <3>1
    <3>3. CASE i = n + 1
      <4>1. 1 .. i - 1 = 1 .. n
        BY <2>1, <3>3, SMTT(30)
      <4>2. h[i] = F[i][before]
        BY <3>3
      <4>3. QED
        BY <3>2, <4>1, <4>2
    <3>4. CASE i # n + 1
      <4>1. i \in 1 .. n
        BY <2>1, <3>4, SMTT(30)
      <4>2. h[i] = g[i]
        BY <2>5, <4>1
      <4> HIDE DEF h
      <4>3. QED
        BY <2>2, <3>2, <4>1, <4>2 DEF Accumulates
    <3>5. QED
      BY <3>3, <3>4
  <2>7. QED
    BY <2>4, <2>6, Zenon DEF Accumulates
<1>3. P = Nat
  <2>1. P \in SUBSET Nat
    OBVIOUS
  <2> HIDE DEF P
  <2>2. QED
    BY <1>1, <1>2, <2>1, NatSetInduction
<1>4. N \in P
  BY <1>3
<1>5. QED
  BY <1>4, SMTT(30)
=============================================================================
