--------------------------- MODULE ListenerProofs ---------------------------
(***************************************************************************)
(* Proofs about the listeners of ReconnectingMoonLightClient, for any      *)
(* finite number of connections and listeners: a new list of listeners is  *)
(* one nobody refers to, and a listener the supervisor retains was added   *)
(* to the connection that is installed.                                    *)
(***************************************************************************)
EXTENDS ReconnectProofs

SubState ==
  [at : {"out", "join", "joined", "client", "in", "leave", "empty", "left", "clientEmpty",
         "clientLeft", "done", "thrown"},
   list : 0 .. MaxLists, found : 0 .. MaxLists, conn : Conns \cup {None}]

\* The types of what subscribe, unsubscribe and install keep, and that a
\* thread about to add a listener has a list to add it to.
Lists ==
  /\ worker.todo \subseteq Listeners /\ worker.list \in 0 .. MaxLists
  /\ worker.at = "add" => worker.list # 0
  /\ first \in {"waiting", "completed", "failed"}
  /\ map \in [Owners -> 0 .. MaxLists]
  /\ member \in [Owners -> [Listeners -> 0 .. MaxLists]]
  /\ sub \in [Listeners -> SubState]
  /\ \A l \in Listeners : sub[l].at = "client" => sub[l].conn \in Conns /\ sub[l].found # 0

\* A listener the supervisor's map reaches.
Retained(l) == map[Own] # 0 /\ member[Own][l] = map[Own]

\* Its subscribe has found no active client, or one that is not active now.
Subscribed(l) == sub[l].at = "in" \/ (sub[l].at = "client" /\ sub[l].conn # active)

\* install has yet to add it to the active client.
Pending(l) ==
  /\ worker.conn = active
  /\ worker.at = "each" \/ (worker.at \in {"subscribe", "add"} /\ l \in worker.todo)

\* What is retained is in the active client, or install will put it there.
Heard ==
  active # None /\ conn[active].events =>
    \A l \in Listeners : Retained(l) /\ Subscribed(l) => Pending(l) \/ member[active][l] # 0

LInv == IInv /\ Lists /\ Heard

-----------------------------------------------------------------------------
(* New lists                                                               *)

\* A function has at most as many values as arguments.
LEMMA ImageBound ==
  ASSUME NEW S, IsFiniteSet(S), NEW T, NEW f \in [S -> T]
  PROVE  LET image == {f[x] : x \in S}
         IN  IsFiniteSet(image) /\ Cardinality(image) <= Cardinality(S)
<1> USE Zenon
<1> DEFINE image == {f[x] : x \in S}
<1>1. f \in Surjection(S, image)
  BY DEF Surjection
<1>2. QED
  BY <1>1, FS_Surjection

\* A union has at most as many members as its parts together.
LEMMA UnionBound ==
  ASSUME NEW S, NEW T, IsFiniteSet(S), IsFiniteSet(T),
         NEW m \in Nat, NEW n \in Nat, Cardinality(S) <= m, Cardinality(T) <= n
  PROVE  IsFiniteSet(S \cup T) /\ Cardinality(S \cup T) <= m + n
<1> USE Zenon
<1>1. /\ IsFiniteSet(S \cup T)
      /\ Cardinality(S \cup T) = Cardinality(S) + Cardinality(T) - Cardinality(S \cap T)
  BY FS_Union
<1>2. IsFiniteSet(S \cap T)
  BY FS_Intersection
<1>3. Cardinality(S) \in Nat /\ Cardinality(T) \in Nat /\ Cardinality(S \cap T) \in Nat
  BY <1>2, FS_CardinalityType
<1>4. QED
  BY <1>1, <1>3, SMTT(30)

\* The number of lists is finite, and the bound is a number.
LEMMA OwnersFinite ==
  /\ IsFiniteSet(Owners) /\ IsFiniteSet(Listeners) /\ IsFiniteSet(Owners \X Listeners)
  /\ Cardinality(Owners) \in Nat /\ Cardinality(Listeners) \in Nat
  /\ Cardinality(Owners \X Listeners) \in Nat /\ MaxLists \in Nat
<1> USE Zenon
<1>1. IsFiniteSet(Owners) /\ IsFiniteSet(Listeners)
  BY FinitenessAssumption, FS_AddElement DEF Owners
<1>2. IsFiniteSet(Owners \X Listeners)
  BY <1>1, FS_Product
<1>3. QED
  BY <1>1, <1>2, FS_CardinalityType, SMTT(30) DEF MaxLists

\* computeIfAbsent makes a list that no thread, map or listener refers to:
\* there always is one.
LEMMA FreshIsNew ==
  ASSUME Lists
  PROVE  /\ Fresh \in 1 .. MaxLists
         /\ Fresh # worker.list
         /\ \A o \in Owners : Fresh # map[o] /\ \A l \in Listeners : Fresh # member[o][l]
         /\ \A l \in Listeners : Fresh # sub[l].list /\ Fresh # sub[l].found
<1> USE Zenon
<1> DEFINE O == Cardinality(Owners)
           L == Cardinality(Listeners)
           P == Cardinality(Owners \X Listeners)
           inMember == [p \in Owners \X Listeners |-> member[p[1]][p[2]]]
           inList == [l \in Listeners |-> sub[l].list]
           inFound == [l \in Listeners |-> sub[l].found]
           A == {map[o] : o \in Owners}
           B == {inMember[p] : p \in Owners \X Listeners}
           C == {inList[l] : l \in Listeners}
           D == {inFound[l] : l \in Listeners}
           E == {worker.list}
           used == (((A \cup B) \cup C) \cup D) \cup E
<1>1. O \in Nat /\ L \in Nat /\ P \in Nat /\ MaxLists = 2 + O + P + 2 * L
  BY OwnersFinite DEF MaxLists
<1>2. IsFiniteSet(A) /\ Cardinality(A) <= O
  BY OwnersFinite, ImageBound DEF Lists
<1>3. IsFiniteSet(B) /\ Cardinality(B) <= P
  <2>1. inMember \in [Owners \X Listeners -> 0 .. MaxLists]
    BY DEF Lists
  <2> HIDE DEF inMember
  <2>2. QED
    BY <2>1, OwnersFinite, ImageBound, SMTT(30)
<1>4. IsFiniteSet(C) /\ Cardinality(C) <= L
  <2>1. inList \in [Listeners -> 0 .. MaxLists]
    BY DEF Lists, SubState
  <2>2. QED
    BY <2>1, OwnersFinite, ImageBound
<1>5. IsFiniteSet(D) /\ Cardinality(D) <= L
  <2>1. inFound \in [Listeners -> 0 .. MaxLists]
    BY DEF Lists, SubState
  <2>2. QED
    BY <2>1, OwnersFinite, ImageBound
<1>6. IsFiniteSet(E) /\ Cardinality(E) <= 1
  <2>1. IsFiniteSet(E) /\ Cardinality(E) = 1
    BY FS_Singleton
  <2>2. QED
    BY <2>1, SMTT(30)
<1>7. IsFiniteSet(used) /\ Cardinality(used) <= O + P + L + L + 1
  <2> HIDE DEF O, L, P, A, B, C, D, E
  <2>1. IsFiniteSet(A \cup B) /\ Cardinality(A \cup B) <= O + P
    BY <1>1, <1>2, <1>3, UnionBound
  <2>2. O + P \in Nat /\ O + P + L \in Nat /\ O + P + L + L \in Nat
    BY <1>1, SMTT(30)
  <2>3. IsFiniteSet((A \cup B) \cup C) /\ Cardinality((A \cup B) \cup C) <= O + P + L
    BY <1>1, <1>4, <2>1, <2>2, UnionBound
  <2>4. IsFiniteSet(((A \cup B) \cup C) \cup D)
          /\ Cardinality(((A \cup B) \cup C) \cup D) <= O + P + L + L
    BY <1>1, <1>5, <2>2, <2>3, UnionBound
  <2>5. QED
    BY <1>1, <1>6, <2>2, <2>4, UnionBound
<1>8. \E g \in 1 .. MaxLists : g \notin used
  <2> HIDE DEF used, O, L, P
  <2>1. Cardinality(1 .. MaxLists) = MaxLists
    BY <1>1, FS_Interval, SMTT(30)
  <2>2. SUFFICES ASSUME 1 .. MaxLists \subseteq used
                 PROVE  FALSE
    OBVIOUS
  <2>3. Cardinality(1 .. MaxLists) <= Cardinality(used)
    BY <1>7, <2>2, FS_Subset
  <2>4. Cardinality(used) \in Nat
    BY <1>7, FS_CardinalityType
  <2>5. QED
    BY <1>1, <1>7, <2>1, <2>3, <2>4, SMTT(30)
<1>9. \E g \in 1 .. MaxLists :
        /\ g # worker.list
        /\ \A o \in Owners : g # map[o] /\ \A l \in Listeners : g # member[o][l]
        /\ \A l \in Listeners : g # sub[l].list /\ g # sub[l].found
  <2>1. PICK g \in 1 .. MaxLists : g \notin used
    BY <1>8
  <2>2. g \notin A /\ g \notin B /\ g \notin C /\ g \notin D /\ g \notin E
    BY <2>1
  <2>3. ASSUME NEW o \in Owners, NEW l \in Listeners
        PROVE  g # member[o][l]
    <3>1. <<o, l>> \in Owners \X Listeners /\ inMember[<<o, l>>] = member[o][l]
      OBVIOUS
    <3>2. QED
      BY <2>2, <3>1
  <2>4. \A o \in Owners : g # map[o]
    BY <2>2
  <2>5. \A l \in Listeners : g # sub[l].list /\ g # sub[l].found
    BY <2>2
  <2>6. QED
    BY <2>2, <2>3, <2>4, <2>5
<1>10. QED
  BY <1>9 DEF Fresh

\* computeIfAbsent leads to a list: the one that is mapped, or a new one.
LEMMA JoinedTyped ==
  ASSUME Lists, NEW o \in Owners
  PROVE  /\ Joined(o) \in 1 .. MaxLists
         /\ [map EXCEPT ![o] = Joined(o)] \in [Owners -> 0 .. MaxLists]
<1>1. MaxLists \in Nat /\ map[o] \in 0 .. MaxLists
  BY OwnersFinite, Zenon DEF Lists
<1>2. Joined(o) \in 1 .. MaxLists
  BY <1>1, FreshIsNew DEF Joined
<1>3. QED
  BY <1>1, <1>2 DEF Lists

\* Adding and removing a listener keep the types.
LEMMA MemberTyped ==
  ASSUME Lists, NEW o \in Owners, NEW l \in Listeners, NEW g \in 0 .. MaxLists,
         AddIfAbsent(o, g, l) \/ RemoveFrom(o, g, l)
  PROVE  /\ member' \in [Owners -> [Listeners -> 0 .. MaxLists]]
         /\ \A p \in Owners, m \in Listeners : <<p, m>> # <<o, l>> => member'[p][m] = member[p][m]
         /\ AddIfAbsent(o, g, l) => member'[o][l] = g
<1> USE Zenon
<1>1. MaxLists \in Nat
  BY OwnersFinite
<1>2. member \in [Owners -> [Listeners -> 0 .. MaxLists]]
  BY DEF Lists
<1>3. PICK h \in 0 .. MaxLists : /\ member' = [member EXCEPT ![o][l] = h]
                                 /\ AddIfAbsent(o, g, l) => h = g
  <2>1. CASE AddIfAbsent(o, g, l)
    BY <2>1 DEF AddIfAbsent
  <2>2. CASE RemoveFrom(o, g, l) /\ ~AddIfAbsent(o, g, l)
    <3>1. member[o][l] \in 0 .. MaxLists /\ 0 \in 0 .. MaxLists
      BY <1>1, <1>2, SMTT(30)
    <3>2. QED
      BY <2>2, <3>1 DEF RemoveFrom
  <2>3. QED
    BY <2>1, <2>2
<1>4. member' \in [Owners -> [Listeners -> 0 .. MaxLists]]
  BY <1>2, <1>3
<1>5. \A p \in Owners, m \in Listeners : <<p, m>> # <<o, l>> => member'[p][m] = member[p][m]
  BY <1>2, <1>3
<1>6. member'[o][l] = h
  BY <1>2, <1>3
<1>7. QED
  BY <1>3, <1>4, <1>5, <1>6

\* Unmapping a list keeps the types, and maps nothing else.
LEMMA UnmapTyped ==
  ASSUME Lists, NEW o \in Owners, NEW g, Unmap(o, g)
  PROVE  /\ map' \in [Owners -> 0 .. MaxLists]
         /\ \A p \in Owners : map'[p] = map[p] \/ map'[p] = 0
<1> USE Zenon
<1>1. MaxLists \in Nat
  BY OwnersFinite
<1>2. map \in [Owners -> 0 .. MaxLists]
  BY DEF Lists
<1>3. PICK h : map' = [map EXCEPT ![o] = h] /\ (h = 0 \/ h = map[o])
  BY DEF Unmap
<1>4. h \in 0 .. MaxLists
  BY <1>1, <1>2, <1>3, SMTT(30)
<1>5. QED
  BY <1>2, <1>3, <1>4

\* What a step that changes the record of one listener does to it.
SubStep(l, a) ==
  /\ sub' \in [Listeners -> SubState]
  /\ \A m \in Listeners : m # l => sub'[m] = sub[m]
  /\ sub'[l].at = a

\* subscribe and unsubscribe change the record of one listener.
LEMMA SubChanges ==
  ASSUME Lists, NEW l \in Listeners, NEW g \in 0 .. MaxLists, NEW h \in 0 .. MaxLists,
         NEW c \in Conns \cup {None},
         NEW a \in {"join", "joined", "client", "in", "leave", "empty", "left", "clientEmpty",
                    "clientLeft", "done", "thrown"}
  PROVE  /\ Goto(l, a) => SubStep(l, a)
         /\ sub' = [sub EXCEPT ![l].at = a, ![l].list = g] => SubStep(l, a)
         /\ sub' = [sub EXCEPT ![l].at = a, ![l].conn = c, ![l].found = h]
              => SubStep(l, a) /\ sub'[l].conn = c /\ sub'[l].found = h
         /\ sub' = [sub EXCEPT ![l].at = a, ![l].conn = c, ![l].list = g, ![l].found = h]
              => SubStep(l, a)
<1> USE Zenon
<1>1. sub \in [Listeners -> SubState] /\ sub[l] \in SubState
  BY DEF Lists
<1>2. ASSUME Goto(l, a)
      PROVE  SubStep(l, a)
  BY <1>1, <1>2 DEF SubStep, SubState, Goto
<1>3. ASSUME sub' = [sub EXCEPT ![l].at = a, ![l].list = g]
      PROVE  SubStep(l, a)
  BY <1>1, <1>3 DEF SubStep, SubState
<1>4. ASSUME sub' = [sub EXCEPT ![l].at = a, ![l].conn = c, ![l].found = h]
      PROVE  SubStep(l, a) /\ sub'[l].conn = c /\ sub'[l].found = h
  BY <1>1, <1>4 DEF SubStep, SubState
<1>5. ASSUME sub' = [sub EXCEPT ![l].at = a, ![l].conn = c, ![l].list = g, ![l].found = h]
      PROVE  SubStep(l, a)
  BY <1>1, <1>5 DEF SubStep, SubState
<1>6. QED
  BY <1>2, <1>3, <1>4, <1>5

\* The steps of subscribe and of the handle it returns keep the types.  They
\* move one listener, and map the supervisor's event to its list, to none or
\* to a new one.
LEMMA SubscriptionTyped ==
  ASSUME Lists, active \in Conns \cup {None}, NEW l \in Listeners, Subscription(l)
  PROVE  /\ Lists'
         /\ map'[Own] \in {map[Own], 0, Fresh}
         /\ \A o \in Owners, m \in Listeners : m # l => member'[o][m] = member[o][m]
         /\ \A m \in Listeners : m # l => sub'[m] = sub[m]
         /\ sub'[l].at \in {"in", "client"} => SubscribeReads(l) \/ SubscribeClient(l)
<1> USE Zenon
<1> DEFINE s == sub[l]
           N == 0 .. MaxLists
           Maps == map' \in [Owners -> N] /\ map'[Own] \in {map[Own], 0, Fresh}
           Moves == /\ member' \in [Owners -> [Listeners -> N]]
                    /\ \A o \in Owners, m \in Listeners : m # l => member'[o][m] = member[o][m]
           Away == \E a : SubStep(l, a) /\ a \notin {"in", "client"}
           Goal == /\ Lists'
                   /\ map'[Own] \in {map[Own], 0, Fresh}
                   /\ \A o \in Owners, m \in Listeners : m # l => member'[o][m] = member[o][m]
                   /\ \A m \in Listeners : m # l => sub'[m] = sub[m]
                   /\ sub'[l].at \in {"in", "client"} => SubscribeReads(l) \/ SubscribeClient(l)
<1>1. MaxLists \in Nat /\ 0 \in N /\ Own \in Owners /\ Own = None /\ Owners = Conns \cup {None}
  BY OwnersFinite, SMTT(30) DEF Owners, Own
<1>2. /\ map \in [Owners -> N] /\ member \in [Owners -> [Listeners -> N]]
      /\ s \in SubState /\ s.list \in N /\ s.found \in N /\ s.conn \in Owners
  BY <1>1 DEF Lists, SubState
<1>3. ASSUME NEW a, SubStep(l, a), Maps, Moves,
             a = "client" => sub'[l].conn \in Conns /\ sub'[l].found # 0,
             a \in {"in", "client"} => SubscribeReads(l) \/ SubscribeClient(l)
      PROVE  Goal
  <2>1. worker' = worker /\ first' = first
    BY ListenersAlone DEF supervisor
  <2>2. ASSUME NEW m \in Listeners, sub'[m].at = "client"
        PROVE  sub'[m].conn \in Conns /\ sub'[m].found # 0
    <3>1. CASE m = l
      BY <1>3, <2>2, <3>1 DEF SubStep
    <3>2. CASE m # l
      BY <1>3, <2>2, <3>2 DEF SubStep, Lists
    <3>3. QED
      BY <3>1, <3>2
  <2>3. Lists'
    BY <1>3, <2>1, <2>2 DEF Lists, SubStep
  <2>4. QED
    BY <1>3, <2>3 DEF SubStep
<1>4. Away /\ Maps /\ Moves => Goal
  BY <1>3
<1> SUFFICES Goal
  OBVIOUS
<1> HIDE DEF Goal
<1>5. ASSUME NEW a \in {"joined", "thrown", "in", "leave", "empty", "left", "clientEmpty"}, Goto(l, a)
      PROVE  SubStep(l, a)
  <2>1. None \in Conns \cup {None}
    OBVIOUS
  <2>2. QED
    BY <1>5, <1>1, <2>1, SubChanges
<1>6. ASSUME UNCHANGED map
      PROVE  Maps
  BY <1>2, <1>6
<1>7. ASSUME UNCHANGED member
      PROVE  Moves
  BY <1>2, <1>7
<1>8. ASSUME NEW o \in Owners, NEW g \in N, AddIfAbsent(o, g, l) \/ RemoveFrom(o, g, l)
      PROVE  Moves
  <2>1. \A p \in Owners, m \in Listeners : m # l => <<p, m>> # <<o, l>>
    OBVIOUS
  <2>2. QED
    BY <1>8, <2>1, MemberTyped, SMTT(30)
<1>9. ASSUME NEW o \in Owners, ComputeIfAbsent(o)
      PROVE  Maps /\ Joined(o) \in 1 .. MaxLists
  <2>1. Joined(o) \in 1 .. MaxLists /\ map' \in [Owners -> N]
    BY <1>9, JoinedTyped DEF ComputeIfAbsent
  <2>2. map'[Own] \in {map[Own], 0, Fresh}
    BY <1>1, <1>2, <1>9 DEF ComputeIfAbsent, Joined
  <2>3. QED
    BY <2>1, <2>2
<1>10. ASSUME NEW o \in Owners, NEW g, Unmap(o, g)
       PROVE  Maps
  BY <1>1, <1>10, UnmapTyped
<1> HIDE DEF Maps, Moves
<1>11. CASE SubscribeJoins(l)
  <2>1. /\ ComputeIfAbsent(Own) /\ UNCHANGED member
        /\ sub' = [sub EXCEPT ![l].at = "join", ![l].list = Joined(Own)]
    BY <1>11 DEF SubscribeJoins
  <2>2. Maps /\ Moves /\ Joined(Own) \in N
    BY <1>1, <1>7, <1>9, <2>1, SMTT(30)
  <2>3. SubStep(l, "join")
    BY <1>1, <2>1, <2>2, SubChanges
  <2>4. QED
    BY <1>4, <2>2, <2>3, SMTT(30)
<1>12. CASE SubscribeAdds(l)
  <2>1. Maps /\ Moves
    BY <1>1, <1>2, <1>6, <1>8, <1>12 DEF SubscribeAdds
  <2>2. SubStep(l, "joined")
    BY <1>5, <1>12 DEF SubscribeAdds
  <2>3. QED
    BY <1>4, <2>1, <2>2, SMTT(30)
<1>13. CASE SubscribeReads(l)
  <2>1. Moves
    BY <1>7, <1>13 DEF SubscribeReads
  <2>2. CASE active = None \/ ~conn[active].events
    <3>1. SubStep(l, "in") \/ SubStep(l, "thrown")
      BY <1>5, <1>13, <2>2 DEF SubscribeReads
    <3>2. Maps
      BY <1>6, <1>13, <2>2 DEF SubscribeReads
    <3>3. QED
      BY <1>3, <1>13, <2>1, <3>1, <3>2
  <2>3. CASE active # None /\ conn[active].events
    <3>1. /\ ComputeIfAbsent(active) /\ active \in Conns /\ active \in Owners
          /\ sub' = [sub EXCEPT ![l].at = "client", ![l].conn = active, ![l].found = Joined(active)]
      BY <1>1, <1>13, <2>3 DEF SubscribeReads
    <3>2. Maps /\ Joined(active) \in N /\ Joined(active) # 0
      BY <1>1, <1>9, <3>1, SMTT(30)
    <3>3. SubStep(l, "client") /\ sub'[l].conn = active /\ sub'[l].found = Joined(active)
      BY <1>1, <3>1, <3>2, SubChanges
    <3>4. QED
      BY <1>3, <1>13, <2>1, <3>1, <3>2, <3>3
  <2>4. QED
    BY <2>2, <2>3
<1>14. CASE SubscribeClient(l)
  <2>1. /\ AddIfAbsent(s.conn, s.found, l) /\ UNCHANGED map
        /\ sub' = [sub EXCEPT ![l].at = "in", ![l].conn = None, ![l].found = 0]
    BY <1>14 DEF SubscribeClient
  <2>2. Maps /\ Moves
    BY <1>2, <1>6, <1>8, <2>1
  <2>3. SubStep(l, "in")
    BY <1>1, <2>1, SubChanges
  <2>4. QED
    BY <1>3, <1>14, <2>2, <2>3
<1>15. CASE Unsubscribe(l)
  <2>1. Maps /\ Moves
    BY <1>1, <1>2, <1>6, <1>8, <1>15 DEF Unsubscribe
  <2>2. SubStep(l, "leave")
    BY <1>5, <1>15 DEF Unsubscribe
  <2>3. QED
    BY <1>4, <2>1, <2>2, SMTT(30)
<1>16. CASE UnsubscribeLooks(l)
  <2>1. Goto(l, "empty") \/ Goto(l, "left")
    BY <1>16 DEF UnsubscribeLooks
  <2>2. Maps /\ Moves
    BY <1>6, <1>7, <1>16 DEF UnsubscribeLooks
  <2>3. Away
    BY <1>5, <2>1, SMTT(30)
  <2>4. QED
    BY <1>4, <2>2, <2>3
<1>17. CASE UnsubscribeUnmaps(l)
  <2>1. Maps /\ Moves
    BY <1>1, <1>7, <1>10, <1>17 DEF UnsubscribeUnmaps
  <2>2. SubStep(l, "left")
    BY <1>5, <1>17 DEF UnsubscribeUnmaps
  <2>3. QED
    BY <1>4, <2>1, <2>2, SMTT(30)
<1>18. CASE UnsubscribeReads(l)
  <2>1. Maps
    BY <1>6, <1>18 DEF UnsubscribeReads
  <2> DEFINE g == IF active = None THEN 0 ELSE map[active]
  <2>2. CASE g = 0
    <3>1. sub' = [sub EXCEPT ![l].at = "done", ![l].list = 0] /\ UNCHANGED member
      BY <1>18, <2>2 DEF UnsubscribeReads
    <3>2. SubStep(l, "done")
      BY <1>1, <3>1, SubChanges
    <3>3. QED
      BY <1>4, <1>7, <2>1, <3>1, <3>2, SMTT(30)
  <2>3. CASE g # 0
    <3>1. /\ RemoveFrom(active, g, l)
          /\ sub' = [sub EXCEPT ![l].at = "clientLeft", ![l].conn = active,
                                ![l].list = 0, ![l].found = g]
      BY <1>18, <2>3 DEF UnsubscribeReads
    <3>2. active \in Owners /\ g \in N
      BY <1>1, <1>2
    <3> HIDE DEF g
    <3>3. Moves
      BY <1>8, <3>1, <3>2
    <3>4. SubStep(l, "clientLeft")
      BY <1>1, <3>1, <3>2, SubChanges
    <3>5. QED
      BY <1>4, <2>1, <3>3, <3>4, SMTT(30)
  <2>4. QED
    BY <2>2, <2>3
<1>19. CASE UnsubscribeClient(l)
  <2>1. Maps /\ Moves
    BY <1>6, <1>7, <1>19 DEF UnsubscribeClient
  <2>2. \/ Goto(l, "clientEmpty")
        \/ sub' = [sub EXCEPT ![l].at = "done", ![l].conn = None, ![l].found = 0]
    BY <1>19 DEF UnsubscribeClient
  <2>3. SubStep(l, "clientEmpty") \/ SubStep(l, "done")
    BY <1>1, <1>5, <2>2, SubChanges
  <2>4. QED
    BY <1>4, <2>1, <2>3, SMTT(30)
<1>20. CASE UnsubscribeEnds(l)
  <2>1. /\ Unmap(s.conn, s.found) /\ UNCHANGED member
        /\ sub' = [sub EXCEPT ![l].at = "done", ![l].conn = None, ![l].found = 0]
    BY <1>20 DEF UnsubscribeEnds
  <2>2. Maps /\ Moves
    BY <1>2, <1>7, <1>10, <2>1
  <2>3. SubStep(l, "done")
    BY <1>1, <2>1, SubChanges
  <2>4. QED
    BY <1>4, <2>2, <2>3, SMTT(30)
<1>21. QED
  BY <1>11, <1>12, <1>13, <1>14, <1>15, <1>16, <1>17, <1>18, <1>19, <1>20 DEF Subscription, Goal

-----------------------------------------------------------------------------
(* Retained listeners are heard                                            *)

\* A step that leaves the listeners alone, and neither installs another client
\* nor gives up what install has to do, keeps the retained listeners heard.
LEMMA HeardKept ==
  ASSUME Heard, UNCHANGED listeners, active' = active \/ active' = None,
         active # None => conn'[active].events = conn[active].events,
         \A l \in Listeners : Retained(l) /\ Pending(l) => Pending(l)'
  PROVE  Heard'
<1> USE Zenon
<1> SUFFICES ASSUME active' # None, conn'[active'].events, NEW l \in Listeners,
                    Retained(l)', Subscribed(l)'
             PROVE  Pending(l)' \/ member'[active'][l] # 0
  BY DEF Heard
<1>1. active' = active /\ map' = map /\ member' = member /\ sub' = sub
  BY DEF listeners
<1>2. Retained(l) /\ Subscribed(l) /\ conn[active].events /\ active # None
  BY <1>1 DEF Retained, Subscribed
<1>3. Pending(l) \/ member[active][l] # 0
  BY <1>2 DEF Heard
<1>4. QED
  BY <1>1, <1>2, <1>3

\* subscribe and unsubscribe keep the retained listeners heard.
LEMMA HeardSubscription ==
  ASSUME Lists, Heard, active \in Conns \cup {None}, NEW l \in Listeners, Subscription(l)
  PROVE  Heard'
<1> USE Zenon
<1>0. /\ active' = active /\ conn' = conn /\ worker' = worker
  BY ListenersAlone DEF client, supervisor
<1>1. /\ Lists'
      /\ map'[Own] \in {map[Own], 0, Fresh}
      /\ \A o \in Owners, m \in Listeners : m # l => member'[o][m] = member[o][m]
      /\ \A m \in Listeners : m # l => sub'[m] = sub[m]
      /\ sub'[l].at \in {"in", "client"} => SubscribeReads(l) \/ SubscribeClient(l)
  BY SubscriptionTyped
<1>2. Own \in Owners /\ Own \notin Conns /\ active \in Owners
  BY ClientAssumption DEF Own, Owners
<1>3. \A m \in Listeners : Fresh # member[Own][m]
  BY <1>2, FreshIsNew
<1> SUFFICES ASSUME active # None, conn[active].events, NEW m \in Listeners,
                    Retained(m)', Subscribed(m)'
             PROVE  Pending(m)' \/ member'[active][m] # 0
  BY <1>0 DEF Heard
<1>4. Pending(m)' <=> Pending(m)
  BY <1>0 DEF Pending
<1>5. Retained(m) /\ Subscribed(m) => Pending(m) \/ member[active][m] # 0
  BY DEF Heard
<1>6. CASE m # l
  <2>1. member'[Own][m] = member[Own][m] /\ member'[active][m] = member[active][m] /\ sub'[m] = sub[m]
    BY <1>1, <1>2, <1>6
  <2>2. Retained(m)
    BY <1>1, <1>3, <2>1 DEF Retained
  <2>3. Subscribed(m)
    BY <1>0, <2>1 DEF Subscribed
  <2>4. QED
    BY <1>4, <1>5, <2>1, <2>2, <2>3
<1>7. CASE m = l
  <2>1. SubscribeReads(l) \/ SubscribeClient(l)
    BY <1>1, <1>7 DEF Subscribed
  <2>2. active \in Conns /\ MaxLists \in Nat
    BY OwnersFinite
  <2>3. CASE SubscribeReads(l)
    <3>1. /\ ComputeIfAbsent(active)
          /\ sub' = [sub EXCEPT ![l].at = "client", ![l].conn = active, ![l].found = Joined(active)]
      BY <2>3 DEF SubscribeReads
    <3>2. Joined(active) \in 0 .. MaxLists
      BY <1>2, <2>2, JoinedTyped
    <3>3. sub'[l].conn = active /\ sub'[l].at = "client"
      BY <2>2, <3>1, <3>2, SubChanges DEF SubStep
    <3>4. QED
      BY <1>0, <1>7, <3>3 DEF Subscribed
  <2>4. CASE SubscribeClient(l)
    <3>1. sub[l].at = "client" /\ AddIfAbsent(sub[l].conn, sub[l].found, l) /\ map' = map
      BY <2>4 DEF SubscribeClient
    <3>2. sub[l].conn \in Conns /\ sub[l].found # 0 /\ sub[l].found \in 0 .. MaxLists
      BY <3>1 DEF Lists, SubState
    <3>3. sub[l].conn \in Owners /\ sub[l].conn # Own
      BY <1>2, <3>2 DEF Owners
    <3>4. /\ \A p \in Owners, k \in Listeners :
               <<p, k>> # <<sub[l].conn, l>> => member'[p][k] = member[p][k]
          /\ member'[sub[l].conn][l] = sub[l].found
      BY <3>1, <3>2, <3>3, MemberTyped
    <3>5. CASE sub[l].conn = active
      BY <1>7, <3>2, <3>4, <3>5
    <3>6. CASE sub[l].conn # active
      <4>1. member'[active][l] = member[active][l] /\ member'[Own][l] = member[Own][l]
        BY <1>2, <3>3, <3>4, <3>6
      <4>2. Retained(l) /\ Subscribed(l)
        BY <1>7, <3>1, <3>6, <4>1 DEF Retained, Subscribed
      <4>3. QED
        BY <1>4, <1>5, <1>7, <4>1, <4>2
    <3>7. QED
      BY <3>5, <3>6
  <2>5. QED
    BY <2>1, <2>3, <2>4
<1>8. QED
  BY <1>6, <1>7

\* Steps that change nothing of the listeners, what install has to do included.
LEMMA ListsKept ==
  ASSUME Lists, UNCHANGED <<worker, listeners>>, first' \in {"waiting", "completed", "failed"}
  PROVE  Lists'
BY Zenon DEF Lists, listeners

\* The steps of tryReconnect and of install keep the types.
LEMMA WorkerTyped ==
  ASSUME Lists, Shapes, Owned, Worker
  PROVE  Lists'
<1> USE Zenon
<1> DEFINE N == 0 .. MaxLists
           Work == /\ worker'.todo \subseteq Listeners /\ worker'.list \in N
                   /\ worker'.at = "add" => worker'.list # 0
<1>0. /\ map \in [Owners -> N] /\ member \in [Owners -> [Listeners -> N]]
      /\ worker.todo \subseteq Listeners /\ worker.list \in N
      /\ first \in {"waiting", "completed", "failed"}
      /\ MaxLists \in Nat /\ 0 \in N /\ Own \in Owners
  BY OwnersFinite, SMTT(30) DEF Lists, Owners, Own
<1>1. ASSUME Work, map' \in [Owners -> N], member' \in [Owners -> [Listeners -> N]], sub' = sub,
             first' \in {"waiting", "completed", "failed"}
      PROVE  Lists'
  BY <1>1 DEF Lists
<1>2. ASSUME worker' = Idle \/ worker' = [Idle EXCEPT !.at = "connect"]
      PROVE  Work
  BY <1>0, <1>2, SMTT(30) DEF Idle
<1>3. CASE \/ TryReconnect \/ Connect \/ ConnectFails \/ InstallChecks \/ InstallSets \/ InstallEach
           \/ InstallResets \/ InstallWatches
  <2>1. UNCHANGED listeners /\ first' \in {"waiting", "completed", "failed"}
    BY <1>0, <1>3 DEF TryReconnect, Connect, ConnectFails, InstallChecks, InstallSets,
       InstallEach, InstallResets, InstallWatches
  <2>2. CASE TryReconnect \/ ConnectFails \/ InstallWatches
    <3>1. worker' = Idle \/ worker' = [Idle EXCEPT !.at = "connect"]
      BY <2>2 DEF TryReconnect, ConnectFails, InstallWatches
    <3>2. QED
      BY <1>0, <1>1, <1>2, <2>1, <3>1 DEF listeners
  <2>3. CASE Connect
    <3>1. PICK c \in Conns : worker' = [worker EXCEPT !.at = "install", !.conn = c]
      BY <2>3 DEF Connect
    <3>2. Work
      BY <1>0, <3>1 DEF Shapes
    <3>3. QED
      BY <1>0, <1>1, <2>1, <3>2 DEF listeners
  <2>4. CASE InstallChecks
    <3>1. worker' = Idle \/ worker' = [worker EXCEPT !.at = "set"]
      BY <2>4 DEF InstallChecks
    <3>2. Work
      BY <1>0, <1>2, <3>1 DEF Shapes
    <3>3. QED
      BY <1>0, <1>1, <2>1, <3>2 DEF listeners
  <2>5. CASE InstallSets \/ InstallResets
    <3>1. Work
      BY <1>0, <2>5 DEF Shapes, InstallSets, InstallResets
    <3>2. QED
      BY <1>0, <1>1, <2>1, <3>1 DEF listeners
  <2>6. CASE InstallEach
    <3>1. Members(Own, map[Own]) \subseteq Listeners
      BY DEF Members
    <3>2. Work
      BY <1>0, <2>6, <3>1 DEF Shapes, InstallEach
    <3>3. QED
      BY <1>0, <1>1, <2>1, <3>2 DEF listeners
  <2>7. QED
    BY <1>3, <2>2, <2>3, <2>4, <2>5, <2>6
<1>4. CASE InstallSubscribes
  <2>1. sub' = sub /\ member' = member /\ first' = first /\ worker.at = "subscribe"
    BY <1>4 DEF InstallSubscribes
  <2>2. CASE conn[worker.conn].events
    <3>1. worker.conn \in Owners
      BY <2>1 DEF Owned, Holding, Owners
    <3>2. ComputeIfAbsent(worker.conn) /\ worker' = [worker EXCEPT !.at = "add", !.list = Joined(worker.conn)]
      BY <1>4, <2>2 DEF InstallSubscribes
    <3>3. Joined(worker.conn) \in 1 .. MaxLists /\ map' \in [Owners -> N]
      BY <3>1, <3>2, JoinedTyped DEF ComputeIfAbsent
    <3>4. Work
      BY <1>0, <3>2, <3>3, SMTT(30) DEF Shapes
    <3>5. QED
      BY <1>0, <1>1, <2>1, <3>3, <3>4
  <2>3. CASE ~conn[worker.conn].events
    <3>1. worker' = Idle /\ map' = map
      BY <1>4, <2>3 DEF InstallSubscribes
    <3>2. QED
      BY <1>0, <1>1, <1>2, <2>1, <3>1
  <2>4. QED
    BY <2>2, <2>3
<1>5. CASE InstallAdds
  <2>1. /\ sub' = sub /\ map' = map /\ first' = first /\ worker.at = "add"
    BY <1>5 DEF InstallAdds
  <2>2. PICK l \in worker.todo :
          /\ AddIfAbsent(worker.conn, worker.list, l)
          /\ worker' = [worker EXCEPT !.at = "subscribe", !.todo = @ \ {l}, !.list = 0]
    BY <1>5 DEF InstallAdds
  <2>3. worker.conn \in Owners /\ l \in Listeners
    BY <1>0, <2>1 DEF Owned, Holding, Owners
  <2>4. member' \in [Owners -> [Listeners -> N]]
    BY <1>0, <2>2, <2>3, MemberTyped
  <2>5. Work
    BY <1>0, <2>2 DEF Shapes
  <2>6. QED
    BY <1>0, <1>1, <2>1, <2>4, <2>5
<1>6. QED
  BY <1>3, <1>4, <1>5 DEF Worker

\* tryReconnect and install keep the retained listeners heard.
LEMMA HeardWorker ==
  ASSUME IInv, Lists, Heard, Worker
  PROVE  Heard'
<1> USE Zenon
<1>0. Shapes /\ Owned /\ conn \in [Conns -> ConnState] /\ active \in Conns \cup {None}
  BY DEF IInv, Shapes, ClientTypeOK, ConnState
<1>1. CASE Connect \/ InstallChecks \/ TryReconnect \/ ConnectFails \/ InstallResets \/ InstallWatches
  <2>1. UNCHANGED listeners
    BY <1>1 DEF TryReconnect, Connect, ConnectFails, InstallChecks, InstallResets, InstallWatches
  <2>2. \A l \in Listeners : ~Pending(l)
    BY <1>1 DEF TryReconnect, Connect, ConnectFails, InstallChecks, InstallResets,
       InstallWatches, Pending
  <2>3. active' = active \/ active' = None
    BY <1>1 DEF TryReconnect, Connect, ConnectFails, InstallChecks, InstallResets,
       InstallWatches, Terminated
  <2>4. active # None => conn'[active].events = conn[active].events
    <3>1. CASE Connect \/ InstallChecks
      BY <1>0, <3>1 DEF Connect, InstallChecks, Owned
    <3>2. CASE TryReconnect \/ ConnectFails \/ InstallResets
      BY <3>2 DEF TryReconnect, ConnectFails, InstallResets, client
    <3>3. CASE InstallWatches
      <4>1. conn' = conn \/ conn' = [conn EXCEPT ![worker.conn].watched = TRUE]
        BY <3>3 DEF InstallWatches
      <4>2. worker.conn \in Conns
        BY <1>0, <3>3 DEF InstallWatches, Owned, Holding
      <4>3. QED
        BY <1>0, <4>1, <4>2, SMTT(30) DEF ConnState
    <3>4. QED
      BY <1>1, <3>1, <3>2, <3>3
  <2>5. QED
    BY <2>1, <2>2, <2>3, <2>4, HeardKept
<1>2. CASE InstallSets
  <2>1. active' = worker.conn /\ worker' = [worker EXCEPT !.at = "each"]
    BY <1>2 DEF InstallSets
  <2>2. worker'.conn = active' /\ worker'.at = "each"
    BY <1>0, <2>1 DEF Shapes
  <2>3. QED
    BY <2>2 DEF Heard, Pending
<1>3. CASE InstallEach
  <2>1. worker' = [worker EXCEPT !.at = "subscribe", !.todo = Members(Own, map[Own])]
    BY <1>3 DEF InstallEach
  <2>2. /\ worker'.conn = worker.conn /\ worker'.at = "subscribe"
        /\ worker'.todo = Members(Own, map[Own])
    BY <1>0, <2>1 DEF Shapes
  <2>3. UNCHANGED <<active, conn, listeners>>
    BY <1>3 DEF InstallEach, client
  <2>4. \A l \in Listeners : Retained(l) /\ Pending(l) => Pending(l)'
    BY <2>2, <2>3 DEF Retained, Pending, Members
  <2>5. QED
    BY <2>3, <2>4, HeardKept
<1>4. CASE InstallSubscribes
  <2>0. UNCHANGED <<active, conn, member, sub>> /\ worker.at = "subscribe"
    BY <1>4 DEF InstallSubscribes, client
  <2>1. CASE conn[worker.conn].events
    <3>1. ComputeIfAbsent(worker.conn) /\ worker' = [worker EXCEPT !.at = "add", !.list = Joined(worker.conn)]
      BY <1>4, <2>1 DEF InstallSubscribes
    <3>2. worker'.conn = worker.conn /\ worker'.at = "add" /\ worker'.todo = worker.todo
      BY <1>0, <3>1 DEF Shapes
    <3>3. worker.conn \in Conns
      BY <1>0, <2>0 DEF Owned, Holding
    <3>4. map'[Own] = map[Own]
      BY <3>1, <3>3, ClientAssumption DEF ComputeIfAbsent, Own, Lists, Owners
    <3> SUFFICES ASSUME active # None, conn[active].events, NEW l \in Listeners,
                        Retained(l)', Subscribed(l)'
                 PROVE  Pending(l)' \/ member[active][l] # 0
      BY <2>0 DEF Heard
    <3>5. Retained(l) /\ Subscribed(l)
      BY <2>0, <3>4 DEF Retained, Subscribed
    <3>6. Pending(l) \/ member[active][l] # 0
      BY <3>5 DEF Heard
    <3>7. Pending(l) => Pending(l)'
      BY <2>0, <3>2 DEF Pending
    <3>8. QED
      BY <3>6, <3>7
  <2>2. CASE ~conn[worker.conn].events
    <3>1. active = None \/ active = worker.conn
      BY <1>0, <2>0 DEF Owned, Installed
    <3>2. QED
      BY <2>0, <2>2, <3>1 DEF Heard
  <2>3. QED
    BY <2>1, <2>2
<1>5. CASE InstallAdds
  <2>0. UNCHANGED <<active, conn, map, sub>> /\ worker.at = "add"
    BY <1>5 DEF InstallAdds, client
  <2>1. PICK k \in worker.todo :
          /\ AddIfAbsent(worker.conn, worker.list, k)
          /\ worker' = [worker EXCEPT !.at = "subscribe", !.todo = @ \ {k}, !.list = 0]
    BY <1>5 DEF InstallAdds
  <2>2. worker'.conn = worker.conn /\ worker'.at = "subscribe" /\ worker'.todo = worker.todo \ {k}
    BY <1>0, <2>1 DEF Shapes
  <2>3. worker.conn \in Conns /\ k \in Listeners /\ worker.list \in 0 .. MaxLists /\ worker.list # 0
    BY <1>0, <2>0 DEF Owned, Holding, Lists
  <2>4. worker.conn \in Owners /\ Own \in Owners /\ Own # worker.conn /\ active \in Owners
    BY <1>0, <2>3, ClientAssumption DEF Owners, Own
  <2>5. /\ \A p \in Owners, m \in Listeners :
             <<p, m>> # <<worker.conn, k>> => member'[p][m] = member[p][m]
        /\ member'[worker.conn][k] = worker.list
    BY <2>1, <2>3, <2>4, MemberTyped
  <2> SUFFICES ASSUME active # None, conn[active].events, NEW l \in Listeners,
                      Retained(l)', Subscribed(l)'
               PROVE  Pending(l)' \/ member'[active][l] # 0
    BY <2>0 DEF Heard
  <2>6. member'[Own][l] = member[Own][l]
    BY <2>4, <2>5
  <2>7. Retained(l) /\ Subscribed(l)
    BY <2>0, <2>6 DEF Retained, Subscribed
  <2>8. Pending(l) \/ member[active][l] # 0
    BY <2>7 DEF Heard
  <2>9. CASE l = k
    BY <1>0, <2>0, <2>3, <2>5, <2>9 DEF Owned, Installed
  <2>10. CASE l # k
    <3>1. member'[active][l] = member[active][l]
      BY <2>4, <2>5, <2>10
    <3>2. Pending(l) => Pending(l)'
      BY <2>0, <2>2, <2>10 DEF Pending
    <3>3. QED
      BY <2>8, <3>1, <3>2
  <2>11. QED
    BY <2>9, <2>10
<1>6. QED
  BY <1>1, <1>2, <1>3, <1>4, <1>5 DEF Worker

\* close() and drain() stop the supervisor; what it retains stays heard.
LEMMA HeardStop ==
  ASSUME IInv, Lists, Heard, Stop
  PROVE  Lists' /\ Heard'
<1> USE Zenon
<1>0. Owned /\ conn \in [Conns -> ConnState] /\ \A d \in Conns : conn[d].drain # "no" => ~conn[d].accepting
  BY DEF IInv, ClientTypeOK, ConnState, Draining
<1>1. UNCHANGED <<worker, listeners>>
  BY DEF Stop, CloseBegins, CloseEnds, DrainReads, DrainCalls, DrainStops, DrainEnds
<1>2. first' \in {"waiting", "completed", "failed"}
  BY DEF Stop, CloseBegins, CloseEnds, DrainReads, DrainCalls, DrainStops, DrainEnds, Lists
<1>3. Lists'
  BY <1>1, <1>2, ListsKept
<1>4. active' = active \/ active' = None
  BY DEF Stop, CloseBegins, CloseEnds, DrainReads, DrainCalls, DrainStops, DrainEnds
<1>5. active' # None => active' = active /\ \A l \in Listeners : Pending(l) => Pending(l)'
  BY <1>1, <1>4 DEF Pending
<1>6. CASE active' = None
  BY <1>3, <1>6 DEF Heard
<1>7. CASE active' # None
  <2>1. active # None => conn'[active].events = conn[active].events
    <3>1. CASE CloseBegins \/ DrainReads \/ DrainStops \/ DrainEnds
      BY <3>1 DEF CloseBegins, DrainReads, DrainStops, DrainEnds, client
    <3>2. CASE CloseEnds
      BY <1>7, <3>2 DEF CloseEnds
    <3>3. CASE DrainCalls
      <4>1. conn' = [conn EXCEPT ![drainer.conn] = DrainFrom(@)] /\ drainer.conn \in Conns
        BY <1>0, <3>3 DEF DrainCalls, Owned
      <4>2. DrainFrom(conn[drainer.conn]).events = conn[drainer.conn].events
        BY <1>0, <4>1, DrainRecord
      <4>3. QED
        BY <1>0, <4>1, <4>2, SMTT(30)
    <3>4. QED
      BY <3>1, <3>2, <3>3 DEF Stop
  <2>2. QED
    BY <1>1, <1>3, <1>4, <1>5, <1>7, <2>1, HeardKept
<1>8. QED
  BY <1>3, <1>6, <1>7

\* So it does when the end of a connection reaches the supervisor.
LEMMA HeardTermination ==
  ASSUME IInv, Lists, Heard, NEW c \in Conns, TerminationCompletes(c)
  PROVE  Lists' /\ Heard'
<1> USE Zenon
<1>0. conn \in [Conns -> ConnState]
  BY DEF IInv, ClientTypeOK, ConnState
<1>1. UNCHANGED <<worker, listeners>> /\ first' = first
  BY DEF TerminationCompletes
<1>2. Lists'
  BY <1>1, ListsKept DEF Lists
<1>3. active' = active \/ active' = None
  BY DEF TerminationCompletes, Terminated
<1>4. active # None => conn'[active].events = conn[active].events
  <2>1. conn' = [conn EXCEPT ![c].phase = "gone"]
    BY DEF TerminationCompletes
  <2>2. QED
    BY <1>0, <2>1, SMTT(30) DEF ConnState
<1>5. CASE active' = None
  BY <1>2, <1>5 DEF Heard
<1>6. CASE active' = active
  <2>1. \A l \in Listeners : Pending(l) => Pending(l)'
    BY <1>1, <1>6 DEF Pending
  <2>2. QED
    BY <1>1, <1>2, <1>3, <1>4, <2>1, HeardKept
<1>7. QED
  BY <1>3, <1>5, <1>6

\* Connections and calls do not touch listeners.
LEMMA HeardUnsupervised ==
  ASSUME IInv, Lists, Heard, Unsupervised, \A c \in Conns : conn'[c].events = conn[c].events
  PROVE  Lists' /\ Heard'
<1> USE Zenon
<1>1. UNCHANGED <<worker, listeners, first, active>>
  BY DEF Unsupervised, supervisor
<1>2. Lists'
  BY <1>1, ListsKept DEF Lists
<1>3. \A l \in Listeners : Pending(l) => Pending(l)'
  BY <1>1 DEF Pending
<1>4. active \in Conns \cup {None}
  BY DEF IInv, Shapes
<1>5. QED
  BY <1>1, <1>2, <1>3, <1>4, HeardKept

\* Every step keeps the types of the listeners' part and the retained
\* listeners heard.
LEMMA ListenerStep ==
  ASSUME LInv, [Next]_vars
  PROVE  LInv'
<1> USE Zenon
<1>0. IInv /\ Lists /\ Heard /\ active \in Conns \cup {None} /\ Shapes /\ Owned
  BY DEF LInv, IInv, Shapes
<1>1. IInv'
  BY <1>0, StepHolds
<1>2. CASE Worker
  BY <1>0, <1>1, <1>2, WorkerTyped, HeardWorker DEF LInv
<1>3. CASE Stop
  BY <1>0, <1>1, <1>3, HeardStop DEF LInv
<1>4. CASE \E c \in Conns : TerminationCompletes(c)
  BY <1>0, <1>1, <1>4, HeardTermination DEF LInv
<1>5. ASSUME NEW c \in Conns,
             \/ Terminate(c) \/ FailAll(c) \/ GoAway(c) \/ DrainStep(c) \/ Dispatch(c) \/ Close(c)
             \/ \E k \in Calls : Receive(c, k),
             Unsupervised
      PROVE  LInv'
  <2>1. Quiet
    BY <1>0, <1>5, ConnectionSteps DEF IInv
  <2>2. QED
    BY <1>0, <1>1, <1>5, <2>1, HeardUnsupervised DEF LInv, Quiet
<1>6. ASSUME Unsupervised, conn' = conn
      PROVE  LInv'
  BY <1>0, <1>1, <1>6, HeardUnsupervised DEF LInv
<1>7. ASSUME NEW k \in Calls, Start(k) \/ ((CallStep(k) \/ Cancel(k)) /\ Unsupervised)
      PROVE  LInv'
  <2>1. Unsupervised
    BY <1>7 DEF Start
  <2>2. conn' = conn
    BY <1>0, <1>7, AwaitedCall DEF IInv, Start
  <2>3. QED
    BY <1>6, <2>1, <2>2
<1>8. CASE \E l \in Listeners : Subscription(l)
  BY <1>0, <1>1, <1>8, SubscriptionTyped, HeardSubscription DEF LInv
<1>9. CASE UNCHANGED vars
  BY <1>6, <1>9 DEF vars, client, Unsupervised
<1>10. QED
  BY <1>2, <1>3, <1>4, <1>5, <1>7, <1>8, <1>9 DEF Next, Breaks, ServerDrains

\* Nobody listens to begin with.
LEMMA ListenerInit == Init => LInv
<1> USE Zenon
<1> SUFFICES ASSUME Init
             PROVE  LInv
  OBVIOUS
<1>1. IInv
  BY InitHolds
<1>2. MaxLists \in Nat /\ 0 \in 0 .. MaxLists
  BY OwnersFinite, SMTT(30)
<1>3. worker.todo = {} /\ worker.list = 0 /\ worker.at # "add"
  <2>1. CASE plan.begin = "start"
    BY <2>1, SMTT(30) DEF Init, Idle
  <2>2. CASE plan.begin = "connect"
    BY <2>2 DEF Init, Idle
  <2>3. QED
    BY <2>1, <2>2 DEF Init
<1>4. /\ map = [o \in Owners |-> 0] /\ member = [o \in Owners |-> [l \in Listeners |-> 0]]
      /\ sub = [l \in Listeners |-> [at |-> "out", list |-> 0, found |-> 0, conn |-> None]]
      /\ first = "waiting" /\ active = None
  BY DEF Init
<1>5. Lists
  BY <1>2, <1>3, <1>4 DEF Lists, SubState
<1>6. QED
  BY <1>1, <1>4, <1>5 DEF LInv, Heard

-----------------------------------------------------------------------------
(* Results                                                                 *)

\* The inductive invariant of the listeners holds.
THEOREM ListenerInvariant == Spec => []LInv
<1>1. LInv /\ [Next]_vars => LInv'
  BY ListenerStep, Zenon
<1>2. QED
  BY ListenerInit, <1>1, PTL DEF Spec

\* ReconnectingMoonLightClient is type correct: a call that left its caller has
\* a connection, and there always is a new list to map an event to.
THEOREM ReconnectTypeCorrect == Spec => []TypeOK
<1>1. LInv => TypeOK
  <2> USE Zenon
  <2> SUFFICES ASSUME LInv
               PROVE  TypeOK
    OBVIOUS
  <2>1. ClientTypeOK /\ Shapes /\ Flags /\ Owned /\ Awaited /\ Lists
    BY DEF LInv, IInv
  <2>2. \A k \in Calls : call[k].at \notin {"new", "refused"} => call[k].conn # None
    BY <2>1, ClientAssumption DEF Awaited
  <2>3. worker.conn \in Conns \cup {None}
    BY <2>1 DEF Owned
  <2>4. worker \in [at : {"idle", "connect", "install", "set", "each", "subscribe", "add", "watch"},
                    conn : Conns \cup {None}, todo : SUBSET Listeners, list : 0 .. MaxLists]
    BY <2>1, <2>3 DEF Shapes, Lists
  <2>5. QED
    BY <2>1, <2>2, <2>4 DEF TypeOK, Shapes, Flags, Lists, SubState
<1>2. QED
  BY <1>1, ListenerInvariant, PTL

\* "Subscriptions survive reconnects": a listener the supervisor retains was
\* added to the connection that is installed, however many listeners subscribe
\* and unsubscribe while install runs.
THEOREM SubscriptionsSurvive == Spec => []RetainedHeard
<1>1. LInv => RetainedHeard
  BY Zenon DEF LInv, Heard, RetainedHeard, Retained, Subscribed, Pending, Members
<1>2. QED
  BY <1>1, ListenerInvariant, PTL
=============================================================================
