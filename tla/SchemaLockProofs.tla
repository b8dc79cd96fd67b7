--------------------------- MODULE SchemaLockProofs ---------------------------
(***************************************************************************)
(* Proofs about the contract and its lock, for any declarations, methods,  *)
(* numbers and edits: a lock keeps its promises, nothing promised is used  *)
(* for anything else, additive edits pass, and a generated router serves   *)
(* its contract.                                                           *)
(***************************************************************************)
EXTENDS SchemaLockLemmas

-----------------------------------------------------------------------------
(* The invariant                                                           *)

\* Sources and the files a build leaves: a descriptor is always one that
\* protoc accepted, code is generated only where ids do not clash.
Files ==
  /\ IsSource(source)
  /\ methods \in [Methods -> Rpcs \cup {None}]
  /\ left \in [{"members", "protos", "rpcs"} -> Nat]
  /\ descriptor # None => Accepted(descriptor)
  /\ built # None => Accepted(built) /\ GenerateRust(built)

\* schema.lock was made of such a descriptor and keeps what was promised.
LockFile ==
  /\ PromisesTyped(promised)
  /\ IF lock = None THEN promised = Nothing ELSE LockMade(lock) /\ Keeps(lock, promised)

SInv == Files /\ LockFile /\ RouterServesContract

\* What generation reads of the lock is a declaration, an empty one if need be.
LEMMA PreviousDeclared ==
  ASSUME NEW locked, locked # None => IsDeclaration(locked)
  PROVE  IsDeclaration(Previous(locked))
<1> USE Zenon
<1>1. IsDeclaration(Empty)
  <2>1. DOMAIN Empty.fields = {}
    BY SMTT(30) DEF Empty
  <2>2. Empty.fields \in [DOMAIN Empty.fields -> Fields]
    BY SMTT(30) DEF Empty
  <2>3. Empty = [fields |-> Empty.fields, ranges |-> Empty.ranges, names |-> Empty.names]
    BY DEF Empty
  <2>4. Empty.ranges = {} /\ Empty.names = {}
    BY DEF Empty
  <2>5. QED
    BY <2>1, <2>2, <2>3, <2>4 DEF IsDeclaration
<1>2. QED
  BY <1>1 DEF Previous

\* What generation reads for d.
LockedFor(d) == IF lock = None THEN None ELSE lock.decls[d]

\* What generate_proto_from_rust_source reads of the lock is well formed.
LEMMA LockedDeclared ==
  ASSUME LockFile, NEW d \in Decls
  PROVE  /\ LockedFor(d) # None => lock # None /\ Locked(d, lock.decls[d])
         /\ IsDeclaration(Previous(LockedFor(d)))
<1> USE Zenon
<1>1. LockedFor(d) # None => lock # None /\ Locked(d, lock.decls[d]) /\ LockedFor(d) = lock.decls[d]
  BY DEF LockedFor, LockFile, LockMade
<1>2. LockedFor(d) # None => IsDeclaration(LockedFor(d))
  BY <1>1 DEF Locked
<1>3. QED
  BY <1>1, <1>2, PreviousDeclared

\* The values of an enum are a list like the members of a struct, where no two
\* variants are called the same in upper snake case.
LEMMA ValuesListed ==
  ASSUME NEW d \in Enums, NEW variants \in Structs(d),
         \A i, j \in 1 .. Len(Values(variants)) :
           Values(variants)[i].name = Values(variants)[j].name => i = j
  PROVE  Values(variants) \in Lists(d, Names)
<1> USE Zenon
<1> DEFINE V == [name : DOMAIN UpperSnake, type : MemberTypes(d)]
           M == [name : Names, type : MemberTypes(d)]
           value(i) == [variants[i] EXCEPT !.name = UpperSnake[@]]
           t == Values(variants)
<1>1. variants \in Seq(V)
  BY DEF Structs, Lists, MemberNames
<1>2. ASSUME NEW i \in 1 .. Len(variants)
      PROVE  value(i) \in M
  <2>1. variants[i] \in V
    <3> HIDE DEF V
    <3>1. QED
      BY <1>1, SMTT(30)
  <2>2. UpperSnake[variants[i].name] \in Names
    BY <2>1 DEF Names
  <2>3. QED
    BY <2>1, <2>2
<1>3. t = [i \in 1 .. Len(variants) |-> value(i)]
  BY DEF Values
<1>4. Len(variants) \in Nat
  <2> HIDE DEF V
  <2>1. QED
    BY <1>1, SMTT(30)
<1>5. t \in Seq(M) /\ DOMAIN t = 1 .. Len(t)
  <2> HIDE DEF M, t, value
  <2>1. QED
    BY <1>2, <1>3, <1>4, SMTT(30)
<1>6. QED
  BY <1>5 DEF Lists

\* The members of a struct are listed as they are.
LEMMA FieldsListed ==
  ASSUME NEW d, d \notin Enums, NEW members \in Structs(d)
  PROVE  members \in Lists(d, Names)
<1> USE Zenon
<1> DEFINE F == [name : FieldNames, type : MemberTypes(d)]
           M == [name : Names, type : MemberTypes(d)]
<1>1. /\ members \in Seq(F)
      /\ \A i, j \in DOMAIN members : members[i].name = members[j].name => i = j
  BY DEF Structs, Lists, MemberNames
<1>2. F \subseteq M
  BY DEF Names
<1>3. members \in Seq(M)
  <2> HIDE DEF F, M
  <2>1. QED
    BY <1>1, <1>2, SMTT(30)
<1>4. QED
  BY <1>1, <1>3 DEF Lists

\* What generation writes for a Rust item, if it does not fail.
LEMMA GenerateIs ==
  ASSUME Files, LockFile, NEW d \in CodeFirst, source[d] # None, Generate(d) # Error
  PROVE  LET past  == IF d \in Enums THEN 0 ELSE 1
             previous == Previous(LockedFor(d))
         IN  /\ d \in Decls /\ Members(d) \in Lists(d, Names)
             /\ IsWritten(Generate(d), Numbering(Members(d), previous, past), Members(d), previous, past)
<1> USE Zenon
<1> DEFINE past == IF d \in Enums THEN 0 ELSE 1
           previous == Previous(LockedFor(d))
           members == Members(d)
<1>1. d \in Decls /\ source[d] \in Structs(d)
  BY ContractAssumption DEF Files, IsSource
<1>2. IsDeclaration(previous)
  BY <1>1, LockedDeclared
<1>3. Generate(d) = Written(members, previous, past, past) /\ members \in Lists(d, Names)
  <2>1. CASE d \in Enums
    <3> DEFINE values == Values(source[d])
    <3>1. members = values /\ Generate(d) = GenerateEnum(source[d], LockedFor(d))
      BY <2>1 DEF Generate, LockedFor, Members
    <3>2. /\ Generate(d) = Written(values, previous, 0, 0)
          /\ \A i, j \in 1 .. Len(values) : values[i].name = values[j].name => i = j
      BY <3>1 DEF GenerateEnum
    <3>3. values \in Lists(d, Names)
      BY <1>1, <2>1, <3>2, ValuesListed
    <3>4. QED
      BY <2>1, <3>1, <3>2, <3>3
  <2>2. CASE d \notin Enums
    <3>1. members = source[d]
      BY <2>2 DEF Members
    <3>2. Generate(d) = Written(source[d], previous, 1, 1)
      BY <2>2 DEF Generate, GenerateMessage, LockedFor
    <3>3. QED
      BY <1>1, <2>2, <3>1, <3>2, FieldsListed
  <2>3. QED
    BY <2>1, <2>2
<1>4. past \in {0, 1}
  OBVIOUS
<1>5. IsWritten(Written(members, previous, past, past), Numbering(members, previous, past),
                members, previous, past)
  <2> HIDE DEF past, previous, members
  <2>1. QED
    BY <1>2, <1>3, <1>4, WrittenIs
<1>6. QED
  BY <1>1, <1>3, <1>5

\* What protoc accepts of what is generated is a declaration.
LEMMA GeneratedDeclared ==
  ASSUME Files, LockFile, NEW d \in Decls, Generate(d) # None, Generate(d) # Error,
         DOMAIN Generate(d).fields \subseteq 0 .. MaxNumber
  PROVE  IsDeclaration(Generate(d))
<1> USE Zenon
<1>1. CASE d \notin CodeFirst \/ source[d] = None
  <2>1. Generate(d) = source[d] /\ d \notin CodeFirst
    BY <1>1 DEF Generate
  <2>2. QED
    BY <2>1 DEF Files, IsSource
<1>2. CASE d \in CodeFirst /\ source[d] # None
  <2> DEFINE past == IF d \in Enums THEN 0 ELSE 1
             previous == Previous(LockedFor(d))
  <2>1. IsWritten(Generate(d), Numbering(Members(d), previous, past), Members(d), previous, past)
    BY <1>2, GenerateIs
  <2>2. IsDeclaration(previous) /\ past \in {0, 1}
    BY LockedDeclared
  <2> HIDE DEF past, previous
  <2>3. QED
    BY <2>1, <2>2, WrittenDeclares
<1>3. QED
  BY <1>1, <1>2

\* A build that gets past generation and protoc leaves an accepted contract.
LEMMA ContractAccepted ==
  ASSUME Files, LockFile, \A d \in Decls : Contract.decls[d] # Error,
         \A m \in Methods : Contract.methods[m] # Error, Protoc(Contract)
  PROVE  Accepted(Contract)
<1> USE Zenon
<1> DEFINE c == Contract
<1>1. ASSUME NEW d \in Decls, c.decls[d] # None
      PROVE  IsDeclaration(c.decls[d]) /\ ProtocAccepts(d, c.decls[d])
  <2>1. c.decls[d] = Generate(d)
    BY DEF Contract
  <2>2. ProtocAccepts(d, c.decls[d])
    BY <1>1 DEF Protoc
  <2>3. DOMAIN Generate(d).fields \subseteq 0 .. MaxNumber
    BY <2>1, <2>2 DEF ProtocAccepts
  <2>4. QED
    BY <1>1, <2>1, <2>2, <2>3, GeneratedDeclared
<1>2. c.decls = [d \in Decls |-> c.decls[d]]
  BY DEF Contract
<1>3. ASSUME NEW m \in Methods
      PROVE  c.methods[m] \in Rpcs \cup {None}
  <2>1. c.methods[m] = IF methods[m] = None THEN None ELSE GenerateMethod(methods[m])
    BY DEF Contract
  <2>2. c.methods[m] # Error
    OBVIOUS
  <2>3. GenerateMethod(methods[m]) = Error \/ GenerateMethod(methods[m]) = methods[m]
    BY DEF GenerateMethod
  <2>4. methods[m] \in Rpcs \cup {None}
    BY DEF Files
  <2> HIDE DEF c
  <2>5. QED
    BY <2>1, <2>2, <2>3, <2>4
<1>4. c.methods = [m \in Methods |-> c.methods[m]]
  BY DEF Contract
<1>5. c.methods \in [Methods -> Rpcs \cup {None}]
  <2> HIDE DEF c
  <2>1. QED
    BY <1>3, <1>4
<1>6. QED
  BY <1>1, <1>2, <1>5 DEF Accepted

-----------------------------------------------------------------------------
(* Steps                                                                   *)

\* An edit leaves a source that rustc and the team can have written.
LEMMA EditStep ==
  ASSUME Files, Edit
  PROVE  /\ IsSource(source')
         /\ methods' \in [Methods -> Rpcs \cup {None}]
         /\ left' \in [{"members", "protos", "rpcs"} -> Nat]
         /\ UNCHANGED <<descriptor, lock, built, router, promised>>
<1> USE Zenon
<1> DEFINE Sorts == {"members", "protos", "rpcs"}
           Goal == /\ IsSource(source')
                   /\ methods' \in [Methods -> Rpcs \cup {None}]
                   /\ left' \in [Sorts -> Nat]
                   /\ UNCHANGED <<descriptor, lock, built, router, promised>>
<1> SUFFICES Goal
  OBVIOUS
<1>1. ASSUME NEW sort \in Sorts, Edited(sort)
      PROVE  left' \in [Sorts -> Nat] /\ UNCHANGED <<descriptor, lock, built, router, promised>>
  BY <1>1, SMTT(30) DEF Edited, Files
<1>2. ASSUME NEW d \in Decls, NEW decl, source' = [source EXCEPT ![d] = decl],
             decl # None => IF d \in CodeFirst THEN decl \in Structs(d) ELSE IsDeclaration(decl)
      PROVE  IsSource(source')
  <2>1. source = [x \in Decls |-> source[x]]
    BY DEF Files, IsSource
  <2>2. source' = [x \in Decls |-> IF x = d THEN decl ELSE source[x]]
    BY <1>2, <2>1
  <2>3. QED
    BY <1>2, <2>2 DEF Files, IsSource
<1>3. \A d \in CodeFirst : source[d] # None => source[d] \in Structs(d) /\ d \in Decls
  BY ContractAssumption DEF Files, IsSource
<1>4. methods \in [Methods -> Rpcs \cup {None}] /\ "members" \in Sorts /\ "protos" \in Sorts
        /\ "rpcs" \in Sorts /\ IsSource(source)
  BY DEF Files
<1>5. ASSUME NEW d \in CodeFirst, source[d] # None,
             NEW i \in 0 .. Len(source[d]), NEW name \in MemberNames(d), NEW type \in MemberTypes(d),
             AddMember(d, i, name, type)
      PROVE  Goal
  <2> DEFINE new == PutIn(source[d], i, [name |-> name, type |-> type])
  <2>1. new \in Structs(d)
    BY <1>3, <1>5, StructInserted DEF AddMember
  <2>2. source' = [source EXCEPT ![d] = new]
    BY <1>5 DEF AddMember, PutIn
  <2> HIDE DEF new
  <2>3. IsSource(source')
    BY <1>2, <1>3, <1>5, <2>1, <2>2
  <2>4. QED
    BY <1>1, <1>4, <1>5, <2>3 DEF AddMember
<1>6. ASSUME NEW d \in CodeFirst, source[d] # None, NEW i \in 1 .. Len(source[d]), RemoveMember(d, i)
      PROVE  Goal
  <2> DEFINE new == TakeOut(source[d], i)
  <2>1. new \in Structs(d)
    BY <1>3, <1>6, StructTakenOut
  <2>2. source' = [source EXCEPT ![d] = new]
    BY <1>6 DEF RemoveMember, TakeOut
  <2> HIDE DEF new
  <2>3. IsSource(source')
    BY <1>2, <1>3, <1>6, <2>1, <2>2
  <2>4. QED
    BY <1>1, <1>4, <1>6, <2>3 DEF RemoveMember
<1>7. ASSUME NEW d \in CodeFirst, source[d] # None, NEW i \in 1 .. Len(source[d]),
             NEW type \in MemberTypes(d), ChangeType(d, i, type)
      PROVE  Goal
  <2> DEFINE new == [source[d] EXCEPT ![i].type = type]
  <2>1. new \in Structs(d)
    BY <1>3, <1>7, StructRetyped
  <2>2. source' = [source EXCEPT ![d] = new]
    BY <1>7 DEF ChangeType
  <2> HIDE DEF new
  <2>3. IsSource(source')
    BY <1>2, <1>3, <1>7, <2>1, <2>2
  <2>4. QED
    BY <1>1, <1>4, <1>7, <2>3 DEF ChangeType
<1>8. ASSUME NEW d \in CodeFirst, source[d] # None, RemoveDecl(d)
      PROVE  Goal
  <2>1. IsSource(source')
    BY <1>2, <1>3, <1>8 DEF RemoveDecl
  <2>2. QED
    BY <1>1, <1>4, <1>8, <2>1 DEF RemoveDecl
<1>9. ASSUME NEW d \in Decls \ CodeFirst, NEW decl \in Protos, WriteProto(d, decl)
      PROVE  Goal
  <2>1. decl # None => IsDeclaration(decl)
    BY ContractAssumption
  <2>2. IsSource(source')
    BY <1>2, <1>9, <2>1 DEF WriteProto
  <2>3. QED
    BY <1>1, <1>4, <1>9, <2>2 DEF WriteProto
<1>10. ASSUME NEW m \in Methods, NEW method \in Rpcs, WriteMethod(m, method)
       PROVE  Goal
  <2>1. methods' \in [Methods -> Rpcs \cup {None}] /\ IsSource(source')
    BY <1>4, <1>10 DEF WriteMethod
  <2>2. QED
    BY <1>1, <1>4, <1>10, <2>1 DEF WriteMethod
<1> HIDE DEF Goal
<1>11. QED
  BY <1>5, <1>6, <1>7, <1>8, <1>9, <1>10 DEF Edit

\* A build leaves the old descriptor or one that protoc accepted.
LEMMA BuildStep ==
  ASSUME Files, LockFile, Build
  PROVE  /\ descriptor' # None => Accepted(descriptor')
         /\ built' # None => Accepted(built') /\ GenerateRust(built')
         /\ UNCHANGED <<source, methods, lock, router, promised, left>>
<1> USE Zenon
<1> DEFINE failed == \/ \E d \in Decls : Contract.decls[d] = Error
                     \/ \E m \in Methods : Contract.methods[m] = Error
<1>1. CASE failed \/ ~Protoc(Contract)
  <2>1. built' = None /\ UNCHANGED descriptor
    BY <1>1 DEF Build
  <2>2. QED
    BY <2>1 DEF Files, Build
<1>2. CASE ~failed /\ Protoc(Contract)
  <2>1. Accepted(Contract)
    BY <1>2, ContractAccepted
  <2>2. /\ descriptor' = Contract
        /\ built' = IF CheckLock(Contract) /\ GenerateRust(Contract) THEN Contract ELSE None
    BY <1>2 DEF Build
  <2>3. GenerateRust(Contract) /\ built' = Contract => GenerateRust(built')
    OBVIOUS
  <2>4. QED
    BY <2>1, <2>2, <2>3 DEF Build
<1>3. QED
  BY <1>1, <1>2

\* A schema that keeps two sets of promises keeps both together.
LEMMA KeepsBoth ==
  ASSUME NEW l, NEW p, NEW q, Keeps(l, p), Keeps(l, q), PromisesTyped(p), PromisesTyped(q)
  PROVE  LET both == [bound   |-> p.bound \cup q.bound, numbers |-> p.numbers \cup q.numbers,
                      names   |-> p.names \cup q.names]
         IN  Keeps(l, both) /\ PromisesTyped(both)
<1> USE Zenon
<1> DEFINE both == [bound   |-> p.bound \cup q.bound, numbers |-> p.numbers \cup q.numbers,
                    names   |-> p.names \cup q.names]
<1>1. /\ both.bound = p.bound \cup q.bound /\ both.numbers = p.numbers \cup q.numbers
      /\ both.names = p.names \cup q.names
  OBVIOUS
<1> HIDE DEF both
<1>2. PromisesTyped(both)
  BY <1>1 DEF PromisesTyped
<1>3. \A x \in both.bound :
        LET decl == l.decls[x[1]]
        IN  /\ decl # None
            /\ IF x[2] \in DOMAIN decl.fields THEN decl.fields[x[2]] = x[3]
               ELSE IsReserved(x[2], x[3].name, decl.ranges, decl.names)
  BY <1>1 DEF Keeps
<1>4. /\ \A x \in both.numbers : l.decls[x[1]] # None /\ x[2] \in Reserved(l.decls[x[1]].ranges)
      /\ \A x \in both.names : l.decls[x[1]] # None /\ x[2] \in l.decls[x[1]].names
  BY <1>1 DEF Keeps
<1>5. QED
  BY <1>2, <1>3, <1>4 DEF Keeps, both

\* write_lock keeps what it has to.
LEMMA LockStep ==
  ASSUME Files, LockFile, UpdateLock \/ OverrideLock
  PROVE  LockFile' /\ UNCHANGED <<source, methods, descriptor, built, router, left>>
<1> USE Zenon
<1>1. descriptor # None /\ Accepted(descriptor) /\ lock' = Snapshot(descriptor)
        /\ UNCHANGED <<source, methods, descriptor, built, router, left>>
  BY DEF UpdateLock, OverrideLock, WriteLock, Files
<1> DEFINE l == Snapshot(descriptor)
           own == Promises(l)
<1>2. LockMade(l) /\ l # None
  BY <1>1, SnapshotMade
<1>3. Keeps(l, own) /\ PromisesTyped(own)
  BY <1>2, KeepsOwn
<1>4. CASE OverrideLock
  <2>1. promised' = own
    BY <1>1, <1>4 DEF OverrideLock
  <2> HIDE DEF own, l
  <2>2. QED
    BY <1>1, <1>2, <1>3, <2>1 DEF LockFile, l
<1>5. CASE UpdateLock
  <2>1. promised' = [bound   |-> promised.bound \cup own.bound,
                     numbers |-> promised.numbers \cup own.numbers,
                     names   |-> promised.names \cup own.names]
    BY <1>1, <1>5 DEF UpdateLock
  <2>2. Keeps(l, promised) /\ PromisesTyped(promised)
    <3>1. CASE lock = None
      <4>1. promised = Nothing
        BY <3>1 DEF LockFile
      <4>2. Keeps(l, Nothing) /\ PromisesTyped(Nothing)
        BY DEF Keeps, PromisesTyped, Nothing
      <4>3. QED
        BY <4>1, <4>2
    <3>2. CASE lock # None
      <4>1. Compatible(lock, l)
        BY <1>5, <3>2 DEF UpdateLock, CheckLock
      <4>2. LockMade(lock) /\ Keeps(lock, promised) /\ PromisesTyped(promised)
        BY <3>2 DEF LockFile
      <4> HIDE DEF l
      <4>3. QED
        BY <1>2, <4>1, <4>2, KeepsOn
    <3>3. QED
      BY <3>1, <3>2
  <2> HIDE DEF own, l
  <2>3. Keeps(l, promised') /\ PromisesTyped(promised')
    BY <1>3, <2>1, <2>2, KeepsBoth
  <2>4. QED
    BY <1>1, <1>2, <2>3 DEF LockFile, l
<1>6. QED
  BY <1>1, <1>4, <1>5

-----------------------------------------------------------------------------
(* Starting the server                                                     *)

\* validate_method_ids: the methods of generated code have distinct ids.
LEMMA DeclaredDistinct ==
  ASSUME Files, built # None
  PROVE  Distinct(Declared) /\ IsFiniteSet(Declared)
<1> USE Zenon
<1>1. ValidateMethodIds(built)
  BY DEF Files, GenerateRust
<1>2. Distinct(Declared)
  BY <1>1 DEF ValidateMethodIds, Declared, Distinct
<1>3. Declared \subseteq Methods
  BY DEF Declared
<1>4. QED
  BY <1>2, <1>3, RouterAssumption, FS_Subset

\* Starting the server makes a router that serves its contract, or panics for
\* one of the two reasons.
LEMMA StartStep ==
  ASSUME Files, NEW raw \in RawRoutes, NEW a \in {"none", "layer", "unsecured"},
         StartServer(raw, a)
  PROVE  RouterServesContract' /\ UNCHANGED <<source, methods, descriptor, lock, built, promised, left>>
<1> USE Zenon
<1> DEFINE s == Declared
           services == FoldSet(LAMBDA m, b : RegisterMethod(b, m), NewBuilder, Declared)
           f == Finished(Extended(services, raw), a)
<1>1. built # None /\ UNCHANGED <<source, methods, descriptor, lock, built, promised, left>>
  BY DEF StartServer
<1>2. router' = [builder |-> f, raw |-> raw.id, authorization |-> a, contract |-> built]
  BY DEF StartServer, Finished, Extended, Secured
<1>3. Distinct(s) /\ IsFiniteSet(s)
  BY <1>1, DeclaredDistinct
<1>4. Registered(services, s)
  BY <1>3, ServicesRegistered
<1>5. raw.id \in Nat \cup {None} /\ None \notin Nat /\ \A m \in s : WireId[m] \in Nat
  BY RouterAssumption DEF Declared
<1> DEFINE clash == \E m \in s : WireId[m] = raw.id
           bare  == a = "none" /\ \E m \in s : Scopes(m) # {}
<1>6. CASE clash
  <2>1. raw.id \in Ids(s) /\ raw.id # None
    BY <1>5, <1>6 DEF Ids
  <2> HIDE DEF services, s
  <2>2. DOMAIN Extended(services, raw) = BuilderFields /\ Extended(services, raw).panicked = TRUE
    BY <1>3, <1>4, <2>1, ExtendedPanicked
  <2>3. f.panicked
    BY <2>2, FinishedPanicked
  <2> HIDE DEF f
  <2>4. router'.builder = f /\ router'.raw = raw.id /\ router'.contract = built
    BY <1>2
  <2>5. QED
    BY <1>1, <1>6, <2>3, <2>4 DEF RouterServesContract, s, Declared
<1>7. CASE ~clash
  <2>1. raw.id \notin Ids(s)
    BY <1>7 DEF Ids
  <2> HIDE DEF services
  <2>2. PICK h, t : /\ IsBuilder(Extended(services, raw), h, t, Table(s), ScopeTable(s))
                    /\ Serving(h, t, s, raw.id)
    <3> HIDE DEF s
    <3>1. QED
      BY <1>3, <1>4, <2>1, ExtendedIs
  <2>3. /\ Holds(f, h, t, Table(s), ScopeTable(s))
        /\ f.panicked <=> a = "none" /\ \E id \in DOMAIN ScopeTable(s) : ScopeTable(s)[id] # {}
    <3> HIDE DEF s
    <3>1. QED
      BY <2>2, FinishedHolds
  <2>4. \A m \in s : /\ WireId[m] \in DOMAIN Table(s) /\ Table(s)[WireId[m]] = m
                     /\ WireId[m] \in DOMAIN ScopeTable(s) /\ ScopeTable(s)[WireId[m]] = Scopes(m)
    <3> HIDE DEF s
    <3>1. ASSUME NEW m \in s
          PROVE  Owner(s, WireId[m]) = m /\ WireId[m] \in Ids(s)
      BY <1>3, OwnerIs
    <3>2. QED
      BY <3>1 DEF Table, ScopeTable
  <2>5. (\E id \in DOMAIN ScopeTable(s) : ScopeTable(s)[id] # {}) <=> \E m \in s : Scopes(m) # {}
    <3> HIDE DEF s
    <3>1. \A id \in DOMAIN ScopeTable(s) : \E m \in s : id = WireId[m]
      BY DEF ScopeTable, Ids
    <3>2. QED
      BY <2>4, <3>1, SMTT(30)
  <2> HIDE DEF f
  <2>6. /\ router'.builder = f /\ router'.raw = raw.id /\ router'.contract = built
        /\ router'.authorization = a
    BY <1>2
  <2>7. f.panicked <=> bare
    BY <2>3, <2>5
  <2>8. {m \in Methods : built.methods[m] # None} = s
    BY DEF Declared
  <2>9. \A m \in s : Scopes(m) = ParsePolicy(built.methods[m]).scopes
    BY DEF Scopes
  <2>10. {WireId[m] : m \in s} = Ids(s)
    BY DEF Ids
  <2>11. /\ f.handlers = h /\ f.stream_handlers = t /\ f.method_names = Table(s)
         /\ f.required_scopes = ScopeTable(s)
    BY <2>3 DEF Holds
  <2> HIDE DEF s
  <2>12. ASSUME NEW m \in s
         PROVE  LET id == WireId[m]
                    table == IF built.methods[m].server_streaming
                             THEN f.stream_handlers ELSE f.handlers
                IN  /\ id \in DOMAIN table /\ table[id] = m
                    /\ f.method_names[id] = m
                    /\ f.required_scopes[id] = ParsePolicy(built.methods[m]).scopes
    BY <2>2, <2>4, <2>9, <2>11 DEF Serving
  <2>13. /\ DOMAIN f.handlers \cap DOMAIN f.stream_handlers = {}
         /\ DOMAIN f.handlers \cup DOMAIN f.stream_handlers \subseteq {WireId[m] : m \in s} \cup {raw.id}
    BY <2>2, <2>10, <2>11 DEF Serving
  <2>14. f.panicked <=> \/ \E m \in s : WireId[m] = raw.id
                        \/ /\ \E m \in s : ParsePolicy(built.methods[m]).scopes # {}
                           /\ a = "none"
    BY <1>7, <2>7, <2>9
  <2>15. RouterServesContract'
    <3> DEFINE r == router'
               declared == {m \in Methods : r.contract.methods[m] # None}
    <3>1. r.builder = f /\ r.raw = raw.id /\ r.contract = built /\ r.authorization = a
      BY <2>6
    <3> HIDE DEF r
    <3>2. declared = s
      BY <2>8, <3>1
    <3> HIDE DEF declared
    <3>3. r.builder.panicked <=> \/ \E m \in declared : WireId[m] = r.raw
                                \/ /\ \E m \in declared : ParsePolicy(r.contract.methods[m]).scopes # {}
                                   /\ r.authorization = "none"
      BY <2>14, <3>1, <3>2
    <3>4. \A m \in declared :
            LET id == WireId[m]
                table == IF r.contract.methods[m].server_streaming
                         THEN r.builder.stream_handlers ELSE r.builder.handlers
            IN  /\ id \in DOMAIN table /\ table[id] = m
                /\ r.builder.method_names[id] = m
                /\ r.builder.required_scopes[id] = ParsePolicy(r.contract.methods[m]).scopes
      BY <2>12, <3>1, <3>2
    <3>5. /\ DOMAIN r.builder.handlers \cap DOMAIN r.builder.stream_handlers = {}
          /\ DOMAIN r.builder.handlers \cup DOMAIN r.builder.stream_handlers
               \subseteq {WireId[m] : m \in declared} \cup {r.raw}
      BY <2>13, <3>1, <3>2
    <3>6. QED
      BY <3>3, <3>4, <3>5 DEF RouterServesContract, r, declared
  <2>16. QED
    BY <1>1, <2>15
<1>8. QED
  BY <1>6, <1>7

\* The invariant of the router depends on the router alone.
Serves(r) ==
  LET b        == r.builder
      declared == {m \in Methods : r.contract.methods[m] # None}
      policy(m) == ParsePolicy(r.contract.methods[m])
  IN  /\ b.panicked <=> \/ \E m \in declared : WireId[m] = r.raw
                        \/ /\ \E m \in declared : policy(m).scopes # {}
                           /\ r.authorization = "none"
      /\ ~b.panicked =>
           /\ \A m \in declared :
                LET id == WireId[m]
                    table == IF r.contract.methods[m].server_streaming
                             THEN b.stream_handlers ELSE b.handlers
                IN  /\ id \in DOMAIN table /\ table[id] = m
                    /\ b.method_names[id] = m
                    /\ b.required_scopes[id] = policy(m).scopes
           /\ DOMAIN b.handlers \cap DOMAIN b.stream_handlers = {}
           /\ DOMAIN b.handlers \cup DOMAIN b.stream_handlers
                \subseteq {WireId[m] : m \in declared} \cup {r.raw}

\* The property of the router is about the router alone, before and after a step.
LEMMA ServesOnly ==
  /\ RouterServesContract <=> (router # None => Serves(router))
  /\ RouterServesContract' <=> (router' # None => Serves(router'))
<1> USE Zenon
<1>1. RouterServesContract <=> (router # None => Serves(router))
  BY DEF RouterServesContract, Serves
<1>2. RouterServesContract' <=> (router' # None => Serves(router'))
  BY DEF RouterServesContract, Serves
<1>3. QED
  BY <1>1, <1>2

\* The invariant holds of a fresh checkout.
LEMMA SInvInit ==
  ASSUME Init
  PROVE  SInv
<1> USE Zenon
<1>1. PICK plan \in Plans : source = plan.source /\ left = plan.edits
  BY DEF Init
<1>2. Files
  BY <1>1, ContractAssumption DEF Init, Files
<1>3. PromisesTyped(Nothing)
  BY DEF PromisesTyped, Nothing
<1>4. LockFile
  BY <1>3 DEF Init, LockFile
<1>5. RouterServesContract
  BY DEF Init, RouterServesContract
<1>6. QED
  BY <1>2, <1>4, <1>5 DEF SInv

\* Every edit, build, lock update, start and stop preserves the invariant.
LEMMA SInvStep ==
  ASSUME SInv, [Next]_vars
  PROVE  SInv'
<1> USE Zenon
<1>1. Files /\ LockFile /\ RouterServesContract
  BY DEF SInv
<1>2. ASSUME UNCHANGED <<lock, promised>>
      PROVE  LockFile'
  BY <1>1, <1>2 DEF LockFile
<1>3. ASSUME UNCHANGED <<source, methods, descriptor, built, left>>
      PROVE  Files'
  BY <1>1, <1>3 DEF Files
<1>4. ASSUME UNCHANGED router
      PROVE  RouterServesContract'
  BY <1>1, <1>4, ServesOnly
<1>5. CASE Edit
  <2>1. /\ IsSource(source') /\ methods' \in [Methods -> Rpcs \cup {None}]
        /\ left' \in [{"members", "protos", "rpcs"} -> Nat]
        /\ UNCHANGED <<descriptor, lock, built, router, promised>>
    BY <1>1, <1>5, EditStep
  <2>2. Files'
    BY <1>1, <2>1 DEF Files
  <2>3. QED
    BY <1>2, <1>4, <2>1, <2>2 DEF SInv
<1>6. CASE Build
  <2>1. /\ descriptor' # None => Accepted(descriptor')
        /\ built' # None => Accepted(built') /\ GenerateRust(built')
        /\ UNCHANGED <<source, methods, lock, router, promised, left>>
    BY <1>1, <1>6, BuildStep
  <2>2. Files'
    BY <1>1, <2>1 DEF Files
  <2>3. QED
    BY <1>2, <1>4, <2>1, <2>2 DEF SInv
<1>7. CASE UpdateLock \/ OverrideLock
  <2>1. LockFile' /\ UNCHANGED <<source, methods, descriptor, built, router, left>>
    BY <1>1, <1>7, LockStep
  <2>2. QED
    BY <1>3, <1>4, <2>1 DEF SInv
<1>8. ASSUME NEW raw \in RawRoutes, NEW a \in {"none", "layer", "unsecured"}, StartServer(raw, a)
      PROVE  SInv'
  <2>1. RouterServesContract' /\ UNCHANGED <<source, methods, descriptor, lock, built, promised, left>>
    BY <1>1, <1>8, StartStep
  <2>2. QED
    BY <1>2, <1>3, <2>1 DEF SInv
<1>9. CASE StopServer
  <2>1. router' = None /\ UNCHANGED <<source, methods, descriptor, lock, built, promised, left>>
    BY <1>9 DEF StopServer
  <2>2. RouterServesContract'
    BY <2>1 DEF RouterServesContract
  <2>3. QED
    BY <1>2, <1>3, <2>1, <2>2 DEF SInv
<1>10. CASE UNCHANGED vars
  BY <1>2, <1>3, <1>4, <1>10 DEF vars, SInv
<1>11. QED
  BY <1>5, <1>6, <1>7, <1>8, <1>9, <1>10 DEF Next, Start

\* Every reachable state has a source the team can have written, files that
\* protoc accepted, a lock made of such a file that keeps its promises, and
\* a router that serves its contract.
THEOREM SchemaInvariant == Spec => []SInv
<1> USE Zenon
<1>1. Init => SInv
  BY SInvInit
<1>2. SInv /\ [Next]_vars => SInv'
  BY SInvStep
<1>3. QED
  BY <1>1, <1>2, PTL DEF Spec

-----------------------------------------------------------------------------
(* The properties                                                          *)

\* A contract that protoc accepted is a well formed schema.
LEMMA AcceptedSchema ==
  ASSUME NEW c, Accepted(c)
  PROVE  IsSchema(c)
<1> USE Zenon
<1>1. DOMAIN c.methods = Methods
  BY DEF Accepted
<1>2. ASSUME NEW d \in Decls, c.decls[d] # None
      PROVE  IsDecl(c.decls[d])
  <2> DEFINE decl == c.decls[d]
  <2>1. IsDeclaration(decl) /\ ProtocAccepts(d, decl)
    BY <1>2 DEF Accepted
  <2> HIDE DEF decl
  <2>2. decl.ranges \subseteq Ranges
    BY <2>1 DEF IsDeclaration
  <2>3. ASSUME NEW n \in DOMAIN decl.fields, n \in Reserved(decl.ranges)
        PROVE  FALSE
    <3>1. PICK r \in decl.ranges : r.start <= n /\ n < r.end
      BY <2>3 DEF Reserved
    <3>2. n \in 0 .. MaxNumber /\ r.start \in Int /\ r.end \in Int
      BY <2>2, <2>3, SMTT(30) DEF Reserved, Ranges
    <3>3. n \in r.start .. r.end + 0 - 1 /\ n \in r.start .. r.end + 1 - 1
      BY <3>1, <3>2, SMTT(30)
    <3>4. QED
      BY <2>1, <3>3 DEF ProtocAccepts
  <2>4. \A n \in DOMAIN decl.fields : decl.fields[n].name \notin decl.names
    BY <2>1 DEF ProtocAccepts
  <2>5. IsDecl(decl)
    BY <2>1, <2>3, <2>4 DEF IsDecl
  <2>6. QED
    BY <2>5 DEF decl
<1>3. QED
  BY <1>1, <1>2 DEF IsSchema

\* A lock made of one is a well formed schema.
LEMMA LockSchema ==
  ASSUME NEW l, LockMade(l)
  PROVE  IsSchema(l)
<1> USE Zenon
<1>1. DOMAIN l.methods = Methods
  BY DEF LockMade, Locks
<1>2. \A d \in Decls : l.decls[d] # None => IsDecl(l.decls[d])
  BY DEF LockMade, Locked, IsDecl
<1>3. QED
  BY <1>1, <1>2 DEF IsSchema

\* Type correctness, for any contract: no file ever holds an ill formed
\* declaration or one that uses what it reserves.
THEOREM SchemaTypeCorrect == Spec => []TypeOK
<1>1. SInv => TypeOK
  <2> USE Zenon
  <2> SUFFICES ASSUME SInv
               PROVE  TypeOK
    OBVIOUS
  <2>1. Files /\ LockFile
    BY DEF SInv
  <2>2. \A sort \in DOMAIN left : left[sort] \in Nat
    BY <2>1 DEF Files
  <2>3. descriptor # None => IsSchema(descriptor)
    BY <2>1, AcceptedSchema DEF Files
  <2>4. built # None => IsSchema(built)
    BY <2>1, AcceptedSchema DEF Files
  <2>5. lock # None => IsSchema(lock)
    BY <2>1, LockSchema DEF LockFile
  <2>6. PromisesTyped(promised)
    BY <2>1 DEF LockFile
  <2>7. QED
    BY <2>2, <2>3, <2>4, <2>5, <2>6 DEF TypeOK, PromisesTyped
<1>2. QED
  BY <1>1, SchemaInvariant, PTL

\* The lock never forgets, however long the history is.
THEOREM LockNeverForgets == Spec => []LockRemembers
<1>1. SInv => LockRemembers
  BY Zenon DEF SInv, LockFile, LockRemembers
<1>2. QED
  BY <1>1, SchemaInvariant, PTL

\* A number or a name that a checked lock has given out is never given to
\* another member by a contract that check_lock accepts.
THEOREM NumbersNeverReused == Spec => []NeverReused
<1> USE Zenon
<1>1. ASSUME SInv, descriptor # None, CheckLock(descriptor)
      PROVE  /\ \A p \in promised.bound :
                  LET fields == descriptor.decls[p[1]].fields
                  IN  \A n \in DOMAIN fields :
                        n = p[2] \/ fields[n].name = p[3].name => n = p[2] /\ fields[n] = p[3]
             /\ \A p \in promised.numbers : p[2] \notin DOMAIN descriptor.decls[p[1]].fields
             /\ \A p \in promised.names :
                  LET fields == descriptor.decls[p[1]].fields
                  IN  \A n \in DOMAIN fields : fields[n].name # p[2]
  <2> DEFINE new == Snapshot(descriptor)
  <2>1. Accepted(descriptor) /\ LockMade(lock) /\ Keeps(lock, promised) /\ PromisesTyped(promised)
    BY <1>1 DEF SInv, Files, LockFile, CheckLock
  <2>2. LockMade(new)
    BY <2>1, SnapshotMade
  <2>3. Compatible(lock, new)
    BY <1>1 DEF CheckLock
  <2>4. Keeps(new, promised)
    <3> HIDE DEF new
    <3>1. QED
      BY <2>1, <2>2, <2>3, KeepsOn
  <2>5. ASSUME NEW d \in Decls, new.decls[d] # None
        PROVE  Locked(d, new.decls[d]) /\ new.decls[d].fields = descriptor.decls[d].fields
    <3>1. descriptor.decls[d] # None /\ new.decls[d] = SnapshotOf(d, descriptor.decls[d])
      BY <2>5, SnapshotIs
    <3>2. IsDeclaration(descriptor.decls[d]) /\ ProtocAccepts(d, descriptor.decls[d])
      BY <2>1, <3>1 DEF Accepted
    <3>3. QED
      BY <3>1, <3>2, SnapshotLocked, SMTT(30)
  <2> HIDE DEF new
  <2>6. ASSUME NEW p \in promised.bound, NEW n \in DOMAIN descriptor.decls[p[1]].fields,
               n = p[2] \/ descriptor.decls[p[1]].fields[n].name = p[3].name
        PROVE  n = p[2] /\ descriptor.decls[p[1]].fields[n] = p[3]
    <3> DEFINE decl == new.decls[p[1]]
    <3>1. p[1] \in Decls
      BY <2>1 DEF PromisesTyped
    <3>2. /\ decl # None
          /\ IF p[2] \in DOMAIN decl.fields THEN decl.fields[p[2]] = p[3]
             ELSE IsReserved(p[2], p[3].name, decl.ranges, decl.names)
      BY <2>4 DEF Keeps
    <3>3. Locked(p[1], decl) /\ decl.fields = descriptor.decls[p[1]].fields
      BY <2>5, <3>1, <3>2
    <3> HIDE DEF decl
    <3>4. n \in DOMAIN decl.fields /\ (n = p[2] \/ decl.fields[n].name = p[3].name)
      BY <2>6, <3>3
    <3>5. n = p[2] /\ decl.fields[n] = p[3]
      BY <3>2, <3>3, <3>4 DEF Locked, IsReserved
    <3>6. QED
      BY <3>3, <3>5
  <2>7. ASSUME NEW p \in promised.numbers
        PROVE  p[2] \notin DOMAIN descriptor.decls[p[1]].fields
    <3>1. p[1] \in Decls /\ new.decls[p[1]] # None /\ p[2] \in Reserved(new.decls[p[1]].ranges)
      BY <2>1, <2>4 DEF PromisesTyped, Keeps
    <3>2. QED
      BY <2>5, <3>1 DEF Locked
  <2>8. ASSUME NEW p \in promised.names, NEW n \in DOMAIN descriptor.decls[p[1]].fields
        PROVE  descriptor.decls[p[1]].fields[n].name # p[2]
    <3>1. p[1] \in Decls /\ new.decls[p[1]] # None /\ p[2] \in new.decls[p[1]].names
      BY <2>1, <2>4 DEF PromisesTyped, Keeps
    <3>2. QED
      BY <2>5, <3>1, SMTT(30) DEF Locked
  <2>9. QED
    BY <2>6, <2>7, <2>8
<1>2. SInv => NeverReused
  BY <1>1 DEF NeverReused
<1>3. QED
  BY <1>2, SchemaInvariant, PTL

\* range_is_covered decides exactly what it is asked in every comparison a
\* build can make.
THEOREM CoverExact == Spec => []CoverIsExact
<1>1. SInv => CoverIsExact
  <2> USE Zenon
  <2> SUFFICES ASSUME SInv, descriptor # None, lock # None, NEW d \in Decls,
                      descriptor.decls[d] # None, lock.decls[d] # None
               PROVE  LET new == Snapshot(descriptor).decls[d].ranges
                      IN  \A r \in lock.decls[d].ranges \cup new,
                             available \in {lock.decls[d].ranges, new} :
                            RangeIsCovered(r, available)
                              <=> (r.start .. r.end - 1) \subseteq Reserved(available)
    BY DEF CoverIsExact
  <2> DEFINE new == Snapshot(descriptor).decls[d]
  <2>1. Accepted(descriptor) /\ LockMade(lock)
    BY DEF SInv, Files, LockFile
  <2>2. Locked(d, lock.decls[d])
    BY <2>1 DEF LockMade
  <2>3. new = SnapshotOf(d, descriptor.decls[d])
    BY SnapshotIs
  <2>4. Locked(d, SnapshotOf(d, descriptor.decls[d]))
    BY <2>1, SnapshotLocked DEF Accepted
  <2>5. new.ranges \subseteq Ranges /\ lock.decls[d].ranges \subseteq Ranges
    BY <2>2, <2>3, <2>4 DEF Locked, IsDeclaration
  <2> HIDE DEF new
  <2>6. ASSUME NEW r \in lock.decls[d].ranges \cup new.ranges,
               NEW available \in {lock.decls[d].ranges, new.ranges}
        PROVE  RangeIsCovered(r, available)
                 <=> (r.start .. r.end - 1) \subseteq Reserved(available)
    <3>1. r \in Ranges /\ available \in SUBSET Ranges
      BY <2>5
    <3>2. PICK own : Locked(d, own) /\ r \in own.ranges
      BY <2>2, <2>3, <2>4
    <3>3. PICK other : Locked(d, other) /\ available = other.ranges
      BY <2>2, <2>3, <2>4
    <3>4. r.start < r.end \/ \A q \in available : q.end <= r.start
      BY <3>2, <3>3, RangesInOrder
    <3>5. QED
      BY <3>1, <3>4, WalkIsExact
  <2>7. QED
    BY <2>6 DEF new
<1>2. QED
  BY <1>1, SchemaInvariant, PTL

\* A server started from generated code serves exactly its contract, or
\* panics over a handler of the application or scopes nobody enforces.
THEOREM RouterExact == Spec => []RouterServesContract
<1>1. SInv => RouterServesContract
  BY Zenon DEF SInv
<1>2. QED
  BY <1>1, SchemaInvariant, PTL

-----------------------------------------------------------------------------
(* Additive edits                                                          *)

\* What the numbers are good for: a locked member keeps its number, a new one
\* has a number of its own that nobody used before.
GoodNumbers(number, members, old, first) ==
  /\ \A i \in 1 .. Len(members), n \in DOMAIN old.fields :
       old.fields[n].name = members[i].name => number[i] = n
  /\ \A i \in 1 .. Len(members) :
       /\ number[i] \in DOMAIN old.fields => old.fields[number[i]].name = members[i].name
       /\ number[i] \notin DOMAIN old.fields =>
            number[i] \notin ProtobufInternal /\ number[i] >= first
       /\ number[i] \notin Reserved(old.ranges)
  /\ \A i, j \in 1 .. Len(members) : number[i] = number[j] => i = j

\* The numbers Numbering gives within the range are good ones.
LEMMA NumbersAreGood ==
  ASSUME NEW d, NEW old, Locked(d, old), NEW members \in Lists(d, Names), NEW first \in {0, 1},
         NEW number, IsNumbering(number, members, old, first),
         \A i \in 1 .. Len(members) : number[i] <= MaxNumber
  PROVE  GoodNumbers(number, members, old, first)
<1> USE Zenon
<1> DEFINE I == 1 .. Len(members)
           L(i) == LockedNumbers(old, members[i].name)
           before(i) == {number[j] : j \in 1 .. i - 1}
<1>1. Len(members) \in Nat /\ \A i, j \in I : members[i].name = members[j].name => i = j
  BY SMTT(30) DEF Lists
<1>2. \A n \in DOMAIN old.fields : n \in 0 .. MaxNumber
  BY DEF Locked, IsDeclaration
<1>3. ASSUME NEW i \in I, NEW n \in DOMAIN old.fields, old.fields[n].name = members[i].name
      PROVE  number[i] = n
  <2>1. L(i) = {n}
    BY <1>3 DEF LockedNumbers, Locked
  <2>2. {n} \in SUBSET Nat /\ {n} # {}
    BY <1>2, SchemaAssumption, SMTT(30)
  <2>3. Min({n}) = n
    BY <2>2, MinIs
  <2>4. QED
    BY <2>1, <2>3 DEF IsNumbering, NumberOf
<1>4. ASSUME NEW i \in I, \A n \in DOMAIN old.fields : old.fields[n].name # members[i].name
      PROVE  /\ number[i] \notin Taken(old) /\ number[i] \notin ProtobufInternal
             /\ number[i] >= first /\ number[i] \notin before(i)
  <2>1. L(i) = {}
    BY <1>4 DEF LockedNumbers
  <2>2. number[i] = NextNumber(first, Taken(old) \cup before(i))
    BY <2>1 DEF IsNumbering, NumberOf
  <2> DEFINE used == Taken(old) \cup before(i)
  <2>3. number[i] <= MaxNumber
    OBVIOUS
  <2> HIDE DEF used
  <2>4. number[i] \notin used /\ number[i] \notin ProtobufInternal /\ number[i] >= first
    BY <2>2, <2>3, NextNumberIs DEF used
  <2>5. QED
    BY <2>4 DEF used
<1>5. ASSUME NEW i \in I, number[i] \in DOMAIN old.fields
      PROVE  old.fields[number[i]].name = members[i].name
  BY <1>3, <1>4, <1>5 DEF Taken
<1>6. ASSUME NEW i \in I, number[i] \notin DOMAIN old.fields
      PROVE  number[i] \notin ProtobufInternal /\ number[i] >= first
  BY <1>3, <1>4, <1>6
<1>7. ASSUME NEW i \in I
      PROVE  number[i] \notin Reserved(old.ranges)
  <2>1. CASE number[i] \in DOMAIN old.fields
    BY <2>1 DEF Locked
  <2>2. CASE number[i] \notin DOMAIN old.fields
    <3>1. \A n \in DOMAIN old.fields : old.fields[n].name # members[i].name
      BY <1>3, <2>2
    <3>2. QED
      BY <1>4, <3>1 DEF Taken
  <2>3. QED
    BY <2>1, <2>2
<1>8. ASSUME NEW i \in I, NEW j \in I, number[i] = number[j], i < j
      PROVE  FALSE
  <2>1. CASE number[j] \in DOMAIN old.fields
    BY <1>1, <1>5, <1>8, <2>1, SMTT(30)
  <2>2. CASE number[j] \notin DOMAIN old.fields
    <3>1. \A n \in DOMAIN old.fields : old.fields[n].name # members[j].name
      BY <1>3, <2>2
    <3>2. i \in 1 .. j - 1
      BY <1>1, <1>8, SMTT(30)
    <3>3. number[i] \in before(j)
      BY <3>2
    <3>4. QED
      BY <1>4, <1>8, <3>1, <3>3
  <2>3. QED
    BY <2>1, <2>2
<1>9. ASSUME NEW i \in I, NEW j \in I, number[i] = number[j]
      PROVE  i = j
  <2>1. i < j \/ j < i \/ i = j
    BY <1>1, SMTT(30)
  <2>2. QED
    BY <1>8, <1>9, <2>1
<1>10. QED
  BY <1>3, <1>5, <1>6, <1>7, <1>9 DEF GoodNumbers

\* A locked member that is still declared keeps its type and its place among
\* the Option members, and no removed name comes back.
Benign(members, old) ==
  \A i \in 1 .. Len(members) :
    /\ members[i].name \notin old.names
    /\ \A n \in DOMAIN old.fields :
         old.fields[n].name = members[i].name =>
           /\ old.fields[n].type = ProtoType(members[i].type)
           /\ old.fields[n].oneof = OneofIndex(members, i)

\* The numbers that are written as reserved.
Kept(members, old) == Removed(members, old) \cup Reserved(old.ranges)

\* The members are where their numbers say, and away from what is reserved.
LEMMA WrittenApart ==
  ASSUME NEW d, NEW old, Locked(d, old), NEW members \in Lists(d, Names), NEW first \in {0, 1},
         NEW number, GoodNumbers(number, members, old, first),
         NEW w, NEW past, IsWritten(w, number, members, old, past), Benign(members, old)
  PROVE  /\ \A i \in 1 .. Len(members) :
              number[i] \in DOMAIN w.fields /\ w.fields[number[i]] = Member(members, i)
         /\ \A n \in DOMAIN w.fields :
              /\ n \notin Kept(members, old) /\ w.fields[n].name \notin w.names
              /\ \A o \in DOMAIN w.fields : w.fields[o].name = w.fields[n].name => o = n
         /\ \A n \in DOMAIN old.fields :
              IF n \in DOMAIN w.fields THEN w.fields[n] = old.fields[n]
              ELSE n \in Removed(members, old) /\ old.fields[n].name \in w.names
<1> USE Zenon
<1> DEFINE I == 1 .. Len(members)
<1>1. DOMAIN w.fields = {number[i] : i \in I}
  BY DEF IsWritten
<1>2. ASSUME NEW i \in I
      PROVE  number[i] \in DOMAIN w.fields /\ w.fields[number[i]] = Member(members, i)
  <2>1. number[i] \in DOMAIN w.fields
    BY <1>1
  <2>2. PICK k \in I : number[k] = number[i] /\ w.fields[number[i]] = Member(members, k)
    BY <2>1 DEF IsWritten
  <2>3. k = i
    BY <2>2 DEF GoodNumbers
  <2>4. QED
    BY <2>1, <2>2, <2>3
<1>3. \A i \in I : Member(members, i).name = members[i].name
  BY DEF Member
<1>4. \A i, j \in I : members[i].name = members[j].name => i = j
  BY SMTT(30) DEF Lists
<1>5. w.names = old.names \cup {old.fields[n].name : n \in Removed(members, old)}
  BY DEF IsWritten
<1>6. ASSUME NEW i \in I
      PROVE  /\ number[i] \notin Kept(members, old)
             /\ members[i].name \notin w.names
  <2>1. number[i] \notin Removed(members, old)
    BY DEF Removed, GoodNumbers
  <2>2. number[i] \notin Reserved(old.ranges)
    BY DEF GoodNumbers
  <2>3. members[i].name \notin old.names
    BY DEF Benign
  <2>4. members[i].name \notin {old.fields[n].name : n \in Removed(members, old)}
    BY DEF Removed
  <2>5. QED
    BY <1>5, <2>1, <2>2, <2>3, <2>4 DEF Kept
<1>7. ASSUME NEW n \in DOMAIN w.fields
      PROVE  /\ n \notin Kept(members, old) /\ w.fields[n].name \notin w.names
             /\ \A o \in DOMAIN w.fields : w.fields[o].name = w.fields[n].name => o = n
  <2>1. PICK i \in I : n = number[i]
    BY <1>1
  <2>2. w.fields[n].name = members[i].name
    BY <1>2, <1>3, <2>1
  <2>3. n \notin Kept(members, old) /\ w.fields[n].name \notin w.names
    BY <1>6, <2>1, <2>2
  <2>4. ASSUME NEW o \in DOMAIN w.fields, w.fields[o].name = w.fields[n].name
        PROVE  o = n
    <3>1. PICK j \in I : o = number[j]
      BY <1>1
    <3>2. w.fields[o].name = members[j].name
      BY <1>2, <1>3, <3>1
    <3>3. i = j
      BY <1>4, <2>2, <2>4, <3>2
    <3>4. QED
      BY <2>1, <3>1, <3>3
  <2>5. QED
    BY <2>3, <2>4
<1>8. ASSUME NEW n \in DOMAIN old.fields
      PROVE  IF n \in DOMAIN w.fields THEN w.fields[n] = old.fields[n]
             ELSE n \in Removed(members, old) /\ old.fields[n].name \in w.names
  <2>1. CASE n \in Removed(members, old)
    <3>1. n \notin DOMAIN w.fields
      BY <1>7, <2>1 DEF Kept
    <3>2. QED
      BY <1>5, <2>1, <3>1
  <2>2. CASE n \notin Removed(members, old)
    <3>1. PICK i \in I : members[i].name = old.fields[n].name
      BY <2>2 DEF Removed
    <3>2. number[i] = n
      BY <3>1 DEF GoodNumbers
    <3>3. n \in DOMAIN w.fields /\ w.fields[n] = Member(members, i)
      BY <1>2, <3>2
    <3>4. /\ old.fields[n].type = ProtoType(members[i].type)
          /\ old.fields[n].oneof = OneofIndex(members, i)
      BY <3>1 DEF Benign
    <3>5. old.fields[n] \in Fields
      BY DEF Locked, IsDeclaration
    <3>6. old.fields[n] = [name |-> old.fields[n].name, type |-> old.fields[n].type,
                          oneof |-> old.fields[n].oneof]
      BY <3>5 DEF Fields
    <3>7. old.fields[n] = Member(members, i)
      BY <3>1, <3>4, <3>6 DEF Member
    <3>8. QED
      BY <3>3, <3>7
  <2>3. QED
    BY <2>1, <2>2
<1>9. QED
  BY <1>2, <1>7, <1>8

\* What is written and snapshotted reserves number by number.
Singles(K) == {[start |-> n, end |-> n + 1] : n \in K}

\* Ranges of one number each reserve those numbers.
LEMMA SinglesReserve ==
  ASSUME NEW K \in SUBSET (0 .. MaxNumber)
  PROVE  Singles(K) \in SUBSET Ranges /\ K \subseteq Reserved(Singles(K))
<1> USE Zenon
<1>1. MaxNumber \in Nat
  BY SchemaAssumption
<1>2. ASSUME NEW n \in K
      PROVE  [start |-> n, end |-> n + 1] \in Ranges
  BY <1>1, SMTT(30) DEF Ranges
<1>3. ASSUME NEW n \in K
      PROVE  n \in Reserved(Singles(K))
  <2>1. n \in 0 .. MaxNumber /\ n \in Int
    BY <1>1, SMTT(30)
  <2> DEFINE r == [start |-> n, end |-> n + 1]
  <2>2. r \in Singles(K)
    BY DEF Singles
  <2>3. r.start <= n /\ n < r.end
    BY <2>1, SMTT(30)
  <2>4. QED
    BY <2>1, <2>2, <2>3 DEF Reserved
<1>4. QED
  BY <1>2, <1>3 DEF Singles

\* A declaration written number by number passes the check of its lock.
LEMMA SinglesCompatible ==
  ASSUME NEW d, NEW old, Locked(d, old), NEW members,
         NEW s, s.ranges = Singles(Kept(members, old)), old.names \subseteq s.names,
         Kept(members, old) \subseteq 0 .. MaxNumber,
         d \in Enums => \A q \in s.ranges : q.end <= MaxNumber,
         \A n \in DOMAIN old.fields :
           IF n \in DOMAIN s.fields THEN s.fields[n] = old.fields[n]
           ELSE n \in Removed(members, old) /\ old.fields[n].name \in s.names
  PROVE  CompatibleDecl(old, s)
<1> USE Zenon
<1> DEFINE K == Kept(members, old)
<1>1. s.ranges \in SUBSET Ranges /\ K \subseteq Reserved(s.ranges)
  <2> HIDE DEF K
  <2>1. K \in SUBSET (0 .. MaxNumber) /\ s.ranges = Singles(K)
    BY DEF K
  <2>2. QED
    BY <2>1, SinglesReserve
<1>2. old.ranges \subseteq Ranges
  BY DEF Locked, IsDeclaration
<1>3. ASSUME NEW r \in old.ranges
      PROVE  RangeIsCovered(r, s.ranges)
  <2>1. r \in Ranges
    BY <1>2
  <2>2. ASSUME NEW k \in r.start .. r.end - 1
        PROVE  k \in Reserved(s.ranges)
    <3>1. k \in 0 .. MaxNumber /\ r.start <= k /\ k < r.end
      BY <2>1, SchemaAssumption, SMTT(30) DEF Ranges
    <3>2. k \in Reserved(old.ranges)
      BY <3>1 DEF Reserved
    <3>3. QED
      BY <1>1, <3>2 DEF Kept
  <2>3. (r.start .. r.end - 1) \subseteq Reserved(s.ranges)
    BY <2>2
  <2>4. r.start < r.end \/ \A q \in s.ranges : q.end <= r.start
    BY DEF Locked
  <2>5. QED
    BY <1>1, <2>1, <2>3, <2>4, WalkIsExact
<1>4. ASSUME NEW n \in DOMAIN old.fields
      PROVE  IF n \in DOMAIN s.fields THEN s.fields[n] = old.fields[n]
             ELSE IsReserved(n, old.fields[n].name, s.ranges, s.names)
  <2>1. CASE n \in DOMAIN s.fields
    BY <2>1
  <2>2. CASE n \notin DOMAIN s.fields
    <3>1. n \in Removed(members, old) /\ old.fields[n].name \in s.names
      BY <2>2
    <3>2. n \in Reserved(s.ranges)
      BY <1>1, <3>1 DEF Kept
    <3>3. QED
      BY <2>2, <3>1, <3>2 DEF Reserved, IsReserved
  <2>3. QED
    BY <2>1, <2>2
<1>5. QED
  BY <1>3, <1>4 DEF CompatibleDecl, PreservedReservations

\* The ranges of what is written: each holds one number, and the snapshot
\* makes it a half open one.
LEMMA WrittenRanges ==
  ASSUME NEW d \in Decls, NEW w, IsDeclaration(w), NEW K \in SUBSET (0 .. MaxNumber),
         w.ranges = {[start |-> n, end |-> n + IF d \in Enums THEN 0 ELSE 1] : n \in K},
         d \in Enums => \A n \in K : n < MaxNumber
  PROVE  /\ \A r \in w.ranges : r.start \in K /\ r.end = r.start + IF d \in Enums THEN 0 ELSE 1
         /\ \A r, q \in w.ranges : r.start = q.start => r = q
         /\ SnapshotOf(d, w).ranges = Singles(K)
<1> USE Zenon
<1>1. MaxNumber \in Nat /\ \A n \in K : n \in Int
  BY SchemaAssumption, SMTT(30)
<1>2. \A r \in w.ranges : r.start \in K /\ r.end = r.start + IF d \in Enums THEN 0 ELSE 1
  BY SMTT(30)
<1>3. \A r, q \in w.ranges : r.start = q.start => r = q
  BY SMTT(30)
<1>4. CASE d \notin Enums
  <2>1. SnapshotOf(d, w).ranges = w.ranges
    BY <1>4 DEF SnapshotOf, SnapshotMessage
  <2>2. w.ranges = Singles(K)
    BY <1>4 DEF Singles
  <2>3. QED
    BY <1>2, <1>3, <2>1, <2>2
<1>5. CASE d \in Enums
  <2> DEFINE moved(r) == [start |-> r.start,
                          end   |-> IF r.end < MaxNumber THEN r.end + 1 ELSE MaxNumber]
  <2>1. SnapshotOf(d, w).ranges = {moved(r) : r \in w.ranges}
    BY <1>5, SnapshotEnumIs DEF SnapshotOf
  <2>2. w.ranges = {[start |-> n, end |-> n] : n \in K}
    BY <1>1, <1>5, SMTT(30)
  <2>3. ASSUME NEW n \in K
        PROVE  moved([start |-> n, end |-> n]) = [start |-> n, end |-> n + 1]
    BY <1>1, <1>5
  <2> HIDE DEF moved
  <2>4. {moved(r) : r \in w.ranges} = Singles(K)
    <3>1. ASSUME NEW r \in w.ranges
          PROVE  moved(r) \in Singles(K)
      BY <2>2, <2>3 DEF Singles
    <3>2. ASSUME NEW n \in K
          PROVE  \E r \in w.ranges : [start |-> n, end |-> n + 1] = moved(r)
      BY <2>2, <2>3
    <3>3. ASSUME NEW x \in Singles(K)
          PROVE  x \in {moved(r) : r \in w.ranges}
      BY <3>2 DEF Singles
    <3>4. QED
      BY <3>1, <3>3
  <2>5. QED
    BY <1>2, <1>3, <2>1, <2>4 DEF moved
<1>6. QED
  BY <1>4, <1>5

\* The whole of it for one item of the contract.
LEMMA AdditivePasses ==
  ASSUME NEW d \in Decls, NEW old, Locked(d, old), NEW members \in Lists(d, Names),
         NEW first, first = (IF d \in Enums THEN 0 ELSE 1),
         NEW number, IsNumbering(number, members, old, first),
         NEW w, IsWritten(w, number, members, old, first), Benign(members, old),
         d \in Enums => \E i \in 1 .. Len(members) : members[i].name = old.fields[0].name,
         NEW last, last = (IF d \in Enums THEN MaxNumber - 1 ELSE MaxNumber),
         DOMAIN old.fields \subseteq 0 .. last, DOMAIN w.fields \subseteq 0 .. last
  PROVE  ProtocAccepts(d, w) /\ CompatibleDecl(old, SnapshotOf(d, w))
<1> USE Zenon
<1> DEFINE I == 1 .. Len(members)
           K == Kept(members, old)
<1>1. MaxNumber \in Nat /\ last <= MaxNumber /\ last \in Int /\ first \in {0, 1}
  BY SchemaAssumption, SMTT(30)
<1>2. DOMAIN w.fields = {number[i] : i \in I} /\ DOMAIN w.fields \subseteq 0 .. MaxNumber
  BY <1>1, SMTT(30) DEF IsWritten
<1>3. GoodNumbers(number, members, old, first)
  <2>1. \A i \in I : number[i] <= MaxNumber
    BY <1>1, <1>2, SMTT(30)
  <2>2. QED
    BY <1>1, <2>1, NumbersAreGood
<1>4. /\ \A n \in DOMAIN w.fields :
           /\ n \notin K /\ w.fields[n].name \notin w.names
           /\ \A o \in DOMAIN w.fields : w.fields[o].name = w.fields[n].name => o = n
      /\ \A n \in DOMAIN old.fields :
           IF n \in DOMAIN w.fields THEN w.fields[n] = old.fields[n]
           ELSE n \in Removed(members, old) /\ old.fields[n].name \in w.names
  BY <1>1, <1>3, WrittenApart, SMTT(30)
<1>5. IsDeclaration(old) /\ IsDeclaration(w)
  <2>1. IsDeclaration(old)
    BY DEF Locked
  <2>2. QED
    BY <1>1, <1>2, <2>1, WrittenDeclares
<1>6. K \in SUBSET (0 .. MaxNumber) /\ (d \in Enums => \A n \in K : n < MaxNumber)
  <2>1. ASSUME NEW n \in Removed(members, old)
        PROVE  n \in 0 .. MaxNumber /\ (d \in Enums => n < MaxNumber)
    <3>1. n \in 0 .. last /\ (d \in Enums => last = MaxNumber - 1)
      BY DEF Removed
    <3>2. QED
      BY ONLY <1>1, <3>1
  <2>2. ASSUME NEW n \in Reserved(old.ranges)
        PROVE  n \in 0 .. MaxNumber /\ (d \in Enums => n < MaxNumber)
    <3>1. PICK r \in old.ranges : r.start <= n /\ n < r.end
      BY DEF Reserved
    <3>2. n \in 0 .. MaxNumber /\ r \in Ranges
      BY <1>5 DEF Reserved, IsDeclaration
    <3>3. d \in Enums => r.end <= MaxNumber
      BY DEF Locked
    <3>4. QED
      BY <1>1, <3>1, <3>2, <3>3, SMTT(30) DEF Ranges
  <2>3. QED
    BY <2>1, <2>2 DEF Kept
<1>7. /\ w.ranges = {[start |-> n, end |-> n + IF d \in Enums THEN 0 ELSE 1] : n \in K}
      /\ old.names \subseteq w.names
  BY SMTT(30) DEF IsWritten, Kept
<1>8. /\ \A r \in w.ranges : r.start \in K /\ r.end = r.start + IF d \in Enums THEN 0 ELSE 1
      /\ \A r, q \in w.ranges : r.start = q.start => r = q
      /\ SnapshotOf(d, w).ranges = Singles(K)
  <2> HIDE DEF K
  <2>1. QED
    BY <1>5, <1>6, <1>7, WrittenRanges
<1>9. ProtocAccepts(d, w)
  <2> DEFINE past == IF d \in Enums THEN 1 ELSE 0
             span(r) == r.start .. r.end + past - 1
  <2>1. ASSUME NEW r \in w.ranges
        PROVE  span(r) = {r.start} /\ r.start \in K
    <3>a. r.start \in K /\ r.end = r.start + IF d \in Enums THEN 0 ELSE 1
      BY <1>8
    <3>1. r.start \in K /\ r.start \in Int /\ r.end = r.start + IF d \in Enums THEN 0 ELSE 1
      <4> HIDE DEF K
      <4>1. \A n \in K : n \in Int
        BY ONLY <1>1, <1>6
      <4>2. QED
        BY <3>a, <4>1
    <3>2. r.end + past - 1 = r.start
      BY ONLY <3>1 DEF past
    <3>3. span(r) = r.start .. r.start
      BY ONLY <3>2, Zenon DEF span
    <3>4. r.start .. r.start = {r.start}
      BY ONLY <3>1
    <3>5. QED
      BY <3>1, <3>3, <3>4
  <2> HIDE DEF span
  <2>2. \A n \in DOMAIN w.fields :
          /\ \A r \in w.ranges : n \notin span(r)
          /\ w.fields[n].name \notin w.names
          /\ \A o \in DOMAIN w.fields : w.fields[o].name = w.fields[n].name => o = n
    <3> HIDE DEF K
    <3>1. \A r \in w.ranges : \A n : n \in span(r) => n \in K
      BY <2>1
    <3>2. QED
      BY <1>4, <3>1
  <2>3. \A r \in w.ranges : span(r) # {}
    BY <2>1
  <2>4. \A r, q \in w.ranges : r # q => span(r) \cap span(q) = {}
    BY <1>8, <2>1
  <2>5. IF d \in Enums THEN 0 \in DOMAIN w.fields
        ELSE DOMAIN w.fields \cap (ProtobufInternal \cup {0}) = {}
    <3>1. CASE d \in Enums
      <4>1. 0 \in DOMAIN old.fields
        BY <3>1 DEF Locked
      <4>2. PICK i \in I : members[i].name = old.fields[0].name
        BY <3>1
      <4>3. number[i] = 0
        BY <1>3, <4>1, <4>2 DEF GoodNumbers
      <4>4. QED
        BY <1>2, <3>1, <4>3
    <3>2. CASE d \notin Enums
      <4>1. ASSUME NEW i \in I
            PROVE  number[i] \notin ProtobufInternal \cup {0}
        <5>1. CASE number[i] \in DOMAIN old.fields
          BY <3>2, <5>1 DEF Locked
        <5>2. CASE number[i] \notin DOMAIN old.fields
          <6>1. number[i] \notin ProtobufInternal /\ number[i] >= first
            BY <1>3, <5>2 DEF GoodNumbers
          <6>2. number[i] >= 1
            BY ONLY <3>2, <6>1, first = (IF d \in Enums THEN 0 ELSE 1), Zenon
          <6>3. number[i] # 0
            BY ONLY <6>2
          <6>4. QED
            BY ONLY <6>1, <6>3, Zenon
        <5>3. QED
          BY <5>1, <5>2
      <4>2. QED
        BY <1>2, <3>2, <4>1
    <3>3. QED
      BY <3>1, <3>2
  <2>6. QED
    BY <1>2, <2>2, <2>3, <2>4, <2>5 DEF ProtocAccepts, span
<1>10. SnapshotOf(d, w).fields = w.fields /\ SnapshotOf(d, w).names = w.names
  BY <1>5, SnapshotEnumIs DEF SnapshotOf, SnapshotMessage
<1>11. CompatibleDecl(old, SnapshotOf(d, w))
  <2> DEFINE s == SnapshotOf(d, w)
  <2>1. s.ranges = Singles(Kept(members, old)) /\ old.names \subseteq s.names
    BY <1>7, <1>8, <1>10
  <2>2. \A n \in DOMAIN old.fields :
           IF n \in DOMAIN s.fields THEN s.fields[n] = old.fields[n]
           ELSE n \in Removed(members, old) /\ old.fields[n].name \in s.names
    BY <1>4, <1>10
  <2>3. Kept(members, old) \subseteq 0 .. MaxNumber
    BY <1>6
  <2>4. ASSUME d \in Enums, NEW q \in s.ranges
        PROVE  q.end <= MaxNumber
    <3>1. PICK n \in Kept(members, old) : q = [start |-> n, end |-> n + 1]
      BY <2>1 DEF Singles
    <3>2. n \in 0 .. MaxNumber /\ n < MaxNumber /\ q.end = n + 1
      BY <1>6, <2>4, <3>1
    <3>3. QED
      BY <1>1, <3>2, SMTT(30)
  <2> HIDE DEF s
  <2>5. QED
    BY <2>1, <2>2, <2>3, <2>4, SinglesCompatible DEF s
<1>12. QED
  BY <1>9, <1>11

\* Additive edits always pass, for every lock a history can have left.
THEOREM AdditivePass == Spec => []AdditiveEditsPass
<1>1. SInv => AdditiveEditsPass
  <2> USE Zenon
  <2> SUFFICES ASSUME SInv, NEW d \in CodeFirst, lock # None, source[d] # None,
                      lock.decls[d] # None, Generate(d) # Error,
                      Benign(Members(d), lock.decls[d]),
                      d \in Enums => \E i \in 1 .. Len(Members(d)) :
                                       Members(d)[i].name = lock.decls[d].fields[0].name,
                      DOMAIN lock.decls[d].fields \cup DOMAIN Generate(d).fields
                        \subseteq 0 .. (IF d \in Enums THEN MaxNumber - 1 ELSE MaxNumber)
               PROVE  /\ ProtocAccepts(d, Generate(d))
                      /\ CompatibleDecl(lock.decls[d], IF d \in Enums THEN SnapshotEnum(Generate(d))
                                                       ELSE SnapshotMessage(Generate(d)))
    BY DEF AdditiveEditsPass, Benign
  <2> DEFINE old == lock.decls[d]
             first == IF d \in Enums THEN 0 ELSE 1
             last == IF d \in Enums THEN MaxNumber - 1 ELSE MaxNumber
             number == Numbering(Members(d), old, first)
  <2>1. Files /\ LockFile
    BY DEF SInv
  <2>2. Previous(LockedFor(d)) = old
    BY DEF Previous, LockedFor
  <2>3. /\ d \in Decls /\ Members(d) \in Lists(d, Names)
        /\ IsWritten(Generate(d), number, Members(d), old, first)
    BY <2>1, <2>2, GenerateIs
  <2>4. Locked(d, old)
    BY <2>1, <2>3 DEF LockFile, LockMade
  <2>5. IsDeclaration(old) /\ Len(Members(d)) \in Nat /\ first \in {0, 1}
    <3>1. IsDeclaration(old)
      <4> HIDE DEF old
      <4>1. QED
        BY ONLY <2>4, Zenon DEF Locked
    <3>2. Len(Members(d)) \in Nat
      BY ONLY <2>3 DEF Lists
    <3>3. first \in {0, 1}
      BY ONLY TRUE, Zenon DEF first
    <3>4. QED
      BY <3>1, <3>2, <3>3
  <2>6. IsNumbering(number, Members(d), old, first)
    <3> HIDE DEF first, old
    <3>1. QED
      BY <2>5, NumberingIs
  <2>7. ProtocAccepts(d, Generate(d)) /\ CompatibleDecl(old, SnapshotOf(d, Generate(d)))
    <3>1. DOMAIN old.fields \subseteq 0 .. last /\ DOMAIN Generate(d).fields \subseteq 0 .. last
      OBVIOUS
    <3>2. first = (IF d \in Enums THEN 0 ELSE 1) /\ last = (IF d \in Enums THEN MaxNumber - 1 ELSE MaxNumber)
      OBVIOUS
    <3>3. /\ Benign(Members(d), old)
          /\ d \in Enums => \E i \in 1 .. Len(Members(d)) : Members(d)[i].name = old.fields[0].name
      OBVIOUS
    <3> HIDE DEF first, last, old, number
    <3>4. QED
      BY <2>3, <2>4, <2>6, <3>1, <3>2, <3>3, AdditivePasses
  <2>8. QED
    BY <2>7 DEF SnapshotOf, SnapshotMessage
<1>2. QED
  BY <1>1, SchemaInvariant, PTL

=============================================================================
