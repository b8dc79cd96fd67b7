------------------------------ MODULE SchemaLock ------------------------------
(***************************************************************************)
(* The life of a contract: a team edits the Rust source and the hand       *)
(* written .proto files, cargo builds (compile_rust_source_api: generate   *)
(* Protobuf, protoc, check_lock, generate_rust), somebody runs             *)
(* moonlight-bridge-codegen lock --update, and a server starts with the    *)
(* generated registrations.  Every step reads and writes files, so a step  *)
(* works with whatever the earlier ones left behind: a build that fails in *)
(* protoc leaves the descriptor of an earlier build in place.              *)
(***************************************************************************)
EXTENDS ContractSource, RouterBuilder

CONSTANTS CodeFirst,    \* the declarations written in Rust
          EventDecls,   \* the messages whose name ends in Event
          WireId,       \* method_id of every method and event name
          FieldNames,   \* names of struct members
          Types,        \* Rust types of members
          Protos,       \* hand written declarations somebody may write
          Rpcs,         \* method declarations somebody may write
          RawRoutes,    \* what an application registers by hand: an id or None
          ValueType,    \* the type of every enum value
          Plans         \* the contract a history starts with, and how many
                        \* edits of each sort it has

VARIABLES source,      \* the declarations as the team wrote them
          methods,     \* the methods as the team wrote them
          descriptor,  \* moonlight-bridge-descriptor.pb, or None
          lock,        \* schema.lock, or None
          built,       \* what the last build generated code for, or None
          router,      \* the builder of the running server, or None
          promised,    \* what checked locks have recorded since the last override
          left         \* the edits the team will still make

\* Declarations as protoc reads them, and what a lock can hold.
FieldTypes ==
  {ProtoType(type) : type \in Types \cup {ValueType}}
    \cup UNION {{decl.fields[n].type : n \in DOMAIN decl.fields} : decl \in Protos \ {None}}
Names == FieldNames \cup {UpperSnake[v] : v \in DOMAIN UpperSnake}
Fields == [name : Names, type : FieldTypes, oneof : Nat \cup {None}]
Ranges == [start : 0 .. MaxNumber, end : 0 .. MaxNumber + 1]
IsDeclaration(decl) ==
  /\ decl = [fields |-> decl.fields, ranges |-> decl.ranges, names |-> decl.names]
  /\ decl.fields \in [DOMAIN decl.fields -> Fields]
  /\ DOMAIN decl.fields \subseteq 0 .. MaxNumber
  /\ decl.ranges \subseteq Ranges /\ decl.names \subseteq Names
Declarations ==
  [fields : UNION {[numbers -> Fields] : numbers \in SUBSET (0 .. MaxNumber)},
   ranges : SUBSET Ranges, names : SUBSET Names]
Locks ==
  [decls   : [Decls -> Declarations \cup {None}],
   methods : [Methods -> {SnapshotMethod(rpc) : rpc \in Rpcs \ {None}} \cup {None}]]

\* rustc refuses a struct or an enum with two members of one name.
MemberTypes(d) == IF d \in Enums THEN {ValueType} ELSE Types
MemberNames(d) == IF d \in Enums THEN DOMAIN UpperSnake ELSE FieldNames
Lists(d, names) ==
  {list \in Seq([name : names, type : MemberTypes(d)]) :
     \A i, j \in DOMAIN list : list[i].name = list[j].name => i = j}
Structs(d) == Lists(d, MemberNames(d))
IsSource(s) ==
  /\ s = [d \in Decls |-> s[d]]
  /\ \A d \in Decls : s[d] # None =>
       IF d \in CodeFirst THEN s[d] \in Structs(d) ELSE IsDeclaration(s[d])

ASSUME ContractAssumption ==
  /\ CodeFirst \subseteq Decls /\ EventDecls \subseteq Decls
  /\ \A decl \in Protos : decl # None => IsDeclaration(decl)
  /\ \A plan \in Plans : /\ IsSource(plan.source)
                         /\ plan.edits \in [{"members", "protos", "rpcs"} -> Nat]
  /\ None \notin Locks

ASSUME RouterAssumption ==
  /\ IsFiniteSet(Methods)
  /\ WireId \in [Methods \cup EventDecls -> Nat] /\ None \notin Nat
  /\ \A raw \in RawRoutes : raw.id \in Nat \cup {None} /\ raw.stream \in BOOLEAN
  /\ \A rpc \in Rpcs \ {None} : rpc.server_streaming \in BOOLEAN

vars == <<source, methods, descriptor, lock, built, router, promised, left>>

Nothing == [bound |-> {}, numbers |-> {}, names |-> {}]

Init ==
  /\ \E plan \in Plans : source = plan.source /\ left = plan.edits
  /\ methods = [m \in Methods |-> None]
  /\ descriptor = None /\ lock = None /\ built = None /\ router = None
  /\ promised = Nothing

-----------------------------------------------------------------------------
(* Editing the contract                                                    *)

Edited(sort) ==
  /\ left[sort] > 0
  /\ left' = [left EXCEPT ![sort] = @ - 1]
  /\ UNCHANGED <<descriptor, lock, built, router, promised>>

\* A struct or an enum of the Rust contract gets a member at any position
\* (rustc refuses two of one name), loses one, changes one or goes away.
AddMember(d, i, name, type) ==
  /\ \A j \in 1 .. Len(source[d]) : source[d][j].name # name
  /\ source' = [source EXCEPT ![d] =
       SubSeq(@, 1, i) \o <<[name |-> name, type |-> type]>>
                       \o SubSeq(@, i + 1, Len(@))]
  /\ Edited("members") /\ UNCHANGED methods

RemoveMember(d, i) ==
  /\ source' = [source EXCEPT ![d] = SubSeq(@, 1, i - 1) \o SubSeq(@, i + 1, Len(@))]
  /\ Edited("members") /\ UNCHANGED methods

ChangeType(d, i, type) ==
  /\ source[d][i].type # type
  /\ source' = [source EXCEPT ![d][i].type = type]
  /\ Edited("members") /\ UNCHANGED methods

RemoveDecl(d) ==
  /\ source' = [source EXCEPT ![d] = None]
  /\ Edited("members") /\ UNCHANGED methods

WriteProto(d, decl) ==
  /\ source[d] # decl
  /\ source' = [source EXCEPT ![d] = decl]
  /\ Edited("protos") /\ UNCHANGED methods

WriteMethod(m, method) ==
  /\ methods[m] # method
  /\ methods' = [methods EXCEPT ![m] = method]
  /\ Edited("rpcs") /\ UNCHANGED source

-----------------------------------------------------------------------------
(* Building                                                                *)

\* What protoc insists on in one declaration.  (Names that differ
\* in case or underscores only, some of which it refuses, are taken to be apart.)
ProtocAccepts(d, decl) ==
  LET past   == IF d \in Enums THEN 1 ELSE 0
      span(r) == r.start .. r.end + past - 1
  IN  /\ DOMAIN decl.fields \subseteq 0 .. MaxNumber
      /\ \A n \in DOMAIN decl.fields :
           /\ \A r \in decl.ranges : n \notin span(r)
           /\ decl.fields[n].name \notin decl.names
           /\ \A o \in DOMAIN decl.fields :
                decl.fields[o].name = decl.fields[n].name => o = n
      /\ \A r \in decl.ranges : span(r) # {}
      /\ \A r, q \in decl.ranges : r # q => span(r) \cap span(q) = {}
      /\ IF d \in Enums THEN 0 \in DOMAIN decl.fields
         ELSE DOMAIN decl.fields \cap (ProtobufInternal \cup {0}) = {}

\* protoc: the values of an enum are siblings of it, so that two enums of the
\* package of the Rust contract have no value name in common.
Protoc(contract) ==
  LET here       == {d \in Decls : contract.decls[d] # None}
      members(d) == {contract.decls[d].fields[n].name : n \in DOMAIN contract.decls[d].fields}
  IN  /\ \A d \in here : ProtocAccepts(d, contract.decls[d])
      /\ \A d, e \in here \cap Enums \cap CodeFirst :
           d # e => members(d) \cap members(e) = {}

\* generate_proto_from_rust_source, and the additional_protos beside it
Generate(d) ==
  LET locked == IF lock = None THEN None ELSE lock.decls[d]
  IN  IF source[d] = None \/ d \notin CodeFirst THEN source[d]
      ELSE IF d \in Enums THEN GenerateEnum(source[d], locked)
      ELSE GenerateMessage(source[d], locked)

Contract ==
  [decls   |-> [d \in Decls |-> Generate(d)],
   methods |-> [m \in Methods |-> IF methods[m] = None THEN None
                                  ELSE GenerateMethod(methods[m])]]

\* policies_from_pool, which both check_lock and write_lock start with
Policies(contract) ==
  \A m \in Methods : contract.methods[m] # None => ValidPolicy(contract.methods[m])

\* check_lock
CheckLock(contract) ==
  /\ Policies(contract)
  /\ lock # None
  /\ Compatible(lock, Snapshot(contract))

\* Mutant: the set of ids starts again with every file, so that only events
\* are compared with each other.
ValidateMethodIds_PerFile(contract) ==
  \A x, y \in {d \in EventDecls : contract.decls[d] # None} :
    WireId[x] # 0 /\ (WireId[x] = WireId[y] => x = y)

\* validate_method_ids: every method and every event has an id of its own.
ValidateMethodIds(contract) ==
  LET named  == {m \in Methods : contract.methods[m] # None}
      events == {d \in EventDecls : contract.decls[d] # None}
  IN  /\ \A x, y \in named \cup events : WireId[x] = WireId[y] => x = y
      /\ \A e \in events : WireId[e] # 0

\* generate_rust
GenerateRust(contract) ==
  /\ ValidateMethodIds(contract)
  /\ \A m \in Methods : contract.methods[m] # None =>
       ~contract.methods[m].client_streaming

\* compile_rust_source_api / compile_rust_api
Build ==
  /\ LET contract == Contract
         failed   == \/ \E d \in Decls : contract.decls[d] = Error
                     \/ \E m \in Methods : contract.methods[m] = Error
     IN  IF failed \/ ~Protoc(contract)
         THEN built' = None /\ UNCHANGED descriptor
         ELSE /\ descriptor' = contract
              /\ built' = IF CheckLock(contract) /\ GenerateRust(contract)
                          THEN contract ELSE None
  /\ UNCHANGED <<source, methods, lock, router, promised, left>>

-----------------------------------------------------------------------------
(* lock --update                                                           *)

\* What a lock says about the future: the members it binds, and the numbers
\* and names it reserves.
Promises(l) ==
  LET here == {d \in Decls : l.decls[d] # None}
  IN  [bound   |-> UNION {{<<d, n, l.decls[d].fields[n]>> :
                             n \in DOMAIN l.decls[d].fields} : d \in here},
       numbers |-> UNION {{<<d, n>> : n \in Reserved(l.decls[d].ranges)} : d \in here},
       names   |-> UNION {{<<d, s>> : s \in l.decls[d].names} : d \in here}]

WriteLock ==
  /\ descriptor # None /\ Policies(descriptor)
  /\ lock' = Snapshot(descriptor)
  /\ UNCHANGED <<source, methods, descriptor, built, router, left>>

\* write_lock, for a first lock or after lock --check or a build accepted the
\* descriptor on disk
UpdateLock ==
  /\ descriptor # None
  /\ lock = None \/ CheckLock(descriptor)
  /\ WriteLock
  /\ LET new == Promises(lock')
     IN  promised' = [bound   |-> promised.bound \cup new.bound,
                      numbers |-> promised.numbers \cup new.numbers,
                      names   |-> promised.names \cup new.names]

\* write_lock again, over a lock that does not accept the descriptor: nothing
\* in write_lock stops it, and it gives up what was promised before.
OverrideLock ==
  /\ descriptor # None /\ lock # None /\ ~CheckLock(descriptor)
  /\ WriteLock
  /\ promised' = Promises(lock')

-----------------------------------------------------------------------------
(* Starting a server with the generated code                               *)

\* generate_rust_method: what the generated register function does for m
RegisterMethod(b, m) ==
  LET method == built.methods[m]
      scopes == ParsePolicy(method).scopes
      id     == WireId[m]
  IN  IF b.panicked THEN b
      ELSE MethodName(IF method.server_streaming
                      THEN RouteStreamScoped(b, id, scopes, m)
                      ELSE RouteScoped(b, id, scopes, m), id, m)

Declared == {m \in Methods : built.methods[m] # None}

\* The application registers the services and possibly a byte level handler
\* of its own, decides about authorization, and builds.
StartServer(raw, authorization) ==
  /\ built # None /\ router = None
  /\ LET services == FoldSet(LAMBDA m, b : RegisterMethod(b, m), NewBuilder, Declared)
         extended == IF services.panicked \/ raw.id = None THEN services
                     ELSE IF raw.stream THEN RouteStream(services, raw.id, raw)
                     ELSE Route(services, raw.id, raw)
         secured  == CASE authorization = "layer"     -> AuthorizationLayer(extended)
                       [] authorization = "unsecured" -> AllowUnsecuredScopes(extended)
                       [] OTHER -> extended
     IN  router' = [builder |-> IF secured.panicked THEN secured ELSE BuildRouter(secured),
                    raw |-> raw.id, authorization |-> authorization,
                    contract |-> built]
  /\ UNCHANGED <<source, methods, descriptor, lock, built, promised, left>>

StopServer ==
  /\ router # None
  /\ router' = None
  /\ UNCHANGED <<source, methods, descriptor, lock, built, promised, left>>

-----------------------------------------------------------------------------

Edit ==
  \/ \E d \in CodeFirst : source[d] # None /\
       \/ \E i \in 0 .. Len(source[d]), name \in MemberNames(d), type \in MemberTypes(d) :
            AddMember(d, i, name, type)
       \/ \E i \in 1 .. Len(source[d]) :
            RemoveMember(d, i) \/ \E type \in MemberTypes(d) : ChangeType(d, i, type)
       \/ RemoveDecl(d)
  \/ \E d \in Decls \ CodeFirst, decl \in Protos : WriteProto(d, decl)
  \/ \E m \in Methods, method \in Rpcs : WriteMethod(m, method)

Start ==
  \E raw \in RawRoutes, authorization \in {"none", "layer", "unsecured"} :
    StartServer(raw, authorization)

\* A server shares nothing with the files its code was generated from, so it
\* is started and stopped between their changes.
Next ==
  \/ router = None /\ (Edit \/ Build \/ UpdateLock \/ OverrideLock)
  \/ Start
  \/ StopServer

Spec == Init /\ [][Next]_vars

-----------------------------------------------------------------------------
(* Properties                                                              *)

IsDecl(decl) ==
  /\ IsDeclaration(decl)
  /\ \A n \in DOMAIN decl.fields :
       n \notin Reserved(decl.ranges) /\ decl.fields[n].name \notin decl.names

IsSchema(s) ==
  /\ \A d \in Decls : s.decls[d] # None => IsDecl(s.decls[d])
  /\ DOMAIN s.methods = Methods

\* Type correctness: the files hold well formed contracts, in which nothing
\* reserved is in use, and nothing the generator could not finish reaches one.
TypeOK ==
  /\ \A sort \in DOMAIN left : left[sort] \in Nat
  /\ \A c \in {descriptor, lock, built} : c # None => IsSchema(c)
  /\ \A p \in promised.bound : p[1] \in Decls /\ p[2] \in 0 .. MaxNumber
  /\ \A p \in promised.numbers : p[1] \in Decls /\ p[2] \in 0 .. MaxNumber

\* What a lock, or a contract it accepts, has to keep of the promises: a
\* bound member is unchanged or has its number and its name reserved, and
\* what is reserved stays reserved.
Keeps(schema, promises) ==
  /\ \A p \in promises.bound :
       LET decl == schema.decls[p[1]]
       IN  /\ decl # None
           /\ IF p[2] \in DOMAIN decl.fields THEN decl.fields[p[2]] = p[3]
              ELSE IsReserved(p[2], p[3].name, decl.ranges, decl.names)
  /\ \A p \in promises.numbers :
       schema.decls[p[1]] # None /\ p[2] \in Reserved(schema.decls[p[1]].ranges)
  /\ \A p \in promises.names :
       schema.decls[p[1]] # None /\ p[2] \in schema.decls[p[1]].names

\* However the contract is edited and rebuilt and the lock updated, the lock
\* still records every member and every reservation that any checked lock
\* before it recorded (check_lock, write_lock; README: "Field numbers and
\* removed-name reservations remain stable through schema.lock").
LockRemembers == lock # None => Keeps(lock, promised)

\* A contract that check_lock accepts never gives a number or a name that was
\* once bound or reserved to another member, across any number of updates:
\* data and peers of every earlier version still read it.
NeverReused ==
  (descriptor # None /\ CheckLock(descriptor)) =>
    /\ \A p \in promised.bound :
         LET fields == descriptor.decls[p[1]].fields
         IN  \A n \in DOMAIN fields :
               n = p[2] \/ fields[n].name = p[3].name => n = p[2] /\ fields[n] = p[3]
    /\ \A p \in promised.numbers : p[2] \notin DOMAIN descriptor.decls[p[1]].fields
    /\ \A p \in promised.names :
         LET fields == descriptor.decls[p[1]].fields
         IN  \A n \in DOMAIN fields : fields[n].name # p[2]

\* What the members of d are called in Protobuf.
Members(d) == IF d \in Enums THEN Values(source[d]) ELSE source[d]

\* Adding and removing the members of a Rust struct or enum always generates
\* Protobuf in which protoc and check_lock accept the declaration, as long as a
\* locked member that is still declared keeps its type and, where it is an
\* Option, its place among the Option members, no removed name comes back, an
\* enum keeps its zero and numbers last (generate_message, generate_enum).
\* The largest number of an enum does not count: its range could not be
\* reserved, for snapshot_enum saturates.
AdditiveEditsPass ==
  \A d \in CodeFirst :
    LET old    == lock.decls[d]
        new    == Generate(d)
        benign == \A i \in 1 .. Len(Members(d)) :
                    /\ Members(d)[i].name \notin old.names
                    /\ \A n \in DOMAIN old.fields :
                         old.fields[n].name = Members(d)[i].name =>
                           /\ old.fields[n].type = ProtoType(Members(d)[i].type)
                           /\ old.fields[n].oneof = OneofIndex(Members(d), i)
        zero   == \E i \in 1 .. Len(Members(d)) : Members(d)[i].name = old.fields[0].name
        last   == IF d \in Enums THEN MaxNumber - 1 ELSE MaxNumber
    IN  /\ lock # None /\ source[d] # None /\ old # None
        /\ new # Error /\ benign /\ (d \in Enums => zero)
        /\ DOMAIN old.fields \cup DOMAIN new.fields \subseteq 0 .. last
        => /\ ProtocAccepts(d, new)
           /\ CompatibleDecl(old, IF d \in Enums THEN SnapshotEnum(new) ELSE SnapshotMessage(new))

\* new has every field of old, unchanged and, if they are optional, in the same
\* order, beside fields of its own.
OnlyAdds(old, new) ==
  /\ PreservedReservations(old, new)
  /\ DOMAIN old.fields \subseteq DOMAIN new.fields
  /\ \A n \in DOMAIN old.fields :
       /\ new.fields[n].name = old.fields[n].name
       /\ new.fields[n].type = old.fields[n].type
       /\ \A o \in DOMAIN old.fields :
            old.fields[n].oneof # None /\ old.fields[o].oneof # None =>
              (old.fields[n].oneof < old.fields[o].oneof
                 <=> new.fields[n].oneof < new.fields[o].oneof)

\* A message that was only added to is compatible with its lock, wherever the
\* new members stand in the struct (compatibility_errors; README of
\* moonlight-bridge-codegen: "Adding a field with a new number is compatible.").
AddingIsCompatible ==
  (descriptor # None /\ lock # None) =>
    \A d \in Decls \ Enums : (descriptor.decls[d] # None /\ lock.decls[d] # None) =>
      LET old == lock.decls[d]
          new == Snapshot(descriptor).decls[d]
      IN  OnlyAdds(old, new) => CompatibleDecl(old, new)

\* The walk of range_is_covered over sorted ranges decides exactly whether
\* every number of the required range is reserved, however ranges were split,
\* joined or reordered between the lock and the descriptor.
CoverIsExact ==
  (descriptor # None /\ lock # None) =>
    \A d \in Decls : (descriptor.decls[d] # None /\ lock.decls[d] # None) =>
      LET new == Snapshot(descriptor).decls[d].ranges
      IN  \A r \in lock.decls[d].ranges \cup new, available \in {lock.decls[d].ranges, new} :
            RangeIsCovered(r, available) <=> (r.start .. r.end - 1) \subseteq Reserved(available)

\* A server started from generated code panics only over a clash with a
\* handler the application registered itself, or scopes nobody enforces;
\* otherwise its router serves exactly the contract: every method under its
\* own id in the table of its kind, with its name and its scopes
\* (validate_method_ids, generate_rust_method, RouterBuilder).
RouterServesContract ==
  router # None =>
    LET b        == router.builder
        declared == {m \in Methods : router.contract.methods[m] # None}
        policy(m) == ParsePolicy(router.contract.methods[m])
    IN  /\ b.panicked <=> \/ \E m \in declared : WireId[m] = router.raw
                          \/ /\ \E m \in declared : policy(m).scopes # {}
                             /\ router.authorization = "none"
        /\ ~b.panicked =>
             /\ \A m \in declared :
                  LET id == WireId[m]
                      table == IF router.contract.methods[m].server_streaming
                               THEN b.stream_handlers ELSE b.handlers
                  IN  /\ id \in DOMAIN table /\ table[id] = m
                      /\ b.method_names[id] = m
                      /\ b.required_scopes[id] = policy(m).scopes
             /\ DOMAIN b.handlers \cap DOMAIN b.stream_handlers = {}
             /\ DOMAIN b.handlers \cup DOMAIN b.stream_handlers
                  \subseteq {WireId[m] : m \in declared} \cup {router.raw}

=============================================================================
