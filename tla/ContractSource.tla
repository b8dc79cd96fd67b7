---------------------------- MODULE ContractSource ----------------------------
(***************************************************************************)
(* From annotated Rust source to Protobuf (source.rs of                    *)
(* moonlight-bridge-codegen).                                              *)
(*                                                                         *)
(* A struct or an enum of the contract is the sequence of its members in   *)
(* declaration order, each a name and a Rust type; a trait method is its   *)
(* signature, its streaming flags, its numeric options and its scopes.     *)
(***************************************************************************)
EXTENDS SchemaCheck, FiniteSetsExt

CONSTANTS ProtobufInternal,  \* the numbers Protobuf keeps (19000..19999)
          UpperSnake,        \* upper_snake, as a function of the variant names;
                             \* two of them may have the same value
          Unsupported,       \* a signature without plain request/response type
          Error              \* the result of a step that fails the build

-----------------------------------------------------------------------------
(* Members and their numbers                                               *)

\* proto_type: the label and the Protobuf type of a Rust type, which is a
\* chain of wrappers around a name.  Only the outermost label survives, and a
\* qualified name that is not a scalar is refused.
Scalars == [String |-> "string", bool |-> "bool", i32 |-> "int32", u64 |-> "uint64"]

ProtoType(type) ==
  LET depth == Len(type.wrap)
      bytes == /\ depth > 0 /\ type.wrap[depth] = "Vec"
               /\ type.name = "u8" /\ ~type.qualified
      label == IF depth = 0 \/ (bytes /\ depth = 1) THEN ""
               ELSE IF type.wrap[1] = "Vec" THEN "repeated" ELSE "optional"
  IN  IF bytes THEN <<label, "bytes">>
      ELSE IF type.name \in DOMAIN Scalars THEN <<label, Scalars[type.name]>>
      ELSE IF type.qualified THEN Error
      ELSE <<label, type.name>>

\* protoc puts every optional field into a oneof of its own and numbers these
\* in declaration order; a generated message has no others.
IsOptional(type) == ProtoType(type) # Error /\ ProtoType(type)[1] = "optional"

OneofIndex(members, i) ==
  IF IsOptional(members[i].type)
  THEN Cardinality({j \in 1 .. i - 1 : IsOptional(members[j].type)})
  ELSE None

\* load_lock / load_reservations: what generation reads of a locked
\* declaration, and an empty one where nothing is locked.
Empty == [fields |-> <<>>, ranges |-> {}, names |-> {}]

Previous(locked) == IF locked = None THEN Empty ELSE locked

\* next_number and next_enum_number: the first number that is free.  Where
\* there is none the candidate overflows and the generator panics; a number
\* that protoc refuses stands for it.
NextNumber(first, used) ==
  LET free == (first .. MaxNumber) \ (used \cup ProtobufInternal)
  IN  IF free = {} THEN MaxNumber + 1 ELSE Min(free)

\* The number a name has in the lock, the smallest if it has several.
LockedNumbers(previous, name) ==
  {n \in DOMAIN previous.fields : previous.fields[n].name = name}

\* Mutant: numbers are counted off in declaration order.
Numbering_InOrder(members, previous, first) ==
  [i \in 1 .. Len(members) |-> first + i - 1]

\* The numbers of the members, assigned in declaration order: the locked one,
\* or the next that neither the lock nor an earlier member uses.
Numbering(members, previous, first) ==
  LET taken == DOMAIN previous.fields \cup Reserved(previous.ranges)
      number[i \in 1 .. Len(members)] ==
        LET old == LockedNumbers(previous, members[i].name)
        IN  IF old # {} THEN Min(old)
            ELSE NextNumber(first, taken \cup {number[j] : j \in 1 .. i - 1})
  IN  number

\* The locked members that are no longer declared.
Removed(members, previous) ==
  {n \in DOMAIN previous.fields :
     \A i \in 1 .. Len(members) : members[i].name # previous.fields[n].name}

\* The members and reservations a declaration is written with: one reserved
\* statement per number, which protoc turns into a range that ends after the
\* number in a message (past = 1) and at the number in an enum (past = 0).
Written(members, previous, first, past) ==
  LET number == Numbering(members, previous, first)
      gone   == Removed(members, previous)
  IN  [fields |-> [n \in {number[i] : i \in DOMAIN number} |->
                     LET i == CHOOSE i \in DOMAIN number : number[i] = n
                     IN  [name  |-> members[i].name,
                          type  |-> ProtoType(members[i].type),
                          oneof |-> OneofIndex(members, i)]],
       ranges |-> {[start |-> n, end |-> n + past] :
                     n \in gone \cup Reserved(previous.ranges)},
       names  |-> previous.names \cup {previous.fields[n].name : n \in gone}]

\* generate_message
GenerateMessage(members, locked) ==
  IF \E i \in 1 .. Len(members) : ProtoType(members[i].type) = Error THEN Error
  ELSE Written(members, Previous(locked), 1, 1)

\* The values of an enum: every variant under its name in upper snake case.
Values(variants) ==
  [i \in 1 .. Len(variants) |-> [variants[i] EXCEPT !.name = UpperSnake[@]]]

\* generate_enum: the smallest value must be zero.  Two variants with one value
\* name are written one below the other, and protoc refuses the file.
GenerateEnum(variants, locked) ==
  LET values  == Values(variants)
      written == Written(values, Previous(locked), 0, 0)
  IN  IF \/ DOMAIN written.fields # {} /\ 0 \notin DOMAIN written.fields
         \/ \E i, j \in 1 .. Len(values) : i # j /\ values[i].name = values[j].name
      THEN Error ELSE written

-----------------------------------------------------------------------------
(* Methods                                                                 *)

\* rpc_options / render_policy_value / generate_service: an unknown option or
\* a type that is not a plain name fails the generation.
GenerateMethod(method) ==
  IF \/ method.signature = Unsupported
     \/ ~(DOMAIN method.options \subseteq DOMAIN Defaults(FALSE))
  THEN Error ELSE method

=============================================================================
