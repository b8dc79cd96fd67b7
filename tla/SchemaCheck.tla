----------------------------- MODULE SchemaCheck -----------------------------
(***************************************************************************)
(* The compatibility check of moonlight-bridge-codegen (schema.rs): how a  *)
(* descriptor set becomes a schema lock, and which descriptors a lock      *)
(* accepts.                                                                *)
(*                                                                         *)
(* A message and an enum are both a declaration: its members by number,    *)
(* the reserved number ranges and the reserved names.  A member of a       *)
(* message is a field: its name, its type (label, kind and type name) and  *)
(* the index of the oneof it is in, or None; the values of an enum all     *)
(* have the same type and no oneof.  A schema gives every declaration and  *)
(* every method, or None where there is none.                              *)
(***************************************************************************)
EXTENDS RpcPolicy

CONSTANTS Decls,       \* full names of messages and enums
          Enums,       \* those of them that are enums
          Methods,     \* canonical names of RPC methods
          MaxNumber,   \* the largest member number (i32::MAX)
          None

ASSUME SchemaAssumption ==
  /\ Enums \subseteq Decls
  /\ MaxNumber \in Nat

-----------------------------------------------------------------------------
(* Snapshots                                                               *)

\* snapshot_message: the lock has every field with all it has in the
\* descriptor, the oneof index included, and the reserved ranges of a message
\* are half open in both.
SnapshotMessage(decl) == decl

\* Mutant: the end of an enum range is moved once too often.
SnapshotEnum_TwoPast(decl) ==
  [decl EXCEPT !.ranges = {[start |-> r.start, end |-> r.end + 2] : r \in @}]

\* snapshot_enum: those of an enum include their end, so it is moved by one,
\* saturating at i32::MAX.
SnapshotEnum(decl) ==
  [decl EXCEPT !.ranges =
     {[start |-> r.start,
       end   |-> IF r.end < MaxNumber THEN r.end + 1 ELSE MaxNumber] : r \in @}]

\* snapshot_file: a method is recorded with its whole policy.
SnapshotMethod(method) ==
  [signature        |-> method.signature,
   client_streaming |-> method.client_streaming,
   server_streaming |-> method.server_streaming,
   policy           |-> ParsePolicy(method)]

\* snapshot / snapshot_file
Snapshot(descriptor) ==
  [decls   |-> [d \in Decls |->
                  IF descriptor.decls[d] = None THEN None
                  ELSE IF d \in Enums THEN SnapshotEnum(descriptor.decls[d])
                  ELSE SnapshotMessage(descriptor.decls[d])],
   methods |-> [m \in Methods |->
                  IF descriptor.methods[m] = None THEN None
                  ELSE SnapshotMethod(descriptor.methods[m])]]

-----------------------------------------------------------------------------
(* Compatibility                                                           *)

\* The numbers a set of ranges reserves.
Reserved(ranges) == {n \in 0 .. MaxNumber :
                       \E r \in ranges : r.start <= n /\ n < r.end}

\* is_reserved
IsReserved(number, name, ranges, names) ==
  /\ \E r \in ranges : r.start <= number /\ number < r.end
  /\ name \in names

\* Mutant: the walk looks for the end of the required range only.
RangeIsCovered_EndOnly(required, available) ==
  required.end <= required.start \/ \E r \in available : r.end >= required.end

\* range_is_covered: a cursor walks over the available ranges in the order of
\* their start.  cursor[x] is where it stands after the ranges that start
\* below x; a range beyond the cursor is a gap and ends the walk.  Whether it
\* has arrived is asked after it was moved, so that an empty range finds a gap
\* before any range that starts later.
Gap == -1

Furthest(ends) == CHOOSE e \in ends : \A o \in ends : o <= e

RangeIsCovered(required, available) ==
  LET cursor[x \in 0 .. MaxNumber + 1] ==
        IF x = 0 THEN required.start
        ELSE LET at   == cursor[x - 1]
                 ends == {r.end : r \in {q \in available :
                                           q.start = x - 1 /\ q.end > at}}
                 done == at > required.start /\ at >= required.end
             IN  IF at = Gap \/ done \/ ends = {} THEN at
                 ELSE IF x - 1 > at THEN Gap
                 ELSE Furthest(ends)
  IN  cursor[MaxNumber + 1] >= required.end

\* Mutant: reserved names are not compared.
PreservedReservations_NoNames(old, new) ==
  \A r \in old.ranges : RangeIsCovered(r, new.ranges)

\* check_preserved_reservations
PreservedReservations(old, new) ==
  /\ \A r \in old.ranges : RangeIsCovered(r, new.ranges)
  /\ old.names \subseteq new.names

\* Mutant: a number that is there is not compared with what it was.
CompatibleDecl_ByNumber(old, new) ==
  /\ PreservedReservations(old, new)
  /\ \A n \in DOMAIN old.fields \ DOMAIN new.fields :
       IsReserved(n, old.fields[n].name, new.ranges, new.names)

\* The part of compatibility_errors about one message or enum: every locked
\* member is there unchanged, or its number and its name are both reserved.
CompatibleDecl(old, new) ==
  /\ PreservedReservations(old, new)
  /\ \A n \in DOMAIN old.fields :
       IF n \in DOMAIN new.fields
       THEN new.fields[n] = old.fields[n]
       ELSE IsReserved(n, old.fields[n].name, new.ranges, new.names)

\* The part about one method: its signature and its policy are unchanged.
CompatibleMethod(old, new) ==
  /\ new.signature = old.signature
  /\ new.client_streaming = old.client_streaming
  /\ new.server_streaming = old.server_streaming
  /\ new.policy = old.policy

\* compatibility_errors is empty.
Compatible(old, new) ==
  /\ \A d \in Decls : old.decls[d] # None =>
       new.decls[d] # None /\ CompatibleDecl(old.decls[d], new.decls[d])
  /\ \A m \in Methods : old.methods[m] # None =>
       new.methods[m] # None /\ CompatibleMethod(old.methods[m], new.methods[m])

=============================================================================
