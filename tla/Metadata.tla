------------------------------- MODULE Metadata -------------------------------
(***************************************************************************)
(* Metadata blocks of moonlight-bridge-protocol (metadata.rs).  A block is *)
(* the length its prefix announces and the entries that follow it; an      *)
(* entry has a key id, the critical bit, a name (0 is the empty one, larger *)
(* numbers sort later) and a value with its length.  The entries are all   *)
(* that can be read from the bytes: those the announced length leaves over *)
(* belong to the payload, and what follows the last is not an entry.       *)
(***************************************************************************)
EXTENDS Integers, SequencesExt

CONSTANTS UserKey,       \* USER_KEY_ID, above every other id
          ValidNames,    \* the names validate_user_key accepts
          MaxEntries, MaxValue,
          Nothing        \* no metadata, no value

\* ReservedMetadataKey
DeadlineMillis == 1
TraceContext == 2
CompressionCodec == 6
OriginalLength == 7
ReservedKeys == 1 .. 13

PrefixLen == 4
EntryHeaderLen == 7
NameLen(name) == IF name = 0 THEN 0 ELSE 1
EntryLen(entry) == EntryHeaderLen + NameLen(entry.name) + entry.len

\* raw_entry: where the i-th entry ends.
End(entries, i) ==
  SumFunctionOnSet([k \in DOMAIN entries |-> EntryLen(entries[k])], 1 .. i)

\* The entries raw_entry finds complete within the announced length, and
\* whether a loop that reads them gets to its end: it meets an error when the
\* length ends inside an entry, or inside what follows the last.
Readable(block) ==
  {i \in 1 .. Len(block.entries) : End(block.entries, i) <= block.announced}
Whole(block) ==
  \E i \in 0 .. Len(block.entries) : End(block.entries, i) = block.announced

\* The order of keys: of MetadataKey, and of the comparison in validate.
Before(x, y) == x.id < y.id \/ (x.id = y.id /\ x.name < y.name)

\* Mutant: the order of neighbours is compared by id only, and not strictly.
Validate_LooseOrder(block, available, max_bytes) ==
  LET e == block.entries
  IN  /\ block.announced <= available /\ block.announced <= max_bytes
      /\ Whole(block)
      /\ \A i \in Readable(block) :
           /\ i <= MaxEntries
           /\ e[i].len <= MaxValue
           /\ i > 1 => e[i - 1].id <= e[i].id
           /\ IF e[i].id = UserKey THEN e[i].name \in ValidNames
              ELSE e[i].name = 0 /\ (e[i].id \in ReservedKeys \/ ~e[i].critical)

\* Metadata::validate, with the number of bytes after the prefix.
Validate(block, available, max_bytes) ==
  LET e == block.entries
  IN  /\ block.announced <= available
      /\ block.announced <= max_bytes
      /\ Whole(block)
      /\ \A i \in Readable(block) :
           /\ i <= MaxEntries
           /\ e[i].len <= MaxValue
           /\ i > 1 => Before(e[i - 1], e[i])
           /\ IF e[i].id = UserKey THEN e[i].name \in ValidNames
              ELSE e[i].name = 0 /\ (e[i].id \in ReservedKeys \/ ~e[i].critical)

\* request_payload's loop over reserved_entries: the last value of a key.  The
\* iterator ends at an entry it cannot read.
Reserved(block, key) ==
  LET at == {i \in Readable(block) : block.entries[i].id = key}
  IN  IF key \notin ReservedKeys \/ at = {} THEN Nothing
      ELSE block.entries[Max(at)]

\* ValidatedMetadata::get_reserved: the first entry at or after the key decides;
\* there is no value if it cannot be read.
GetReserved(block, key) ==
  LET at == {i \in Readable(block) : block.entries[i].id >= key}
  IN  IF at = {} \/ block.entries[Min(at)].id # key THEN Nothing
      ELSE block.entries[Min(at)]

\* ValidatedMetadata::into_metadata and Metadata::insert: the known entries
\* under their keys, or Nothing when a key comes twice or an entry cannot be
\* read.
IntoMetadata(block) ==
  LET known == {i \in Readable(block) :
                  block.entries[i].id \in ReservedKeys \cup {UserKey}}
      key(i) == <<block.entries[i].id, block.entries[i].name>>
  IN  IF ~Whole(block) \/ \E i, j \in known : i # j /\ key(i) = key(j) THEN Nothing
      ELSE {[id |-> block.entries[i].id, name |-> block.entries[i].name,
             len |-> block.entries[i].len, value |-> block.entries[i].value] : i \in known}

\* Metadata::encode_prefix: in key order, runtime keys marked critical.
EncodePrefix(metadata) ==
  LET entries == [i \in 1 .. Cardinality(metadata) |->
                    LET m == SetToSortSeq(metadata, Before)[i]
                    IN  [id |-> m.id, critical |-> m.id # UserKey, name |-> m.name,
                         len |-> m.len, value |-> m.value]]
  IN  [announced |-> End(entries, Len(entries)), entries |-> entries]

=============================================================================
