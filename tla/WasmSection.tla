----------------------------- MODULE WasmSection -----------------------------
(***************************************************************************)
(* producers.rs: worker-build adds itself to the custom section            *)
(* "producers" of every wasm file it publishes.  A module and a name are   *)
(* sequences of bytes; that names are UTF-8 is not modelled, and the names *)
(* that are known are abbreviated.  Reading returns [ok, pos, val], where  *)
(* pos counts the bytes up to the end of what was read.                    *)
(***************************************************************************)
EXTENDS Naturals, Sequences, SequencesExt

Header == <<0, 97, 115, 109, 1, 0, 0, 0>>  \* "\0asm", version 1

Byte == 0..255
Name == Seq(Byte)
ProducersName == <<112>>  \* "producers"
SdkField == <<115>>       \* "sdk"
Sdk(version) == [field |-> SdkField, name |-> <<119>>, version |-> version]  \* "workers-rs"

Fail == [ok |-> FALSE, pos |-> 0, val |-> <<>>]
Ok(pos, val) == [ok |-> TRUE, pos |-> pos, val |-> val]

IsU32(n) == n \div 65536 < 65536

\* What one is worth in each of the five bytes of a length: 2^0, 2^7, ..., 2^28.
Unit == <<1, 128, 16384, 2097152, 268435456>>

(* append_u32_leb128: seven bits a byte, the low ones first, until no bits  *)
(* are left.                                                                *)
U32Bytes(n) == CHOOSE k \in 1..5 : (k < 5 => n < Unit[k + 1]) /\ \A j \in 2..k : n >= Unit[j]

EncodeU32(n) == [k \in 1..U32Bytes(n) |-> ((n \div Unit[k]) % 128) + (IF k < U32Bytes(n) THEN 128 ELSE 0)]

(* read_u32_leb128: up to the first byte below 128, which is one of five;   *)
(* of the fifth the bits beyond 32 are shifted out.                         *)
Part(bytes, pos, last, k) ==
  IF k > last THEN 0 ELSE (bytes[pos + k] % (IF k = 5 THEN 16 ELSE 128)) * Unit[k]

U32Ending(bytes, pos, last) ==
  Ok(pos + last, Part(bytes, pos, last, 1) + Part(bytes, pos, last, 2) + Part(bytes, pos, last, 3)
                   + Part(bytes, pos, last, 4) + Part(bytes, pos, last, 5))

ReadU32(bytes, pos) ==
  LET ends == {k \in 1..5 : pos + k <= Len(bytes) /\ bytes[pos + k] < 128}
  IN  IF ends = {} THEN Fail ELSE U32Ending(bytes, pos, CHOOSE k \in ends : \A j \in ends : k <= j)

EncodeName(name) == EncodeU32(Len(name)) \o name

NameOf(bytes, len, limit) ==
  IF len.ok /\ len.pos + len.val <= limit
    THEN Ok(len.pos + len.val, SubSeq(bytes, len.pos + 1, len.pos + len.val)) ELSE Fail

ReadName(bytes, pos, limit) == NameOf(bytes, ReadU32(bytes, pos), limit)

(* The section at pos; of one that is called "producers", the place: where  *)
(* it starts, where its content starts, and where both end.                 *)
SectionAt(bytes, pos) ==
  LET len  == ReadU32(bytes, pos + 1)
      end  == len.pos + len.val
      name == ReadName(bytes, len.pos, end)
  IN  IF ~len.ok \/ end > Len(bytes) THEN Fail
      ELSE IF bytes[pos + 1] # 0 THEN Ok(end, <<>>)
      ELSE IF ~name.ok THEN Fail
      ELSE Ok(end, IF name.val = ProducersName THEN <<pos, name.pos, end>> ELSE <<>>)

(* The place of the first "producers" at or after start, <<>> if there is   *)
(* none.                                                                    *)
FindFrom(bytes, start) ==
  LET from[pos \in 0..Len(bytes)] ==
        IF pos = Len(bytes) THEN Ok(pos, <<>>)
        ELSE LET section == SectionAt(bytes, pos) IN
             IF section.ok /\ section.val = <<>> THEN from[section.pos] ELSE section
  IN  from[start]

FindProducersSection(bytes) ==
  IF Len(bytes) < 8 \/ SubSeq(bytes, 1, 8) # Header THEN Fail ELSE FindFrom(bytes, 8)

(* The entries are kept by field, in the order in which they are written:   *)
(* fields as they first appear, the values of each as they come.            *)
Push(entries, field, value) ==
  IF \E i \in DOMAIN entries : entries[i].field = field
    THEN [i \in DOMAIN entries |->
            IF entries[i].field = field THEN [field |-> field, values |-> Append(entries[i].values, value)] ELSE entries[i]]
    ELSE Append(entries, [field |-> field, values |-> <<value>>])

(* After what was read sofar, one more value of a field; all of them; one   *)
(* more field, with its values; all of them, up to the end of the section.  *)
NextValue(bytes, sofar, end, field) ==
  LET name    == ReadName(bytes, sofar.pos, end)
      version == ReadName(bytes, name.pos, end)
  IN  IF sofar.ok /\ name.ok /\ version.ok
        THEN Ok(version.pos, Push(sofar.val, field, [name |-> name.val, version |-> version.val])) ELSE Fail

ParseValues(bytes, sofar, end, field, count) ==
  LET parsed[i \in 0..count] == IF i = 0 THEN sofar ELSE NextValue(bytes, parsed[i - 1], end, field)
  IN  parsed[count]

NextField(bytes, sofar, end) ==
  LET field == ReadName(bytes, sofar.pos, end)
      count == ReadU32(bytes, field.pos)
  IN  IF sofar.ok /\ field.ok /\ count.ok
        THEN ParseValues(bytes, Ok(count.pos, sofar.val), end, field.val, count.val) ELSE Fail

ParseFields(bytes, pos, end, count) ==
  LET parsed[i \in 0..count] == IF i = 0 THEN Ok(pos, <<>>) ELSE NextField(bytes, parsed[i - 1], end)
  IN  parsed[count]

ParseProducers(bytes, start, end) ==
  LET count  == ReadU32(bytes, start)
      fields == ParseFields(bytes, count.pos, end, count.val)
  IN  IF count.ok /\ fields.ok /\ fields.pos = end THEN fields ELSE Fail

EncodeValue(value) == EncodeName(value.name) \o EncodeName(value.version)

EncodeField(group) ==
  EncodeName(group.field) \o EncodeU32(Len(group.values))
    \o FlattenSeq([i \in DOMAIN group.values |-> EncodeValue(group.values[i])])

EncodePayload(entries) ==
  EncodeName(ProducersName) \o EncodeU32(Len(entries)) \o FlattenSeq([i \in DOMAIN entries |-> EncodeField(entries[i])])

EncodeProducersSection(entries) ==
  <<0>> \o EncodeU32(Len(EncodePayload(entries))) \o EncodePayload(entries)

\* Mutant of MergeEntries: an entry that is there is entered again.
MergeEntriesAgain(entries, new) == Push(entries, new.field, [name |-> new.name, version |-> new.version])

(* An entry of the same field and name is kept with its version.            *)
MergeEntries(entries, new) ==
  IF \E i \in DOMAIN entries : entries[i].field = new.field /\ \E j \in DOMAIN entries[i].values : entries[i].values[j].name = new.name
    THEN entries ELSE Push(entries, new.field, [name |-> new.name, version |-> new.version])

(* The producers that are listed where found says, and all other bytes.     *)
Parsed(bytes, found) ==
  IF found.val # <<>> THEN ParseProducers(bytes, found.val[2], found.val[3]) ELSE Ok(0, <<>>)

Replaced(bytes, place, section) ==
  IF place = <<>> THEN bytes \o section
  ELSE SubSeq(bytes, 1, place[1]) \o section \o SubSeq(bytes, place[3] + 1, Len(bytes))

(* A list that is too long to have its length written is an error.          *)
Merged(bytes, place, entries) ==
  IF IsU32(Len(EncodePayload(entries))) THEN Ok(0, Replaced(bytes, place, EncodeProducersSection(entries))) ELSE Fail

MergedAt(bytes, found, new) ==
  IF found.ok /\ Parsed(bytes, found).ok
    THEN Merged(bytes, found.val, MergeEntries(Parsed(bytes, found).val, new)) ELSE Fail

MergeProducersSection(bytes, new) == MergedAt(bytes, FindProducersSection(bytes), new)

-----------------------------------------------------------------------------
Listed(entries) ==
  UNION {{[field |-> entries[i].field, name |-> entries[i].values[j].name, version |-> entries[i].values[j].version] :
            j \in DOMAIN entries[i].values} : i \in DOMAIN entries}

(* Of a file and the one made of it, with the places of their sections: the *)
(* rest of the bytes and the old entries are there, and at most the new one *)
(* beside them.                                                             *)
KeepsTheRest(bytes, found, once, placed, new) ==
  /\ placed.ok /\ placed.val # <<>>
  /\ Replaced(once, placed.val, <<>>) = Replaced(bytes, found.val, <<>>)
  /\ Parsed(once, placed).ok
  /\ Listed(Parsed(bytes, found).val) \subseteq Listed(Parsed(once, placed).val)
  /\ Listed(Parsed(once, placed).val) \subseteq Listed(Parsed(bytes, found).val) \cup {new}
  /\ \E e \in Listed(Parsed(once, placed).val) : e.field = new.field /\ e.name = new.name

IsClean(bytes, once, new) ==
  once.ok =>
    /\ KeepsTheRest(bytes, FindProducersSection(bytes), once.val, FindProducersSection(once.val), new)
    /\ MergeProducersSection(once.val, new) = once

(* Adding worker-build to a module leaves all other bytes as they are, lists*)
(* it in a producers section whose lengths can be read back, keeps what     *)
(* other tools have written there, and changes nothing when done again.     *)
MergeIsClean(bytes, new) == IsClean(bytes, MergeProducersSection(bytes, new), new)

(* A length that was written is read back, of any number of bytes.          *)
U32RoundTrips(n) == LET read == ReadU32(EncodeU32(n), 0) IN read = Ok(Len(EncodeU32(n)), n)
=============================================================================
