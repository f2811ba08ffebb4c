------------------------------- MODULE Record -------------------------------
(***************************************************************************)
(* One record of a memtable: the encoded bytes and the two views into them *)
(* (src/memtable/record.rs), through any sequence of updates in place.     *)
(* Bytes of keys and values tell which write they belong to.               *)
(***************************************************************************)
EXTENDS Codec

CONSTANTS
    KeyLens,      \* lengths of keys tried
    ValueLens,    \* lengths of values tried
    MaxWrites     \* bound: writes to the record

VARIABLES
    blob, key, value,   \* struct Record
    last,               \* history: the last write, a value or None (a delete)
    past,               \* history: all writes before it
    panicked            \* a slice of blob was out of range

vars == << blob, key, value, last, past, panicked >>

\* The bytes of a key, and of the value of write number w.
KeyBytes(len) == [i \in 1..len |-> 1000 + i]

ValueBytes(w, len) == [i \in 1..len |-> 2000 + 100 * w + i]

\* A usize takes ten bytes at most; Option::None is no value.
ASSUME RecordAssumption ==
    /\ KeyLens \subseteq 0..(upper_bound[10] - 1)
    /\ ValueLens \subseteq Nat
    /\ MaxWrites \in Nat \ {0}
    /\ \A w \in 1..MaxWrites, len \in ValueLens : ValueBytes(w, len) # None

----------------------------------------------------------------------------
(* Encoding, updating and decoding.                                        *)

\* Where a freshly encoded record of that body length has its key.
KeyOffset(klen, bodyLen) ==
    1 + Len(encode_varint[bodyLen]) + Len(encode_varint[klen])

\* Mutant: the header is counted too.
log_size_header(kvar, v) ==
    1 + Len(encode_varint[Len(v)]) + kvar + key[2] + Len(v)

\* What overwrite_data writes as the size of the new record.
log_size(kvar, v) == Len(encode_varint[Len(v)]) + kvar + key[2] + Len(v)

\* Mutant: the key's view is not brought up to date.
moved_key_stale(koff) == key

\* The key's view once the key is at koff.
moved_key(koff) == << koff, key[2] >>

\* Record::overwrite_data.  The value's view stays as it was.
overwrite_data(v) ==
    LET klen == key[2]
        kvar == varint_size_from_len(klen)
        vvar == encode_varint[Len(v)]
        logSize == log_size(kvar, v)
        lvar == encode_varint[logSize]
        sized == resize(blob, Len(lvar) + logSize + 1)
        moves == key[1] - kvar - 1 # Len(lvar)
        koff == IF moves THEN 1 + Len(lvar) + kvar ELSE key[1]
        logged == Put(sized, 1, lvar)
        keyed == IF moves THEN Put(Put(logged, 1 + Len(lvar), encode_varint[klen]),
                                   koff, Slice(sized, key))
                          ELSE logged
    IN  IF moves /\ ~InRange(sized, key)
        THEN panicked' = TRUE /\ blob' = sized /\ UNCHANGED << key, value >>
        ELSE /\ blob' = Put(Put(Put(keyed, koff + klen, vvar),
                                koff + klen + Len(vvar), v),
                            0, << DATA_LOG_HEADER >>)
             /\ key' = moved_key(koff)
             /\ UNCHANGED << value, panicked >>

\* Mutant: the value's view is not cleared.
update_data_to_tombstone_keeping ==
    LET k == Slice(blob, key)
    IN  /\ blob' = encode_tombstone_record(k)
        /\ key' = << KeyOffset(Len(k), Len(encode_varint[Len(k)]) + Len(k)),
                     Len(k) >>
        /\ UNCHANGED << value, panicked >>

\* Record::update_data_to_tombstone.
update_data_to_tombstone ==
    LET k == Slice(blob, key)
    IN  /\ blob' = encode_tombstone_record(k)
        /\ key' = << KeyOffset(Len(k), Len(encode_varint[Len(k)]) + Len(k)),
                     Len(k) >>
        /\ value' = None
        /\ UNCHANGED panicked

----------------------------------------------------------------------------
NewData(klen, vlen) ==
    LET k == KeyBytes(klen)
        v == ValueBytes(1, vlen)
        bodyLen == Len(encode_varint[klen]) + klen + Len(encode_varint[vlen]) + vlen
        koff == KeyOffset(klen, bodyLen)
    IN  /\ blob = encode_data_record(k, v)
        /\ key = << koff, klen >>
        /\ value = << koff + klen + Len(encode_varint[vlen]), vlen >>
        /\ last = v

NewTombstone(klen) ==
    /\ blob = encode_tombstone_record(KeyBytes(klen))
    /\ key = << KeyOffset(klen, Len(encode_varint[klen]) + klen), klen >>
    /\ value = None
    /\ last = None

\* MemtableNode::new_data_record or ::new_tombstone_record.
Init ==
    /\ \E klen \in KeyLens :
        (\E vlen \in ValueLens : NewData(klen, vlen)) \/ NewTombstone(klen)
    /\ past = << >>
    /\ panicked = FALSE

\* Record::update_from_record, with a data record and with a tombstone.
UpdateData(vlen) ==
    /\ ~panicked
    /\ Len(past) + 1 < MaxWrites
    /\ overwrite_data(ValueBytes(Len(past) + 2, vlen))
    /\ last' = ValueBytes(Len(past) + 2, vlen)
    /\ past' = Append(past, last)

UpdateTombstone ==
    /\ ~panicked
    /\ Len(past) + 1 < MaxWrites
    /\ update_data_to_tombstone
    /\ last' = None
    /\ past' = Append(past, last)

Next == (\E vlen \in ValueLens : UpdateData(vlen)) \/ UpdateTombstone

Spec == Init /\ [][Next]_vars

----------------------------------------------------------------------------
(* Properties.                                                             *)

\* Whatever updates came before, the bytes decode to the key and the last
\* write, and end where the record ends and where its size says: this is what
\* flushing the record puts on disk and what the readers of a file rely on.
BlobIsLastWrite ==
    LET log == decode_varint(blob, 1)
    IN  ~panicked =>
            /\ decode_disk_record(blob, 0) =
                [key |-> KeyBytes(key[2]), value |-> last, end |-> Len(blob)]
            /\ 1 + log.len + log.val = Len(blob)

\* The key's view, by which the tree is searched, always shows the key.
KeyViewIsKey ==
    ~panicked => InRange(blob, key) /\ Slice(blob, key) = KeyBytes(key[2])

\* The value's view as the Table module has it: with values of one length it
\* shows the last value, unless the record was ever deleted, and then None.
ValueViewAsInTable ==
    LET lens == {Len(v) : v \in ToSet(Append(past, last)) \ {None}}
    IN  ~panicked /\ Cardinality(lens) <= 1 =>
            IF None \in ToSet(Append(past, last))
            THEN value = None
            ELSE InRange(blob, value) /\ Slice(blob, value) = last
=============================================================================
