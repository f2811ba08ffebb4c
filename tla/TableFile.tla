----------------------------- MODULE TableFile -----------------------------
(***************************************************************************)
(* One SSTable file from its writer to its readers.  Written by a flush    *)
(* (src/sstable/encode.rs) or by a compaction through a write buffer       *)
(* (src/sstable/compaction_writer.rs): header, data block, index trie      *)
(* (src/ssindex/trie.rs), bloom filter (src/sstable/bloom_filter.rs) and   *)
(* footer (src/sstable/footer.rs).  Read back by from_path                 *)
(* (src/sstable/mod.rs, src/ssindex/mod.rs), by lookups through a read     *)
(* buffer (src/disk/mod.rs) and by iterators (src/sstable/iterator.rs).    *)
(*                                                                         *)
(* A file is a sequence of cells, offsets count from 0.  A cell is a byte  *)
(* of a record, or a whole integer where the format fixes its width, so    *)
(* that only the order and number of such fields matter; a word of the     *)
(* bloom filter is the set of its bits.  The hash functions are arbitrary. *)
(***************************************************************************)
EXTENDS Codec

CONSTANTS
    Keys,           \* keys looked up, sequences of bytes
    MaxRecords,     \* bound: records in the file
    ValueLens,      \* lengths of values tried
    Hashes,         \* pairs <<hash1, hash2>> of hash functions tried
    Radix,          \* values of a byte: 256
    WordEndFlag,    \* 2^63
    HashModulus,    \* 2^64
    WordBits,       \* bits of a word of the bloom filter: 64
    BitsPerKey,     \* bits of the bloom filter per key: 10
    BloomHint,      \* keys a CompactionWriter sizes its filter for: 1024
    WriteCapacity,  \* first capacity of its write buffer: 4096
    ReadBuffer      \* RECORD_READ_BUFFER_SIZE: 4096

ASSUME TableFileAssumption ==
    /\ Keys \subseteq Seq(0..(Radix - 1))
    /\ MaxRecords \in Nat
    /\ ValueLens \subseteq Nat
    /\ {Radix, WordEndFlag, HashModulus, WordBits, BitsPerKey, BloomHint,
        WriteCapacity, ReadBuffer} \subseteq Nat \ {0}

VARIABLES
    records,        \* what is to be written: a value or None for each key
    hash,           \* the hash functions
    writer,         \* "flush" or "compaction"
    pc,             \* "write", "written", "loaded" or "panicked"
    todo,           \* keys still to be written, ascending
    file,           \* cells in the file
    write_buffer, capacity,             \* CompactionWriter's buffer
    trie, bloom_filter, disk_offset,    \* under construction
    index                               \* SstIndex of the loaded table

inputs == << records, hash, writer >>
vars == << inputs, pc, todo, file, write_buffer, capacity, trie, bloom_filter,
           disk_offset, index >>

HEADER == << 76, 0 >>       \* the magic bytes and the version
HEADER_SIZE == 2
FOOTER_SIZE == 3
UNMARKED == 0

----------------------------------------------------------------------------
(* The trie: an arena of nodes, the first one the root; indices count from *)
(* 0.  The binary search over a node's sorted children is a selection.     *)

NewTrieNode == [offset |-> UNMARKED, children |-> << >>]

\* get_child_idx
get_child_idx(node, c) ==
    LET i == SelectInSeq(node.children, LAMBDA p : p[1] = c)
    IN  IF i = 0 THEN None ELSE node.children[i][2]

\* insert_child at the place the binary search gave.
insert_child(node, c, idx) ==
    LET pos == Cardinality({i \in DOMAIN node.children : node.children[i][1] < c})
    IN  [node EXCEPT !.children = InsertAt(@, pos + 1, << c, idx >>)]

\* get_or_insert_node
get_or_insert_node(t, c) ==
    LET child == get_child_idx(t.arena[t.at + 1], c)
        size == Len(t.arena)
    IN  IF child # None THEN [t EXCEPT !.at = child]
        ELSE [arena |-> Append([t.arena EXCEPT ![t.at + 1] =
                                    insert_child(@, c, size)], NewTrieNode),
              at |-> size]

\* set_offset: the flag marks the end of a key.
set_offset(node, offset) == [node EXCEPT !.offset = offset + WordEndFlag]

\* get_offset: an inner node that ends no key is not marked.
get_offset(node) ==
    IF node.offset = UNMARKED THEN None ELSE node.offset % WordEndFlag

\* Trie::insert
trie_insert(arena, key, offset) ==
    LET root == IF arena = << >> THEN << NewTrieNode >> ELSE arena
        end == FoldLeft(get_or_insert_node, [arena |-> root, at |-> 0], key)
    IN  [end.arena EXCEPT ![end.at + 1] = set_offset(@, offset)]

\* Trie::get
trie_get(arena, key) ==
    LET Step(at, c) == IF at = None THEN None ELSE get_child_idx(arena[at + 1], c)
        end == IF arena = << >> THEN None ELSE FoldLeft(Step, 0, key)
    IN  IF end = None THEN None ELSE get_offset(arena[end + 1])

\* serialize_into_buffer: the number of children is one byte.
serialize_into_buffer(node) ==
    << Len(node.children) % Radix, node.offset >> \o FlattenSeq(node.children)

\* Trie::serialize
trie_serialize(arena) ==
    << Len(arena) >>
        \o FlattenSeq([i \in DOMAIN arena |-> serialize_into_buffer(arena[i])])

\* TrieNode::deserialize_from_disk at offset "end" of b.  A read beyond the
\* buffer panics, whatever it is taken to return here.
deserialize_node(b, end) ==
    LET Cell(i) == IF i <= Len(b) THEN b[i] ELSE 0
    IN  [offset |-> Cell(end + 2),
         children |-> [j \in 1..Cell(end + 1) |->
                        << Cell(end + 1 + 2 * j), Cell(end + 2 + 2 * j) >>]]

\* Trie::deserialize_from_disk; "end" tells how far it read.
trie_deserialize(b) ==
    LET Step(s, i) ==
            LET node == deserialize_node(b, s.end)
            IN  [arena |-> Append(s.arena, node),
                 end |-> s.end + 2 + 2 * Len(node.children)]
    IN  FoldLeft(Step, [arena |-> << >>, end |-> 1], [i \in 1..b[1] |-> i])

----------------------------------------------------------------------------
(* The bloom filter.                                                       *)

\* BloomFilter::new: num_words, num_bits and num_hashes; ln 2 is 0.693.
BloomFilter_new(size) ==
    LET words == (size * BitsPerKey + 2 * (WordBits - 1)) \div WordBits
        num_bits == WordBits * words
        rounded == (693 * num_bits + 500 * size) \div (1000 * size)
    IN  [bits |-> [w \in 1..words |-> {}],
         num_bits |-> num_bits,
         num_hashes |-> IF size = 0 THEN HashModulus - 1
                        ELSE IF rounded < 1 THEN 1 ELSE rounded]

\* The bit of the i-th hash of a key.
BitIndex(filter, key, i) ==
    ((hash[1][key] + i * hash[2][key]) % HashModulus) % filter.num_bits

SetBits(filter, key, hashes) ==
    LET idx == {BitIndex(filter, key, i) : i \in hashes}
    IN  [filter EXCEPT !.bits = [w \in DOMAIN @ |->
            @[w] \cup {b % WordBits : b \in {x \in idx : x \div WordBits = w - 1}}]]

\* Mutant: the loop starts from 1.
bloom_insert_from_1(filter, key) ==
    SetBits(filter, key, 1..(filter.num_hashes - 1))

\* BloomFilter::insert
bloom_insert(filter, key) == SetBits(filter, key, 0..(filter.num_hashes - 1))

\* BloomFilter::contains
contains(filter, key) ==
    \A i \in 0..(filter.num_hashes - 1) :
        LET b == BitIndex(filter, key, i)
        IN  b % WordBits \in filter.bits[(b \div WordBits) + 1]

\* BloomFilter::serialize and ::from_bytes
bloom_serialize(filter) ==
    encode_varint[Len(filter.bits)] \o filter.bits \o << filter.num_hashes >>

bloom_from_bytes(b) ==
    LET words == decode_varint(b, 0)
    IN  [bits |-> SubSeq(b, words.len + 1, words.len + words.val),
         num_bits |-> WordBits * words.val,
         num_hashes |-> b[words.len + words.val + 1]]

----------------------------------------------------------------------------
(* Writing.                                                                *)

\* The bytes of a key's record.
Blob(k) == IF records[k] = None THEN encode_tombstone_record(k)
                                ELSE encode_data_record(k, records[k])

\* Keys compare as byte strings.
Less(a, b) ==
    \/ IsStrictPrefix(a, b)
    \/ \E i \in DOMAIN a \cap DOMAIN b :
        a[i] < b[i] /\ \A j \in 1..(i - 1) : a[j] = b[j]

\* A memtable of any records, or what a merge yields of any tables: data
\* records only.  The value's bytes tell its key.
Init ==
    /\ writer \in {"flush", "compaction"}
    /\ hash \in Hashes
    /\ \E n \in 0..MaxRecords : \E ks \in kSubset(n, Keys) :
        \E len \in [ks -> IF writer = "flush" THEN ValueLens \cup {None}
                                              ELSE ValueLens] :
            /\ todo = SetToSortSeq(ks, Less)
            /\ records = [k \in ks |->
                    IF len[k] = None THEN None
                    ELSE [i \in 1..len[k] |-> 100 * SelectInSeq(todo, LAMBDA x : x = k) + i]]
    /\ pc = "write"
    /\ file = HEADER
    /\ write_buffer = << >>
    /\ capacity = WriteCapacity
    /\ trie = << >>
    /\ bloom_filter = BloomFilter_new(IF writer = "flush" THEN Len(todo)
                                                          ELSE BloomHint)
    /\ disk_offset = HEADER_SIZE
    /\ index = None

\* What both writers note about the next record.
Note(k) ==
    /\ todo' = Tail(todo)
    /\ trie' = trie_insert(trie, k, disk_offset)
    /\ bloom_filter' = bloom_insert(bloom_filter, k)
    /\ disk_offset' = disk_offset + Len(Blob(k))

\* inorder_flush: each record goes to the file at once.
FlushRecord ==
    /\ writer = "flush" /\ todo # << >>
    /\ Note(Head(todo))
    /\ file' = file \o Blob(Head(todo))
    /\ UNCHANGED << inputs, pc, write_buffer, capacity, index >>

\* The write buffer does not take the next record any more.
WriteDue(k) == Len(write_buffer) + Len(Blob(k)) >= capacity

\* Mutant: the buffer is written out and not cleared.
PushRecordNoClear ==
    /\ writer = "compaction" /\ todo # << >>
    /\ Note(Head(todo))
    /\ file' = IF WriteDue(Head(todo)) THEN file \o write_buffer ELSE file
    /\ write_buffer' = write_buffer \o Blob(Head(todo))
    /\ UNCHANGED << inputs, pc, capacity, index >>

\* CompactionWriter::push: the buffer is written out when it would reach its
\* capacity, which grows with a record larger than it.
PushRecord ==
    /\ writer = "compaction" /\ todo # << >>
    /\ Note(Head(todo))
    /\ LET kept == IF WriteDue(Head(todo)) THEN << >> ELSE write_buffer
       IN  /\ write_buffer' = kept \o Blob(Head(todo))
           /\ capacity' = Max({capacity,
                    IF Len(write_buffer') > capacity THEN 2 * capacity ELSE 0,
                    Len(write_buffer')})
    /\ file' = IF WriteDue(Head(todo)) THEN file \o write_buffer ELSE file
    /\ UNCHANGED << inputs, pc, index >>

\* encode_footer: where the index block starts, its length, and where the
\* bloom filter starts.
encode_footer(index_block_start, index_block) ==
    << index_block_start, Len(index_block), index_block_start + Len(index_block) >>

\* The end of write_sstable and CompactionWriter::finish: the rest of the
\* buffer, the index block, the bloom filter and the footer.
Finish ==
    /\ pc = "write" /\ todo = << >>
    /\ LET block == trie_serialize(trie)
       IN  file' = file \o write_buffer \o block \o bloom_serialize(bloom_filter)
                        \o encode_footer(disk_offset, block)
    /\ write_buffer' = << >>
    /\ pc' = "written"
    /\ UNCHANGED << inputs, todo, capacity, trie, bloom_filter, disk_offset,
                    index >>

----------------------------------------------------------------------------
(* Reading.                                                                *)

\* Cells from offset a up to offset b.
Cells(a, b) == SubSeq(file, a + 1, b)

\* SSTableFooter::from_disk_sstable
footer(footer_offset) ==
    LET cells == Cells(footer_offset, footer_offset + FOOTER_SIZE)
    IN  [index_block_start |-> cells[1], index_block_len |-> cells[2],
         bloom_filter_start |-> cells[3]]

\* validate_buffer_and_get_version: the magic bytes and the version.
ValidHeader == Cells(0, HEADER_SIZE) = HEADER

\* SSTable::from_path and SstIndex::from_disk_sstable.
Load ==
    LET footer_offset == Len(file) - FOOTER_SIZE
        start == footer(footer_offset)
        block == Cells(start.index_block_start, start.bloom_filter_start)
        read == trie_deserialize(block)
    IN  /\ pc = "written"
        /\ ValidHeader
        /\ IF read.end > Len(block)
           THEN pc' = "panicked" /\ UNCHANGED index
           ELSE /\ pc' = "loaded"
                /\ index' = [trie |-> read.arena,
                             bloom_filter |-> bloom_from_bytes(
                                Cells(start.bloom_filter_start, footer_offset)),
                             data_block_end |-> start.index_block_start]
        /\ UNCHANGED << inputs, todo, file, write_buffer, capacity, trie,
                        bloom_filter, disk_offset >>

\* What a lookup returns besides a value.
Tombstone == "tombstone"
NotFound == "not found"
Panic == "panic"

\* read_oversized_record_from_disk: the value's part in the buffer, whose
\* size is at offset "at", and a second read for the rest.
read_oversized_record(offset, buffer, at) ==
    LET blob == decode_varint(buffer, at)
        start == at + blob.len
    IN  SubSeq(buffer, start + 1, ReadBuffer)
            \o Cells(offset + ReadBuffer, offset + start + blob.val)

\* read_data_block: a first read of ReadBuffer cells, zeros beyond the end of
\* the file.  A value's size that is not all in it panics.
read_data_block(offset, key) ==
    LET buffer == [i \in 1..ReadBuffer |->
                    IF offset + i <= Len(file) THEN file[offset + i] ELSE 0]
        log == decode_varint(buffer, 1)
        total_key_bytes == varint_size_from_len(Len(key)) + Len(key)
        at == 1 + log.len + total_key_bytes
        blob == decode_varint(buffer, at)
    IN  IF buffer[1] = TOMBSTONE_LOG_HEADER THEN Tombstone
        ELSE IF \A i \in (at + 1)..ReadBuffer : buffer[i] >= Base THEN Panic
        ELSE IF at + (log.val - total_key_bytes) > ReadBuffer
        THEN read_oversized_record(offset, buffer, at)
        ELSE Slice(buffer, << at + blob.len, blob.val >>)

\* SstIndex::get_offset_for_key
get_offset_for_key(key) ==
    IF contains(index.bloom_filter, key) THEN trie_get(index.trie, key) ELSE None

\* SSTable::search
lookup(key) ==
    LET offset == get_offset_for_key(key)
    IN  IF offset = None THEN NotFound ELSE read_data_block(offset, key)

\* SSTableIterator: the records from the header to the index block.
iterate ==
    LET buffer == Cells(HEADER_SIZE, index.data_block_end)
        from[off \in 0..Len(buffer)] ==
            IF off >= Len(buffer) \/ decode_disk_record(buffer, off) = None
            THEN << >>
            ELSE LET r == decode_disk_record(buffer, off)
                 IN  << [key |-> r.key, value |-> r.value] >> \o from[r.end]
    IN  from[0]

\* search_data_block: a scan of the block that goes by the records' sizes.
search_data_block(key) ==
    LET block == Cells(HEADER_SIZE, index.data_block_end)
        from[off \in 0..Len(block)] ==
            LET log == decode_varint(block, off + 1)
                klen == decode_varint(block, off + 1 + log.len)
                koff == off + 1 + log.len + klen.len
                blob == decode_varint(block, koff + klen.val)
            IN  IF off = Len(block) THEN NotFound
                ELSE IF Slice(block, << koff, klen.val >>) # key
                THEN from[off + 1 + log.len + log.val]
                ELSE IF block[off + 1] = TOMBSTONE_LOG_HEADER THEN Tombstone
                ELSE Slice(block, << koff + klen.val + blob.len, blob.val >>)
    IN  from[0]

Done == pc \in {"loaded", "panicked"} /\ UNCHANGED vars

Next == FlushRecord \/ PushRecord \/ Finish \/ Load \/ Done

Spec == Init /\ [][Next]_vars

----------------------------------------------------------------------------
(* Properties.                                                             *)

\* What a lookup should return.
Stored(k) ==
    IF k \notin DOMAIN records THEN NotFound
    ELSE IF records[k] = None THEN Tombstone ELSE records[k]

\* Every trie node's number of children fits in a byte.
FanOutFits == \A i \in DOMAIN trie : Len(trie[i].children) < Radix

\* The record's key and its value's size lie in the first read.
SizeInBuffer(k) ==
    k \in DOMAIN records /\ records[k] # None =>
        Len(Blob(k)) - Len(records[k]) <= ReadBuffer

\* While the file is written, the offset the index has for each record is
\* the place of its bytes in the file and the write buffer together, however
\* the buffer is written out or grows.
OffsetsMatchBytes ==
    pc \in {"write", "written"} =>
        \A k \in DOMAIN records \ ToSet(todo) :
            LET offset == trie_get(trie, k)
                r == decode_disk_record(file \o write_buffer, offset)
            IN  offset # None /\ r.key = k /\ r.value = records[k]

\* A loaded table answers for every key what was written for it: a value, a
\* tombstone or nothing, through filter, index and read buffer, for a key
\* that is the prefix of others and for a value that ends beyond the buffer.
LookupExact ==
    FanOutFits =>
        /\ pc # "panicked"
        /\ pc = "loaded" =>
            \A k \in Keys : SizeInBuffer(k) => lookup(k) = Stored(k)

\* An iterator over a loaded table yields all records in ascending order and
\* nothing of the index behind them; a scan by the records' sizes agrees.
ScanExact ==
    pc = "loaded" =>
        LET order == SetToSortSeq(DOMAIN records, Less)
        IN  /\ iterate = [i \in DOMAIN order |->
                            [key |-> order[i], value |-> records[order[i]]]]
            /\ \A k \in Keys : search_data_block(k) = Stored(k)
=============================================================================
