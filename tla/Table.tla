------------------------------- MODULE Table -------------------------------
(***************************************************************************)
(* The tables lsmlite stores records in, as pure operators: the memtable   *)
(* (src/memtable/inner.rs, record.rs), its write-ahead log buffer          *)
(* (src/wal/mod.rs), the queue of immutable memtables                      *)
(* (src/memtable/immutable.rs), the SSTable a memtable is written to       *)
(* (src/sstable/encode.rs) and the cache of SSTables (src/sstable/mod.rs). *)
(*                                                                         *)
(* Keys are abstract: the red-black tree that orders them is seen here     *)
(* through what it promises, one node per key.  A value is the ordinal of  *)
(* the write that stored it, so two writes never store the same value, and *)
(* all values are taken to have one encoded length (overwriting a value by *)
(* one of another length is the business of the Record module).            *)
(***************************************************************************)
EXTENDS Integers, FiniteSets, SequencesExt

CONSTANTS
    Key,            \* the keys
    Tombstone,      \* what a delete stores
    Absent,         \* no record for a key
    MaxNodes,       \* config.max_memtable_nodes
    MaxSize,        \* config.max_memtable_size
    DataSize,       \* bytes of an encoded data record
    TombstoneSize   \* bytes of an encoded tombstone record

\* Values are the ordinals of the writes, counted from 1.
Value == Nat \ {0}

Datum == Value \cup {Tombstone}

\* A log entry, or the record a request carries.
Entry == [key : Key, datum : Datum]

\* A record in memory: the encoded bytes say datum, the offset of the value
\* inside them is present (Some) or not.
Node == [blob : Datum, some : BOOLEAN]

\* An active or immutable memtable; wal names its log file by timestamp and
\* buffer is the part of the log not yet written to that file.
Table == [wal : Nat, arena : [Key -> Node \cup {Absent}], size : Nat,
          buffer : Seq(Entry)]

\* What an SSTable file holds for each key.
Block == [Key -> Datum \cup {Absent}]

\* The sentinels are none of the things they stand beside.
ASSUME TableAssumption ==
    /\ IsFiniteSet(Key)
    /\ Tombstone \notin Value
    /\ Absent \notin Value /\ Absent # Tombstone /\ Absent \notin Key
    /\ Absent \notin Node /\ Absent \notin Table
    /\ MaxNodes \in Nat
    /\ MaxSize \in Nat
    /\ DataSize \in Nat \ {0}
    /\ TombstoneSize \in Nat \ {0}

\* The elements of S from the least rank to the greatest; no two have one
\* rank.  (A sort: the i-th element is the one that i - 1 others precede.)
InOrder(S, rank) ==
    [i \in 1..Cardinality(S) |->
        CHOOSE x \in S : Cardinality({y \in S : rank[y] < rank[x]}) = i - 1]

----------------------------------------------------------------------------
(* Records and memtables.                                                  *)

\* MemtableInner::new with a new log file named ts.
NewTable(ts) ==
    [wal |-> ts, arena |-> [k \in Key |-> Absent], size |-> 0, buffer |-> << >>]

Nodes(t) == {k \in Key : t.arena[k] # Absent}

full(t) == Cardinality(Nodes(t)) = MaxNodes \/ t.size >= MaxSize

NodeSize(d) == IF d = Tombstone THEN TombstoneSize ELSE DataSize

\* encode_data_record and encode_tombstone_record.
NewNode(d) == [blob |-> d, some |-> d # Tombstone]

\* Record::update_from_record: a tombstone clears the value's offset,
\* overwrite_data rewrites the bytes and leaves the offset as it was.
update_from_record(n, d) ==
    IF d = Tombstone THEN [blob |-> Tombstone, some |-> FALSE]
                     ELSE [n EXCEPT !.blob = d]

\* The root's size is never counted, an update's neither.
insert_node(t, e) ==
    LET k == e.key IN
    IF t.arena[k] # Absent
    THEN [t EXCEPT !.arena[k] = update_from_record(t.arena[k], e.datum)]
    ELSE [t EXCEPT !.arena[k] = NewNode(e.datum),
                   !.size = IF Nodes(t) = {} THEN t.size
                                             ELSE t.size + NodeSize(e.datum)]

\* Mutant: a flush that clears the record it should have kept.
write_log_cleared(t, e, due) ==
    [t EXCEPT !.buffer = IF due THEN << >> ELSE Append(t.buffer, e)]

\* Wal::write_log: the buffer goes to the file first, if it is due.
write_log(t, e, due) ==
    [t EXCEPT !.buffer = Append(IF due THEN << >> ELSE t.buffer, e)]

\* MemtableInner::get: a datum, Tombstone or Absent.
get(t, k) ==
    CASE t.arena[k] = Absent -> Absent
      [] t.arena[k] # Absent -> IF t.arena[k].some THEN t.arena[k].blob
                                                   ELSE Tombstone

\* Mutants: the wrong end of the queue, and clear() for pop_front().
insert_front(q, t) == << t >> \o q

pop_all(q) == << >>

pop_back(q) == IF q = << >> THEN << >> ELSE Front(q)

back(q) == Last(q)

\* ImmutableMemtable::insert, ::pop and the table ::flush takes.
insert(q, t) == Append(q, t)

pop(q) == IF q = << >> THEN << >> ELSE Tail(q)

front(q) == Head(q)

\* Mutant: the queue searched without rev().
get_queue_oldest(q, k) ==
    LET i == SelectInSeq(q, LAMBDA t : get(t, k) # Absent)
    IN  IF i = 0 THEN Absent ELSE get(q[i], k)

\* ImmutableMemtable::get: the newest table of the queue that has the key.
get_queue(q, k) ==
    LET i == SelectLastInSeq(q, LAMBDA t : get(t, k) # Absent)
    IN  IF i = 0 THEN Absent ELSE get(q[i], k)

----------------------------------------------------------------------------
(* SSTables.                                                               *)

\* sstable::encode::write_sstable: every node's bytes, in key order.
write_sstable(t) ==
    [k \in Key |-> IF t.arena[k] = Absent THEN Absent ELSE t.arena[k].blob]

\* Mutant: push_back().
push_back(tables, t) == Append(tables, t)

\* SSTableCache::push.
push(tables, t) == << t >> \o tables

\* SSTableCache::search: the first table with the key answers, a tombstone
\* answers that the key is absent.
search(blocks, k) ==
    LET i == SelectInSeq(blocks, LAMBDA b : b[k] # Absent)
    IN  IF i = 0 \/ blocks[i][k] = Tombstone THEN Absent ELSE blocks[i][k]

\* The blocks run_compaction may write for these tables, first table newest.
\* Which of several records with one key survives is left open: the heap
\* compares keys only, so it depends on the heap's shape.  Module Compaction
\* has the heap and shows that its result is one of these.  Tombstones go.
Holders(blocks, k) == {i \in DOMAIN blocks : blocks[i][k] # Absent}

Merges(blocks) ==
    {m \in [Key -> (UNION {{blocks[i][k] : i \in DOMAIN blocks} : k \in Key})
                       \cup {Absent}] :
        \A k \in Key :
            IF Holders(blocks, k) = {} THEN m[k] = Absent
            ELSE \E i \in Holders(blocks, k) :
                    m[k] = IF blocks[i][k] = Tombstone THEN Absent
                                                       ELSE blocks[i][k]}
=============================================================================
