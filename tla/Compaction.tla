----------------------------- MODULE Compaction -----------------------------
(***************************************************************************)
(* run_compaction (src/compaction/mod.rs): the N-way merge of the cached   *)
(* SSTables through a binary heap, step by step, on the heap algorithm of  *)
(* the standard library.  The heap orders Reverse<HeapNode> by the         *)
(* operators <= that derive from HeapNode's PartialOrd, which compares     *)
(* keys only; HeapNode's Ord, with its tie-break on the table, is never    *)
(* called.  What the writer adds around the records (index, filter,        *)
(* footer) is left out; the file is the sequence of its records.           *)
(***************************************************************************)
EXTENDS Table

CONSTANTS
    MaxTables,      \* bound: tables in the cache at a compaction
    MaxRecords      \* bound: records in all of them

ASSUME CompactionAssumption ==
    /\ Key \subseteq Nat
    /\ MaxTables \in Nat \ {0}
    /\ MaxRecords \in Nat

VARIABLES
    tables,     \* what clone_tables returned, newest first
    iters,      \* what each SSTableIterator has still to return
    heap,       \* the BinaryHeap's array
    smallest,   \* the node popped last, Absent before the first
    out,        \* the records pushed to the writer
    seeded,     \* tables the heap has been seeded from
    pc          \* "seed", "pop", "clear" or "done"

vars == << tables, iters, heap, smallest, out, seeded, pc >>

----------------------------------------------------------------------------
(* The standard library's BinaryHeap (external), 1-based.                  *)

\* Mutant: the heap without Reverse.
LE_max(a, b) == a.key <= b.key

\* a <= b on Reverse<HeapNode>, from HeapNode::partial_cmp.
LE(a, b) == b.key <= a.key

Swap(h, i, j) == [h EXCEPT ![i] = h[j], ![j] = h[i]]

\* sift_up, one round of its loop: the element s.pos takes the place of its
\* parent, unless that is not smaller.
sift_up(s) ==
    LET parent == s.pos \div 2 IN
    IF s.pos = 1 \/ LE(s.heap[s.pos], s.heap[parent]) THEN s
    ELSE [s EXCEPT !.heap = Swap(s.heap, s.pos, parent), !.pos = parent]

\* sift_down_to_bottom, one round: down along the greater children, and up
\* again from the bottom.
sift_down_to_bottom(s) ==
    LET left == 2 * s.pos
        child == IF left < Len(s.heap) /\ LE(s.heap[left], s.heap[left + 1])
                 THEN left + 1 ELSE left
    IN  IF left > Len(s.heap) THEN [s EXCEPT !.down = FALSE]
        ELSE [s EXCEPT !.heap = Swap(s.heap, s.pos, child), !.pos = child]

sift(s) == IF s.down THEN sift_down_to_bottom(s) ELSE sift_up(s)

\* The loops run to their end, for which twice the heap's length is enough;
\* after[n] has the one state after n rounds.
sifted(h, pos, down) ==
    LET rounds == 2 * Len(h)
        after[n \in 0..rounds] ==
            IF n = 0 THEN {[heap |-> h, pos |-> pos, down |-> down]}
                     ELSE {sift(s) : s \in after[n - 1]}
    IN  (CHOOSE s \in after[rounds] : TRUE).heap

heap_push(h, node) == sifted(Append(h, node), Len(h) + 1, FALSE)

\* pop takes the first element; the last one replaces it and is sifted.
heap_pop(h) ==
    IF Len(h) = 1 THEN << >>
    ELSE sifted(<< Last(h) >> \o Tail(Front(h)), 1, TRUE)

----------------------------------------------------------------------------
(* run_compaction.                                                         *)

\* The records of a data block in key order, as SSTableIterator yields them.
Records(b) ==
    LET held == {k \in Key : b[k] # Absent}
        keys == InOrder(held, [k \in held |-> k])
    IN  [i \in DOMAIN keys |-> [key |-> keys[i], datum |-> b[keys[i]]]]

\* The heap after next() of table i: a node more, if there is a record.
PushNext(h, i) ==
    IF iters[i] = << >> THEN h
    ELSE heap_push(h, [key |-> Head(iters[i]).key,
                       datum |-> Head(iters[i]).datum, table |-> i])

Advance(i) == iters' = [iters EXCEPT ![i] = IF @ = << >> THEN @ ELSE Tail(@)]

\* Any tables: each key deleted, absent or stored.  A value names its
\* table, the newest table has the largest.
Kind == {1, Tombstone, Absent}

Init ==
    /\ \E n \in 1..MaxTables : \E kind \in [(1..n) \X Key -> Kind] :
        /\ Cardinality({x \in (1..n) \X Key : kind[x] # Absent}) <= MaxRecords
        /\ tables = [i \in 1..n |-> [k \in Key |->
                IF kind[i, k] \in Value THEN n - i + 1 ELSE kind[i, k]]]
    /\ iters = [i \in DOMAIN tables |-> Records(tables[i])]
    /\ heap = << >>
    /\ smallest = Absent
    /\ out = << >>
    /\ seeded = 0
    /\ pc = "seed"

\* The heap is seeded with the first record of each table.
Seed ==
    /\ pc = "seed"
    /\ seeded' = seeded + 1
    /\ heap' = PushNext(heap, seeded + 1)
    /\ Advance(seeded + 1)
    /\ pc' = IF seeded + 1 = Len(tables) THEN "pop" ELSE "seed"
    /\ UNCHANGED << tables, smallest, out >>

\* The smallest node leaves the heap.
Pop ==
    /\ pc = "pop"
    /\ heap # << >>
    /\ smallest' = Head(heap)
    /\ heap' = heap_pop(heap)
    /\ pc' = "clear"
    /\ UNCHANGED << tables, iters, out, seeded >>

\* peek() finds a node with the key in hand.
Duplicate == heap # << >> /\ Head(heap).key = smallest.key

\* Mutants: the dropped node's table is not asked for its next record, or
\* the node is looked at and not popped.
ClearNoRefill ==
    /\ pc = "clear"
    /\ Duplicate
    /\ heap' = heap_pop(heap)
    /\ UNCHANGED << tables, iters, smallest, out, pc, seeded >>

ClearNoPop == pc = "clear" /\ Duplicate /\ UNCHANGED vars

\* While the next node has the same key it is dropped and replaced by the
\* next record of its table.
Clear ==
    /\ pc = "clear"
    /\ Duplicate
    /\ heap' = PushNext(heap_pop(heap), Head(heap).table)
    /\ Advance(Head(heap).table)
    /\ UNCHANGED << tables, smallest, out, pc, seeded >>

\* Mutant: the written record's table is not asked for its next one.
EmitNoNext ==
    /\ pc = "clear"
    /\ ~Duplicate
    /\ out' = IF smallest.datum = Tombstone THEN out
              ELSE Append(out, [key |-> smallest.key, datum |-> smallest.datum])
    /\ pc' = "pop"
    /\ UNCHANGED << tables, iters, heap, smallest, seeded >>

\* A data record is written, a tombstone is not; the table it came from
\* puts its next record on the heap.
Emit ==
    /\ pc = "clear"
    /\ ~Duplicate
    /\ out' = IF smallest.datum = Tombstone THEN out
              ELSE Append(out, [key |-> smallest.key, datum |-> smallest.datum])
    /\ heap' = PushNext(heap, smallest.table)
    /\ Advance(smallest.table)
    /\ pc' = "pop"
    /\ UNCHANGED << tables, smallest, seeded >>

Finish ==
    /\ pc = "pop"
    /\ heap = << >>
    /\ pc' = "done"
    /\ UNCHANGED << tables, iters, heap, smallest, out, seeded >>

Done == pc = "done" /\ UNCHANGED vars

Step == Seed \/ Pop \/ Clear \/ Emit \/ Finish

Next == Step \/ Done

Spec == Init /\ [][Next]_vars /\ WF_vars(Step)

----------------------------------------------------------------------------
(* Properties.                                                             *)

\* The block the written records make up.
OutBlock ==
    [k \in Key |->
        LET i == SelectInSeq(out, LAMBDA e : e.key = k)
        IN  IF i = 0 THEN Absent ELSE out[i].datum]

\* The records are written in strictly increasing key order: the reader of
\* an SSTable and the next compaction rely on it.  The heap never brings a
\* key back after a larger one, ties included.
OutputSorted == \A i, j \in DOMAIN out : i < j => out[i].key < out[j].key

\* Every table that has records left has exactly one in the heap or in hand,
\* so the heap never outgrows the number of tables and no table is starved.
OneNodePerTable ==
    pc \in {"pop", "clear"} =>
        \A i \in DOMAIN tables :
            LET n == Cardinality({j \in DOMAIN heap : heap[j].table = i})
                       + (IF pc = "clear" /\ smallest.table = i THEN 1 ELSE 0)
            IN  n <= 1 /\ (iters[i] # << >> => n = 1)

\* The merged table has, for each key some table holds, the record of one of
\* them, and nothing else: this is what the engine's model assumes of it.
MergeOfTables == pc = "done" => OutBlock \in Merges(tables)

\* When duplicate keys exist across tables, the newer table's record wins.
NewestWins ==
    pc = "done" => \A k \in Key : OutBlock[k] = search(tables, k)

\* The merge ends.
Terminates == <>(pc = "done")
=============================================================================
