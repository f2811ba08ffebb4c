---------------------------- MODULE LsmliteStore ----------------------------
(***************************************************************************)
(* The engine seen as a key-value store: the value of a key is the newest  *)
(* record for it in any table, and the engine implements KVStore.          *)
(***************************************************************************)
EXTENDS Lsmlite

\* The tables from the newest to the oldest: the active one, those in the
\* hands of a rotating call, the queue, the cache.
InTransit ==
    LET tables == {held[c] : c \in Client} \ {Absent}
    IN  CHOOSE s \in [1..Cardinality(tables) -> tables] :
            \A i, j \in DOMAIN s : i < j => s[i].wal > s[j].wal

Blocks ==
    LET tables == << memtable >> \o InTransit \o Reverse(immutable)
    IN  [i \in DOMAIN tables |-> write_sstable(tables[i])]
            \o [i \in DOMAIN cache |-> cache[i].data]

Contents == [k \in Key |-> search(Blocks, k)]

\* The gets that KVStore speaks about: not those that begin while a rotated
\* table is in transit.
Asking(c) == pc[c] \in {"immutable", "sstable", "done"} /\ ~gap[c]

Asked == [c \in Readers |-> IF Asking(c) THEN req[c].key ELSE Absent]

May == [c \in Readers |-> IF Asking(c) THEN seen[c] ELSE {}]

Answered ==
    [c \in Readers |-> IF Asking(c) /\ pc[c] = "done" THEN << ret[c] >> ELSE << >>]

KV == INSTANCE KVStore WITH
    Value <- 1..MaxOps, Reader <- Readers,
    asked <- Asked, may <- May, answer <- Answered

\* With one writer, sets only and no merge, the newest record of each key in
\* the tables is the last one written: no rotation, flush, load or pop hides,
\* loses or reorders a table.
ContentsAreStore == Contents = store

\* The engine then implements a key-value store: a set takes effect in the
\* one step of its insertion, also when that is the retry after a rotation,
\* and a get answers with a value its key had during the call, although
\* tables move from layer to layer between its three lookups.
ImplementsKVStore == KV!Spec
=============================================================================
