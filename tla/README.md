# lsmlite in TLA+

A verification project for `lsmlite`, an embedded LSM-tree key-value store in
Rust (`src/src/`). TLA+ modules model the engine's concurrent pipeline, its
restarts, and the algorithms and file formats under it; TLC checks them on
small instances. For every value of the parameters TLAPS proves the invariants
of the pipeline, running and across restarts; that tables not served yet are
recoverable whatever fails, and that a completed start serves what it found;
that the engine with one writer implements a key-value store until the first
merge; that the red-black tree is one and implements the memtable; that a merge
is sorted and complete; and that a record's bytes decode to its last write.

Paths below are relative to the repository; `PROJECT.json` maps every
definition to the lines it models.

## 1. The system

### Components

| Component | Source | State | Operations |
|---|---|---|---|
| Engine and client calls | `database/inner.rs`, `database/mod.rs` | `LsmliteInner`: memtable, immutable queue, SSTable cache, poison flag, senders to the two background tasks | `new`, `get`, `set`, `delete`, `rotate_table`, `check_poison_flag`, `drop` |
| Memtable | `memtable/inner.rs`, `memtable/mod.rs` | red-black tree in an arena, size in bytes, its `Wal` | `insert_data_record`, `insert_tombstone_record`, `get`, `full`, `rotate`, `flush_to_disk`, `from_wal` |
| Record | `memtable/record.rs`, `disk/encode.rs`, `disk/decode.rs`, `util/mod.rs` | encoded bytes and two views (offset, length) into them | `encode_*`, `decode_*`, `update_from_record`, varints |
| Immutable queue | `memtable/immutable.rs` | `VecDeque` of full memtables, oldest first | `insert`, `get`, `flush`, `pop`, `from_restart` |
| Flush task | `memtable/inner.rs` (`flush_memtable`) | one signal in service | write the oldest table to an SSTable, remove its log, hand the SSTable to the compaction task, wait for the acknowledgement |
| Compaction task | `compaction/mod.rs`, `sstable/compaction_writer.rs`, `sstable/iterator.rs` | a merge in progress | load an SSTable, pop the queue, merge the cache at `compaction_rate` tables, replace the cache, remove stale files, acknowledge |
| Write-ahead log | `wal/mod.rs` | file and buffer | `write_log`, `needs_flush`, `flush`, `WalIterator` |
| SSTable cache and files | `sstable/mod.rs`, `sstable/encode.rs` | `VecDeque` of tables, newest first; files on disk | `push`, `search`, `clone_tables`, `replace_with_compact_table`, `write_sstable`, `from_path` |
| Index trie, bloom filter, footer | `ssindex/`, `sstable/bloom_filter.rs`, `sstable/footer.rs` | part of an SSTable file | build, serialise, read back, look up |
| Data block reads | `disk/mod.rs` | none | `read_data_block` and its oversized-record path |
| Restart | `restart/` | none | scan the directory, replay logs, rebuild queue and cache |

### How they interact

* **Shared state**: the memtable, the queue and the cache are each behind a
  lock of its own, and no operation holds two of them. Every call locks the
  memtable first, lets go of it, and then locks the next layer.
* **Channels**: client calls send `Flush` to the flush task over a bounded
  channel (`memtable_flush_queue_size`); the flush task sends `LoadSSTable` to
  the compaction task over a second one (`compaction_queue_size`); the
  compaction task answers over a third, of capacity 1. `drop` sends `Shutdown`
  into the first two, to the compaction task first.
* **Poison flag**: set by the flush task when a file operation fails, read at
  the start of every call, which then panics.
* **Files**: log and SSTable file names are timestamps; a restart orders
  tables by them.

### What is hard about it

* `get` looks at three layers one after the other while tables move between
  them.
* Rotation is three steps (take the table out, queue it, signal it) with two
  awaits in between, so several calls can be in it at once.
* Signals, queued tables and SSTables are matched by position only: `Flush`
  carries no table, `pop()` names none, and `ImmutableMemtable::flush`
  `expect`s one to be there. A failed flush skips its pop.
* Three bounded channels form a loop in which everyone can wait for everyone.
* `cleanup` deletes every other SSTable file of the directory. That is safe
  only if nobody is writing one.
* A record is updated in place, in bytes whose varints change their length.
* The merge depends on how the heap treats equal keys.
* The process can stop between any two file operations, also those of a start,
  and every start changes the directory it recovers from.
* A call can be cancelled at any of its awaits.
* A file's index, filter, footer and records are tied together by offsets that
  two writers and three readers compute on their own.

`PROJECT.json` lists these as hazards at their lines, with the properties that
cover them.

### What makes each component correct

* *Calls*: a get returns a value its key had at some moment of the call; a
  write that returned is stored; every call returns.
* *Flush pipeline*: each signal finds its table; a table leaves the queue only
  once its SSTable serves it; a table not yet served is recoverable from its
  log or from a complete file; the queue drains; shutdown ends both tasks.
* *Compaction*: sorted output without duplicates, each key's newest record, no
  table starved, termination; it works alone on the directory; the cache keeps
  the order of file names.
* *Records*: bytes decode to the last write; both views show what they should.
* *Memtable*: a red-black tree whose searches show one record per key, whose
  flush is sorted and complete, and whose size is what `full` takes it to be.
* *SSTable files*: a loaded file answers for every key what was written.
* *Restart*: what was on disk is served again; what was acknowledged is on
  disk; a start can always be made.

## 2. The modules

| Module | Models | Extends |
|---|---|---|
| `Table` | memtable, log buffer, queue, SSTable contents, cache: pure operators | |
| `Lsmlite` | calls, flush task, compaction task, channels, files, cancellation, drop | `Table` |
| `KVStore` | what the engine promises: a value per key, gets that take time | |
| `LsmliteStore` | the engine's contents and the mapping to `KVStore` | `Lsmlite` |
| `LsmliteRestart` | the process stops; scan, replay, rebuild; several times | `LsmliteStore` |
| `TableProofs` | lemmas on the operators of `Table` | `Table` |
| `LsmliteProofs` | proofs: types, the pipeline of queue, signals and tasks, the logs, the cache and its files | `Lsmlite`, `TableProofs` |
| `LsmliteStoreProofs` | proofs: one writer, the order of the queue; the contents of the tables are what was written | `LsmliteStore`, `LsmliteProofs` |
| `LsmliteReadProofs` | proofs: gets, and the refinement of `KVStore` | `LsmliteStoreProofs` |
| `LsmliteRestartProofs` | proofs: the engine stopped at any step and started again | `LsmliteRestart`, `LsmliteStoreProofs` |
| `Memtable` | what a memtable promises, in the operators of `Table` | `Table` |
| `Tree` | the red-black tree in its arena, mapped to `Memtable` | `Table` |
| `TreeProofs` | proofs: the tree, its colours, its traversal, the refinement of `Memtable` | `Tree` |
| `Codec` | varints, record formats, decoding: pure operators | |
| `Record` | one record's bytes and views under updates in place | `Codec` |
| `RecordProofs` | proofs: varints, records and their updates in place | `Record` |
| `TableFile` | one SSTable file: two writers, trie, bloom filter, footer, readers | `Codec` |
| `Compaction` | `run_compaction` on the standard library's binary heap | `Table` |
| `CompactionProofs` | proofs: the heap, and what a merge writes | `Compaction`, `TableProofs` |
| `MCLsmlite`, `MCRestart`, `MCTree`, `MCTableFile`, `MCCompaction` | instances for TLC (symmetry, keys, hash functions) | |

The levels meet in two places: `Tree` implements the memtable that `Lsmlite` is
built on, and `Compaction` shows that a merge is a member of the set `Merges`
that `Lsmlite` chooses from. `Lsmlite` in turn implements `KVStore`.

### Lsmlite

State and code:

| Variable | Code |
|---|---|
| `memtable`, `immutable`, `cache` | `Memtable.inner`, `ImmutableMemtable.table`, `SSTableCache.cache` |
| `poisoned` | `LsmliteInner.poisoned` |
| `flushes`, `flushShut` | `memtable_channel`: the number of `Flush` messages, and whether a `Shutdown` follows them. `Flush` has no payload and `Shutdown` is always last, so this is the whole queue |
| `compChan`, `ackChan` | the compaction channel and the acknowledgement channel |
| `wals`, `sstables`, `clock` | the directory, and the clock that names files |
| `flushPc`, `flushPath`, `flushHead` | where the flush task is, its file, its reference to the table |
| `compPc`, `compPath` | where the compaction task is, the file it merges into |
| `pc`, `req`, `held`, `ret` | per caller: where the call is, its argument, the table it rotated out, its answer |
| `handle` | the `LsmLite` handles: open, in `drop`, gone |
| `ops`, `store`, `seen`, `gap`, `lost` | bound and history variables: what callers were told |

Actions and code:

| Actions | Code |
|---|---|
| `Set`, `Delete` (`Write`) | `set`, `delete` up to their return or to `TableFull` |
| `Rotate`, `Push`, `Signal`, `Retry` | `rotate_table` step by step, then the second insertion |
| `Get`, `GetImmutable`, `GetSSTable`, `Return` | the three lookups of `get` |
| `CallPoisoned`, `RotateFails`, `SignalClosed` | the panics of a call |
| `Cancel` | the caller drops the future at an await; a table taken out and not queued yet goes with it, a queued one stays without its signal |
| `FlushRecv`, `FlushFront`, `FlushWrite`, `FlushUnlink`, `FlushLoad`, `FlushAck` | `flush_memtable` and `flush_memtable_inner` |
| `FlushShutdown`, `FlushRecvClosed`, `FlushCreateFails`, `FlushFails`, `FlushAckClosed` | its ends and error paths |
| `CompactorLoad`, `CompactorPop`, `CompactorCreate`, `CompactorFinish`, `CompactorReplace`, `CompactorCleanup`, `CompactorCleaned`, `CompactorAck` | `sstable_background`, `run_compaction`, `cleanup` |
| `CompactorShutdown`, `CompactorRecvClosed`, `CompactorFails` | its ends and panics |
| `DropSignalCompactor`, `DropSignalFlusher`, `DropInTask` | `Drop for LsmliteInner`, on a thread that may block and in a task of the runtime, where `blocking_send` panics |
| `Quiescent` | nothing to do: keeps TLC's deadlock check meaningful elsewhere |

*Grain.* What runs under one lock, one channel operation, and one file
operation are each one step. The poison flag's load is joined to the step
after it, and reading a file no other task can touch to the step that uses it.

*Abstractions.* Keys are opaque. A value is the ordinal of the write that
stored it, so a stale value is told from a fresh one; all values have one
encoded length (`Record` covers the others). The red-black tree is seen as one
node per key. `Wal::needs_flush` may answer either way (`NeedsFlush`). A merge
may produce any member of `Merges`: for each key, the record of some table
that holds it; `Compaction` shows that this is what the heap does. The clock is
monotone and advances between two names. A file that failed half way keeps the
contents `Partial`.

### LsmliteStore and KVStore

`Contents` is the newest record of each key over all tables, from the active
one to the end of the cache, tables in a caller's hands included. `KVStore` is
a map that a set changes in one step and a get that takes time: it returns a
value its key had between call and answer. The refinement mapping takes
`store` from the engine's history variable and a get's progress from `pc`; a
get that begins while a rotated table is in nobody's view is not a get of
`KVStore` (`Asking`).

### LsmliteRestart

Adds to `Lsmlite` the process itself.

| Variable | Code |
|---|---|
| `phase` | `running`; `down`; then the steps of a start: `memtable`, `unlink`, `cache`, `replay`, `signal`; or `failed`, when `LsmLite::new` panicked |
| `walFiles`, `sstFiles` | the two lists of `scan_directory` |
| `replayed` | the tables the workers have made so far |
| `place` | where `LsmLite::new` runs: on a thread, or in a task, where `blocking_send` panics |
| `crashes`, `expected` | bound; history: what the files held at the last start |

| Actions | Code |
|---|---|
| `Crash` | the process stops at any step: memory, channels and log buffers are gone, files stay |
| `Start` | `get_restart_state` |
| `StartMemtable`, `StartUnlink` | `construct_memtable`: new log, replay of the newest one, its removal |
| `StartCache` | `SSTableCache::from_restart`; a file without its footer panics |
| `StartReplay`, `StartReplayUnlink`, `StartQueue` | `read_immutable_tables`: one worker per rotated log, in parallel, collected in order |
| `StartSignal` | one `Flush` per log before any receiver runs |

`from_wal` inserts with `insert_record_from_wal`, which writes no log and hits
a `todo!()` when the table is full; it is a recursive function on the length of
the log. `scan_directory` sorts by name, which is `InOrder` of `Table`: the
i-th file is the one that i - 1 others precede. The first start of all, on an
empty directory, is `RestartInit`.

### Memtable and Tree

`Tree` has the arena with its links and colours. A node's index is its key,
since nodes are only appended and keep their key. Each turn of the loop in
`insert_fix_tree` is a step (`FixRecolor`, `FixInner`, `FixOuter`, `FixDone`),
so that the invariants also speak about the tree in the middle of an insertion.
`Shown`, the table a search shows, is mapped to the variable of `Memtable`.

### Codec and TableFile

A file is a sequence of cells: a byte of a record, or a whole integer where the
format fixes its width. `FlushRecord` and `PushRecord` are the two writers, the
second with its write buffer and the growth of a `Vec`; `Finish` writes index,
filter and footer; `Load` reads them back; `lookup`, `iterate` and
`search_data_block` are the readers. A byte has `Radix` values, a read buffer
`ReadBuffer` cells, a filter word `WordBits` bits, so that the wrap of the child
count, values beyond the buffer and filters of several words occur with few
records. The two hash functions are constants: all keys alike, all apart, and
apart in one of the two only. The logarithm in the number of hash functions is
taken as 0.693.

### Compaction

The heap is the standard library's algorithm (`sift_up`,
`sift_down_to_bottom`) with the comparison it really makes: `BinaryHeap` uses
`<=`, which on `Reverse<HeapNode>` comes from `partial_cmp`, and that compares
keys only. A hole that moves through the array is a recursive function on the
number of moves (`sifted`), each of them a `sift`. Steps are the seeding of the heap, a pop, the removal of one
duplicate, the writing of a record.

### Record

Bytes are modelled one by one, because the property is about where they lie.
A varint byte has `Base` digits instead of 128, so that lengths of one, two and
three bytes occur with short values; key and value bytes name the write they
belong to. `upper_bound` is the shifted bound of `varint_size_from_len`, a
recursive function. `panicked` records a slice out of range.

## 3. What TLC checks

All bounds are constants of the cfg files. In the runs of the pipeline
`MaxNodes = 1` makes every second
insertion a rotation, so that a few calls reach several rotated, flushed and
merged tables; `FlushQueue = 1` and `CompactionQueue = 1` make every channel
fill up; `CompactionRate = 2` makes the second flushed table start a merge.

### Runs that pass

| Run | Instance | Shows |
|---|---|---|
| `faults` | 2 writers, 1 key, 4 sets, every file operation may fail, a write may be cancelled at every await, drop on a thread or in a task | `TypeOK`; `PipelineInv`, the inductive invariant; `NoFlushDuringCompaction`; `FlushNeverEmpty`; `PopMatchesFlush`; `LeavesQueueWhenServed`; `CacheSortedByName`: the cache's order is the one a restart derives from names, across merges; `OnlyOldestLacksFile`: `cleanup` removes the file of no table in the cache but the compacted one |
| `reads` | 1 writer, 1 reader, 2 keys, 5 sets, two signals queued, no merge | `ImplementsKVStore`: the engine is a key-value store; `ContentsAreStore`; `QueueOrdered`; `RetryFindsRoom` |
| `live` | 2 writers, 4 deletes, every file operation may fail, drop on a thread or in a task, fair | `QueueDrains` unless a task fails; `CallsReturn`; `ShutdownCompletes` |
| `restart` | 1 writer, 2 keys, 5 sets or deletes, tables full by size, log buffer written out or not at each append, flushes that fail, 2 stops at any step, starts on a thread or in a task | `StartRecovers`: a completed start serves what the files held; `CrashLosesOnlyBuffers`: at the first stop the files hold what a get would have found, for every key with no record in a log buffer; `RecoverableUntilRestart`: a table not served yet replays from its log, or is a complete SSTable file; `FirstReplayFits`; `FlushNeverEmpty` |
| `merge` | all contents of up to 4 tables with up to 6 records over 3 keys | `OutputSorted`, `OneNodePerTable`, `MergeOfTables`, `Terminates` |
| `record` | 4 writes of lengths around the varint boundaries | `BlobIsLastWrite`, `KeyViewIsKey`, `ValueViewAsInTable` (the abstraction `Table` makes) |
| `tree` | 9 keys in every order, one of them also deleted, full by nodes or by size | `WellLinked`, `RedBlack`, `FlushedInOrder`, `ImplementsMemtable` |
| `sstable` | all files of up to 3 of 8 keys (prefixes of each other, the empty key), values of 4 lengths or tombstones, 3 pairs of hash functions, both writers | `OffsetsMatchBytes`, `LookupExact`, `ScanExact` |

Why the bounds are enough: four or five writes with one node per table give up
to four tables in different places at once (active, in a caller's hands,
queued, being flushed), two flushes overlapping a merge, and two calls inside
rotation together. Two callers suffice for each interference found. Two stops
are needed for what one restart leaves behind to meet the next; the five writes
fill a table between them. `FlushQueue = 4` in the restart runs holds as many
signals as there can be rotated logs. Four tables give a heap of three levels,
the first in which an element goes down one side and up another. Eight keys
are the fewest with which a recolouring leads to a rotation further up. Three
records with prefixes give tries with every kind of node, and values around
`ReadBuffer` and `WriteCapacity` both paths of either buffer. What the bounds
leave open for the pipeline, the proofs close.

`reads` is deliberately restricted, and the restrictions are behaviours of the
code, not conveniences: a get that begins while a rotated table is in transit,
deletes, two writers, and merges each break it (see below). What the run shows
is that nothing *else* does: between the three lookups a table may be rotated,
queued, flushed, loaded and popped, and the get still finds it, because each
move makes the table visible in the next layer before it leaves the last.

`CrashLosesOnlyBuffers`, `RecoverableUntilRestart` and `FirstReplayFits` speak
of the time before the first restart is over, because after it they fail
(`durable`, `replay_fits`). `StartRecovers` speaks of every start.

### Runs that show a disagreement

Each checks one sentence of a document or comment and TLC refutes it; the
`findings` of `PROJECT.json` quote the sentence.

| Run | Property | The code |
|---|---|---|
| `tombstone_stops` | `TombstoneStopsSearch` | a tombstone in memory is treated like a miss and an older layer answers |
| `compaction_newest` | `NewestWins` | with equal keys the heap's shape decides, not the age of the tables |
| `durable` | `Durable` | a start removes the log it replayed while the records are in memory only; a second stop loses them |
| `replay_fits` | `ReplayFits` | a recovered table's new log lacks the replayed records, so the next replay counts as new nodes what the table took as updates, and meets a full table: `todo!()`, at this and every later start |

Behaviours of the models that have no run of their own:

* A get that begins between the two lock scopes of `rotate_table` finds the
  table in neither place (`database/inner.rs:187-193`; `gap` in the model).
* Two calls inside rotation can queue their tables the wrong way round, so
  that `QueueOrdered` needs one writer (`database/inner.rs:186-198`;
  `docs/protocol.md:223-224` speaks of tables flushed in order).
* Between a call's rotation and its retry another writer can fill the fresh
  table; the retry's `TableFull` is thrown away with the write
  (`database/inner.rs:173-176`). `RetryFindsRoom` holds for one writer.
* A key deleted and set again in one memtable stays unreadable:
  `overwrite_data` does not restore the value's view (`memtable/record.rs:94`;
  `ValueViewAsInTable` states it, `update_from_record` in `Table` has it).
* `cleanup` compares the new table's bare name with paths that start with
  `./`, so it removes the new table's file with the stale ones
  (`compaction/mod.rs:111`); the data lives as long as the open descriptor.
  `OnlyOldestLacksFile` says that it hits no other table of the cache.
* A call cancelled between rotation and queue takes its table with it; its
  records come back only with the next replay of the log. Cancelled between
  queue and signal, it leaves a table that the next call's signal flushes, so
  that one table stays queued until the process ends.
* A start with more rotated logs than the flush channel holds waits for ever in
  `blocking_send` (`memtable/immutable.rs:31-35`), with the logs already
  removed; in a task of the runtime it panics with one. The next start finds
  no records.
* A half-written SSTable file, left by a failed flush or by a stop, makes this
  and every later start panic (`sstable/mod.rs:44`), after the active log was
  replayed and removed.
* The log buffer is not written out by `drop` either, so a clean shutdown
  loses what a crash loses.
* A flush writes out records that are still in the log buffer. If the process
  stops before the log is removed, the log's older records are replayed over
  the newer SSTable. `CrashLosesOnlyBuffers` excludes it with the buffered
  keys.
* Every restart leaves the new, empty logs of the tables it queued; when a
  flush did not remove them, the next start queues and flushes empty tables.
* A trie node with all 256 children is written with a count of 0
  (`ssindex/trie.rs:75`); the load reads a wrong trie or panics. `LookupExact`
  excludes it with `FanOutFits`.
* A key so long that its value's size lies beyond the first 4 KB read panics
  `read_data_block` (`disk/mod.rs:99-105`); `MAX_KEY_SIZE` is not enforced
  anywhere. `LookupExact` excludes it with `SizeInBuffer`.
* The log is removed before the SSTable is loaded and acknowledged
  (`FlushUnlink` before `FlushLoad`), where `docs/protocol.md:229-232` has it
  the other way round. The SSTable file is complete by then, which is what
  `RecoverableUntilRestart` asks.
* A flush pending when the handle is dropped on a thread panics on the closed
  acknowledgement channel (`FlushAckClosed`), because `drop` stops the
  compaction task first.
* `overwrite_data` leaves the value's view as it was, also when the length
  changes; `ValueViewAsInTable` therefore speaks of values of one length. When
  the new record is shorter and its size's varint too, the key is copied from
  beyond the end of the shortened bytes and the slice panics (`panicked`); the
  properties of `Record` speak of the updates that return.

### Fairness

`FairSpec` assumes weak fairness of each call that has begun, of the flush
task, of the compaction task and of the second half of `drop`. The tokio
runtime polls every task whose future can make progress, and a thread blocked
in `blocking_send` wakes when there is room. Strong fairness is not assumed:
where two callers compete for the last place of the flush channel, the bound on
calls makes the competition end. Nothing makes a client start a call, a file
operation fail, or a handle be dropped. In the run `live` every file operation
may fail. Its writers call `delete`: whether and when a call, a flush or a merge
goes on does not depend on what the tables hold, and deletes leave the fewest
contents to tell apart; `set` differs from `delete` in the record alone.
`Compaction` assumes that its loop goes
on.

## 4. What TLAPS proves

Everything is proved from the assumptions the modules state about their
constants (`TableAssumption`, `LsmliteAssumption`, `TreeAssumption`,
`CompactionAssumption`, `CodecAssumption`, `RecordAssumption`: finite sets of
keys and callers, keys that are ordered, positive capacities and sizes, a base
of at least two, keys whose length fits a varint of ten bytes as every `usize`
does, markers that are none of the values they stand beside; the last is a fact
about the model's encoding of `Option`, not about the code). The theorems hold for any
number of keys, callers, calls and tables, any set of faults and cancellation at
any await, except where a hypothesis is named. Hypotheses are restrictions that
the code needs, not conveniences: each one is said with what breaks without it.

### The pipeline (`LsmliteProofs`)

| Theorem | States |
|---|---|
| `TypeCorrect` | `Spec => []TypeOK`, the channel bounds included |
| `PipelineCorrect` | `Spec => []PipelineInv` |
| `FlushFindsTable` | the `expect` in `ImmutableMemtable::flush` never fires |
| `PopDropsServedTable` | the compaction task pops the very table whose SSTable it has just loaded |
| `CompactionExclusive` | while the compaction task pops, merges or deletes files, the flush task waits |
| `TablesLeaveServed` | a table leaves the queue only when the cache serves its contents |

None of the four safety properties is inductive. `PipelineInv` is the
strengthening, a conjunction of four parts:

* `Handshake`: a turn is with one of the two tasks. At most one of "a path is
  queued", "the compaction task is at work" and "an acknowledgement waits"
  holds, and any of them means that the flush task is at its acknowledgement.
  It gives `CompactionExclusive` at once.
* `FilesInHand`: the file the task at work relies on is there, and paths are
  unique and not ahead of the clock. It is needed because a load reads a file
  by name: without it the block pushed to the cache could be any other.
* `QueueCovered`: the queue has a table for every call about to signal, every
  signal sent and the one in service, and the table in service is the front
  one. The count is what survives two callers pushing and signalling in
  different orders, and a failed flush, which consumes a signal and keeps its
  table.
* `CallsCarry`: a call in the middle of rotation has its entry and its table,
  without which types are not preserved by `Push` and `Retry`.

`TypeOK` and `PipelineInv` are proved together (`Inductive`): the load needs
`FilesInHand` for its type, the counts need the types. The lemmas take each
conjunct through the steps of calls, flush task and compaction task in turn.

### Files and logs (`LsmliteProofs`)

| Theorem | States |
|---|---|
| `CacheInNameOrder` | the cache is sorted by file name across loads, merges and failures |
| `CachedFilesKept` | `cleanup` removes the file of no cached table but the compacted one |
| `TablesRecoverable` | every rotated or queued table replays from its log and buffer, or is a complete SSTable file, or is served already |

`CacheInv` adds to the two properties that names in the cache are older than
the clock and than the name of the file to be loaded next (`CacheNames`), and
that files are removed only while the cache is the compacted table alone
(`CleansAlone`), which is where `Handshake` is used: nobody loads meanwhile.

`LogInv` has three parts. `LogNames`: tables have different logs, none named
ahead of the clock. `LogsKept`: each table's log is there and replays, with the
buffer, to what the table holds, but for the front table once its SSTable is
written. `HeldOnlyToPush`: only a call between rotation and queue holds a table.
The core is the lemmas on `Replay`: what it leaves for a key is the key's last
record, so that appending an entry and inserting it agree, also when the insertion
was an update in place.

### One writer (`LsmliteStoreProofs`)

| Theorem | Hypotheses | States |
|---|---|---|
| `QueueInRotationOrder` | `OneWriter` | `QueueOrdered` |
| `RetriesFindRoom` | `OneWriter`, `TablesHoldRecords` | `RetryFindsRoom`: no write is thrown away |

Two writers interleave their rotations and queue them the wrong way round, and
one fills the table the other one made for its retry. `TablesHoldRecords` says
that neither limit is zero: a table that is full when empty has no room ever.
`WriterInv`: only the writer rotates, the table in its hands is newer than the
queue, and between its rotation and its retry the active table is fresh.

### The store (`LsmliteStoreProofs`, `LsmliteReadProofs`)

| Theorem | Hypotheses | States |
|---|---|---|
| `StoreUntilMerge` | `OneWriter`, `HandsOver`, `[]NoMerge` | `ContentsAreStore`, deletes and failures included |
| `FewWritesNoMerge` | `OneWriter`, `MaxOps < CompactionRate` | no merge happens |
| `ContentsKept` | `OneWriter`, `HandsOver`, `MaxOps < CompactionRate` | `ContentsAreStore`, no hypothesis on the behaviour |
| `StoreImplemented` | also `SetsOnly`, `GetsFinish`, `[]NoMerge` | `Spec` implements `KVStore`, with any number of readers |
| `FewWritesImplementStore` | the same with `MaxOps < CompactionRate` for `[]NoMerge` | the same, no hypothesis on the behaviour |

* `HandsOver`: no call is dropped between rotation and queue; a dropped one
  takes its table with it.
* `NoMerge`: a merge may keep any of several records of a key
  (`compaction_newest`). `FewWritesNoMerge` shows that the hypothesis is met:
  `FlushBudget` counts every cached table, flush, signal and rotation against
  a write of its own.
* `SetsOnly`: a tombstone in memory does not stop a search
  (`tombstone_stops`).
* `GetsFinish`: `KVStore` has no step for a get that is dropped.

The proof looks at a key layer by layer (active table, table in hand, queue,
cache); `Over` lays one layer on the next. `NewestIsStore` says that the stack
shows what was written last, and every step moves a record one layer down.
`ReadInv` is what makes a get right although it looks at the layers at
different moments: what the layers still *ahead* of it show is a value the key
has had since the call began. It needs that a table is in the next layer before
it leaves the last, which is `PopMatchesFlush`, and that gets which began while
a rotated table was in no layer are set apart (`gap`). `OnlySets` says that no
table holds a tombstone, so that memory and file agree about every record.

### Stops and starts (`LsmliteRestartProofs`)

| Theorem | Hypotheses | States |
|---|---|---|
| `RecoverableWhenStopped` | | `RecoverableUntilRestart` |
| `EngineAcrossRestarts` | | `RestartSpec => []RestartInv` |
| `SafeAcrossRestarts` | | `TypeOK`, `FlushNeverEmpty`, `CacheSortedByName` and `OnlyOldestLacksFile` through any number of stops and starts |
| `StartsRecover` | | `StartRecovers`: for any number of files and any order of the workers |
| `FirstLogsFit` | | `FirstReplayFits` |
| `StopBeforeMerge` | `OneWriter`, `HandsOver`, `[]UnmergedUntilStop` | `CrashLosesOnlyBuffers` |
| `StopLosesBuffers` | `OneWriter`, `HandsOver`, `MaxOps < CompactionRate` | the same, no hypothesis on the behaviour |

* `RestartInv` is `TypeOK`, `PipelineInv` and `CacheInv` with three more parts:
  `DiskNames` (the directory is finite, has a log, and no two logs have one
  name or one ahead of the clock),
  `StartType`, and `StartInv`, which says how far a start has come: what it has
  read, the queue it builds, never more signals than tables, all channels still
  empty. The step to `running` then needs nothing of the pipeline that is not
  there. A stop in the middle of a start leaves the directory as `DiskNames`
  wants it, whichever logs the workers have removed.
* `RecoverInv` follows what the files held at the start (`expected`) through
  it: it is in the table made of the newest log, in the logs still to replay,
  or in the SSTables, and at the end the layers are those of `Contents`. That
  the lists of files are in the order of their names is `InOrderLists`.
* `FitInv`: the active table is what its log and buffer are replayed into, node
  by node and with the same size, so every beginning of that log fits
  (`Refills`). The first start's logs are such beginnings. After a restart the
  table has records its log has not, and the invariant is gone (`replay_fits`).
* For `CrashLosesOnlyBuffers` the tables in memory and the files are compared
  at the stop: `LogsLive` (each log belongs to a table in memory and replays,
  with its buffer, to what the table holds) and `FilesAre` (the files are the cache, and at
  most the table just flushed). A key without a buffered record has its newest
  record in the newest log or file that has one (`NewestLog`, `NewestFile`,
  `NewestTable`). Two writers may queue tables out of order, a dropped call
  leaves a log behind that is newer than what is served, and a merge may keep
  an older record: hence the hypotheses.

### The tree (`TreeProofs`)

| Theorem | States |
|---|---|
| `TreeStaysATree` | `Spec => []TreeInv` |
| `TreeWellLinked` | `Spec => []WellLinked` |
| `TreeRedBlack` | `Spec => []RedBlack` |
| `TreeFlushedInOrder` | `Spec => []FlushedInOrder` |
| `TreeImplementsMemtable` | `Spec => ImplementsMemtable` |

No restriction: any finite set of keys, any order of insertions, every turn of
the loop. None of the properties is inductive alone. `TreeInv` says that the
arena is empty or `Grown`: it is `Linked` (children and parents agree),
`Ordered`, `Coloured` and `Balanced`. Two existential witnesses replace what
would need induction over the tree:

* `Ordered` has a function `anc` from each node to the nodes above it, and says
  on which side of each of them the node lies by its key. A rotation changes
  `anc` in a way that can be written down (`RotAnc`), a new leaf has its
  parent's and the parent.
* `Balanced` has the number of black nodes up to the root, the same above every
  missing child.

The sides are parameters, so that one proof (`RotationLinked`,
`RotationOrdered`, `InnerRotation`, `OuterRotation`) serves both rotations, the
other one with the order reversed (`Mirror`); `LeftRotateEdit` and
`RightRotateEdit` show that the code's link assignments amount to it, the root
and missing children included. What recursive functions compute follows from
`anc` too, by the highest or deepest node where a claim fails
(`DeepestHighest`): a search ends at the key or where it belongs
(`SearchEnds`), `Blacks` is the count (`CountUnique`), the traversal lists every
subtree in ascending order (`OrderListed`). For the refinement, `SearchFinds`
turns `Shown` into the arena's records, insertions become insertions and turns
of the loop stutter.

### The merge (`CompactionProofs`)

| Theorem | States |
|---|---|
| `MergeInvariant` | `Spec => []MergeInv` |
| `WritesSorted` | `Spec => []OutputSorted` |
| `OneNodeEach` | `Spec => []OneNodePerTable` |
| `MergesTables` | `Spec => []MergeOfTables`: what `Lsmlite` takes a merge to be |

For any tables and keys, with the ties as the standard library breaks them.
First the heap: after each `sift` the array is a heap but for the hole, and it
holds the same nodes (`Holds`), so that `heap_push` and `heap_pop` keep
`IsHeap` and a pop takes a node with the smallest key, whichever of several.
`MergeInv` then has five parts beside the counters: the heap (`HeapInv`); a
node comes before the other records of its table (`HandOK`); a table with
records left has a node (`Fed`), so that the smallest node is the smallest key
that is left anywhere; what was written is ascending and before every node
(`OutOK`); and no record is lost (`Accounted`): it is left, in a node, or its key
is written or dropped with a tombstone. `NewestWins` is what the invariant
cannot have (`compaction_newest`).

### Records (`RecordProofs`)

| Theorem | States |
|---|---|
| `VarintRoundTrip` | a varint decodes to its number and length at any offset, and `varint_size_from_len` predicts the length |
| `RecordRoundTrip` | records of both kinds decode to what was encoded |
| `RecordInvariant` | `Spec => []RecordInv` |
| `DecodesLastWrite` | `Spec => []BlobIsLastWrite` |
| `ShowsKey` | `Spec => []KeyViewIsKey` |
| `ShowsValue` | `Spec => []ValueViewAsInTable` |

For keys and values of any length, any base and any number of updates.
`At(b, off, s)` says that the bytes `s` lie in `b` at `off`; `PutAt`,
`ResizeAt`, `ConcatAt` and `SliceAt` say what the buffer operations do to it,
and `IsData` and `IsTombstone` are the two layouts in its terms. In
`overwrite_data` either the size's varint keeps its length and the key stays
(`StartInPlace`), or it does not and the key is copied out of the resized
buffer (`StartMoved`), which is where the slice may be out of range; then
`Finish` adds the value. `RecordInv` says that the bytes have the layout of the
last write, and that the value's view is the place of the *first* value until a
delete clears it: so `ShowsValue` needs values of one length.

Recursion over numbers is within reach here because it needs no operator as
parameter: `LeastElement` gives induction for a *set* of numbers (`Induct`), and
`Recursion` builds the function that `encode_varint`, `upper_bound` and the sum
in `decode_varint` choose, from a step that is itself a function.

### Only model-checked

* Liveness (`QueueDrains`, `CallsReturn`, `ShutdownCompletes`, `Terminates`),
  which needs `ENABLED`.
* The properties of `TableFile`. They rest on what folds along keys make of the
  trie, on its serialisation (a concatenation of as many pieces as it has
  nodes) and on scans over the data block: induction over data for each of
  them. The codec underneath is proved (`RecordRoundTrip`).
* What the findings refute (`TombstoneStopsSearch`, `NewestWins`, `ReplayFits`,
  `Durable`).

## 5. What is not modelled

* Short and failed writes of the log, whose results the code ignores
  (`wal/mod.rs:83`): a log torn inside a record.
* Loss of written data by the machine (no `fsync` is called): files written are
  taken to survive the process.
* A stop in the middle of a merge or of `cleanup`: the restart runs have no
  merge, since `cleanup` removes the compacted file in any case.
* Read errors, which `SSTableCache::search` takes for misses
  (`sstable/mod.rs:73`).
* Two files named in the same tick of the clock, or a clock set back.
* How a file cut off before its footer looks to the loader: it is taken to
  fail, although the last bytes of its data could by chance read as a footer.
* The quality of the hash functions; false positives of the filter occur with
  the functions tried.
* Configuration, constants and error types: declarations; their values appear
  as constants.
* The memory map of a log file (`memmap2`), external: an empty log maps to no
  records.

## 6. Plan

What is left, in this order:

1. `OffsetsMatchBytes`: the trie as a set of paths, `trie_insert` adding one,
   and `RecordRoundTrip` at the offset; for files shorter than `WordEndFlag`.
2. `ScanExact`, from the layout of the data block as a sequence of records.
3. `ContentsAreStore` for a merge that keeps the newest record, once the
   comparison of `HeapNode` is what `docs/protocol.md` says.
