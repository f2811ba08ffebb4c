------------------------------ MODULE Lsmlite ------------------------------
(***************************************************************************)
(* One lsmlite engine between its start on an empty directory and its      *)
(* drop: client calls (src/database/inner.rs), the background flush task   *)
(* (flush_memtable in src/memtable/inner.rs) and the background compaction *)
(* task (sstable_background in src/compaction/mod.rs), with the queue and  *)
(* the cache they share, the three channels between them and the files     *)
(* they leave in the working directory.                                    *)
(*                                                                         *)
(* Grain: what runs under one lock, one channel operation and one file     *)
(* operation are each one step.  Loading the poison flag is joined to the  *)
(* step that follows it, and opening or reading a file that no other task  *)
(* can touch is joined to the step that uses it; both commute with every   *)
(* step of the other tasks.                                                *)
(*                                                                         *)
(* File names are timestamps (util::generate_*_file_name); the clock is    *)
(* taken to be monotone and to advance between two names.                  *)
(***************************************************************************)
EXTENDS Table

CONSTANTS
    Writers, Readers,   \* tasks holding a clone of the handle (may overlap)
    Ops,                \* what writers call, a subset of {"set", "delete"}
    MaxOps,             \* bound: calls of set and delete in a behaviour
    CompactionRate,     \* config.compaction_rate
    FlushQueue,         \* config.memtable_flush_queue_size
    CompactionQueue,    \* config.compaction_queue_size
    NeedsFlush,         \* outcomes of Wal::needs_flush, a subset of BOOLEAN
    Faults,             \* file operations that may fail
    MayCancel,          \* awaits at which the future of a call may be dropped
    MayDrop,            \* where the last handle may be dropped: on a "thread"
                        \* that may block, or in a "task" of the runtime
    Shutdown,           \* CompactionSignal::Shutdown
    Partial             \* contents of an SSTable file before its footer

FaultPoints == {"rotate", "create", "write", "unlink", "load", "compact",
                "cleanup"}

ASSUME LsmliteAssumption ==
    /\ IsFiniteSet(Writers)
    /\ IsFiniteSet(Readers)
    /\ Ops \subseteq {"set", "delete"}
    /\ MaxOps \in Nat
    /\ CompactionRate \in Nat \ {0}
    /\ FlushQueue \in Nat \ {0}
    /\ CompactionQueue \in Nat \ {0}
    /\ NeedsFlush \subseteq BOOLEAN
    /\ Faults \subseteq FaultPoints
    /\ MayCancel \subseteq {"rotate", "push", "signal", "retry", "immutable",
                            "sstable"}
    /\ MayDrop \subseteq {"thread", "task"}
    /\ Shutdown \notin Nat
    /\ Partial \notin Block

VARIABLES
    memtable,    \* Memtable.inner: the active table
    immutable,   \* ImmutableMemtable.table: oldest first
    cache,       \* SSTableCache.cache: newest first
    poisoned,    \* LsmliteInner.poisoned
    flushes,     \* Flush signals in memtable_channel
    flushShut,   \* a Shutdown follows them
    compChan,    \* the compaction channel
    ackChan,     \* acknowledgements in the channel of capacity 1
    wals,        \* log files on disk
    sstables,    \* SSTable files on disk
    clock,       \* timestamp of the last file name generated
    flushPc, flushPath, flushHead,   \* the flush task
    compPc, compPath,                \* the compaction task
    pc, req, held, ret,              \* the client calls in progress
    handle,      \* the LsmLite handles: "open", "dropping" or "closed"
    ops,         \* calls of set and delete so far
    store,       \* history: the last value committed for each key
    seen,        \* history: values a key had since a get of it began
    gap,         \* history: the get began while a rotated table was in transit
    lost         \* history: requests acknowledged without being stored

Client == Writers \cup Readers

clientVars == << pc, req, held, ret >>
flushVars  == << flushPc, flushPath, flushHead >>
compVars   == << compPc, compPath >>
tableVars  == << memtable, immutable, cache >>
chanVars   == << flushes, flushShut, compChan, ackChan >>
diskVars   == << wals, sstables, clock >>
histVars   == << ops, store, seen, gap, lost >>
vars == << clientVars, flushVars, compVars, tableVars, chanVars, diskVars,
           histVars, poisoned, handle >>

\* A call: a key and what to store there, Absent for a get.
Request == [key : Key, datum : Datum \cup {Absent}]

WalFile == [ts : Nat, log : Seq(Entry)]
SSTableFile == [path : Nat, data : Block \cup {Partial}]
SSTable == [path : Nat, data : Block]

FlushStates == {"recv", "front", "write", "unlink", "load", "ack", "stopped",
                "panicked"}
CompStates == {"recv", "pop", "merge", "finish", "replace", "cleanup", "ack",
               "stopped", "panicked"}
ClientStates == {"idle", "rotate", "push", "signal", "retry", "immutable",
                 "sstable", "done", "panicked"}
Exited == {"stopped", "panicked"}

\* What the engine's state is made of: the tables, the bounded channels, the
\* files, and where each task and each call stands.
TypeOK ==
    /\ memtable \in Table
    /\ immutable \in Seq(Table)
    /\ cache \in Seq(SSTable)
    /\ poisoned \in BOOLEAN
    /\ flushes \in 0..FlushQueue
    /\ flushShut \in BOOLEAN
    /\ compChan \in Seq(Nat \cup {Shutdown})
    /\ Len(compChan) <= CompactionQueue
    /\ ackChan \in {0, 1}
    /\ wals \subseteq WalFile
    /\ sstables \subseteq SSTableFile
    /\ clock \in Nat
    /\ flushPc \in FlushStates
    /\ flushPath \in Nat
    /\ flushHead \in Table \cup {Absent}
    /\ compPc \in CompStates
    /\ compPath \in Nat
    /\ pc \in [Client -> ClientStates]
    /\ req \in [Client -> Request \cup {Absent}]
    /\ held \in [Client -> Table \cup {Absent}]
    /\ ret \in [Client -> Value \cup {Absent}]
    /\ handle \in {"open", "dropping", "closed"}
    /\ ops \in 0..MaxOps
    /\ store \in [Key -> Value \cup {Absent}]
    /\ seen \in [Client -> SUBSET (Value \cup {Absent})]
    /\ gap \in [Client -> BOOLEAN]
    /\ lost \subseteq Request

\* LsmliteInner::new on an empty directory.
Init ==
    /\ memtable = NewTable(1)
    /\ immutable = << >>
    /\ cache = << >>
    /\ poisoned = FALSE
    /\ flushes = 0
    /\ flushShut = FALSE
    /\ compChan = << >>
    /\ ackChan = 0
    /\ wals = {[ts |-> 1, log |-> << >>]}
    /\ sstables = {}
    /\ clock = 1
    /\ flushPc = "recv"
    /\ flushPath = 0
    /\ flushHead = Absent
    /\ compPc = "recv"
    /\ compPath = 0
    /\ pc = [c \in Client |-> "idle"]
    /\ req = [c \in Client |-> Absent]
    /\ held = [c \in Client |-> Absent]
    /\ ret = [c \in Client |-> Absent]
    /\ handle = "open"
    /\ ops = 0
    /\ store = [k \in Key |-> Absent]
    /\ seen = [c \in Client |-> {}]
    /\ gap = [c \in Client |-> FALSE]
    /\ lost = {}

----------------------------------------------------------------------------
(* Client calls.                                                           *)

\* A call passes check_poison_flag.
MayCall(c) == pc[c] = "idle" /\ handle = "open" /\ ~poisoned

\* Any call on a poisoned database panics.
CallPoisoned(c) ==
    /\ pc[c] = "idle" /\ handle = "open" /\ poisoned
    /\ pc' = [pc EXCEPT ![c] = "panicked"]
    /\ UNCHANGED << req, held, ret, flushVars, compVars, tableVars, chanVars,
                    diskVars, histVars, poisoned, handle >>

\* Wal::flush of the table's buffer into its file.
FlushLog(t) ==
    {IF w.ts = t.wal THEN [w EXCEPT !.log = @ \o t.buffer] ELSE w : w \in wals}

\* insert_data_record or insert_tombstone_record on a table that is not
\* full: log, then tree.  The history is what the call means.
Insert(e) ==
    /\ \E due \in NeedsFlush :
        /\ memtable' = insert_node(write_log(memtable, e, due), e)
        /\ wals' = IF due THEN FlushLog(memtable) ELSE wals
    /\ store' = [store EXCEPT ![e.key] =
                    IF e.datum = Tombstone THEN Absent ELSE e.datum]
    /\ seen' = [c \in Client |->
                    IF pc[c] \in {"immutable", "sstable"} /\ req[c].key = e.key
                    THEN seen[c] \cup {store'[e.key]} ELSE seen[c]]

\* LsmliteInner::set and ::delete up to the point where the call returns or
\* finds the table full.
Write(c, e) ==
    /\ c \in Writers /\ MayCall(c)
    /\ ops < MaxOps
    /\ ops' = ops + 1
    /\ \/ /\ ~full(memtable)
          /\ Insert(e)
          /\ UNCHANGED << pc, req >>
       \/ /\ full(memtable)
          /\ pc' = [pc EXCEPT ![c] = "rotate"]
          /\ req' = [req EXCEPT ![c] = e]
          /\ UNCHANGED << memtable, wals, store, seen >>
    /\ UNCHANGED << held, ret, flushVars, compVars, immutable, cache, chanVars,
                    sstables, clock, gap, lost, poisoned, handle >>

Set(c, k) == "set" \in Ops /\ Write(c, [key |-> k, datum |-> ops + 1])

Delete(c, k) == "delete" \in Ops /\ Write(c, [key |-> k, datum |-> Tombstone])

\* Mutants: the fresh table does not replace the full one, or the full one
\* is dropped.
RotateKeeps(c) ==
    /\ pc[c] = "rotate"
    /\ clock' = clock + 1
    /\ wals' = wals \cup {[ts |-> clock + 1, log |-> << >>]}
    /\ held' = [held EXCEPT ![c] = memtable]
    /\ pc' = [pc EXCEPT ![c] = "push"]
    /\ UNCHANGED << memtable, req, ret, flushVars, compVars, immutable, cache,
                    chanVars, sstables, histVars, poisoned, handle >>

RotateDrops(c) ==
    /\ pc[c] = "rotate"
    /\ clock' = clock + 1
    /\ wals' = wals \cup {[ts |-> clock + 1, log |-> << >>]}
    /\ memtable' = NewTable(clock + 1)
    /\ held' = [held EXCEPT ![c] = NewTable(clock + 1)]
    /\ pc' = [pc EXCEPT ![c] = "push"]
    /\ UNCHANGED << req, ret, flushVars, compVars, immutable, cache, chanVars,
                    sstables, histVars, poisoned, handle >>

\* Memtable::rotate: whatever table is active now leaves, full or not.
Rotate(c) ==
    /\ pc[c] = "rotate"
    /\ clock' = clock + 1
    /\ wals' = wals \cup {[ts |-> clock + 1, log |-> << >>]}
    /\ memtable' = NewTable(clock + 1)
    /\ held' = [held EXCEPT ![c] = memtable]
    /\ pc' = [pc EXCEPT ![c] = "push"]
    /\ UNCHANGED << req, ret, flushVars, compVars, immutable, cache, chanVars,
                    sstables, histVars, poisoned, handle >>

\* The new log file cannot be created: rotate_table panics, nothing moved.
RotateFails(c) ==
    /\ "rotate" \in Faults
    /\ pc[c] = "rotate"
    /\ pc' = [pc EXCEPT ![c] = "panicked"]
    /\ req' = [req EXCEPT ![c] = Absent]
    /\ UNCHANGED << held, ret, flushVars, compVars, tableVars, chanVars,
                    diskVars, histVars, poisoned, handle >>

\* ImmutableMemtable::insert.
Push(c) ==
    /\ pc[c] = "push"
    /\ immutable' = insert(immutable, held[c])
    /\ held' = [held EXCEPT ![c] = Absent]
    /\ pc' = [pc EXCEPT ![c] = "signal"]
    /\ UNCHANGED << req, ret, flushVars, compVars, memtable, cache, chanVars,
                    diskVars, histVars, poisoned, handle >>

\* Mutant: an unbounded channel.
FlushRoomUnbounded == TRUE

\* The channel holds memtable_flush_queue_size messages.
FlushRoom == flushes < FlushQueue

\* The Flush signal is sent, once the channel has room for it.
Signal(c) ==
    /\ pc[c] = "signal"
    /\ flushPc \notin Exited
    /\ FlushRoom
    /\ flushes' = flushes + 1
    /\ pc' = [pc EXCEPT ![c] = "retry"]
    /\ UNCHANGED << req, held, ret, flushVars, compVars, tableVars, flushShut,
                    compChan, ackChan, diskVars, histVars, poisoned, handle >>

\* The flush task is gone: the send fails and the call panics.
SignalClosed(c) ==
    /\ pc[c] = "signal"
    /\ flushPc \in Exited
    /\ pc' = [pc EXCEPT ![c] = "panicked"]
    /\ req' = [req EXCEPT ![c] = Absent]
    /\ UNCHANGED << held, ret, flushVars, compVars, tableVars, chanVars,
                    diskVars, histVars, poisoned, handle >>

\* Mutant: the insertion is repeated until it finds room.
RetrySpins(c) ==
    /\ pc[c] = "retry"
    /\ \/ /\ ~full(memtable)
          /\ Insert(req[c])
          /\ pc' = [pc EXCEPT ![c] = "idle"]
          /\ req' = [req EXCEPT ![c] = Absent]
       \/ full(memtable) /\ UNCHANGED << memtable, wals, store, seen, pc, req >>
    /\ UNCHANGED << held, ret, flushVars, compVars, immutable, cache, chanVars,
                    sstables, clock, ops, gap, lost, poisoned, handle >>

\* The second insertion; its result is thrown away.
Retry(c) ==
    /\ pc[c] = "retry"
    /\ \/ ~full(memtable) /\ Insert(req[c]) /\ UNCHANGED lost
       \/ /\ full(memtable)
          /\ lost' = lost \cup {req[c]}
          /\ UNCHANGED << memtable, wals, store, seen >>
    /\ pc' = [pc EXCEPT ![c] = "idle"]
    /\ req' = [req EXCEPT ![c] = Absent]
    /\ UNCHANGED << held, ret, flushVars, compVars, immutable, cache, chanVars,
                    sstables, clock, ops, gap, poisoned, handle >>

\* How a layer's answer continues a get: only data ends it.
Answer(c, d, next) ==
    IF d \in {Tombstone, Absent}
    THEN pc' = [pc EXCEPT ![c] = next] /\ UNCHANGED ret
    ELSE pc' = [pc EXCEPT ![c] = "done"] /\ ret' = [ret EXCEPT ![c] = d]

\* LsmliteInner::get, first layer: read_memtable.
Get(c, k) ==
    /\ c \in Readers /\ MayCall(c)
    /\ Answer(c, get(memtable, k), "immutable")
    /\ req' = [req EXCEPT ![c] = [key |-> k, datum |-> Absent]]
    /\ seen' = [seen EXCEPT ![c] = {store[k]}]
    /\ gap' = [gap EXCEPT ![c] = \E w \in Client : held[w] # Absent]
    /\ UNCHANGED << held, flushVars, compVars, tableVars, chanVars, diskVars,
                    ops, store, lost, poisoned, handle >>

\* Second layer: read_immutable_table.
GetImmutable(c) ==
    /\ pc[c] = "immutable"
    /\ Answer(c, get_queue(immutable, req[c].key), "sstable")
    /\ UNCHANGED << req, held, flushVars, compVars, tableVars, chanVars,
                    diskVars, histVars, poisoned, handle >>

\* Third layer: SSTableCache::search.
GetSSTable(c) ==
    /\ pc[c] = "sstable"
    /\ Answer(c, search([i \in DOMAIN cache |-> cache[i].data], req[c].key),
              "done")
    /\ UNCHANGED << req, held, flushVars, compVars, tableVars, chanVars,
                    diskVars, histVars, poisoned, handle >>

\* The get hands its result to the caller.
Return(c) ==
    /\ pc[c] = "done"
    /\ pc' = [pc EXCEPT ![c] = "idle"]
    /\ req' = [req EXCEPT ![c] = Absent]
    /\ ret' = [ret EXCEPT ![c] = Absent]
    /\ seen' = [seen EXCEPT ![c] = {}]
    /\ gap' = [gap EXCEPT ![c] = FALSE]
    /\ UNCHANGED << held, flushVars, compVars, tableVars, chanVars, diskVars,
                    ops, store, lost, poisoned, handle >>

\* The caller drops the future at an await.  What the call has done stays
\* done; the table it holds between rotation and queue goes with it.
Cancel(c) ==
    /\ pc[c] \in MayCancel
    /\ pc' = [pc EXCEPT ![c] = "idle"]
    /\ req' = [req EXCEPT ![c] = Absent]
    /\ held' = [held EXCEPT ![c] = Absent]
    /\ seen' = [seen EXCEPT ![c] = {}]
    /\ gap' = [gap EXCEPT ![c] = FALSE]
    /\ UNCHANGED << ret, flushVars, compVars, tableVars, chanVars, diskVars,
                    ops, store, lost, poisoned, handle >>

----------------------------------------------------------------------------
(* The flush task: flush_memtable.                                         *)

\* A file under construction, and the same file complete.
Created(p) == sstables \cup {[path |-> p, data |-> Partial]}

Written(p, block) ==
    (sstables \ {[path |-> p, data |-> Partial]})
        \cup {[path |-> p, data |-> block]}

\* A Flush signal is received and the new file created.
FlushRecv ==
    /\ flushPc = "recv"
    /\ flushes > 0
    /\ flushes' = flushes - 1
    /\ clock' = clock + 1
    /\ flushPath' = clock + 1
    /\ sstables' = Created(clock + 1)
    /\ flushPc' = "front"
    /\ UNCHANGED << clientVars, flushHead, compVars, tableVars, flushShut,
                    compChan, ackChan, wals, histVars, poisoned, handle >>

\* The file cannot be created: the task poisons the database and returns.
FlushCreateFails ==
    /\ "create" \in Faults
    /\ flushPc = "recv"
    /\ flushes > 0
    /\ flushes' = flushes - 1
    /\ poisoned' = TRUE
    /\ flushPc' = "stopped"
    /\ UNCHANGED << clientVars, flushPath, flushHead, compVars, tableVars,
                    flushShut, compChan, ackChan, diskVars, histVars, handle >>

\* Shutdown is received.
FlushShutdown ==
    /\ flushPc = "recv"
    /\ flushes = 0
    /\ flushShut
    /\ flushShut' = FALSE
    /\ flushPc' = "stopped"
    /\ UNCHANGED << clientVars, flushPath, flushHead, compVars, tableVars,
                    flushes, compChan, ackChan, diskVars, histVars, poisoned,
                    handle >>

\* The channel is empty and its senders are gone: recv() returns None.
FlushRecvClosed ==
    /\ flushPc = "recv"
    /\ flushes = 0
    /\ ~flushShut
    /\ handle = "closed"
    /\ flushPc' = "stopped"
    /\ UNCHANGED << clientVars, flushPath, flushHead, compVars, tableVars,
                    chanVars, diskVars, histVars, poisoned, handle >>

\* ImmutableMemtable::flush takes a reference to the oldest table.
FlushFront ==
    /\ flushPc = "front"
    /\ flushHead' = front(immutable)
    /\ flushPc' = "write"
    /\ UNCHANGED << clientVars, flushPath, compVars, tableVars, chanVars,
                    diskVars, histVars, poisoned, handle >>

\* flush_to_disk.
FlushWrite ==
    /\ flushPc = "write"
    /\ sstables' = Written(flushPath, write_sstable(flushHead))
    /\ flushPc' = "unlink"
    /\ UNCHANGED << clientVars, flushPath, flushHead, compVars, tableVars,
                    chanVars, wals, clock, histVars, poisoned, handle >>

\* The flushed table's log is removed.
FlushUnlink ==
    /\ flushPc = "unlink"
    /\ wals' = {w \in wals : w.ts # flushHead.wal}
    /\ flushPc' = "load"
    /\ UNCHANGED << clientVars, flushPath, flushHead, compVars, tableVars,
                    chanVars, sstables, clock, histVars, poisoned, handle >>

\* Writing the table or removing the log fails: the database is poisoned and
\* the task goes on, the table still at the front of the queue.
FlushFails ==
    /\ \/ flushPc = "write" /\ "write" \in Faults
       \/ flushPc = "unlink" /\ "unlink" \in Faults
    /\ poisoned' = TRUE
    /\ flushHead' = Absent
    /\ flushPc' = "recv"
    /\ UNCHANGED << clientVars, flushPath, compVars, tableVars, chanVars,
                    diskVars, histVars, handle >>

\* Mutant: the task does not wait for the acknowledgement.
FlushLoadNoWait ==
    /\ flushPc = "load"
    /\ compPc \notin Exited
    /\ Len(compChan) < CompactionQueue
    /\ compChan' = Append(compChan, flushPath)
    /\ flushPc' = "recv"
    /\ UNCHANGED << clientVars, flushPath, flushHead, compVars, tableVars,
                    flushes, flushShut, ackChan, diskVars, histVars, poisoned,
                    handle >>

\* LoadSSTable is sent; if the compaction task is gone the error is ignored.
FlushLoad ==
    /\ flushPc = "load"
    /\ \/ /\ compPc \notin Exited
          /\ Len(compChan) < CompactionQueue
          /\ compChan' = Append(compChan, flushPath)
       \/ compPc \in Exited /\ UNCHANGED compChan
    /\ flushPc' = "ack"
    /\ UNCHANGED << clientVars, flushPath, flushHead, compVars, tableVars,
                    flushes, flushShut, ackChan, diskVars, histVars, poisoned,
                    handle >>

\* The acknowledgement is received.
FlushAck ==
    /\ flushPc = "ack"
    /\ ackChan = 1
    /\ ackChan' = 0
    /\ flushHead' = Absent
    /\ flushPc' = "recv"
    /\ UNCHANGED << clientVars, flushPath, compVars, tableVars, flushes,
                    flushShut, compChan, diskVars, histVars, poisoned, handle >>

\* No acknowledgement can come any more: expect() panics.
FlushAckClosed ==
    /\ flushPc = "ack"
    /\ ackChan = 0
    /\ compPc \in Exited
    /\ flushPc' = "panicked"
    /\ UNCHANGED << clientVars, flushPath, flushHead, compVars, tableVars,
                    chanVars, diskVars, histVars, poisoned, handle >>

----------------------------------------------------------------------------
(* The compaction task: sstable_background.                                *)

\* SSTable::from_path on a complete file.
from_path(p) == CHOOSE f \in sstables : f.path = p

\* LoadSSTable: the table is read and becomes the newest of the cache.
CompactorLoad ==
    /\ compPc = "recv"
    /\ compChan # << >>
    /\ Head(compChan) # Shutdown
    /\ compChan' = Tail(compChan)
    /\ cache' = push(cache, from_path(Head(compChan)))
    /\ compPc' = "pop"
    /\ UNCHANGED << clientVars, flushVars, compPath, memtable, immutable,
                    flushes, flushShut, ackChan, diskVars, histVars, poisoned,
                    handle >>

\* Shutdown: the task returns and what is left in its channel is dropped.
CompactorShutdown ==
    /\ compPc = "recv"
    /\ compChan # << >>
    /\ Head(compChan) = Shutdown
    /\ compChan' = << >>
    /\ compPc' = "stopped"
    /\ UNCHANGED << clientVars, flushVars, compPath, tableVars, flushes,
                    flushShut, ackChan, diskVars, histVars, poisoned, handle >>

\* Mutant: "loop" and "if let" for "while let".
CompactorRecvSpins ==
    /\ compPc = "recv"
    /\ compChan = << >>
    /\ handle = "closed"
    /\ flushPc \in Exited
    /\ UNCHANGED vars

\* The channel is empty and both senders are gone: recv() returns None.
CompactorRecvClosed ==
    /\ compPc = "recv"
    /\ compChan = << >>
    /\ handle = "closed"
    /\ flushPc \in Exited
    /\ compPc' = "stopped"
    /\ UNCHANGED << clientVars, flushVars, compPath, tableVars, chanVars,
                    diskVars, histVars, poisoned, handle >>

\* Mutant: the table is loaded and not popped.
CompactorNoPop ==
    /\ compPc = "pop"
    /\ compPc' = IF Len(cache) >= CompactionRate THEN "merge" ELSE "ack"
    /\ UNCHANGED << clientVars, flushVars, compPath, tableVars, chanVars,
                    diskVars, histVars, poisoned, handle >>

\* Mutant: cleanup() outside the test.
CompactorPopCleans ==
    /\ compPc = "pop"
    /\ immutable' = pop(immutable)
    /\ compPc' = IF Len(cache) >= CompactionRate THEN "merge" ELSE "cleanup"
    /\ UNCHANGED << clientVars, flushVars, compPath, memtable, cache, chanVars,
                    diskVars, histVars, poisoned, handle >>

\* ImmutableMemtable::pop, then the test of the cache's length.
CompactorPop ==
    /\ compPc = "pop"
    /\ immutable' = pop(immutable)
    /\ compPc' = IF Len(cache) >= CompactionRate THEN "merge" ELSE "ack"
    /\ UNCHANGED << clientVars, flushVars, compPath, memtable, cache, chanVars,
                    diskVars, histVars, poisoned, handle >>

\* clone_tables, tables_to_iterators and CompactionWriter::new.
CompactorCreate ==
    /\ compPc = "merge"
    /\ clock' = clock + 1
    /\ compPath' = clock + 1
    /\ sstables' = Created(clock + 1)
    /\ compPc' = "finish"
    /\ UNCHANGED << clientVars, flushVars, tableVars, chanVars, wals, histVars,
                    poisoned, handle >>

\* The merge of run_compaction and CompactionWriter::finish.
CompactorFinish ==
    /\ compPc = "finish"
    /\ \E m \in Merges([i \in DOMAIN cache |-> cache[i].data]) :
            sstables' = Written(compPath, m)
    /\ compPc' = "replace"
    /\ UNCHANGED << clientVars, flushVars, compPath, tableVars, chanVars, wals,
                    clock, histVars, poisoned, handle >>

\* Mutant: replace_with_compact_table without clear().
CompactorReplaceNoClear ==
    /\ compPc = "replace"
    /\ cache' = << from_path(compPath) >> \o cache
    /\ compPc' = "cleanup"
    /\ UNCHANGED << clientVars, flushVars, compPath, memtable, immutable,
                    chanVars, diskVars, histVars, poisoned, handle >>

\* replace_with_compact_table.
CompactorReplace ==
    /\ compPc = "replace"
    /\ cache' = << from_path(compPath) >>
    /\ compPc' = "cleanup"
    /\ UNCHANGED << clientVars, flushVars, compPath, memtable, immutable,
                    chanVars, diskVars, histVars, poisoned, handle >>

\* Paths compare by components.  A DirEntry of read_dir(".") keeps the
\* leading "."; the name CompactionWriter generated has none.
EntryPath(p) == [dir |-> << "." >>, name |-> p]

BarePath(p) == [dir |-> << >>, name |-> p]

\* cleanup's loop leaves the file whose path equals the new table's.
Stale(f) == BarePath(compPath) # EntryPath(f.path)

\* The loop removes the stale files, in the order of the directory.
CompactorCleanup(f) ==
    /\ compPc = "cleanup"
    /\ Stale(f)
    /\ sstables' = sstables \ {f}
    /\ UNCHANGED << clientVars, flushVars, compVars, tableVars, chanVars, wals,
                    clock, histVars, poisoned, handle >>

CompactorCleaned ==
    /\ compPc = "cleanup"
    /\ \A f \in sstables : ~Stale(f)
    /\ compPc' = "ack"
    /\ UNCHANGED << clientVars, flushVars, compPath, tableVars, chanVars,
                    diskVars, histVars, poisoned, handle >>

\* The ack channel is empty here: it holds one and each Flush waits for it.
CompactorAck ==
    /\ compPc = "ack"
    /\ ackChan = 0
    /\ ackChan' = 1
    /\ compPc' = "recv"
    /\ UNCHANGED << clientVars, flushVars, compPath, tableVars, flushes,
                    flushShut, compChan, diskVars, histVars, poisoned, handle >>

\* Every file error of the task is an expect() that panics; the poison flag
\* is not set.  At "replace" it is the new file that cannot be read back.
CompactorFails ==
    /\ \/ /\ compPc = "recv" /\ "load" \in Faults
          /\ compChan # << >>
          /\ Head(compChan) # Shutdown
       \/ compPc \in {"merge", "finish", "replace"} /\ "compact" \in Faults
       \/ compPc = "cleanup" /\ "cleanup" \in Faults
    /\ compChan' = << >>
    /\ compPc' = "panicked"
    /\ UNCHANGED << clientVars, flushVars, compPath, tableVars, flushes,
                    flushShut, ackChan, diskVars, histVars, poisoned, handle >>

----------------------------------------------------------------------------
(* Drop for LsmliteInner, once no call is in progress.                     *)

NoCalls == \A c \in Client : pc[c] \in {"idle", "panicked"}

\* Shutdown goes to the compaction task first; a failure to send panics, and
\* with the handle its sender to the flush task goes too.
DropSignalCompactor ==
    /\ "thread" \in MayDrop
    /\ handle = "open"
    /\ NoCalls
    /\ \/ /\ compPc \notin Exited
          /\ Len(compChan) < CompactionQueue
          /\ compChan' = Append(compChan, Shutdown)
          /\ handle' = "dropping"
       \/ compPc \in Exited /\ handle' = "closed" /\ UNCHANGED compChan
    /\ UNCHANGED << clientVars, flushVars, compVars, tableVars, flushes,
                    flushShut, ackChan, diskVars, histVars, poisoned >>

\* blocking_send panics on a thread that drives asynchronous tasks: nothing
\* is sent and the handle goes with its senders.
DropInTask ==
    /\ "task" \in MayDrop
    /\ handle = "open"
    /\ NoCalls
    /\ handle' = "closed"
    /\ UNCHANGED << clientVars, flushVars, compVars, tableVars, chanVars,
                    diskVars, histVars, poisoned >>

DropSignalFlusher ==
    /\ handle = "dropping"
    /\ handle' = "closed"
    /\ \/ flushPc \notin Exited /\ FlushRoom /\ flushShut' = TRUE
       \/ flushPc \in Exited /\ UNCHANGED flushShut
    /\ UNCHANGED << clientVars, flushVars, compVars, tableVars, flushes,
                    compChan, ackChan, diskVars, histVars, poisoned >>

----------------------------------------------------------------------------
\* Nothing is left to do: each task waits for work or has ended.
Quiescent ==
    /\ NoCalls
    /\ \/ flushPc \in Exited
       \/ flushPc = "recv" /\ flushes = 0 /\ ~flushShut /\ handle # "closed"
    /\ \/ compPc \in Exited
       \/ compPc = "recv" /\ compChan = << >> /\ handle # "closed"
    /\ UNCHANGED vars

\* A call that has begun, except where it hits a fault.
Call(c) == \/ Rotate(c) \/ Push(c) \/ Signal(c) \/ SignalClosed(c) \/ Retry(c)
           \/ GetImmutable(c) \/ GetSSTable(c) \/ Return(c)

Flusher == \/ FlushRecv \/ FlushShutdown \/ FlushRecvClosed \/ FlushFront
           \/ FlushWrite \/ FlushUnlink \/ FlushLoad \/ FlushAck
           \/ FlushAckClosed

Compactor == \/ CompactorLoad \/ CompactorShutdown
             \/ CompactorRecvClosed \/ CompactorPop
             \/ CompactorCreate \/ CompactorFinish \/ CompactorReplace
             \/ \E f \in sstables : CompactorCleanup(f)
             \/ CompactorCleaned \/ CompactorAck

Next ==
    \/ \E c \in Client :
        \/ \E k \in Key : Set(c, k) \/ Delete(c, k) \/ Get(c, k)
        \/ CallPoisoned(c) \/ RotateFails(c) \/ Cancel(c) \/ Call(c)
    \/ Flusher \/ FlushCreateFails \/ FlushFails
    \/ Compactor \/ CompactorFails
    \/ DropSignalCompactor \/ DropSignalFlusher \/ DropInTask
    \/ Quiescent

Spec == Init /\ [][Next]_vars

\* The runtime polls every task that can go on; nothing makes a client start
\* a call and nothing makes a file operation fail.
FairSpec == /\ Spec
            /\ \A c \in Client : WF_vars(Call(c))
            /\ WF_vars(Flusher)
            /\ WF_vars(Compactor)
            /\ WF_vars(DropSignalFlusher)

----------------------------------------------------------------------------
(* Properties of the flush pipeline.                                       *)

\* When the flush task asks for the oldest immutable memtable there is one:
\* the expect() in ImmutableMemtable::flush never fires.  Signals are sent
\* after their table is queued and tables leave one per signal served, also
\* when flushes fail on the way.
FlushNeverEmpty == flushPc = "front" => immutable # << >>

\* The table the compaction task pops from the queue is the one whose
\* SSTable it has just put at the front of the cache: pop() names no table
\* and would drop any other one, with its only readable copy.
PopMatchesFlush ==
    compPc = "pop" =>
        /\ immutable # << >>
        /\ cache # << >>
        /\ Head(cache).data = write_sstable(Head(immutable))

\* While the compaction task pops, merges or removes files, the flush task
\* waits for its acknowledgement, so the directory scan of cleanup() meets
\* no file that is being written.
NoFlushDuringCompaction ==
    compPc \notin Exited \cup {"recv"} => flushPc = "ack" /\ ackChan = 0

\* A LoadSSTable message is on its way.
PathQueued == \E i \in DOMAIN compChan : compChan[i] # Shutdown

\* The table at the front of the queue belongs to a flush in progress.
InFlight == flushPc \in {"front", "write", "unlink", "load"} \/ PathQueued
                \/ compPc = "pop"

\* How the flush and the compaction task take turns: one LoadSSTable at most
\* is queued, while the flush task waits and the compaction task is idle.
Handshake ==
    /\ \A i \in DOMAIN compChan :
        compChan[i] # Shutdown => /\ compChan[i] = flushPath
                                  /\ flushPc = "ack" /\ ackChan = 0
                                  /\ compPc = "recv"
    /\ \A i, j \in DOMAIN compChan :
        compChan[i] # Shutdown /\ compChan[j] # Shutdown => i = j
    /\ NoFlushDuringCompaction
    /\ ackChan = 1 => flushPc = "ack"

\* File names are unique, and the files the tasks have in hand hold what the
\* tasks take them to hold.
FilesInHand ==
    /\ \A f \in sstables : f.path <= clock
    /\ \A f, g \in sstables : f.path = g.path => f = g
    /\ flushPc \in {"front", "write"} =>
        [path |-> flushPath, data |-> Partial] \in sstables
    /\ flushPc \in {"unlink", "load"} \/ PathQueued =>
        [path |-> flushPath, data |-> write_sstable(flushHead)] \in sstables
    /\ compPc = "finish" => [path |-> compPath, data |-> Partial] \in sstables
    /\ compPc = "replace" =>
        \E f \in sstables : f.path = compPath /\ f.data # Partial

\* Calls that have queued a table and not signalled it yet.
Signalling == {c \in Client : pc[c] = "signal"}

\* Each signal sent, about to be sent or being served has its own table in
\* the queue, and the one being served has the front one.
QueueCovered ==
    /\ Len(immutable) >= Cardinality(Signalling) + flushes
                            + (IF InFlight THEN 1 ELSE 0)
    /\ InFlight /\ flushPc # "front" => flushHead = Head(immutable)
    /\ compPc = "pop" =>
        cache # << >> /\ Head(cache).data = write_sstable(flushHead)

\* What a call in progress carries.
CallsCarry ==
    \A c \in Client :
        /\ pc[c] \in {"rotate", "push", "signal", "retry"} => req[c] \in Entry
        /\ pc[c] \in {"immutable", "sstable"} => req[c] \in Request
        /\ pc[c] = "push" => held[c] \in Table

\* The inductive invariant of the flush pipeline: whatever fails and however
\* many calls rotate tables at once, signals, queued tables, files and the
\* turns of the two background tasks stay in step.
PipelineInv == Handshake /\ FilesInHand /\ QueueCovered /\ CallsCarry

\* The last record of a log for each key, as a replay would leave it.
Replay(log) ==
    [k \in Key |->
        LET i == SelectLastInSeq(log, LAMBDA e : e.key = k)
        IN  IF i = 0 THEN Absent ELSE log[i].datum]

\* Every table that is not served from an SSTable yet is accounted for: its
\* log file and log buffer together replay to its contents, or a complete
\* SSTable file with its contents is on disk.
TableRecoverable(t) ==
    \/ \E w \in wals : /\ w.ts = t.wal
                       /\ Replay(w.log \o t.buffer) = write_sstable(t)
    \/ \E f \in sstables : f.data = write_sstable(t)

QueueRecoverable ==
    /\ TableRecoverable(memtable)
    /\ \A c \in Client : held[c] # Absent => TableRecoverable(held[c])
    /\ \A i \in DOMAIN immutable : TableRecoverable(immutable[i])

\* The cache is in descending order of file names, which is the order a
\* restart derives from the names (restart::scan_directory).
CacheSortedByName ==
    \A i, j \in DOMAIN cache : i < j => cache[i].path > cache[j].path

\* A table leaves the queue only when the cache holds its contents, whatever
\* failed before: a flush that failed leaves it where it was.
LeavesQueueWhenServed ==
    [][\A i \in DOMAIN immutable :
        \/ \E j \in DOMAIN immutable' : immutable'[j] = immutable[i]
        \/ \E j \in DOMAIN cache :
                cache[j].data = write_sstable(immutable[i])]_vars

----------------------------------------------------------------------------
(* Properties of reads and writes.                                         *)

\* The queue holds the tables in the order they were rotated, which is what
\* get() and the SSTables' order rely on.
QueueOrdered ==
    \A i, j \in DOMAIN immutable : i < j => immutable[i].wal < immutable[j].wal

\* A get of a key that is deleted throughout the call returns nothing.
TombstoneStopsSearch ==
    \A c \in Readers :
        pc[c] = "done" /\ ~gap[c] /\ seen[c] = {Absent} => ret[c] = Absent

\* After a rotation the retried write finds room: with one writer nobody
\* fills the fresh table before it.
RetryFindsRoom == lost = {}

----------------------------------------------------------------------------
(* Properties of files.                                                    *)

\* Every table of the cache has its file on disk, so that a restart finds it
\* again, except for the oldest one, which is a compacted table: the removal
\* of stale files takes the files of tables that are out of the cache, and
\* that of the table that replaced them.
OnlyOldestLacksFile ==
    \A i \in DOMAIN cache : i < Len(cache) => cache[i] \in sstables

----------------------------------------------------------------------------
(* Liveness.                                                               *)

\* Every queued table is flushed, loaded and popped, unless a flush failed or
\* a background task has ended.
QueueDrains ==
    immutable # << >> ~> \/ immutable = << >>
                         \/ poisoned
                         \/ flushPc \in Exited
                         \/ compPc \in Exited

\* A write that found the table full returns or panics, although it has to
\* wait for room in the flush channel: whichever task fails, no call waits
\* for ever.
CallsReturn ==
    \A c \in Writers : pc[c] = "rotate" ~> pc[c] \in {"idle", "panicked"}

\* After the last handle is dropped both background tasks end, wherever it
\* was dropped and whatever they were doing.
ShutdownCompletes ==
    handle = "closed" ~> (flushPc \in Exited /\ compPc \in Exited)
=============================================================================
