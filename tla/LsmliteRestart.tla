--------------------------- MODULE LsmliteRestart ---------------------------
(***************************************************************************)
(* The engine across restarts: the process may stop at any moment, and     *)
(* get_restart_state (src/restart/mod.rs) followed by LsmLite::new         *)
(* (src/database/inner.rs) rebuilds the engine from the files it left.     *)
(*                                                                         *)
(* Grain: each step of a start that creates or removes a file, and each    *)
(* signal it sends, is one step, so that the process may stop between any  *)
(* two of them.  A log file is what Wal::flush wrote; what is still in the *)
(* buffer is lost with the process.  Files written are taken to survive.   *)
(***************************************************************************)
EXTENDS LsmliteStore

CONSTANTS
    MaxCrashes,     \* bound: times the process stops
    StartIn         \* where LsmLite::new is called: on a "thread" that may
                    \* block, or in a "task" of the runtime

ASSUME RestartAssumption ==
    /\ MaxCrashes \in Nat
    /\ StartIn \subseteq {"thread", "task"}

VARIABLES
    phase,      \* "down", the steps of a start, "running", or "failed"
    walFiles,   \* wal_files, oldest first; the newest until it is replayed
    sstFiles,   \* sstable_files, newest first
    replayed,   \* the table each worker made from its log, once it has
    place,      \* where LsmLite::new was called
    crashes,    \* times the process has stopped
    expected    \* history: what the files held for each key at the last start

startVars == << walFiles, sstFiles, replayed, place >>
restartVars == << vars, phase, startVars, crashes, expected >>

----------------------------------------------------------------------------
(* Reading the directory.                                                  *)

\* Mutant: the SSTables are sorted like the logs.
scan_sstables_oldest_first == InOrder(sstables, [f \in sstables |-> f.path])

\* scan_directory: the logs oldest first, the SSTables newest first.
scan_wals == InOrder(wals, [w \in wals |-> w.ts])

scan_sstables == InOrder(sstables, [f \in sstables |-> -f.path])

\* Mutant: the table counts as full with one free node left.
insert_record_from_wal_tight(t, e) ==
    IF t = Absent \/ full(t) \/ Cardinality(Nodes(t)) + 1 = MaxNodes
    THEN Absent ELSE insert_node(t, e)

\* insert_record_from_wal: no log entry is written; a full table is a
\* todo!(), after which there is no table.
insert_record_from_wal(t, e) ==
    IF t = Absent \/ full(t) THEN Absent ELSE insert_node(t, e)

\* MemtableInner::from_wal up to the removal of the old log; the new table's
\* own log is new and empty.
from_wal(log, ts) ==
    LET table[n \in 0..Len(log)] ==
            IF n = 0 THEN NewTable(ts)
                     ELSE insert_record_from_wal(table[n - 1], log[n])
    IN  table[Len(log)]

NewLog == wals \cup {[ts |-> clock + 1, log |-> << >>]}

----------------------------------------------------------------------------
(* What the files say: the last record for a key in the newest log that    *)
(* has one, or in the newest complete SSTable.                             *)

LogBlocks ==
    LET logs == InOrder(wals, [w \in wals |-> -w.ts])
    IN  [i \in DOMAIN logs |-> Replay(logs[i].log)]

FileBlocks ==
    LET complete == {f \in sstables : f.data # Partial}
        files == InOrder(complete, [f \in complete |-> -f.path])
    IN  [i \in DOMAIN files |-> files[i].data]

OnDisk == [k \in Key |-> search(LogBlocks \o FileBlocks, k)]

----------------------------------------------------------------------------
RestartInit ==
    /\ Init
    /\ phase = "running"
    /\ walFiles = << >>
    /\ sstFiles = << >>
    /\ replayed = << >>
    /\ place = "thread"
    /\ crashes = 0
    /\ expected = [k \in Key |-> Absent]

\* What is not on disk is gone, and the channels and tasks start afresh.
Crash ==
    /\ phase # "down"
    /\ crashes < MaxCrashes
    /\ crashes' = crashes + 1
    /\ phase' = "down"
    /\ memtable' = NewTable(0)
    /\ immutable' = << >>
    /\ cache' = << >>
    /\ poisoned' = FALSE
    /\ flushes' = 0 /\ flushShut' = FALSE
    /\ compChan' = << >> /\ ackChan' = 0
    /\ flushPc' = "recv" /\ flushPath' = 0 /\ flushHead' = Absent
    /\ compPc' = "recv" /\ compPath' = 0
    /\ pc' = [c \in Client |-> "idle"]
    /\ req' = [c \in Client |-> Absent]
    /\ held' = [c \in Client |-> Absent]
    /\ ret' = [c \in Client |-> Absent]
    /\ handle' = "open"
    /\ store' = [k \in Key |-> Absent]
    /\ seen' = [c \in Client |-> {}]
    /\ gap' = [c \in Client |-> FALSE]
    /\ lost' = {}
    /\ walFiles' = << >> /\ sstFiles' = << >> /\ replayed' = << >>
    /\ UNCHANGED << wals, sstables, clock, ops, place, expected >>

\* The engine's variables a start does not touch.
UntouchedByStart == << clientVars, flushVars, compVars, flushShut, compChan,
                       ackChan, ops, seen, gap, lost, poisoned, handle >>

\* get_restart_state, then the call of LsmLite::new.
Start(p) ==
    /\ phase = "down"
    /\ phase' = "memtable"
    /\ walFiles' = scan_wals
    /\ sstFiles' = scan_sstables
    /\ place' = p
    /\ expected' = OnDisk
    /\ UNCHANGED << UntouchedByStart, memtable, immutable, cache, flushes,
                    wals, sstables, clock, store, replayed, crashes >>

\* construct_memtable on the newest log: the new log is created, then the
\* records are inserted.
StartMemtable ==
    /\ phase = "memtable"
    /\ clock' = clock + 1
    /\ wals' = NewLog
    /\ LET t == from_wal(Last(walFiles).log, clock + 1)
       IN  IF t = Absent THEN phase' = "failed" /\ UNCHANGED memtable
                         ELSE phase' = "unlink" /\ memtable' = t
    /\ UNCHANGED << UntouchedByStart, immutable, cache, flushes, sstables,
                    store, startVars, crashes, expected >>

\* The log is removed; its records are in memory only.
StartUnlink ==
    /\ phase = "unlink"
    /\ wals' = wals \ {Last(walFiles)}
    /\ walFiles' = Front(walFiles)
    /\ phase' = "cache"
    /\ UNCHANGED << UntouchedByStart, memtable, immutable, cache, flushes,
                    sstables, clock, store, sstFiles, replayed, place, crashes,
                    expected >>

\* The engine is handed to the caller and the tasks are spawned.
Running == phase' = "running" /\ store' = expected

\* construct_sstable_cache: a file without its footer panics.
StartCache ==
    /\ phase = "cache"
    /\ replayed' = [i \in DOMAIN walFiles |-> Absent]
    /\ \/ /\ \E i \in DOMAIN sstFiles : sstFiles[i].data = Partial
          /\ phase' = "failed"
          /\ UNCHANGED << cache, store >>
       \/ /\ \A i \in DOMAIN sstFiles : sstFiles[i].data # Partial
          /\ cache' = sstFiles
          /\ IF walFiles = << >> THEN Running
                                 ELSE phase' = "replay" /\ UNCHANGED store
    /\ UNCHANGED << UntouchedByStart, memtable, immutable, flushes, wals,
                    sstables, clock, walFiles, sstFiles, place, crashes,
                    expected >>

\* read_immutable_tables: a worker per rotated log, in parallel.
StartReplay(i) ==
    /\ phase = "replay"
    /\ i \in DOMAIN walFiles
    /\ replayed[i] = Absent
    /\ clock' = clock + 1
    /\ wals' = NewLog
    /\ replayed' = [replayed EXCEPT ![i] = from_wal(walFiles[i].log, clock + 1)]
    /\ phase' = IF replayed'[i] = Absent THEN "failed" ELSE phase
    /\ UNCHANGED << UntouchedByStart, memtable, immutable, cache, flushes,
                    sstables, store, walFiles, sstFiles, place, crashes,
                    expected >>

StartReplayUnlink(i) ==
    /\ phase = "replay"
    /\ i \in DOMAIN walFiles
    /\ replayed[i] # Absent
    /\ walFiles[i] \in wals
    /\ wals' = wals \ {walFiles[i]}
    /\ UNCHANGED << UntouchedByStart, memtable, immutable, cache, flushes,
                    sstables, clock, store, phase, startVars, crashes,
                    expected >>

\* The queue is collected in the order of the logs, whichever worker ended
\* first.
StartQueue ==
    /\ phase = "replay"
    /\ \A i \in DOMAIN walFiles : replayed[i] # Absent /\ walFiles[i] \notin wals
    /\ immutable' = replayed
    /\ phase' = "signal"
    /\ UNCHANGED << UntouchedByStart, memtable, cache, flushes, wals, sstables,
                    clock, store, startVars, crashes, expected >>

\* Mutant: 0..=n_files.
Signals_one_more == Len(walFiles) + 1

\* n_files.
Signals == Len(walFiles)

\* One Flush per log, before any receiver runs: blocking_send waits for room,
\* and panics in a task of the runtime.
StartSignal ==
    /\ phase = "signal"
    /\ \/ /\ place = "thread"
          /\ FlushRoom
          /\ flushes' = flushes + 1
          /\ IF flushes' = Signals THEN Running
                                   ELSE UNCHANGED << phase, store >>
       \/ /\ place = "task"
          /\ phase' = "failed"
          /\ UNCHANGED << flushes, store >>
    /\ UNCHANGED << UntouchedByStart, tableVars, diskVars, startVars, crashes,
                    expected >>

\* LsmLite::new has panicked and nobody starts the program again.
Abandoned == phase = "failed" /\ UNCHANGED restartVars

StartStep ==
    \/ StartMemtable \/ StartUnlink \/ StartCache
    \/ \E i \in DOMAIN walFiles : StartReplay(i) \/ StartReplayUnlink(i)
    \/ StartQueue \/ StartSignal

Run == phase = "running" /\ Next /\ UNCHANGED << phase, startVars, crashes,
                                                 expected >>

RestartNext ==
    \/ Run
    \/ Crash
    \/ \E p \in StartIn : Start(p)
    \/ StartStep
    \/ Abandoned

RestartSpec == RestartInit /\ [][RestartNext]_restartVars

----------------------------------------------------------------------------
(* Properties.                                                             *)

\* A start that completes serves what the files held when it began, however
\* its workers interleave and whatever earlier starts left behind: newer logs
\* before older ones, logs before SSTables, newer SSTables before older ones.
StartRecovers ==
    [][phase # "running" /\ phase' = "running" => Contents' = expected]_restartVars

\* A start panics only over a file the last process was writing or where it
\* may not block; the replay of a log never meets a full table: "Recovering
\* from WAL should not exceed max memtable size" (MemtableInner::from_wal).
ReplayFits ==
    phase = "failed" =>
        \/ \E i \in DOMAIN sstFiles : sstFiles[i].data = Partial
        \/ place = "task" /\ walFiles # << >>

\* The first restart keeps to that: a log, also one cut off where its buffer
\* was last written, replays into a table in which every record fits, because
\* the table it came from took the same records in the same order.
FirstReplayFits == crashes <= 1 => ReplayFits

\* A key with a record in some table's log buffer.
Buffered(k) ==
    \E t \in {memtable} \cup Range(immutable) \cup ({held[c] : c \in Client} \ {Absent}) :
        \E i \in DOMAIN t.buffer : t.buffer[i].key = k

\* The first time the process stops, at whatever step of a rotation, a flush
\* or a load, only records in log buffers are lost: for every other key the
\* files say what a get would have found.  No merge runs here.
CrashLosesOnlyBuffers ==
    [][phase = "running" /\ crashes = 0 /\ phase' = "down" =>
        \A k \in Key : ~Buffered(k) => OnDisk'[k] = Contents[k]]_restartVars

\* Until the first restart every table has its records in its log or in a
\* complete SSTable file, also after flushes that failed.
RecoverableUntilRestart == crashes = 0 => QueueRecoverable

\* What a start found on disk, the next start finds again, or something
\* newer: "On a crash and restart the WAL is replayed to recover the memtable
\* state."  For sets, whose values are ordinals.
Durable ==
    [][\A k \in Key : phase = "down" /\ phase' = "memtable" /\ expected[k] # Absent
            => expected'[k] # Absent /\ expected'[k] >= expected[k]]_restartVars
=============================================================================
