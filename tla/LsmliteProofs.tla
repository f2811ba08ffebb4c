--------------------------- MODULE LsmliteProofs ---------------------------
(***************************************************************************)
(* Proofs about module Lsmlite, for any number of keys, calls and tables,  *)
(* any queue sizes and any set of faults.                                  *)
(*                                                                         *)
(* What the code relies on without checking it (an expect() on the front   *)
(* of the queue, a pop() that names no table, a directory scan that        *)
(* removes every other SSTable file) follows from PipelineInv.  Together   *)
(* with TypeOK it is inductive: the lemmas below take its four conjuncts   *)
(* through the steps of the calls, of the flush task and of the compaction *)
(* task in turn, and theorem Inductive joins them.                         *)
(***************************************************************************)
EXTENDS Lsmlite, TableProofs

----------------------------------------------------------------------------
(* Consequences of the assumptions and of the pipeline invariant.          *)

\* The assumptions on the constants, in the form the type proofs use.
LEMMA TypeFacts ==
    /\ Absent \notin Value
    /\ FlushQueue \in Nat \ {0}
    /\ MaxOps \in Nat
    /\ CompactionQueue \in Nat
BY TableAssumption, LsmliteAssumption

\* The calls about to signal are counted by a natural number.
LEMMA SignallingFinite ==
    IsFiniteSet(Signalling) /\ Cardinality(Signalling) \in Nat
<1>1. IsFiniteSet(Client)
  BY LsmliteAssumption, FS_Union DEF Client
<1>2. IsFiniteSet(Signalling)
  BY <1>1, FS_Subset DEF Signalling
<1> QED
  BY <1>2, FS_CardinalityType

\* While a flush is in progress its table exists, at the front of the queue.
LEMMA FrontExists ==
    ASSUME TypeOK, PipelineInv, InFlight
    PROVE  /\ immutable # << >>
           /\ Head(immutable) \in Table
           /\ flushPc # "front" => flushHead \in Table
<1>1. Len(immutable) >= 1
  BY SignallingFinite DEF TypeOK, PipelineInv, QueueCovered
<1>2. immutable # << >> /\ Head(immutable) \in Table
  BY <1>1 DEF TypeOK
<1> QED
  BY <1>2 DEF PipelineInv, QueueCovered

\* Names are unique, so from_path finds the file of that name.
LEMMA FromPath ==
    ASSUME FilesInHand, NEW f \in sstables
    PROVE  from_path(f.path) = f
BY DEF from_path, FilesInHand

\* The file a LoadSSTable message names is complete and holds the table the
\* flush task has in hand.
LEMMA QueuedFile ==
    ASSUME TypeOK, PipelineInv, compChan # << >>, Head(compChan) # Shutdown
    PROVE  /\ PathQueued
           /\ Head(compChan) = flushPath
           /\ from_path(flushPath) =
                [path |-> flushPath, data |-> write_sstable(flushHead)]
           /\ from_path(flushPath) \in SSTable
<1>1. 1 \in DOMAIN compChan /\ compChan[1] = Head(compChan)
  BY DEF TypeOK
<1>2. PathQueued
  BY <1>1 DEF PathQueued
<1>3. Head(compChan) = flushPath /\ flushPc = "ack"
  BY <1>1 DEF PipelineInv, Handshake
<1>4. [path |-> flushPath, data |-> write_sstable(flushHead)] \in sstables
  BY <1>2 DEF PipelineInv, FilesInHand
<1>5. flushHead \in Table
  BY <1>2, <1>3, FrontExists DEF InFlight
<1>6. write_sstable(flushHead) \in Block
  BY <1>5, WriteSSTableType
<1>7. from_path(flushPath) = [path |-> flushPath, data |-> write_sstable(flushHead)]
  <2> DEFINE f == [path |-> flushPath, data |-> write_sstable(flushHead)]
  <2>1. f.path = flushPath
    OBVIOUS
  <2> HIDE DEF f
  <2>2. from_path(f.path) = f
    BY <1>4, FromPath DEF PipelineInv, f
  <2> QED
    BY <2>1, <2>2 DEF f
<1>8. from_path(flushPath) \in SSTable
  BY <1>6, <1>7 DEF SSTable, TypeOK
<1> QED
  BY <1>2, <1>3, <1>7, <1>8

\* run_compaction makes a block of blocks.
LEMMA MergesType ==
    ASSUME NEW b \in Seq(Block), NEW m \in Merges(b)
    PROVE  m \in Block
<1> DEFINE D == UNION {{b[i][k] : i \in DOMAIN b} : k \in Key}
<1>1. m \in [Key -> D \cup {Absent}]
  BY DEF Merges
<1>2. D \subseteq Datum \cup {Absent}
  <2>1. ASSUME NEW k \in Key, NEW i \in DOMAIN b
        PROVE  b[i][k] \in Datum \cup {Absent}
    <3>1. b[i] \in Block
      OBVIOUS
    <3> QED
      BY <3>1 DEF Block
  <2>2. ASSUME NEW x \in D
        PROVE  x \in Datum \cup {Absent}
    <3>1. PICK k \in Key : x \in {b[i][k] : i \in DOMAIN b}
      BY <2>2
    <3>2. PICK i \in DOMAIN b : x = b[i][k]
      BY <3>1
    <3> QED
      BY <3>2, <2>1
  <2> HIDE DEF D
  <2> QED
    BY <2>2
<1> HIDE DEF D
<1> QED
  BY <1>1, <1>2 DEF Block

\* The blocks of the cached SSTables, as search and the merge see them.
LEMMA CacheBlocks ==
    ASSUME TypeOK
    PROVE  [i \in DOMAIN cache |-> cache[i].data] \in Seq(Block)
<1>1. \A i \in DOMAIN cache : cache[i] \in SSTable
  BY DEF TypeOK
<1>2. \A i \in DOMAIN cache : cache[i].data \in Block
  BY <1>1 DEF SSTable
<1>3. DOMAIN cache = 1..Len(cache) /\ Len(cache) \in Nat
  BY DEF TypeOK
<1> QED
  BY <1>2, <1>3

----------------------------------------------------------------------------
(* TypeOK is kept.                                                         *)

\* The calls of set and delete after they found the table full, the return
\* of get and a dropped future keep the types.
LEMMA TypeClient ==
    ASSUME TypeOK, PipelineInv, NEW c \in Client,
           \/ CallPoisoned(c) \/ Rotate(c) \/ RotateFails(c) \/ Push(c)
           \/ Signal(c) \/ SignalClosed(c) \/ Return(c) \/ Cancel(c)
    PROVE  TypeOK'
<1>1. CASE CallPoisoned(c)
  BY <1>1, TypeFacts DEF TypeOK, CallPoisoned, ClientStates,
     clientVars, flushVars, compVars, tableVars, chanVars, diskVars, histVars
<1>2. CASE Rotate(c)
  <2>1. NewTable(clock + 1) \in Table
    BY NewTableType DEF TypeOK
  <2>2. [ts |-> clock + 1, log |-> << >>] \in WalFile
    BY DEF TypeOK, WalFile
  <2> QED
    BY <1>2, <2>1, <2>2, TypeFacts DEF TypeOK, Rotate, ClientStates,
       clientVars, flushVars, compVars, tableVars, chanVars, diskVars, histVars
<1>3. CASE RotateFails(c)
  BY <1>3, TypeFacts DEF TypeOK, RotateFails, ClientStates,
     clientVars, flushVars, compVars, tableVars, chanVars, diskVars, histVars
<1>4. CASE Push(c)
  <2>1. Append(immutable, held[c]) \in Seq(Table)
    BY <1>4 DEF TypeOK, Push, PipelineInv, CallsCarry
  <2> QED
    BY <1>4, <2>1, TypeFacts DEF TypeOK, Push, insert, ClientStates,
       clientVars, flushVars, compVars, tableVars, chanVars, diskVars, histVars
<1>5. CASE Signal(c)
  BY <1>5, TypeFacts DEF TypeOK, Signal, FlushRoom, ClientStates,
     clientVars, flushVars, compVars, tableVars, chanVars, diskVars, histVars
<1>6. CASE SignalClosed(c)
  BY <1>6, TypeFacts DEF TypeOK, SignalClosed, ClientStates,
     clientVars, flushVars, compVars, tableVars, chanVars, diskVars, histVars
<1>7. CASE Return(c)
  BY <1>7, TypeFacts DEF TypeOK, Return, ClientStates,
     clientVars, flushVars, compVars, tableVars, chanVars, diskVars, histVars
<1>8. CASE Cancel(c)
  BY <1>8, TypeFacts DEF TypeOK, Cancel, ClientStates,
     clientVars, flushVars, compVars, tableVars, chanVars, diskVars, histVars
<1> QED
  BY <1>1, <1>2, <1>3, <1>4, <1>5, <1>6, <1>7, <1>8

\* The steps of the flush task keep the types.
LEMMA TypeFlusher ==
    ASSUME TypeOK, PipelineInv, Flusher \/ FlushCreateFails \/ FlushFails
    PROVE  TypeOK'
<1>1. CASE FlushRecv
  BY <1>1, TypeFacts DEF TypeOK, FlushRecv, Created, SSTableFile, FlushStates,
     clientVars, flushVars, compVars, tableVars, chanVars, diskVars, histVars
<1>2. CASE FlushCreateFails
  BY <1>2, TypeFacts DEF TypeOK, FlushCreateFails, FlushStates,
     clientVars, flushVars, compVars, tableVars, chanVars, diskVars, histVars
<1>3. CASE FlushShutdown \/ FlushRecvClosed
  BY <1>3, TypeFacts DEF TypeOK, FlushShutdown, FlushRecvClosed, FlushStates,
     clientVars, flushVars, compVars, tableVars, chanVars, diskVars, histVars
<1>4. CASE FlushFront
  <2>1. Head(immutable) \in Table
    BY <1>4, FrontExists DEF FlushFront, InFlight
  <2> QED
    BY <1>4, <2>1, TypeFacts DEF TypeOK, FlushFront, front, FlushStates,
       clientVars, flushVars, compVars, tableVars, chanVars, diskVars, histVars
<1>5. CASE FlushWrite
  <2>1. write_sstable(flushHead) \in Block
    BY <1>5, FrontExists, WriteSSTableType DEF FlushWrite, InFlight
  <2>2. sstables' \subseteq SSTableFile
    BY <1>5, <2>1 DEF FlushWrite, Written, SSTableFile, TypeOK
  <2> QED
    BY <1>5, <2>2, TypeFacts DEF TypeOK, FlushWrite, FlushStates,
       clientVars, flushVars, compVars, tableVars, chanVars, diskVars, histVars
<1>6. CASE FlushUnlink
  BY <1>6, TypeFacts DEF TypeOK, FlushUnlink, FlushStates,
     clientVars, flushVars, compVars, tableVars, chanVars, diskVars, histVars
<1>7. CASE FlushFails
  BY <1>7, TypeFacts DEF TypeOK, FlushFails, FlushStates,
     clientVars, flushVars, compVars, tableVars, chanVars, diskVars, histVars
<1>8. CASE FlushLoad
  <2>1. Append(compChan, flushPath) \in Seq(Nat \cup {Shutdown})
    BY DEF TypeOK
  <2>2. Len(Append(compChan, flushPath)) = Len(compChan) + 1
    BY DEF TypeOK
  <2>3. compChan' \in Seq(Nat \cup {Shutdown}) /\ Len(compChan') <= CompactionQueue
    <3>1. /\ compChan \in Seq(Nat \cup {Shutdown})
          /\ Len(compChan) \in Nat
          /\ Len(compChan) <= CompactionQueue
      BY DEF TypeOK
    <3>2. \/ compChan' = Append(compChan, flushPath) /\ Len(compChan) < CompactionQueue
          \/ compChan' = compChan
      BY <1>8 DEF FlushLoad
    <3>3. CASE compChan' = compChan
      BY <3>1, <3>3
    <3>4. CASE compChan' = Append(compChan, flushPath) /\ Len(compChan) < CompactionQueue
      BY <2>1, <2>2, <3>1, <3>4, TypeFacts
    <3> QED
      BY <3>2, <3>3, <3>4
  <2> QED
    BY <1>8, <2>3, TypeFacts DEF TypeOK, FlushLoad, FlushStates,
       clientVars, flushVars, compVars, tableVars, chanVars, diskVars, histVars
<1>9. CASE FlushAck
  BY <1>9, TypeFacts DEF TypeOK, FlushAck, FlushStates,
     clientVars, flushVars, compVars, tableVars, chanVars, diskVars, histVars
<1>10. CASE FlushAckClosed
  BY <1>10, TypeFacts DEF TypeOK, FlushAckClosed, FlushStates,
     clientVars, flushVars, compVars, tableVars, chanVars, diskVars, histVars
<1> QED
  BY <1>1, <1>2, <1>3, <1>4, <1>5, <1>6, <1>7, <1>8, <1>9, <1>10 DEF Flusher

\* The steps of the compaction task and of drop keep the types.
LEMMA TypeCompactor ==
    ASSUME TypeOK, PipelineInv,
           \/ Compactor \/ CompactorFails
           \/ DropSignalCompactor \/ DropSignalFlusher \/ DropInTask
    PROVE  TypeOK'
<1>1. CASE CompactorLoad
  <2>1. push(cache, from_path(Head(compChan))) \in Seq(SSTable)
    BY <1>1, QueuedFile DEF CompactorLoad, push, TypeOK
  <2>2. Tail(compChan) \in Seq(Nat \cup {Shutdown})
    BY <1>1 DEF CompactorLoad, TypeOK
  <2>3. Len(Tail(compChan)) <= CompactionQueue
    BY <1>1, TypeFacts DEF CompactorLoad, TypeOK
  <2> QED
    BY <1>1, <2>1, <2>2, <2>3, TypeFacts DEF TypeOK, CompactorLoad, CompStates,
       clientVars, flushVars, compVars, tableVars, chanVars, diskVars, histVars
<1>2. CASE CompactorShutdown \/ CompactorRecvClosed
  <2>1. CASE CompactorShutdown
    BY <2>1, TypeFacts DEF TypeOK, CompactorShutdown, CompStates,
       clientVars, flushVars, compVars, tableVars, chanVars, diskVars, histVars
  <2>2. CASE CompactorRecvClosed
    BY <2>2, TypeFacts DEF TypeOK, CompactorRecvClosed, CompStates,
       clientVars, flushVars, compVars, tableVars, chanVars, diskVars, histVars
  <2> QED
    BY <1>2, <2>1, <2>2
<1>3. CASE CompactorPop
  BY <1>3, TypeFacts DEF TypeOK, CompactorPop, pop, CompStates,
     clientVars, flushVars, compVars, tableVars, chanVars, diskVars, histVars
<1>4. CASE CompactorCreate
  BY <1>4, TypeFacts DEF TypeOK, CompactorCreate, Created, SSTableFile, CompStates,
     clientVars, flushVars, compVars, tableVars, chanVars, diskVars, histVars
<1>5. CASE CompactorFinish
  <2>1. PICK m \in Merges([i \in DOMAIN cache |-> cache[i].data]) :
            sstables' = Written(compPath, m)
    BY <1>5 DEF CompactorFinish
  <2>2. m \in Block
    BY <2>1, CacheBlocks, MergesType
  <2>3. sstables' \subseteq SSTableFile
    BY <2>1, <2>2 DEF Written, SSTableFile, TypeOK
  <2> QED
    BY <1>5, <2>3, TypeFacts DEF TypeOK, CompactorFinish, CompStates,
       clientVars, flushVars, compVars, tableVars, chanVars, diskVars, histVars
<1>6. CASE CompactorReplace
  <2>1. PICK f \in sstables : f.path = compPath /\ f.data # Partial
    BY <1>6 DEF CompactorReplace, PipelineInv, FilesInHand
  <2>2. from_path(compPath) = f
    BY <2>1, FromPath DEF PipelineInv
  <2>3. f \in SSTable
    BY <2>1 DEF TypeOK, SSTableFile, SSTable
  <2>4. << from_path(compPath) >> \in Seq(SSTable)
    BY <2>2, <2>3
  <2> QED
    BY <1>6, <2>4, TypeFacts DEF TypeOK, CompactorReplace, CompStates,
       clientVars, flushVars, compVars, tableVars, chanVars, diskVars, histVars
<1>7. CASE \E f \in sstables : CompactorCleanup(f)
  BY <1>7, TypeFacts DEF TypeOK, CompactorCleanup, CompStates,
     clientVars, flushVars, compVars, tableVars, chanVars, diskVars, histVars
<1>8. CASE CompactorCleaned
  BY <1>8, TypeFacts DEF TypeOK, CompactorCleaned, CompStates,
     clientVars, flushVars, compVars, tableVars, chanVars, diskVars, histVars
<1>9. CASE CompactorAck
  BY <1>9, TypeFacts DEF TypeOK, CompactorAck, CompStates,
     clientVars, flushVars, compVars, tableVars, chanVars, diskVars, histVars
<1>10. CASE CompactorFails
  BY <1>10, TypeFacts DEF TypeOK, CompactorFails, CompStates,
     clientVars, flushVars, compVars, tableVars, chanVars, diskVars, histVars
<1>11. CASE DropSignalCompactor
  <2>1. Append(compChan, Shutdown) \in Seq(Nat \cup {Shutdown})
    BY DEF TypeOK
  <2>2. Len(Append(compChan, Shutdown)) = Len(compChan) + 1
    BY DEF TypeOK
  <2>3. compChan' \in Seq(Nat \cup {Shutdown}) /\ Len(compChan') <= CompactionQueue
    <3>1. /\ compChan \in Seq(Nat \cup {Shutdown})
          /\ Len(compChan) \in Nat
          /\ Len(compChan) <= CompactionQueue
      BY DEF TypeOK
    <3>2. \/ compChan' = Append(compChan, Shutdown) /\ Len(compChan) < CompactionQueue
          \/ compChan' = compChan
      BY <1>11 DEF DropSignalCompactor
    <3>3. CASE compChan' = compChan
      BY <3>1, <3>3
    <3>4. CASE compChan' = Append(compChan, Shutdown) /\ Len(compChan) < CompactionQueue
      BY <2>1, <2>2, <3>1, <3>4, TypeFacts
    <3> QED
      BY <3>2, <3>3, <3>4
  <2> QED
    BY <1>11, <2>3, TypeFacts DEF TypeOK, DropSignalCompactor, CompStates,
       clientVars, flushVars, compVars, tableVars, chanVars, diskVars, histVars
<1>12. CASE DropSignalFlusher \/ DropInTask
  BY <1>12, TypeFacts DEF TypeOK, DropSignalFlusher, DropInTask, FlushRoom, CompStates,
     clientVars, flushVars, compVars, tableVars, chanVars, diskVars, histVars
<1> QED
  BY <1>1, <1>2, <1>3, <1>4, <1>5, <1>6, <1>7, <1>8, <1>9, <1>10, <1>11, <1>12 DEF Compactor

\* An insertion keeps the types of what it changes.
LEMMA InsertTypes ==
    ASSUME TypeOK, NEW e \in Entry, Insert(e)
    PROVE  /\ memtable' \in Table
           /\ wals' \subseteq WalFile
           /\ store' \in [Key -> Value \cup {Absent}]
           /\ seen' \in [Client -> SUBSET (Value \cup {Absent})]
<1>0. e.key \in Key /\ e.datum \in Datum
  BY DEF Entry
<1>1. PICK due \in NeedsFlush :
        /\ memtable' = insert_node(write_log(memtable, e, due), e)
        /\ wals' = IF due THEN FlushLog(memtable) ELSE wals
  BY DEF Insert
<1>2. due \in BOOLEAN
  BY LsmliteAssumption
<1>3. memtable' \in Table
  BY <1>1, <1>2, InsertType DEF TypeOK
<1>4. wals' \subseteq WalFile
  <2>1. ASSUME NEW w \in wals
        PROVE  [w EXCEPT !.log = @ \o memtable.buffer] \in WalFile
    <3>1. w \in WalFile /\ memtable.buffer \in Seq(Entry)
      BY DEF TypeOK, Table
    <3>2. w.log \in Seq(Entry)
      BY <3>1 DEF WalFile
    <3>3. w.log \o memtable.buffer \in Seq(Entry)
      BY <3>1, <3>2
    <3> QED
      BY <3>1, <3>3 DEF WalFile
  <2>2. FlushLog(memtable) \subseteq WalFile
    BY <2>1 DEF FlushLog, TypeOK
  <2> QED
    BY <1>1, <1>2, <2>2 DEF TypeOK
<1>5. store' \in [Key -> Value \cup {Absent}]
  BY <1>0 DEF Insert, TypeOK, Datum
<1>6. store'[e.key] \in Value \cup {Absent}
  BY <1>0, <1>5
<1>7. seen' \in [Client -> SUBSET (Value \cup {Absent})]
  BY <1>6 DEF Insert, TypeOK
<1> QED
  BY <1>3, <1>4, <1>5, <1>7

\* The first attempt of set and delete keeps the types.
LEMMA TypeWrite ==
    ASSUME TypeOK, NEW c \in Client, NEW e \in Entry, Write(c, e)
    PROVE  TypeOK'
<1>1. ops' \in 0..MaxOps
  BY TypeFacts DEF Write, TypeOK
<1>2. e \in Request
  BY DEF Entry, Request
<1>3. CASE ~full(memtable)
  <2>1. Insert(e) /\ UNCHANGED << pc, req >>
    BY <1>3 DEF Write
  <2> QED
    BY <1>1, <2>1, InsertTypes DEF TypeOK, Write, flushVars, compVars, chanVars
<1>4. CASE full(memtable)
  <2>1. /\ pc' = [pc EXCEPT ![c] = "rotate"]
        /\ req' = [req EXCEPT ![c] = e]
        /\ UNCHANGED << memtable, wals, store, seen >>
    BY <1>4 DEF Write
  <2> QED
    BY <1>1, <1>2, <2>1 DEF TypeOK, Write, ClientStates, flushVars, compVars, chanVars
<1> QED
  BY <1>3, <1>4

\* What set and delete ask to store is a record.
LEMMA WriteEntries ==
    ASSUME TypeOK, NEW k \in Key
    PROVE  /\ [key |-> k, datum |-> ops + 1] \in Entry
           /\ [key |-> k, datum |-> Tombstone] \in Entry
BY TypeFacts DEF TypeOK, Entry, Datum, Value

\* The second attempt of set and delete keeps the types.
LEMMA TypeRetry ==
    ASSUME TypeOK, PipelineInv, NEW c \in Client, Retry(c)
    PROVE  TypeOK'
<1>1. req[c] \in Entry
  BY DEF Retry, PipelineInv, CallsCarry
<1>2. req[c] \in Request
  BY <1>1 DEF Entry, Request
<1>3. CASE ~full(memtable)
  <2>1. Insert(req[c]) /\ UNCHANGED lost
    BY <1>3 DEF Retry
  <2> QED
    BY <1>1, <2>1, InsertTypes
    DEF TypeOK, Retry, ClientStates, flushVars, compVars, chanVars
<1>4. CASE full(memtable)
  <2>1. /\ lost' = lost \cup {req[c]}
        /\ UNCHANGED << memtable, wals, store, seen >>
    BY <1>4 DEF Retry
  <2> QED
    BY <1>2, <2>1
    DEF TypeOK, Retry, ClientStates, flushVars, compVars, chanVars
<1> QED
  BY <1>3, <1>4

\* A layer's answer keeps the types of what it changes.
LEMMA AnswerTypes ==
    ASSUME TypeOK, NEW c \in Client, NEW d \in Datum \cup {Absent},
           NEW next \in ClientStates, Answer(c, d, next)
    PROVE  /\ pc' \in [Client -> ClientStates]
           /\ ret' \in [Client -> Value \cup {Absent}]
BY DEF Answer, TypeOK, Datum, ClientStates

\* The three lookups of get keep the types.
LEMMA TypeGet ==
    ASSUME TypeOK, PipelineInv, NEW c \in Client,
           \/ \E k \in Key : Get(c, k)
           \/ GetImmutable(c) \/ GetSSTable(c)
    PROVE  TypeOK'
<1>1. ASSUME NEW k \in Key, Get(c, k)
      PROVE  TypeOK'
  <2>1. get(memtable, k) \in Datum \cup {Absent}
    BY GetType DEF TypeOK
  <2>2. /\ pc' \in [Client -> ClientStates]
        /\ ret' \in [Client -> Value \cup {Absent}]
    BY <1>1, <2>1, AnswerTypes DEF Get, ClientStates
  <2>3. [key |-> k, datum |-> Absent] \in Request
    BY DEF Request
  <2> QED
    BY <1>1, <2>2, <2>3
    DEF TypeOK, Get, flushVars, compVars, tableVars, chanVars, diskVars
<1>2. CASE GetImmutable(c)
  <2>1. req[c].key \in Key
    BY <1>2 DEF GetImmutable, PipelineInv, CallsCarry, Request
  <2>2. get_queue(immutable, req[c].key) \in Datum \cup {Absent}
    BY <2>1, GetQueueType DEF TypeOK
  <2>3. /\ pc' \in [Client -> ClientStates]
        /\ ret' \in [Client -> Value \cup {Absent}]
    BY <1>2, <2>2, AnswerTypes DEF GetImmutable, ClientStates
  <2> QED
    BY <1>2, <2>3
    DEF TypeOK, GetImmutable, flushVars, compVars, tableVars, chanVars, diskVars, histVars
<1>3. CASE GetSSTable(c)
  <2>1. req[c].key \in Key
    BY <1>3 DEF GetSSTable, PipelineInv, CallsCarry, Request
  <2> DEFINE b == [i \in DOMAIN cache |-> cache[i].data]
             d == search(b, req[c].key)
  <2>2. b \in Seq(Block)
    BY CacheBlocks
  <2> HIDE DEF b
  <2>3. d \in Datum \cup {Absent}
    BY <2>1, <2>2, SearchType DEF Datum
  <2>4. Answer(c, d, "done")
    BY <1>3 DEF GetSSTable, b
  <2> HIDE DEF d
  <2>5. /\ pc' \in [Client -> ClientStates]
        /\ ret' \in [Client -> Value \cup {Absent}]
    BY <2>3, <2>4, AnswerTypes DEF ClientStates
  <2> QED
    BY <1>3, <2>5
    DEF TypeOK, GetSSTable, flushVars, compVars, tableVars, chanVars, diskVars, histVars
<1> QED
  BY <1>1, <1>2, <1>3

\* Every step keeps the types, given the pipeline invariant: the table a call
\* holds, the front of the queue and the files in hand are where the steps
\* expect them.
LEMMA TypeStep ==
    ASSUME TypeOK, PipelineInv, [Next]_vars
    PROVE  TypeOK'
<1>1. CASE UNCHANGED vars
  BY <1>1 DEF TypeOK, vars, clientVars, flushVars, compVars, tableVars,
              chanVars, diskVars, histVars
<1>2. ASSUME NEW c \in Client, NEW k \in Key, Set(c, k) \/ Delete(c, k)
      PROVE  TypeOK'
  BY <1>2, WriteEntries, TypeWrite DEF Set, Delete
<1>3. ASSUME NEW c \in Client, NEW k \in Key, Get(c, k)
      PROVE  TypeOK'
  BY <1>3, TypeGet
<1>4. ASSUME NEW c \in Client, CallPoisoned(c) \/ RotateFails(c) \/ Cancel(c) \/ Call(c)
      PROVE  TypeOK'
  BY <1>4, TypeClient, TypeRetry, TypeGet DEF Call
<1>5. CASE Flusher \/ FlushCreateFails \/ FlushFails
  BY <1>5, TypeFlusher
<1>6. CASE \/ Compactor \/ CompactorFails
           \/ DropSignalCompactor \/ DropSignalFlusher \/ DropInTask
  BY <1>6, TypeCompactor
<1>7. CASE Quiescent
  BY <1>1, <1>7 DEF Quiescent
<1> QED
  BY <1>1, <1>2, <1>3, <1>4, <1>5, <1>6, <1>7 DEF Next

----------------------------------------------------------------------------
(* Handshake is kept.                                                      *)

\* What no client call touches.
LEMMA ClientFrame ==
    ASSUME TypeOK, NEW c \in Client,
           \/ \E k \in Key : Set(c, k) \/ Delete(c, k) \/ Get(c, k)
           \/ CallPoisoned(c) \/ RotateFails(c) \/ Cancel(c) \/ Call(c)
    PROVE  /\ UNCHANGED << flushVars, compVars, compChan, ackChan, sstables, cache >>
           /\ clock' \in Nat /\ clock <= clock'
<1> USE DEF tableVars, chanVars, diskVars
<1>1. ASSUME NEW k \in Key, Set(c, k) \/ Delete(c, k) \/ Get(c, k)
      PROVE  /\ UNCHANGED << flushVars, compVars, compChan, ackChan, sstables, cache >>
             /\ clock' = clock
  BY <1>1 DEF Set, Delete, Write, Get
<1>2. ASSUME CallPoisoned(c) \/ RotateFails(c) \/ Cancel(c) \/ Call(c)
      PROVE  /\ UNCHANGED << flushVars, compVars, compChan, ackChan, sstables, cache >>
             /\ clock' \in {clock, clock + 1}
  BY <1>2 DEF Call, Cancel, CallPoisoned, RotateFails, Rotate, Push, Signal, SignalClosed,
              Retry, GetImmutable, GetSSTable, Return
<1> QED
  BY <1>1, <1>2 DEF TypeOK

\* Handshake depends on these variables only.
LEMMA HandshakeFrame ==
    ASSUME Handshake, UNCHANGED << flushPath, flushPc, compChan, ackChan, compPc >>
    PROVE  Handshake'
BY DEF Handshake, NoFlushDuringCompaction

\* The flush task keeps the turns: it sends LoadSSTable only when the previous
\* one has been acknowledged, and then waits.
LEMMA HandshakeFlusher ==
    ASSUME TypeOK, PipelineInv, Flusher \/ FlushCreateFails \/ FlushFails
    PROVE  Handshake'
<1> USE DEF Exited
<1>0. Handshake
  BY DEF PipelineInv
<1>1. CASE FlushLoad
  <2>1. /\ \A i \in DOMAIN compChan : compChan[i] = Shutdown
        /\ compPc \in Exited \cup {"recv"}
        /\ ackChan = 0
        /\ flushPc' = "ack"
        /\ UNCHANGED << compPc, ackChan, flushPath >>
    BY <1>0, <1>1 DEF Handshake, NoFlushDuringCompaction, FlushLoad, TypeOK, compVars
  <2>2. CASE compChan' = compChan
    BY <2>1, <2>2 DEF Handshake, NoFlushDuringCompaction
  <2>3. CASE compChan' = Append(compChan, flushPath) /\ compPc \notin Exited
    <3>1. /\ DOMAIN compChan' = 1..(Len(compChan) + 1)
          /\ Len(compChan) \in Nat
          /\ \A i \in 1..Len(compChan) : compChan'[i] = compChan[i]
          /\ compChan'[Len(compChan) + 1] = flushPath
      BY <2>3 DEF TypeOK
    <3>2. ASSUME NEW i \in DOMAIN compChan', compChan'[i] # Shutdown
          PROVE  i = Len(compChan) + 1
      <4>1. DOMAIN compChan = 1..Len(compChan)
        BY DEF TypeOK
      <4>2. i \notin 1..Len(compChan)
        BY <4>1, <3>1, <3>2, <2>1
      <4> QED
        BY <3>1, <3>2, <4>2
    <3>3. \A i \in DOMAIN compChan' :
            compChan'[i] # Shutdown => compChan'[i] = flushPath
      BY <3>1, <3>2
    <3>4. \A i, j \in DOMAIN compChan' :
            compChan'[i] # Shutdown /\ compChan'[j] # Shutdown => i = j
      BY <3>2
    <3> HIDE DEF Exited
    <3> QED
      BY <2>1, <2>3, <3>3, <3>4 DEF Handshake, NoFlushDuringCompaction
  <2> QED
    BY <1>1, <2>2, <2>3 DEF FlushLoad
<1>2. CASE flushPc # "ack" /\ flushPc' # "ack" /\ UNCHANGED << compChan, ackChan, compPc >>
  BY <1>0, <1>2 DEF Handshake, NoFlushDuringCompaction
<1>3. CASE FlushRecv \/ FlushShutdown \/ FlushRecvClosed \/ FlushFront \/ FlushWrite \/ FlushUnlink
           \/ FlushCreateFails \/ FlushFails
  BY <1>2, <1>3 DEF FlushRecv, FlushShutdown, FlushRecvClosed, FlushFront, FlushWrite, FlushUnlink,
     FlushCreateFails, FlushFails, compVars, chanVars
<1>4. CASE FlushAck
  BY <1>0, <1>4 DEF FlushAck, Handshake, NoFlushDuringCompaction, compVars
<1>5. CASE FlushAckClosed
  BY <1>0, <1>5 DEF FlushAckClosed, Handshake, NoFlushDuringCompaction, compVars, chanVars
<1> QED
  BY <1>1, <1>3, <1>4, <1>5 DEF Flusher

\* The compaction task keeps the turns: it takes the one LoadSSTable there is,
\* and acknowledges when it is done with the files.
LEMMA HandshakeCompactor ==
    ASSUME TypeOK, PipelineInv,
           \/ Compactor \/ CompactorFails
           \/ DropSignalCompactor \/ DropSignalFlusher \/ DropInTask
    PROVE  Handshake'
<1> USE DEF Exited
<1>0. Handshake
  BY DEF PipelineInv
<1>1. CASE CompactorLoad
  <2>1. PathQueued /\ flushPc = "ack" /\ ackChan = 0
    BY <1>0, <1>1, QueuedFile DEF CompactorLoad, Handshake, PathQueued
  <2>2. /\ 1 \in DOMAIN compChan /\ compChan[1] # Shutdown
        /\ Len(compChan) \in Nat
    BY <1>1 DEF CompactorLoad, TypeOK
  <2>3. \A i \in DOMAIN compChan' : i + 1 \in DOMAIN compChan
                                    /\ i + 1 # 1
                                    /\ compChan'[i] = compChan[i + 1]
    BY <1>1 DEF CompactorLoad, TypeOK
  <2>4. \A i \in DOMAIN compChan' : compChan'[i] = Shutdown
    BY <1>0, <2>2, <2>3 DEF Handshake
  <2> QED
    BY <1>1, <2>1, <2>4 DEF CompactorLoad, Handshake, NoFlushDuringCompaction, flushVars
<1>2. CASE CompactorShutdown \/ CompactorRecvClosed \/ CompactorFails
  <2>1. compChan' = << >> /\ compPc' \in Exited /\ UNCHANGED << flushPc, ackChan >>
    BY <1>2 DEF CompactorShutdown, CompactorRecvClosed, CompactorFails, flushVars, chanVars
  <2> QED
    BY <1>0, <2>1 DEF Handshake, NoFlushDuringCompaction
<1>3. ASSUME UNCHANGED << compChan, flushPath, flushPc, ackChan >>,
             compPc \notin Exited \cup {"recv"},
             compPc' \notin Exited \cup {"recv"}
      PROVE  Handshake'
  BY <1>0, <1>3 DEF Handshake, NoFlushDuringCompaction
<1>4. CASE CompactorPop \/ CompactorCreate \/ CompactorFinish \/ CompactorReplace
           \/ (\E f \in sstables : CompactorCleanup(f)) \/ CompactorCleaned
  BY <1>3, <1>4 DEF CompactorPop, CompactorCreate, CompactorFinish, CompactorReplace,
     CompactorCleanup, CompactorCleaned, flushVars, compVars, chanVars
<1>5. CASE CompactorAck
  BY <1>0, <1>5 DEF CompactorAck, Handshake, NoFlushDuringCompaction, flushVars
<1>6. CASE DropSignalFlusher \/ DropInTask
  BY <1>0, <1>6, HandshakeFrame
  DEF DropSignalFlusher, DropInTask, flushVars, compVars, chanVars
<1>7. CASE DropSignalCompactor
  <2>1. UNCHANGED << flushPath, flushPc, ackChan, compPc >>
    BY <1>7 DEF DropSignalCompactor, flushVars, compVars
  <2>2. CASE compChan' = compChan
    BY <1>0, <2>1, <2>2, HandshakeFrame
  <2>3. CASE compChan' = Append(compChan, Shutdown)
    <3>1. \A i \in DOMAIN compChan' : compChan'[i] # Shutdown =>
            i \in DOMAIN compChan /\ compChan'[i] = compChan[i]
      BY <2>3 DEF TypeOK
    <3> QED
      BY <1>0, <2>1, <3>1 DEF Handshake, NoFlushDuringCompaction
  <2> QED
    BY <1>7, <2>2, <2>3 DEF DropSignalCompactor
<1> QED
  BY <1>1, <1>2, <1>4, <1>5, <1>6, <1>7 DEF Compactor

----------------------------------------------------------------------------
(* FilesInHand is kept.                                                    *)

\* PathQueued depends on the compaction channel only.
LEMMA QueuedFrame ==
    ASSUME UNCHANGED compChan
    PROVE  PathQueued' = PathQueued
BY DEF PathQueued

\* Sending Shutdown queues no LoadSSTable.
LEMMA ShutdownQueued ==
    ASSUME TypeOK, compChan' \in {compChan, Append(compChan, Shutdown)}
    PROVE  PathQueued' => PathQueued
<1>1. CASE compChan' = compChan
  BY <1>1, QueuedFrame
<1>2. CASE compChan' = Append(compChan, Shutdown)
  <2>1. \A i \in DOMAIN compChan' : compChan'[i] # Shutdown =>
          i \in DOMAIN compChan /\ compChan'[i] = compChan[i]
    BY <1>2 DEF TypeOK
  <2> QED
    BY <2>1 DEF PathQueued
<1> QED
  BY <1>1, <1>2

\* FilesInHand depends on these variables only, and on the clock not to go
\* back.
LEMMA FilesFrame ==
    ASSUME TypeOK, FilesInHand, clock' \in Nat, clock <= clock',
           UNCHANGED << sstables, flushPc, flushPath, flushHead, compChan, compPc, compPath >>
    PROVE  FilesInHand'
<1>1. \A f \in sstables : f.path \in Nat
  BY DEF TypeOK, SSTableFile
<1>2. PathQueued' = PathQueued
  BY QueuedFrame
<1>3. \A f \in sstables' : f.path <= clock'
  BY <1>1 DEF FilesInHand, TypeOK
<1> QED
  BY <1>2, <1>3 DEF FilesInHand

\* A file created under a new name leaves names unique.
LEMMA CreatedFiles ==
    ASSUME TypeOK, FilesInHand, clock' = clock + 1, sstables' = Created(clock + 1)
    PROVE  /\ \A f \in sstables' : f.path <= clock'
           /\ \A f, g \in sstables' : f.path = g.path => f = g
           /\ [path |-> clock + 1, data |-> Partial] \in sstables'
           /\ sstables \subseteq sstables'
<1> DEFINE n == [path |-> clock + 1, data |-> Partial]
<1>1. n.path = clock + 1 /\ sstables' = sstables \cup {n}
  BY DEF Created
<1>2. \A f \in sstables : f.path \in Nat /\ f.path <= clock
  BY DEF TypeOK, SSTableFile, FilesInHand
<1>3. clock \in Nat
  BY DEF TypeOK
<1> HIDE DEF n
<1>4. \A f \in sstables' : f.path <= clock'
  BY <1>1, <1>2, <1>3
<1>5. \A f, g \in sstables' : f.path = g.path => f = g
  BY <1>1, <1>2, <1>3 DEF FilesInHand
<1> QED
  BY <1>1, <1>4, <1>5 DEF n

\* Completing a file changes that file only.
LEMMA WrittenFiles ==
    ASSUME TypeOK, FilesInHand, NEW p \in Nat, NEW d \in Block,
           clock' = clock, sstables' = Written(p, d),
           [path |-> p, data |-> Partial] \in sstables
    PROVE  /\ \A f \in sstables' : f.path <= clock'
           /\ \A f, g \in sstables' : f.path = g.path => f = g
           /\ [path |-> p, data |-> d] \in sstables'
           /\ \A f \in sstables : f.path # p => f \in sstables'
<1> DEFINE o == [path |-> p, data |-> Partial]
           n == [path |-> p, data |-> d]
<1>1. o.path = p /\ n.path = p /\ sstables' = (sstables \ {o}) \cup {n}
  BY DEF Written
<1>2. o \in sstables
  OBVIOUS
<1> HIDE DEF o, n
<1>3. \A f \in sstables : f.path = p => f = o
  BY <1>1, <1>2 DEF FilesInHand
<1>4. \A f \in sstables' : f.path <= clock'
  BY <1>1, <1>2 DEF FilesInHand
<1>5. \A f, g \in sstables' : f.path = g.path => f = g
  BY <1>1, <1>3 DEF FilesInHand
<1>6. \A f \in sstables : f.path # p => f \in sstables'
  BY <1>1
<1>7. n \in sstables'
  BY <1>1
<1> QED
  BY <1>4, <1>5, <1>6, <1>7 DEF n

\* A LoadSSTable is queued only while the flush task waits, no acknowledgement
\* has been sent and the compaction task is idle.
LEMMA NotQueued ==
    ASSUME Handshake, flushPc # "ack" \/ ackChan # 0 \/ compPc # "recv"
    PROVE  ~PathQueued
BY DEF Handshake, PathQueued

\* The flush task keeps its files in hand.
LEMMA FilesFlusher ==
    ASSUME TypeOK, PipelineInv, Flusher \/ FlushCreateFails \/ FlushFails
    PROVE  FilesInHand'
<1>0. Handshake /\ FilesInHand
  BY DEF PipelineInv
<1>1. flushPc # "ack" \/ ackChan = 1 =>
        ~PathQueued /\ compPc \in Exited \cup {"recv"}
  BY <1>0, NotQueued DEF Handshake, NoFlushDuringCompaction
<1>2. compPc \in Exited \cup {"recv"} => compPc \notin {"finish", "replace"}
  BY DEF Exited
<1>3. CASE FlushRecv
  <2>1. /\ \A f \in sstables' : f.path <= clock'
        /\ \A f, g \in sstables' : f.path = g.path => f = g
        /\ [path |-> clock + 1, data |-> Partial] \in sstables'
    BY <1>0, <1>3, CreatedFiles DEF FlushRecv
  <2>2. ~PathQueued'
    BY <1>1, <1>3, QueuedFrame DEF FlushRecv
  <2> QED
    BY <1>1, <1>2, <1>3, <2>1, <2>2 DEF FilesInHand, FlushRecv, compVars
<1>4. CASE FlushWrite
  <2>1. write_sstable(flushHead) \in Block
    BY <1>4, FrontExists, WriteSSTableType DEF FlushWrite, InFlight
  <2>2. [path |-> flushPath, data |-> Partial] \in sstables
    BY <1>0, <1>4 DEF FilesInHand, FlushWrite
  <2>3. /\ \A f \in sstables' : f.path <= clock'
        /\ \A f, g \in sstables' : f.path = g.path => f = g
        /\ [path |-> flushPath, data |-> write_sstable(flushHead)] \in sstables'
    BY <1>0, <1>4, <2>1, <2>2, WrittenFiles DEF FlushWrite, TypeOK
  <2>4. /\ flushPath' = flushPath /\ write_sstable(flushHead)' = write_sstable(flushHead)
        /\ compPc' = compPc /\ flushPc' = "unlink" /\ flushPc = "write"
    BY <1>4 DEF FlushWrite, compVars, write_sstable
  <2> QED
    BY <1>1, <1>2, <2>3, <2>4 DEF FilesInHand
<1>5. ASSUME UNCHANGED << sstables, clock, compPc, compPath >>,
             compPc \notin {"finish", "replace"},
             flushPc' \in {"recv", "stopped", "panicked"},
             ~PathQueued'
      PROVE  FilesInHand'
  BY <1>0, <1>5 DEF FilesInHand
<1>6. CASE FlushCreateFails \/ FlushShutdown \/ FlushRecvClosed \/ FlushFails
  <2>1. /\ UNCHANGED << sstables, clock, compPc, compPath, compChan >>
        /\ flushPc' \in {"recv", "stopped"} /\ flushPc # "ack"
    BY <1>6 DEF FlushCreateFails, FlushShutdown, FlushRecvClosed, FlushFails, compVars, chanVars, diskVars
  <2> QED
    BY <1>1, <1>2, <1>5, <2>1, QueuedFrame
<1>7. CASE FlushAck
  <2>1. /\ UNCHANGED << sstables, clock, compPc, compPath, compChan >>
        /\ flushPc' = "recv" /\ ackChan = 1
    BY <1>7 DEF FlushAck, compVars, diskVars
  <2> QED
    BY <1>1, <1>2, <1>5, <2>1, QueuedFrame
<1>8. CASE FlushAckClosed
  <2>1. /\ UNCHANGED << sstables, clock, compPc, compPath, compChan >>
        /\ flushPc' = "panicked" /\ compPc \in Exited
    BY <1>8 DEF FlushAckClosed, compVars, chanVars, diskVars
  <2>2. ~PathQueued
    BY <1>0, <2>1, NotQueued DEF Exited
  <2> QED
    BY <1>2, <1>5, <2>1, <2>2, QueuedFrame
<1>9. CASE FlushFront
  <2>1. /\ UNCHANGED << sstables, clock, compPc, compPath, compChan, flushPath >>
        /\ flushPc = "front" /\ flushPc' = "write"
    BY <1>9 DEF FlushFront, compVars, chanVars, diskVars
  <2> QED
    BY <1>0, <1>1, <1>2, <2>1, QueuedFrame DEF FilesInHand
<1>10. CASE FlushUnlink
  <2>1. /\ UNCHANGED << sstables, clock, compPc, compPath, compChan, flushPath, flushHead >>
        /\ flushPc = "unlink" /\ flushPc' = "load"
    BY <1>10 DEF FlushUnlink, compVars, chanVars, diskVars
  <2>2. write_sstable(flushHead)' = write_sstable(flushHead)
    BY <2>1 DEF write_sstable
  <2> QED
    BY <1>0, <1>1, <1>2, <2>1, <2>2, QueuedFrame DEF FilesInHand
<1>11. CASE FlushLoad
  <2>1. /\ UNCHANGED << sstables, clock, compPc, compPath, flushPath, flushHead >>
        /\ flushPc = "load" /\ flushPc' = "ack"
    BY <1>11 DEF FlushLoad, compVars, diskVars
  <2>2. write_sstable(flushHead)' = write_sstable(flushHead)
    BY <2>1 DEF write_sstable
  <2> QED
    BY <1>0, <1>1, <1>2, <2>1, <2>2 DEF FilesInHand
<1> QED
  BY <1>3, <1>4, <1>6, <1>7, <1>8, <1>9, <1>10, <1>11 DEF Flusher

\* The compaction task keeps its files in hand; cleanup() removes files while
\* no task has one in hand.
LEMMA FilesCompactor ==
    ASSUME TypeOK, PipelineInv,
           \/ Compactor \/ CompactorFails
           \/ DropSignalCompactor \/ DropSignalFlusher \/ DropInTask
    PROVE  FilesInHand'
<1>0. Handshake /\ FilesInHand
  BY DEF PipelineInv
<1>1. compPc \notin Exited \cup {"recv"} =>
        ~PathQueued /\ flushPc = "ack"
  BY <1>0, NotQueued DEF Handshake, NoFlushDuringCompaction
<1>2. ASSUME UNCHANGED << sstables, clock, flushPc, flushPath, flushHead >>,
             PathQueued' => PathQueued,
             compPc' \notin {"finish", "replace"}
      PROVE  FilesInHand'
  <2>1. write_sstable(flushHead)' = write_sstable(flushHead)
    BY <1>2 DEF write_sstable
  <2> QED
    BY <1>0, <1>2, <2>1 DEF FilesInHand
<1>3. CASE CompactorLoad
  <2>1. PathQueued' => PathQueued
    BY <1>3, QueuedFile DEF CompactorLoad
  <2> QED
    BY <1>2, <1>3, <2>1 DEF CompactorLoad, flushVars, diskVars
<1>4. CASE CompactorShutdown \/ CompactorRecvClosed \/ CompactorFails
  <2>1. compChan' = << >>
    BY <1>4 DEF CompactorShutdown, CompactorRecvClosed, CompactorFails, chanVars
  <2>2. ~PathQueued'
    BY <2>1 DEF PathQueued
  <2> QED
    BY <1>2, <1>4, <2>2 DEF CompactorShutdown, CompactorRecvClosed, CompactorFails, flushVars, chanVars, diskVars
<1>5. CASE CompactorPop \/ CompactorReplace \/ CompactorCleaned \/ CompactorAck
  <2>1. PathQueued' = PathQueued
    BY <1>5, QueuedFrame
    DEF CompactorPop, CompactorReplace, CompactorCleaned, CompactorAck, chanVars
  <2> QED
    BY <1>2, <1>5, <2>1
    DEF CompactorPop, CompactorReplace, CompactorCleaned, CompactorAck, flushVars, diskVars
<1>6. CASE DropSignalFlusher \/ DropInTask
  BY <1>0, <1>6, FilesFrame
  DEF DropSignalFlusher, DropInTask, TypeOK, flushVars, compVars, chanVars, diskVars
<1>7. CASE DropSignalCompactor
  <2>1. /\ UNCHANGED << sstables, clock, flushPc, flushPath, flushHead, compPc, compPath >>
        /\ compChan' \in {compChan, Append(compChan, Shutdown)}
    BY <1>7 DEF DropSignalCompactor, flushVars, compVars, diskVars
  <2>2. PathQueued' => PathQueued
    BY <2>1, ShutdownQueued
  <2>3. write_sstable(flushHead)' = write_sstable(flushHead)
    BY <2>1 DEF write_sstable
  <2> QED
    BY <1>0, <2>1, <2>2, <2>3 DEF FilesInHand
<1>8. ASSUME compPc \in {"merge", "finish", "cleanup"},
             UNCHANGED << flushPc, compChan >>,
             \A f \in sstables' : f.path <= clock',
             \A f, g \in sstables' : f.path = g.path => f = g,
             compPc' = "finish" => [path |-> compPath', data |-> Partial] \in sstables',
             compPc' = "replace" =>
                \E f \in sstables' : f.path = compPath' /\ f.data # Partial
      PROVE  FilesInHand'
  BY <1>1, <1>8, QueuedFrame DEF FilesInHand, Exited
<1>9. CASE CompactorCreate
  BY <1>0, <1>8, <1>9, CreatedFiles DEF CompactorCreate, flushVars, chanVars
<1>10. CASE CompactorFinish
  <2>1. PICK m \in Merges([i \in DOMAIN cache |-> cache[i].data]) :
            sstables' = Written(compPath, m)
    BY <1>10 DEF CompactorFinish
  <2>2. m \in Block
    BY <2>1, CacheBlocks, MergesType
  <2>3. [path |-> compPath, data |-> Partial] \in sstables
    BY <1>0, <1>10 DEF FilesInHand, CompactorFinish
  <2>4. /\ \A f \in sstables' : f.path <= clock'
        /\ \A f, g \in sstables' : f.path = g.path => f = g
        /\ [path |-> compPath, data |-> m] \in sstables'
    BY <1>0, <1>10, <2>1, <2>2, <2>3, WrittenFiles DEF CompactorFinish, TypeOK
  <2>5. m # Partial
    BY <2>2, LsmliteAssumption
  <2>6. \E f \in sstables' : f.path = compPath /\ f.data # Partial
    <3> DEFINE n == [path |-> compPath, data |-> m]
    <3>1. n.path = compPath /\ n.data = m
      OBVIOUS
    <3> HIDE DEF n
    <3>2. n \in sstables'
      BY <2>4 DEF n
    <3> QED
      BY <2>5, <3>1, <3>2
  <2> QED
    BY <1>8, <1>10, <2>4, <2>6 DEF CompactorFinish, flushVars, chanVars
<1>11. CASE \E f \in sstables : CompactorCleanup(f)
  <2>1. /\ sstables' \subseteq sstables
        /\ UNCHANGED << flushPc, compChan, clock, compPc >>
        /\ compPc = "cleanup"
    BY <1>11 DEF CompactorCleanup, flushVars, compVars, chanVars
  <2> QED
    BY <1>0, <1>8, <2>1 DEF FilesInHand
<1> QED
  BY <1>3, <1>4, <1>5, <1>6, <1>7, <1>9, <1>10, <1>11 DEF Compactor

----------------------------------------------------------------------------
(* QueueCovered is kept.                                                   *)

\* A call that neither reaches nor leaves the signal leaves their number.
LEMMA SignallingFrame ==
    ASSUME TypeOK, NEW c \in Client, NEW s \in ClientStates,
           pc[c] # "signal", s # "signal", pc' = [pc EXCEPT ![c] = s]
    PROVE  Signalling' = Signalling
BY DEF Signalling, TypeOK

\* QueueCovered depends on these variables only.
LEMMA QueueClientFrame ==
    ASSUME QueueCovered, Signalling' = Signalling,
           UNCHANGED << immutable, flushes, flushVars, compVars, compChan, cache >>
    PROVE  QueueCovered'
<1>1. InFlight' = InFlight
  BY QueuedFrame DEF InFlight, flushVars, compVars
<1> QED
  BY <1>1 DEF QueueCovered, flushVars, compVars, write_sstable

\* Client calls keep the queue covered: a table is pushed before it is
\* signalled.
LEMMA QueueClient ==
    ASSUME TypeOK, PipelineInv, NEW c \in Client,
           \/ \E k \in Key : Set(c, k) \/ Delete(c, k) \/ Get(c, k)
           \/ CallPoisoned(c) \/ RotateFails(c) \/ Cancel(c) \/ Call(c)
    PROVE  QueueCovered'
<1>0. QueueCovered
  BY DEF PipelineInv
<1>1. UNCHANGED << flushVars, compVars, compChan, ackChan, sstables, cache >>
  BY ClientFrame
<1>2. InFlight' = InFlight
  BY <1>1, QueuedFrame DEF InFlight, flushVars, compVars
<1>3. ASSUME Signalling' = Signalling, UNCHANGED << immutable, flushes >>
      PROVE  QueueCovered'
  BY <1>0, <1>1, <1>3, QueueClientFrame
<1>4. /\ IsFiniteSet(Signalling) /\ Cardinality(Signalling) \in Nat
      /\ flushes \in Nat /\ immutable \in Seq(Table)
  BY SignallingFinite DEF TypeOK
<1>5. ASSUME NEW k \in Key, Set(c, k) \/ Delete(c, k)
      PROVE  QueueCovered'
  <2>1. /\ pc' = pc \/ (pc[c] = "idle" /\ pc' = [pc EXCEPT ![c] = "rotate"])
        /\ UNCHANGED << immutable, flushes >>
    BY <1>5 DEF Set, Delete, Write, MayCall, chanVars
  <2>2. Signalling' = Signalling
    BY <2>1, SignallingFrame DEF Signalling, ClientStates
  <2> QED
    BY <1>3, <2>1, <2>2
<1>6. ASSUME NEW d, NEW next \in ClientStates, Answer(c, d, next),
             next # "signal", pc[c] # "signal",
             UNCHANGED << immutable, flushes >>
      PROVE  QueueCovered'
  <2>1. Signalling' = Signalling
    BY <1>6, SignallingFrame DEF Answer, ClientStates
  <2> QED
    BY <1>3, <1>6, <2>1
<1>7. ASSUME NEW k \in Key, Get(c, k)
      PROVE  QueueCovered'
  BY <1>6, <1>7 DEF Get, MayCall, ClientStates, tableVars, chanVars
<1>8. CASE GetImmutable(c)
  BY <1>6, <1>8 DEF GetImmutable, ClientStates, tableVars, chanVars
<1>9. CASE GetSSTable(c)
  <2>1. PICK d : d = search([i \in DOMAIN cache |-> cache[i].data], req[c].key)
    OBVIOUS
  <2>2. Answer(c, d, "done") /\ pc[c] = "sstable" /\ UNCHANGED << immutable, flushes >>
    BY <1>9, <2>1 DEF GetSSTable, tableVars, chanVars
  <2> QED
    BY <1>6, <2>2 DEF ClientStates
<1>10. CASE \/ CallPoisoned(c) \/ RotateFails(c) \/ Rotate(c) \/ Retry(c) \/ Return(c)
            \/ Cancel(c) /\ pc[c] # "signal"
  <2>1. /\ UNCHANGED << immutable, flushes >>
        /\ pc[c] # "signal"
        /\ \E s \in {"panicked", "push", "idle"} : pc' = [pc EXCEPT ![c] = s]
    BY <1>10 DEF CallPoisoned, RotateFails, Rotate, Retry, Return, Cancel, tableVars, chanVars
  <2>2. Signalling' = Signalling
    BY <2>1, SignallingFrame DEF ClientStates
  <2> QED
    BY <1>3, <2>1, <2>2
<1>11. CASE Push(c)
  <2>1. Signalling' = Signalling \cup {c} /\ c \notin Signalling
    BY <1>11 DEF Push, Signalling, TypeOK
  <2>2. Cardinality(Signalling') = Cardinality(Signalling) + 1
    BY <1>4, <2>1, FS_AddElement
  <2>3. held[c] \in Table
    BY <1>11 DEF Push, PipelineInv, CallsCarry
  <2>4. /\ immutable' = Append(immutable, held[c])
        /\ flushes' = flushes
    BY <1>11 DEF Push, insert, chanVars
  <2>5. /\ Len(immutable') = Len(immutable) + 1
        /\ immutable # << >> => Head(immutable') = Head(immutable)
    BY <1>4, <2>3, <2>4
  <2>6. InFlight => immutable # << >>
    BY FrontExists
  <2>7. Len(immutable) \in Nat
    BY <1>4
  <2>8. Len(immutable') >= Cardinality(Signalling') + flushes' + (IF InFlight' THEN 1 ELSE 0)
    BY <1>0, <1>2, <1>4, <2>2, <2>4, <2>5, <2>7 DEF QueueCovered
  <2> QED
    BY <1>0, <1>1, <1>2, <2>5, <2>6, <2>8
    DEF QueueCovered, flushVars, compVars, write_sstable
<1>12. ASSUME Signal(c) \/ SignalClosed(c) \/ (Cancel(c) /\ pc[c] = "signal")
       PROVE  QueueCovered'
  <2>1. /\ Signalling' = Signalling \ {c} /\ c \in Signalling
        /\ flushes' = flushes \/ flushes' = flushes + 1
        /\ immutable' = immutable
    BY <1>12 DEF Signal, SignalClosed, Cancel, Signalling, TypeOK, tableVars, chanVars
  <2>2. Cardinality(Signalling') = Cardinality(Signalling) - 1
    BY <1>4, <2>1, FS_RemoveElement
  <2>3. Len(immutable) \in Nat
    BY <1>4
  <2>4. Len(immutable') >= Cardinality(Signalling') + flushes' + (IF InFlight' THEN 1 ELSE 0)
    BY <1>0, <1>2, <1>4, <2>1, <2>2, <2>3 DEF QueueCovered
  <2> QED
    BY <1>0, <1>1, <1>2, <2>1, <2>4
    DEF QueueCovered, flushVars, compVars, write_sstable
<1> QED
  BY <1>5, <1>7, <1>8, <1>9, <1>10, <1>11, <1>12 DEF Call

\* The flush task keeps the queue covered: it takes a signal and serves the
\* front table, and a failure gives up the signal, not the table.
LEMMA QueueFlusher ==
    ASSUME TypeOK, PipelineInv, Flusher \/ FlushCreateFails \/ FlushFails
    PROVE  QueueCovered'
<1>0. Handshake /\ QueueCovered
  BY DEF PipelineInv
<1>1. flushPc # "ack" \/ ackChan = 1 => ~PathQueued /\ compPc # "pop"
  BY <1>0, NotQueued DEF Handshake, NoFlushDuringCompaction, Exited
<1>2. UNCHANGED << pc, immutable, compPc, cache >>
  BY DEF Flusher, FlushRecv, FlushCreateFails, FlushShutdown, FlushRecvClosed, FlushFront, FlushWrite,
     FlushUnlink, FlushFails, FlushLoad, FlushAck, FlushAckClosed,
     clientVars, compVars, tableVars
<1>3. Signalling' = Signalling /\ Cardinality(Signalling) \in Nat
  BY <1>2, SignallingFinite DEF Signalling
<1>4. Len(immutable) \in Nat /\ flushes \in Nat
  BY DEF TypeOK
<1>5. CASE FlushRecv
  <2>1. /\ flushPc = "recv" /\ flushPc' = "front"
        /\ flushes > 0 /\ flushes' = flushes - 1
    BY <1>5 DEF FlushRecv
  <2>2. ~InFlight
    BY <1>1, <2>1 DEF InFlight
  <2> QED
    BY <1>0, <1>1, <1>2, <1>3, <1>4, <2>1, <2>2 DEF QueueCovered
<1>6. ASSUME flushes' \in Nat, flushes' <= flushes, ~InFlight', compPc # "pop"
      PROVE  QueueCovered'
  BY <1>0, <1>2, <1>3, <1>4, <1>6 DEF QueueCovered
<1>7. CASE FlushCreateFails \/ FlushShutdown \/ FlushRecvClosed \/ FlushFails
  <2>1. /\ flushPc # "ack" /\ flushPc' \in {"stopped", "recv"}
        /\ flushes' \in Nat /\ flushes' <= flushes
        /\ compChan' = compChan
    BY <1>4, <1>7 DEF FlushCreateFails, FlushShutdown, FlushRecvClosed, FlushFails, chanVars
  <2> QED
    BY <1>1, <1>2, <1>6, <2>1, QueuedFrame DEF InFlight
<1>8. CASE FlushAck
  <2>1. /\ ackChan = 1 /\ flushPc' = "recv"
        /\ flushes' = flushes /\ compChan' = compChan
    BY <1>8 DEF FlushAck
  <2> QED
    BY <1>1, <1>2, <1>4, <1>6, <2>1, QueuedFrame DEF InFlight
<1>9. CASE FlushAckClosed
  <2>1. /\ compPc \in Exited /\ flushPc' = "panicked"
        /\ flushes' = flushes /\ compChan' = compChan
    BY <1>9 DEF FlushAckClosed, chanVars
  <2>2. ~PathQueued /\ compPc # "pop"
    BY <1>0, <2>1, NotQueued DEF Exited
  <2> QED
    BY <1>2, <1>4, <1>6, <2>1, <2>2, QueuedFrame DEF InFlight
<1>10. ASSUME flushPc \in {"front", "write", "unlink", "load"}, flushes' = flushes,
              flushHead' = Head(immutable)
       PROVE  QueueCovered'
  <2>1. InFlight /\ compPc # "pop"
    BY <1>1, <1>10 DEF InFlight
  <2> QED
    BY <1>0, <1>2, <1>3, <1>4, <1>10, <2>1 DEF QueueCovered
<1>11. CASE FlushFront
  BY <1>10, <1>11 DEF FlushFront, front, chanVars
<1>12. CASE FlushWrite \/ FlushUnlink \/ FlushLoad
  <2>1. /\ flushPc \in {"write", "unlink", "load"}
        /\ flushes' = flushes /\ flushHead' = flushHead
    BY <1>12 DEF FlushWrite, FlushUnlink, FlushLoad, chanVars
  <2>2. flushHead = Head(immutable)
    BY <1>0, <2>1 DEF QueueCovered, InFlight
  <2> QED
    BY <1>10, <2>1, <2>2
<1> QED
  BY <1>5, <1>7, <1>8, <1>9, <1>11, <1>12 DEF Flusher

\* The compaction task keeps the queue covered: one pop per LoadSSTable.
LEMMA QueueCompactor ==
    ASSUME TypeOK, PipelineInv,
           \/ Compactor \/ CompactorFails
           \/ DropSignalCompactor \/ DropSignalFlusher \/ DropInTask
    PROVE  QueueCovered'
<1>0. Handshake /\ QueueCovered
  BY DEF PipelineInv
<1>1. UNCHANGED << pc, flushes, flushPc, flushHead >>
  BY DEF Compactor, CompactorLoad, CompactorShutdown, CompactorRecvClosed, CompactorPop, CompactorCreate,
     CompactorFinish, CompactorReplace, CompactorCleanup, CompactorCleaned, CompactorAck,
     CompactorFails, DropSignalCompactor, DropSignalFlusher, DropInTask,
     clientVars, flushVars, chanVars
<1>2. Signalling' = Signalling /\ Cardinality(Signalling) \in Nat
  BY <1>1, SignallingFinite DEF Signalling
<1>3. Len(immutable) \in Nat /\ flushes \in Nat
  BY DEF TypeOK
<1>4. ASSUME immutable' = immutable, InFlight' => InFlight,
             compPc' # "pop" \/ (cache' = cache /\ compPc' = compPc)
      PROVE  QueueCovered'
  BY <1>0, <1>1, <1>2, <1>3, <1>4 DEF QueueCovered, write_sstable
<1>5. CASE CompactorLoad
  <2>1. /\ PathQueued /\ Head(compChan) = flushPath
        /\ from_path(flushPath) =
                [path |-> flushPath, data |-> write_sstable(flushHead)]
    BY <1>5, QueuedFile DEF CompactorLoad
  <2>2. cache' = << from_path(flushPath) >> \o cache /\ cache \in Seq(SSTable)
    BY <1>5, <2>1 DEF CompactorLoad, push, TypeOK
  <2>3. cache' # << >> /\ Head(cache') = from_path(flushPath)
    BY <2>2
  <2>4. Head(cache').data = write_sstable(flushHead)
    BY <2>1, <2>3
  <2>5. InFlight /\ immutable' = immutable /\ flushPc = "ack"
    BY <1>0, <1>5, <2>1 DEF CompactorLoad, InFlight, Handshake, PathQueued
  <2>6. write_sstable(flushHead)' = write_sstable(flushHead)
    BY <1>1 DEF write_sstable
  <2> QED
    BY <1>0, <1>1, <1>2, <1>3, <2>3, <2>4, <2>5, <2>6 DEF QueueCovered
<1>6. CASE CompactorPop
  <2>1. flushPc = "ack" /\ ~PathQueued /\ compPc = "pop"
    BY <1>0, <1>6, NotQueued DEF CompactorPop, Handshake, NoFlushDuringCompaction, Exited
  <2>2. InFlight
    BY <2>1 DEF InFlight
  <2>3. compPc' # "pop" /\ compChan' = compChan
    BY <1>6 DEF CompactorPop, chanVars
  <2>4. ~InFlight'
    BY <1>1, <2>1, <2>3, QueuedFrame DEF InFlight
  <2>5. Len(immutable') = Len(immutable) - 1
    BY <1>6, <2>2, FrontExists DEF CompactorPop, pop, TypeOK
  <2> QED
    BY <1>0, <1>1, <1>2, <1>3, <2>2, <2>3, <2>4, <2>5 DEF QueueCovered
<1>7. CASE CompactorShutdown \/ CompactorRecvClosed \/ CompactorFails
  <2>1. compChan' = << >> /\ compPc' \in Exited /\ immutable' = immutable
    BY <1>7 DEF CompactorShutdown, CompactorRecvClosed, CompactorFails, Exited, tableVars, chanVars
  <2>2. InFlight' => InFlight
    BY <1>1, <2>1 DEF InFlight, PathQueued, Exited
  <2> QED
    BY <1>4, <2>1, <2>2 DEF Exited
<1>8. CASE \/ CompactorCreate \/ CompactorFinish \/ CompactorReplace
           \/ (\E f \in sstables : CompactorCleanup(f)) \/ CompactorCleaned \/ CompactorAck
  <2>1. compChan' = compChan /\ compPc' # "pop" /\ immutable' = immutable
    BY <1>8 DEF CompactorCreate, CompactorFinish, CompactorReplace, CompactorCleanup,
       CompactorCleaned, CompactorAck, compVars, tableVars, chanVars
  <2>2. InFlight' => InFlight
    BY <1>1, <2>1, QueuedFrame DEF InFlight
  <2> QED
    BY <1>4, <2>1, <2>2
<1>9. CASE DropSignalCompactor \/ DropSignalFlusher \/ DropInTask
  <2>1. /\ UNCHANGED << immutable, compPc, cache >>
        /\ compChan' \in {compChan, Append(compChan, Shutdown)}
    BY <1>9 DEF DropSignalCompactor, DropSignalFlusher, DropInTask, compVars, tableVars, chanVars
  <2>2. PathQueued' => PathQueued
    BY <2>1, ShutdownQueued
  <2>3. InFlight' => InFlight
    BY <1>1, <2>1, <2>2 DEF InFlight
  <2> QED
    BY <1>4, <2>1, <2>3
<1> QED
  BY <1>5, <1>6, <1>7, <1>8, <1>9 DEF Compactor

----------------------------------------------------------------------------
(* CallsCarry is kept, and with it the whole invariant.                    *)

\* CallsCarry depends on these variables only.
LEMMA CarryFrame ==
    ASSUME CallsCarry, UNCHANGED << pc, req, held >>
    PROVE  CallsCarry'
BY DEF CallsCarry

\* The steps of set and delete after the table was found full keep what the
\* calls carry.
LEMMA CarryCall ==
    ASSUME TypeOK, PipelineInv, NEW c \in Client,
           \/ CallPoisoned(c) \/ RotateFails(c) \/ Rotate(c) \/ Push(c)
           \/ Signal(c) \/ SignalClosed(c) \/ Retry(c) \/ Return(c) \/ Cancel(c)
    PROVE  CallsCarry'
<1>0. CallsCarry
  BY DEF PipelineInv
<1>1. CASE CallPoisoned(c)
  BY <1>0, <1>1 DEF CallPoisoned, CallsCarry, TypeOK
<1>2. CASE RotateFails(c)
  BY <1>0, <1>2 DEF RotateFails, CallsCarry, TypeOK
<1>3. CASE Rotate(c)
  BY <1>0, <1>3 DEF Rotate, CallsCarry, TypeOK
<1>4. CASE Push(c)
  BY <1>0, <1>4 DEF Push, CallsCarry, TypeOK
<1>5. CASE Signal(c)
  BY <1>0, <1>5 DEF Signal, CallsCarry, TypeOK
<1>6. CASE SignalClosed(c)
  BY <1>0, <1>6 DEF SignalClosed, CallsCarry, TypeOK
<1>7. CASE Retry(c)
  BY <1>0, <1>7 DEF Retry, CallsCarry, TypeOK
<1>8. CASE Return(c)
  BY <1>0, <1>8 DEF Return, CallsCarry, TypeOK
<1>9. CASE Cancel(c)
  BY <1>0, <1>9 DEF Cancel, CallsCarry, TypeOK
<1> QED
  BY <1>1, <1>2, <1>3, <1>4, <1>5, <1>6, <1>7, <1>8, <1>9

\* The first attempts of set and delete, and get, keep what the calls carry.
LEMMA CarryGet ==
    ASSUME TypeOK, PipelineInv, NEW c \in Client,
           \/ \E k \in Key : Set(c, k) \/ Delete(c, k) \/ Get(c, k)
           \/ GetImmutable(c) \/ GetSSTable(c)
    PROVE  CallsCarry'
<1>0. CallsCarry
  BY DEF PipelineInv
<1>1. ASSUME NEW e \in Entry, Write(c, e)
      PROVE  CallsCarry'
  BY <1>0, <1>1 DEF Write, CallsCarry, TypeOK
<1>2. ASSUME NEW k \in Key, Set(c, k) \/ Delete(c, k)
      PROVE  CallsCarry'
  BY <1>1, <1>2, WriteEntries DEF Set, Delete
<1>3. ASSUME NEW s \in {"immutable", "sstable", "done"}, pc' = [pc EXCEPT ![c] = s],
             held' = held,
             \/ req' = req /\ pc[c] \in {"immutable", "sstable"}
             \/ \E r \in Request : req' = [req EXCEPT ![c] = r]
      PROVE  CallsCarry'
  BY <1>0, <1>3 DEF CallsCarry, TypeOK
<1>4. ASSUME NEW k \in Key, Get(c, k)
      PROVE  CallsCarry'
  <2>1. [key |-> k, datum |-> Absent] \in Request
    BY DEF Request
  <2> QED
    BY <1>3, <1>4, <2>1 DEF Get, Answer
<1>5. CASE GetImmutable(c)
  BY <1>3, <1>5 DEF GetImmutable, Answer
<1>6. CASE GetSSTable(c)
  <2>1. PICK d : d = search([i \in DOMAIN cache |-> cache[i].data], req[c].key)
    OBVIOUS
  <2>2. /\ Answer(c, d, "done") /\ pc[c] = "sstable"
        /\ UNCHANGED << req, held >>
    BY <1>6, <2>1 DEF GetSSTable
  <2> QED
    BY <1>3, <2>2 DEF Answer
<1> QED
  BY <1>2, <1>4, <1>5, <1>6

\* Every step keeps the pipeline invariant.
LEMMA PipelineStep ==
    ASSUME TypeOK, PipelineInv, [Next]_vars
    PROVE  PipelineInv'
<1>0. Handshake /\ FilesInHand /\ QueueCovered /\ CallsCarry
  BY DEF PipelineInv
<1>1. ASSUME UNCHANGED vars
      PROVE  PipelineInv'
  <2>1. UNCHANGED << pc, req, held, flushVars, compVars, immutable, flushes, cache,
                     compChan, ackChan, sstables, clock >>
    BY <1>1 DEF vars, clientVars, tableVars, chanVars, diskVars
  <2>2. Signalling' = Signalling
    BY <2>1 DEF Signalling
  <2>3. Handshake'
    BY <1>0, <2>1, HandshakeFrame DEF flushVars, compVars
  <2>4. FilesInHand'
    BY <1>0, <2>1, FilesFrame DEF flushVars, compVars, TypeOK
  <2> QED
    BY <1>0, <2>1, <2>2, <2>3, <2>4, QueueClientFrame, CarryFrame DEF PipelineInv
<1>2. ASSUME NEW c \in Client,
             \/ \E k \in Key : Set(c, k) \/ Delete(c, k) \/ Get(c, k)
             \/ CallPoisoned(c) \/ RotateFails(c) \/ Cancel(c) \/ Call(c)
      PROVE  PipelineInv'
  <2>1. /\ UNCHANGED << flushVars, compVars, compChan, ackChan, sstables, cache >>
        /\ clock' \in Nat /\ clock <= clock'
    BY <1>2, ClientFrame
  <2>2. Handshake'
    BY <1>0, <2>1, HandshakeFrame DEF flushVars, compVars
  <2>3. FilesInHand'
    BY <1>0, <2>1, FilesFrame DEF flushVars, compVars
  <2>4. QueueCovered'
    BY <1>2, QueueClient
  <2>5. CallsCarry'
    BY <1>2, CarryCall, CarryGet DEF Call
  <2> QED
    BY <2>2, <2>3, <2>4, <2>5 DEF PipelineInv
<1>3. CASE Flusher \/ FlushCreateFails \/ FlushFails
  <2>1. UNCHANGED << pc, req, held >>
    BY <1>3 DEF Flusher, FlushRecv, FlushCreateFails, FlushShutdown, FlushRecvClosed, FlushFront, FlushWrite,
       FlushUnlink, FlushFails, FlushLoad, FlushAck, FlushAckClosed, clientVars
  <2> QED
    BY <1>0, <1>3, <2>1, HandshakeFlusher, FilesFlusher, QueueFlusher, CarryFrame
    DEF PipelineInv
<1>4. CASE Compactor \/ CompactorFails \/ DropSignalCompactor \/ DropSignalFlusher \/ DropInTask
  <2>1. UNCHANGED << pc, req, held >>
    BY <1>4 DEF Compactor, CompactorLoad, CompactorShutdown, CompactorRecvClosed, CompactorPop, CompactorCreate,
       CompactorFinish, CompactorReplace, CompactorCleanup, CompactorCleaned, CompactorAck,
       CompactorFails, DropSignalCompactor, DropSignalFlusher, DropInTask, clientVars
  <2> QED
    BY <1>0, <1>4, <2>1, HandshakeCompactor, FilesCompactor, QueueCompactor, CarryFrame
    DEF PipelineInv
<1>5. CASE Quiescent
  BY <1>1, <1>5 DEF Quiescent
<1> QED
  BY <1>1, <1>2, <1>3, <1>4, <1>5 DEF Next

\* A database opened on an empty directory satisfies the invariants.
LEMMA InitInv == Init => TypeOK /\ PipelineInv
<1> SUFFICES ASSUME Init PROVE TypeOK /\ PipelineInv
  OBVIOUS
<1>1. TypeOK
  <2>1. NewTable(1) \in Table
    BY NewTableType
  <2>2. wals \subseteq WalFile
    BY DEF Init, WalFile
  <2>3. /\ memtable \in Table /\ immutable \in Seq(Table) /\ cache \in Seq(SSTable)
        /\ compChan \in Seq(Nat \cup {Shutdown})
    BY <2>1 DEF Init
  <2>4. Len(compChan) <= CompactionQueue
    BY TypeFacts DEF Init
  <2>5. flushes \in 0..FlushQueue /\ ackChan \in {0, 1}
    BY TypeFacts DEF Init
  <2>6. poisoned \in BOOLEAN /\ flushShut \in BOOLEAN
    BY Zenon DEF Init
  <2>7. /\ sstables \subseteq SSTableFile /\ clock \in Nat
        /\ flushPc \in FlushStates /\ flushPath \in Nat
        /\ flushHead \in Table \cup {Absent}
        /\ compPc \in CompStates /\ compPath \in Nat
        /\ handle \in {"open", "dropping", "closed"}
        /\ ops \in 0..MaxOps /\ lost \subseteq Request
    BY TypeFacts DEF Init, FlushStates, CompStates
  <2>8. /\ pc \in [Client -> ClientStates]
        /\ req \in [Client -> Request \cup {Absent}]
        /\ held \in [Client -> Table \cup {Absent}]
        /\ ret \in [Client -> Value \cup {Absent}]
        /\ gap \in [Client -> BOOLEAN]
    BY DEF Init, ClientStates
  <2>9. /\ store \in [Key -> Value \cup {Absent}]
        /\ seen \in [Client -> SUBSET (Value \cup {Absent})]
    BY DEF Init
  <2> QED
    BY <2>2, <2>3, <2>4, <2>5, <2>6, <2>7, <2>8, <2>9 DEF TypeOK
<1>2. ~PathQueued /\ ~InFlight
  BY DEF Init, PathQueued, InFlight
<1>3. Signalling = {}
  BY DEF Init, Signalling
<1>4. Handshake
  BY DEF Init, Handshake, NoFlushDuringCompaction
<1>5. FilesInHand
  BY <1>2 DEF Init, FilesInHand
<1>6. QueueCovered
  BY <1>2, <1>3, FS_EmptySet DEF Init, QueueCovered
<1>7. CallsCarry
  BY DEF Init, CallsCarry
<1> QED
  BY <1>1, <1>4, <1>5, <1>6, <1>7 DEF PipelineInv

----------------------------------------------------------------------------
(* The theorems.                                                           *)

\* The type invariant and the pipeline invariant hold together in every
\* reachable state.  Each needs the other: types say what the files and queues
\* hold, the pipeline says that they hold it when a step looks.
THEOREM Inductive == Spec => [](TypeOK /\ PipelineInv)
<1>1. Init => TypeOK /\ PipelineInv
  BY InitInv
<1>2. TypeOK /\ PipelineInv /\ [Next]_vars => (TypeOK /\ PipelineInv)'
  BY TypeStep, PipelineStep
<1> QED
  BY <1>1, <1>2, PTL DEF Spec

\* Every variable has its type in every reachable state: the channels stay
\* within memtable_flush_queue_size, compaction_queue_size and 1.
THEOREM TypeCorrect == Spec => []TypeOK
BY Inductive, PTL

\* Signals, queued tables, files and the turns of the two background tasks stay
\* in step, for any number of concurrent calls, whichever file operations fail.
THEOREM PipelineCorrect == Spec => []PipelineInv
BY Inductive, PTL

\* The expect() of ImmutableMemtable::flush never fires: when the flush task
\* serves a signal the queue is not empty.
THEOREM FlushFindsTable == Spec => []FlushNeverEmpty
<1>1. TypeOK /\ PipelineInv => FlushNeverEmpty
  BY FrontExists DEF FlushNeverEmpty, InFlight
<1> QED
  BY <1>1, Inductive, PTL

\* ImmutableMemtable::pop, which names no table, drops the table whose SSTable
\* the compaction task has just put at the front of the cache.
THEOREM PopDropsServedTable == Spec => []PopMatchesFlush
<1>1. TypeOK /\ PipelineInv => PopMatchesFlush
  <2> SUFFICES ASSUME TypeOK, PipelineInv, compPc = "pop"
               PROVE  /\ immutable # << >>
                      /\ cache # << >>
                      /\ Head(cache).data = write_sstable(Head(immutable))
    BY DEF PopMatchesFlush
  <2>1. flushPc = "ack"
    BY DEF PipelineInv, Handshake, NoFlushDuringCompaction, Exited
  <2>2. immutable # << >> /\ flushHead = Head(immutable)
    BY <2>1, FrontExists DEF PipelineInv, QueueCovered, InFlight
  <2> QED
    BY <2>2 DEF PipelineInv, QueueCovered
<1> QED
  BY <1>1, Inductive, PTL

\* While the compaction task pops, merges or removes files the flush task waits
\* for its acknowledgement.
THEOREM CompactionExclusive == Spec => []NoFlushDuringCompaction
<1>1. PipelineInv => NoFlushDuringCompaction
  BY DEF PipelineInv, Handshake
<1> QED
  BY <1>1, Inductive, PTL

\* Only ImmutableMemtable::insert and ::pop change the queue.
LEMMA QueueKept ==
    ASSUME TypeOK, PipelineInv, [Next]_vars, immutable' # immutable
    PROVE  \/ \E c \in Client : Push(c)
           \/ CompactorPop
<1>1. CASE UNCHANGED vars
  BY <1>1 DEF vars, tableVars
<1>2. ASSUME NEW c \in Client, NEW k \in Key, Set(c, k) \/ Delete(c, k) \/ Get(c, k)
      PROVE  FALSE
  BY <1>2 DEF Set, Delete, Write, Get, tableVars
<1>3. ASSUME NEW c \in Client, CallPoisoned(c) \/ RotateFails(c) \/ Cancel(c) \/ Call(c)
      PROVE  Push(c)
  BY <1>3 DEF CallPoisoned, RotateFails, Cancel, Call, Rotate, Signal, SignalClosed, Retry,
     GetImmutable, GetSSTable, Return, tableVars
<1>4. CASE Flusher \/ FlushCreateFails \/ FlushFails
  BY <1>4 DEF Flusher, FlushRecv, FlushCreateFails, FlushShutdown, FlushRecvClosed, FlushFront, FlushWrite,
     FlushUnlink, FlushFails, FlushLoad, FlushAck, FlushAckClosed, tableVars
<1>5. CASE Compactor \/ CompactorFails \/ DropSignalCompactor \/ DropSignalFlusher \/ DropInTask
  BY <1>5 DEF Compactor, CompactorLoad, CompactorShutdown, CompactorRecvClosed, CompactorCreate,
     CompactorFinish, CompactorReplace, CompactorCleanup, CompactorCleaned, CompactorAck,
     CompactorFails, DropSignalCompactor, DropSignalFlusher, DropInTask, tableVars
<1>6. CASE Quiescent
  BY <1>1, <1>6 DEF Quiescent
<1> QED
  BY <1>1, <1>2, <1>3, <1>4, <1>5, <1>6 DEF Next

\* A table leaves the queue of immutable memtables only when the cache serves
\* its contents, also after failed flushes.
THEOREM TablesLeaveServed == Spec => LeavesQueueWhenServed
<1> DEFINE Kept(i) == \/ \E j \in DOMAIN immutable' : immutable'[j] = immutable[i]
                      \/ \E j \in DOMAIN cache :
                            cache[j].data = write_sstable(immutable[i])
<1>1. ASSUME TypeOK, PipelineInv, [Next]_vars
      PROVE  [\A i \in DOMAIN immutable : Kept(i)]_vars
  <2> SUFFICES ASSUME NEW i \in DOMAIN immutable PROVE Kept(i)
    OBVIOUS
  <2>0. /\ immutable \in Seq(Table) /\ Len(immutable) \in Nat
        /\ DOMAIN immutable = 1..Len(immutable)
    BY <1>1 DEF TypeOK
  <2>1. CASE immutable' = immutable
    BY <2>1
  <2>2. ASSUME NEW c \in Client, Push(c)
        PROVE  Kept(i)
    <3>1. held[c] \in Table /\ immutable' = Append(immutable, held[c])
      BY <1>1, <2>2 DEF Push, insert, PipelineInv, CallsCarry
    <3>2. i \in DOMAIN immutable' /\ immutable'[i] = immutable[i]
      BY <2>0, <3>1
    <3> QED
      BY <3>2
  <2>3. CASE CompactorPop
    <3>1. compPc = "pop" /\ flushPc = "ack" /\ InFlight
      BY <1>1, <2>3
      DEF CompactorPop, InFlight, PipelineInv, Handshake, NoFlushDuringCompaction, Exited
    <3>2. /\ immutable # << >> /\ flushHead = Head(immutable)
          /\ cache # << >> /\ Head(cache).data = write_sstable(flushHead)
      BY <1>1, <3>1, FrontExists DEF PipelineInv, QueueCovered
    <3>3. CASE i = 1
      <4>1. Head(immutable) = immutable[i]
        BY <2>0, <3>2, <3>3
      <4>2. 1 \in DOMAIN cache /\ Head(cache) = cache[1]
        BY <1>1, <3>2 DEF TypeOK
      <4> QED
        BY <3>2, <4>1, <4>2
    <3>4. CASE i # 1
      <4>1. immutable' = Tail(immutable)
        BY <2>3, <3>2 DEF CompactorPop, pop
      <4>2. i - 1 \in DOMAIN immutable' /\ immutable'[i - 1] = immutable[i]
        BY <2>0, <3>2, <3>4, <4>1
      <4> QED
        BY <4>2
    <3> QED
      BY <3>3, <3>4
  <2> QED
    BY <1>1, <2>1, <2>2, <2>3, QueueKept
<1>2. TypeOK /\ PipelineInv /\ [Next]_vars => [\A i \in DOMAIN immutable : Kept(i)]_vars
  BY <1>1
<1> QED
  BY <1>2, Inductive, PTL DEF Spec, LeavesQueueWhenServed

----------------------------------------------------------------------------
(* The write-ahead logs: every table that is not served from an SSTable    *)
(* yet can be rebuilt, from its log file and log buffer or from a complete *)
(* SSTable file.                                                           *)


\* The table's log file and its buffer replay to what the table holds.
Logged(t, logs) ==
    \E w \in logs : w.ts = t.wal /\ Replay(w.log \o t.buffer) = write_sstable(t)

\* A complete SSTable file holds what the table holds.
Filed(t, files) == \E f \in files : f.data = write_sstable(t)

\* The tables that are not in the cache have logs of their own.  The active
\* table's log is the latest.
LogNames ==
    /\ memtable.wal <= clock
    /\ \A c \in Client : held[c] # Absent => held[c].wal < memtable.wal
    /\ \A i \in DOMAIN immutable : immutable[i].wal < memtable.wal
    /\ \A c, d \in Client :
        held[c] # Absent /\ held[d] # Absent /\ held[c].wal = held[d].wal => c = d
    /\ \A c \in Client, i \in DOMAIN immutable :
        held[c] # Absent => held[c].wal # immutable[i].wal
    /\ \A i, j \in DOMAIN immutable : immutable[i].wal = immutable[j].wal => i = j

\* From the removal of the oldest table's log to its leaving the queue no
\* SSTable file is removed: the compaction task has it to load, or has ended.
Handover == flushPc = "load" \/ PathQueued \/ compPc = "pop" \/ compPc \in Exited

\* Only the oldest table of the queue may be without its log.
LogsKept ==
    /\ Logged(memtable, wals)
    /\ \A c \in Client : held[c] # Absent => Logged(held[c], wals)
    /\ \A i \in DOMAIN immutable :
        \/ Logged(immutable[i], wals)
        \/ i = 1 /\ Handover /\ Filed(immutable[i], sstables)

\* Calls other than those between rotation and queue hold no table.
HeldOnlyToPush == \A c \in Client : pc[c] # "push" => held[c] = Absent

\* The inductive invariant of the logs.
LogInv == LogNames /\ LogsKept /\ HeldOnlyToPush

----------------------------------------------------------------------------
(* Replaying a log.                                                        *)

\* What a replay leaves for a key is its last record.
LEMMA ReplayAt ==
    ASSUME NEW l \in Seq(Entry), NEW k \in Key
    PROVE  \/ /\ \A i \in 1..Len(l) : l[i].key # k
              /\ Replay(l)[k] = Absent
           \/ \E i \in 1..Len(l) :
                /\ l[i].key = k
                /\ \A j \in 1..Len(l) : j > i => l[j].key # k
                /\ Replay(l)[k] = l[i].datum
<1> DEFINE I == {i \in 1..Len(l) : l[i].key = k}
<1>1. CASE I = {}
  BY <1>1 DEF Replay, SelectLastInSeq
<1>2. CASE I # {}
  <2>1. Max(I) \in I /\ \A j \in I : Max(I) >= j
    <3>1. Len(l) \in Nat /\ I \in SUBSET (1..Len(l))
      OBVIOUS
    <3> HIDE DEF I
    <3> QED
      BY <1>2, <3>1, MaxExists
  <2>2. Replay(l)[k] = l[Max(I)].datum
    BY <1>2, <2>1 DEF Replay, SelectLastInSeq
  <2>3. PICK i \in 1..Len(l) : i = Max(I) /\ l[i].key = k
    BY <2>1
  <2>4. \A j \in 1..Len(l) : l[j].key = k => i >= j
    BY <2>1, <2>3
  <2>5. \A j \in 1..Len(l) : j > i => l[j].key # k
    BY <2>4
  <2>6. Replay(l)[k] = l[i].datum
    BY <2>2, <2>3
  <2> QED
    BY <2>3, <2>5, <2>6
<1> QED
  BY <1>1, <1>2

\* One more record in the log is one more record in what it replays to.
LEMMA ReplayAppend ==
    ASSUME NEW l \in Seq(Entry), NEW e \in Entry
    PROVE  Replay(Append(l, e)) = [Replay(l) EXCEPT ![e.key] = e.datum]
<1> DEFINE m == Append(l, e)
<1>1. /\ Len(l) \in Nat /\ Len(m) = Len(l) + 1 /\ m[Len(l) + 1] = e
      /\ \A i \in 1..Len(l) : m[i] = l[i]
      /\ m \in Seq(Entry)
  OBVIOUS
<1> HIDE DEF m
<1>2. ASSUME NEW k \in Key, k = e.key
      PROVE  Replay(m)[k] = e.datum
  BY <1>1, <1>2, ReplayAt
<1>3. ASSUME NEW k \in Key, k # e.key
      PROVE  Replay(m)[k] = Replay(l)[k]
  <2>1. CASE \A i \in 1..Len(l) : l[i].key # k
    <3>1. \A i \in 1..Len(m) : m[i].key # k
      BY <1>1, <1>3, <2>1
    <3> QED
      BY <1>1, <2>1, <3>1, ReplayAt
  <2>2. CASE \E i \in 1..Len(l) : l[i].key = k
    <3>1. PICK i \in 1..Len(l) :
            /\ l[i].key = k
            /\ \A j \in 1..Len(l) : j > i => l[j].key # k
            /\ Replay(l)[k] = l[i].datum
      BY <2>2, ReplayAt
    <3>2. PICK i2 \in 1..Len(m) :
            /\ m[i2].key = k
            /\ \A j \in 1..Len(m) : j > i2 => m[j].key # k
            /\ Replay(m)[k] = m[i2].datum
      <4>1. i \in 1..Len(m) /\ m[i].key = k
        BY <1>1, <3>1
      <4> QED
        BY <1>1, <4>1, ReplayAt
    <3>3. i2 = i
      BY <1>1, <1>3, <3>1, <3>2
    <3> QED
      BY <1>1, <3>1, <3>2, <3>3
  <2> QED
    BY <2>1, <2>2
<1>4. e.key \in Key /\ DOMAIN Replay(l) = Key /\ DOMAIN Replay(m) = Key
  BY DEF Entry, Replay
<1>5. Replay(m) = [k \in Key |-> Replay(m)[k]] /\ Replay(l) = [k \in Key |-> Replay(l)[k]]
  BY DEF Replay
<1>6. Replay(m) = [Replay(l) EXCEPT ![e.key] = e.datum]
  BY <1>2, <1>3, <1>4, <1>5
<1> QED
  BY <1>6 DEF m

\* One more record in the tree is one more record in the table's block.
LEMMA BlockInsert ==
    ASSUME NEW t \in Table, NEW e \in Entry
    PROVE  write_sstable(insert_node(t, e)) =
                [write_sstable(t) EXCEPT ![e.key] = e.datum]
<1>1. e.key \in Key /\ e.datum \in Datum /\ e.datum # Absent
  BY TableAssumption DEF Entry, Datum
<1>2. t.arena \in [Key -> Node \cup {Absent}]
  BY DEF Table
<1>3. \A d \in Datum : NewNode(d) \in Node /\ NewNode(d).blob = d
  BY DEF NewNode, Node
<1>4. \A n \in Node, d \in Datum :
        update_from_record(n, d) \in Node /\ update_from_record(n, d).blob = d
  BY DEF update_from_record, Node, Datum
<1>5. CASE t.arena[e.key] # Absent
  <2>1. insert_node(t, e).arena =
            [t.arena EXCEPT ![e.key] = update_from_record(t.arena[e.key], e.datum)]
    BY <1>5 DEF insert_node, Table
  <2>2. update_from_record(t.arena[e.key], e.datum) \in Node
        /\ update_from_record(t.arena[e.key], e.datum).blob = e.datum
    BY <1>1, <1>2, <1>4, <1>5
  <2> QED
    BY <1>1, <1>2, <2>1, <2>2, TableAssumption DEF write_sstable
<1>6. CASE t.arena[e.key] = Absent
  <2>1. insert_node(t, e).arena = [t.arena EXCEPT ![e.key] = NewNode(e.datum)]
    BY <1>6 DEF insert_node, Table
  <2> QED
    BY <1>1, <1>2, <1>3, <1>6, <2>1, TableAssumption DEF write_sstable
<1> QED
  BY <1>5, <1>6

\* Appending to the second of two sequences.
LEMMA ConcatAppend ==
    ASSUME NEW a \in Seq(Entry), NEW b \in Seq(Entry), NEW e \in Entry
    PROVE  /\ a \o Append(b, e) = Append(a \o b, e)
           /\ a \o Append(<< >>, e) = Append(a, e)
<1> DEFINE l == a \o Append(b, e)
           r == Append(a \o b, e)
<1>1. l \in Seq(Entry) /\ r \in Seq(Entry) /\ Len(l) = Len(r)
  OBVIOUS
<1>2. \A i \in 1..Len(l) : l[i] = r[i]
  OBVIOUS
<1>3. l = r
  <2> HIDE DEF l, r
  <2> QED
    BY <1>1, <1>2
<1>4. a \o Append(<< >>, e) = Append(a, e)
  OBVIOUS
<1> QED
  BY <1>3, <1>4

\* write_log changes the buffer only.
LEMMA WriteLogTable ==
    ASSUME NEW t \in Table, NEW e \in Entry, NEW due \in BOOLEAN
    PROVE  LET u == write_log(t, e, due)
           IN  /\ u \in Table
               /\ u.arena = t.arena /\ u.wal = t.wal
               /\ u.buffer = Append(IF due THEN << >> ELSE t.buffer, e)
<1> DEFINE u == write_log(t, e, due)
<1>1. /\ u.arena = t.arena /\ u.wal = t.wal
      /\ u.buffer = Append(IF due THEN << >> ELSE t.buffer, e)
      /\ u = [t EXCEPT !.buffer = u.buffer]
  BY DEF write_log, Table
<1>2. u.buffer \in Seq(Entry)
  <2>1. CASE due
    BY <1>1, <2>1
  <2>2. CASE ~due
    BY <1>1, <2>2 DEF Table
  <2> QED
    BY <2>1, <2>2
<1> HIDE DEF u
<1>3. u \in Table
  BY <1>1, <1>2 DEF Table
<1> QED
  BY <1>1, <1>3 DEF u

\* A logged insertion puts its record into the block of the table.
LEMMA InsertBlock ==
    ASSUME NEW t \in Table, NEW e \in Entry, NEW due \in BOOLEAN
    PROVE  write_sstable(insert_node(write_log(t, e, due), e)) =
                [write_sstable(t) EXCEPT ![e.key] = e.datum]
<1> DEFINE u == write_log(t, e, due)
<1>1. u \in Table /\ u.arena = t.arena
  BY WriteLogTable
<1>2. write_sstable(u) = write_sstable(t)
  BY <1>1 DEF write_sstable
<1> HIDE DEF u
<1>3. write_sstable(insert_node(u, e)) = [write_sstable(t) EXCEPT ![e.key] = e.datum]
  BY <1>1, <1>2, BlockInsert
<1> QED
  BY <1>3 DEF u

\* A write keeps the table rebuildable from its log, whether or not the
\* buffer is written to the file first.
LEMMA LoggedInsert ==
    ASSUME TypeOK, NEW e \in Entry, NEW due \in BOOLEAN, Logged(memtable, wals)
    PROVE  Logged(insert_node(write_log(memtable, e, due), e),
                  IF due THEN FlushLog(memtable) ELSE wals)
<1> DEFINE t == memtable
           u == write_log(t, e, due)
           v == insert_node(u, e)
<1>1. t \in Table /\ t.wal \in Nat /\ t.buffer \in Seq(Entry)
  BY DEF TypeOK, Table
<1>2. /\ u \in Table
      /\ u.arena = t.arena /\ u.wal = t.wal
      /\ u.buffer = Append(IF due THEN << >> ELSE t.buffer, e)
  BY <1>1, WriteLogTable
<1>5. write_sstable(v) = [write_sstable(t) EXCEPT ![e.key] = e.datum]
  BY <1>1, InsertBlock
<1> HIDE DEF u
<1>4. v.wal = u.wal /\ v.buffer = u.buffer
  BY <1>2 DEF insert_node, Table
<1>6. PICK w \in wals : w.ts = t.wal /\ Replay(w.log \o t.buffer) = write_sstable(t)
  BY DEF Logged
<1>7. w \in WalFile /\ w.log \in Seq(Entry) /\ w.log \o t.buffer \in Seq(Entry)
  BY <1>1 DEF TypeOK, WalFile
<1> HIDE DEF t, v
<1>8. Replay(Append(w.log \o t.buffer, e)) = write_sstable(v)
  BY <1>5, <1>6, <1>7, ReplayAppend
<1>9. CASE ~due
  <2>0. v.buffer = Append(t.buffer, e)
    BY <1>2, <1>4, <1>9
  <2>1. w.log \o v.buffer = Append(w.log \o t.buffer, e)
    <3>1. w.log \o Append(t.buffer, e) = Append(w.log \o t.buffer, e)
      BY <1>1, <1>7, ConcatAppend
    <3> QED
      BY <2>0, <3>1
  <2>2. Logged(v, wals)
    BY <1>2, <1>4, <1>6, <1>8, <2>1 DEF Logged
  <2> QED
    BY <1>9, <2>2 DEF t, u, v
<1>10. CASE due
  <2> DEFINE x == [w EXCEPT !.log = @ \o t.buffer]
  <2>1. x \in FlushLog(t) /\ x.ts = t.wal /\ x.log = w.log \o t.buffer
    BY <1>6, <1>7 DEF FlushLog, WalFile
  <2> HIDE DEF x
  <2>0. v.buffer = Append(<< >>, e)
    BY <1>2, <1>4, <1>10
  <2>2. x.log \o v.buffer = Append(w.log \o t.buffer, e)
    BY <1>7, <2>0, <2>1, ConcatAppend, Zenon
  <2>3. Logged(v, FlushLog(t))
    BY <1>2, <1>4, <1>8, <2>1, <2>2 DEF Logged
  <2> QED
    BY <1>10, <2>3 DEF t, u, v
<1> QED
  BY <1>9, <1>10

\* Writing one table's buffer to its file leaves the other logs alone.
LEMMA LoggedOther ==
    ASSUME NEW t, t.wal # memtable.wal, Logged(t, wals)
    PROVE  Logged(t, FlushLog(memtable))
<1>1. PICK w \in wals : w.ts = t.wal /\ Replay(w.log \o t.buffer) = write_sstable(t)
  BY DEF Logged
<1>2. w \in FlushLog(memtable)
  BY <1>1 DEF FlushLog
<1> QED
  BY <1>1, <1>2 DEF Logged

\* The tables in the hands of a call and in the queue are tables.
LEMMA TablesTyped ==
    ASSUME TypeOK
    PROVE  /\ memtable.wal \in Nat
           /\ \A c \in Client : held[c] # Absent => held[c] \in Table /\ held[c].wal \in Nat
           /\ \A i \in DOMAIN immutable :
                immutable[i] \in Table /\ immutable[i].wal \in Nat
           /\ DOMAIN immutable = 1..Len(immutable) /\ Len(immutable) \in Nat
<1>1. \A t \in Table : t.wal \in Nat
  BY DEF Table
<1>2. \A c \in Client : held[c] # Absent => held[c] \in Table
  BY DEF TypeOK
<1>3. \A i \in DOMAIN immutable : immutable[i] \in Table
  BY DEF TypeOK
<1> QED
  BY <1>1, <1>2, <1>3 DEF TypeOK

----------------------------------------------------------------------------
(* The steps that leave the logs alone.                                    *)

\* A file that holds a table stays while files are only added or completed.
LEMMA FiledKept ==
    ASSUME NEW t \in Table, NEW files, Filed(t, sstables),
           \A f \in sstables : f.data # Partial => f \in files
    PROVE  Filed(t, files)
<1>1. PICK f \in sstables : f.data = write_sstable(t)
  BY DEF Filed
<1>2. f.data # Partial
  BY <1>1, WriteSSTableType, LsmliteAssumption
<1> QED
  BY <1>1, <1>2 DEF Filed

\* LogNames depends on these variables only.
LEMMA NamesFrame ==
    ASSUME TypeOK, LogNames, clock' \in Nat, clock <= clock',
           UNCHANGED << memtable, held, immutable >>
    PROVE  LogNames'
<1>1. memtable'.wal <= clock'
  BY TablesTyped DEF LogNames, TypeOK
<1> QED
  BY <1>1 DEF LogNames

\* LogsKept depends on these variables only, on the files only while the
\* oldest table is handed over.
LEMMA KeptFrame ==
    ASSUME TypeOK, LogsKept,
           UNCHANGED << memtable, held, immutable, wals >>,
           Handover => Handover' /\ \A f \in sstables : f.data # Partial => f \in sstables'
    PROVE  LogsKept'
<1>1. ASSUME NEW i \in DOMAIN immutable
      PROVE  \/ Logged(immutable[i], wals)
             \/ i = 1 /\ Handover' /\ Filed(immutable[i], sstables')
  <2>1. immutable[i] \in Table
    BY TablesTyped
  <2> QED
    BY <2>1, FiledKept DEF LogsKept
<1> QED
  BY <1>1 DEF LogsKept, Logged, Filed

----------------------------------------------------------------------------
(* The steps of the calls.                                                 *)

\* A write: the active table changes, with its log.
LEMMA LogInsert ==
    ASSUME TypeOK, LogInv, NEW e \in Entry, Insert(e),
           UNCHANGED << held, immutable, clock, sstables, flushPc, compChan, compPc >>
    PROVE  LogNames' /\ LogsKept'
<1>1. PICK due \in NeedsFlush :
        /\ memtable' = insert_node(write_log(memtable, e, due), e)
        /\ wals' = IF due THEN FlushLog(memtable) ELSE wals
  BY DEF Insert
<1>2. due \in BOOLEAN /\ memtable \in Table
  BY LsmliteAssumption DEF TypeOK
<1>3. memtable'.wal = memtable.wal
  BY <1>1, <1>2 DEF insert_node, write_log, Table
<1>4. LogNames'
  BY <1>3 DEF LogInv, LogNames
<1>5. Logged(memtable', wals')
  BY <1>1, <1>2, LoggedInsert DEF LogInv, LogsKept
<1>6. ASSUME NEW t, t.wal # memtable.wal, Logged(t, wals)
      PROVE  Logged(t, wals')
  BY <1>1, <1>6, LoggedOther
<1>7. ASSUME NEW c \in Client, held[c] # Absent
      PROVE  Logged(held[c], wals')
  <2>1. held[c].wal # memtable.wal /\ Logged(held[c], wals)
    BY <1>7, TablesTyped DEF LogInv, LogNames, LogsKept
  <2> QED
    BY <1>6, <2>1
<1>8. Handover' = Handover
  BY QueuedFrame DEF Handover
<1>9. ASSUME NEW i \in DOMAIN immutable
      PROVE  \/ Logged(immutable[i], wals')
             \/ i = 1 /\ Handover /\ Filed(immutable[i], sstables)
  <2>1. immutable[i].wal # memtable.wal
    BY TablesTyped DEF LogInv, LogNames
  <2>2. \/ Logged(immutable[i], wals)
        \/ i = 1 /\ Handover /\ Filed(immutable[i], sstables)
    BY DEF LogInv, LogsKept
  <2> QED
    BY <1>6, <2>1, <2>2
<1> QED
  BY <1>4, <1>5, <1>7, <1>8, <1>9 DEF LogsKept, Logged, Filed

\* A rotation: a new log for the new active table, a call for the old one.
LEMMA LogRotate ==
    ASSUME TypeOK, LogInv, NEW c \in Client, Rotate(c)
    PROVE  LogInv'
<1> DEFINE n == NewTable(clock + 1)
<1>1. /\ pc[c] = "rotate" /\ clock' = clock + 1 /\ memtable' = n
      /\ wals' = wals \cup {[ts |-> clock + 1, log |-> << >>]}
      /\ held' = [held EXCEPT ![c] = memtable]
      /\ pc' = [pc EXCEPT ![c] = "push"]
      /\ UNCHANGED << immutable, sstables, flushPc, compChan, compPc >>
  BY DEF Rotate, flushVars, compVars, chanVars
<1>2. held[c] = Absent
  BY <1>1 DEF LogInv, HeldOnlyToPush
<1>3. n.wal = clock + 1 /\ n.buffer = << >> /\ clock \in Nat
  BY DEF NewTable, TypeOK
<1>4. Logged(n, wals')
  <2> DEFINE w == [ts |-> clock + 1, log |-> << >>]
  <2>1. w \in wals' /\ w.ts = clock + 1 /\ w.log = << >>
    BY <1>1
  <2>2. Replay(<< >> \o << >>) = write_sstable(n)
    <3>1. << >> \o << >> = << >>
      OBVIOUS
    <3>2. Replay(<< >>) = [k \in Key |-> Absent]
      BY DEF Replay, SelectLastInSeq
    <3>3. write_sstable(n) = [k \in Key |-> Absent]
      BY DEF write_sstable, NewTable
    <3> QED
      BY <3>1, <3>2, <3>3
  <2> HIDE DEF w, n
  <2> QED
    BY <1>3, <2>1, <2>2 DEF Logged
<1> HIDE DEF n
<1>5. ASSUME NEW t, Logged(t, wals)
      PROVE  Logged(t, wals')
  BY <1>1, <1>5 DEF Logged
<1>6. held \in [Client -> Table \cup {Absent}] /\ pc \in [Client -> ClientStates]
  BY DEF TypeOK
<1>7. \A d \in Client : held'[d] = IF d = c THEN memtable ELSE held[d]
  BY <1>1, <1>6
<1>8. LogNames'
  <2>1. \A d \in Client : held'[d] # Absent => held'[d].wal < memtable'.wal
    BY <1>1, <1>3, <1>7, TablesTyped DEF LogInv, LogNames
  <2>2. \A i \in DOMAIN immutable : immutable[i].wal < memtable'.wal
    BY <1>1, <1>3, TablesTyped DEF LogInv, LogNames
  <2>3. \A d, x \in Client :
          held'[d] # Absent /\ held'[x] # Absent /\ held'[d].wal = held'[x].wal => d = x
    BY <1>2, <1>7, TablesTyped DEF LogInv, LogNames
  <2>4. \A d \in Client, i \in DOMAIN immutable :
          held'[d] # Absent => held'[d].wal # immutable[i].wal
    BY <1>7, TablesTyped DEF LogInv, LogNames
  <2>5. memtable'.wal <= clock'
    BY <1>1, <1>3
  <2> QED
    BY <1>1, <2>1, <2>2, <2>3, <2>4, <2>5 DEF LogInv, LogNames
<1>9. LogsKept'
  <2>1. Handover' = Handover
    BY <1>1, QueuedFrame DEF Handover
  <2>2. \A d \in Client : held'[d] # Absent => Logged(held'[d], wals')
    BY <1>5, <1>7 DEF LogInv, LogsKept
  <2>3. Logged(memtable', wals')
    BY <1>1, <1>4
  <2>4. ASSUME NEW i \in DOMAIN immutable
        PROVE  \/ Logged(immutable[i], wals')
               \/ i = 1 /\ Handover /\ Filed(immutable[i], sstables)
    BY <1>5 DEF LogInv, LogsKept
  <2> QED
    BY <1>1, <2>1, <2>2, <2>3, <2>4 DEF LogsKept, Logged, Filed
<1>10. HeldOnlyToPush'
  BY <1>1, <1>6, <1>7 DEF LogInv, HeldOnlyToPush
<1> QED
  BY <1>8, <1>9, <1>10 DEF LogInv

\* A push: the table goes from the call to the queue.
LEMMA LogPush ==
    ASSUME TypeOK, LogInv, PipelineInv, NEW c \in Client, Push(c)
    PROVE  LogInv'
<1>1. /\ pc[c] = "push" /\ immutable' = Append(immutable, held[c])
      /\ held' = [held EXCEPT ![c] = Absent]
      /\ pc' = [pc EXCEPT ![c] = "signal"]
      /\ UNCHANGED << memtable, clock, wals, sstables, flushPc, compChan, compPc >>
  BY DEF Push, insert, flushVars, compVars, chanVars, diskVars
<1>2. held[c] \in Table /\ held[c] # Absent
  BY <1>1, TableAssumption DEF PipelineInv, CallsCarry
<1>3. held \in [Client -> Table \cup {Absent}] /\ pc \in [Client -> ClientStates]
  BY DEF TypeOK
<1>4. \A d \in Client : held'[d] = IF d = c THEN Absent ELSE held[d]
  BY <1>1, <1>3
<1>5. /\ DOMAIN immutable' = 1..(Len(immutable) + 1)
      /\ immutable'[Len(immutable) + 1] = held[c]
      /\ \A i \in DOMAIN immutable : immutable'[i] = immutable[i]
      /\ DOMAIN immutable = 1..Len(immutable) /\ Len(immutable) \in Nat
  BY <1>1, <1>2 DEF TypeOK
<1>6. \A i \in DOMAIN immutable' :
        \/ i \in DOMAIN immutable /\ immutable'[i] = immutable[i]
        \/ i = Len(immutable) + 1 /\ immutable'[i] = held[c]
  BY <1>5
<1>7. LogNames'
  <2>1. \A i \in DOMAIN immutable' : immutable'[i].wal < memtable.wal
    BY <1>2, <1>6 DEF LogInv, LogNames
  <2>2. \A d \in Client, i \in DOMAIN immutable' :
          held'[d] # Absent => held'[d].wal # immutable'[i].wal
    BY <1>2, <1>4, <1>6 DEF LogInv, LogNames
  <2>3. \A i, j \in DOMAIN immutable' : immutable'[i].wal = immutable'[j].wal => i = j
    BY <1>2, <1>6 DEF LogInv, LogNames
  <2> QED
    BY <1>1, <1>4, <2>1, <2>2, <2>3 DEF LogInv, LogNames
<1>8. LogsKept'
  <2>1. Handover' = Handover
    BY <1>1, QueuedFrame DEF Handover
  <2>2. ASSUME NEW i \in DOMAIN immutable'
        PROVE  \/ Logged(immutable'[i], wals)
               \/ i = 1 /\ Handover /\ Filed(immutable'[i], sstables)
    BY <1>2, <1>6 DEF LogInv, LogsKept
  <2>3. \A d \in Client : held'[d] # Absent => Logged(held'[d], wals)
    BY <1>4 DEF LogInv, LogsKept
  <2>4. Logged(memtable, wals)
    BY DEF LogInv, LogsKept
  <2> QED
    BY <1>1, <2>1, <2>2, <2>3, <2>4 DEF LogsKept, Logged, Filed
<1>9. HeldOnlyToPush'
  BY <1>1, <1>3, <1>4 DEF LogInv, HeldOnlyToPush
<1> QED
  BY <1>7, <1>8, <1>9 DEF LogInv

\* A call that is dropped loses the table it holds; the others are as before.
LEMMA LogCancel ==
    ASSUME TypeOK, LogInv, NEW c \in Client, Cancel(c)
    PROVE  LogInv'
<1>1. /\ held' = [held EXCEPT ![c] = Absent]
      /\ pc' = [pc EXCEPT ![c] = "idle"]
      /\ UNCHANGED << memtable, immutable, clock, wals, sstables, flushPc, compChan, compPc >>
  BY DEF Cancel, tableVars, flushVars, compVars, chanVars, diskVars
<1>2. held \in [Client -> Table \cup {Absent}] /\ pc \in [Client -> ClientStates]
  BY DEF TypeOK
<1>3. \A d \in Client : held'[d] = IF d = c THEN Absent ELSE held[d]
  BY <1>1, <1>2
<1>4. LogNames'
  BY <1>1, <1>3 DEF LogInv, LogNames
<1>5. LogsKept'
  <2>1. Handover' = Handover
    BY <1>1, QueuedFrame DEF Handover
  <2>2. \A d \in Client : held'[d] # Absent => Logged(held'[d], wals)
    BY <1>3 DEF LogInv, LogsKept
  <2>3. /\ Logged(memtable, wals)
        /\ \A i \in DOMAIN immutable :
            \/ Logged(immutable[i], wals)
            \/ i = 1 /\ Handover /\ Filed(immutable[i], sstables)
    BY DEF LogInv, LogsKept
  <2> QED
    BY <1>1, <2>1, <2>2, <2>3 DEF LogsKept, Logged, Filed
<1>6. HeldOnlyToPush'
  BY <1>1, <1>2, <1>3 DEF LogInv, HeldOnlyToPush
<1> QED
  BY <1>4, <1>5, <1>6 DEF LogInv

\* The steps of calls that move no table.
LEMMA LogCall ==
    ASSUME TypeOK, LogInv, NEW c \in Client,
           \/ \E k \in Key : Get(c, k)
           \/ CallPoisoned(c) \/ RotateFails(c) \/ Signal(c) \/ SignalClosed(c)
           \/ GetImmutable(c) \/ GetSSTable(c) \/ Return(c)
    PROVE  LogInv'
<1>1. /\ UNCHANGED << memtable, immutable, held, clock, wals, sstables, flushPc,
                      compChan, compPc >>
      /\ pc[c] # "push"
      /\ \E s \in ClientStates : pc' = [pc EXCEPT ![c] = s]
  BY DEF Get, CallPoisoned, RotateFails, Signal, SignalClosed, GetImmutable, GetSSTable,
         Return, Answer, MayCall, ClientStates, tableVars, flushVars, compVars, chanVars,
         diskVars
<1>2. Handover' = Handover
  BY <1>1, QueuedFrame DEF Handover
<1>3. LogNames' /\ LogsKept'
  BY <1>1, <1>2, NamesFrame, KeptFrame DEF LogInv, TypeOK
<1>4. HeldOnlyToPush'
  BY <1>1 DEF LogInv, HeldOnlyToPush, TypeOK
<1> QED
  BY <1>3, <1>4 DEF LogInv

\* A set or delete, and the retry after a rotation.
LEMMA LogWrite ==
    ASSUME TypeOK, PipelineInv, LogInv, NEW c \in Client,
           (\E k \in Key : Set(c, k) \/ Delete(c, k)) \/ Retry(c)
    PROVE  LogInv'
<1>1. PICK e \in Entry : Write(c, e) \/ (Retry(c) /\ e = req[c])
  BY WriteEntries DEF Set, Delete, Retry, PipelineInv, CallsCarry
<1>2. /\ UNCHANGED << immutable, held, clock, sstables, flushPc, compChan, compPc >>
      /\ pc[c] # "push"
      /\ pc' = pc \/ \E s \in ClientStates : pc' = [pc EXCEPT ![c] = s]
      /\ Insert(e) \/ UNCHANGED << memtable, wals >>
  BY <1>1 DEF Write, Retry, MayCall, ClientStates, flushVars, compVars, chanVars
<1>3. HeldOnlyToPush'
  BY <1>2 DEF LogInv, HeldOnlyToPush, TypeOK
<1>4. Handover' = Handover
  BY <1>2, QueuedFrame DEF Handover
<1>5. CASE Insert(e)
  BY <1>2, <1>3, <1>5, LogInsert DEF LogInv
<1>6. CASE UNCHANGED << memtable, wals >>
  BY <1>2, <1>3, <1>4, <1>6, NamesFrame, KeptFrame DEF LogInv, TypeOK
<1> QED
  BY <1>2, <1>5, <1>6

----------------------------------------------------------------------------
(* The steps of the background tasks.                                      *)

\* A step that moves no table and removes no log, and no file while the oldest
\* table is handed over.
LEMMA LogFrame ==
    ASSUME TypeOK, LogInv, clock' \in Nat, clock <= clock',
           UNCHANGED << memtable, immutable, held, pc, wals >>,
           Handover => Handover' /\ \A f \in sstables : f.data # Partial => f \in sstables'
    PROVE  LogInv'
<1>1. LogNames' /\ LogsKept'
  BY NamesFrame, KeptFrame DEF LogInv
<1> QED
  BY <1>1 DEF LogInv, HeldOnlyToPush

\* The flush task removes the log of a table once a file holds it.
LEMMA LogUnlink ==
    ASSUME TypeOK, PipelineInv, LogInv, FlushUnlink
    PROVE  LogInv'
<1>1. /\ flushPc = "unlink" /\ flushPc' = "load"
      /\ wals' = {w \in wals : w.ts # flushHead.wal}
      /\ UNCHANGED << memtable, immutable, held, pc, clock, sstables, compPc, compChan >>
  BY DEF FlushUnlink, clientVars, tableVars, compVars, chanVars
<1>2. /\ immutable # << >> /\ flushHead = immutable[1]
      /\ 1 \in DOMAIN immutable
  <2>1. immutable # << >> /\ flushHead = Head(immutable)
    BY <1>1, FrontExists DEF PipelineInv, QueueCovered, InFlight
  <2> QED
    BY <2>1 DEF TypeOK
<1>3. Filed(immutable[1], sstables)
  <2> DEFINE f == [path |-> flushPath, data |-> write_sstable(flushHead)]
  <2>1. f \in sstables /\ f.data = write_sstable(flushHead)
    BY <1>1 DEF PipelineInv, FilesInHand
  <2> HIDE DEF f
  <2> QED
    BY <1>2, <2>1 DEF Filed
<1>4. ASSUME NEW t, t.wal # immutable[1].wal, Logged(t, wals)
      PROVE  Logged(t, wals')
  BY <1>1, <1>2, <1>4 DEF Logged
<1>5. Handover'
  BY <1>1 DEF Handover
<1>6. Logged(memtable, wals')
  BY <1>2, <1>4, TablesTyped DEF LogInv, LogNames, LogsKept
<1>7. \A c \in Client : held[c] # Absent => Logged(held[c], wals')
  BY <1>2, <1>4 DEF LogInv, LogNames, LogsKept
<1>8. ASSUME NEW i \in DOMAIN immutable
      PROVE  \/ Logged(immutable[i], wals')
             \/ i = 1 /\ Handover' /\ Filed(immutable[i], sstables)
  <2>1. CASE i = 1
    BY <1>3, <1>5, <2>1
  <2>2. CASE i # 1
    BY <1>2, <1>4, <2>2 DEF LogInv, LogNames, LogsKept
  <2> QED
    BY <2>1, <2>2
<1>9. LogsKept'
  BY <1>1, <1>5, <1>6, <1>7, <1>8 DEF LogsKept, Logged, Filed
<1>10. LogNames' /\ HeldOnlyToPush'
  BY <1>1, NamesFrame DEF LogInv, HeldOnlyToPush, TypeOK
<1> QED
  BY <1>9, <1>10 DEF LogInv

\* The other steps of the flush task.
LEMMA LogFlusher ==
    ASSUME TypeOK, PipelineInv, LogInv, Flusher \/ FlushCreateFails \/ FlushFails
    PROVE  LogInv'
<1>1. CASE FlushRecv \/ FlushWrite \/ FlushFront \/ FlushCreateFails \/ FlushShutdown
           \/ FlushRecvClosed \/ FlushFails \/ FlushAck \/ FlushAckClosed
  <2>1. /\ UNCHANGED << memtable, immutable, held, pc, wals, compPc, compChan >>
        /\ flushPc # "load" /\ clock' \in {clock, clock + 1}
    BY <1>1 DEF FlushRecv, FlushWrite, FlushFront, FlushCreateFails, FlushShutdown,
         FlushRecvClosed, FlushFails, FlushAck, FlushAckClosed, clientVars, tableVars,
         compVars, chanVars, diskVars
  <2>2. Handover => Handover'
    BY <2>1, QueuedFrame DEF Handover
  <2>3. \A f \in sstables : f.data # Partial => f \in sstables'
    BY <1>1 DEF FlushRecv, FlushWrite, FlushFront, FlushCreateFails, FlushShutdown,
         FlushRecvClosed, FlushFails, FlushAck, FlushAckClosed, Created, Written, diskVars
  <2> QED
    BY <2>1, <2>2, <2>3, LogFrame DEF TypeOK
<1>2. CASE FlushLoad
  <2>1. /\ UNCHANGED << memtable, immutable, held, pc, wals, compPc, clock, sstables >>
        /\ \/ compPc \in Exited
           \/ compChan' = Append(compChan, flushPath)
    BY <1>2 DEF FlushLoad, clientVars, tableVars, compVars, diskVars
  <2>2. compChan' = Append(compChan, flushPath) => PathQueued'
    <3> SUFFICES ASSUME compChan' = Append(compChan, flushPath) PROVE PathQueued'
      OBVIOUS
    <3>1. /\ Len(compChan) + 1 \in DOMAIN compChan'
          /\ compChan'[Len(compChan) + 1] = flushPath
      BY DEF TypeOK
    <3>2. flushPath # Shutdown
      BY LsmliteAssumption DEF TypeOK
    <3> QED
      BY <3>1, <3>2 DEF PathQueued
  <2>3. Handover'
    BY <2>1, <2>2 DEF Handover
  <2> QED
    BY <2>1, <2>3, LogFrame DEF TypeOK
<1> QED
  BY <1>1, <1>2, LogUnlink DEF Flusher

\* The pop: the queue's next table has its log.
LEMMA LogPop ==
    ASSUME TypeOK, PipelineInv, LogInv, CompactorPop
    PROVE  LogInv'
<1>1. /\ compPc = "pop" /\ immutable' = pop(immutable)
      /\ UNCHANGED << memtable, held, pc, clock, wals, sstables >>
  BY DEF CompactorPop, clientVars, diskVars
<1>2. immutable # << >> /\ immutable \in Seq(Table)
  BY <1>1, FrontExists DEF InFlight, TypeOK
<1>3. /\ DOMAIN immutable' = 1..(Len(immutable) - 1) /\ Len(immutable) \in Nat
      /\ \A i \in DOMAIN immutable' :
            i + 1 \in DOMAIN immutable /\ i + 1 # 1 /\ immutable'[i] = immutable[i + 1]
  BY <1>1, <1>2 DEF pop
<1>4. LogNames'
  <2>1. \A i, j \in DOMAIN immutable' : immutable'[i].wal = immutable'[j].wal => i = j
    <3> SUFFICES ASSUME NEW i \in DOMAIN immutable', NEW j \in DOMAIN immutable',
                        immutable'[i].wal = immutable'[j].wal
                 PROVE  i = j
      OBVIOUS
    <3>1. i + 1 = j + 1
      BY <1>3 DEF LogInv, LogNames
    <3> QED
      BY <1>3, <3>1
  <2> QED
    BY <1>1, <1>3, <2>1 DEF LogInv, LogNames
<1>5. LogsKept'
  <2>1. \A i \in DOMAIN immutable' : Logged(immutable'[i], wals)
    BY <1>3 DEF LogInv, LogsKept
  <2>2. /\ Logged(memtable, wals)
        /\ \A c \in Client : held[c] # Absent => Logged(held[c], wals)
    BY DEF LogInv, LogsKept
  <2> QED
    BY <1>1, <2>1, <2>2 DEF LogsKept, Logged
<1> QED
  BY <1>1, <1>4, <1>5 DEF LogInv, HeldOnlyToPush

\* The other steps of the compaction task, and the drop.
LEMMA LogCompactor ==
    ASSUME TypeOK, PipelineInv, LogInv,
           \/ Compactor \/ CompactorFails
           \/ DropSignalCompactor \/ DropSignalFlusher \/ DropInTask
    PROVE  LogInv'
<1>1. CASE CompactorLoad \/ CompactorShutdown \/ CompactorRecvClosed \/ CompactorFails
  <2>1. /\ UNCHANGED << memtable, immutable, held, pc, wals, clock, sstables >>
        /\ compPc' \in Exited \cup {"pop"}
    BY <1>1 DEF CompactorLoad, CompactorShutdown, CompactorRecvClosed, CompactorFails, Exited,
                clientVars, tableVars, diskVars
  <2>2. Handover'
    BY <2>1 DEF Handover
  <2> QED
    BY <2>1, <2>2, LogFrame DEF TypeOK
<1>2. CASE CompactorCreate \/ CompactorFinish \/ CompactorReplace \/ CompactorCleaned
           \/ CompactorAck \/ \E f \in sstables : CompactorCleanup(f)
  <2>1. /\ UNCHANGED << memtable, immutable, held, pc, wals >>
        /\ clock' \in {clock, clock + 1}
        /\ compPc \notin Exited \cup {"recv", "pop"}
    BY <1>2 DEF CompactorCreate, CompactorFinish, CompactorReplace, CompactorCleaned,
         CompactorAck, CompactorCleanup, Exited, clientVars, tableVars, diskVars
  <2>2. ~Handover
    BY <2>1, NotQueued DEF Handover, PipelineInv, Handshake, NoFlushDuringCompaction
  <2> QED
    BY <2>1, <2>2, LogFrame DEF TypeOK
<1>3. CASE DropSignalCompactor \/ DropSignalFlusher \/ DropInTask
  <2>1. /\ UNCHANGED << memtable, immutable, held, pc, wals, clock, sstables, flushPc, compPc >>
        /\ compChan' \in {compChan, Append(compChan, Shutdown)}
    BY <1>3 DEF DropSignalCompactor, DropSignalFlusher, DropInTask, clientVars, tableVars,
                flushVars, compVars, chanVars, diskVars
  <2>2. PathQueued => PathQueued'
    <3>1. compChan' = compChan => (PathQueued => PathQueued')
      BY QueuedFrame
    <3>2. ASSUME compChan' = Append(compChan, Shutdown), PathQueued
          PROVE  PathQueued'
      <4>1. PICK i \in DOMAIN compChan : compChan[i] # Shutdown
        BY <3>2 DEF PathQueued
      <4>2. i \in DOMAIN compChan' /\ compChan'[i] = compChan[i]
        BY <3>2, <4>1 DEF TypeOK
      <4> QED
        BY <4>1, <4>2 DEF PathQueued
    <3> QED
      BY <2>1, <3>1, <3>2
  <2>3. Handover => Handover'
    BY <2>1, <2>2 DEF Handover
  <2> QED
    BY <2>1, <2>3, LogFrame DEF TypeOK
<1> QED
  BY <1>1, <1>2, <1>3, LogPop DEF Compactor

\* Every step keeps the logs.
LEMMA LogStep ==
    ASSUME TypeOK, PipelineInv, LogInv, [Next]_vars
    PROVE  LogInv'
<1>1. CASE UNCHANGED vars \/ Quiescent
  <2>1. UNCHANGED << memtable, immutable, held, pc, wals, clock, sstables, flushPc, compPc,
                     compChan >>
    BY <1>1 DEF Quiescent, vars, clientVars, tableVars, flushVars, compVars, chanVars, diskVars
  <2>2. Handover' = Handover
    BY <2>1, QueuedFrame DEF Handover
  <2> QED
    BY <2>1, <2>2, LogFrame DEF TypeOK
<1>2. ASSUME NEW c \in Client,
             \/ \E k \in Key : Set(c, k) \/ Delete(c, k) \/ Get(c, k)
             \/ CallPoisoned(c) \/ RotateFails(c) \/ Cancel(c) \/ Call(c)
      PROVE  LogInv'
  BY <1>2, LogWrite, LogCall, LogRotate, LogPush, LogCancel DEF Call
<1> QED
  BY <1>1, <1>2, LogFlusher, LogCompactor DEF Next

\* At the start the one log is empty and so is the table.
LEMMA LogInit == Init => LogInv
<1> SUFFICES ASSUME Init PROVE LogInv
  OBVIOUS
<1>1. Logged(memtable, wals)
  <2>1. Replay(<< >>) = [k \in Key |-> Absent]
    BY DEF Replay, SelectLastInSeq
  <2>2. write_sstable(memtable) = [k \in Key |-> Absent]
    BY DEF Init, write_sstable, NewTable
  <2>3. memtable.wal = 1 /\ memtable.buffer = << >>
    BY DEF Init, NewTable
  <2> DEFINE w == [ts |-> 1, log |-> << >>]
  <2>4. w \in wals /\ w.ts = 1 /\ w.log = << >> /\ << >> \o << >> = << >>
    BY DEF Init
  <2> HIDE DEF w
  <2> QED
    BY <2>1, <2>2, <2>3, <2>4 DEF Logged
<1>2. memtable.wal = 1 /\ clock = 1 /\ immutable = << >>
      /\ \A c \in Client : held[c] = Absent
  BY DEF Init, NewTable
<1> QED
  BY <1>1, <1>2 DEF LogInv, LogNames, LogsKept, HeldOnlyToPush

\* Logs, tables and the turns of the background tasks stay in step.
THEOREM LogInductive == Spec => []LogInv
<1>1. TypeOK /\ PipelineInv /\ LogInv /\ [Next]_vars => LogInv'
  BY LogStep
<1> QED
  BY <1>1, LogInit, Inductive, PTL DEF Spec

\* What the invariant says of every table that is not in the cache.
LEMMA LogsRecover ==
    ASSUME LogInv
    PROVE  QueueRecoverable
<1>1. \A t : Logged(t, wals) \/ Filed(t, sstables) => TableRecoverable(t)
  BY DEF Logged, Filed, TableRecoverable
<1>2. /\ Logged(memtable, wals)
      /\ \A c \in Client : held[c] # Absent => Logged(held[c], wals)
      /\ \A i \in DOMAIN immutable :
            Logged(immutable[i], wals) \/ Filed(immutable[i], sstables)
  BY DEF LogInv, LogsKept
<1> QED
  BY <1>1, <1>2 DEF QueueRecoverable

\* Whatever fails, is cancelled or dropped, no rotation, flush or cleanup()
\* takes the last durable copy of a table that is not in the cache: its log
\* and buffer, or a complete SSTable file, still hold its records.
THEOREM TablesRecoverable == Spec => []QueueRecoverable
<1>1. LogInv => QueueRecoverable
  BY LogsRecover
<1> QED
  BY <1>1, LogInductive, PTL

----------------------------------------------------------------------------
(* The cache of SSTables and the files behind it: the cache stays in the   *)
(* order of the file names, which is the order a restart rebuilds it in,   *)
(* and the removal of stale files takes at most the file of the oldest     *)
(* table of the cache.                                                     *)

\* A flush has a file that is not in the cache yet.
FileUnderway == flushPc \in {"front", "write", "unlink", "load"} \/ PathQueued

\* Names in the cache were given before now, and before the name of the file
\* that will be loaded next.
CacheNames ==
    /\ \A i \in DOMAIN cache : cache[i].path <= clock
    /\ FileUnderway => \A i \in DOMAIN cache : cache[i].path < flushPath

\* Files are removed only while the cache is the compacted table alone.
CleansAlone == compPc = "cleanup" => Len(cache) = 1

\* The inductive invariant of the cache and its files.
CacheInv == CacheNames /\ CleansAlone /\ CacheSortedByName /\ OnlyOldestLacksFile

----------------------------------------------------------------------------
\* Every table of the cache is complete.
LEMMA CachedTables ==
    ASSUME TypeOK, NEW i \in DOMAIN cache
    PROVE  cache[i] \in SSTable /\ cache[i].path \in Nat /\ cache[i].data # Partial
<1>1. cache[i] \in SSTable
  BY DEF TypeOK
<1>2. cache[i].path \in Nat /\ cache[i].data \in Block
  BY <1>1 DEF SSTable
<1> QED
  BY <1>1, <1>2, LsmliteAssumption

\* Completing a file removes no file of the cache, since those are complete.
LEMMA WrittenKeepsCache ==
    ASSUME TypeOK, NEW p, NEW d, NEW i \in DOMAIN cache, cache[i] \in sstables,
           sstables' = Written(p, d)
    PROVE  cache[i] \in sstables'
<1>1. cache[i] # [path |-> p, data |-> Partial]
  BY CachedTables
<1> QED
  BY <1>1 DEF Written

\* CacheInv depends on these variables only; the clock may advance, the flush
\* task may drop its file, and files may be added.
LEMMA CacheFrame ==
    ASSUME TypeOK, CacheInv,
           clock' \in Nat, clock <= clock',
           UNCHANGED cache,
           compPc' = "cleanup" => compPc = "cleanup",
           \A i \in DOMAIN cache : cache[i] \in sstables => cache[i] \in sstables',
           FileUnderway' => FileUnderway /\ flushPath' = flushPath
    PROVE  CacheInv'
<1>1. \A i \in DOMAIN cache : cache[i].path \in Nat
  BY CachedTables
<1>2. CacheNames'
  BY <1>1 DEF CacheInv, CacheNames, TypeOK
<1>3. CleansAlone' /\ CacheSortedByName' /\ OnlyOldestLacksFile'
  BY DEF CacheInv, CleansAlone, CacheSortedByName, OnlyOldestLacksFile
<1> QED
  BY <1>2, <1>3 DEF CacheInv

\* The flush task.  A new file has a later name than every cached table.
LEMMA CacheFlusher ==
    ASSUME TypeOK, PipelineInv, CacheInv, Flusher \/ FlushCreateFails \/ FlushFails
    PROVE  CacheInv'
<1>1. CASE FlushRecv
  <2>1. /\ clock' = clock + 1 /\ flushPath' = clock + 1 /\ sstables \subseteq sstables'
        /\ UNCHANGED << cache, compPc >> /\ clock \in Nat
    BY <1>1 DEF FlushRecv, Created, TypeOK, tableVars, compVars
  <2>2. \A i \in DOMAIN cache : cache[i].path \in Nat
    BY CachedTables
  <2>3. CacheNames'
    BY <2>1, <2>2 DEF CacheInv, CacheNames
  <2> QED
    BY <2>1, <2>3 DEF CacheInv, CleansAlone, CacheSortedByName, OnlyOldestLacksFile
<1>2. CASE FlushWrite
  <2>1. /\ UNCHANGED << cache, compPc, clock, flushPath >> /\ flushPc = "write"
        /\ sstables' = Written(flushPath, write_sstable(flushHead))
    BY <1>2 DEF FlushWrite, tableVars, compVars
  <2>2. \A i \in DOMAIN cache : cache[i] \in sstables => cache[i] \in sstables'
    BY <2>1, WrittenKeepsCache
  <2> QED
    BY <2>1, <2>2, CacheFrame DEF TypeOK, FileUnderway
<1>3. CASE FlushFront \/ FlushUnlink
  <2>1. /\ UNCHANGED << cache, compPc, clock, flushPath, sstables >>
        /\ flushPc \in {"front", "unlink"}
    BY <1>3 DEF FlushFront, FlushUnlink, tableVars, compVars, diskVars
  <2> QED
    BY <2>1, CacheFrame DEF TypeOK, FileUnderway
<1>4. CASE FlushLoad
  <2>1. UNCHANGED << cache, compPc, clock, flushPath, sstables >> /\ flushPc = "load"
    BY <1>4 DEF FlushLoad, tableVars, compVars, diskVars
  <2> QED
    BY <2>1, CacheFrame DEF TypeOK, FileUnderway
<1>5. CASE FlushCreateFails \/ FlushShutdown \/ FlushRecvClosed \/ FlushFails
           \/ FlushAck \/ FlushAckClosed
  <2>1. /\ UNCHANGED << cache, compPc, clock, flushPath, sstables, compChan >>
        /\ flushPc' \in {"recv", "stopped", "panicked"}
    BY <1>5 DEF FlushCreateFails, FlushShutdown, FlushRecvClosed, FlushFails,
                FlushAck, FlushAckClosed, tableVars, compVars, chanVars, diskVars
  <2> QED
    BY <2>1, CacheFrame, QueuedFrame DEF TypeOK, FileUnderway
<1> QED
  BY <1>1, <1>2, <1>3, <1>4, <1>5 DEF Flusher

\* A loaded table takes the front of the cache, and its name is the latest.
LEMMA CacheLoad ==
    ASSUME TypeOK, PipelineInv, CacheInv, CompactorLoad
    PROVE  CacheInv'
<1> DEFINE f == [path |-> flushPath, data |-> write_sstable(flushHead)]
<1>0. Handshake /\ FilesInHand
  BY DEF PipelineInv
<1>1. /\ PathQueued /\ f \in sstables
      /\ cache' = << f >> \o cache
      /\ UNCHANGED << clock, sstables, flushPath, flushPc >> /\ compPc' = "pop"
      /\ compPc = "recv"
  BY <1>0, QueuedFile DEF CompactorLoad, FilesInHand, push, diskVars, flushVars
<1>2. ~FileUnderway'
  BY <1>0, <1>1, QueuedFile
  DEF CompactorLoad, FileUnderway, Handshake, PathQueued, TypeOK
<1>3. f.path = flushPath /\ flushPath <= clock /\ flushPath \in Nat
  BY <1>0, <1>1 DEF FilesInHand, TypeOK
<1>4. /\ \A i \in DOMAIN cache : cache[i].path \in Nat /\ cache[i].path < flushPath
      /\ cache \in Seq(SSTable)
  BY <1>1, CachedTables DEF CacheInv, CacheNames, FileUnderway, TypeOK
<1> HIDE DEF f
<1>5. /\ Len(cache') = Len(cache) + 1
      /\ cache'[1] = f
      /\ \A i \in DOMAIN cache' : i # 1 => i - 1 \in DOMAIN cache /\ cache'[i] = cache[i - 1]
      /\ DOMAIN cache = 1..Len(cache) /\ DOMAIN cache' = 1..Len(cache')
      /\ Len(cache) \in Nat
  BY <1>1, <1>4
<1>6. CacheNames'
  BY <1>1, <1>2, <1>3, <1>4, <1>5 DEF CacheInv, CacheNames, TypeOK
<1>7. CacheSortedByName'
  <2> SUFFICES ASSUME NEW i \in DOMAIN cache', NEW j \in DOMAIN cache', i < j
               PROVE  cache'[i].path > cache'[j].path
    BY DEF CacheSortedByName
  <2>1. j # 1 /\ j - 1 \in DOMAIN cache /\ cache'[j] = cache[j - 1]
    BY <1>5
  <2>2. CASE i = 1
    BY <1>3, <1>4, <1>5, <2>1, <2>2
  <2>3. CASE i # 1
    BY <1>4, <1>5, <2>1, <2>3 DEF CacheInv, CacheSortedByName
  <2> QED
    BY <2>2, <2>3
<1>8. OnlyOldestLacksFile'
  <2> SUFFICES ASSUME NEW i \in DOMAIN cache', i < Len(cache')
               PROVE  cache'[i] \in sstables
    BY <1>1 DEF OnlyOldestLacksFile
  <2>1. CASE i = 1
    BY <1>1, <1>5, <2>1
  <2>2. CASE i # 1
    BY <1>5, <2>2 DEF CacheInv, OnlyOldestLacksFile
  <2> QED
    BY <2>1, <2>2
<1> QED
  BY <1>1, <1>6, <1>7, <1>8 DEF CacheInv, CleansAlone

\* The compaction task and the drop.  cleanup() meets a cache of one table,
\* whose file is the one that may go.
LEMMA CacheCompactor ==
    ASSUME TypeOK, PipelineInv, CacheInv,
           \/ Compactor \/ CompactorFails
           \/ DropSignalCompactor \/ DropSignalFlusher \/ DropInTask
    PROVE  CacheInv'
<1>0. Handshake /\ FilesInHand
  BY DEF PipelineInv
<1>1. CASE CompactorPop \/ CompactorCleaned \/ CompactorAck
  <2>1. /\ UNCHANGED << cache, clock, flushPath, flushPc, sstables, compChan >>
        /\ compPc' # "cleanup"
    BY <1>1 DEF CompactorPop, CompactorCleaned, CompactorAck, tableVars, flushVars,
                chanVars, diskVars
  <2> QED
    BY <2>1, CacheFrame, QueuedFrame DEF TypeOK, FileUnderway
<1>2. CASE CompactorShutdown \/ CompactorRecvClosed \/ CompactorFails
  <2>1. /\ UNCHANGED << cache, clock, flushPath, flushPc, sstables >>
        /\ compPc' # "cleanup" /\ compChan' = << >>
    BY <1>2 DEF CompactorShutdown, CompactorRecvClosed, CompactorFails, tableVars,
                flushVars, chanVars, diskVars
  <2>2. ~PathQueued'
    BY <2>1 DEF PathQueued
  <2> QED
    BY <2>1, <2>2, CacheFrame DEF TypeOK, FileUnderway
<1>3. CASE DropSignalCompactor \/ DropSignalFlusher \/ DropInTask
  <2>1. /\ UNCHANGED << cache, clock, flushPath, flushPc, sstables, compPc >>
        /\ compChan' \in {compChan, Append(compChan, Shutdown)}
    BY <1>3 DEF DropSignalCompactor, DropSignalFlusher, DropInTask, tableVars,
                flushVars, compVars, chanVars, diskVars
  <2> QED
    BY <2>1, CacheFrame, ShutdownQueued DEF TypeOK, FileUnderway
<1>4. CASE CompactorCreate
  <2>1. /\ UNCHANGED << cache, flushPath, flushPc, compChan >> /\ clock' = clock + 1
        /\ compPc' # "cleanup" /\ sstables \subseteq sstables'
    BY <1>4 DEF CompactorCreate, Created, tableVars, flushVars, chanVars
  <2> QED
    BY <2>1, CacheFrame, QueuedFrame DEF TypeOK, FileUnderway
<1>5. CASE CompactorFinish
  <2>1. PICK m : sstables' = Written(compPath, m)
    BY <1>5 DEF CompactorFinish
  <2>2. UNCHANGED << cache, clock, flushPath, flushPc, compChan >> /\ compPc' # "cleanup"
    BY <1>5 DEF CompactorFinish, tableVars, flushVars, chanVars
  <2>3. \A i \in DOMAIN cache : cache[i] \in sstables => cache[i] \in sstables'
    BY <2>1, <2>2, WrittenKeepsCache
  <2> QED
    BY <2>2, <2>3, CacheFrame, QueuedFrame DEF TypeOK, FileUnderway
<1>6. CASE CompactorReplace
  <2>1. PICK f \in sstables : f.path = compPath /\ f.data # Partial
    BY <1>0, <1>6 DEF FilesInHand, CompactorReplace
  <2>2. cache' = << f >> /\ UNCHANGED << clock, flushPc, compChan, sstables >>
    BY <1>0, <1>6, <2>1, FromPath DEF CompactorReplace, flushVars, chanVars, diskVars
  <2>3. ~FileUnderway'
    <3>1. flushPc = "ack" /\ ~PathQueued
      BY <1>0, <1>6, NotQueued DEF CompactorReplace, Handshake, NoFlushDuringCompaction,
                                   Exited
    <3> QED
      BY <2>2, <3>1, QueuedFrame DEF FileUnderway
  <2>4. f.path <= clock
    BY <1>0 DEF FilesInHand
  <2>5. Len(cache') = 1 /\ DOMAIN cache' = {1} /\ cache'[1] = f
    BY <2>2
  <2> QED
    BY <2>2, <2>3, <2>4, <2>5
    DEF CacheInv, CacheNames, CleansAlone, CacheSortedByName, OnlyOldestLacksFile
<1>7. CASE \E f \in sstables : CompactorCleanup(f)
  <2>1. /\ UNCHANGED << cache, clock, flushPath, flushPc, compChan, compPc >>
        /\ compPc = "cleanup" /\ Len(cache) = 1
    BY <1>7 DEF CompactorCleanup, CacheInv, CleansAlone, tableVars, flushVars, compVars,
                chanVars
  <2>2. FileUnderway' = FileUnderway
    BY <2>1, QueuedFrame DEF FileUnderway
  <2>3. OnlyOldestLacksFile'
    BY <2>1 DEF OnlyOldestLacksFile, TypeOK
  <2> QED
    BY <2>1, <2>2, <2>3 DEF CacheInv, CacheNames, CleansAlone, CacheSortedByName
<1> QED
  BY <1>1, <1>2, <1>3, <1>4, <1>5, <1>6, <1>7, CacheLoad DEF Compactor

\* Every step keeps the cache in order and its files on disk.
LEMMA CacheStep ==
    ASSUME TypeOK, PipelineInv, CacheInv, [Next]_vars
    PROVE  CacheInv'
<1>1. CASE UNCHANGED vars \/ Quiescent
  <2>1. UNCHANGED << cache, clock, flushPath, flushPc, compChan, compPc, sstables >>
    BY <1>1 DEF Quiescent, vars, tableVars, flushVars, compVars, chanVars, diskVars
  <2> QED
    BY <2>1, CacheFrame, QueuedFrame DEF TypeOK, FileUnderway
<1>2. ASSUME NEW c \in Client,
             \/ \E k \in Key : Set(c, k) \/ Delete(c, k) \/ Get(c, k)
             \/ CallPoisoned(c) \/ RotateFails(c) \/ Cancel(c) \/ Call(c)
      PROVE  CacheInv'
  <2>1. /\ UNCHANGED << flushVars, compVars, compChan, ackChan, sstables, cache >>
        /\ clock' \in Nat /\ clock <= clock'
    BY <1>2, ClientFrame
  <2> QED
    BY <2>1, CacheFrame, QueuedFrame DEF FileUnderway, flushVars, compVars
<1> QED
  BY <1>1, <1>2, CacheFlusher, CacheCompactor DEF Next

\* The cache and its files stay in step with the names given.
THEOREM CacheInductive == Spec => []CacheInv
<1>1. Init => CacheInv
  BY DEF Init, CacheInv, CacheNames, CleansAlone, CacheSortedByName, OnlyOldestLacksFile
<1>2. TypeOK /\ PipelineInv /\ CacheInv /\ [Next]_vars => CacheInv'
  BY CacheStep
<1> QED
  BY <1>1, <1>2, Inductive, PTL DEF Spec

\* SSTableCache keeps its tables in descending order of file names, through
\* every flush, load, merge and failure: scan_directory rebuilds that order.
THEOREM CacheInNameOrder == Spec => []CacheSortedByName
<1>1. CacheInv => CacheSortedByName
  BY DEF CacheInv
<1> QED
  BY <1>1, CacheInductive, PTL

\* Every cached table but the oldest has its file on disk: cleanup() removes
\* no file a restart would need, except that of the compacted table itself.
THEOREM CachedFilesKept == Spec => []OnlyOldestLacksFile
<1>1. CacheInv => OnlyOldestLacksFile
  BY DEF CacheInv
<1> QED
  BY <1>1, CacheInductive, PTL
=============================================================================
