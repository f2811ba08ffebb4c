------------------------- MODULE LsmliteStoreProofs -------------------------
(***************************************************************************)
(* Proofs about the engine as a key-value store.  With one writer whose    *)
(* calls are not dropped while they hold a table, and while no merge runs, *)
(* the newest record of each key is the last one written, through every    *)
(* rotation, flush, load, pop and failure.                                 *)
(*                                                                         *)
(* The proof looks at a key layer by layer: the active table, the table in *)
(* the hands of a call, the queue, the cache.  Each layer has a record for *)
(* the key or lets the next one show through (Over), and each step of the  *)
(* engine moves a record from one layer to the next below.                 *)
(***************************************************************************)
EXTENDS LsmliteStore, LsmliteProofs, SequenceTheorems

----------------------------------------------------------------------------
(* One writer: the queue keeps the order of the rotations and the write    *)
(* retried after a rotation finds room.  Both fail with two writers, whose *)
(* rotations interleave.                                                   *)

\* One task calls set and delete.
OneWriter == \A a, b \in Writers : a = b

\* A table can hold a record at all.
TablesHoldRecords == MaxNodes # 0 /\ MaxSize # 0

\* Only a writer's call rotates.
WriterRotates ==
    \A c \in Client : pc[c] \in {"rotate", "push", "signal", "retry"} => c \in Writers

\* The queue is in the order of the rotations, and the table in the hands of
\* the call is newer than every table of the queue.
RotationOrder ==
    /\ QueueOrdered
    /\ \A c \in Client, i \in DOMAIN immutable :
        held[c] # Absent => immutable[i].wal < held[c].wal

\* From the rotation to the retry nobody writes to the fresh table.
FreshForRetry ==
    \A c \in Client :
        pc[c] \in {"push", "signal", "retry"} => Nodes(memtable) = {} /\ memtable.size = 0

\* The inductive invariant of an engine with one writer.
WriterInv == WriterRotates /\ RotationOrder /\ FreshForRetry

----------------------------------------------------------------------------
\* A fresh table has room.
LEMMA FreshHasRoom ==
    ASSUME TablesHoldRecords, NEW t, Nodes(t) = {}, t.size = 0
    PROVE  ~full(t)
<1>1. Cardinality({}) = 0
  BY FS_EmptySet
<1>2. MaxNodes # 0 /\ ~(0 >= MaxSize)
  BY TableAssumption DEF TablesHoldRecords
<1> QED
  BY <1>1, <1>2 DEF full

\* A new table is fresh.
LEMMA NewTableFresh ==
    ASSUME NEW ts
    PROVE  Nodes(NewTable(ts)) = {} /\ NewTable(ts).size = 0
BY DEF Nodes, NewTable

\* With one writer at most one call is between rotation and retry, and none
\* while a write begins.
LEMMA OneRotation ==
    ASSUME OneWriter, WriterRotates, NEW c \in Client, NEW d \in Client, c \in Writers,
           pc[d] \in {"rotate", "push", "signal", "retry"}
    PROVE  d = c
BY DEF OneWriter, WriterRotates

\* WriterInv depends on these variables only, and on the calls only in so far
\* as they reach one of the steps of a rotation.
LEMMA WriterFrame ==
    ASSUME WriterInv, UNCHANGED << memtable, immutable, held >>,
           \A c \in Client :
                pc'[c] \in {"rotate", "push", "signal", "retry"} =>
                    \/ pc'[c] = pc[c]
                    \/ pc'[c] = "rotate" /\ c \in Writers
                    \/ pc'[c] = "retry" /\ pc[c] = "signal"
    PROVE  WriterInv'
<1>1. WriterRotates'
  BY DEF WriterInv, WriterRotates
<1>2. RotationOrder'
  BY DEF WriterInv, RotationOrder, QueueOrdered
<1>3. Nodes(memtable)' = Nodes(memtable)
  BY DEF Nodes
<1>4. FreshForRetry'
  BY <1>3 DEF WriterInv, FreshForRetry
<1> QED
  BY <1>1, <1>2, <1>4 DEF WriterInv

\* A set or delete.  Nobody is between rotation and retry.
LEMMA WriterWrite ==
    ASSUME OneWriter, TypeOK, WriterInv, NEW c \in Client, NEW e \in Entry, Write(c, e)
    PROVE  WriterInv'
<1>1. c \in Writers /\ pc[c] = "idle" /\ UNCHANGED << immutable, held >>
  BY DEF Write, MayCall
<1>2. CASE full(memtable) /\ pc' = [pc EXCEPT ![c] = "rotate"] /\ UNCHANGED memtable
  BY <1>1, <1>2, WriterFrame DEF TypeOK
<1>3. CASE UNCHANGED pc
  <2>1. \A d \in Client : pc[d] \notin {"rotate", "push", "signal", "retry"}
    BY <1>1, OneRotation DEF WriterInv
  <2> QED
    BY <1>1, <1>3, <2>1
    DEF WriterInv, WriterRotates, FreshForRetry, RotationOrder, QueueOrdered
<1> QED
  BY <1>2, <1>3 DEF Write

\* The retry: the one call that was between rotation and retry ends.
LEMMA WriterRetry ==
    ASSUME OneWriter, TypeOK, WriterInv, NEW c \in Client, Retry(c)
    PROVE  WriterInv'
<1>1. pc[c] = "retry" /\ pc' = [pc EXCEPT ![c] = "idle"] /\ UNCHANGED << immutable, held >>
  BY DEF Retry
<1>2. c \in Writers
  BY <1>1 DEF WriterInv, WriterRotates
<1>3. \A d \in Client : pc'[d] \notin {"rotate", "push", "signal", "retry"}
  BY <1>1, <1>2, OneRotation DEF WriterInv, TypeOK
<1> QED
  BY <1>1, <1>3 DEF WriterInv, WriterRotates, FreshForRetry, RotationOrder, QueueOrdered

\* A rotation leaves a fresh table and takes one newer than the queue's.
LEMMA WriterRotate ==
    ASSUME OneWriter, TypeOK, LogInv, WriterInv, NEW c \in Client, Rotate(c)
    PROVE  WriterInv'
<1>1. /\ pc[c] = "rotate" /\ memtable' = NewTable(clock + 1)
      /\ held' = [held EXCEPT ![c] = memtable]
      /\ pc' = [pc EXCEPT ![c] = "push"]
      /\ UNCHANGED immutable
  BY DEF Rotate
<1>2. c \in Writers
  BY <1>1 DEF WriterInv, WriterRotates
<1>3. \A d \in Client : held'[d] = IF d = c THEN memtable ELSE held[d]
  BY <1>1 DEF TypeOK
<1>4. WriterRotates'
  BY <1>1, <1>2 DEF WriterInv, WriterRotates, TypeOK
<1>5. RotationOrder'
  <2>1. \A i \in DOMAIN immutable : immutable[i].wal < memtable.wal
    BY DEF LogInv, LogNames
  <2> QED
    BY <1>1, <1>3, <2>1 DEF WriterInv, RotationOrder, QueueOrdered
<1>6. Nodes(memtable') = {} /\ memtable'.size = 0
  BY <1>1, NewTableFresh
<1>7. FreshForRetry'
  BY <1>6 DEF FreshForRetry, Nodes
<1> QED
  BY <1>4, <1>5, <1>7 DEF WriterInv

\* A push: the newest table goes to the end of the queue.
LEMMA WriterPush ==
    ASSUME OneWriter, TypeOK, PipelineInv, LogInv, WriterInv, NEW c \in Client, Push(c)
    PROVE  WriterInv'
<1>1. /\ pc[c] = "push" /\ immutable' = Append(immutable, held[c])
      /\ held' = [held EXCEPT ![c] = Absent]
      /\ pc' = [pc EXCEPT ![c] = "signal"]
      /\ UNCHANGED memtable
  BY DEF Push, insert
<1>2. held[c] \in Table /\ held[c] # Absent
  BY <1>1, TableAssumption DEF PipelineInv, CallsCarry
<1>3. \A d \in Client : held'[d] = Absent
  <2> SUFFICES ASSUME NEW d \in Client, held'[d] # Absent PROVE FALSE
    OBVIOUS
  <2>1. d # c /\ held[d] # Absent
    BY <1>1 DEF TypeOK
  <2>2. pc[d] = "push" /\ c \in Writers
    BY <1>1, <2>1 DEF LogInv, HeldOnlyToPush, WriterInv, WriterRotates
  <2> QED
    BY <2>1, <2>2, OneRotation DEF WriterInv
<1>4. /\ DOMAIN immutable' = 1..(Len(immutable) + 1)
      /\ immutable'[Len(immutable) + 1] = held[c]
      /\ \A i \in DOMAIN immutable : immutable'[i] = immutable[i]
      /\ DOMAIN immutable = 1..Len(immutable) /\ Len(immutable) \in Nat
  BY <1>1, <1>2 DEF TypeOK
<1>5. QueueOrdered'
  <2> SUFFICES ASSUME NEW i \in DOMAIN immutable', NEW j \in DOMAIN immutable', i < j
               PROVE  immutable'[i].wal < immutable'[j].wal
    BY DEF QueueOrdered
  <2>1. i \in DOMAIN immutable /\ immutable'[i] = immutable[i]
    BY <1>4
  <2>2. CASE j \in DOMAIN immutable
    BY <1>4, <2>1, <2>2 DEF WriterInv, RotationOrder, QueueOrdered
  <2>3. CASE j = Len(immutable) + 1
    BY <1>2, <1>4, <2>1, <2>3 DEF WriterInv, RotationOrder
  <2> QED
    BY <1>4, <2>2, <2>3
<1>6. RotationOrder'
  BY <1>3, <1>5 DEF RotationOrder
<1>7. WriterRotates'
  BY <1>1 DEF WriterInv, WriterRotates, TypeOK
<1>8. FreshForRetry'
  BY <1>1 DEF WriterInv, FreshForRetry, TypeOK, Nodes
<1> QED
  BY <1>6, <1>7, <1>8 DEF WriterInv

\* The pop: the rest of the queue keeps its order.
LEMMA WriterPop ==
    ASSUME TypeOK, PipelineInv, WriterInv, CompactorPop
    PROVE  WriterInv'
<1>1. /\ compPc = "pop" /\ immutable' = pop(immutable) /\ UNCHANGED << memtable, held, pc >>
  BY DEF CompactorPop, clientVars
<1>2. immutable # << >> /\ immutable \in Seq(Table)
  BY <1>1, FrontExists DEF InFlight, TypeOK
<1>3. /\ DOMAIN immutable' = 1..(Len(immutable) - 1) /\ Len(immutable) \in Nat
      /\ \A i \in DOMAIN immutable' :
            i + 1 \in DOMAIN immutable /\ immutable'[i] = immutable[i + 1]
  BY <1>1, <1>2 DEF pop
<1>4. QueueOrdered'
  BY <1>3 DEF WriterInv, RotationOrder, QueueOrdered
<1>5. RotationOrder'
  BY <1>1, <1>3, <1>4 DEF WriterInv, RotationOrder
<1>6. WriterRotates' /\ FreshForRetry'
  BY <1>1 DEF WriterInv, WriterRotates, FreshForRetry, Nodes
<1> QED
  BY <1>5, <1>6 DEF WriterInv

\* The calls that move no table, and a call that is dropped.
LEMMA WriterCall ==
    ASSUME TypeOK, WriterInv, NEW c \in Client,
           \/ \E k \in Key : Get(c, k)
           \/ CallPoisoned(c) \/ RotateFails(c) \/ Signal(c) \/ SignalClosed(c)
           \/ GetImmutable(c) \/ GetSSTable(c) \/ Return(c)
    PROVE  WriterInv'
<1>1. /\ UNCHANGED << memtable, immutable, held >>
      /\ \E s \in ClientStates :
            /\ pc' = [pc EXCEPT ![c] = s]
            /\ s \in {"rotate", "push", "signal", "retry"} => s = "retry" /\ pc[c] = "signal"
  BY DEF Get, CallPoisoned, RotateFails, Signal, SignalClosed, GetImmutable, GetSSTable,
         Return, Answer, ClientStates, tableVars
<1> QED
  BY <1>1, WriterFrame DEF TypeOK

LEMMA WriterCancel ==
    ASSUME TypeOK, WriterInv, NEW c \in Client, Cancel(c)
    PROVE  WriterInv'
<1>1. /\ UNCHANGED << memtable, immutable >> /\ pc' = [pc EXCEPT ![c] = "idle"]
      /\ held' = [held EXCEPT ![c] = Absent]
  BY DEF Cancel, tableVars
<1>2. \A d \in Client : held'[d] # Absent => held'[d] = held[d]
  BY <1>1 DEF TypeOK
<1>3. RotationOrder'
  BY <1>1, <1>2 DEF WriterInv, RotationOrder, QueueOrdered
<1>4. WriterRotates' /\ FreshForRetry'
  BY <1>1 DEF WriterInv, WriterRotates, FreshForRetry, Nodes, TypeOK
<1> QED
  BY <1>3, <1>4 DEF WriterInv

\* What the background tasks and the drop do not touch, the pop apart.
LEMMA TasksFrame ==
    ASSUME \/ Flusher \/ FlushCreateFails \/ FlushFails
           \/ Compactor \/ CompactorFails
           \/ DropSignalCompactor \/ DropSignalFlusher \/ DropInTask
    PROVE  /\ UNCHANGED << clientVars, memtable, histVars >>
           /\ CompactorPop \/ UNCHANGED immutable
<1>1. CASE Flusher \/ FlushCreateFails \/ FlushFails
  BY <1>1 DEF Flusher, FlushRecv, FlushShutdown, FlushRecvClosed, FlushFront, FlushWrite,
       FlushUnlink, FlushLoad, FlushAck, FlushAckClosed, FlushCreateFails, FlushFails, tableVars
<1>2. CASE Compactor \/ CompactorFails
  BY <1>2 DEF Compactor, CompactorLoad, CompactorShutdown, CompactorRecvClosed, CompactorPop,
       CompactorCreate, CompactorFinish, CompactorReplace, CompactorCleanup, CompactorCleaned,
       CompactorAck, CompactorFails, tableVars
<1>3. CASE DropSignalCompactor \/ DropSignalFlusher \/ DropInTask
  BY <1>3 DEF DropSignalCompactor, DropSignalFlusher, DropInTask, tableVars
<1> QED
  BY <1>1, <1>2, <1>3

\* Every step keeps the order of the rotations and the room for the retry.
LEMMA WriterStep ==
    ASSUME OneWriter, TypeOK, PipelineInv, LogInv, WriterInv, [Next]_vars
    PROVE  WriterInv'
<1>1. CASE UNCHANGED vars \/ Quiescent
  <2>1. UNCHANGED << memtable, immutable, held, pc >>
    BY <1>1 DEF Quiescent, vars, clientVars, tableVars
  <2> QED
    BY <2>1, WriterFrame
<1>2. ASSUME NEW c \in Client,
             \/ \E k \in Key : Set(c, k) \/ Delete(c, k) \/ Get(c, k)
             \/ CallPoisoned(c) \/ RotateFails(c) \/ Cancel(c) \/ Call(c)
      PROVE  WriterInv'
  <2>1. ASSUME NEW k \in Key, Set(c, k) \/ Delete(c, k) PROVE WriterInv'
    BY <2>1, WriteEntries, WriterWrite DEF Set, Delete
  <2> QED
    BY <1>2, <2>1, WriterCall, WriterRetry, WriterRotate, WriterPush, WriterCancel DEF Call
<1>3. CASE \/ Flusher \/ FlushCreateFails \/ FlushFails
           \/ Compactor \/ CompactorFails
           \/ DropSignalCompactor \/ DropSignalFlusher \/ DropInTask
  <2>1. UNCHANGED << memtable, held, pc >> /\ (CompactorPop \/ UNCHANGED immutable)
    BY <1>3, TasksFrame DEF clientVars
  <2> QED
    BY <2>1, WriterPop, WriterFrame
<1> QED
  BY <1>1, <1>2, <1>3 DEF Next

\* Nothing is rotated at the start.
LEMMA WriterInit == Init => WriterInv
BY DEF Init, WriterInv, WriterRotates, RotationOrder, QueueOrdered, FreshForRetry

\* One writer's rotations stay in order and its retries find room.
THEOREM WriterInductive ==
    ASSUME OneWriter
    PROVE  Spec => []WriterInv
<1>1. TypeOK /\ PipelineInv /\ LogInv /\ WriterInv /\ [Next]_vars => WriterInv'
  BY WriterStep
<1> QED
  BY <1>1, WriterInit, Inductive, LogInductive, PTL DEF Spec

\* With one writer the queue of immutable memtables is in the order of the
\* rotations, which get() and the order of the SSTables rely on.
THEOREM QueueInRotationOrder ==
    ASSUME OneWriter
    PROVE  Spec => []QueueOrdered
<1>1. WriterInv => QueueOrdered
  BY DEF WriterInv, RotationOrder
<1> QED
  BY <1>1, WriterInductive, PTL

\* With one writer no acknowledged write is thrown away: the second insertion,
\* whose result set() and delete() ignore, always finds room.
THEOREM RetriesFindRoom ==
    ASSUME OneWriter, TablesHoldRecords
    PROVE  Spec => []RetryFindsRoom
<1>1. Init => RetryFindsRoom
  BY DEF Init, RetryFindsRoom
<1>2. ASSUME TypeOK, WriterInv, RetryFindsRoom, [Next]_vars
      PROVE  RetryFindsRoom'
  <2>1. CASE UNCHANGED vars \/ Quiescent
    BY <1>2, <2>1 DEF RetryFindsRoom, Quiescent, vars, histVars
  <2>2. ASSUME NEW c \in Client, Retry(c)
        PROVE  UNCHANGED lost
    <3>1. Nodes(memtable) = {} /\ memtable.size = 0
      BY <1>2, <2>2 DEF Retry, WriterInv, FreshForRetry
    <3>2. ~full(memtable)
      BY <3>1, FreshHasRoom
    <3> QED
      BY <2>2, <3>2 DEF Retry
  <2>3. ASSUME NEW c \in Client,
               \/ \E k \in Key : Set(c, k) \/ Delete(c, k) \/ Get(c, k)
               \/ CallPoisoned(c) \/ RotateFails(c) \/ Cancel(c) \/ Call(c)
        PROVE  UNCHANGED lost
    BY <2>2, <2>3 DEF Call, Set, Delete, Write, Get, CallPoisoned, RotateFails, Cancel, Rotate,
         Push, Signal, SignalClosed, GetImmutable, GetSSTable, Return, histVars
  <2>4. CASE \/ Flusher \/ FlushCreateFails \/ FlushFails
             \/ Compactor \/ CompactorFails
             \/ DropSignalCompactor \/ DropSignalFlusher \/ DropInTask
    BY <1>2, <2>4, TasksFrame DEF RetryFindsRoom, histVars
  <2> QED
    BY <1>2, <2>1, <2>3, <2>4 DEF Next, RetryFindsRoom
<1> QED
  BY <1>1, <1>2, WriterInductive, Inductive, PTL DEF Spec

----------------------------------------------------------------------------
(* The layers a key is looked up in.                                       *)

\* The first record for the key in a sequence of blocks, newest block first.
First(blocks, k) ==
    LET i == SelectInSeq(blocks, LAMBDA b : b[k] # Absent)
    IN  IF i = 0 THEN Absent ELSE blocks[i][k]

\* A record, or what lies under it where there is none.
Over(a, b) == IF a # Absent THEN a ELSE b

\* What a record says to a caller.
Plain(d) == IF d = Tombstone THEN Absent ELSE d

\* The blocks of some tables.
BlocksOf(tables) == [i \in DOMAIN tables |-> write_sstable(tables[i])]

\* InTransit, of what the calls hold.
TransitOf(h) ==
    LET tables == {h[c] : c \in Client} \ {Absent}
    IN  CHOOSE s \in [1..Cardinality(tables) -> tables] :
            \A i, j \in DOMAIN s : i < j => s[i].wal > s[j].wal

\* The blocks of cached SSTables.
DataOf(tables) == [i \in DOMAIN tables |-> tables[i].data]

\* What each layer has for a key.
Active(k) == write_sstable(memtable)[k]

Moving(k) == First(BlocksOf(TransitOf(held)), k)

Queued(k) == First(BlocksOf(Reverse(immutable)), k)

Cached(k) == First(DataOf(cache), k)

Newest(k) == Over(Active(k), Over(Moving(k), Over(Queued(k), Cached(k))))

----------------------------------------------------------------------------
(* Layers.                                                                 *)

\* The first record is that of the first block that has one.
LEMMA FirstAt ==
    ASSUME NEW b \in Seq(Block), NEW k \in Key
    PROVE  \/ /\ \A i \in 1..Len(b) : b[i][k] = Absent
              /\ First(b, k) = Absent
           \/ \E i \in 1..Len(b) :
                /\ b[i][k] # Absent
                /\ \A j \in 1..Len(b) : j < i => b[j][k] = Absent
                /\ First(b, k) = b[i][k]
<1> DEFINE I == {i \in 1..Len(b) : b[i][k] # Absent}
<1>1. CASE I = {}
  BY <1>1 DEF First, SelectInSeq
<1>2. CASE I # {}
  <2>1. Min(I) \in I /\ \A j \in I : Min(I) <= j
    <3>1. I \in SUBSET Nat
      OBVIOUS
    <3> HIDE DEF I
    <3> QED
      BY <1>2, <3>1, MinExists
  <2>2. First(b, k) = b[Min(I)][k]
    BY <1>2, <2>1 DEF First, SelectInSeq
  <2>3. PICK i \in 1..Len(b) : i = Min(I) /\ b[i][k] # Absent
    BY <2>1
  <2>4. \A j \in 1..Len(b) : b[j][k] # Absent => i <= j
    BY <2>1, <2>3
  <2>5. \A j \in 1..Len(b) : j < i => b[j][k] = Absent
    BY <2>4
  <2>6. First(b, k) = b[i][k]
    BY <2>2, <2>3
  <2> QED
    BY <2>3, <2>5, <2>6
<1> QED
  BY <1>1, <1>2

\* SSTableCache::search returns the first record, nothing for a tombstone.
LEMMA SearchFirst ==
    ASSUME NEW b \in Seq(Block), NEW k \in Key
    PROVE  search(b, k) = Plain(First(b, k))
<1> DEFINE I == {i \in 1..Len(b) : b[i][k] # Absent}
<1>1. CASE I = {}
  BY <1>1, TableAssumption DEF First, SelectInSeq, search, Plain
<1>2. CASE I # {}
  <2>1. Min(I) \in 1..Len(b)
    BY <1>2, MinExists
  <2> QED
    BY <1>2, <2>1 DEF First, SelectInSeq, search, Plain
<1> QED
  BY <1>1, <1>2

\* A sequence of blocks lies over the one appended to it.
LEMMA FirstConcat ==
    ASSUME NEW a \in Seq(Block), NEW b \in Seq(Block), NEW k \in Key
    PROVE  First(a \o b, k) = Over(First(a, k), First(b, k))
<1> DEFINE s == a \o b
<1>1. /\ s \in Seq(Block) /\ Len(s) = Len(a) + Len(b)
      /\ Len(a) \in Nat /\ Len(b) \in Nat
      /\ \A i \in 1..Len(a) : i \in 1..Len(s) /\ s[i] = a[i]
      /\ \A i \in 1..Len(b) : Len(a) + i \in 1..Len(s) /\ s[Len(a) + i] = b[i]
      /\ \A i \in 1..Len(s) : i \notin 1..Len(a) =>
            i - Len(a) \in 1..Len(b) /\ s[i] = b[i - Len(a)]
  OBVIOUS
<1> HIDE DEF s
<1>2. CASE \E i \in 1..Len(a) : a[i][k] # Absent
  <2>1. PICK i \in 1..Len(a) :
          /\ a[i][k] # Absent
          /\ \A j \in 1..Len(a) : j < i => a[j][k] = Absent
          /\ First(a, k) = a[i][k]
    BY <1>2, FirstAt
  <2>2. PICK n \in 1..Len(s) :
          /\ s[n][k] # Absent
          /\ \A j \in 1..Len(s) : j < n => s[j][k] = Absent
          /\ First(s, k) = s[n][k]
    <3>1. i \in 1..Len(s) /\ s[i][k] # Absent
      BY <1>1, <2>1
    <3> QED
      BY <1>1, <3>1, FirstAt
  <2>3. n = i
    <3>1. n <= i
      BY <1>1, <2>1, <2>2
    <3>2. n \in 1..Len(a) /\ s[n] = a[n]
      BY <1>1, <3>1
    <3> QED
      BY <1>1, <2>1, <2>2, <3>1, <3>2
  <2> QED
    BY <1>1, <2>1, <2>2, <2>3 DEF Over, s
<1>3. CASE \A i \in 1..Len(a) : a[i][k] = Absent
  <2>0. First(a, k) = Absent
    BY <1>3, FirstAt
  <2>1. CASE \E i \in 1..Len(b) : b[i][k] # Absent
    <3>1. PICK i \in 1..Len(b) :
            /\ b[i][k] # Absent
            /\ \A j \in 1..Len(b) : j < i => b[j][k] = Absent
            /\ First(b, k) = b[i][k]
      BY <2>1, FirstAt
    <3>2. PICK n \in 1..Len(s) :
            /\ s[n][k] # Absent
            /\ \A j \in 1..Len(s) : j < n => s[j][k] = Absent
            /\ First(s, k) = s[n][k]
      <4>1. Len(a) + i \in 1..Len(s) /\ s[Len(a) + i][k] # Absent
        BY <1>1, <3>1
      <4> QED
        BY <1>1, <4>1, FirstAt
    <3>3. n - Len(a) \in 1..Len(b) /\ s[n] = b[n - Len(a)]
      BY <1>1, <1>3, <3>2
    <3>4. n = Len(a) + i
      <4>1. ~(n < Len(a) + i)
        BY <1>1, <3>1, <3>2, <3>3
      <4>2. ~(n > Len(a) + i)
        BY <1>1, <3>1, <3>2
      <4> QED
        BY <1>1, <4>1, <4>2
    <3> QED
      BY <1>1, <2>0, <3>1, <3>2, <3>4 DEF Over, s
  <2>2. CASE \A i \in 1..Len(b) : b[i][k] = Absent
    <3>1. ASSUME NEW i \in 1..Len(s) PROVE s[i][k] = Absent
      <4>1. CASE i \in 1..Len(a)
        BY <1>1, <1>3, <4>1
      <4>2. CASE i \notin 1..Len(a)
        <5>1. i - Len(a) \in 1..Len(b) /\ s[i] = b[i - Len(a)]
          BY <1>1, <4>2
        <5> QED
          BY <2>2, <5>1
      <4> QED
        BY <4>1, <4>2
    <3> QED
      BY <1>1, <2>0, <2>2, <3>1, FirstAt DEF Over, s
  <2> QED
    BY <2>1, <2>2
<1> QED
  BY <1>2, <1>3

\* One block.
LEMMA FirstOne ==
    ASSUME NEW x \in Block, NEW k \in Key
    PROVE  First(<< x >>, k) = x[k]
<1> DEFINE s == << x >>
<1>1. s \in Seq(Block) /\ Len(s) = 1 /\ s[1] = x /\ 1..1 = {1}
  OBVIOUS
<1> HIDE DEF s
<1>2. First(s, k) = x[k]
  BY <1>1, FirstAt
<1> QED
  BY <1>2 DEF s

\* No block.
LEMMA FirstNone ==
    ASSUME NEW k \in Key
    PROVE  First(<< >>, k) = Absent
<1> DEFINE s == << >>
<1>1. s \in Seq(Block) /\ Len(s) = 0 /\ 1..0 = {}
  OBVIOUS
<1> HIDE DEF s
<1>2. First(s, k) = Absent
  BY <1>1, FirstAt
<1> QED
  BY <1>2 DEF s

\* The elements of a concatenation.
LEMMA ConcatAt ==
    ASSUME NEW S, NEW a \in Seq(S), NEW b \in Seq(S)
    PROVE  /\ a \o b \in Seq(S) /\ Len(a \o b) = Len(a) + Len(b)
           /\ Len(a) \in Nat /\ Len(b) \in Nat
           /\ \A i \in 1..Len(a) : (a \o b)[i] = a[i]
           /\ \A i \in 1..Len(a \o b) : i > Len(a) =>
                i - Len(a) \in 1..Len(b) /\ (a \o b)[i] = b[i - Len(a)]
OBVIOUS

LEMMA ConsAt ==
    ASSUME NEW S, NEW x \in S, NEW q \in Seq(S)
    PROVE  /\ << x >> \o q \in Seq(S) /\ Len(<< x >> \o q) = Len(q) + 1 /\ Len(q) \in Nat
           /\ (<< x >> \o q)[1] = x
           /\ \A i \in 1..(Len(q) + 1) : i > 1 =>
                i - 1 \in 1..Len(q) /\ (<< x >> \o q)[i] = q[i - 1]
OBVIOUS

\* The blocks of a sequence of tables.
LEMMA BlocksType ==
    ASSUME NEW q \in Seq(Table)
    PROVE  /\ BlocksOf(q) \in Seq(Block) /\ Len(BlocksOf(q)) = Len(q)
           /\ \A i \in 1..Len(q) : BlocksOf(q)[i] = write_sstable(q[i])
<1>1. DOMAIN q = 1..Len(q) /\ Len(q) \in Nat /\ \A i \in 1..Len(q) : q[i] \in Table
  OBVIOUS
<1>2. \A i \in 1..Len(q) : write_sstable(q[i]) \in Block
  BY <1>1, WriteSSTableType
<1> QED
  BY <1>1, <1>2 DEF BlocksOf

LEMMA BlocksConcat ==
    ASSUME NEW q \in Seq(Table), NEW r \in Seq(Table)
    PROVE  BlocksOf(q \o r) = BlocksOf(q) \o BlocksOf(r)
<1> DEFINE a == BlocksOf(q \o r)
           x == BlocksOf(q)
           y == BlocksOf(r)
           b == x \o y
<1>1. q \o r \in Seq(Table) /\ Len(q \o r) = Len(q) + Len(r) /\ Len(q) \in Nat /\ Len(r) \in Nat
  OBVIOUS
<1>2. a \in Seq(Block) /\ Len(a) = Len(q) + Len(r)
  BY <1>1, BlocksType
<1>b. x \in Seq(Block) /\ y \in Seq(Block) /\ Len(x) = Len(q) /\ Len(y) = Len(r)
  BY BlocksType
<1> HIDE DEF x, y
<1>g. b \in Seq(Block) /\ Len(b) = Len(x) + Len(y)
  BY <1>b, ConcatProperties, Zenon
<1>3. b \in Seq(Block) /\ Len(b) = Len(q) + Len(r)
  BY <1>b, <1>g
<1>c. /\ \A i \in 1..Len(q) : b[i] = x[i]
      /\ \A i \in 1..Len(b) : i > Len(q) => b[i] = y[i - Len(q)]
  BY <1>b, ConcatAt
<1>d. /\ \A i \in 1..Len(q) : x[i] = write_sstable(q[i])
      /\ \A i \in 1..Len(r) : y[i] = write_sstable(r[i])
  BY BlocksType DEF x, y
<1>e. \A i \in 1..Len(a) : a[i] = write_sstable((q \o r)[i])
  BY <1>1, <1>2, BlocksType
<1>f. /\ \A i \in 1..Len(q) : (q \o r)[i] = q[i]
      /\ \A i \in 1..Len(q \o r) : i > Len(q) =>
            i - Len(q) \in 1..Len(r) /\ (q \o r)[i] = r[i - Len(q)]
  BY ConcatAt
<1> HIDE DEF a, b
<1>4. ASSUME NEW i \in 1..Len(a) PROVE a[i] = b[i]
  <2>1. CASE i <= Len(q)
    BY <1>1, <1>2, <1>c, <1>d, <1>e, <1>f, <2>1
  <2>2. CASE i > Len(q)
    BY <1>1, <1>2, <1>3, <1>c, <1>d, <1>e, <1>f, <2>2
  <2> QED
    BY <1>1, <1>2, <2>1, <2>2
<1>5. a = b
  BY <1>2, <1>3, <1>4, SeqEqual
<1> QED
  BY <1>5 DEF a, b, x, y

\* The queue, newest table first, when a table joins it.
LEMMA ReverseAppend ==
    ASSUME NEW S, NEW q \in Seq(S), NEW t \in S
    PROVE  Reverse(Append(q, t)) = << t >> \o Reverse(q) /\ Reverse(q) \in Seq(S)
<1> DEFINE a == Reverse(Append(q, t))
           b == << t >> \o Reverse(q)
<1>1. Reverse(q) \in Seq(S) /\ Len(Reverse(q)) = Len(q) /\ Len(q) \in Nat
  BY DEF Reverse
<1>2. a \in Seq(S) /\ Len(a) = Len(q) + 1
  BY DEF Reverse
<1>3. b \in Seq(S) /\ Len(b) = Len(q) + 1
  BY <1>1
<1>4. ASSUME NEW i \in 1..Len(a) PROVE a[i] = b[i]
  <2>1. CASE i = 1
    BY <1>1, <1>2, <2>1 DEF Reverse
  <2>2. CASE i # 1
    <3>1. b[i] = Reverse(q)[i - 1] /\ i - 1 \in 1..Len(q)
      BY <1>1, <1>2, <2>2
    <3>2. Reverse(q)[i - 1] = q[Len(q) - (i - 1) + 1]
      BY <3>1 DEF Reverse
    <3>3. a[i] = q[Len(q) + 1 - i + 1]
      BY <1>1, <1>2, <2>2 DEF Reverse
    <3> QED
      BY <1>1, <3>1, <3>2, <3>3
  <2> QED
    BY <2>1, <2>2
<1> HIDE DEF a, b
<1>5. a = b
  BY <1>2, <1>3, <1>4, SeqEqual
<1> QED
  BY <1>1, <1>5 DEF a, b

\* The queue, newest table first, has the oldest one at the end.
LEMMA ReverseHead ==
    ASSUME NEW q \in Seq(Table), q # << >>
    PROVE  /\ Reverse(q) = Reverse(Tail(q)) \o << Head(q) >>
           /\ Reverse(q) \in Seq(Table) /\ Reverse(Tail(q)) \in Seq(Table) /\ Head(q) \in Table
<1> DEFINE a == Reverse(q)
           x == Reverse(Tail(q))
           h == << Head(q) >>
           b == x \o h
<1>0. Tail(q) \in Seq(Table) /\ Len(Tail(q)) = Len(q) - 1 /\ Head(q) \in Table
      /\ Len(q) \in Nat /\ Len(q) # 0 /\ Head(q) = q[1]
      /\ \A i \in 1..(Len(q) - 1) : Tail(q)[i] = q[i + 1]
  OBVIOUS
<1>1. a \in Seq(Table) /\ Len(a) = Len(q)
  BY DEF Reverse
<1>2. Reverse(Tail(q)) \in Seq(Table) /\ Len(Reverse(Tail(q))) = Len(q) - 1
  BY <1>0 DEF Reverse
<1>a. Len(q) \in Nat /\ Len(q) # 0
  BY <1>0
<1>b. x \in Seq(Table) /\ Len(x) = Len(q) - 1
  BY <1>2
<1>g. h \in Seq(Table) /\ Len(h) = 1 /\ h[1] = Head(q)
  BY <1>0
<1>c. \A i \in 1..(Len(q) - 1) : x[i] = Tail(q)[(Len(q) - 1) - i + 1]
  BY <1>0 DEF Reverse
<1>d. \A i \in 1..Len(q) : a[i] = q[Len(q) - i + 1]
  BY <1>0 DEF Reverse
<1> HIDE DEF x, h
<1>h. b \in Seq(Table) /\ Len(b) = Len(x) + Len(h)
  BY <1>b, <1>g, ConcatProperties, Zenon
<1>3. b \in Seq(Table) /\ Len(b) = Len(q)
  BY <1>a, <1>b, <1>g, <1>h
<1>e. /\ \A i \in 1..(Len(q) - 1) : b[i] = x[i]
      /\ \A i \in 1..Len(b) : i > Len(q) - 1 => b[i] = h[i - (Len(q) - 1)]
  BY <1>a, <1>b, <1>g, ConcatAt
<1> HIDE DEF a, b
<1>4. ASSUME NEW i \in 1..Len(a) PROVE a[i] = b[i]
  <2>1. CASE i = Len(q)
    BY <1>0, <1>1, <1>3, <1>g, <1>d, <1>e, <2>1
  <2>2. CASE i # Len(q)
    <3>1. i \in 1..(Len(q) - 1) /\ (Len(q) - 1) - i + 1 \in 1..(Len(q) - 1)
      BY <1>a, <1>1, <2>2
    <3> QED
      BY <1>0, <1>1, <1>c, <1>d, <1>e, <3>1
  <2> QED
    BY <2>1, <2>2
<1>5. a = b
  BY <1>1, <1>3, <1>4, SeqEqual
<1> QED
  BY <1>0, <1>1, <1>2, <1>5 DEF a, b, x, h

----------------------------------------------------------------------------
(* The table in the hands of a call.                                       *)

\* No call holds a table.
LEMMA TransitNone ==
    ASSUME NEW h, \A c \in Client : h[c] = Absent
    PROVE  TransitOf(h) = << >>
<1> DEFINE tables == {h[c] : c \in Client} \ {Absent}
           P(s) == \A i, j \in DOMAIN s : i < j => s[i].wal > s[j].wal
<1>1. tables = {} /\ Cardinality({}) = 0
  BY FS_EmptySet
<1>2. TransitOf(h) = CHOOSE s \in [1..0 -> {}] : P(s)
  BY <1>1 DEF TransitOf
<1>3. \E s \in [1..0 -> {}] : P(s)
  <2>1. << >> \in [1..0 -> {}] /\ P(<< >>)
    OBVIOUS
  <2> QED
    BY <2>1
<1>4. TransitOf(h) \in [1..0 -> {}]
  BY <1>2, <1>3
<1> QED
  BY <1>4

\* One call holds a table.
LEMMA TransitOne ==
    ASSUME NEW h, NEW c \in Client, h[c] \in Table,
           \A d \in Client : h[d] \in {Absent, h[c]}
    PROVE  TransitOf(h) = << h[c] >>
<1> DEFINE t == h[c]
           tables == {h[d] : d \in Client} \ {Absent}
           P(s) == \A i, j \in DOMAIN s : i < j => s[i].wal > s[j].wal
<1>0. t # Absent
  BY TableAssumption
<1>1. tables = {t} /\ Cardinality({t}) = 1
  BY <1>0, FS_Singleton
<1>2. TransitOf(h) = CHOOSE s \in [1..1 -> {t}] : P(s)
  BY <1>1 DEF TransitOf
<1>3. \E s \in [1..1 -> {t}] : P(s)
  <2> DEFINE f == [i \in 1..1 |-> t]
  <2>1. f \in [1..1 -> {t}]
    OBVIOUS
  <2>2. P(f)
    OBVIOUS
  <2> QED
    BY <2>1, <2>2
<1>4. TransitOf(h) \in [1..1 -> {t}]
  BY <1>2, <1>3
<1> HIDE DEF t
<1>5. TransitOf(h) \in Seq({t}) /\ Len(TransitOf(h)) = 1 /\ TransitOf(h)[1] = t
  <2> DEFINE s == TransitOf(h)
  <2> HIDE DEF s
  <2>1. s \in [1..1 -> {t}] /\ DOMAIN s = 1..1 /\ s[1] = t
    BY <1>4 DEF s
  <2>2. s \in Seq({t})
    BY <2>1, SeqDef
  <2> DEFINE n == Len(s)
  <2>3. n \in Nat /\ DOMAIN s = 1..n
    BY <2>2, LenProperties, Zenon
  <2>4. n = Len(s)
    OBVIOUS
  <2> HIDE DEF n
  <2>5. 1..n = 1..1
    BY <2>1, <2>3
  <2>6. 1 \in 1..n /\ (n \in 1..n => n \in 1..1)
    BY <2>5
  <2>7. n = 1
    BY <2>3, <2>6
  <2> QED
    BY <2>1, <2>2, <2>4, <2>7 DEF s
<1>6. << t >> \in Seq({t}) /\ Len(<< t >>) = 1 /\ << t >>[1] = t
  OBVIOUS
<1>7. TransitOf(h) = << t >>
  <2> DEFINE a == TransitOf(h)
             b == << t >>
  <2> HIDE DEF a, b
  <2>1. a \in Seq({t}) /\ b \in Seq({t}) /\ Len(a) = 1 /\ Len(b) = 1 /\ a[1] = b[1]
    BY <1>5, <1>6 DEF a, b
  <2>2. a = b
    BY <2>1, SeqEqual
  <2> QED
    BY <2>2 DEF a, b
<1> QED
  BY <1>7 DEF t

\* The layers of a store with one writer.
LEMMA Layers ==
    ASSUME TypeOK, OneWriter, LogInv, WriterInv
    PROVE  \/ /\ \A c \in Client : held[c] = Absent
              /\ TransitOf(held) = << >>
           \/ \E c \in Client :
                /\ pc[c] = "push" /\ held[c] \in Table /\ TransitOf(held) = << held[c] >>
                /\ \A d \in Client : d # c => held[d] = Absent
<1>1. CASE \A c \in Client : held[c] = Absent
  BY <1>1, TransitNone
<1>2. CASE \E c \in Client : held[c] # Absent
  <2>1. PICK c \in Client : held[c] # Absent
    BY <1>2
  <2>2. held[c] \in Table
    BY <2>1, TablesTyped
  <2>3. \A d \in Client : held[d] # Absent => pc[d] = "push" /\ d \in Writers
    BY DEF LogInv, HeldOnlyToPush, WriterInv, WriterRotates
  <2>4. \A d \in Client : d # c => held[d] = Absent
    BY <2>1, <2>3 DEF OneWriter
  <2>5. \A d \in Client : held[d] \in {Absent, held[c]}
    BY <2>4
  <2> QED
    BY <2>1, <2>2, <2>3, <2>4, <2>5, TransitOne
<1> QED
  BY <1>1, <1>2

\* The cache as search sees it, and when a table is pushed to its front.
LEMMA DataType ==
    ASSUME NEW q \in Seq(SSTable)
    PROVE  /\ DataOf(q) \in Seq(Block) /\ Len(DataOf(q)) = Len(q)
           /\ \A i \in 1..Len(q) : DataOf(q)[i] = q[i].data
<1>1. DOMAIN q = 1..Len(q) /\ Len(q) \in Nat /\ \A i \in 1..Len(q) : q[i] \in SSTable
  OBVIOUS
<1>2. \A i \in 1..Len(q) : q[i].data \in Block
  BY <1>1 DEF SSTable
<1> QED
  BY <1>1, <1>2 DEF DataOf

LEMMA DataPush ==
    ASSUME NEW q \in Seq(SSTable), NEW f \in SSTable
    PROVE  DataOf(<< f >> \o q) = << f.data >> \o DataOf(q)
<1> DEFINE u == << f >> \o q
           y == DataOf(q)
           b == << f.data >> \o y
           a == DataOf(u)
<1>0. f.data \in Block
  BY DEF SSTable
<1>1. /\ u \in Seq(SSTable) /\ Len(u) = Len(q) + 1 /\ Len(q) \in Nat /\ u[1] = f
      /\ \A i \in 1..(Len(q) + 1) : i > 1 => i - 1 \in 1..Len(q) /\ u[i] = q[i - 1]
  BY ConsAt
<1>2. y \in Seq(Block) /\ Len(y) = Len(q) /\ \A i \in 1..Len(q) : y[i] = q[i].data
  BY DataType
<1> HIDE DEF u, y
<1>3. /\ b \in Seq(Block) /\ Len(b) = Len(y) + 1 /\ b[1] = f.data
      /\ \A i \in 1..(Len(y) + 1) : i > 1 => b[i] = y[i - 1]
  BY <1>0, <1>2, ConsAt
<1>4. a \in Seq(Block) /\ Len(a) = Len(u) /\ \A i \in 1..Len(u) : a[i] = u[i].data
  BY <1>1, DataType
<1> HIDE DEF a, b
<1>5. ASSUME NEW i \in 1..Len(a) PROVE a[i] = b[i]
  <2>1. CASE i = 1
    BY <1>1, <1>3, <1>4, <2>1
  <2>2. CASE i > 1
    BY <1>1, <1>2, <1>3, <1>4, <2>2
  <2> QED
    BY <1>1, <1>4, <2>1, <2>2
<1>6. a = b
  BY <1>1, <1>2, <1>3, <1>4, <1>5, SeqEqual
<1> QED
  BY <1>6 DEF a, b, u, y

\* What the first table of a sequence says comes first.
LEMMA FirstHead ==
    ASSUME NEW b \in Seq(Block), NEW k \in Key, b # << >>, b[1][k] # Absent
    PROVE  First(b, k) = b[1][k]
<1>1. Len(b) \in Nat /\ Len(b) # 0 /\ 1 \in 1..Len(b)
  OBVIOUS
<1> QED
  BY <1>1, FirstAt

\* One table, and none.
LEMMA LayerOne ==
    ASSUME NEW t \in Table, NEW k \in Key
    PROVE  First(BlocksOf(<< t >>), k) = write_sstable(t)[k]
<1> DEFINE s == << t >>
           w == write_sstable(t)
<1>1. s \in Seq(Table) /\ Len(s) = 1 /\ s[1] = t /\ 1..1 = {1}
  OBVIOUS
<1> HIDE DEF s
<1>2. BlocksOf(s) \in Seq(Block) /\ Len(BlocksOf(s)) = 1 /\ BlocksOf(s)[1] = w
  BY <1>1, BlocksType
<1> HIDE DEF w
<1>3. First(BlocksOf(s), k) = w[k]
  BY <1>1, <1>2, FirstAt
<1> QED
  BY <1>3 DEF s, w

LEMMA LayerNone ==
    ASSUME NEW k \in Key
    PROVE  First(BlocksOf(<< >>), k) = Absent
<1> DEFINE s == << >>
<1>1. s \in Seq(Table) /\ Len(s) = 0 /\ 1..0 = {}
  OBVIOUS
<1> HIDE DEF s
<1>2. BlocksOf(s) \in Seq(Block) /\ Len(BlocksOf(s)) = 0
  BY <1>1, BlocksType
<1>3. First(BlocksOf(s), k) = Absent
  BY <1>1, <1>2, FirstAt
<1> QED
  BY <1>3 DEF s

\* Tables over tables.
LEMMA LayerConcat ==
    ASSUME NEW q \in Seq(Table), NEW r \in Seq(Table), NEW k \in Key
    PROVE  First(BlocksOf(q \o r), k) = Over(First(BlocksOf(q), k), First(BlocksOf(r), k))
<1>1. BlocksOf(q) \in Seq(Block) /\ BlocksOf(r) \in Seq(Block)
  BY BlocksType
<1>2. First(BlocksOf(q) \o BlocksOf(r), k) = Over(First(BlocksOf(q), k), First(BlocksOf(r), k))
  BY <1>1, FirstConcat
<1> QED
  BY <1>2, BlocksConcat

\* A table that joins the queue lies over it.
LEMMA QueuePush ==
    ASSUME NEW q \in Seq(Table), NEW t \in Table, NEW k \in Key
    PROVE  First(BlocksOf(Reverse(Append(q, t))), k) =
                Over(write_sstable(t)[k], First(BlocksOf(Reverse(q)), k))
<1> DEFINE r == Reverse(q)
           s == << t >>
<1>1. Reverse(Append(q, t)) = s \o r /\ r \in Seq(Table)
  BY ReverseAppend
<1>2. s \in Seq(Table)
  OBVIOUS
<1>3. First(BlocksOf(s), k) = write_sstable(t)[k]
  BY LayerOne
<1> HIDE DEF r, s
<1>4. First(BlocksOf(s \o r), k) = Over(First(BlocksOf(s), k), First(BlocksOf(r), k))
  BY <1>1, <1>2, LayerConcat
<1> QED
  BY <1>1, <1>3, <1>4 DEF r

\* The oldest table of the queue lies under the others.
LEMMA QueuePop ==
    ASSUME NEW q \in Seq(Table), q # << >>, NEW k \in Key
    PROVE  First(BlocksOf(Reverse(q)), k) =
                Over(First(BlocksOf(Reverse(Tail(q))), k), write_sstable(Head(q))[k])
<1> DEFINE r == Reverse(Tail(q))
           s == << Head(q) >>
<1>1. Reverse(q) = r \o s /\ r \in Seq(Table) /\ Head(q) \in Table
  BY ReverseHead
<1>2. s \in Seq(Table)
  BY <1>1
<1>3. First(BlocksOf(s), k) = write_sstable(Head(q))[k]
  BY <1>1, LayerOne
<1> HIDE DEF r, s
<1>4. First(BlocksOf(r \o s), k) = Over(First(BlocksOf(r), k), First(BlocksOf(s), k))
  BY <1>1, <1>2, LayerConcat
<1> QED
  BY <1>1, <1>3, <1>4 DEF r

\* A table pushed to the front of the cache lies over it.
LEMMA CachePush ==
    ASSUME NEW q \in Seq(SSTable), NEW f \in SSTable, NEW k \in Key
    PROVE  First(DataOf(<< f >> \o q), k) = Over(f.data[k], First(DataOf(q), k))
<1> DEFINE d == f.data
           s == << d >>
<1>0. d \in Block
  BY DEF SSTable
<1>1. DataOf(<< f >> \o q) = s \o DataOf(q) /\ DataOf(q) \in Seq(Block)
  BY DataPush, DataType
<1> HIDE DEF d
<1>2. s \in Seq(Block) /\ First(s, k) = d[k]
  BY <1>0, FirstOne
<1> HIDE DEF s
<1>3. First(s \o DataOf(q), k) = Over(First(s, k), First(DataOf(q), k))
  BY <1>1, <1>2, FirstConcat
<1> QED
  BY <1>1, <1>2, <1>3 DEF d

\* Layers are stacked in one order only.
LEMMA OverAssoc ==
    ASSUME NEW a, NEW b, NEW c
    PROVE  Over(Over(a, b), c) = Over(a, Over(b, c))
BY DEF Over

\* The engine's contents are what the layers show.
LEMMA ContentsLayers ==
    ASSUME TypeOK, TransitOf(held) \in Seq(Table), NEW k \in Key
    PROVE  Contents[k] = Plain(Newest(k))
<1> DEFINE m == << memtable >>
           h == TransitOf(held)
           r == Reverse(immutable)
           d == DataOf(cache)
<1>1. m \in Seq(Table) /\ First(BlocksOf(m), k) = Active(k)
  BY LayerOne DEF TypeOK, Active
<1>2. h \in Seq(Table)
  OBVIOUS
<1>3. r \in Seq(Table)
  BY DEF Reverse, TypeOK
<1>4. d \in Seq(Block)
  BY DataType DEF TypeOK
<1>5. Blocks = BlocksOf((m \o h) \o r) \o d
  BY DEF Blocks, InTransit, TransitOf, BlocksOf, DataOf
<1>6. Active(k) = First(BlocksOf(m), k) /\ Moving(k) = First(BlocksOf(h), k)
      /\ Queued(k) = First(BlocksOf(r), k) /\ Cached(k) = First(d, k)
  BY <1>1 DEF Moving, Queued, Cached
<1> HIDE DEF m, h, r, d
<1>7. m \o h \in Seq(Table) /\ (m \o h) \o r \in Seq(Table)
  BY <1>1, <1>2, <1>3
<1>8. First(BlocksOf((m \o h) \o r), k) = Over(Over(Active(k), Moving(k)), Queued(k))
  <2>1. First(BlocksOf(m \o h), k) = Over(First(BlocksOf(m), k), First(BlocksOf(h), k))
    BY <1>1, <1>2, LayerConcat
  <2>2. First(BlocksOf((m \o h) \o r), k) = Over(First(BlocksOf(m \o h), k), First(BlocksOf(r), k))
    BY <1>3, <1>7, LayerConcat
  <2> QED
    BY <1>6, <2>1, <2>2
<1>9. BlocksOf((m \o h) \o r) \in Seq(Block)
  BY <1>7, BlocksType
<1> DEFINE b == BlocksOf((m \o h) \o r)
<1> HIDE DEF b
<1>10. First(b \o d, k) = Over(First(b, k), First(d, k)) /\ b \o d \in Seq(Block)
  BY <1>4, <1>9, FirstConcat DEF b
<1>11. First(Blocks, k) = Newest(k)
  BY <1>5, <1>6, <1>8, <1>10, OverAssoc DEF b, Newest
<1>12. search(Blocks, k) = Plain(First(Blocks, k))
  BY <1>5, <1>10, SearchFirst DEF b
<1> QED
  BY <1>11, <1>12 DEF Contents

LEMMA ContentsNewest ==
    ASSUME TypeOK, OneWriter, LogInv, WriterInv, NEW k \in Key
    PROVE  Contents[k] = Plain(Newest(k))
<1> DEFINE h == TransitOf(held)
<1>1. h = << >> \/ \E t \in Table : h = << t >>
  BY Layers
<1>2. << >> \in Seq(Table) /\ \A t \in Table : << t >> \in Seq(Table)
  OBVIOUS
<1>3. h \in Seq(Table)
  <2> HIDE DEF h
  <2> QED
    BY <1>1, <1>2
<1> QED
  BY <1>3, ContentsLayers

----------------------------------------------------------------------------
(* The steps.                                                              *)

\* The newest record of each key is the last one written.
NewestIsStore == \A k \in Key : store[k] = Plain(Newest(k))

\* No merge has been written and waits to replace the tables of the cache.
NoMerge == compPc # "replace"

\* A write puts its record on top.
LEMMA InsertLayers ==
    ASSUME TypeOK, NEW e \in Entry, Insert(e), UNCHANGED << held, immutable, cache >>,
           NEW k \in Key
    PROVE  /\ Active(k)' = IF k = e.key THEN e.datum ELSE Active(k)
           /\ Moving(k)' = Moving(k) /\ Queued(k)' = Queued(k) /\ Cached(k)' = Cached(k)
           /\ e.key \in Key /\ e.datum # Absent
           /\ store'[k] = IF k = e.key THEN Plain(e.datum) ELSE store[k]
<1>1. PICK due \in NeedsFlush : memtable' = insert_node(write_log(memtable, e, due), e)
  BY DEF Insert
<1>2. due \in BOOLEAN /\ memtable \in Table
  BY LsmliteAssumption DEF TypeOK
<1>3. e.key \in Key /\ e.datum # Absent
  BY TableAssumption DEF Entry, Datum
<1>4. write_sstable(memtable') = [write_sstable(memtable) EXCEPT ![e.key] = e.datum]
  BY <1>1, <1>2, InsertBlock
<1>5. write_sstable(memtable) \in Block
  BY <1>2, WriteSSTableType
<1>6. store' = [store EXCEPT ![e.key] = Plain(e.datum)] /\ store \in [Key -> Value \cup {Absent}]
  BY DEF Insert, Plain, TypeOK
<1>7. Moving(k)' = Moving(k) /\ Queued(k)' = Queued(k) /\ Cached(k)' = Cached(k)
  BY DEF Moving, Queued, Cached
<1>8. Active(k)' = IF k = e.key THEN e.datum ELSE Active(k)
  BY <1>3, <1>4, <1>5 DEF Active, Block
<1> QED
  BY <1>3, <1>6, <1>7, <1>8

LEMMA StoreInsert ==
    ASSUME TypeOK, NewestIsStore, NEW e \in Entry, Insert(e),
           UNCHANGED << held, immutable, cache >>
    PROVE  NewestIsStore'
<1> SUFFICES ASSUME NEW k \in Key PROVE store'[k] = Plain(Newest(k)')
  BY DEF NewestIsStore, Plain
<1>1. CASE k = e.key
  BY <1>1, InsertLayers DEF Newest, Over
<1>2. CASE k # e.key
  BY <1>2, InsertLayers DEF Newest, NewestIsStore
<1> QED
  BY <1>1, <1>2

\* The steps that move no table.
LEMMA LayersFrame ==
    ASSUME UNCHANGED << memtable, held, immutable, cache >>, NEW k
    PROVE  /\ Active(k)' = Active(k) /\ Moving(k)' = Moving(k)
           /\ Queued(k)' = Queued(k) /\ Cached(k)' = Cached(k)
BY DEF Active, Moving, Queued, Cached

\* Layers that show the same keep the store.
LEMMA StoreMoved ==
    ASSUME NewestIsStore, UNCHANGED store, \A k \in Key : Newest(k)' = Newest(k)
    PROVE  NewestIsStore'
BY DEF NewestIsStore, Plain

LEMMA StoreFrame ==
    ASSUME NewestIsStore, UNCHANGED << memtable, held, immutable, cache, store >>
    PROVE  NewestIsStore'
<1>1. \A k \in Key : Newest(k)' = Newest(k)
  BY LayersFrame DEF Newest
<1> QED
  BY <1>1, StoreMoved

\* A rotation: the active table is now the one in the hands of the call.
LEMMA RotateLayers ==
    ASSUME TypeOK, OneWriter, LogInv, WriterInv, NEW c \in Client, Rotate(c), NEW k \in Key
    PROVE  /\ Moving(k) = Absent /\ Moving(k)' = Active(k) /\ Active(k)' = Absent
           /\ Queued(k)' = Queued(k) /\ Cached(k)' = Cached(k)
<1>1. /\ pc[c] = "rotate" /\ memtable' = NewTable(clock + 1)
      /\ held' = [held EXCEPT ![c] = memtable]
      /\ UNCHANGED << immutable, cache >>
  BY DEF Rotate
<1>2. c \in Writers
  BY <1>1 DEF WriterInv, WriterRotates
<1>3. \A d \in Client : held[d] = Absent
  BY <1>1, <1>2 DEF LogInv, HeldOnlyToPush, WriterInv, WriterRotates, OneWriter
<1>4. memtable \in Table /\ held'[c] = memtable /\ \A d \in Client : held'[d] \in {Absent, held'[c]}
  BY <1>1, <1>3 DEF TypeOK
<1>5. TransitOf(held) = << >>
  BY <1>3, TransitNone
<1>6. TransitOf(held') = << memtable >>
  BY <1>4, TransitOne
<1>7. Moving(k) = Absent
  BY <1>5, LayerNone DEF Moving
<1>8. Moving(k)' = Active(k)
  BY <1>4, <1>6, LayerOne DEF Moving, Active
<1>9. Active(k)' = Absent
  BY <1>1 DEF Active, NewTable, write_sstable
<1>10. Queued(k)' = Queued(k) /\ Cached(k)' = Cached(k)
  BY <1>1 DEF Queued, Cached
<1> QED
  BY <1>7, <1>8, <1>9, <1>10

LEMMA StoreRotate ==
    ASSUME TypeOK, OneWriter, LogInv, WriterInv, NewestIsStore, NEW c \in Client, Rotate(c)
    PROVE  NewestIsStore'
<1>1. \A k \in Key : Newest(k)' = Newest(k)
  BY RotateLayers DEF Newest, Over
<1>2. UNCHANGED store
  BY DEF Rotate, histVars
<1> QED
  BY <1>1, <1>2, StoreMoved

\* A push: the table in the hands of the call goes over the queue.
LEMMA PushLayers ==
    ASSUME TypeOK, OneWriter, PipelineInv, LogInv, WriterInv,
           NEW c \in Client, Push(c), NEW k \in Key
    PROVE  /\ Moving(k) = write_sstable(held[c])[k] /\ Moving(k)' = Absent
           /\ Queued(k)' = Over(Moving(k), Queued(k))
           /\ Active(k)' = Active(k) /\ Cached(k)' = Cached(k)
<1>1. /\ pc[c] = "push" /\ immutable' = Append(immutable, held[c])
      /\ held' = [held EXCEPT ![c] = Absent]
      /\ UNCHANGED << memtable, cache >>
  BY DEF Push, insert
<1>2. held[c] \in Table /\ c \in Writers
  BY <1>1 DEF PipelineInv, CallsCarry, WriterInv, WriterRotates
<1>3. \A d \in Client : d # c => held[d] = Absent
  BY <1>2 DEF LogInv, HeldOnlyToPush, WriterInv, WriterRotates, OneWriter
<1>4. (\A d \in Client : held[d] \in {Absent, held[c]}) /\ \A d \in Client : held'[d] = Absent
  BY <1>1, <1>3 DEF TypeOK
<1>5. TransitOf(held) = << held[c] >>
  BY <1>2, <1>4, TransitOne
<1>6. TransitOf(held') = << >>
  BY <1>4, TransitNone
<1>7. Moving(k) = write_sstable(held[c])[k]
  BY <1>2, <1>5, LayerOne DEF Moving
<1>8. Moving(k)' = Absent
  BY <1>6, LayerNone DEF Moving
<1>9. Queued(k)' = Over(write_sstable(held[c])[k], Queued(k))
  BY <1>1, <1>2, QueuePush DEF Queued, TypeOK
<1>10. Active(k)' = Active(k) /\ Cached(k)' = Cached(k)
  BY <1>1 DEF Active, Cached
<1> QED
  BY <1>7, <1>8, <1>9, <1>10

LEMMA StorePush ==
    ASSUME TypeOK, OneWriter, PipelineInv, LogInv, WriterInv, NewestIsStore,
           NEW c \in Client, Push(c)
    PROVE  NewestIsStore'
<1>1. \A k \in Key : Newest(k)' = Newest(k)
  BY PushLayers DEF Newest, Over
<1>2. UNCHANGED store
  BY DEF Push, histVars
<1> QED
  BY <1>1, <1>2, StoreMoved

\* A load: the oldest table of the queue goes under it too.
LEMMA LoadLayers ==
    ASSUME TypeOK, PipelineInv, CompactorLoad, NEW k \in Key
    PROVE  /\ immutable # << >>
           /\ Cached(k)' = Over(write_sstable(Head(immutable))[k], Cached(k))
           /\ Over(Queued(k)', Cached(k)') = Over(Queued(k), Cached(k))
           /\ Active(k)' = Active(k) /\ Moving(k)' = Moving(k)
<1> DEFINE f == [path |-> flushPath, data |-> write_sstable(flushHead)]
<1>1. /\ PathQueued /\ f \in SSTable /\ f.data = write_sstable(flushHead)
      /\ cache' = << f >> \o cache
      /\ UNCHANGED << memtable, held, immutable >>
  BY QueuedFile DEF CompactorLoad, push, clientVars
<1> HIDE DEF f
<1>2. immutable # << >> /\ flushHead = Head(immutable)
  <2>1. InFlight /\ flushPc # "front"
    BY <1>1 DEF InFlight, PipelineInv, Handshake, PathQueued
  <2> QED
    BY <2>1, FrontExists DEF PipelineInv, QueueCovered
<1> DEFINE h == write_sstable(Head(immutable))[k]
           r == First(BlocksOf(Reverse(Tail(immutable))), k)
<1>3. Cached(k)' = Over(h, Cached(k))
  BY <1>1, <1>2, CachePush DEF Cached, TypeOK
<1>4. Queued(k) = Over(r, h)
  BY <1>2, QueuePop DEF Queued, TypeOK
<1>5. Active(k)' = Active(k) /\ Moving(k)' = Moving(k) /\ Queued(k)' = Queued(k)
  BY <1>1 DEF Active, Moving, Queued
<1> HIDE DEF r
<1>6. Over(Queued(k)', Cached(k)') = Over(Queued(k), Cached(k))
  BY <1>3, <1>4, <1>5 DEF Over
<1> QED
  BY <1>2, <1>3, <1>5, <1>6

LEMMA StoreLoad ==
    ASSUME TypeOK, PipelineInv, NewestIsStore, CompactorLoad
    PROVE  NewestIsStore'
<1>1. \A k \in Key : Newest(k)' = Newest(k)
  BY LoadLayers DEF Newest
<1>2. UNCHANGED store
  BY DEF CompactorLoad, histVars
<1> QED
  BY <1>1, <1>2, StoreMoved

\* A pop: the table that leaves the queue is the first of the cache.
LEMMA PopLayers ==
    ASSUME TypeOK, PipelineInv, CompactorPop, NEW k \in Key
    PROVE  /\ immutable # << >> /\ immutable' = Tail(immutable)
           /\ Over(Queued(k)', Cached(k)') = Over(Queued(k), Cached(k))
           /\ Active(k)' = Active(k) /\ Moving(k)' = Moving(k) /\ Cached(k)' = Cached(k)
<1>1. /\ compPc = "pop" /\ immutable' = pop(immutable)
      /\ UNCHANGED << memtable, held, cache >>
  BY DEF CompactorPop, clientVars
<1>2. immutable # << >> /\ flushHead = Head(immutable)
  <2>1. InFlight /\ flushPc # "front"
    BY <1>1 DEF InFlight, PipelineInv, Handshake, NoFlushDuringCompaction, Exited
  <2> QED
    BY <2>1, FrontExists DEF PipelineInv, QueueCovered
<1>3. cache # << >> /\ Head(cache).data = write_sstable(Head(immutable))
  BY <1>1, <1>2 DEF PipelineInv, QueueCovered
<1>4. /\ DataOf(cache) \in Seq(Block) /\ DataOf(cache) # << >>
      /\ DataOf(cache)[1] = write_sstable(Head(immutable))
  <2>1. Len(cache) \in Nat /\ Len(cache) # 0 /\ Head(cache) = cache[1] /\ 1 \in 1..Len(cache)
    BY <1>3 DEF TypeOK
  <2>2. DataOf(cache) \in Seq(Block) /\ Len(DataOf(cache)) = Len(cache)
        /\ DataOf(cache)[1] = cache[1].data
    BY <2>1, DataType DEF TypeOK
  <2> QED
    BY <1>3, <2>1, <2>2
<1> DEFINE h == write_sstable(Head(immutable))[k]
           r == First(BlocksOf(Reverse(Tail(immutable))), k)
<1>5. h # Absent => Cached(k) = h
  BY <1>4, FirstHead DEF Cached
<1>6. Queued(k) = Over(r, h)
  BY <1>2, QueuePop DEF Queued, TypeOK
<1>7. immutable' = Tail(immutable) /\ Queued(k)' = r
  BY <1>1, <1>2 DEF Queued, pop
<1>8. Active(k)' = Active(k) /\ Moving(k)' = Moving(k) /\ Cached(k)' = Cached(k)
  BY <1>1 DEF Active, Moving, Cached
<1> HIDE DEF h, r
<1>9. Over(Queued(k)', Cached(k)') = Over(Queued(k), Cached(k))
  BY <1>5, <1>6, <1>7, <1>8 DEF Over
<1> QED
  BY <1>2, <1>7, <1>8, <1>9

LEMMA StorePop ==
    ASSUME TypeOK, PipelineInv, NewestIsStore, CompactorPop
    PROVE  NewestIsStore'
<1>1. \A k \in Key : Newest(k)' = Newest(k)
  BY PopLayers DEF Newest
<1>2. UNCHANGED store
  BY DEF CompactorPop, histVars
<1> QED
  BY <1>1, <1>2, StoreMoved

\* A merge apart, tables enter the cache by a load only.
LEMMA CacheKept ==
    ASSUME NoMerge,
           \/ Flusher \/ FlushCreateFails \/ FlushFails
           \/ Compactor \/ CompactorFails
           \/ DropSignalCompactor \/ DropSignalFlusher \/ DropInTask
    PROVE  CompactorLoad \/ UNCHANGED cache
<1>1. CASE Flusher \/ FlushCreateFails \/ FlushFails
  BY <1>1 DEF Flusher, FlushRecv, FlushShutdown, FlushRecvClosed, FlushFront, FlushWrite,
       FlushUnlink, FlushLoad, FlushAck, FlushAckClosed, FlushCreateFails, FlushFails, tableVars
<1>2. CASE Compactor \/ CompactorFails
  BY <1>2 DEF NoMerge, Compactor, CompactorShutdown, CompactorRecvClosed, CompactorPop,
       CompactorCreate, CompactorFinish, CompactorReplace, CompactorCleanup, CompactorCleaned,
       CompactorAck, CompactorFails, tableVars
<1>3. CASE DropSignalCompactor \/ DropSignalFlusher \/ DropInTask
  BY <1>3 DEF DropSignalCompactor, DropSignalFlusher, DropInTask, tableVars
<1> QED
  BY <1>1, <1>2, <1>3

\* The background tasks move records down, never past one another.
LEMMA StoreTasks ==
    ASSUME TypeOK, PipelineInv, NewestIsStore, NoMerge,
           \/ Flusher \/ FlushCreateFails \/ FlushFails
           \/ Compactor \/ CompactorFails
           \/ DropSignalCompactor \/ DropSignalFlusher \/ DropInTask
    PROVE  NewestIsStore'
<1>1. UNCHANGED << memtable, held, store >> /\ (CompactorPop \/ UNCHANGED immutable)
  BY TasksFrame DEF clientVars, histVars
<1>2. CompactorLoad \/ UNCHANGED cache
  BY CacheKept
<1> QED
  BY <1>1, <1>2, StoreLoad, StorePop, StoreFrame

\* A call is never dropped while it holds a table.
HandsOver == "push" \notin MayCancel

\* The calls.
LEMMA StoreCall ==
    ASSUME OneWriter, HandsOver, TypeOK, PipelineInv, LogInv, WriterInv, NewestIsStore,
           NEW c \in Client,
           \/ \E k \in Key : Set(c, k) \/ Delete(c, k) \/ Get(c, k)
           \/ CallPoisoned(c) \/ RotateFails(c) \/ Cancel(c) \/ Call(c)
    PROVE  NewestIsStore'
<1>1. ASSUME NEW e \in Entry, Write(c, e) PROVE NewestIsStore'
  <2>1. UNCHANGED << held, immutable, cache >>
        /\ (Insert(e) \/ UNCHANGED << memtable, store >>)
    BY <1>1 DEF Write
  <2> QED
    BY <2>1, StoreInsert, StoreFrame
<1>2. ASSUME NEW k \in Key, Set(c, k) \/ Delete(c, k) PROVE NewestIsStore'
  BY <1>1, <1>2, WriteEntries DEF Set, Delete
<1>3. CASE Retry(c)
  <2>1. UNCHANGED << held, immutable, cache >> /\ req[c] \in Entry
        /\ (Insert(req[c]) \/ UNCHANGED << memtable, store >>)
    BY <1>3 DEF Retry, PipelineInv, CallsCarry
  <2> QED
    BY <2>1, StoreInsert, StoreFrame
<1>4. CASE Cancel(c)
  <2>1. UNCHANGED << memtable, immutable, cache, store >> /\ pc[c] # "push"
        /\ held' = [held EXCEPT ![c] = Absent]
    BY <1>4 DEF Cancel, HandsOver, tableVars
  <2>2. held' = held
    BY <2>1 DEF LogInv, HeldOnlyToPush, TypeOK
  <2> QED
    BY <2>1, <2>2, StoreFrame
<1>5. CASE \/ \E k \in Key : Get(c, k)
           \/ CallPoisoned(c) \/ RotateFails(c) \/ Signal(c) \/ SignalClosed(c)
           \/ GetImmutable(c) \/ GetSSTable(c) \/ Return(c)
  <2>1. UNCHANGED << memtable, held, immutable, cache, store >>
    BY <1>5 DEF Get, CallPoisoned, RotateFails, Signal, SignalClosed, GetImmutable,
         GetSSTable, Return, tableVars, histVars
  <2> QED
    BY <2>1, StoreFrame
<1> QED
  BY <1>2, <1>3, <1>4, <1>5, StoreRotate, StorePush DEF Call

LEMMA StoreStep ==
    ASSUME OneWriter, HandsOver, TypeOK, PipelineInv, LogInv, WriterInv, NewestIsStore, NoMerge,
           [Next]_vars
    PROVE  NewestIsStore'
<1>1. CASE UNCHANGED vars \/ Quiescent
  <2>1. UNCHANGED << memtable, held, immutable, cache, store >>
    BY <1>1 DEF Quiescent, vars, clientVars, tableVars, histVars
  <2> QED
    BY <2>1, StoreFrame
<1> QED
  BY <1>1, StoreCall, StoreTasks DEF Next

\* An empty store has no record in any layer.
LEMMA StoreInit == Init => NewestIsStore
<1> SUFFICES ASSUME Init, NEW k \in Key PROVE store[k] = Plain(Newest(k))
  BY DEF NewestIsStore
<1>1. store[k] = Absent /\ Active(k) = Absent
  BY DEF Init, Active, NewTable, write_sstable
<1>2. Moving(k) = Absent
  <2>1. TransitOf(held) = << >>
    BY TransitNone DEF Init
  <2> QED
    BY <2>1, LayerNone DEF Moving
<1>3. Queued(k) = Absent
  <2>1. Reverse(<< >>) = << >>
    BY DEF Reverse
  <2> QED
    BY <2>1, LayerNone DEF Queued, Init
<1>4. Cached(k) = Absent
  <2>1. cache = << >> /\ DataOf(<< >>) = << >>
    BY DEF Init, DataOf
  <2> QED
    BY <2>1, FirstNone DEF Cached
<1> QED
  BY <1>1, <1>2, <1>3, <1>4, TableAssumption DEF Newest, Over, Plain

\* The layers hold the store as long as no merge replaces the cache.
THEOREM NewestUntilMerge ==
    ASSUME OneWriter, HandsOver
    PROVE  Spec /\ []NoMerge => []NewestIsStore
<1>1. TypeOK /\ PipelineInv /\ LogInv /\ WriterInv /\ NewestIsStore /\ NoMerge /\ [Next]_vars
        => NewestIsStore'
  BY StoreStep
<1> QED
  BY <1>1, StoreInit, Inductive, LogInductive, WriterInductive, PTL DEF Spec

\* With one writer whose calls are not dropped while they hold a table, and
\* as long as no merge replaces the cache, the newest record of every key in
\* the tables is the last one written: rotation, push, flush, load, pop, every
\* failure of them and the end of either task hide, lose or reorder nothing.
\* Deletes included: a tombstone hides what lies under it.
THEOREM StoreUntilMerge ==
    ASSUME OneWriter, HandsOver
    PROVE  Spec /\ []NoMerge => []ContentsAreStore
<1>1. TypeOK /\ LogInv /\ WriterInv /\ NewestIsStore => ContentsAreStore
  <2> SUFFICES ASSUME TypeOK, LogInv, WriterInv, NewestIsStore PROVE Contents = store
    BY DEF ContentsAreStore
  <2>1. \A k \in Key : Contents[k] = store[k]
    BY ContentsNewest DEF NewestIsStore
  <2>2. Contents = [k \in Key |-> Contents[k]] /\ store = [k \in Key |-> store[k]]
    BY DEF Contents, TypeOK
  <2> QED
    BY <2>1, <2>2
<1> QED
  BY <1>1, NewestUntilMerge, Inductive, LogInductive, WriterInductive, PTL

----------------------------------------------------------------------------
(* Fewer writes than tables to merge: no merge.                            *)

\* A call has a rotation whose flush is not signalled yet.
Rotating == \E c \in Client : pc[c] \in {"rotate", "push", "signal"}

Count(p) == IF p THEN 1 ELSE 0

\* Every table in the cache, flush in progress, signal and rotation goes back
\* to a write of its own.
FlushBudget ==
    Len(cache) + flushes + Count(FileUnderway) + Count(Rotating) <= ops

\* The compaction task has not started a merge.
NotMerging == compPc \notin {"merge", "finish", "replace", "cleanup"}

\* The budget depends on these variables only.
LEMMA BudgetFrame ==
    ASSUME TypeOK, FlushBudget,
           UNCHANGED << cache, ops >>, flushes' \in Nat, flushes' <= flushes,
           FileUnderway' => FileUnderway, Rotating' => Rotating
    PROVE  FlushBudget'
BY DEF TypeOK, FlushBudget, Count

\* The calls: a write that finds the table full begins a rotation, and its
\* signal ends it.
LEMMA BudgetCall ==
    ASSUME OneWriter, TypeOK, WriterInv, FlushBudget, NEW c \in Client,
           \/ \E k \in Key : Set(c, k) \/ Delete(c, k) \/ Get(c, k)
           \/ CallPoisoned(c) \/ RotateFails(c) \/ Cancel(c) \/ Call(c)
    PROVE  FlushBudget'
<1>1. UNCHANGED << flushVars, compVars, compChan, cache >>
  BY ClientFrame
<1>2. FileUnderway' = FileUnderway
  BY <1>1, QueuedFrame DEF FileUnderway, flushVars
<1>3. ASSUME NEW e, Write(c, e) PROVE FlushBudget'
  <2>1. /\ ops' = ops + 1 /\ UNCHANGED flushes /\ c \in Writers /\ pc[c] = "idle"
    BY <1>3 DEF Write, MayCall, chanVars
  <2>2. ~Rotating
    BY <2>1, OneRotation DEF Rotating, WriterInv
  <2> QED
    BY <1>1, <1>2, <2>1, <2>2 DEF FlushBudget, Count, TypeOK
<1>4. CASE Signal(c)
  <2>1. /\ pc[c] = "signal" /\ pc' = [pc EXCEPT ![c] = "retry"] /\ flushes' = flushes + 1
        /\ UNCHANGED ops
    BY <1>4 DEF Signal, histVars
  <2>2. Rotating /\ c \in Writers
    BY <2>1 DEF Rotating, WriterInv, WriterRotates
  <2>3. ~Rotating'
    BY <2>1, <2>2, OneRotation DEF Rotating, WriterInv, TypeOK
  <2> QED
    BY <1>1, <1>2, <2>1, <2>2, <2>3 DEF FlushBudget, Count, TypeOK
<1>5. CASE \/ \E k \in Key : Get(c, k)
           \/ CallPoisoned(c) \/ RotateFails(c) \/ Cancel(c) \/ Rotate(c) \/ Push(c)
           \/ SignalClosed(c) \/ Retry(c) \/ GetImmutable(c) \/ GetSSTable(c) \/ Return(c)
  <2>1. UNCHANGED << flushes, ops >>
    BY <1>5 DEF Get, CallPoisoned, RotateFails, Cancel, Rotate, Push, SignalClosed, Retry,
         GetImmutable, GetSSTable, Return, chanVars, histVars
  <2>2. \E s \in ClientStates :
            /\ pc' = [pc EXCEPT ![c] = s]
            /\ s \in {"rotate", "push", "signal"} => pc[c] \in {"rotate", "push", "signal"}
    BY <1>5 DEF Get, CallPoisoned, RotateFails, Cancel, Rotate, Push, SignalClosed, Retry,
         GetImmutable, GetSSTable, Return, Answer, ClientStates
  <2>3. Rotating' => Rotating
    BY <2>2 DEF Rotating, TypeOK
  <2> QED
    BY <1>1, <1>2, <2>1, <2>3, BudgetFrame DEF TypeOK
<1> QED
  BY <1>3, <1>4, <1>5 DEF Call, Set, Delete

\* The flush task turns a signal into a file.
LEMMA BudgetFlusher ==
    ASSUME TypeOK, FlushBudget, Flusher \/ FlushCreateFails \/ FlushFails
    PROVE  FlushBudget'
<1>1. UNCHANGED << pc, ops, cache >>
  BY DEF Flusher, FlushRecv, FlushShutdown, FlushRecvClosed, FlushFront, FlushWrite,
       FlushUnlink, FlushLoad, FlushAck, FlushAckClosed, FlushCreateFails, FlushFails, tableVars,
       clientVars, histVars
<1>2. Rotating' = Rotating
  BY <1>1 DEF Rotating
<1>3. CASE FlushRecv
  <2>1. flushPc = "recv" /\ flushes > 0 /\ flushes' = flushes - 1 /\ flushPc' = "front"
    BY <1>3 DEF FlushRecv
  <2> QED
    BY <1>1, <1>2, <2>1 DEF FlushBudget, Count, TypeOK
<1>4. CASE FlushFront \/ FlushWrite \/ FlushUnlink \/ FlushLoad
  <2>1. FileUnderway /\ UNCHANGED flushes
    BY <1>4 DEF FlushFront, FlushWrite, FlushUnlink, FlushLoad, FileUnderway, chanVars
  <2> QED
    BY <1>1, <1>2, <2>1, BudgetFrame DEF TypeOK
<1>5. CASE FlushCreateFails \/ FlushShutdown \/ FlushRecvClosed \/ FlushFails
           \/ FlushAck \/ FlushAckClosed
  <2>1. /\ flushPc' \in {"recv", "stopped", "panicked"} /\ UNCHANGED compChan
        /\ flushes' = flushes \/ (flushes > 0 /\ flushes' = flushes - 1)
    BY <1>5 DEF FlushCreateFails, FlushShutdown, FlushRecvClosed, FlushFails, FlushAck,
         FlushAckClosed, chanVars
  <2>2. FileUnderway' => FileUnderway
    BY <2>1, QueuedFrame DEF FileUnderway
  <2> QED
    BY <1>1, <1>2, <2>1, <2>2, BudgetFrame DEF TypeOK
<1> QED
  BY <1>3, <1>4, <1>5 DEF Flusher

\* The compaction task turns a file into a table of the cache, and does not
\* find enough of them to merge.
LEMMA BudgetCompactor ==
    ASSUME MaxOps < CompactionRate, TypeOK, PipelineInv, FlushBudget, NotMerging,
           \/ Compactor \/ CompactorFails
           \/ DropSignalCompactor \/ DropSignalFlusher \/ DropInTask
    PROVE  FlushBudget' /\ NotMerging'
<1>1. CASE CompactorLoad
  <2>1. /\ PathQueued /\ flushPc = "ack" /\ compPc' = "pop"
        /\ cache' = << from_path(Head(compChan)) >> \o cache /\ compChan' = Tail(compChan)
        /\ UNCHANGED << pc, ops, flushes, flushPc >>
    BY <1>1, QueuedFile DEF CompactorLoad, push, clientVars, histVars, flushVars, PipelineInv,
         Handshake, PathQueued
  <2>2. Len(cache') = Len(cache) + 1
    BY <1>1, <2>1, QueuedFile, ConsAt DEF CompactorLoad, TypeOK
  <2>3. ~FileUnderway' /\ FileUnderway
    BY <1>1, <2>1, QueuedFile DEF CompactorLoad, FileUnderway, PipelineInv, Handshake, PathQueued,
         TypeOK
  <2>4. Rotating' = Rotating
    BY <2>1 DEF Rotating
  <2> QED
    BY <2>1, <2>2, <2>3, <2>4 DEF FlushBudget, Count, NotMerging, TypeOK
<1>2. CASE CompactorPop
  <2>1. Len(cache) < CompactionRate
    BY LsmliteAssumption DEF FlushBudget, Count, TypeOK
  <2>2. UNCHANGED << cache, ops, flushes, pc, flushPc, compChan >> /\ compPc' = "ack"
    BY <1>2, <2>1, LsmliteAssumption DEF CompactorPop, clientVars, histVars, flushVars, chanVars, TypeOK
  <2> QED
    BY <2>2, BudgetFrame, QueuedFrame DEF FileUnderway, Rotating, NotMerging, TypeOK
<1>3. CASE \/ CompactorShutdown \/ CompactorRecvClosed \/ CompactorAck \/ CompactorFails
           \/ DropSignalCompactor \/ DropSignalFlusher \/ DropInTask
  <2>1. /\ UNCHANGED << cache, ops, flushes, pc, flushPc >> /\ NotMerging'
        /\ compChan' \in {compChan, << >>, Append(compChan, Shutdown)}
    BY <1>3 DEF CompactorShutdown, CompactorRecvClosed, CompactorAck, CompactorFails,
         DropSignalCompactor, DropSignalFlusher, DropInTask, NotMerging, clientVars, histVars,
         flushVars, chanVars, tableVars, compVars
  <2>2. PathQueued' => PathQueued
    <3>1. compChan' = << >> => ~PathQueued'
      BY DEF PathQueued
    <3> QED
      BY <2>1, <3>1, QueuedFrame, ShutdownQueued DEF TypeOK
  <2> QED
    BY <2>1, <2>2, BudgetFrame DEF FileUnderway, Rotating, TypeOK
<1> QED
  BY <1>1, <1>2, <1>3
  DEF Compactor, NotMerging, CompactorCreate, CompactorFinish, CompactorReplace,
      CompactorCleanup, CompactorCleaned

LEMMA BudgetStep ==
    ASSUME OneWriter, MaxOps < CompactionRate, TypeOK, PipelineInv, WriterInv,
           FlushBudget, NotMerging, [Next]_vars
    PROVE  FlushBudget' /\ NotMerging'
<1>1. CASE UNCHANGED vars \/ Quiescent
  <2>1. UNCHANGED << cache, ops, flushes, pc, flushPc, compChan, compPc >>
    BY <1>1 DEF Quiescent, vars, clientVars, tableVars, histVars, flushVars, compVars, chanVars
  <2> QED
    BY <2>1, BudgetFrame, QueuedFrame DEF FileUnderway, Rotating, NotMerging, TypeOK
<1>2. ASSUME NEW c \in Client,
             \/ \E k \in Key : Set(c, k) \/ Delete(c, k) \/ Get(c, k)
             \/ CallPoisoned(c) \/ RotateFails(c) \/ Cancel(c) \/ Call(c)
      PROVE  FlushBudget' /\ NotMerging'
  BY <1>2, BudgetCall, ClientFrame DEF NotMerging, compVars
<1>3. CASE Flusher \/ FlushCreateFails \/ FlushFails
  <2>1. UNCHANGED compPc
    BY <1>3 DEF Flusher, FlushRecv, FlushShutdown, FlushRecvClosed, FlushFront, FlushWrite,
         FlushUnlink, FlushLoad, FlushAck, FlushAckClosed, FlushCreateFails, FlushFails, compVars
  <2> QED
    BY <1>3, <2>1, BudgetFlusher DEF NotMerging
<1> QED
  BY <1>1, <1>2, <1>3, BudgetCompactor DEF Next

\* A behaviour with fewer writes than compaction_rate never merges, however
\* often it rotates: one writer's rotations each cost a write.
THEOREM FewWritesNoMerge ==
    ASSUME OneWriter, MaxOps < CompactionRate
    PROVE  Spec => []NoMerge
<1>1. Init => FlushBudget /\ NotMerging
  <2> SUFFICES ASSUME Init PROVE FlushBudget /\ NotMerging
    OBVIOUS
  <2>1. ~FileUnderway /\ ~Rotating
    BY DEF Init, FileUnderway, PathQueued, Rotating
  <2>2. Len(cache) = 0 /\ flushes = 0 /\ ops = 0 /\ compPc = "recv"
    BY DEF Init
  <2> QED
    BY <2>1, <2>2 DEF FlushBudget, Count, NotMerging
<1>2. TypeOK /\ PipelineInv /\ WriterInv /\ FlushBudget /\ NotMerging /\ [Next]_vars
        => FlushBudget' /\ NotMerging'
  BY BudgetStep
<1>3. NotMerging => NoMerge
  BY DEF NotMerging, NoMerge
<1> QED
  BY <1>1, <1>2, <1>3, Inductive, WriterInductive, PTL DEF Spec

\* In such behaviours the contents of the tables are the store.
THEOREM ContentsKept ==
    ASSUME OneWriter, HandsOver, MaxOps < CompactionRate
    PROVE  Spec => []ContentsAreStore
BY StoreUntilMerge, FewWritesNoMerge, PTL
=============================================================================
