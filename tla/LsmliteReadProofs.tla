------------------------- MODULE LsmliteReadProofs -------------------------
(***************************************************************************)
(* Proofs about get.  With one writer that only sets, calls that are not   *)
(* dropped inside a get or with a table in their hands, and no merge, the  *)
(* engine implements KVStore: a get answers with a value its key had       *)
(* during the call, although it looks at the layers one after the other    *)
(* while tables move from each to the next.                                *)
(***************************************************************************)
EXTENDS LsmliteStoreProofs

\* Writers only call set.
SetsOnly == Ops \subseteq {"set"}

\* A get is never dropped.
GetsFinish == {"immutable", "sstable"} \cap MayCancel = {}

\* Every record of the table is data whose offset is known: MemtableInner::get
\* and the SSTable then agree about it.
Settled(t) ==
    \A k \in Key : t.arena[k] # Absent => t.arena[k].some /\ t.arena[k].blob # Tombstone

\* What sets leave behind, and what they carry.
OnlySets ==
    /\ Settled(memtable)
    /\ \A c \in Client : held[c] # Absent => Settled(held[c])
    /\ \A i \in DOMAIN immutable : Settled(immutable[i])
    /\ \A c \in Client :
        pc[c] \in {"rotate", "push", "signal", "retry"} => req[c].datum \in 1..MaxOps

----------------------------------------------------------------------------
(* Tables of data.                                                         *)

LEMMA SettledInsert ==
    ASSUME NEW t \in Table, NEW e \in Entry, e.datum # Tombstone, NEW due \in BOOLEAN, Settled(t)
    PROVE  Settled(insert_node(write_log(t, e, due), e))
<1> DEFINE u == write_log(t, e, due)
<1>1. u \in Table /\ u.arena = t.arena
  BY WriteLogTable
<1>2. u.arena \in [Key -> Node \cup {Absent}] /\ Settled(u)
  BY <1>1 DEF Table, Settled
<1>3. e.key \in Key /\ e.datum \in Datum
  BY DEF Entry
<1> HIDE DEF u
<1> DEFINE v == insert_node(u, e)
<1>4. \E n : /\ v.arena = [u.arena EXCEPT ![e.key] = n]
             /\ n.some /\ n.blob # Tombstone
  <2>1. CASE u.arena[e.key] # Absent
    <3> DEFINE n == update_from_record(u.arena[e.key], e.datum)
    <3>1. u.arena[e.key] \in Node /\ u.arena[e.key].some
      BY <1>2, <1>3, <2>1 DEF Settled
    <3>2. n.some /\ n.blob # Tombstone
      BY <3>1 DEF update_from_record, Node
    <3>3. v.arena = [u.arena EXCEPT ![e.key] = n]
      BY <1>1, <2>1 DEF insert_node, Table
    <3> QED
      BY <3>2, <3>3
  <2>2. CASE u.arena[e.key] = Absent
    <3>1. v.arena = [u.arena EXCEPT ![e.key] = NewNode(e.datum)]
      BY <1>1, <2>2 DEF insert_node, Table
    <3>2. NewNode(e.datum).some /\ NewNode(e.datum).blob # Tombstone
      BY DEF NewNode
    <3> QED
      BY <3>1, <3>2
  <2> QED
    BY <2>1, <2>2
<1>5. Settled(v)
  BY <1>2, <1>3, <1>4 DEF Settled
<1> QED
  BY <1>5 DEF u

\* A lookup in memory and in the SSTable written from the table agree.
LEMMA GetSettled ==
    ASSUME NEW t \in Table, Settled(t), NEW k \in Key
    PROVE  get(t, k) = write_sstable(t)[k] /\ write_sstable(t)[k] # Tombstone
<1>1. CASE t.arena[k] = Absent
  BY <1>1, TableAssumption DEF get, write_sstable
<1>2. CASE t.arena[k] # Absent
  BY <1>2 DEF get, write_sstable, Settled
<1> QED
  BY <1>1, <1>2

\* ImmutableMemtable::get returns the record of the newest table that has one.
LEMMA GetQueueAt ==
    ASSUME NEW q \in Seq(Table), NEW k \in Key
    PROVE  \/ /\ \A i \in 1..Len(q) : get(q[i], k) = Absent
              /\ get_queue(q, k) = Absent
           \/ \E i \in 1..Len(q) :
                /\ get(q[i], k) # Absent
                /\ \A j \in 1..Len(q) : j > i => get(q[j], k) = Absent
                /\ get_queue(q, k) = get(q[i], k)
<1> DEFINE I == {i \in 1..Len(q) : get(q[i], k) # Absent}
<1>1. CASE I = {}
  BY <1>1 DEF get_queue, SelectLastInSeq
<1>2. CASE I # {}
  <2>1. Max(I) \in I /\ \A j \in I : Max(I) >= j
    <3>1. Len(q) \in Nat /\ I \in SUBSET (1..Len(q))
      OBVIOUS
    <3> HIDE DEF I
    <3> QED
      BY <1>2, <3>1, MaxExists
  <2>2. get_queue(q, k) = get(q[Max(I)], k)
    BY <1>2, <2>1 DEF get_queue, SelectLastInSeq
  <2>3. PICK i \in 1..Len(q) : i = Max(I) /\ get(q[i], k) # Absent
    BY <2>1
  <2>4. \A j \in 1..Len(q) : get(q[j], k) # Absent => i >= j
    BY <2>1, <2>3
  <2>5. \A j \in 1..Len(q) : j > i => get(q[j], k) = Absent
    BY <2>4
  <2> QED
    BY <2>2, <2>3, <2>5
<1> QED
  BY <1>1, <1>2

LEMMA GetQueueFirst ==
    ASSUME NEW q \in Seq(Table), \A i \in 1..Len(q) : Settled(q[i]), NEW k \in Key
    PROVE  /\ get_queue(q, k) = First(BlocksOf(Reverse(q)), k)
           /\ get_queue(q, k) # Tombstone
           /\ get_queue(q, k) = Absent => \A i \in 1..Len(q) : write_sstable(q[i])[k] = Absent
<1> DEFINE b == BlocksOf(Reverse(q))
           W(i) == write_sstable(q[i])[k]
<1>0. Len(q) \in Nat
  OBVIOUS
<1>1. \A i \in 1..Len(q) : get(q[i], k) = W(i) /\ W(i) # Tombstone
  BY GetSettled
<1>2. /\ Reverse(q) \in Seq(Table) /\ Len(Reverse(q)) = Len(q)
      /\ \A i \in 1..Len(q) : Reverse(q)[i] = q[Len(q) - i + 1]
  BY DEF Reverse
<1>3. /\ b \in Seq(Block) /\ Len(b) = Len(q)
      /\ \A i \in 1..Len(q) : b[i][k] = W(Len(q) - i + 1)
  BY <1>2, BlocksType
<1> HIDE DEF b, W
<1>4. CASE \A i \in 1..Len(q) : W(i) = Absent
  <2>1. get_queue(q, k) = Absent
    BY <1>1, <1>4, GetQueueAt
  <2>2. \A i \in 1..Len(q) : b[i][k] = Absent
    <3> SUFFICES ASSUME NEW i \in 1..Len(q) PROVE b[i][k] = Absent
      OBVIOUS
    <3>1. Len(q) - i + 1 \in 1..Len(q)
      BY <1>0
    <3> QED
      BY <1>3, <1>4, <3>1
  <2>3. First(b, k) = Absent
    BY <1>3, <2>2, FirstAt
  <2> QED
    BY <1>4, <2>1, <2>3, TableAssumption DEF b, W
<1>5. CASE \E i \in 1..Len(q) : W(i) # Absent
  <2>1. PICK i \in 1..Len(q) : /\ W(i) # Absent
                               /\ \A j \in 1..Len(q) : j > i => W(j) = Absent
                               /\ get_queue(q, k) = W(i)
    BY <1>1, <1>5, GetQueueAt
  <2>2. Len(q) - i + 1 \in 1..Len(q) /\ b[Len(q) - i + 1][k] # Absent
    <3>1. Len(q) - i + 1 \in 1..Len(q) /\ Len(q) - (Len(q) - i + 1) + 1 = i
      BY <1>0
    <3> QED
      BY <1>3, <2>1, <3>1
  <2>3. PICK n \in 1..Len(q) : /\ b[n][k] # Absent
                               /\ \A j \in 1..Len(q) : j < n => b[j][k] = Absent
                               /\ First(b, k) = b[n][k]
    BY <1>3, <2>2, FirstAt
  <2>4. Len(q) - n + 1 \in 1..Len(q) /\ W(Len(q) - n + 1) # Absent
    BY <1>0, <1>3, <2>3
  <2>5. ~(Len(q) - n + 1 > i)
    BY <2>1, <2>4
  <2>6. ~(Len(q) - i + 1 < n)
    BY <2>2, <2>3
  <2>7. Len(q) - n + 1 = i
    BY <1>0, <2>5, <2>6
  <2>8. First(b, k) = W(i)
    BY <1>3, <2>3, <2>7
  <2> QED
    BY <1>1, <2>1, <2>8 DEF b
<1> QED
  BY <1>4, <1>5

----------------------------------------------------------------------------
(* Sets leave tables of data.                                              *)

\* OnlySets depends on these variables only, and on the calls only in so far
\* as they reach a step of a rotation.
LEMMA SetsFrame ==
    ASSUME OnlySets, UNCHANGED << memtable, immutable >>,
           \A c \in Client :
                /\ held'[c] \in {held[c], Absent}
                /\ pc'[c] \in {"rotate", "push", "signal", "retry"} =>
                        pc[c] \in {"rotate", "push", "signal", "retry"} /\ req'[c] = req[c]
    PROVE  OnlySets'
BY DEF OnlySets, Settled

LEMMA SetsInsert ==
    ASSUME TypeOK, OnlySets, NEW e \in Entry, e.datum \in 1..MaxOps, Insert(e)
    PROVE  Settled(memtable')
<1>1. PICK due \in NeedsFlush : memtable' = insert_node(write_log(memtable, e, due), e)
  BY DEF Insert
<1>2. due \in BOOLEAN /\ memtable \in Table /\ e.datum # Tombstone
  BY LsmliteAssumption, TableAssumption DEF TypeOK, Value
<1> QED
  BY <1>1, <1>2, SettledInsert DEF OnlySets

\* A set carries the ordinal of its call.
LEMMA SetsWrite ==
    ASSUME TypeOK, OnlySets, NEW c \in Client, NEW k \in Key, Set(c, k)
    PROVE  OnlySets'
<1> DEFINE e == [key |-> k, datum |-> ops + 1]
<1>1. Write(c, e) /\ ops < MaxOps /\ UNCHANGED << held, immutable >>
  BY DEF Set, Write
<1>2. e \in Entry
  BY WriteEntries
<1>3. e.datum \in 1..MaxOps
  BY <1>1, LsmliteAssumption DEF TypeOK
<1> HIDE DEF e
<1>4. CASE Insert(e) /\ UNCHANGED << pc, req >>
  <2>1. Settled(memtable')
    BY <1>2, <1>3, <1>4, SetsInsert
  <2> QED
    BY <1>1, <1>4, <2>1 DEF OnlySets, Settled
<1>5. CASE /\ pc' = [pc EXCEPT ![c] = "rotate"] /\ req' = [req EXCEPT ![c] = e]
           /\ UNCHANGED memtable
  <2>1. \A d \in Client : /\ d # c => pc'[d] = pc[d] /\ req'[d] = req[d]
                          /\ req'[c] = e
    BY <1>5 DEF TypeOK
  <2> QED
    BY <1>1, <1>3, <1>5, <2>1 DEF OnlySets, Settled
<1> QED
  BY <1>1, <1>4, <1>5 DEF Write

LEMMA SetsCall ==
    ASSUME TypeOK, PipelineInv, OnlySets, NEW c \in Client,
           \/ \E k \in Key : Get(c, k)
           \/ CallPoisoned(c) \/ RotateFails(c) \/ Cancel(c) \/ Call(c)
    PROVE  OnlySets'
<1>1. CASE Rotate(c)
  <2>1. /\ pc[c] = "rotate" /\ memtable' = NewTable(clock + 1)
        /\ held' = [held EXCEPT ![c] = memtable] /\ pc' = [pc EXCEPT ![c] = "push"]
        /\ UNCHANGED << immutable, req >>
    BY <1>1 DEF Rotate
  <2>2. Settled(memtable')
    BY <2>1 DEF NewTable, Settled
  <2>3. \A d \in Client : held'[d] \in {memtable, held[d]} /\ pc'[d] \in {"push", pc[d]}
                          /\ (d # c => pc'[d] = pc[d])
    BY <2>1 DEF TypeOK
  <2>4. \A d \in Client : held'[d] # Absent => Settled(held'[d])
    BY <2>3 DEF OnlySets
  <2>5. \A d \in Client : pc'[d] \in {"rotate", "push", "signal", "retry"} =>
                            req'[d].datum \in 1..MaxOps
    BY <2>1, <2>3 DEF OnlySets
  <2> QED
    BY <2>1, <2>2, <2>4, <2>5 DEF OnlySets, Settled
<1>2. CASE Push(c)
  <2>1. /\ pc[c] = "push" /\ immutable' = Append(immutable, held[c])
        /\ held' = [held EXCEPT ![c] = Absent] /\ pc' = [pc EXCEPT ![c] = "signal"]
        /\ UNCHANGED << memtable, req >>
    BY <1>2 DEF Push, insert
  <2>2. held[c] \in Table /\ Settled(held[c])
    BY <2>1, TableAssumption DEF PipelineInv, CallsCarry, OnlySets
  <2>3. \A d \in Client : held'[d] \in {Absent, held[d]} /\ (d # c => pc'[d] = pc[d])
    BY <2>1 DEF TypeOK
  <2>4. \A i \in DOMAIN immutable' : Settled(immutable'[i])
    <3>1. /\ DOMAIN immutable' = 1..(Len(immutable) + 1) /\ DOMAIN immutable = 1..Len(immutable)
          /\ Len(immutable) \in Nat
          /\ \A i \in 1..Len(immutable) : immutable'[i] = immutable[i]
          /\ immutable'[Len(immutable) + 1] = held[c]
      BY <2>1, <2>2 DEF TypeOK
    <3>2. \A i \in 1..(Len(immutable) + 1) : i \in 1..Len(immutable) \/ i = Len(immutable) + 1
      BY <3>1
    <3> QED
      BY <2>2, <3>1, <3>2 DEF OnlySets
  <2>5. \A d \in Client : held'[d] # Absent => Settled(held'[d])
    BY <2>3 DEF OnlySets
  <2>6. \A d \in Client : pc'[d] \in {"rotate", "push", "signal", "retry"} =>
                            req'[d].datum \in 1..MaxOps
    BY <2>1, <2>3 DEF OnlySets
  <2> QED
    BY <2>1, <2>4, <2>5, <2>6 DEF OnlySets, Settled
<1>3. CASE Retry(c)
  <2>1. /\ pc[c] = "retry" /\ pc' = [pc EXCEPT ![c] = "idle"] /\ req' = [req EXCEPT ![c] = Absent]
        /\ UNCHANGED << held, immutable >> /\ (Insert(req[c]) \/ UNCHANGED memtable)
    BY <1>3 DEF Retry
  <2>2. req[c] \in Entry /\ req[c].datum \in 1..MaxOps
    BY <2>1 DEF PipelineInv, CallsCarry, OnlySets
  <2>3. Settled(memtable')
    BY <2>1, <2>2, SetsInsert DEF OnlySets
  <2>4. \A d \in Client : pc'[d] \in {"rotate", "push", "signal", "retry"} =>
                            req'[d].datum \in 1..MaxOps
    BY <2>1 DEF OnlySets, TypeOK
  <2> QED
    BY <2>1, <2>3, <2>4 DEF OnlySets, Settled
<1>4. CASE \/ \E k \in Key : Get(c, k)
           \/ CallPoisoned(c) \/ RotateFails(c) \/ Cancel(c) \/ Signal(c) \/ SignalClosed(c)
           \/ GetImmutable(c) \/ GetSSTable(c) \/ Return(c)
  <2>1. /\ UNCHANGED << memtable, immutable >>
        /\ held' \in {held, [held EXCEPT ![c] = Absent]}
        /\ \E s \in ClientStates :
            /\ pc' = [pc EXCEPT ![c] = s]
            /\ s \in {"rotate", "push", "signal", "retry"} => pc[c] = "signal" /\ UNCHANGED req
        /\ req' = req \/ \E r : req' = [req EXCEPT ![c] = r]
    BY <1>4 DEF Get, CallPoisoned, RotateFails, Cancel, Signal, SignalClosed, GetImmutable,
         GetSSTable, Return, Answer, ClientStates, tableVars
  <2>2. \A d \in Client :
            /\ held'[d] \in {held[d], Absent}
            /\ pc'[d] \in {"rotate", "push", "signal", "retry"} =>
                    pc[d] \in {"rotate", "push", "signal", "retry"} /\ req'[d] = req[d]
    BY <2>1 DEF TypeOK
  <2> QED
    BY <2>1, <2>2, SetsFrame
<1> QED
  BY <1>1, <1>2, <1>3, <1>4 DEF Call

LEMMA SetsStep ==
    ASSUME SetsOnly, TypeOK, PipelineInv, OnlySets, [Next]_vars
    PROVE  OnlySets'
<1>1. CASE UNCHANGED vars \/ Quiescent
  <2>1. UNCHANGED << memtable, immutable, held, pc, req >>
    BY <1>1 DEF Quiescent, vars, clientVars, tableVars
  <2> QED
    BY <2>1, SetsFrame
<1>2. ASSUME NEW c \in Client,
             \/ \E k \in Key : Set(c, k) \/ Delete(c, k) \/ Get(c, k)
             \/ CallPoisoned(c) \/ RotateFails(c) \/ Cancel(c) \/ Call(c)
      PROVE  OnlySets'
  BY <1>2, SetsWrite, SetsCall DEF SetsOnly, Delete
<1>3. CASE \/ Flusher \/ FlushCreateFails \/ FlushFails
           \/ Compactor \/ CompactorFails
           \/ DropSignalCompactor \/ DropSignalFlusher \/ DropInTask
  <2>1. UNCHANGED << memtable, held, pc, req >> /\ (CompactorPop \/ UNCHANGED immutable)
    BY <1>3, TasksFrame DEF clientVars
  <2>2. CASE CompactorPop
    <3>1. immutable # << >> /\ immutable' = Tail(immutable) /\ immutable \in Seq(Table)
      <4>1. InFlight
        BY <2>2 DEF CompactorPop, InFlight
      <4>2. immutable # << >>
        BY <4>1, FrontExists
      <4> QED
        BY <2>2, <4>2 DEF CompactorPop, pop, TypeOK
    <3>2. /\ DOMAIN immutable' = 1..(Len(immutable) - 1) /\ DOMAIN immutable = 1..Len(immutable)
          /\ Len(immutable) \in Nat
          /\ \A i \in 1..(Len(immutable) - 1) : immutable'[i] = immutable[i + 1]
      BY <3>1
    <3>3. \A i \in 1..(Len(immutable) - 1) : i + 1 \in 1..Len(immutable)
      BY <3>2
    <3>4. \A i \in DOMAIN immutable' : Settled(immutable'[i])
      BY <3>2, <3>3 DEF OnlySets
    <3> QED
      BY <2>1, <3>4 DEF OnlySets, Settled
  <2> QED
    BY <2>1, <2>2, SetsFrame
<1> QED
  BY <1>1, <1>2, <1>3 DEF Next

LEMMA SetsInit == Init => OnlySets
BY DEF Init, OnlySets, Settled, NewTable

----------------------------------------------------------------------------
(* What a get can still find.                                              *)

\* The records a get has yet to pass are values its key had during the call.
\* The layers it has passed may move down into the ones it has not, so they
\* count too: what is there now was put there, or moved there, after the get
\* looked.
Ahead(c, k) ==
    /\ Active(k) \in seen[c] \cup {Absent}
    /\ Moving(k) \in seen[c] \cup {Absent}
    /\ pc[c] = "immutable" => Plain(Over(Queued(k), Cached(k))) \in seen[c]
    /\ pc[c] = "sstable" =>
        /\ \A i \in DOMAIN immutable : write_sstable(immutable[i])[k] \in seen[c] \cup {Absent}
        /\ Plain(Cached(k)) \in seen[c]

\* The inductive invariant of get.
Reads(c) ==
    /\ pc[c] # "done" => ret[c] = Absent
    /\ pc[c] = "done" /\ ~gap[c] => ret[c] \in seen[c]
    /\ pc[c] \in {"immutable", "sstable"} /\ ~gap[c] =>
        \A k \in Key : req[c].key = k => Ahead(c, k)

ReadInv == \A c \in Client : Reads(c)

\* How a step may change the layers under the active table: a table goes from
\* one to the next.
Shifts(k) ==
    /\ Moving(k)' \in {Moving(k), Active(k), Absent}
    /\ Over(Queued(k)', Cached(k)') \in {Over(Queued(k), Cached(k)),
                                         Over(Moving(k), Over(Queued(k), Cached(k)))}
    /\ \/ Cached(k)' = Cached(k)
       \/ /\ immutable # << >>
          /\ Cached(k)' = Over(write_sstable(Head(immutable))[k], Cached(k))
    /\ \A i \in DOMAIN immutable' :
        \/ \E j \in DOMAIN immutable : immutable'[i] = immutable[j]
        \/ write_sstable(immutable'[i])[k] = Moving(k)

\* What moves is data.
LEMMA MovingData ==
    ASSUME TypeOK, OneWriter, LogInv, WriterInv, OnlySets, NEW k \in Key
    PROVE  /\ Active(k) # Tombstone /\ Moving(k) # Tombstone
           /\ \A i \in DOMAIN immutable : write_sstable(immutable[i])[k] # Tombstone
<1>1. Active(k) # Tombstone
  BY GetSettled DEF Active, OnlySets, TypeOK
<1>2. Moving(k) # Tombstone
  <2>1. CASE TransitOf(held) = << >>
    BY <2>1, LayerNone, TableAssumption DEF Moving
  <2>2. ASSUME NEW c \in Client, held[c] \in Table, TransitOf(held) = << held[c] >>
        PROVE  Moving(k) # Tombstone
    <3>1. Settled(held[c])
      BY <2>2, TableAssumption DEF OnlySets
    <3>2. Moving(k) = write_sstable(held[c])[k]
      BY <2>2, LayerOne DEF Moving
    <3> QED
      BY <2>2, <3>1, <3>2, GetSettled
  <2> QED
    BY <2>1, <2>2, Layers
<1>3. \A i \in DOMAIN immutable : write_sstable(immutable[i])[k] # Tombstone
  BY GetSettled, TablesTyped DEF OnlySets
<1> QED
  BY <1>1, <1>2, <1>3

\* A get that does not move keeps what it can find.
LEMMA AheadKept ==
    ASSUME TypeOK, OneWriter, LogInv, WriterInv, OnlySets, NEW c \in Client, NEW k \in Key,
           Ahead(c, k), pc'[c] = pc[c], seen[c] \subseteq seen'[c],
           Active(k)' \in {Active(k), Absent} \cup seen'[c], Shifts(k)
    PROVE  Ahead(c, k)'
<1>0. Moving(k) # Tombstone
  BY MovingData
<1>1. Active(k)' \in seen'[c] \cup {Absent}
  BY DEF Ahead
<1>2. Moving(k)' \in seen'[c] \cup {Absent}
  BY DEF Ahead, Shifts
<1>3. ASSUME pc[c] = "immutable" PROVE Plain(Over(Queued(k)', Cached(k)')) \in seen'[c]
  <2>1. CASE Over(Queued(k)', Cached(k)') = Over(Queued(k), Cached(k))
    BY <1>3, <2>1 DEF Ahead
  <2>2. CASE Over(Queued(k)', Cached(k)') = Over(Moving(k), Over(Queued(k), Cached(k)))
    <3>1. CASE Moving(k) = Absent
      BY <1>3, <2>2, <3>1 DEF Ahead, Over
    <3>2. CASE Moving(k) # Absent
      <4>1. Over(Queued(k)', Cached(k)') = Moving(k)
        BY <2>2, <3>2 DEF Over
      <4>2. Plain(Moving(k)) = Moving(k)
        BY <1>0 DEF Plain
      <4> QED
        BY <3>2, <4>1, <4>2 DEF Ahead
    <3> QED
      BY <3>1, <3>2
  <2> QED
    BY <2>1, <2>2 DEF Shifts
<1>4. ASSUME pc[c] = "sstable"
      PROVE  /\ \A i \in DOMAIN immutable' :
                    write_sstable(immutable'[i])[k] \in seen'[c] \cup {Absent}
             /\ Plain(Cached(k)') \in seen'[c]
  <2>1. \A i \in DOMAIN immutable' : write_sstable(immutable'[i])[k] \in seen'[c] \cup {Absent}
    BY <1>4 DEF Ahead, Shifts
  <2>2. CASE Cached(k)' = Cached(k)
    BY <1>4, <2>1, <2>2 DEF Ahead
  <2>3. CASE /\ immutable # << >>
             /\ Cached(k)' = Over(write_sstable(Head(immutable))[k], Cached(k))
    <3> DEFINE h == write_sstable(Head(immutable))[k]
    <3>1. 1 \in DOMAIN immutable /\ Head(immutable) = immutable[1]
      BY <2>3 DEF TypeOK
    <3>2. h \in seen[c] \cup {Absent} /\ h # Tombstone
      BY <1>4, <3>1, MovingData DEF Ahead
    <3>3. Cached(k)' = Over(h, Cached(k))
      BY <2>3
    <3> HIDE DEF h
    <3>4. CASE h = Absent
      BY <1>4, <2>1, <3>3, <3>4 DEF Ahead, Over
    <3>5. CASE h # Absent
      <4>1. Cached(k)' = h /\ Plain(h) = h
        BY <3>2, <3>3, <3>5 DEF Over, Plain
      <4> QED
        BY <2>1, <3>2, <3>5, <4>1
    <3> QED
      BY <3>4, <3>5
  <2> QED
    BY <2>1, <2>2, <2>3 DEF Shifts
<1>5. Plain(Over(Queued(k)', Cached(k)')) = Plain(Over(Queued(k), Cached(k)))'
      /\ Plain(Cached(k)') = Plain(Cached(k))'
  BY DEF Plain, Over
<1> QED
  BY <1>1, <1>2, <1>3, <1>4, <1>5 DEF Ahead

\* The layers stay, or move as Shifts says.
LEMMA FrameShifts ==
    ASSUME UNCHANGED << held, immutable, cache >>, NEW k
    PROVE  Shifts(k)
<1>1. Moving(k)' = Moving(k) /\ Queued(k)' = Queued(k) /\ Cached(k)' = Cached(k)
  BY DEF Moving, Queued, Cached
<1> QED
  BY <1>1 DEF Shifts

LEMMA RotateShifts ==
    ASSUME TypeOK, OneWriter, LogInv, WriterInv, NEW c \in Client, Rotate(c), NEW k \in Key
    PROVE  Shifts(k) /\ Active(k)' = Absent
<1>1. UNCHANGED immutable
  BY DEF Rotate
<1> QED
  BY <1>1, RotateLayers DEF Shifts

LEMMA PushShifts ==
    ASSUME TypeOK, OneWriter, PipelineInv, LogInv, WriterInv,
           NEW c \in Client, Push(c), NEW k \in Key
    PROVE  Shifts(k) /\ Active(k)' = Active(k)
<1>1. /\ immutable' = Append(immutable, held[c]) /\ held[c] \in Table
      /\ immutable \in Seq(Table)
  BY DEF Push, insert, PipelineInv, CallsCarry, TypeOK
<1>2. \A i \in DOMAIN immutable' :
        (\E j \in DOMAIN immutable : immutable'[i] = immutable[j]) \/ immutable'[i] = held[c]
  <2>1. /\ DOMAIN immutable' = 1..(Len(immutable) + 1) /\ DOMAIN immutable = 1..Len(immutable)
        /\ Len(immutable) \in Nat
        /\ \A i \in 1..Len(immutable) : immutable'[i] = immutable[i]
        /\ immutable'[Len(immutable) + 1] = held[c]
    BY <1>1
  <2>2. \A i \in 1..(Len(immutable) + 1) : i \in 1..Len(immutable) \/ i = Len(immutable) + 1
    BY <2>1
  <2> QED
    BY <2>1, <2>2
<1>3. Over(Queued(k)', Cached(k)') = Over(Moving(k), Over(Queued(k), Cached(k)))
  BY PushLayers, OverAssoc
<1> QED
  BY <1>2, <1>3, PushLayers DEF Shifts

LEMMA LoadShifts ==
    ASSUME TypeOK, PipelineInv, CompactorLoad, NEW k \in Key
    PROVE  Shifts(k)
<1>1. UNCHANGED immutable
  BY DEF CompactorLoad
<1> QED
  BY <1>1, LoadLayers DEF Shifts

LEMMA PopShifts ==
    ASSUME TypeOK, PipelineInv, CompactorPop, NEW k \in Key
    PROVE  Shifts(k)
<1>1. immutable # << >> /\ immutable' = Tail(immutable) /\ immutable \in Seq(Table)
  BY PopLayers DEF TypeOK
<1>2. \A i \in DOMAIN immutable' : \E j \in DOMAIN immutable : immutable'[i] = immutable[j]
  <2>1. /\ DOMAIN immutable' = 1..(Len(immutable) - 1) /\ DOMAIN immutable = 1..Len(immutable)
        /\ Len(immutable) \in Nat
        /\ \A i \in 1..(Len(immutable) - 1) : immutable'[i] = immutable[i + 1]
    BY <1>1
  <2>2. \A i \in 1..(Len(immutable) - 1) : i + 1 \in 1..Len(immutable)
    BY <2>1
  <2> QED
    BY <2>1, <2>2
<1> QED
  BY <1>2, PopLayers DEF Shifts

----------------------------------------------------------------------------
(* The steps of a get, and the steps of others during it.                  *)

\* The call is where it was, and what was put on top of its key it has seen.
Waits(c) ==
    /\ pc'[c] = pc[c] /\ req'[c] = req[c] /\ gap'[c] = gap[c] /\ ret'[c] = ret[c]
    /\ seen[c] \subseteq seen'[c]
    /\ pc[c] \in {"immutable", "sstable"} =>
        \A k \in Key : req[c].key = k => Active(k)' \in {Active(k), Absent} \cup seen'[c]

\* The call is not a get, or has ended.
NotReading(c) == pc'[c] \notin {"immutable", "sstable", "done"} /\ ret'[c] = Absent

LEMMA ReadKept ==
    ASSUME TypeOK, OneWriter, LogInv, WriterInv, OnlySets, ReadInv,
           \A k \in Key : Shifts(k),
           \A c \in Client : Waits(c) \/ NotReading(c) \/ Reads(c)'
    PROVE  ReadInv'
<1> SUFFICES ASSUME NEW c \in Client PROVE Reads(c)'
  BY DEF ReadInv
<1>1. CASE Waits(c)
  <2>1. pc'[c] # "done" => ret'[c] = Absent
    BY <1>1 DEF ReadInv, Reads, Waits
  <2>2. pc'[c] = "done" /\ ~gap'[c] => ret'[c] \in seen'[c]
    BY <1>1 DEF ReadInv, Reads, Waits
  <2>3. ASSUME pc'[c] \in {"immutable", "sstable"}, ~gap'[c], NEW k \in Key, req'[c].key = k
        PROVE  Ahead(c, k)'
    <3>1. Ahead(c, k)
      BY <1>1, <2>3 DEF ReadInv, Reads, Waits
    <3> QED
      BY <1>1, <2>3, <3>1, AheadKept DEF Waits
  <2> QED
    BY <2>1, <2>2, <2>3 DEF Reads
<1>2. CASE NotReading(c)
  BY <1>2 DEF NotReading, Reads
<1> QED
  BY <1>1, <1>2

\* The call is where it was.
Still(c) ==
    pc'[c] = pc[c] /\ req'[c] = req[c] /\ gap'[c] = gap[c] /\ ret'[c] = ret[c] /\ seen'[c] = seen[c]

LEMMA OthersWait ==
    ASSUME NEW c \in Client, Still(c), \A k \in Key : Active(k)' \in {Active(k), Absent}
    PROVE  Waits(c)
BY DEF Waits, Still

\* The first lookup: with no table in transit, a key that is not in the
\* active table is in the queue or the cache.
LEMMA ReadGet ==
    ASSUME TypeOK, OneWriter, LogInv, WriterInv, NewestIsStore, OnlySets, ReadInv,
           NEW c \in Client, NEW k \in Key, Get(c, k)
    PROVE  /\ Reads(c)'
           /\ ~gap'[c] /\ pc'[c] = "done" => ret'[c] = store[k]
           /\ pc'[c] \in {"immutable", "done"} /\ pc[c] = "idle"
<1> DEFINE d == get(memtable, k)
<1>1. /\ pc[c] = "idle" /\ Answer(c, d, "immutable")
      /\ req' = [req EXCEPT ![c] = [key |-> k, datum |-> Absent]]
      /\ seen' = [seen EXCEPT ![c] = {store[k]}]
      /\ gap' = [gap EXCEPT ![c] = \E w \in Client : held[w] # Absent]
      /\ UNCHANGED << memtable, held, immutable, cache, store >>
  BY DEF Get, MayCall, tableVars
<1>2. d = Active(k) /\ d # Tombstone
  BY GetSettled DEF OnlySets, Active, TypeOK
<1>3. /\ req'[c].key = k /\ seen'[c] = {store[k]}
      /\ gap'[c] = (\E w \in Client : held[w] # Absent)
      /\ ret[c] = Absent
  BY <1>1 DEF TypeOK, ReadInv, Reads
<1>4. Active(k)' = Active(k) /\ Moving(k)' = Moving(k) /\ Queued(k)' = Queued(k)
      /\ Cached(k)' = Cached(k)
  BY <1>1, LayersFrame
<1>5. ~gap'[c] => Moving(k) = Absent
  <2>1. ~gap'[c] => TransitOf(held) = << >>
    BY <1>3, TransitNone
  <2> QED
    BY <2>1, LayerNone DEF Moving
<1>6. store[k] = Plain(Newest(k))
  BY DEF NewestIsStore
<1> HIDE DEF d
<1>7. CASE d # Absent
  <2>1. pc'[c] = "done" /\ ret'[c] = d
    BY <1>1, <1>2, <1>7 DEF Answer, TypeOK
  <2>2. store[k] = d
    BY <1>2, <1>6, <1>7 DEF Newest, Over, Plain
  <2> QED
    BY <1>1, <1>3, <2>1, <2>2 DEF Reads
<1>8. CASE d = Absent
  <2>1. pc'[c] = "immutable" /\ ret'[c] = Absent
    BY <1>1, <1>3, <1>8 DEF Answer, TypeOK
  <2>2. ~gap'[c] => store[k] = Plain(Over(Queued(k), Cached(k)))
    BY <1>2, <1>5, <1>6, <1>8 DEF Newest, Over
  <2>3. Plain(Over(Queued(k), Cached(k)))' = Plain(Over(Queued(k), Cached(k)))
    BY <1>4 DEF Plain, Over
  <2>4. ~gap'[c] => Ahead(c, k)'
    BY <1>2, <1>3, <1>4, <1>5, <1>8, <2>1, <2>2, <2>3 DEF Ahead
  <2> QED
    BY <1>1, <1>3, <2>1, <2>4 DEF Reads
<1> QED
  BY <1>7, <1>8

\* The second lookup.
LEMMA ReadImmutable ==
    ASSUME TypeOK, PipelineInv, OneWriter, LogInv, WriterInv, OnlySets, ReadInv,
           NEW c \in Client, GetImmutable(c)
    PROVE  Reads(c)' /\ pc'[c] \in {"sstable", "done"} /\ pc[c] = "immutable"
<1> DEFINE k == req[c].key
           d == get_queue(immutable, k)
<1>0. k \in Key
  BY DEF GetImmutable, PipelineInv, CallsCarry, Request
<1>1. /\ pc[c] = "immutable" /\ Answer(c, d, "sstable")
      /\ UNCHANGED << req, seen, gap, memtable, held, immutable, cache >>
  BY DEF GetImmutable, tableVars, histVars
<1>2. /\ d = Queued(k) /\ d # Tombstone
      /\ d = Absent => \A i \in DOMAIN immutable : write_sstable(immutable[i])[k] = Absent
  <2>1. /\ immutable \in Seq(Table) /\ DOMAIN immutable = 1..Len(immutable)
        /\ \A i \in 1..Len(immutable) : Settled(immutable[i])
    BY DEF OnlySets, TypeOK
  <2> HIDE DEF k
  <2> QED
    BY <1>0, <2>1, GetQueueFirst DEF Queued
<1>3. ret[c] = Absent /\ (~gap[c] => Ahead(c, k))
  BY <1>0, <1>1 DEF ReadInv, Reads
<1>4. PICK key \in Key : key = k
  BY <1>0
<1> HIDE DEF d, k
<1>5. Active(key)' = Active(key) /\ Moving(key)' = Moving(key) /\ Cached(key)' = Cached(key)
  BY <1>1, LayersFrame
<1>6. req'[c].key = key
  BY <1>1, <1>4 DEF k
<1>7. CASE d # Absent
  <2>1. pc'[c] = "done" /\ ret'[c] = d
    BY <1>1, <1>2, <1>7 DEF Answer, TypeOK
  <2>2. ~gap[c] => d \in seen[c]
    BY <1>1, <1>2, <1>3, <1>7 DEF Ahead, Over, Plain
  <2> QED
    BY <1>1, <2>1, <2>2 DEF Reads
<1>8. CASE d = Absent
  <2>1. pc'[c] = "sstable" /\ ret'[c] = Absent
    BY <1>1, <1>3, <1>8 DEF Answer, TypeOK
  <2>2. ~gap[c] => Plain(Cached(key)) \in seen[c]
    BY <1>1, <1>2, <1>3, <1>4, <1>8 DEF Ahead, Over
  <2>3. Plain(Cached(key))' = Plain(Cached(key))
    BY <1>5 DEF Plain
  <2>4. ~gap[c] => Ahead(c, key)'
    BY <1>1, <1>2, <1>3, <1>4, <1>5, <1>8, <2>1, <2>2, <2>3 DEF Ahead
  <2> QED
    BY <1>1, <1>6, <2>1, <2>4 DEF Reads
<1> QED
  BY <1>7, <1>8

\* The third lookup ends the get, found or not.
LEMMA ReadSSTable ==
    ASSUME TypeOK, PipelineInv, ReadInv, NEW c \in Client, GetSSTable(c)
    PROVE  Reads(c)' /\ pc'[c] = "done" /\ pc[c] = "sstable"
<1> DEFINE k == req[c].key
           d == search(DataOf(cache), k)
<1>0. k \in Key
  BY DEF GetSSTable, PipelineInv, CallsCarry, Request
<1>1. /\ pc[c] = "sstable" /\ Answer(c, d, "done")
      /\ UNCHANGED << req, seen, gap >>
  BY DEF GetSSTable, DataOf, histVars
<1>2. d = Plain(Cached(k))
  <2>1. DataOf(cache) \in Seq(Block)
    BY DataType DEF TypeOK
  <2> QED
    BY <1>0, <2>1, SearchFirst DEF Cached
<1>3. ret[c] = Absent /\ (~gap[c] => Ahead(c, k))
  BY <1>0, <1>1 DEF ReadInv, Reads
<1> HIDE DEF d, k
<1>4. d # Tombstone
  BY <1>2, TableAssumption DEF Plain
<1>5. pc'[c] = "done" /\ ret'[c] = d
  BY <1>1, <1>3, <1>4 DEF Answer, TypeOK
<1>6. ~gap[c] => d \in seen[c]
  BY <1>1, <1>2, <1>3 DEF Ahead
<1> QED
  BY <1>1, <1>5, <1>6 DEF Reads

\* A write during a get: the get may answer with what was there before or
\* with the new value.
LEMMA ReadInsert ==
    ASSUME TypeOK, OneWriter, LogInv, WriterInv, OnlySets, ReadInv,
           NEW e \in Entry, e.datum # Tombstone, Insert(e),
           UNCHANGED << held, immutable, cache, gap, ret >>,
           NEW c \in Client, pc[c] \in {"idle", "retry"},
           \/ UNCHANGED << pc, req >>
           \/ /\ pc' = [pc EXCEPT ![c] = "idle"]
              /\ \E r : req' = [req EXCEPT ![c] = r]
    PROVE  ReadInv'
<1>1. \A k \in Key : Shifts(k)
  BY FrameShifts
<1>2. ASSUME NEW d \in Client, pc'[d] = pc[d], req'[d] = req[d]
      PROVE  Waits(d)
  <2>1. seen'[d] = IF pc[d] \in {"immutable", "sstable"} /\ req[d].key = e.key
                   THEN seen[d] \cup {store'[e.key]} ELSE seen[d]
    BY DEF Insert
  <2>2. ASSUME NEW k \in Key, req[d].key = k, pc[d] \in {"immutable", "sstable"}
        PROVE  Active(k)' \in {Active(k), Absent} \cup seen'[d]
    <3>1. CASE k = e.key
      <4>1. Active(k)' = e.datum /\ store'[e.key] = e.datum
        BY <3>1, InsertLayers DEF Plain
      <4> QED
        BY <2>1, <2>2, <3>1, <4>1
    <3>2. CASE k # e.key
      BY <3>2, InsertLayers
    <3> QED
      BY <3>1, <3>2
  <2> QED
    BY <1>2, <2>1, <2>2 DEF Waits
<1>3. ASSUME NEW d \in Client PROVE Waits(d) \/ NotReading(d)
  <2>1. CASE pc'[d] = pc[d] /\ req'[d] = req[d]
    BY <1>2, <2>1
  <2>2. CASE ~(pc'[d] = pc[d] /\ req'[d] = req[d])
    <3>1. d = c /\ pc'[c] = "idle"
      BY <2>2 DEF TypeOK
    <3>2. ret[c] = Absent
      BY DEF ReadInv, Reads
    <3> QED
      BY <3>1, <3>2 DEF NotReading
  <2> QED
    BY <2>1, <2>2
<1> QED
  BY <1>1, <1>3, ReadKept

\* A step of a call that is no step of a get.
LEMMA OtherCalls ==
    ASSUME TypeOK, ReadInv, NEW c \in Client,
           \/ \E e : Write(c, e) /\ full(memtable)
           \/ Retry(c) /\ full(memtable)
           \/ CallPoisoned(c) \/ RotateFails(c) \/ Cancel(c) \/ Rotate(c) \/ Push(c)
           \/ Signal(c) \/ SignalClosed(c) \/ Return(c)
    PROVE  NotReading(c) /\ \A d \in Client : d # c => Still(d)
<1>0. pc[c] # "done" => ret[c] = Absent
  BY DEF ReadInv, Reads
<1>1. ASSUME NEW e, Write(c, e), full(memtable)
      PROVE  NotReading(c) /\ \A d \in Client : d # c => Still(d)
  <2>1. /\ pc[c] = "idle" /\ pc' = [pc EXCEPT ![c] = "rotate"]
        /\ req' = [req EXCEPT ![c] = e]
        /\ UNCHANGED << seen, gap, ret >>
    BY <1>1 DEF Write, MayCall
  <2> QED
    BY <1>0, <2>1 DEF NotReading, Still, TypeOK
<1>2. CASE Retry(c) /\ full(memtable)
  <2>1. /\ pc[c] = "retry" /\ pc' = [pc EXCEPT ![c] = "idle"]
        /\ req' = [req EXCEPT ![c] = Absent]
        /\ UNCHANGED << seen, gap, ret >>
    BY <1>2 DEF Retry
  <2> QED
    BY <1>0, <2>1 DEF NotReading, Still, TypeOK
<1>3. CASE Cancel(c)
  <2>1. pc[c] # "done"
    BY <1>3, LsmliteAssumption DEF Cancel
  <2>2. /\ pc' = [pc EXCEPT ![c] = "idle"]
        /\ req' = [req EXCEPT ![c] = Absent]
        /\ seen' = [seen EXCEPT ![c] = {}] /\ gap' = [gap EXCEPT ![c] = FALSE]
        /\ UNCHANGED ret
    BY <1>3 DEF Cancel
  <2> QED
    BY <1>0, <2>1, <2>2 DEF NotReading, Still, TypeOK
<1>4. CASE CallPoisoned(c) \/ RotateFails(c) \/ SignalClosed(c)
  <2>1. /\ pc[c] # "done" /\ pc' = [pc EXCEPT ![c] = "panicked"]
        /\ req' = req \/ req' = [req EXCEPT ![c] = Absent]
        /\ UNCHANGED << seen, gap, ret >>
    BY <1>4 DEF CallPoisoned, RotateFails, SignalClosed, histVars
  <2> QED
    BY <1>0, <2>1 DEF NotReading, Still, TypeOK
<1>5. CASE Rotate(c) \/ Push(c) \/ Signal(c)
  <2>1. PICK s \in {"push", "signal", "retry"} : pc' = [pc EXCEPT ![c] = s]
    BY <1>5 DEF Rotate, Push, Signal
  <2>2. pc[c] # "done" /\ UNCHANGED << req, seen, gap, ret >>
    BY <1>5 DEF Rotate, Push, Signal, histVars
  <2> QED
    BY <1>0, <2>1, <2>2 DEF NotReading, Still, TypeOK
<1>6. CASE Return(c)
  <2>1. /\ pc' = [pc EXCEPT ![c] = "idle"] /\ req' = [req EXCEPT ![c] = Absent]
        /\ ret' = [ret EXCEPT ![c] = Absent]
        /\ seen' = [seen EXCEPT ![c] = {}] /\ gap' = [gap EXCEPT ![c] = FALSE]
    BY <1>6 DEF Return
  <2> QED
    BY <2>1 DEF NotReading, Still, TypeOK
<1> QED
  BY <1>1, <1>2, <1>3, <1>4, <1>5, <1>6

LEMMA ReadOther ==
    ASSUME TypeOK, OneWriter, PipelineInv, LogInv, WriterInv, OnlySets, ReadInv, NEW c \in Client,
           \/ \E e : Write(c, e) /\ full(memtable)
           \/ Retry(c) /\ full(memtable)
           \/ CallPoisoned(c) \/ RotateFails(c) \/ Cancel(c) \/ Rotate(c) \/ Push(c)
           \/ Signal(c) \/ SignalClosed(c) \/ Return(c)
    PROVE  ReadInv'
<1>1. NotReading(c) /\ \A d \in Client : d # c => Still(d)
  BY OtherCalls
<1>3. ASSUME NEW k \in Key PROVE Shifts(k) /\ Active(k)' \in {Active(k), Absent}
  <2>1. CASE Rotate(c)
    BY <2>1, RotateShifts
  <2>2. CASE Push(c)
    BY <2>2, PushShifts
  <2>3. CASE /\ UNCHANGED << memtable, immutable, cache >>
             /\ UNCHANGED held
    BY <2>3, FrameShifts, LayersFrame
  <2>4. CASE Cancel(c)
    <3>1. UNCHANGED << memtable, immutable, cache >> /\ held' = [held EXCEPT ![c] = Absent]
      BY <2>4 DEF Cancel, tableVars
    <3>2. \A d \in Client : held'[d] \in {held[d], Absent}
      BY <3>1 DEF TypeOK
    <3>3. Moving(k)' \in {Moving(k), Absent}
      <4>1. CASE \A d \in Client : held[d] = Absent
        <5>1. held' = held
          BY <3>1, <4>1 DEF TypeOK
        <5> QED
          BY <5>1 DEF Moving
      <4>2. CASE held' = held
        BY <4>2 DEF Moving
      <4>3. CASE \A d \in Client : held'[d] = Absent
        BY <4>3, TransitNone, LayerNone DEF Moving
      <4>4. ASSUME NEW d \in Client, \A b \in Client : b # d => held[b] = Absent
            PROVE  held' = held \/ \A b \in Client : held'[b] = Absent
        BY <3>1, <4>4 DEF TypeOK
      <4> QED
        BY <4>1, <4>2, <4>3, <4>4, Layers
    <3>4. Active(k)' = Active(k) /\ Queued(k)' = Queued(k) /\ Cached(k)' = Cached(k)
      BY <3>1 DEF Active, Queued, Cached
    <3> QED
      BY <3>1, <3>3, <3>4 DEF Shifts
  <2> QED
    BY <2>1, <2>2, <2>3, <2>4
    DEF Write, Retry, CallPoisoned, RotateFails, Signal, SignalClosed, Return, tableVars
<1>4. \A d \in Client : d # c => Waits(d)
  BY <1>1, <1>3, OthersWait
<1> QED
  BY <1>1, <1>3, <1>4, ReadKept

LEMMA LookupOthers ==
    ASSUME TypeOK, NEW c \in Client,
           (\E k \in Key : Get(c, k)) \/ GetImmutable(c) \/ GetSSTable(c)
    PROVE  /\ UNCHANGED << memtable, held, immutable, cache, store >>
           /\ \A d \in Client : d # c => Still(d)
<1>1. ASSUME NEW v, NEW s, Answer(c, v, s) PROVE
        \A d \in Client : d # c => pc'[d] = pc[d] /\ ret'[d] = ret[d]
  <2>1. CASE v \in {Tombstone, Absent}
    BY <1>1, <2>1 DEF Answer, TypeOK
  <2>2. CASE v \notin {Tombstone, Absent}
    BY <1>1, <2>2 DEF Answer, TypeOK
  <2> QED
    BY <2>1, <2>2
<1>2. ASSUME NEW k \in Key, Get(c, k)
      PROVE  /\ UNCHANGED << memtable, held, immutable, cache, store >>
             /\ \A d \in Client : d # c => Still(d)
  <2>1. /\ Answer(c, get(memtable, k), "immutable")
        /\ req' = [req EXCEPT ![c] = [key |-> k, datum |-> Absent]]
        /\ seen' = [seen EXCEPT ![c] = {store[k]}]
        /\ gap' = [gap EXCEPT ![c] = \E w \in Client : held[w] # Absent]
        /\ UNCHANGED << memtable, held, immutable, cache, store >>
    BY <1>2 DEF Get, tableVars
  <2>2. \A d \in Client : d # c => req'[d] = req[d] /\ seen'[d] = seen[d] /\ gap'[d] = gap[d]
    BY <2>1 DEF TypeOK
  <2> QED
    BY <1>1, <2>1, <2>2 DEF Still
<1>3. CASE GetImmutable(c)
  <2>1. /\ Answer(c, get_queue(immutable, req[c].key), "sstable")
        /\ UNCHANGED << memtable, held, immutable, cache, store, req, seen, gap >>
    BY <1>3 DEF GetImmutable, tableVars, histVars
  <2> QED
    BY <1>1, <2>1 DEF Still
<1>4. CASE GetSSTable(c)
  <2>1. /\ Answer(c, search([i \in DOMAIN cache |-> cache[i].data], req[c].key), "done")
        /\ UNCHANGED << memtable, held, immutable, cache, store, req, seen, gap >>
    BY <1>4 DEF GetSSTable, tableVars, histVars
  <2> QED
    BY <1>1, <2>1 DEF Still
<1> QED
  BY <1>2, <1>3, <1>4

LEMMA ReadLookup ==
    ASSUME TypeOK, OneWriter, PipelineInv, LogInv, WriterInv, NewestIsStore, OnlySets, ReadInv,
           NEW c \in Client,
           (\E k \in Key : Get(c, k)) \/ GetImmutable(c) \/ GetSSTable(c)
    PROVE  ReadInv'
<1>1. UNCHANGED << memtable, held, immutable, cache >> /\ \A d \in Client : d # c => Still(d)
  BY LookupOthers
<1>2. \A k \in Key : Shifts(k) /\ Active(k)' = Active(k)
  BY <1>1, FrameShifts, LayersFrame
<1>3. Reads(c)'
  BY ReadGet, ReadImmutable, ReadSSTable
<1>4. \A d \in Client : d # c => Waits(d)
  BY <1>1, <1>2, OthersWait
<1> QED
  BY <1>2, <1>3, <1>4, ReadKept

\* Every step keeps what the gets can find.
LEMMA ReadStep ==
    ASSUME OneWriter, SetsOnly, TypeOK, PipelineInv, LogInv, WriterInv, NewestIsStore, OnlySets,
           ReadInv, NoMerge, [Next]_vars
    PROVE  ReadInv'
<1>1. CASE UNCHANGED vars \/ Quiescent
  <2>1. UNCHANGED << memtable, held, immutable, cache, pc, req, ret, gap, seen >>
    BY <1>1 DEF Quiescent, vars, clientVars, tableVars, histVars
  <2>2. \A k \in Key : Shifts(k) /\ Active(k)' = Active(k)
    BY <2>1, FrameShifts, LayersFrame
  <2>3. \A c \in Client : Waits(c)
    BY <2>1, <2>2 DEF Waits
  <2> QED
    BY <2>2, <2>3, ReadKept
<1>2. ASSUME NEW c \in Client, NEW k \in Key, Set(c, k) PROVE ReadInv'
  <2> DEFINE e == [key |-> k, datum |-> ops + 1]
  <2>1. Write(c, e) /\ e \in Entry /\ pc[c] = "idle"
    BY <1>2, WriteEntries DEF Set, Write, MayCall
  <2>2. e.datum # Tombstone
    BY TableAssumption DEF TypeOK, Value
  <2> HIDE DEF e
  <2>3. CASE ~full(memtable)
    <3>1. Insert(e) /\ UNCHANGED << pc, req, held, immutable, cache, gap, ret >>
      BY <2>1, <2>3 DEF Write
    <3> QED
      BY <2>1, <2>2, <3>1, ReadInsert
  <2>4. CASE full(memtable)
    BY <2>1, <2>4, ReadOther
  <2> QED
    BY <2>3, <2>4
<1>3. ASSUME NEW c \in Client, Retry(c) PROVE ReadInv'
  <2>1. CASE ~full(memtable)
    <3>1. /\ Insert(req[c]) /\ UNCHANGED << held, immutable, cache, gap, ret >>
          /\ pc[c] = "retry" /\ pc' = [pc EXCEPT ![c] = "idle"]
          /\ req' = [req EXCEPT ![c] = Absent]
      BY <1>3, <2>1 DEF Retry
    <3>2. req[c] \in Entry /\ req[c].datum # Tombstone
      BY <3>1, TableAssumption, LsmliteAssumption DEF PipelineInv, CallsCarry, OnlySets, Value
    <3> QED
      BY <3>1, <3>2, ReadInsert
  <2>2. CASE full(memtable)
    BY <1>3, <2>2, ReadOther
  <2> QED
    BY <2>1, <2>2
<1>4. ASSUME NEW c \in Client,
             \/ \E k \in Key : Set(c, k) \/ Delete(c, k) \/ Get(c, k)
             \/ CallPoisoned(c) \/ RotateFails(c) \/ Cancel(c) \/ Call(c)
      PROVE  ReadInv'
  <2>1. \A k \in Key : ~Delete(c, k)
    BY DEF SetsOnly, Delete
  <2> QED
    BY <1>2, <1>3, <1>4, <2>1, ReadOther, ReadLookup DEF Call
<1>5. CASE \/ Flusher \/ FlushCreateFails \/ FlushFails
           \/ Compactor \/ CompactorFails
           \/ DropSignalCompactor \/ DropSignalFlusher \/ DropInTask
  <2>1. /\ UNCHANGED << memtable, held, pc, req, ret, gap, seen >>
        /\ CompactorPop \/ UNCHANGED immutable
    BY <1>5, TasksFrame DEF clientVars, histVars
  <2>2. CompactorLoad \/ UNCHANGED cache
    BY <1>5, CacheKept
  <2>3. \A k \in Key : Shifts(k)
    BY <2>1, <2>2, LoadShifts, PopShifts, FrameShifts
  <2>4. \A k \in Key : Active(k)' = Active(k)
    BY <2>1 DEF Active
  <2>5. \A c \in Client : Waits(c)
    BY <2>1, <2>4 DEF Waits
  <2> QED
    BY <2>3, <2>5, ReadKept
<1> QED
  BY <1>1, <1>4, <1>5 DEF Next

LEMMA ReadInit == Init => ReadInv
BY DEF Init, ReadInv, Reads

----------------------------------------------------------------------------
(* The refinement, step by step.                                           *)

\* A step that no get KVStore speaks about takes part in is a stuttering one.
LEMMA KVStutter ==
    ASSUME UNCHANGED store,
           \A c \in Readers : Still(c) \/ (~Asking(c) /\ ~Asking(c)')
    PROVE  UNCHANGED << store, Asked, May, Answered >>
<1>1. \A c \in Readers : Still(c) => Asking(c)' = Asking(c)
  BY DEF Still, Asking
<1>2. Asked' = Asked
  BY <1>1 DEF Asked, Still
<1>3. May' = May
  BY <1>1 DEF May, Still
<1>4. Answered' = Answered
  BY <1>1 DEF Answered, Still
<1> QED
  BY <1>2, <1>3, <1>4

\* A step of one call changes the abstract state of that call only.
LEMMA KVOne ==
    ASSUME NEW c \in Readers, \A d \in Client : d # c => Still(d)
    PROVE  /\ Asked' = [Asked EXCEPT ![c] = IF Asking(c)' THEN req'[c].key ELSE Absent]
           /\ May' = [May EXCEPT ![c] = IF Asking(c)' THEN seen'[c] ELSE {}]
           /\ Answered' = [Answered EXCEPT ![c] = IF Asking(c)' /\ pc'[c] = "done"
                                                  THEN << ret'[c] >> ELSE << >>]
<1>1. \A d \in Readers : d # c => Still(d) /\ Asking(d)' = Asking(d)
  BY DEF Still, Asking, Client
<1>2. Asked' = [Asked EXCEPT ![c] = IF Asking(c)' THEN req'[c].key ELSE Absent]
  BY <1>1 DEF Asked, Still
<1>3. May' = [May EXCEPT ![c] = IF Asking(c)' THEN seen'[c] ELSE {}]
  BY <1>1 DEF May, Still
<1>4. Answered' = [Answered EXCEPT ![c] = IF Asking(c)' /\ pc'[c] = "done"
                                          THEN << ret'[c] >> ELSE << >>]
  BY <1>1 DEF Answered, Still
<1> QED
  BY <1>2, <1>3, <1>4

\* The insertion of a value is KVStore's Set.
LEMMA KVInsert ==
    ASSUME TypeOK, PipelineInv, ReadInv, NEW e \in Entry, e.datum \in 1..MaxOps, Insert(e),
           UNCHANGED << gap, ret >>,
           NEW c \in Client, pc[c] \in {"idle", "retry"},
           \/ UNCHANGED << pc, req >>
           \/ /\ pc' = [pc EXCEPT ![c] = "idle"]
              /\ \E r : req' = [req EXCEPT ![c] = r]
    PROVE  KV!Next
<1>1. /\ store' = [store EXCEPT ![e.key] = e.datum] /\ store'[e.key] = e.datum
      /\ e.key \in Key /\ e.key # Absent
  <2>1. e.datum # Tombstone /\ e.key \in Key
    BY TableAssumption DEF Entry, Value
  <2> QED
    BY <2>1, TableAssumption DEF Insert, TypeOK
<1>2. ASSUME NEW d \in Readers
      PROVE  /\ Asking(d)' = Asking(d)
             /\ Asking(d) => pc'[d] = pc[d] /\ req'[d] = req[d]
             /\ Asking(d) /\ pc[d] = "done" => seen'[d] = seen[d]
             /\ Asking(d) /\ pc[d] # "done" =>
                    seen'[d] = IF req[d].key = e.key THEN seen[d] \cup {e.datum} ELSE seen[d]
             /\ ret'[d] = ret[d]
  <2>1. d \in Client
    BY DEF Client
  <2>2. (pc'[d] = pc[d] /\ req'[d] = req[d]) \/ (d = c /\ pc'[d] = "idle")
    BY <2>1 DEF TypeOK
  <2>3. seen'[d] = IF pc[d] \in {"immutable", "sstable"} /\ req[d].key = e.key
                   THEN seen[d] \cup {store'[e.key]} ELSE seen[d]
    BY <2>1 DEF Insert
  <2> QED
    BY <1>1, <2>2, <2>3 DEF Asking
<1>3. Asked' = Asked
  BY <1>2 DEF Asked
<1>4. Answered' = Answered
  BY <1>2 DEF Answered
<1>5. May' = [d \in Readers |-> IF Asked[d] = e.key /\ Answered[d] = << >>
                                THEN May[d] \cup {e.datum} ELSE May[d]]
  <2>1. ASSUME NEW d \in Readers
        PROVE  (IF Asking(d)' THEN seen'[d] ELSE {})
                 = IF Asked[d] = e.key /\ Answered[d] = << >> THEN May[d] \cup {e.datum} ELSE May[d]
    <3>1. CASE ~Asking(d)
      BY <1>1, <1>2, <3>1 DEF Asked, May
    <3>2. CASE Asking(d) /\ pc[d] = "done"
      BY <1>1, <1>2, <3>2 DEF Asked, May, Answered
    <3>3. CASE Asking(d) /\ pc[d] # "done"
      BY <1>1, <1>2, <3>3 DEF Asked, May, Answered
    <3> QED
      BY <3>1, <3>2, <3>3
  <2> QED
    BY <2>1 DEF May
<1>6. KV!Set(e.key, e.datum)
  BY <1>1, <1>3, <1>4, <1>5 DEF KV!Set
<1> QED
  BY <1>1, <1>6 DEF KV!Next

\* The first lookup is KVStore's Ask, with the answer if it is found there.
LEMMA KVGet ==
    ASSUME TypeOK, OneWriter, LogInv, WriterInv, NewestIsStore, OnlySets, ReadInv,
           NEW c \in Client, NEW k \in Key, Get(c, k)
    PROVE  KV!Next \/ UNCHANGED KV!vars
<1>1. /\ c \in Readers /\ pc[c] = "idle" /\ ~Asking(c)
      /\ UNCHANGED store /\ req'[c].key = k /\ seen'[c] = {store[k]}
  BY DEF Get, MayCall, TypeOK, Asking
<1>2. \A d \in Client : d # c => Still(d)
  BY LookupOthers
<1>3. pc'[c] \in {"immutable", "done"} /\ (~gap'[c] /\ pc'[c] = "done" => ret'[c] = store[k])
  BY ReadGet
<1>4. CASE gap'[c]
  <2>1. ~Asking(c)'
    BY <1>4 DEF Asking
  <2>2. UNCHANGED << store, Asked, May, Answered >>
    BY <1>1, <1>2, <2>1, KVStutter DEF Client
  <2> QED
    BY <2>2 DEF KV!vars
<1>5. CASE ~gap'[c]
  <2>1. Asking(c)'
    BY <1>3, <1>5 DEF Asking
  <2>2. /\ Asked' = [Asked EXCEPT ![c] = k] /\ May' = [May EXCEPT ![c] = {store[k]}]
        /\ Answered' = [Answered EXCEPT ![c] = IF pc'[c] = "done" THEN << ret'[c] >> ELSE << >>]
    BY <1>1, <1>2, <2>1, KVOne
  <2>3. Asked[c] = Absent
    BY <1>1 DEF Asked
  <2>4. \E a \in {<< >>, << store[k] >>} : Answered' = [Answered EXCEPT ![c] = a]
    BY <1>3, <1>5, <2>2
  <2>5. KV!Ask(c, k)
    BY <1>1, <2>2, <2>3, <2>4 DEF KV!Ask
  <2> QED
    BY <1>1, <2>5 DEF KV!Next
<1> QED
  BY <1>4, <1>5

\* The later lookups are KVStore's Answer, or nothing if the layer has no
\* data for the key and there is another one.
LEMMA KVLookup ==
    ASSUME TypeOK, PipelineInv, NEW c \in Client, c \in Readers,
           GetImmutable(c) \/ GetSSTable(c), ReadInv',
           pc[c] \in {"immutable", "sstable"}, pc'[c] \in {"sstable", "done"}
    PROVE  KV!Next \/ UNCHANGED KV!vars
<1>1. UNCHANGED << store, req, seen, gap >>
  BY DEF GetImmutable, GetSSTable, histVars
<1>2. \A d \in Client : d # c => Still(d)
  BY LookupOthers
<1>3. Asking(c)' = Asking(c) /\ (Asking(c) <=> ~gap[c]) /\ req[c].key # Absent
  BY <1>1, TableAssumption DEF Asking, PipelineInv, CallsCarry, Request
<1>4. CASE gap[c]
  <2>1. UNCHANGED << store, Asked, May, Answered >>
    BY <1>1, <1>2, <1>3, <1>4, KVStutter DEF Client
  <2> QED
    BY <2>1 DEF KV!vars
<1>5. CASE ~gap[c]
  <2>1. /\ Asked[c] = req[c].key /\ May[c] = seen[c] /\ Answered[c] = << >>
    BY <1>3, <1>5 DEF Asked, May, Answered
  <2>2. /\ Asked' = [Asked EXCEPT ![c] = req[c].key] /\ May' = [May EXCEPT ![c] = seen[c]]
        /\ Answered' = [Answered EXCEPT ![c] = IF pc'[c] = "done" THEN << ret'[c] >> ELSE << >>]
    BY <1>1, <1>2, <1>3, <1>5, KVOne
  <2>3. Asked' = Asked /\ May' = May
    BY <2>1, <2>2 DEF Asked, May
  <2>4. CASE pc'[c] = "done"
    <3>1. ret'[c] \in May[c]
      BY <1>1, <1>5, <2>1, <2>4 DEF ReadInv, Reads
    <3>2. Answered' = [Answered EXCEPT ![c] = << ret'[c] >>]
      BY <2>2, <2>4
    <3>3. KV!Answer(c)
      BY <1>1, <1>3, <2>1, <2>3, <3>1, <3>2 DEF KV!Answer
    <3> QED
      BY <3>3 DEF KV!Next
  <2>5. CASE pc'[c] = "sstable"
    <3>1. Answered' = Answered
      BY <2>1, <2>2, <2>5 DEF Answered
    <3> QED
      BY <1>1, <2>3, <3>1 DEF KV!vars
  <2> QED
    BY <2>4, <2>5
<1> QED
  BY <1>4, <1>5

LEMMA KVReturn ==
    ASSUME TypeOK, ReadInv, NEW c \in Client, Return(c)
    PROVE  KV!Next \/ UNCHANGED KV!vars
<1>1. /\ pc[c] = "done" /\ pc'[c] = "idle" /\ ~Asking(c)' /\ UNCHANGED store
      /\ \A d \in Client : d # c => Still(d)
  <2>1. \A d \in Client : d # c => Still(d)
    BY OtherCalls
  <2> QED
    BY <2>1 DEF Return, TypeOK, Asking
<1>2. CASE Asking(c) /\ c \in Readers
  <2>1. Answered[c] # << >>
    BY <1>1, <1>2 DEF Answered
  <2>2. /\ Asked' = [Asked EXCEPT ![c] = Absent] /\ May' = [May EXCEPT ![c] = {}]
        /\ Answered' = [Answered EXCEPT ![c] = << >>]
    BY <1>1, <1>2, KVOne
  <2>3. KV!Return(c)
    BY <1>1, <2>1, <2>2 DEF KV!Return
  <2> QED
    BY <1>2, <2>3 DEF KV!Next
<1>3. CASE ~(Asking(c) /\ c \in Readers)
  <2>1. UNCHANGED << store, Asked, May, Answered >>
    BY <1>1, <1>3, KVStutter DEF Client
  <2> QED
    BY <2>1 DEF KV!vars
<1> QED
  BY <1>2, <1>3

\* The other steps of a call are no steps of the abstract store.
LEMMA KVOther ==
    ASSUME HandsOver, GetsFinish, TypeOK, ReadInv, NEW c \in Client,
           \/ \E e : Write(c, e) /\ full(memtable)
           \/ Retry(c) /\ full(memtable)
           \/ CallPoisoned(c) \/ RotateFails(c) \/ Cancel(c) \/ Rotate(c) \/ Push(c)
           \/ Signal(c) \/ SignalClosed(c)
    PROVE  UNCHANGED KV!vars
<1>1. NotReading(c) /\ \A d \in Client : d # c => Still(d)
  BY OtherCalls
<1>2. UNCHANGED store
  BY DEF Write, Retry, CallPoisoned, RotateFails, Cancel, Rotate, Push, Signal, SignalClosed,
     histVars
<1>3. pc[c] \notin {"immutable", "sstable", "done"}
  <2>1. CASE Cancel(c)
    BY <2>1, LsmliteAssumption DEF Cancel, GetsFinish
  <2> QED
    BY <2>1 DEF Write, MayCall, Retry, CallPoisoned, RotateFails, Rotate, Push, Signal, SignalClosed
<1>4. ~Asking(c) /\ ~Asking(c)'
  BY <1>1, <1>3 DEF Asking, NotReading
<1>5. UNCHANGED << store, Asked, May, Answered >>
  BY <1>1, <1>2, <1>4, KVStutter DEF Client
<1> QED
  BY <1>5 DEF KV!vars

LEMMA KVStep ==
    ASSUME OneWriter, SetsOnly, HandsOver, GetsFinish, TypeOK, PipelineInv, LogInv, WriterInv,
           NewestIsStore, OnlySets, ReadInv, ReadInv', NoMerge, [Next]_vars
    PROVE  KV!Next \/ UNCHANGED KV!vars
<1>1. CASE \/ UNCHANGED vars \/ Quiescent
           \/ Flusher \/ FlushCreateFails \/ FlushFails
           \/ Compactor \/ CompactorFails
           \/ DropSignalCompactor \/ DropSignalFlusher \/ DropInTask
  <2>1. UNCHANGED << pc, req, ret, gap, seen, store >>
    BY <1>1, TasksFrame DEF Quiescent, vars, clientVars, histVars
  <2>2. UNCHANGED << store, Asked, May, Answered >>
    BY <2>1, KVStutter DEF Still
  <2> QED
    BY <2>2 DEF KV!vars
<1>2. ASSUME NEW c \in Client, NEW k \in Key, Set(c, k)
      PROVE  KV!Next \/ UNCHANGED KV!vars
  <2> DEFINE e == [key |-> k, datum |-> ops + 1]
  <2>1. Write(c, e) /\ e \in Entry /\ pc[c] = "idle"
    BY <1>2, WriteEntries DEF Set, Write, MayCall
  <2>2. e.datum \in 1..MaxOps
    BY <2>1, LsmliteAssumption DEF TypeOK, Write
  <2> HIDE DEF e
  <2>3. CASE ~full(memtable)
    <3>1. Insert(e) /\ UNCHANGED << pc, req, gap, ret >>
      BY <2>1, <2>3 DEF Write
    <3> QED
      BY <2>1, <2>2, <3>1, KVInsert
  <2>4. CASE full(memtable)
    BY <2>1, <2>4, KVOther
  <2> QED
    BY <2>3, <2>4
<1>3. ASSUME NEW c \in Client, Retry(c) PROVE KV!Next \/ UNCHANGED KV!vars
  <2>1. CASE ~full(memtable)
    <3>1. /\ Insert(req[c]) /\ UNCHANGED << gap, ret >>
          /\ pc[c] = "retry" /\ pc' = [pc EXCEPT ![c] = "idle"]
          /\ req' = [req EXCEPT ![c] = Absent]
      BY <1>3, <2>1 DEF Retry
    <3>2. req[c] \in Entry /\ req[c].datum \in 1..MaxOps
      BY <3>1 DEF PipelineInv, CallsCarry, OnlySets
    <3> QED
      BY <3>1, <3>2, KVInsert
  <2>2. CASE full(memtable)
    BY <1>3, <2>2, KVOther
  <2> QED
    BY <2>1, <2>2
<1>4. ASSUME NEW c \in Client, GetImmutable(c) \/ GetSSTable(c)
      PROVE  KV!Next \/ UNCHANGED KV!vars
  <2>1. CASE c \in Readers
    <3>1. pc[c] \in {"immutable", "sstable"} /\ pc'[c] \in {"sstable", "done"}
      BY <1>4, ReadImmutable, ReadSSTable
    <3> QED
      BY <1>4, <2>1, <3>1, KVLookup
  <2>2. CASE c \notin Readers
    <3>1. UNCHANGED store /\ \A d \in Client : d # c => Still(d)
      BY <1>4, LookupOthers
    <3>2. UNCHANGED << store, Asked, May, Answered >>
      BY <2>2, <3>1, KVStutter DEF Client
    <3> QED
      BY <3>2 DEF KV!vars
  <2> QED
    BY <2>1, <2>2
<1>5. ASSUME NEW c \in Client,
             \/ \E k \in Key : Set(c, k) \/ Delete(c, k) \/ Get(c, k)
             \/ CallPoisoned(c) \/ RotateFails(c) \/ Cancel(c) \/ Call(c)
      PROVE  KV!Next \/ UNCHANGED KV!vars
  <2>1. \A k \in Key : ~Delete(c, k)
    BY DEF SetsOnly, Delete
  <2> QED
    BY <1>2, <1>3, <1>4, <1>5, <2>1, KVGet, KVReturn, KVOther DEF Call
<1> QED
  BY <1>1, <1>5 DEF Next

LEMMA KVInit == Init => KV!Init
<1> SUFFICES ASSUME Init PROVE KV!Init
  OBVIOUS
<1>1. store = [k \in Key |-> Absent] /\ \A c \in Readers : ~Asking(c)
  BY DEF Init, Asking, Client
<1>2. Asked = [c \in Readers |-> Absent]
  BY <1>1 DEF Asked
<1>3. May = [c \in Readers |-> {}]
  BY <1>1 DEF May
<1>4. Answered = [c \in Readers |-> << >>]
  BY <1>1 DEF Answered
<1> QED
  BY <1>1, <1>2, <1>3, <1>4 DEF KV!Init

\* Until a merge, the engine with one writer that sets implements the
\* key-value store, for any number of readers, keys and writes, any table
\* size, queue lengths and file faults: a set takes effect in the one step of
\* its insertion, and a get answers with a value its key had during the call,
\* although tables move down the layers while it looks at one after another.
THEOREM StoreImplemented ==
    ASSUME OneWriter, SetsOnly, HandsOver, GetsFinish
    PROVE  Spec /\ []NoMerge => ImplementsKVStore
<1>1. Init => OnlySets /\ ReadInv /\ KV!Init
  BY SetsInit, ReadInit, KVInit
<1>2. TypeOK /\ PipelineInv /\ OnlySets /\ [Next]_vars => OnlySets'
  BY SetsStep
<1>3. TypeOK /\ PipelineInv /\ LogInv /\ WriterInv /\ NewestIsStore /\ OnlySets /\ ReadInv
        /\ NoMerge /\ [Next]_vars => ReadInv'
  BY ReadStep
<1>4. TypeOK /\ PipelineInv /\ LogInv /\ WriterInv /\ NewestIsStore /\ OnlySets /\ ReadInv
        /\ ReadInv' /\ NoMerge /\ [Next]_vars => [KV!Next]_(KV!vars)
  BY KVStep
<1> QED
  BY <1>1, <1>2, <1>3, <1>4, Inductive, LogInductive, WriterInductive, NewestUntilMerge, PTL
  DEF Spec, ImplementsKVStore, KV!Spec

\* With fewer writes than compaction_rate there is no merge to exclude.
THEOREM FewWritesImplementStore ==
    ASSUME OneWriter, SetsOnly, HandsOver, GetsFinish, MaxOps < CompactionRate
    PROVE  Spec => ImplementsKVStore
BY StoreImplemented, FewWritesNoMerge, PTL
=============================================================================
