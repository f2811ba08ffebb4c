------------------------ MODULE LsmliteRestartProofs ------------------------
(***************************************************************************)
(* Proofs about the engine that may be stopped at any step and started     *)
(* again from its files, for every value of the constants.                 *)
(*                                                                         *)
(*   - Through any number of stops and starts, failed ones included, the   *)
(*     invariants of the engine that runs hold (EngineAcrossRestarts).     *)
(*   - A start that completes serves what the files held (StartsRecover),  *)
(*     and the first one always finds room for the records of a log        *)
(*     (FirstLogsFit).                                                     *)
(*   - The first stop loses only what log buffers hold (StopLosesBuffers): *)
(*     a key's newest record is in the newest log or file that has one.    *)
(***************************************************************************)
EXTENDS LsmliteRestart, LsmliteStoreProofs

\* Before the process first stops only the engine runs.
UntilRestart ==
    /\ crashes \in Nat
    /\ crashes = 0 => phase = "running" /\ TypeOK /\ PipelineInv /\ LogInv

\* The process stops, starts and runs by steps that keep this.
LEMMA RestartStep ==
    ASSUME UntilRestart, [RestartNext]_restartVars
    PROVE  UntilRestart'
<1>1. CASE UNCHANGED restartVars
  <2>1. UNCHANGED << crashes, phase, vars >>
    BY <1>1 DEF restartVars
  <2>2. crashes = 0 => TypeOK' /\ PipelineInv' /\ LogInv'
    BY <2>1, TypeStep, PipelineStep, LogStep DEF UntilRestart
  <2> QED
    BY <2>1, <2>2 DEF UntilRestart
<1>2. CASE Run
  <2>1. UNCHANGED << crashes, phase >> /\ Next
    BY <1>2 DEF Run
  <2>2. crashes = 0 => TypeOK' /\ PipelineInv' /\ LogInv'
    BY <2>1, TypeStep, PipelineStep, LogStep DEF UntilRestart
  <2> QED
    BY <2>1, <2>2 DEF UntilRestart
<1>3. CASE Crash
  <2>1. crashes' = crashes + 1
    BY <1>3 DEF Crash
  <2> QED
    BY <2>1 DEF UntilRestart
<1>4. CASE (\E p \in StartIn : Start(p)) \/ StartStep \/ Abandoned
  <2>1. crashes' = crashes /\ phase # "running"
    BY <1>4 DEF Start, StartStep, StartMemtable, StartUnlink, StartCache, StartReplay,
                StartReplayUnlink, StartQueue, StartSignal, Abandoned, restartVars
  <2> QED
    BY <2>1 DEF UntilRestart
<1> QED
  BY <1>1, <1>2, <1>3, <1>4 DEF RestartNext

\* Until the first restart every table that is not in the cache can be rebuilt
\* from its log and buffer or from a complete SSTable file, at whatever step
\* of a rotation, a flush or a merge the process is stopped.
THEOREM RecoverableWhenStopped == RestartSpec => []RecoverableUntilRestart
<1>1. RestartInit => UntilRestart
  BY InitInv, LogInit DEF RestartInit, UntilRestart
<1>2. UntilRestart /\ [RestartNext]_restartVars => UntilRestart'
  BY RestartStep
<1>3. UntilRestart => RecoverableUntilRestart
  BY LogsRecover DEF UntilRestart, RecoverableUntilRestart
<1> QED
  BY <1>1, <1>2, <1>3, PTL DEF RestartSpec

\* The tables of a replay after 0, 1, ... n records of the log.
Replays(g, log, ts, n) ==
    g = [m \in 0..n |->
            IF m = 0 THEN NewTable(ts) ELSE insert_record_from_wal(g[m - 1], log[m])]

\* A replay exists,
LEMMA ReplaysExist ==
    ASSUME NEW log, NEW ts, NEW n \in Nat
    PROVE  \E g : Replays(g, log, ts, n)
<1> DEFINE S == {m \in Nat : \E g : Replays(g, log, ts, m)}
<1>1. 0 \in S
  <2> DEFINE g == [m \in 0..0 |-> NewTable(ts)]
  <2>1. Replays(g, log, ts, 0)
    BY DEF Replays
  <2> QED
    BY <2>1
<1>2. ASSUME NEW m \in 0..n, m \in S PROVE m + 1 \in S
  <2>1. PICK g : Replays(g, log, ts, m)
    BY <1>2
  <2> DEFINE x == insert_record_from_wal(g[m], log[m + 1])
             h == [i \in 0..(m + 1) |-> IF i <= m THEN g[i] ELSE x]
  <2>2. \A i \in 0..m : g[i] = IF i = 0 THEN NewTable(ts)
                                        ELSE insert_record_from_wal(g[i - 1], log[i])
    <3> DEFINE F(f, i) == IF i = 0 THEN NewTable(ts)
                                   ELSE insert_record_from_wal(f[i - 1], log[i])
    <3>1. g = [i \in 0..m |-> F(g, i)]
      BY <2>1 DEF Replays
    <3> HIDE DEF F
    <3>2. \A i \in 0..m : g[i] = F(g, i)
      BY <3>1
    <3> QED
      BY <3>2 DEF F
  <2>3. \A i \in 0..(m + 1) :
          h[i] = IF i = 0 THEN NewTable(ts) ELSE insert_record_from_wal(h[i - 1], log[i])
    <3> SUFFICES ASSUME NEW i \in 0..(m + 1)
                 PROVE  h[i] = IF i = 0 THEN NewTable(ts)
                                        ELSE insert_record_from_wal(h[i - 1], log[i])
      OBVIOUS
    <3>1. CASE i <= m
      <4>1. i \in 0..m /\ h[i] = g[i]
        BY <3>1
      <4>2. i # 0 => i - 1 \in 0..(m + 1) /\ i - 1 <= m
        BY <3>1
      <4>3. i # 0 => h[i - 1] = g[i - 1]
        BY <4>2
      <4> HIDE DEF h
      <4> QED
        BY <2>2, <4>1, <4>3
    <3>2. CASE i = m + 1
      <4>1. h[i] = x /\ i # 0 /\ i - 1 = m /\ h[m] = g[m]
        BY <3>2
      <4> HIDE DEF h
      <4> QED
        BY <3>2, <4>1
    <3> QED
      BY <3>1, <3>2
  <2>4. Replays(h, log, ts, m + 1)
    <3> DEFINE F(f, i) == IF i = 0 THEN NewTable(ts)
                                   ELSE insert_record_from_wal(f[i - 1], log[i])
    <3>1. \A i \in 0..(m + 1) : h[i] = F(h, i)
      BY <2>3
    <3>2. DOMAIN h = 0..(m + 1) /\ h = [i \in 0..(m + 1) |-> h[i]]
      OBVIOUS
    <3> HIDE DEF F, h
    <3>3. h = [i \in 0..(m + 1) |-> F(h, i)]
      BY <3>1, <3>2
    <3> QED
      BY <3>3 DEF Replays, F
  <2> QED
    BY <2>4
<1>3. \A m \in 0..n : m \in S
  <2>1. \A m \in 0..n : m < n /\ m \in S => m + 1 \in S
    BY <1>2
  <2> HIDE DEF S
  <2> QED
    BY <1>1, <2>1, Climb
<1> QED
  BY <1>3

\* by these steps,
Steps(g, log, ts, n) ==
    /\ g[0] = NewTable(ts)
    /\ \A m \in 0..n : m < n => g[m + 1] = insert_record_from_wal(g[m], log[m + 1])

LEMMA ReplaysAt ==
    ASSUME NEW log, NEW ts, NEW n \in Nat, NEW g, Replays(g, log, ts, n)
    PROVE  Steps(g, log, ts, n)
<1> DEFINE F(f, i) == IF i = 0 THEN NewTable(ts)
                               ELSE insert_record_from_wal(f[i - 1], log[i])
<1>1. g = [i \in 0..n |-> F(g, i)]
  BY DEF Replays
<1> HIDE DEF F
<1>2. \A i \in 0..n : g[i] = F(g, i)
  BY <1>1
<1>3. g[0] = NewTable(ts)
  BY <1>2 DEF F
<1>4. ASSUME NEW m \in 0..n, m < n
      PROVE  g[m + 1] = insert_record_from_wal(g[m], log[m + 1])
  <2>1. m + 1 \in 0..n /\ m + 1 # 0 /\ m + 1 - 1 = m
    BY <1>4
  <2> QED
    BY <1>2, <2>1 DEF F
<1> QED
  BY <1>3, <1>4 DEF Steps

\* and from_wal is its last table, whatever longer log it is a part of.
Begins(log, long, n) ==
    /\ log \in Seq(Entry) /\ n \in Nat /\ Len(log) <= n
    /\ \A i \in 1..Len(log) : long[i] = log[i]

LEMMA ReplaysEnd ==
    ASSUME NEW log, NEW long, NEW ts, NEW n, Begins(log, long, n),
           NEW g, Replays(g, long, ts, n)
    PROVE  from_wal(log, ts) = g[Len(log)]
<1> DEFINE l == Len(log)
           f == CHOOSE h : Replays(h, log, ts, l)
<1>1. l \in Nat /\ n \in Nat /\ l <= n /\ \A i \in 1..l : long[i] = log[i]
  BY DEF Begins
<1>2. Replays(f, log, ts, l)
  BY <1>1, ReplaysExist
<1>s. Steps(f, log, ts, l) /\ Steps(g, long, ts, n)
  BY <1>1, <1>2, ReplaysAt
<1>3. from_wal(log, ts) = f[l]
  BY DEF from_wal, Replays
<1> HIDE DEF f
<1> DEFINE S == {m \in Nat : m <= l => f[m] = g[m]}
<1>4. 0 \in S
  BY <1>1, <1>s DEF Steps
<1>5. ASSUME NEW m \in 0..l, m < l, m \in S PROVE m + 1 \in S
  <2>1. m \in 0..n /\ m < n /\ m + 1 \in 1..l /\ f[m] = g[m]
    BY <1>1, <1>5
  <2>2. f[m + 1] = insert_record_from_wal(f[m], log[m + 1])
    BY <1>1, <1>s, <1>5 DEF Steps
  <2>3. g[m + 1] = insert_record_from_wal(g[m], long[m + 1])
    BY <1>s, <2>1 DEF Steps
  <2> QED
    BY <1>1, <2>1, <2>2, <2>3
<1>6. \A m \in 0..l : m \in S
  <2> HIDE DEF S
  <2> QED
    BY <1>1, <1>4, <1>5, Climb
<1> QED
  BY <1>1, <1>3, <1>6

\* What is missing stays missing.
LEMMA InsertAbsent == \A e : insert_record_from_wal(Absent, e) = Absent
BY DEF insert_record_from_wal

\* The replay of no records, and of one more.
LEMMA FromWalEmpty ==
    ASSUME NEW ts
    PROVE  from_wal(<< >>, ts) = NewTable(ts)
<1>1. PICK g : Replays(g, << >>, ts, 0)
  BY ReplaysExist
<1> DEFINE log == << >>
<1>2. log \in Seq(Entry) /\ Len(log) = 0
  OBVIOUS
<1>3. from_wal(log, ts) = g[Len(log)]
  <2> HIDE DEF log
  <2>1. Replays(g, log, ts, 0)
    BY <1>1 DEF log
  <2>2. Begins(log, log, 0)
    BY <1>2 DEF Begins
  <2> QED
    BY <2>1, <2>2, ReplaysEnd
<1>4. Steps(g, << >>, ts, 0)
  BY <1>1, ReplaysAt
<1> QED
  BY <1>2, <1>3, <1>4 DEF Steps

LEMMA FromWalAppend ==
    ASSUME NEW log \in Seq(Entry), NEW e \in Entry, NEW ts
    PROVE  from_wal(Append(log, e), ts) = insert_record_from_wal(from_wal(log, ts), e)
<1> DEFINE long == Append(log, e)
           n == Len(log)
<1>1. /\ long \in Seq(Entry) /\ Len(long) = n + 1 /\ n \in Nat /\ n + 1 \in Nat
      /\ n <= n + 1 /\ n + 1 <= n + 1 /\ n \in 0..(n + 1) /\ n < n + 1
      /\ \A i \in 1..n : long[i] = log[i]
      /\ long[n + 1] = e
  OBVIOUS
<1> HIDE DEF long
<1>2. PICK g : Replays(g, long, ts, n + 1)
  BY <1>1, ReplaysExist
<1>b. Begins(log, long, n + 1) /\ Begins(long, long, n + 1)
  BY <1>1 DEF Begins
<1>3. from_wal(log, ts) = g[n]
  BY <1>b, <1>2, ReplaysEnd
<1>4. from_wal(long, ts) = g[n + 1]
  BY <1>1, <1>b, <1>2, ReplaysEnd
<1>s. Steps(g, long, ts, n + 1)
  BY <1>1, <1>2, ReplaysAt
<1>5. g[n + 1] = insert_record_from_wal(g[n], long[n + 1])
  BY <1>1, <1>s DEF Steps
<1> QED
  BY <1>1, <1>3, <1>4, <1>5 DEF long

\* Tables that differ in their log only.
Like(t, u) ==
    /\ t \in Table /\ u \in Table
    /\ t.arena = u.arena /\ t.size = u.size
    /\ t.buffer = << >> /\ u.buffer = << >>

\* They take a record, or have no room for it, alike.
LEMMA LikeInsert ==
    ASSUME NEW t, NEW u, Like(t, u), NEW e \in Entry
    PROVE  \/ insert_record_from_wal(t, e) = Absent /\ insert_record_from_wal(u, e) = Absent
           \/ /\ insert_record_from_wal(t, e) = insert_node(t, e)
              /\ Like(insert_node(t, e), insert_record_from_wal(u, e))
              /\ insert_node(t, e).wal = t.wal
              /\ write_sstable(insert_node(t, e)) = [write_sstable(t) EXCEPT ![e.key] = e.datum]
<1>1. t \in Table /\ u \in Table /\ t # Absent /\ u # Absent
  BY TableAssumption DEF Like
<1>2. full(t) <=> full(u)
  BY DEF full, Nodes, Like
<1>3. CASE full(t)
  BY <1>2, <1>3 DEF insert_record_from_wal
<1>4. CASE ~full(t)
  <2>1. /\ insert_record_from_wal(t, e) = insert_node(t, e)
        /\ insert_record_from_wal(u, e) = insert_node(u, e)
    BY <1>1, <1>2, <1>4 DEF insert_record_from_wal
  <2>2. /\ insert_node(t, e) \in Table /\ insert_node(u, e) \in Table
        /\ insert_node(t, e).wal = t.wal
        /\ insert_node(t, e).buffer = << >> /\ insert_node(u, e).buffer = << >>
    BY <1>1, InsertNodeType DEF Like
  <2>3. /\ insert_node(t, e).arena = insert_node(u, e).arena
        /\ insert_node(t, e).size = insert_node(u, e).size
    <3>1. t.arena = u.arena /\ t.size = u.size /\ Nodes(t) = Nodes(u)
      BY DEF Like, Nodes
    <3>2. CASE t.arena[e.key] # Absent
      BY <1>1, <3>1, <3>2 DEF insert_node, Table
    <3>3. CASE t.arena[e.key] = Absent
      BY <1>1, <3>1, <3>3 DEF insert_node, Table
    <3> QED
      BY <3>2, <3>3
  <2>4. write_sstable(insert_node(t, e)) = [write_sstable(t) EXCEPT ![e.key] = e.datum]
    BY <1>1, BlockInsert
  <2> QED
    BY <2>1, <2>2, <2>3, <2>4 DEF Like
<1> QED
  BY <1>3, <1>4

\* What a replay makes of a log: nothing, whatever the new log is called, or
\* a table with the log's records and a new, empty log.
Rebuilds(t, log, ts) ==
    t \in Table /\ t.wal = ts /\ t.buffer = << >> /\ write_sstable(t) = Replay(log)

LEMMA FromWalTable ==
    ASSUME NEW log \in Seq(Entry), NEW ts \in Nat, NEW us \in Nat
    PROVE  \/ from_wal(log, ts) = Absent /\ from_wal(log, us) = Absent
           \/ /\ Rebuilds(from_wal(log, ts), log, ts)
              /\ Like(from_wal(log, ts), from_wal(log, us))
<1> DEFINE n == Len(log)
           P(m) == SubSeq(log, 1, m)
<1>1. n \in Nat /\ Begins(log, log, n) /\ P(n) = log /\ P(0) = << >>
  BY DEF Begins
<1>2. PICK g : Replays(g, log, ts, n)
  BY <1>1, ReplaysExist
<1>3. PICK h : Replays(h, log, us, n)
  BY <1>1, ReplaysExist
<1>4. from_wal(log, ts) = g[n] /\ from_wal(log, us) = h[n]
  BY <1>1, <1>2, <1>3, ReplaysEnd
<1>5. Steps(g, log, ts, n) /\ Steps(h, log, us, n)
  BY <1>1, <1>2, <1>3, ReplaysAt
<1> DEFINE G(m) == \/ g[m] = Absent /\ h[m] = Absent
                   \/ Rebuilds(g[m], P(m), ts) /\ Like(g[m], h[m])
           S == {m \in Nat : G(m)}
<1>6. G(0)
  <2>1. g[0] = NewTable(ts) /\ h[0] = NewTable(us)
    BY <1>5 DEF Steps
  <2>2. NewTable(ts) \in Table /\ NewTable(us) \in Table
    BY NewTableType
  <2>3. Like(NewTable(ts), NewTable(us)) /\ NewTable(ts).wal = ts
    BY <2>2 DEF Like, NewTable
  <2>4. Replay(<< >>) = [k \in Key |-> Absent]
    BY DEF Replay, SelectLastInSeq
  <2>5. write_sstable(NewTable(ts)) = [k \in Key |-> Absent]
    BY DEF write_sstable, NewTable
  <2>6. Rebuilds(NewTable(ts), << >>, ts)
    BY <2>2, <2>3, <2>4, <2>5 DEF Rebuilds, Like
  <2> QED
    BY <1>1, <2>1, <2>3, <2>6
<1>7. ASSUME NEW m \in 0..n, m < n, G(m) PROVE G(m + 1)
  <2> DEFINE e == log[m + 1]
  <2>1. m \in Nat /\ m + 1 \in 1..n /\ e \in Entry
    BY <1>1, <1>7
  <2>2. P(m) \in Seq(Entry) /\ P(m + 1) = Append(P(m), e)
    BY <1>1, <1>7, <2>1
  <2>3. /\ g[m + 1] = insert_record_from_wal(g[m], e)
        /\ h[m + 1] = insert_record_from_wal(h[m], e)
    BY <1>5, <1>7 DEF Steps
  <2> HIDE DEF P, e
  <2>4. CASE g[m] = Absent /\ h[m] = Absent
    BY <2>3, <2>4, InsertAbsent
  <2>5. CASE Rebuilds(g[m], P(m), ts) /\ Like(g[m], h[m])
    <3>1. \/ g[m + 1] = Absent /\ h[m + 1] = Absent
          \/ /\ Like(g[m + 1], h[m + 1])
             /\ g[m + 1].wal = g[m].wal
             /\ write_sstable(g[m + 1]) = [write_sstable(g[m]) EXCEPT ![e.key] = e.datum]
      BY <2>1, <2>3, <2>5, LikeInsert
    <3>2. Replay(P(m + 1)) = [Replay(P(m)) EXCEPT ![e.key] = e.datum]
      BY <2>1, <2>2, ReplayAppend
    <3>3. write_sstable(g[m]) = Replay(P(m)) /\ g[m].wal = ts
      BY <2>5 DEF Rebuilds
    <3>4. ASSUME Like(g[m + 1], h[m + 1]), g[m + 1].wal = ts,
                 write_sstable(g[m + 1]) = Replay(P(m + 1))
          PROVE  G(m + 1)
      BY <3>4 DEF Like, Rebuilds
    <3> QED
      BY <3>1, <3>2, <3>3, <3>4
  <2> QED
    BY <1>7, <2>4, <2>5
<1>8. G(n)
  <2>1. \A m \in 0..n : m \in S
    <3>1. 0 \in S
      BY <1>6
    <3>2. \A m \in 0..n : m < n /\ m \in S => m + 1 \in S
      <4> HIDE DEF G
      <4> QED
        BY <1>7
    <3> HIDE DEF S
    <3> QED
      BY <1>1, <3>1, <3>2, Climb
  <2> HIDE DEF G
  <2> QED
    BY <1>1, <2>1
<1> QED
  BY <1>1, <1>4, <1>8

\* A log cut off anywhere replays if the whole log does.
LEMMA FromWalPrefix ==
    ASSUME NEW a \in Seq(Entry), NEW b \in Seq(Entry), NEW ts,
           from_wal(a, ts) = Absent
    PROVE  from_wal(a \o b, ts) = Absent
<1> DEFINE long == a \o b
           l == Len(a)
           n == Len(b)
<1>1. /\ l \in Nat /\ n \in Nat /\ l + n \in Nat /\ long \in Seq(Entry)
      /\ Len(long) = l + n /\ \A i \in 1..l : long[i] = a[i]
  OBVIOUS
<1> HIDE DEF long
<1>2. PICK g : Replays(g, long, ts, l + n)
  BY <1>1, ReplaysExist
<1>3. Begins(a, long, l + n) /\ Begins(long, long, l + n)
  BY <1>1 DEF Begins
<1>4. from_wal(a, ts) = g[l] /\ from_wal(long, ts) = g[l + n]
  BY <1>1, <1>2, <1>3, ReplaysEnd
<1>5. Steps(g, long, ts, l + n)
  BY <1>1, <1>2, ReplaysAt
<1> DEFINE S == {m \in Nat : g[l + m] = Absent}
<1>6. 0 \in S
  BY <1>1, <1>4
<1>7. \A m \in 0..n : m < n /\ m \in S => m + 1 \in S
  <2> SUFFICES ASSUME NEW m \in 0..n, m < n, m \in S PROVE m + 1 \in S
    OBVIOUS
  <2>1. l + m \in 0..(l + n) /\ l + m < l + n /\ l + (m + 1) = l + m + 1
    BY <1>1
  <2>2. g[l + m + 1] = insert_record_from_wal(g[l + m], long[l + m + 1])
    BY <1>5, <2>1 DEF Steps
  <2> QED
    BY <2>1, <2>2, InsertAbsent
<1>8. \A m \in 0..n : m \in S
  <2> HIDE DEF S
  <2> QED
    BY <1>1, <1>6, <1>7, Climb
<1> QED
  BY <1>1, <1>4, <1>8 DEF long

\* The files of the directory, and a log for the next start to find.
DiskNames ==
    /\ IsFiniteSet(wals) /\ IsFiniteSet(sstables)
    /\ wals # {}
    /\ \A w \in wals : w.ts <= clock
    /\ \A v, w \in wals : v.ts = w.ts => v = w

\* The active table has its log, which no other table has.
ActiveNames ==
    /\ memtable.wal <= clock
    /\ \E w \in wals : w.ts = memtable.wal
    /\ \A c \in Client : held[c] # Absent => held[c].wal <= clock /\ held[c].wal # memtable.wal
    /\ \A i \in DOMAIN immutable :
        immutable[i].wal <= clock /\ immutable[i].wal # memtable.wal

\* An insertion may write the buffer to the log, under the same names.
LEMMA NamesInsert ==
    ASSUME TypeOK, DiskNames, ActiveNames, NEW e \in Entry, Insert(e),
           UNCHANGED << held, immutable, clock, sstables >>
    PROVE  DiskNames' /\ ActiveNames'
<1>1. PICK due \in NeedsFlush :
        /\ memtable' = insert_node(write_log(memtable, e, due), e)
        /\ wals' = IF due THEN FlushLog(memtable) ELSE wals
  BY DEF Insert
<1>2. due \in BOOLEAN /\ memtable \in Table
  BY LsmliteAssumption DEF TypeOK
<1>3. memtable'.wal = memtable.wal
  BY <1>1, <1>2 DEF insert_node, write_log, Table
<1>4. CASE wals' = wals
  BY <1>3, <1>4 DEF DiskNames, ActiveNames
<1>5. CASE wals' = FlushLog(memtable)
  <2> DEFINE F(w) == IF w.ts = memtable.wal THEN [w EXCEPT !.log = @ \o memtable.buffer] ELSE w
  <2>1. wals' = {F(w) : w \in wals}
    BY <1>5 DEF FlushLog
  <2>2. \A w \in wals : w \in WalFile
    BY DEF TypeOK
  <2>3. ASSUME NEW w \in wals PROVE F(w).ts = w.ts
    BY <2>2 DEF WalFile
  <2>4. IsFiniteSet(wals')
    <3>1. IsFiniteSet(wals)
      BY DEF DiskNames
    <3> HIDE DEF F
    <3> DEFINE f == [w \in wals |-> F(w)]
    <3>2. f \in Surjection(wals, wals')
      BY <2>1 DEF Surjection
    <3> QED
      BY <3>1, <3>2, FS_Surjection
  <2> HIDE DEF F
  <2>5. DiskNames'
    BY <2>1, <2>3, <2>4 DEF DiskNames
  <2>6. \E w \in wals' : w.ts = memtable'.wal
    BY <1>3, <2>1, <2>3 DEF ActiveNames
  <2> QED
    BY <1>3, <2>5, <2>6 DEF ActiveNames
<1> QED
  BY <1>1, <1>4, <1>5

\* Steps that leave the logs and tables alone.
LEMMA NamesFrames ==
    ASSUME TypeOK, DiskNames, ActiveNames, clock' \in Nat, clock <= clock', IsFiniteSet(sstables'),
           UNCHANGED << memtable, held, immutable, wals >>
    PROVE  DiskNames' /\ ActiveNames'
<1>1. \A w \in wals : w.ts \in Nat
  BY DEF TypeOK, WalFile
<1>2. DiskNames'
  BY <1>1 DEF DiskNames, TypeOK
<1> QED
  BY <1>2, TablesTyped DEF ActiveNames, TypeOK

\* The calls.
LEMMA NamesCall ==
    ASSUME TypeOK, PipelineInv, DiskNames, ActiveNames, NEW c \in Client,
           \/ \E k \in Key : Set(c, k) \/ Delete(c, k) \/ Get(c, k)
           \/ CallPoisoned(c) \/ RotateFails(c) \/ Cancel(c) \/ Call(c)
    PROVE  DiskNames' /\ ActiveNames'
<1>0. sstables' = sstables /\ clock' \in Nat /\ clock <= clock' /\ IsFiniteSet(sstables)
  BY ClientFrame DEF DiskNames
<1>1. ASSUME NEW e \in Entry, Write(c, e) \/ (Retry(c) /\ e = req[c])
      PROVE  DiskNames' /\ ActiveNames'
  <2>1. /\ UNCHANGED << held, immutable, clock, sstables >>
        /\ Insert(e) \/ UNCHANGED << memtable, wals >>
    BY <1>1 DEF Write, Retry
  <2> QED
    BY <1>0, <2>1, NamesInsert, NamesFrames
<1>2. CASE \E k \in Key : Set(c, k) \/ Delete(c, k)
  BY <1>1, <1>2, WriteEntries DEF Set, Delete
<1>3. CASE Retry(c)
  BY <1>1, <1>3 DEF Retry, PipelineInv, CallsCarry
<1>4. CASE \/ \E k \in Key : Get(c, k)
           \/ CallPoisoned(c) \/ RotateFails(c) \/ Signal(c) \/ SignalClosed(c)
           \/ GetImmutable(c) \/ GetSSTable(c) \/ Return(c)
  <2>1. UNCHANGED << memtable, held, immutable, wals >>
    BY <1>4 DEF Get, CallPoisoned, RotateFails, Signal, SignalClosed, GetImmutable, GetSSTable,
         Return, tableVars, diskVars
  <2> QED
    BY <1>0, <2>1, NamesFrames
<1>5. CASE Cancel(c)
  <2>1. held' = [held EXCEPT ![c] = Absent] /\ UNCHANGED << memtable, immutable, wals, clock >>
    BY <1>5 DEF Cancel, tableVars, diskVars
  <2>2. \A d \in Client : held'[d] = IF d = c THEN Absent ELSE held[d]
    BY <2>1 DEF TypeOK
  <2> QED
    BY <1>0, <2>1, <2>2 DEF DiskNames, ActiveNames
<1>6. CASE Push(c)
  <2>1. /\ pc[c] = "push" /\ immutable' = Append(immutable, held[c])
        /\ held' = [held EXCEPT ![c] = Absent]
        /\ UNCHANGED << memtable, clock, wals >>
    BY <1>6 DEF Push, insert, diskVars
  <2>2. \A d \in Client : held'[d] = IF d = c THEN Absent ELSE held[d]
    BY <2>1 DEF TypeOK
  <2>3. held[c] \in Table /\ held[c] # Absent
    BY <2>1, TableAssumption DEF PipelineInv, CallsCarry
  <2>4. \A i \in DOMAIN immutable' :
          \/ i \in DOMAIN immutable /\ immutable'[i] = immutable[i]
          \/ immutable'[i] = held[c]
    BY <2>1, <2>3 DEF TypeOK
  <2> QED
    BY <1>0, <2>1, <2>2, <2>3, <2>4 DEF DiskNames, ActiveNames
<1>7. CASE Rotate(c)
  <2> DEFINE n == NewTable(clock + 1)
             x == [ts |-> clock + 1, log |-> << >>]
  <2>1. /\ clock' = clock + 1 /\ memtable' = n /\ wals' = wals \cup {x}
        /\ held' = [held EXCEPT ![c] = memtable]
        /\ UNCHANGED immutable
    BY <1>7 DEF Rotate
  <2>2. n.wal = clock + 1 /\ x.ts = clock + 1 /\ clock \in Nat
    BY DEF NewTable, TypeOK
  <2> HIDE DEF n, x
  <2>3. \A d \in Client : held'[d] = IF d = c THEN memtable ELSE held[d]
    BY <2>1 DEF TypeOK
  <2>4. \A w \in wals : w.ts \in Nat
    BY DEF TypeOK, WalFile
  <2>5. IsFiniteSet(wals')
    BY <2>1, FS_AddElement DEF DiskNames
  <2>6. DiskNames'
    BY <1>0, <2>1, <2>2, <2>4, <2>5 DEF DiskNames
  <2>7. \A d \in Client : held'[d] # Absent => held'[d].wal <= clock' /\ held'[d].wal # memtable'.wal
    BY <2>1, <2>2, <2>3, TablesTyped DEF ActiveNames
  <2>8. \A i \in DOMAIN immutable : immutable[i].wal <= clock' /\ immutable[i].wal # memtable'.wal
    BY <2>1, <2>2, TablesTyped DEF ActiveNames
  <2> QED
    BY <2>1, <2>2, <2>6, <2>7, <2>8 DEF ActiveNames
<1> QED
  BY <1>2, <1>3, <1>4, <1>5, <1>6, <1>7 DEF Call

\* The background tasks.
LEMMA NamesTasks ==
    ASSUME TypeOK, PipelineInv, DiskNames, ActiveNames,
           \/ Flusher \/ FlushCreateFails \/ FlushFails
           \/ Compactor \/ CompactorFails
           \/ DropSignalCompactor \/ DropSignalFlusher \/ DropInTask
    PROVE  DiskNames' /\ ActiveNames'
<1>0. UNCHANGED << memtable, held >> /\ clock \in Nat /\ IsFiniteSet(sstables)
  BY TasksFrame DEF clientVars, TypeOK, DiskNames
<1>1. CASE FlushUnlink
  <2>1. /\ flushPc = "unlink" /\ wals' = {w \in wals : w.ts # flushHead.wal}
        /\ UNCHANGED << sstables, clock, immutable >>
    BY <1>1 DEF FlushUnlink, tableVars
  <2>2. InFlight /\ flushHead = Head(immutable) /\ immutable # << >>
    BY <2>1, FrontExists DEF PipelineInv, QueueCovered, InFlight
  <2>3. 1 \in DOMAIN immutable /\ flushHead = immutable[1]
    BY <2>2 DEF TypeOK
  <2>4. \E w \in wals' : w.ts = memtable.wal
    BY <2>1, <2>3 DEF ActiveNames
  <2>5. IsFiniteSet(wals')
    BY <2>1, FS_Subset DEF DiskNames
  <2> QED
    BY <1>0, <2>1, <2>4, <2>5 DEF DiskNames, ActiveNames
<1>2. CASE CompactorPop
  <2>1. UNCHANGED << wals, sstables, clock >> /\ immutable' = pop(immutable)
    BY <1>2 DEF CompactorPop, diskVars
  <2>2. \A i \in DOMAIN immutable' : \E j \in DOMAIN immutable : immutable'[i] = immutable[j]
    <3>1. CASE immutable = << >>
      BY <2>1, <3>1 DEF pop
    <3>2. CASE immutable # << >>
      <4>1. /\ immutable' = Tail(immutable) /\ Len(immutable) \in Nat /\ Len(immutable) # 0
            /\ DOMAIN immutable = 1..Len(immutable)
        BY <2>1, <3>2 DEF pop, TypeOK
      <4>2. \A i \in DOMAIN immutable' : i + 1 \in DOMAIN immutable /\ immutable'[i] = immutable[i + 1]
        BY <4>1 DEF TypeOK
      <4> QED
        BY <4>2
    <3> QED
      BY <3>1, <3>2
  <2> QED
    BY <1>0, <2>1, <2>2 DEF DiskNames, ActiveNames
<1>9. ASSUME NEW y, sstables' \subseteq sstables \cup {y} PROVE IsFiniteSet(sstables')
  <2> DEFINE T == sstables \cup {y}
  <2>1. IsFiniteSet(T)
    BY <1>0, FS_AddElement
  <2> HIDE DEF T
  <2>2. sstables' \in SUBSET T
    BY <1>9 DEF T
  <2> QED
    BY <2>1, <2>2, FS_Subset
<1>3. ASSUME UNCHANGED << immutable, wals >>, clock' \in {clock, clock + 1}, IsFiniteSet(sstables')
      PROVE  DiskNames' /\ ActiveNames'
  <2>1. clock' \in Nat /\ clock <= clock'
    BY <1>0, <1>3
  <2> QED
    BY <1>0, <1>3, <2>1, NamesFrames
<1>4. CASE FlushRecv \/ FlushWrite
  <2>1. UNCHANGED << immutable, wals >> /\ clock' \in {clock, clock + 1}
    BY <1>4 DEF FlushRecv, FlushWrite, tableVars
  <2>2. \E y : sstables' \subseteq sstables \cup {y}
    BY <1>4 DEF FlushRecv, FlushWrite, Created, Written
  <2>3. IsFiniteSet(sstables')
    BY <1>9, <2>2
  <2> QED
    BY <1>3, <2>1, <2>3
<1>5. CASE FlushShutdown \/ FlushRecvClosed \/ FlushFront \/ FlushLoad \/ FlushAck
           \/ FlushAckClosed \/ FlushCreateFails \/ FlushFails
  <2>1. UNCHANGED << immutable, wals, clock, sstables >>
    BY <1>5 DEF FlushShutdown, FlushRecvClosed, FlushFront, FlushLoad, FlushAck, FlushAckClosed,
         FlushCreateFails, FlushFails, tableVars, diskVars
  <2> QED
    BY <1>0, <1>3, <2>1
<1>6. CASE CompactorCreate \/ CompactorFinish \/ \E f \in sstables : CompactorCleanup(f)
  <2>1. UNCHANGED << immutable, wals >> /\ clock' \in {clock, clock + 1}
    BY <1>6 DEF CompactorCreate, CompactorFinish, CompactorCleanup, tableVars
  <2>2. \E y : sstables' \subseteq sstables \cup {y}
    BY <1>6 DEF CompactorCreate, CompactorFinish, CompactorCleanup, Created, Written
  <2>3. IsFiniteSet(sstables')
    BY <1>9, <2>2
  <2> QED
    BY <1>3, <2>1, <2>3
<1>7. CASE CompactorLoad \/ CompactorShutdown \/ CompactorRecvClosed \/ CompactorReplace
           \/ CompactorCleaned \/ CompactorAck \/ CompactorFails
  <2>1. UNCHANGED << immutable, wals, clock, sstables >>
    BY <1>7 DEF CompactorLoad, CompactorShutdown, CompactorRecvClosed, CompactorReplace,
         CompactorCleaned, CompactorAck, CompactorFails, tableVars, diskVars
  <2> QED
    BY <1>0, <1>3, <2>1
<1>8. CASE DropSignalCompactor \/ DropSignalFlusher \/ DropInTask
  <2>1. UNCHANGED << immutable, wals, clock, sstables >>
    BY <1>8 DEF DropSignalCompactor, DropSignalFlusher, DropInTask, tableVars, diskVars
  <2> QED
    BY <1>0, <1>3, <2>1
<1> QED
  BY <1>1, <1>2, <1>4, <1>5, <1>6, <1>7, <1>8 DEF Flusher, Compactor

\* Every step of the running engine.
LEMMA NamesStep ==
    ASSUME TypeOK, PipelineInv, DiskNames, ActiveNames, [Next]_vars
    PROVE  DiskNames' /\ ActiveNames'
<1>1. CASE UNCHANGED vars \/ Quiescent
  BY <1>1 DEF Quiescent, vars, clientVars, tableVars, diskVars, DiskNames, ActiveNames
<1>2. CASE \E c \in Client :
            \/ \E k \in Key : Set(c, k) \/ Delete(c, k) \/ Get(c, k)
            \/ CallPoisoned(c) \/ RotateFails(c) \/ Cancel(c) \/ Call(c)
  BY <1>2, NamesCall
<1>3. CASE \/ Flusher \/ FlushCreateFails \/ FlushFails
           \/ Compactor \/ CompactorFails
           \/ DropSignalCompactor \/ DropSignalFlusher \/ DropInTask
  BY <1>3, NamesTasks
<1> QED
  BY <1>1, <1>2, <1>3 DEF Next

----------------------------------------------------------------------------
(* The engine's invariants across restarts.                                *)

Phases == {"down", "memtable", "unlink", "cache", "replay", "signal", "running", "failed"}

\* A start has a table that it has given a log.
HasTable == phase \in {"unlink", "cache", "replay", "signal", "running"}

\* Before the engine runs its channels are empty and no task or call has begun.
Fresh ==
    /\ poisoned = FALSE /\ flushShut = FALSE /\ compChan = << >> /\ ackChan = 0
    /\ flushPc = "recv" /\ flushPath = 0 /\ flushHead = Absent
    /\ compPc = "recv" /\ compPath = 0
    /\ pc = [c \in Client |-> "idle"] /\ req = [c \in Client |-> Absent]
    /\ held = [c \in Client |-> Absent] /\ ret = [c \in Client |-> Absent]
    /\ handle = "open"
    /\ seen = [c \in Client |-> {}] /\ gap = [c \in Client |-> FALSE] /\ lost = {}

\* What it has in memory then is well formed.
FreshState ==
    /\ Fresh
    /\ memtable \in Table /\ immutable \in Seq(Table) /\ cache \in Seq(SSTable)
    /\ flushes \in 0..FlushQueue /\ flushes <= Len(immutable)
    /\ wals \subseteq WalFile /\ sstables \subseteq SSTableFile /\ clock \in Nat
    /\ ops \in 0..MaxOps /\ store \in [Key -> Value \cup {Absent}]
    /\ \A f \in sstables : f.path <= clock
    /\ \A f, g \in sstables : f.path = g.path => f = g
    /\ cache = << >> \/ cache = scan_sstables
    /\ DiskNames

\* What a start has read and made so far.
StartType ==
    /\ phase \in Phases
    /\ crashes \in Nat
    /\ walFiles \in Seq(WalFile)
    /\ sstFiles \in Seq(SSTableFile)
    /\ replayed \in Seq(Table \cup {Absent})
    /\ expected \in [Key -> Value \cup {Absent}]

\* How far a start has come: the files it read, the queue it builds, and the
\* signals it has sent, never more than there are tables.
StartInv ==
    /\ phase # "running" => FreshState
    /\ phase \in {"down", "memtable", "unlink", "cache", "replay"} =>
        immutable = << >> /\ flushes = 0
    /\ phase \in {"down", "memtable", "unlink", "cache"} => cache = << >>
    /\ phase \in {"memtable", "unlink", "cache", "replay", "signal"} =>
        sstFiles = scan_sstables
    /\ phase = "memtable" => walFiles = scan_wals
    /\ HasTable => ActiveNames
    /\ HasTable /\ phase # "running" => \A i \in DOMAIN walFiles : walFiles[i].ts # memtable.wal
    /\ phase \in {"unlink", "replay", "signal"} => walFiles # << >>
    /\ phase \in {"replay", "signal"} =>
        /\ Len(replayed) = Len(walFiles)
        /\ cache = sstFiles
        /\ \A i \in DOMAIN sstFiles : sstFiles[i].data # Partial
        /\ \A i \in DOMAIN replayed :
            replayed[i] # Absent => replayed[i].wal <= clock /\ replayed[i].wal # memtable.wal
    /\ phase = "signal" =>
        /\ immutable = replayed /\ flushes < Len(immutable)
        /\ \A i \in DOMAIN replayed : replayed[i] # Absent

\* The invariant of the engine across restarts.
RestartInv == TypeOK /\ PipelineInv /\ CacheInv /\ DiskNames /\ StartType /\ StartInv

\* The files in the order they are scanned.
LEMMA WalsRanked ==
    ASSUME TypeOK, DiskNames
    PROVE  /\ Ranked(wals, [w \in wals |-> w.ts])
           /\ Lists(scan_wals, wals, [w \in wals |-> w.ts])
<1>1. \A w \in wals : w.ts \in Nat
  BY DEF TypeOK, WalFile
<1>2. Ranked(wals, [w \in wals |-> w.ts])
  BY <1>1 DEF Ranked, DiskNames
<1> QED
  BY <1>2, InOrderLists DEF scan_wals

LEMMA WalsScanned ==
    ASSUME TypeOK, DiskNames
    PROVE  /\ scan_wals \in Seq(wals) /\ scan_wals \in Seq(WalFile) /\ scan_wals # << >>
           /\ \A w \in wals : \E i \in 1..Len(scan_wals) : scan_wals[i] = w
           /\ \A i, j \in 1..Len(scan_wals) : i < j => scan_wals[i].ts < scan_wals[j].ts
<1> DEFINE rank == [w \in wals |-> w.ts]
           q == scan_wals
<1>1. Lists(q, wals, rank)
  BY WalsRanked
<1> HIDE DEF q
<1>2. /\ q \in Seq(wals) /\ \A w \in wals : \E i \in 1..Len(q) : q[i] = w
      /\ \A i, j \in 1..Len(q) : i < j => rank[q[i]] < rank[q[j]]
  BY <1>1 DEF Lists
<1>3. Len(q) \in Nat /\ DOMAIN q = 1..Len(q) /\ \A i \in 1..Len(q) : q[i] \in wals
  BY <1>2
<1>4. q \in Seq(WalFile)
  <2>1. wals \subseteq WalFile
    BY DEF TypeOK
  <2> QED
    BY <1>2, <2>1
<1>5. q # << >>
  BY <1>2 DEF DiskNames
<1>6. \A i, j \in 1..Len(q) : i < j => q[i].ts < q[j].ts
  BY <1>2, <1>3
<1> QED
  BY <1>2, <1>4, <1>5, <1>6 DEF q

LEMMA SSTablesRanked ==
    ASSUME TypeOK, PipelineInv, DiskNames
    PROVE  /\ Ranked(sstables, [f \in sstables |-> -f.path])
           /\ Lists(scan_sstables, sstables, [f \in sstables |-> -f.path])
<1>1. \A f \in sstables : f.path \in Nat
  BY DEF TypeOK, SSTableFile
<1>2. Ranked(sstables, [f \in sstables |-> -f.path])
  <2>1. \A f, g \in sstables : f.path = g.path => f = g
    BY DEF PipelineInv, FilesInHand
  <2>2. \A f, g \in sstables : -f.path = -g.path => f.path = g.path
    BY <1>1
  <2> QED
    BY <1>1, <2>1, <2>2 DEF Ranked, DiskNames
<1> QED
  BY <1>2, InOrderLists DEF scan_sstables

LEMMA SSTablesScanned ==
    ASSUME TypeOK, PipelineInv, DiskNames
    PROVE  /\ scan_sstables \in Seq(sstables) /\ scan_sstables \in Seq(SSTableFile)
           /\ \A f \in sstables : \E i \in 1..Len(scan_sstables) : scan_sstables[i] = f
           /\ \A i, j \in 1..Len(scan_sstables) :
                i < j => scan_sstables[i].path > scan_sstables[j].path
<1> DEFINE rank == [f \in sstables |-> -f.path]
           q == scan_sstables
<1>1. Lists(q, sstables, rank)
  BY SSTablesRanked
<1> HIDE DEF q
<1>2. /\ q \in Seq(sstables) /\ \A f \in sstables : \E i \in 1..Len(q) : q[i] = f
      /\ \A i, j \in 1..Len(q) : i < j => rank[q[i]] < rank[q[j]]
  BY <1>1 DEF Lists
<1>3. Len(q) \in Nat /\ DOMAIN q = 1..Len(q) /\ \A i \in 1..Len(q) : q[i] \in sstables
  BY <1>2
<1>4. sstables \subseteq SSTableFile /\ \A f \in sstables : f.path \in Nat
  BY DEF TypeOK, SSTableFile
<1>5. q \in Seq(SSTableFile)
  BY <1>2, <1>4
<1>6. ASSUME NEW i \in 1..Len(q), NEW j \in 1..Len(q), i < j PROVE q[i].path > q[j].path
  <2>1. rank[q[i]] = -q[i].path /\ rank[q[j]] = -q[j].path /\ rank[q[i]] < rank[q[j]]
    BY <1>2, <1>3, <1>6
  <2>2. q[i].path \in Nat /\ q[j].path \in Nat
    BY <1>3, <1>4
  <2> HIDE DEF rank
  <2> QED
    BY <2>1, <2>2
<1> QED
  BY <1>2, <1>5, <1>6 DEF q

\* A process that has not begun to run satisfies the pipeline's invariant.
LEMMA FreshPipeline ==
    ASSUME Fresh, immutable \in Seq(Table), flushes \in Nat, flushes <= Len(immutable),
           \A f \in sstables : f.path <= clock,
           \A f, g \in sstables : f.path = g.path => f = g
    PROVE  PipelineInv
<1>1. ~PathQueued /\ ~InFlight
  BY DEF Fresh, PathQueued, InFlight
<1>2. Signalling = {}
  BY DEF Fresh, Signalling
<1>3. Handshake
  BY DEF Fresh, Handshake, NoFlushDuringCompaction
<1>4. FilesInHand
  BY <1>1 DEF Fresh, FilesInHand
<1>5. QueueCovered
  <2>1. Cardinality(Signalling) = 0 /\ Len(immutable) \in Nat
    BY <1>2, FS_EmptySet
  <2>2. compPc # "pop"
    BY DEF Fresh
  <2> QED
    BY <1>1, <2>1, <2>2 DEF QueueCovered
<1>6. CallsCarry
  BY DEF Fresh, CallsCarry
<1> QED
  BY <1>3, <1>4, <1>5, <1>6 DEF PipelineInv

\* The parts of TypeOK a start does not touch.
LEMMA FreshType ==
    ASSUME Fresh, memtable \in Table, immutable \in Seq(Table), cache \in Seq(SSTable),
           flushes \in 0..FlushQueue, wals \subseteq WalFile, sstables \subseteq SSTableFile,
           clock \in Nat, ops \in 0..MaxOps, store \in [Key -> Value \cup {Absent}]
    PROVE  TypeOK
<1>1. /\ compChan \in Seq(Nat \cup {Shutdown}) /\ Len(compChan) <= CompactionQueue
      /\ ackChan \in {0, 1}
  BY TypeFacts DEF Fresh
<1>2. poisoned \in BOOLEAN /\ flushShut \in BOOLEAN
  BY Zenon DEF Fresh
<1>3. /\ flushPc \in FlushStates /\ flushPath \in Nat
      /\ flushHead \in Table \cup {Absent}
      /\ compPc \in CompStates /\ compPath \in Nat
      /\ handle \in {"open", "dropping", "closed"}
      /\ lost \subseteq Request
  BY DEF Fresh, FlushStates, CompStates
<1>4. /\ pc \in [Client -> ClientStates]
      /\ req \in [Client -> Request \cup {Absent}]
      /\ held \in [Client -> Table \cup {Absent}]
      /\ ret \in [Client -> Value \cup {Absent}]
      /\ gap \in [Client -> BOOLEAN]
  BY DEF Fresh, ClientStates
<1>5. seen \in [Client -> SUBSET (Value \cup {Absent})]
  BY DEF Fresh
<1> QED
  BY <1>1, <1>2, <1>3, <1>4, <1>5 DEF TypeOK

\* So does what it makes of the files: a cache in the order of their names.
LEMMA FreshCache ==
    ASSUME Fresh, \/ cache = << >>
                  \/ /\ cache = scan_sstables /\ cache \in Seq(SSTable)
                     /\ TypeOK /\ PipelineInv /\ DiskNames
    PROVE  CacheInv
<1>1. ~FileUnderway /\ compPc # "cleanup"
  BY DEF Fresh, FileUnderway, PathQueued
<1>2. CASE cache = << >>
  BY <1>1, <1>2 DEF CacheInv, CacheNames, CleansAlone, CacheSortedByName, OnlyOldestLacksFile
<1>3. CASE /\ cache = scan_sstables /\ cache \in Seq(SSTable)
           /\ TypeOK /\ PipelineInv /\ DiskNames
  <2>1. /\ cache \in Seq(sstables) /\ DOMAIN cache = 1..Len(cache)
        /\ \A i, j \in 1..Len(cache) : i < j => cache[i].path > cache[j].path
    BY <1>3, SSTablesScanned
  <2>2. \A i \in DOMAIN cache : cache[i] \in sstables /\ cache[i].path <= clock
    BY <1>3, <2>1 DEF PipelineInv, FilesInHand
  <2> QED
    BY <1>1, <2>1, <2>2 DEF CacheInv, CacheNames, CleansAlone, CacheSortedByName, OnlyOldestLacksFile
<1> QED
  BY <1>2, <1>3

LEMMA FreshEngine == FreshState => TypeOK /\ PipelineInv /\ CacheInv
<1> SUFFICES ASSUME FreshState PROVE TypeOK /\ PipelineInv /\ CacheInv
  OBVIOUS
<1>1. TypeOK
  BY FreshType DEF FreshState
<1>2. PipelineInv
  BY FreshPipeline DEF FreshState
<1>3. CacheInv
  BY <1>1, <1>2, FreshCache DEF FreshState
<1> QED
  BY <1>1, <1>2, <1>3

\* A start leaves what it does not touch.
LEMMA FreshFrame ==
    ASSUME Fresh, UNCHANGED UntouchedByStart
    PROVE  Fresh' /\ ops' = ops
BY DEF Fresh, UntouchedByStart, clientVars, flushVars, compVars

\* The first state.
LEMMA RestartInitInv == RestartInit => RestartInv
<1> SUFFICES ASSUME RestartInit PROVE RestartInv
  OBVIOUS
<1>1. TypeOK /\ PipelineInv /\ CacheInv
  BY InitInv DEF RestartInit, Init, CacheInv, CacheNames, CleansAlone, CacheSortedByName,
                 OnlyOldestLacksFile
<1>2. DiskNames
  <2>1. IsFiniteSet(wals) /\ IsFiniteSet(sstables)
    BY FS_Singleton, FS_EmptySet DEF RestartInit, Init
  <2> QED
    BY <2>1 DEF RestartInit, Init, DiskNames
<1>3. ActiveNames
  BY DEF RestartInit, Init, ActiveNames, NewTable
<1>4. StartType
  BY DEF RestartInit, StartType, Phases
<1>5. StartInv
  BY <1>3 DEF RestartInit, StartInv, HasTable
<1> QED
  BY <1>1, <1>2, <1>4, <1>5 DEF RestartInv

\* The engine runs.
LEMMA RestartRun ==
    ASSUME RestartInv, Run
    PROVE  RestartInv'
<1>1. phase = "running" /\ Next /\ UNCHANGED << phase, startVars, crashes, expected >>
  BY DEF Run
<1>2. TypeOK' /\ PipelineInv' /\ CacheInv' /\ DiskNames' /\ ActiveNames'
  BY <1>1, TypeStep, PipelineStep, CacheStep, NamesStep DEF RestartInv, StartInv, HasTable
<1>3. StartType'
  BY <1>1 DEF RestartInv, StartType, startVars
<1>4. StartInv'
  BY <1>1, <1>2 DEF StartInv, HasTable
<1> QED
  BY <1>2, <1>3, <1>4 DEF RestartInv

\* The process stops.
LEMMA RestartCrash ==
    ASSUME RestartInv, Crash
    PROVE  RestartInv'
<1>1. /\ crashes' = crashes + 1 /\ phase' = "down" /\ memtable' = NewTable(0)
      /\ immutable' = << >> /\ cache' = << >> /\ flushes' = 0
      /\ walFiles' = << >> /\ sstFiles' = << >> /\ replayed' = << >>
      /\ store' = [k \in Key |-> Absent]
      /\ UNCHANGED << wals, sstables, clock, ops, expected >>
  BY DEF Crash
<1>2. Fresh'
  BY DEF Crash, Fresh
<1>3. DiskNames'
  BY <1>1 DEF RestartInv, DiskNames
<1>4. FreshState'
  <2>1. /\ wals \subseteq WalFile /\ sstables \subseteq SSTableFile /\ clock \in Nat
        /\ ops \in 0..MaxOps
        /\ \A f \in sstables : f.path <= clock
        /\ \A f, g \in sstables : f.path = g.path => f = g
    BY DEF RestartInv, TypeOK, PipelineInv, FilesInHand
  <2>2. /\ memtable' \in Table /\ immutable' \in Seq(Table) /\ cache' \in Seq(SSTable)
        /\ flushes' \in 0..FlushQueue /\ flushes' <= Len(immutable')
        /\ store' \in [Key -> Value \cup {Absent}]
    BY <1>1, NewTableType, TypeFacts
  <2> QED
    BY <1>1, <1>2, <1>3, <2>1, <2>2 DEF FreshState
<1>5. (TypeOK /\ PipelineInv /\ CacheInv)'
  <2>1. FreshState' => (TypeOK /\ PipelineInv /\ CacheInv)'
    BY FreshEngine, PTL
  <2> QED
    BY <1>4, <2>1
<1>6. StartType'
  BY <1>1 DEF RestartInv, StartType, Phases
<1>7. StartInv'
  BY <1>1, <1>4 DEF StartInv, HasTable
<1> QED
  BY <1>3, <1>5, <1>6, <1>7 DEF RestartInv

----------------------------------------------------------------------------
(* What the files say.                                                     *)

\* The blocks the logs replay to.
LogsOf(logs) == [i \in DOMAIN logs |-> Replay(logs[i].log)]

LEMMA ReplayType ==
    ASSUME NEW l \in Seq(Entry)
    PROVE  Replay(l) \in Block
<1>1. \A k \in Key : Replay(l)[k] \in Datum \cup {Absent}
  <2> SUFFICES ASSUME NEW k \in Key PROVE Replay(l)[k] \in Datum \cup {Absent}
    OBVIOUS
  <2>1. CASE Replay(l)[k] = Absent
    BY <2>1
  <2>2. CASE Replay(l)[k] # Absent
    <3>1. PICK i \in 1..Len(l) : Replay(l)[k] = l[i].datum
      BY <2>2, ReplayAt
    <3>2. l[i] \in Entry
      OBVIOUS
    <3> QED
      BY <3>1, <3>2 DEF Entry
  <2> QED
    BY <2>1, <2>2
<1>2. Replay(l) = [k \in Key |-> Replay(l)[k]]
  BY DEF Replay
<1> QED
  BY <1>1, <1>2 DEF Block

LEMMA LogsType ==
    ASSUME NEW q \in Seq(WalFile)
    PROVE  /\ LogsOf(q) \in Seq(Block) /\ Len(LogsOf(q)) = Len(q) /\ Len(q) \in Nat
           /\ \A i \in 1..Len(q) : LogsOf(q)[i] = Replay(q[i].log)
<1>1. DOMAIN q = 1..Len(q) /\ Len(q) \in Nat /\ \A i \in 1..Len(q) : q[i] \in WalFile
  OBVIOUS
<1>2. \A i \in 1..Len(q) : q[i].log \in Seq(Entry)
  BY <1>1 DEF WalFile
<1>3. \A i \in 1..Len(q) : Replay(q[i].log) \in Block
  BY <1>2, ReplayType
<1> QED
  BY <1>1, <1>3 DEF LogsOf

\* Reversing blocks of logs.
LEMMA LogsReverse ==
    ASSUME NEW q \in Seq(WalFile)
    PROVE  LogsOf(Reverse(q)) = Reverse(LogsOf(q)) /\ Reverse(LogsOf(q)) \in Seq(Block)
<1> DEFINE n == Len(q)
           r == Reverse(q)
           a == LogsOf(r)
           b == Reverse(LogsOf(q))
<1>1. /\ n \in Nat /\ LogsOf(q) \in Seq(Block) /\ Len(LogsOf(q)) = n
      /\ \A i \in 1..n : LogsOf(q)[i] = Replay(q[i].log)
  BY LogsType
<1>2. \A i \in 1..n : n - i + 1 \in 1..n
  BY <1>1
<1>3. r = [i \in 1..n |-> q[n - i + 1]]
  BY DEF Reverse
<1>4. r \in Seq(WalFile) /\ Len(r) = n /\ \A i \in 1..n : r[i] = q[n - i + 1]
  <2>1. \A i \in 1..n : q[n - i + 1] \in WalFile
    BY <1>2
  <2> HIDE DEF r
  <2> QED
    BY <1>1, <1>3, <2>1
<1> HIDE DEF r
<1>5. a \in Seq(Block) /\ Len(a) = n /\ \A i \in 1..n : a[i] = Replay(r[i].log)
  BY <1>4, LogsType
<1>6. b = [i \in 1..n |-> LogsOf(q)[n - i + 1]]
  BY <1>1 DEF Reverse
<1>7. b \in Seq(Block) /\ Len(b) = n /\ \A i \in 1..n : b[i] = LogsOf(q)[n - i + 1]
  <2>1. \A i \in 1..n : LogsOf(q)[n - i + 1] \in Block
    BY <1>1, <1>2
  <2> HIDE DEF b
  <2> QED
    BY <1>1, <1>6, <2>1
<1>8. ASSUME NEW i \in 1..n PROVE a[i] = b[i]
  <2> DEFINE j == n - i + 1
  <2>1. j \in 1..n
    BY <1>2
  <2>2. a[i] = Replay(r[i].log) /\ r[i] = q[j]
    BY <1>4, <1>5
  <2>3. b[i] = LogsOf(q)[j]
    BY <1>7
  <2>4. LogsOf(q)[j] = Replay(q[j].log)
    BY <1>1, <2>1
  <2> QED
    BY <2>2, <2>3, <2>4
<1> HIDE DEF a, b
<1>9. a = b
  BY <1>1, <1>5, <1>7, <1>8
<1> QED
  BY <1>7, <1>9 DEF a, b, r

\* The logs, newest first.
LEMMA LogBlocksAre ==
    ASSUME TypeOK, DiskNames
    PROVE  LogBlocks = Reverse(LogsOf(scan_wals)) /\ LogBlocks \in Seq(Block)
<1> DEFINE rank == [w \in wals |-> w.ts]
           neg == [w \in wals |-> -w.ts]
<1>1. \A w \in wals : w.ts \in Nat
  BY DEF TypeOK, WalFile
<1>2. Ranked(wals, rank) /\ \A w \in wals : neg[w] = -rank[w]
  BY WalsRanked
<1>3. InOrder(wals, neg) = Reverse(InOrder(wals, rank))
  <2> HIDE DEF rank, neg
  <2> QED
    BY <1>2, InOrderReversed
<1>4. InOrder(wals, neg) = Reverse(scan_wals)
  BY <1>3 DEF scan_wals
<1>5. LogBlocks = LogsOf(Reverse(scan_wals))
  BY <1>4 DEF LogBlocks, LogsOf
<1>6. scan_wals \in Seq(WalFile)
  BY WalsScanned
<1> QED
  BY <1>5, <1>6, LogsReverse

\* The complete SSTables, newest first; all of them are, unless the process
\* stopped while it wrote one.
LEMMA FileBlocksAre ==
    ASSUME TypeOK, PipelineInv, DiskNames
    PROVE  /\ FileBlocks \in Seq(Block)
           /\ (\A f \in sstables : f.data # Partial) => FileBlocks = DataOf(scan_sstables)
<1> DEFINE S == {f \in sstables : f.data # Partial}
           rank == [f \in S |-> -f.path]
           q == InOrder(S, rank)
<1>1. \A f \in sstables : f \in SSTableFile /\ f.path \in Nat
  BY DEF TypeOK, SSTableFile
<1>2. Ranked(S, rank)
  <2>1. IsFiniteSet(S)
    BY FS_Subset DEF DiskNames
  <2>2. \A f, g \in S : f.path = g.path => f = g
    BY DEF PipelineInv, FilesInHand
  <2>3. \A f, g \in S : rank[f] = rank[g] => f.path = g.path
    BY <1>1
  <2>4. \A f \in S : rank[f] \in Int
    BY <1>1
  <2> HIDE DEF S, rank
  <2> QED
    BY <2>1, <2>2, <2>3, <2>4 DEF Ranked
<1>3. Lists(q, S, rank)
  BY <1>2, InOrderLists
<1>4. FileBlocks = DataOf(q)
  BY DEF FileBlocks, DataOf
<1>5. S \subseteq SSTable
  <2> SUFFICES ASSUME NEW f \in sstables, f.data # Partial PROVE f \in SSTable
    OBVIOUS
  <2> QED
    BY <1>1 DEF SSTableFile, SSTable
<1>6. q \in Seq(SSTable)
  <2>1. q \in Seq(S)
    BY <1>3 DEF Lists
  <2> HIDE DEF q, S
  <2> QED
    BY <1>5, <2>1
<1>7. FileBlocks \in Seq(Block)
  BY <1>4, <1>6, DataType
<1>8. ASSUME \A f \in sstables : f.data # Partial PROVE q = scan_sstables
  <2>1. S = sstables
    BY <1>8
  <2> QED
    BY <2>1 DEF scan_sstables
<1> QED
  BY <1>4, <1>7, <1>8

\* What the files say for a key.
LEMMA OnDiskAt ==
    ASSUME TypeOK, PipelineInv, DiskNames, NEW k \in Key
    PROVE  /\ OnDisk[k] = Plain(Over(First(Reverse(LogsOf(scan_wals)), k), First(FileBlocks, k)))
           /\ OnDisk[k] \in Value \cup {Absent}
<1>1. LogBlocks = Reverse(LogsOf(scan_wals)) /\ LogBlocks \in Seq(Block) /\ FileBlocks \in Seq(Block)
  BY LogBlocksAre, FileBlocksAre
<1>2. OnDisk[k] = search(LogBlocks \o FileBlocks, k) /\ LogBlocks \o FileBlocks \in Seq(Block)
  BY <1>1 DEF OnDisk
<1>3. OnDisk[k] = Plain(First(LogBlocks \o FileBlocks, k))
  BY <1>2, SearchFirst
<1>4. First(LogBlocks \o FileBlocks, k) = Over(First(LogBlocks, k), First(FileBlocks, k))
  BY <1>1, FirstConcat
<1>5. OnDisk[k] \in Value \cup {Absent}
  BY <1>2, SearchType
<1> QED
  BY <1>1, <1>3, <1>4, <1>5

----------------------------------------------------------------------------
(* The steps of a start.                                                   *)

\* What a step of a start has to keep.
LEMMA StartKeeps ==
    ASSUME FreshState', StartType', StartInv'
    PROVE  RestartInv'
<1>1. FreshState' => (TypeOK /\ PipelineInv /\ CacheInv)'
  BY FreshEngine, PTL
<1>2. DiskNames'
  BY DEF FreshState
<1> QED
  BY <1>1, <1>2 DEF RestartInv

\* A new, empty log under a new name.
LEMMA NewLogNames ==
    ASSUME FreshState, clock' = clock + 1, wals' = NewLog, UNCHANGED sstables
    PROVE  /\ DiskNames' /\ wals' \subseteq WalFile /\ clock' \in Nat
           /\ \E w \in wals' : w.ts = clock + 1
           /\ \A w \in wals : w \in wals' /\ w.ts < clock + 1
           /\ \A f \in sstables : f.path <= clock'
<1> DEFINE x == [ts |-> clock + 1, log |-> << >>]
<1>1. wals' = wals \cup {x} /\ x.ts = clock + 1 /\ clock \in Nat /\ x \in WalFile
  BY DEF NewLog, FreshState, WalFile
<1> HIDE DEF x
<1>2. wals \subseteq WalFile /\ \A w \in wals : w.ts \in Nat /\ w.ts <= clock
  BY DEF FreshState, WalFile, DiskNames
<1>3. IsFiniteSet(wals') /\ IsFiniteSet(sstables')
  BY <1>1, FS_AddElement DEF FreshState, DiskNames
<1>4. DiskNames'
  BY <1>1, <1>2, <1>3 DEF FreshState, DiskNames
<1>5. \A f \in sstables : f.path \in Nat /\ f.path <= clock
  BY DEF FreshState, SSTableFile
<1> QED
  BY <1>1, <1>2, <1>4, <1>5

LEMMA RestartStart ==
    ASSUME RestartInv, NEW p \in StartIn, Start(p)
    PROVE  RestartInv'
<1>1. /\ phase = "down" /\ phase' = "memtable"
      /\ walFiles' = scan_wals /\ sstFiles' = scan_sstables /\ expected' = OnDisk
      /\ UNCHANGED << UntouchedByStart, memtable, immutable, cache, flushes,
                      wals, sstables, clock, store, replayed, crashes >>
  BY DEF Start
<1>2. FreshState /\ TypeOK /\ PipelineInv /\ DiskNames
  BY <1>1 DEF RestartInv, StartInv
<1>3. Fresh' /\ ops' = ops
  BY <1>1, <1>2, FreshFrame DEF FreshState
<1>4. scan_sstables' = scan_sstables /\ scan_wals' = scan_wals
  BY <1>1 DEF scan_sstables, scan_wals
<1>5. FreshState'
  BY <1>1, <1>2, <1>3, <1>4 DEF FreshState, DiskNames
<1>6. StartType'
  <2>1. \A k \in Key : OnDisk[k] \in Value \cup {Absent}
    BY <1>2, OnDiskAt
  <2>2. OnDisk = [k \in Key |-> OnDisk[k]]
    BY DEF OnDisk
  <2>3. expected' \in [Key -> Value \cup {Absent}]
    BY <1>1, <2>1, <2>2
  <2>4. walFiles' \in Seq(WalFile) /\ sstFiles' \in Seq(SSTableFile)
    BY <1>1, <1>2, WalsScanned, SSTablesScanned
  <2> QED
    BY <1>1, <2>3, <2>4 DEF RestartInv, StartType, Phases
<1>7. StartInv'
  BY <1>1, <1>4, <1>5 DEF RestartInv, StartInv, HasTable
<1> QED
  BY <1>5, <1>6, <1>7, StartKeeps

\* The table made from the newest log.
LEMMA RestartMemtable ==
    ASSUME RestartInv, StartMemtable
    PROVE  /\ RestartInv'
           /\ walFiles # << >>
           /\ \/ /\ phase' = "failed"
                 /\ from_wal(Last(walFiles).log, clock + 1) = Absent
              \/ /\ phase' = "unlink"
                 /\ memtable' = from_wal(Last(walFiles).log, clock + 1)
                 /\ Rebuilds(memtable', Last(walFiles).log, clock + 1)
<1> DEFINE l == Last(walFiles).log
           t == from_wal(l, clock + 1)
<1>1. /\ phase = "memtable" /\ clock' = clock + 1 /\ wals' = NewLog
      /\ \/ t = Absent /\ phase' = "failed" /\ UNCHANGED memtable
         \/ t # Absent /\ phase' = "unlink" /\ memtable' = t
      /\ UNCHANGED << UntouchedByStart, immutable, cache, flushes, sstables,
                      store, walFiles, sstFiles, replayed, crashes, expected >>
  BY DEF StartMemtable, startVars
<1>2. FreshState /\ TypeOK /\ DiskNames /\ walFiles = scan_wals
  BY <1>1 DEF RestartInv, StartInv
<1>3. /\ walFiles \in Seq(WalFile) /\ walFiles \in Seq(wals) /\ walFiles # << >>
      /\ clock + 1 \in Nat
  BY <1>2, WalsScanned DEF TypeOK
<1>4. l \in Seq(Entry)
  <2>1. Last(walFiles) = walFiles[Len(walFiles)] /\ Len(walFiles) \in DOMAIN walFiles
    BY <1>3 DEF Last
  <2>2. Last(walFiles) \in WalFile
    BY <1>3, <2>1
  <2> QED
    BY <2>2 DEF WalFile
<1> HIDE DEF l
<1>5. t = Absent \/ Rebuilds(t, l, clock + 1)
  BY <1>3, <1>4, FromWalTable
<1> HIDE DEF t
<1>6. Fresh' /\ ops' = ops
  BY <1>1, <1>2, FreshFrame DEF FreshState
<1>7. /\ DiskNames' /\ wals' \subseteq WalFile /\ clock' \in Nat
      /\ \E w \in wals' : w.ts = clock + 1
      /\ \A w \in wals : w.ts < clock + 1
      /\ \A f \in sstables : f.path <= clock'
  BY <1>1, <1>2, NewLogNames
<1>8. scan_sstables' = scan_sstables
  BY <1>1 DEF scan_sstables
<1>9. FreshState'
  <2>1. memtable' \in Table
    BY <1>1, <1>2, <1>5 DEF FreshState, Rebuilds
  <2> QED
    BY <1>1, <1>2, <1>6, <1>7, <1>8, <2>1 DEF FreshState
<1>10. StartType'
  BY <1>1 DEF RestartInv, StartType, Phases
<1>11. ASSUME phase' = "unlink" PROVE ActiveNames' /\ \A i \in DOMAIN walFiles : walFiles[i].ts # memtable'.wal
  <2>1. memtable'.wal = clock + 1
    BY <1>1, <1>5, <1>11 DEF Rebuilds
  <2>2. \A c \in Client : held'[c] = Absent
    BY <1>6 DEF Fresh
  <2>3. immutable' = << >>
    BY <1>1 DEF RestartInv, StartInv
  <2>4. \A i \in DOMAIN walFiles : walFiles[i] \in wals /\ walFiles[i] \in WalFile
    BY <1>3
  <2>5. \A w \in WalFile : w.ts \in Nat
    BY DEF WalFile
  <2> QED
    BY <1>1, <1>3, <1>7, <2>1, <2>2, <2>3, <2>4, <2>5 DEF ActiveNames
<1>12. StartInv'
  BY <1>1, <1>3, <1>8, <1>9, <1>11 DEF RestartInv, StartInv, HasTable
<1>13. RestartInv'
  BY <1>9, <1>10, <1>12, StartKeeps
<1> QED
  BY <1>1, <1>3, <1>5, <1>13 DEF t, l

\* The old log removed.
LEMMA RestartUnlink ==
    ASSUME RestartInv, StartUnlink
    PROVE  RestartInv'
<1>1. /\ phase = "unlink" /\ phase' = "cache"
      /\ wals' = wals \ {Last(walFiles)} /\ walFiles' = Front(walFiles)
      /\ UNCHANGED << UntouchedByStart, memtable, immutable, cache, flushes,
                      sstables, clock, store, sstFiles, replayed, crashes, expected >>
  BY DEF StartUnlink
<1>2. /\ FreshState /\ TypeOK /\ DiskNames /\ ActiveNames /\ walFiles # << >>
      /\ walFiles \in Seq(WalFile) /\ \A i \in DOMAIN walFiles : walFiles[i].ts # memtable.wal
  BY <1>1 DEF RestartInv, StartInv, StartType, HasTable
<1>3. Fresh' /\ ops' = ops
  BY <1>1, <1>2, FreshFrame DEF FreshState
<1>4. /\ Len(walFiles) \in Nat /\ Len(walFiles) \in DOMAIN walFiles
      /\ Last(walFiles) = walFiles[Len(walFiles)]
  BY <1>2 DEF Last
<1>5. Front(walFiles) \in Seq(WalFile) /\ \A i \in DOMAIN Front(walFiles) :
        i \in DOMAIN walFiles /\ Front(walFiles)[i] = walFiles[i]
  BY <1>2, <1>4 DEF Front
<1>6. \E w \in wals' : w.ts = memtable.wal
  <2>1. PICK w \in wals : w.ts = memtable.wal
    BY <1>2 DEF ActiveNames
  <2>2. w # Last(walFiles)
    BY <1>2, <1>4, <2>1
  <2> QED
    BY <1>1, <2>1, <2>2
<1>7. DiskNames' /\ wals' \subseteq WalFile
  <2>1. IsFiniteSet(wals')
    BY <1>1, <1>2, FS_RemoveElement DEF DiskNames
  <2> QED
    BY <1>1, <1>2, <1>6, <2>1 DEF DiskNames, TypeOK
<1>8. scan_sstables' = scan_sstables
  BY <1>1 DEF scan_sstables
<1>9. FreshState'
  BY <1>1, <1>2, <1>3, <1>7, <1>8 DEF FreshState
<1>10. StartType'
  BY <1>1, <1>5 DEF RestartInv, StartType, Phases
<1>11. ActiveNames'
  <2>1. held' = held
    BY <1>1 DEF UntouchedByStart, clientVars
  <2> QED
    BY <1>1, <1>2, <1>6, <2>1 DEF ActiveNames
<1>12. StartInv'
  BY <1>1, <1>2, <1>5, <1>8, <1>9, <1>11 DEF RestartInv, StartInv, HasTable
<1> QED
  BY <1>9, <1>10, <1>12, StartKeeps

\* The cache loaded.
LEMMA RestartCache ==
    ASSUME RestartInv, StartCache
    PROVE  RestartInv'
<1>1. /\ phase = "cache"
      /\ replayed' = [i \in DOMAIN walFiles |-> Absent]
      /\ \/ phase' = "failed" /\ UNCHANGED << cache, store >>
         \/ /\ \A i \in DOMAIN sstFiles : sstFiles[i].data # Partial
            /\ cache' = sstFiles
            /\ \/ phase' = "running" /\ store' = expected
               \/ walFiles # << >> /\ phase' = "replay" /\ UNCHANGED store
      /\ UNCHANGED << UntouchedByStart, memtable, immutable, flushes, wals,
                      sstables, clock, walFiles, sstFiles, crashes, expected >>
  BY DEF StartCache, Running
<1>2. /\ FreshState /\ TypeOK /\ PipelineInv /\ DiskNames /\ ActiveNames /\ sstFiles = scan_sstables
      /\ walFiles \in Seq(WalFile) /\ expected \in [Key -> Value \cup {Absent}]
      /\ cache = << >> /\ immutable = << >> /\ flushes = 0
  BY <1>1 DEF RestartInv, StartInv, StartType, HasTable
<1>3. Fresh' /\ ops' = ops
  BY <1>1, <1>2, FreshFrame DEF FreshState
<1>4. scan_sstables' = scan_sstables
  BY <1>1 DEF scan_sstables
<1>5. cache' \in Seq(SSTable) /\ (cache' = << >> \/ cache' = scan_sstables')
  <2>1. CASE cache' = cache
    BY <1>2, <2>1
  <2>2. CASE (\A i \in DOMAIN sstFiles : sstFiles[i].data # Partial) /\ cache' = sstFiles
    <3>1. sstFiles \in Seq(SSTableFile)
      BY <1>2, SSTablesScanned
    <3>2. \A f \in SSTableFile : f.data # Partial => f \in SSTable
      BY DEF SSTableFile, SSTable
    <3>3. \A i \in 1..Len(sstFiles) : sstFiles[i] \in SSTable
      BY <2>2, <3>1, <3>2
    <3> QED
      BY <1>2, <1>4, <2>2, <3>1, <3>3
  <2> QED
    BY <1>1, <2>1, <2>2
<1>6. DiskNames'
  BY <1>1, <1>2 DEF DiskNames
<1>7. FreshState'
  <2>1. store' \in [Key -> Value \cup {Absent}]
    BY <1>1, <1>2 DEF FreshState
  <2> QED
    BY <1>1, <1>2, <1>3, <1>5, <1>6, <2>1 DEF FreshState
<1>8. /\ replayed' \in Seq(Table \cup {Absent}) /\ Len(replayed') = Len(walFiles)
      /\ \A i \in DOMAIN replayed' : replayed'[i] = Absent
  BY <1>1, <1>2
<1>9. StartType'
  BY <1>1, <1>8 DEF RestartInv, StartType, Phases
<1>10. ActiveNames'
  <2>1. held' = held
    BY <1>1 DEF UntouchedByStart, clientVars
  <2> QED
    BY <1>1, <1>2, <2>1 DEF ActiveNames
<1>11. StartInv'
  BY <1>1, <1>2, <1>4, <1>7, <1>8, <1>10 DEF RestartInv, StartInv, HasTable
<1> QED
  BY <1>7, <1>9, <1>11, StartKeeps

\* A worker replays its log.
LEMMA RestartReplay ==
    ASSUME RestartInv, NEW i \in DOMAIN walFiles, StartReplay(i)
    PROVE  /\ RestartInv'
           /\ \/ /\ phase' = "failed"
                 /\ from_wal(walFiles[i].log, clock + 1) = Absent
              \/ /\ phase' = "replay"
                 /\ replayed' = [replayed EXCEPT ![i] = from_wal(walFiles[i].log, clock + 1)]
                 /\ Rebuilds(replayed'[i], walFiles[i].log, clock + 1)
<1> DEFINE l == walFiles[i].log
           t == from_wal(l, clock + 1)
<1>1. /\ phase = "replay" /\ replayed[i] = Absent
      /\ clock' = clock + 1 /\ wals' = NewLog
      /\ replayed' = [replayed EXCEPT ![i] = t]
      /\ phase' = IF replayed'[i] = Absent THEN "failed" ELSE phase
      /\ UNCHANGED << UntouchedByStart, memtable, immutable, cache, flushes,
                      sstables, store, walFiles, sstFiles, crashes, expected >>
  BY DEF StartReplay
<1>2. /\ FreshState /\ TypeOK /\ DiskNames /\ ActiveNames /\ sstFiles = scan_sstables
      /\ walFiles \in Seq(WalFile) /\ replayed \in Seq(Table \cup {Absent})
      /\ Len(replayed) = Len(walFiles) /\ cache = sstFiles /\ immutable = << >> /\ flushes = 0
      /\ clock \in Nat
  BY <1>1 DEF RestartInv, StartInv, StartType, HasTable, TypeOK
<1>3. l \in Seq(Entry) /\ clock + 1 \in Nat
  <2>1. walFiles[i] \in WalFile
    BY <1>2
  <2> QED
    BY <1>2, <2>1 DEF WalFile
<1> HIDE DEF l
<1>4. t = Absent \/ Rebuilds(t, l, clock + 1)
  BY <1>3, FromWalTable
<1> HIDE DEF t
<1>5. i \in DOMAIN replayed /\ replayed'[i] = t /\ DOMAIN replayed' = DOMAIN replayed
  BY <1>1, <1>2
<1>6. t \in Table \cup {Absent} /\ (t # Absent => t.wal = clock + 1)
  BY <1>4 DEF Rebuilds
<1>7. replayed' \in Seq(Table \cup {Absent}) /\ Len(replayed') = Len(walFiles)
  BY <1>1, <1>2, <1>6
<1>8. Fresh' /\ ops' = ops
  BY <1>1, <1>2, FreshFrame DEF FreshState
<1>9. /\ DiskNames' /\ wals' \subseteq WalFile /\ clock' \in Nat
      /\ \A w \in wals : w \in wals'
      /\ \A f \in sstables : f.path <= clock'
  BY <1>1, <1>2, NewLogNames
<1>10. scan_sstables' = scan_sstables
  BY <1>1 DEF scan_sstables
<1>11. FreshState'
  BY <1>1, <1>2, <1>8, <1>9, <1>10 DEF FreshState
<1>12. StartType'
  BY <1>1, <1>7 DEF RestartInv, StartType, Phases
<1>13. memtable.wal \in Nat /\ memtable.wal <= clock
  BY <1>2 DEF TypeOK, ActiveNames, Table
<1>14. ActiveNames'
  <2>1. held' = held /\ \A c \in Client : held[c] = Absent
    BY <1>1, <1>2 DEF UntouchedByStart, clientVars, FreshState, Fresh
  <2>2. memtable' = memtable /\ immutable' = << >>
    BY <1>1, <1>2
  <2>3. memtable.wal <= clock'
    BY <1>1, <1>2, <1>13
  <2>4. \E w \in wals' : w.ts = memtable.wal
    BY <1>2, <1>9 DEF ActiveNames
  <2> QED
    BY <2>1, <2>2, <2>3, <2>4 DEF ActiveNames
<1>15. \A j \in DOMAIN replayed' :
          replayed'[j] # Absent => replayed'[j].wal <= clock' /\ replayed'[j].wal # memtable'.wal
  <2> SUFFICES ASSUME NEW j \in DOMAIN replayed, replayed'[j] # Absent
               PROVE  replayed'[j].wal <= clock' /\ replayed'[j].wal # memtable'.wal
    BY <1>5
  <2>1. CASE j = i
    BY <1>1, <1>2, <1>5, <1>6, <1>13, <2>1
  <2>2. CASE j # i
    <3>1. replayed'[j] = replayed[j] /\ replayed[j] \in Table
      BY <1>1, <1>2, <2>2
    <3>2. replayed[j].wal <= clock /\ replayed[j].wal # memtable.wal
      BY <1>1, <3>1 DEF RestartInv, StartInv
    <3>3. replayed[j].wal \in Nat
      BY <3>1 DEF Table
    <3> QED
      BY <1>1, <1>2, <3>1, <3>2, <3>3
  <2> QED
    BY <2>1, <2>2
<1>16. StartInv'
  BY <1>1, <1>2, <1>7, <1>10, <1>11, <1>14, <1>15 DEF RestartInv, StartInv, HasTable
<1>17. RestartInv'
  BY <1>11, <1>12, <1>16, StartKeeps
<1> QED
  BY <1>1, <1>4, <1>5, <1>17 DEF t, l

\* It removes the log.
LEMMA RestartReplayUnlink ==
    ASSUME RestartInv, NEW i \in DOMAIN walFiles, StartReplayUnlink(i)
    PROVE  RestartInv'
<1>1. /\ phase = "replay" /\ phase' = phase
      /\ wals' = wals \ {walFiles[i]}
      /\ UNCHANGED << UntouchedByStart, memtable, immutable, cache, flushes,
                      sstables, clock, store, walFiles, sstFiles, replayed, crashes, expected >>
  BY DEF StartReplayUnlink, startVars
<1>2. /\ FreshState /\ TypeOK /\ DiskNames /\ ActiveNames
      /\ \A j \in DOMAIN walFiles : walFiles[j].ts # memtable.wal
  BY <1>1 DEF RestartInv, StartInv, StartType, HasTable
<1>3. Fresh' /\ ops' = ops
  BY <1>1, <1>2, FreshFrame DEF FreshState
<1>4. \E w \in wals' : w.ts = memtable.wal
  <2>1. PICK w \in wals : w.ts = memtable.wal
    BY <1>2 DEF ActiveNames
  <2> QED
    BY <1>1, <1>2, <2>1
<1>5. DiskNames' /\ wals' \subseteq WalFile
  <2>1. IsFiniteSet(wals')
    BY <1>1, <1>2, FS_RemoveElement DEF DiskNames
  <2> QED
    BY <1>1, <1>2, <1>4, <2>1 DEF DiskNames, TypeOK
<1>6. scan_sstables' = scan_sstables
  BY <1>1 DEF scan_sstables
<1>7. FreshState'
  BY <1>1, <1>2, <1>3, <1>5, <1>6 DEF FreshState
<1>8. StartType'
  BY <1>1 DEF RestartInv, StartType, Phases
<1>9. ActiveNames'
  <2>1. held' = held
    BY <1>1 DEF UntouchedByStart, clientVars
  <2> QED
    BY <1>1, <1>2, <1>4, <2>1 DEF ActiveNames
<1>10. StartInv'
  BY <1>1, <1>6, <1>7, <1>9 DEF RestartInv, StartInv, HasTable
<1> QED
  BY <1>7, <1>8, <1>10, StartKeeps

\* The replayed tables become the queue.
LEMMA RestartQueue ==
    ASSUME RestartInv, StartQueue
    PROVE  RestartInv'
<1>1. /\ phase = "replay" /\ phase' = "signal"
      /\ \A i \in DOMAIN walFiles : replayed[i] # Absent
      /\ immutable' = replayed
      /\ UNCHANGED << UntouchedByStart, memtable, cache, flushes, wals, sstables,
                      clock, store, walFiles, sstFiles, replayed, crashes, expected >>
  BY DEF StartQueue, startVars
<1>2. /\ FreshState /\ TypeOK /\ DiskNames /\ ActiveNames
      /\ walFiles \in Seq(WalFile) /\ walFiles # << >>
      /\ replayed \in Seq(Table \cup {Absent}) /\ Len(replayed) = Len(walFiles)
      /\ flushes = 0
      /\ \A i \in DOMAIN replayed :
            replayed[i] # Absent => replayed[i].wal <= clock /\ replayed[i].wal # memtable.wal
  BY <1>1 DEF RestartInv, StartInv, StartType, HasTable
<1>3. /\ replayed \in Seq(Table) /\ Len(replayed) > 0
      /\ DOMAIN replayed = DOMAIN walFiles
  <2>1. DOMAIN replayed = 1..Len(replayed) /\ DOMAIN walFiles = 1..Len(replayed)
    BY <1>2
  <2>2. \A i \in 1..Len(replayed) : replayed[i] \in Table
    BY <1>1, <1>2, <2>1
  <2> QED
    BY <1>2, <2>1, <2>2
<1>4. Fresh' /\ ops' = ops
  BY <1>1, <1>2, FreshFrame DEF FreshState
<1>5. DiskNames' /\ scan_sstables' = scan_sstables
  BY <1>1, <1>2 DEF DiskNames, scan_sstables
<1>6. FreshState'
  BY <1>1, <1>2, <1>3, <1>4, <1>5 DEF FreshState
<1>7. StartType'
  BY <1>1 DEF RestartInv, StartType, Phases
<1>8. ActiveNames'
  <2>1. held' = held
    BY <1>1 DEF UntouchedByStart, clientVars
  <2> QED
    BY <1>1, <1>2, <1>3, <2>1 DEF ActiveNames
<1>9. StartInv'
  BY <1>1, <1>2, <1>3, <1>5, <1>6, <1>8 DEF RestartInv, StartInv, HasTable
<1> QED
  BY <1>6, <1>7, <1>9, StartKeeps

\* A signal is sent.
LEMMA RestartSignal ==
    ASSUME RestartInv, StartSignal
    PROVE  RestartInv'
<1>1. /\ phase = "signal"
      /\ \/ /\ flushes < FlushQueue /\ flushes' = flushes + 1
            /\ \/ flushes' = Len(walFiles) /\ phase' = "running" /\ store' = expected
               \/ flushes' # Len(walFiles) /\ UNCHANGED << phase, store >>
         \/ phase' = "failed" /\ UNCHANGED << flushes, store >>
      /\ UNCHANGED << UntouchedByStart, memtable, immutable, cache, wals, sstables, clock,
                      walFiles, sstFiles, replayed, crashes, expected >>
  BY DEF StartSignal, Running, Signals, FlushRoom, startVars, tableVars, diskVars
<1>2. /\ FreshState /\ TypeOK /\ DiskNames /\ ActiveNames
      /\ Len(replayed) = Len(walFiles) /\ immutable = replayed
      /\ flushes < Len(immutable) /\ immutable \in Seq(Table)
      /\ expected \in [Key -> Value \cup {Absent}]
  BY <1>1 DEF RestartInv, StartInv, StartType, HasTable, TypeOK
<1>3. /\ flushes' \in 0..FlushQueue /\ flushes' <= Len(immutable)
      /\ (phase' = "signal" => flushes' < Len(immutable))
  <2>1. flushes \in 0..FlushQueue /\ FlushQueue \in Nat /\ Len(immutable) \in Nat
    BY <1>2, TypeFacts DEF FreshState
  <2> QED
    BY <1>1, <1>2, <2>1
<1>4. store' \in [Key -> Value \cup {Absent}]
  BY <1>1, <1>2 DEF FreshState
<1>5. Fresh' /\ ops' = ops
  BY <1>1, <1>2, FreshFrame DEF FreshState
<1>6. DiskNames' /\ scan_sstables' = scan_sstables
  BY <1>1, <1>2 DEF DiskNames, scan_sstables
<1>7. FreshState'
  BY <1>1, <1>2, <1>3, <1>4, <1>5, <1>6 DEF FreshState
<1>8. StartType'
  BY <1>1 DEF RestartInv, StartType, Phases
<1>9. ActiveNames'
  <2>1. held' = held
    BY <1>1 DEF UntouchedByStart, clientVars
  <2> QED
    BY <1>1, <1>2, <2>1 DEF ActiveNames
<1>10. StartInv'
  BY <1>1, <1>3, <1>6, <1>7, <1>9 DEF RestartInv, StartInv, HasTable
<1> QED
  BY <1>7, <1>8, <1>10, StartKeeps

\* Nothing happens.
LEMMA RestartStutter ==
    ASSUME RestartInv, UNCHANGED restartVars
    PROVE  RestartInv'
<1>1. /\ UNCHANGED vars
      /\ UNCHANGED << phase, walFiles, sstFiles, replayed, crashes, expected >>
  BY DEF restartVars, startVars
<1>2. /\ UNCHANGED << memtable, immutable, cache, poisoned, flushes, flushShut, compChan >>
      /\ UNCHANGED << ackChan, flushPc, flushPath, flushHead, compPc, compPath, pc, req >>
      /\ UNCHANGED << held, ret, handle, wals, sstables, clock, ops, store, seen, gap, lost >>
  BY <1>1 DEF vars, clientVars, flushVars, compVars, tableVars, chanVars, diskVars, histVars
<1>3. TypeOK' /\ PipelineInv' /\ CacheInv'
  BY <1>1, TypeStep, PipelineStep, CacheStep DEF RestartInv
<1>4. DiskNames' = DiskNames /\ ActiveNames' = ActiveNames /\ StartType' = StartType
  BY <1>1, <1>2 DEF DiskNames, ActiveNames, StartType
<1>5. Fresh' = Fresh
  BY <1>2 DEF Fresh
<1>6. scan_sstables' = scan_sstables /\ scan_wals' = scan_wals
  BY <1>2 DEF scan_sstables, scan_wals
<1>7. FreshState' = FreshState
  BY <1>2, <1>4, <1>5, <1>6 DEF FreshState
<1>8. StartInv' = StartInv
  BY <1>1, <1>2, <1>4, <1>6, <1>7 DEF StartInv, HasTable
<1> QED
  BY <1>3, <1>4, <1>8 DEF RestartInv

\* Every step of the engine, of a stop or of a start.
LEMMA RestartInvStep ==
    ASSUME RestartInv, [RestartNext]_restartVars
    PROVE  RestartInv'
<1>1. CASE Run
  BY <1>1, RestartRun
<1>2. CASE Crash
  BY <1>2, RestartCrash
<1>3. CASE \E p \in StartIn : Start(p)
  BY <1>3, RestartStart
<1>4. CASE StartStep
  BY <1>4, RestartMemtable, RestartUnlink, RestartCache, RestartReplay, RestartReplayUnlink,
     RestartQueue, RestartSignal DEF StartStep
<1>5. CASE Abandoned \/ UNCHANGED restartVars
  BY <1>5, RestartStutter DEF Abandoned
<1> QED
  BY <1>1, <1>2, <1>3, <1>4, <1>5 DEF RestartNext

\* Through any number of stops, whatever step they cut off, and of starts,
\* failed ones included, the state stays well formed and the invariants of the
\* pipeline, of the cache and of the file names hold: recover_from_disk and
\* from_wal build an engine that the running one could have been.
THEOREM EngineAcrossRestarts == RestartSpec => []RestartInv
<1>1. RestartInit => RestartInv
  BY RestartInitInv
<1>2. RestartInv /\ [RestartNext]_restartVars => RestartInv'
  BY RestartInvStep
<1> QED
  BY <1>1, <1>2, PTL DEF RestartSpec

----------------------------------------------------------------------------
(* What a start serves.                                                    *)

\* What the logs a start still has to replay, and the SSTables, have for a key.
InLogs(k) == First(Reverse(LogsOf(walFiles)), k)

InFiles(k) == First(FileBlocks, k)

\* What the start found for a key is in the table made from the newest log,
\* in the logs still to replay, or in the SSTables.
RecoverInv ==
    /\ phase \in {"memtable", "unlink"} =>
        \A k \in Key : expected[k] = Plain(Over(InLogs(k), InFiles(k)))
    /\ phase = "unlink" => write_sstable(memtable) = Replay(Last(walFiles).log)
    /\ phase \in {"cache", "replay", "signal"} =>
        \A k \in Key : expected[k] = Plain(Over(Active(k), Over(InLogs(k), InFiles(k))))
    /\ phase \in {"replay", "signal"} =>
        \A i \in DOMAIN replayed :
            replayed[i] # Absent => write_sstable(replayed[i]) = Replay(walFiles[i].log)

\* Nothing is in transit and the cache is what the directory holds.
AsRead ==
    /\ TypeOK /\ PipelineInv /\ DiskNames
    /\ \A c \in Client : held[c] = Absent
    /\ cache = scan_sstables
    /\ \A i \in DOMAIN scan_sstables : scan_sstables[i].data # Partial

Serves == \A k \in Key : Contents[k] = Plain(Over(Active(k), Over(Queued(k), InFiles(k))))

LEMMA ServesAsRead == AsRead => Serves
<1> SUFFICES ASSUME AsRead, NEW k \in Key
             PROVE  Contents[k] = Plain(Over(Active(k), Over(Queued(k), InFiles(k))))
  BY DEF Serves
<1>1. TypeOK /\ PipelineInv /\ DiskNames
  BY DEF AsRead
<1>2. TransitOf(held) = << >>
  BY TransitNone DEF AsRead
<1>3. TransitOf(held) \in Seq(Table)
  <2>1. << >> \in Seq(Table)
    OBVIOUS
  <2> QED
    BY <1>2, <2>1
<1>4. Contents[k] = Plain(Newest(k))
  BY <1>1, <1>3, ContentsLayers
<1>5. Moving(k) = Absent
  <2>1. BlocksOf(<< >>) = << >>
    BY DEF BlocksOf
  <2> QED
    BY <1>2, <2>1, FirstNone DEF Moving
<1>6. \A f \in sstables : f.data # Partial
  <2>1. \A f \in sstables : \E i \in 1..Len(scan_sstables) : scan_sstables[i] = f
    BY <1>1, SSTablesScanned
  <2>2. DOMAIN scan_sstables = 1..Len(scan_sstables)
    BY <1>1, SSTablesScanned
  <2> QED
    BY <2>1, <2>2 DEF AsRead
<1>7. FileBlocks = DataOf(scan_sstables)
  BY <1>1, <1>6, FileBlocksAre
<1>8. Cached(k) = InFiles(k)
  BY <1>7 DEF AsRead, Cached, InFiles
<1>9. Newest(k) = Over(Active(k), Over(Queued(k), InFiles(k)))
  BY <1>5, <1>8 DEF Newest, Over
<1> QED
  BY <1>4, <1>9

\* The logs without the newest, and the newest.
LEMMA LogsFront ==
    ASSUME NEW q \in Seq(WalFile), q # << >>, NEW k \in Key
    PROVE  First(Reverse(LogsOf(q)), k)
             = Over(Replay(Last(q).log)[k], First(Reverse(LogsOf(Front(q))), k))
<1> DEFINE n == Len(q)
           f == Front(q)
           w == Last(q)
           x == Replay(w.log)
           b == LogsOf(f)
<1>1. n \in Nat /\ n \in 1..n /\ w = q[n] /\ DOMAIN q = 1..n
  BY DEF Last
<1>2. f \in Seq(WalFile) /\ Len(f) = n - 1 /\ \A i \in 1..(n - 1) : f[i] = q[i]
  BY <1>1 DEF Front
<1>3. w \in WalFile
  BY <1>1
<1>4. x \in Block
  <2>1. w.log \in Seq(Entry)
    BY <1>3 DEF WalFile
  <2> QED
    BY <2>1, ReplayType
<1> HIDE DEF f
<1>5. /\ LogsOf(q) \in Seq(Block) /\ Len(LogsOf(q)) = n
      /\ \A i \in 1..n : LogsOf(q)[i] = Replay(q[i].log)
  BY LogsType
<1>6. b \in Seq(Block) /\ Len(b) = n - 1 /\ \A i \in 1..(n - 1) : b[i] = Replay(f[i].log)
  BY <1>2, LogsType
<1>7. LogsOf(q)[n] = x
  BY <1>1, <1>5
<1> HIDE DEF w, x, b, n
<1>8. LogsOf(q) = Append(b, x)
  <2>1. Append(b, x) \in Seq(Block) /\ Len(Append(b, x)) = n
    BY <1>1, <1>4, <1>6
  <2>2. ASSUME NEW i \in 1..n PROVE LogsOf(q)[i] = Append(b, x)[i]
    <3>1. CASE i = n
      BY <1>1, <1>4, <1>6, <1>7, <3>1
    <3>2. CASE i # n
      <4>1. i \in 1..(n - 1)
        BY <1>1, <3>2
      <4>2. Append(b, x)[i] = b[i]
        BY <1>4, <1>6, <4>1
      <4>3. b[i] = Replay(f[i].log) /\ f[i] = q[i] /\ LogsOf(q)[i] = Replay(q[i].log)
        BY <1>2, <1>5, <1>6, <4>1
      <4> QED
        BY <4>2, <4>3
    <3> QED
      BY <3>1, <3>2
  <2> QED
    BY <1>5, <2>1, <2>2, SeqEqual
<1>9. Reverse(Append(b, x)) = << x >> \o Reverse(b) /\ Reverse(b) \in Seq(Block)
  BY <1>4, <1>6, ReverseAppend
<1>10. << x >> \in Seq(Block) /\ First(<< x >>, k) = x[k]
  BY <1>4, FirstOne
<1>11. First(<< x >> \o Reverse(b), k) = Over(First(<< x >>, k), First(Reverse(b), k))
  BY <1>9, <1>10, FirstConcat
<1> QED
  BY <1>8, <1>9, <1>10, <1>11 DEF x, w, b, f

\* The replayed tables, newest first, are the logs they were made from.
LEMMA ReplayedAreLogs ==
    ASSUME RestartInv, RecoverInv, phase = "signal"
    PROVE  BlocksOf(Reverse(immutable)) = Reverse(LogsOf(walFiles))
<1> DEFINE q == immutable
           n == Len(walFiles)
           a == BlocksOf(Reverse(q))
           b == Reverse(LogsOf(walFiles))
<1>1. /\ q \in Seq(Table) /\ Len(q) = n /\ n \in Nat /\ walFiles \in Seq(WalFile)
      /\ \A i \in 1..n : write_sstable(q[i]) = Replay(walFiles[i].log)
  <2>1. /\ immutable = replayed /\ Len(replayed) = Len(walFiles) /\ walFiles \in Seq(WalFile)
        /\ immutable \in Seq(Table) /\ \A i \in DOMAIN replayed : replayed[i] # Absent
    BY DEF RestartInv, StartInv, StartType, TypeOK
  <2>2. DOMAIN replayed = 1..n /\ n \in Nat
    BY <2>1
  <2> QED
    BY <2>1, <2>2 DEF RecoverInv
<1> HIDE DEF q, n
<1>2. \A i \in 1..n : n - i + 1 \in 1..n
  BY <1>1
<1>3. Reverse(q) = [i \in 1..n |-> q[n - i + 1]]
  BY <1>1 DEF Reverse
<1>4. Reverse(q) \in Seq(Table) /\ Len(Reverse(q)) = n /\ \A i \in 1..n : Reverse(q)[i] = q[n - i + 1]
  <2>1. \A i \in 1..n : q[n - i + 1] \in Table
    BY <1>1, <1>2
  <2> QED
    BY <1>1, <1>3, <2>1
<1>5. a \in Seq(Block) /\ Len(a) = n /\ \A i \in 1..n : a[i] = write_sstable(Reverse(q)[i])
  BY <1>4, BlocksType
<1>6. /\ LogsOf(walFiles) \in Seq(Block) /\ Len(LogsOf(walFiles)) = n
      /\ \A i \in 1..n : LogsOf(walFiles)[i] = Replay(walFiles[i].log)
  BY <1>1, LogsType DEF n
<1>7. b = [i \in 1..n |-> LogsOf(walFiles)[n - i + 1]]
  BY <1>6 DEF Reverse
<1>8. b \in Seq(Block) /\ Len(b) = n /\ \A i \in 1..n : b[i] = LogsOf(walFiles)[n - i + 1]
  <2>1. \A i \in 1..n : LogsOf(walFiles)[n - i + 1] \in Block
    BY <1>2, <1>6
  <2> HIDE DEF b
  <2> QED
    BY <1>1, <1>7, <2>1
<1>9. ASSUME NEW i \in 1..n PROVE a[i] = b[i]
  <2> DEFINE j == n - i + 1
  <2>1. j \in 1..n
    BY <1>2
  <2>2. a[i] = write_sstable(q[j])
    BY <1>4, <1>5
  <2>3. b[i] = LogsOf(walFiles)[j]
    BY <1>8
  <2>4. LogsOf(walFiles)[j] = Replay(walFiles[j].log) /\ write_sstable(q[j]) = Replay(walFiles[j].log)
    BY <1>1, <1>6, <2>1
  <2> QED
    BY <2>2, <2>3, <2>4
<1> HIDE DEF a, b
<1>10. a = b
  BY <1>5, <1>8, <1>9, SeqEqual
<1> QED
  BY <1>10 DEF a, b, q

\* The files read by a start: all that is expected of it.
LEMMA RecoverStart ==
    ASSUME RestartInv, NEW p \in StartIn, Start(p)
    PROVE  RecoverInv'
<1>1. /\ phase = "down" /\ phase' = "memtable" /\ walFiles' = scan_wals /\ expected' = OnDisk
      /\ UNCHANGED sstables
  BY DEF Start
<1>2. \A k \in Key : OnDisk[k] = Plain(Over(First(Reverse(LogsOf(scan_wals)), k), First(FileBlocks, k)))
  BY OnDiskAt DEF RestartInv
<1>3. FileBlocks' = FileBlocks
  BY <1>1 DEF FileBlocks
<1>4. \A k \in Key : InLogs(k)' = First(Reverse(LogsOf(scan_wals)), k) /\ InFiles(k)' = First(FileBlocks, k)
  BY <1>1, <1>3 DEF InLogs, InFiles
<1>5. \A k \in Key : expected'[k] = Plain(Over(InLogs(k)', InFiles(k)'))
  BY <1>1, <1>2, <1>4
<1> QED
  BY <1>1, <1>5 DEF RecoverInv

LEMMA RecoverMemtable ==
    ASSUME RestartInv, RecoverInv, StartMemtable
    PROVE  RecoverInv'
<1>1. phase = "memtable" /\ UNCHANGED << sstables, walFiles, expected >>
  BY DEF StartMemtable, startVars
<1>2. \/ phase' = "failed"
      \/ phase' = "unlink" /\ write_sstable(memtable') = Replay(Last(walFiles).log)
  BY RestartMemtable DEF Rebuilds
<1>3. FileBlocks' = FileBlocks
  BY <1>1 DEF FileBlocks
<1>4. \A k \in Key : InLogs(k)' = InLogs(k) /\ InFiles(k)' = InFiles(k)
  BY <1>1, <1>3 DEF InLogs, InFiles
<1> QED
  BY <1>1, <1>2, <1>4 DEF RecoverInv

LEMMA RecoverUnlink ==
    ASSUME RestartInv, RecoverInv, StartUnlink
    PROVE  RecoverInv'
<1>1. /\ phase = "unlink" /\ phase' = "cache" /\ walFiles' = Front(walFiles)
      /\ UNCHANGED << memtable, sstables, expected >>
  BY DEF StartUnlink
<1>2. /\ walFiles \in Seq(WalFile) /\ walFiles # << >>
      /\ write_sstable(memtable) = Replay(Last(walFiles).log)
  BY <1>1 DEF RestartInv, StartType, StartInv, RecoverInv
<1>3. FileBlocks' = FileBlocks
  BY <1>1 DEF FileBlocks
<1>4. ASSUME NEW k \in Key
      PROVE  expected'[k] = Plain(Over(Active(k)', Over(InLogs(k)', InFiles(k)')))
  <2>1. InLogs(k) = Over(Replay(Last(walFiles).log)[k], First(Reverse(LogsOf(Front(walFiles))), k))
    BY <1>2, LogsFront DEF InLogs
  <2>2. Active(k)' = Replay(Last(walFiles).log)[k]
    BY <1>1, <1>2 DEF Active
  <2>3. InLogs(k)' = First(Reverse(LogsOf(Front(walFiles))), k)
    BY <1>1 DEF InLogs
  <2>4. InFiles(k)' = InFiles(k)
    BY <1>3 DEF InFiles
  <2>5. expected[k] = Plain(Over(InLogs(k), InFiles(k)))
    BY <1>1 DEF RecoverInv
  <2>6. InLogs(k) = Over(Active(k)', InLogs(k)')
    BY <2>1, <2>2, <2>3
  <2>7. expected[k] = Plain(Over(Active(k)', Over(InLogs(k)', InFiles(k))))
    BY <2>5, <2>6, OverAssoc
  <2> QED
    BY <1>1, <2>4, <2>7
<1> QED
  BY <1>1, <1>4 DEF RecoverInv

\* What is found in a start's last state is what it serves.
LEMMA Handed ==
    ASSUME (TypeOK /\ PipelineInv /\ DiskNames)', \A c \in Client : held'[c] = Absent,
           cache' = scan_sstables',
           \A i \in DOMAIN cache' : cache'[i].data # Partial,
           \A k \in Key : expected[k] = Plain(Over(Active(k)', Over(Queued(k)', InFiles(k)'))),
           expected \in [Key -> Value \cup {Absent}]
    PROVE  Contents' = expected
<1>1. AsRead' => Serves'
  BY ServesAsRead, PTL
<1>2. AsRead'
  BY DEF AsRead
<1>3. \A k \in Key : Contents'[k] = expected[k]
  BY <1>1, <1>2 DEF Serves
<1>4. Contents' = [k \in Key |-> Contents'[k]]
  BY DEF Contents
<1> QED
  BY <1>3, <1>4

LEMMA RecoverCache ==
    ASSUME RestartInv, RecoverInv, StartCache
    PROVE  RecoverInv' /\ (phase' = "running" => Contents' = expected)
<1>1. /\ phase = "cache"
      /\ replayed' = [i \in DOMAIN walFiles |-> Absent]
      /\ \/ phase' = "failed"
         \/ /\ \A i \in DOMAIN sstFiles : sstFiles[i].data # Partial
            /\ cache' = sstFiles
            /\ \/ walFiles = << >> /\ phase' = "running"
               \/ phase' = "replay"
      /\ UNCHANGED << UntouchedByStart, memtable, immutable, sstables, walFiles, expected >>
  BY DEF StartCache, Running
<1>2. FileBlocks' = FileBlocks /\ scan_sstables' = scan_sstables
  BY <1>1 DEF FileBlocks, scan_sstables
<1>3. \A k \in Key : /\ Active(k)' = Active(k) /\ Queued(k)' = Queued(k)
                     /\ InLogs(k)' = InLogs(k) /\ InFiles(k)' = InFiles(k)
  BY <1>1, <1>2 DEF Active, Queued, InLogs, InFiles
<1>4. \A k \in Key : expected[k] = Plain(Over(Active(k), Over(InLogs(k), InFiles(k))))
  BY <1>1 DEF RecoverInv
<1>5. RecoverInv'
  BY <1>1, <1>3, <1>4 DEF RecoverInv
<1>6. ASSUME phase' = "running" PROVE Contents' = expected
  <2>1. RestartInv'
    BY RestartCache
  <2>2. (TypeOK /\ PipelineInv /\ DiskNames)'
    BY <2>1 DEF RestartInv
  <2>3. \A c \in Client : held'[c] = Absent
    BY <1>1 DEF RestartInv, StartInv, FreshState, Fresh, UntouchedByStart, clientVars
  <2>4. sstFiles = scan_sstables /\ immutable = << >> /\ expected \in [Key -> Value \cup {Absent}]
    BY <1>1 DEF RestartInv, StartInv, StartType
  <2>5. /\ cache' = scan_sstables' /\ walFiles = << >>
        /\ \A i \in DOMAIN cache' : cache'[i].data # Partial
    BY <1>1, <1>2, <1>6, <2>4
  <2>6. ASSUME NEW k \in Key PROVE Queued(k) = Absent /\ InLogs(k) = Absent
    <3>1. Reverse(<< >>) = << >>
      BY DEF Reverse
    <3>2. BlocksOf(<< >>) = << >> /\ LogsOf(<< >>) = << >>
      BY DEF BlocksOf, LogsOf
    <3> QED
      BY <2>4, <2>5, <3>1, <3>2, FirstNone DEF Queued, InLogs
  <2>7. \A k \in Key : expected[k] = Plain(Over(Active(k)', Over(Queued(k)', InFiles(k)')))
    BY <1>3, <1>4, <2>6
  <2> QED
    BY <2>2, <2>3, <2>4, <2>5, <2>7, Handed
<1> QED
  BY <1>5, <1>6

LEMMA RecoverReplay ==
    ASSUME RestartInv, RecoverInv, NEW i \in DOMAIN walFiles, StartReplay(i)
    PROVE  RecoverInv'
<1>1. phase = "replay" /\ UNCHANGED << memtable, sstables, walFiles, expected >>
  BY DEF StartReplay
<1>2. CASE phase' = "failed"
  BY <1>2 DEF RecoverInv
<1>3. CASE /\ phase' = "replay"
           /\ replayed' = [replayed EXCEPT ![i] = from_wal(walFiles[i].log, clock + 1)]
           /\ Rebuilds(replayed'[i], walFiles[i].log, clock + 1)
  <2>1. FileBlocks' = FileBlocks
    BY <1>1 DEF FileBlocks
  <2>2. \A k \in Key : Active(k)' = Active(k) /\ InLogs(k)' = InLogs(k) /\ InFiles(k)' = InFiles(k)
    BY <1>1, <2>1 DEF Active, InLogs, InFiles
  <2>3. \A j \in DOMAIN replayed' :
          replayed'[j] # Absent => write_sstable(replayed'[j]) = Replay(walFiles[j].log)
    <3>1. write_sstable(replayed'[i]) = Replay(walFiles[i].log)
      BY <1>3 DEF Rebuilds
    <3>2. DOMAIN replayed' = DOMAIN replayed /\ \A j \in DOMAIN replayed : j # i => replayed'[j] = replayed[j]
      BY <1>3
    <3> QED
      BY <1>1, <3>1, <3>2 DEF RecoverInv
  <2> QED
    BY <1>1, <1>3, <2>2, <2>3 DEF RecoverInv
<1> QED
  BY <1>2, <1>3, RestartReplay

LEMMA RecoverFrame ==
    ASSUME RecoverInv, phase \in {"replay", "signal"}, phase' \in {"replay", "signal", "failed"},
           UNCHANGED << memtable, sstables, walFiles, expected, replayed >>
    PROVE  RecoverInv'
<1>1. FileBlocks' = FileBlocks
  BY DEF FileBlocks
<1>2. \A k \in Key : Active(k)' = Active(k) /\ InLogs(k)' = InLogs(k) /\ InFiles(k)' = InFiles(k)
  BY <1>1 DEF Active, InLogs, InFiles
<1> QED
  BY <1>2 DEF RecoverInv

LEMMA RecoverSignal ==
    ASSUME RestartInv, RecoverInv, StartSignal
    PROVE  RecoverInv' /\ (phase' = "running" => Contents' = expected)
<1>1. /\ phase = "signal" /\ phase' \in {"signal", "running", "failed"}
      /\ UNCHANGED << UntouchedByStart, memtable, immutable, cache, sstables, walFiles,
                      replayed, expected >>
  BY DEF StartSignal, Running, startVars, tableVars, diskVars
<1>2. CASE phase' # "running"
  BY <1>1, <1>2, RecoverFrame
<1>3. CASE phase' = "running"
  <2>1. RecoverInv'
    BY <1>3 DEF RecoverInv
  <2>2. RestartInv'
    BY RestartSignal
  <2>3. (TypeOK /\ PipelineInv /\ DiskNames)'
    BY <2>2 DEF RestartInv
  <2>4. \A c \in Client : held'[c] = Absent
    BY <1>1 DEF RestartInv, StartInv, FreshState, Fresh, UntouchedByStart, clientVars
  <2>5. /\ sstFiles = scan_sstables /\ cache = sstFiles /\ expected \in [Key -> Value \cup {Absent}]
        /\ \A i \in DOMAIN sstFiles : sstFiles[i].data # Partial
    BY <1>1 DEF RestartInv, StartInv, StartType
  <2>6. FileBlocks' = FileBlocks /\ scan_sstables' = scan_sstables
    BY <1>1 DEF FileBlocks, scan_sstables
  <2>7. /\ cache' = scan_sstables'
        /\ \A i \in DOMAIN cache' : cache'[i].data # Partial
    BY <1>1, <2>5, <2>6
  <2>8. \A k \in Key : Active(k)' = Active(k) /\ Queued(k)' = Queued(k) /\ InFiles(k)' = InFiles(k)
    BY <1>1, <2>6 DEF Active, Queued, InFiles
  <2>9. \A k \in Key : Queued(k) = InLogs(k)
    BY <1>1, ReplayedAreLogs DEF Queued, InLogs
  <2>10. \A k \in Key : expected[k] = Plain(Over(Active(k), Over(InLogs(k), InFiles(k))))
    BY <1>1 DEF RecoverInv
  <2>11. \A k \in Key : expected[k] = Plain(Over(Active(k)', Over(Queued(k)', InFiles(k)')))
    BY <2>8, <2>9, <2>10
  <2>12. Contents' = expected
    BY <2>3, <2>4, <2>5, <2>7, <2>11, Handed
  <2> QED
    BY <2>1, <2>12
<1> QED
  BY <1>2, <1>3

LEMMA RecoverStep ==
    ASSUME RestartInv, RecoverInv, [RestartNext]_restartVars
    PROVE  RecoverInv' /\ (phase # "running" /\ phase' = "running" => Contents' = expected)
<1>1. CASE Run \/ Crash
  BY <1>1 DEF Run, Crash, RecoverInv
<1>2. CASE \E p \in StartIn : Start(p)
  <2>1. phase' # "running"
    BY <1>2 DEF Start
  <2> QED
    BY <1>2, <2>1, RecoverStart
<1>3. CASE StartMemtable \/ StartUnlink
  <2>1. phase' # "running"
    BY <1>3 DEF StartMemtable, StartUnlink
  <2> QED
    BY <1>3, <2>1, RecoverMemtable, RecoverUnlink
<1>4. CASE StartCache \/ StartSignal
  BY <1>4, RecoverCache, RecoverSignal
<1>5. CASE \E i \in DOMAIN walFiles : StartReplay(i)
  <2>1. phase' # "running"
    BY <1>5 DEF StartReplay
  <2> QED
    BY <1>5, <2>1, RecoverReplay
<1>6. CASE StartQueue \/ \E i \in DOMAIN walFiles : StartReplayUnlink(i)
  <2>1. /\ phase = "replay" /\ phase' \in {"replay", "signal"}
        /\ UNCHANGED << memtable, sstables, walFiles, expected, replayed >>
    BY <1>6 DEF StartQueue, StartReplayUnlink, startVars
  <2> QED
    BY <2>1, RecoverFrame
<1>7. CASE Abandoned \/ UNCHANGED restartVars
  <2>1. /\ UNCHANGED << phase, walFiles, replayed, expected >> /\ UNCHANGED vars
    BY <1>7 DEF Abandoned, restartVars, startVars
  <2>2. UNCHANGED << memtable, sstables >>
    BY <2>1 DEF vars, tableVars, diskVars
  <2>3. FileBlocks' = FileBlocks
    BY <2>2 DEF FileBlocks
  <2>4. \A k \in Key : Active(k)' = Active(k) /\ InLogs(k)' = InLogs(k) /\ InFiles(k)' = InFiles(k)
    BY <2>1, <2>2, <2>3 DEF Active, InLogs, InFiles
  <2> QED
    BY <2>1, <2>2, <2>4 DEF RecoverInv
<1> QED
  BY <1>1, <1>2, <1>3, <1>4, <1>5, <1>6, <1>7 DEF RestartNext, StartStep

\* A start that completes serves what the logs and the SSTable files held when
\* it began, for every order in which its workers load tables and replay logs.
THEOREM StartsRecover == RestartSpec => StartRecovers
<1>1. RestartInit => RestartInv /\ RecoverInv
  BY RestartInitInv DEF RestartInit, RecoverInv
<1>2. RestartInv /\ RecoverInv /\ [RestartNext]_restartVars => RestartInv' /\ RecoverInv'
  BY RestartInvStep, RecoverStep
<1>3. RestartInv /\ RecoverInv /\ [RestartNext]_restartVars
        => [phase # "running" /\ phase' = "running" => Contents' = expected]_restartVars
  BY RecoverStep
<1> QED
  BY <1>1, <1>2, <1>3, PTL DEF RestartSpec, StartRecovers

----------------------------------------------------------------------------
(* A log fits into the table it is replayed into.                          *)

Fits(log) == from_wal(log, 0) # Absent

\* The replay of the log has the shape of the table.
Refills(t, log) ==
    LET r == from_wal(log, t.wal)
    IN  r # Absent /\ r.arena = t.arena /\ r.size = t.size

LEMMA RefillFits ==
    ASSUME NEW t \in Table, NEW log \in Seq(Entry), Refills(t, log)
    PROVE  Fits(log)
<1>1. t.wal \in Nat /\ 0 \in Nat
  BY DEF Table
<1>2. from_wal(log, t.wal) # Absent
  BY DEF Refills
<1>3. \/ from_wal(log, t.wal) = Absent /\ from_wal(log, 0) = Absent
      \/ Like(from_wal(log, t.wal), from_wal(log, 0))
  BY <1>1, FromWalTable
<1>4. \A u : Like(from_wal(log, t.wal), u) => u # Absent
  BY TableAssumption DEF Like
<1> QED
  BY <1>2, <1>3, <1>4 DEF Fits

\* Whatever the new log is called.
LEMMA FitsAny ==
    ASSUME NEW log \in Seq(Entry), NEW ts \in Nat, Fits(log)
    PROVE  from_wal(log, ts) # Absent
<1>1. \/ from_wal(log, ts) = Absent /\ from_wal(log, 0) = Absent
      \/ Rebuilds(from_wal(log, ts), log, ts)
  BY FromWalTable
<1> QED
  BY <1>1, TableAssumption DEF Fits, Rebuilds

\* A table that is not full and its replay take a record alike.
LEMMA RefillInsert ==
    ASSUME NEW t \in Table, NEW log \in Seq(Entry), NEW e \in Entry, NEW due \in BOOLEAN,
           Refills(t, log), ~full(t)
    PROVE  Refills(insert_node(write_log(t, e, due), e), Append(log, e))
<1> DEFINE u == write_log(t, e, due)
           v == insert_node(u, e)
           r == from_wal(log, t.wal)
           s == from_wal(Append(log, e), t.wal)
<1>1. u \in Table /\ u.arena = t.arena /\ u.wal = t.wal /\ u.size = t.size
  <2>1. u.size = t.size
    BY DEF write_log, Table
  <2> QED
    BY <2>1, WriteLogTable
<1>2. r # Absent /\ r.arena = t.arena /\ r.size = t.size
  BY DEF Refills
<1>3. t.wal \in Nat
  BY DEF Table
<1>4. r \in Table
  <2>1. r = Absent \/ Rebuilds(r, log, t.wal)
    BY <1>3, FromWalTable
  <2> QED
    BY <1>2, <2>1 DEF Rebuilds
<1>5. s = insert_record_from_wal(r, e)
  BY FromWalAppend
<1> HIDE DEF u, r
<1>6. ~full(r)
  BY <1>2 DEF full, Nodes
<1>7. s = insert_node(r, e)
  BY <1>2, <1>5, <1>6 DEF insert_record_from_wal
<1>8. Nodes(r) = Nodes(u) /\ r.arena = u.arena /\ r.size = u.size
  BY <1>1, <1>2 DEF Nodes
<1>9. s.arena = v.arena /\ s.size = v.size
  <2>1. CASE u.arena[e.key] # Absent
    BY <1>1, <1>4, <1>7, <1>8, <2>1 DEF insert_node, Table
  <2>2. CASE u.arena[e.key] = Absent
    BY <1>1, <1>4, <1>7, <1>8, <2>2 DEF insert_node, Table
  <2> QED
    BY <2>1, <2>2
<1>10. s \in Table /\ v \in Table /\ v.wal = t.wal
  BY <1>1, <1>4, <1>7, InsertNodeType
<1>11. s # Absent
  BY <1>10, TableAssumption
<1> HIDE DEF s, v
<1>12. from_wal(Append(log, e), v.wal) = s
  BY <1>10 DEF s
<1>13. Refills(v, Append(log, e))
  BY <1>9, <1>11, <1>12 DEF Refills
<1> QED
  BY <1>13 DEF u, v

\* Every log fits into a table, and the active table is what its log and its
\* buffer are replayed into.
AllFit == \A w \in wals : Fits(w.log)

ActiveRefills ==
    \E w \in wals : w.ts = memtable.wal /\ Refills(memtable, w.log \o memtable.buffer)

LEMMA FitInsert ==
    ASSUME TypeOK, DiskNames, AllFit, ActiveRefills, NEW e \in Entry, ~full(memtable), Insert(e)
    PROVE  AllFit' /\ ActiveRefills'
<1> DEFINE t == memtable
<1>1. PICK due \in NeedsFlush :
        /\ memtable' = insert_node(write_log(t, e, due), e)
        /\ wals' = IF due THEN FlushLog(t) ELSE wals
  BY DEF Insert
<1>2. due \in BOOLEAN /\ t \in Table /\ t.wal \in Nat /\ t.buffer \in Seq(Entry)
  BY LsmliteAssumption DEF TypeOK, Table
<1>3. PICK w \in wals : w.ts = t.wal /\ Refills(t, w.log \o t.buffer)
  BY DEF ActiveRefills
<1>4. w \in WalFile /\ w.log \in Seq(Entry) /\ w.log \o t.buffer \in Seq(Entry)
  BY <1>2 DEF TypeOK, WalFile
<1>5. Refills(memtable', Append(w.log \o t.buffer, e))
  BY <1>1, <1>2, <1>3, <1>4, RefillInsert
<1>6. memtable'.wal = t.wal /\ memtable'.buffer = Append(IF due THEN << >> ELSE t.buffer, e)
  <2> DEFINE u == write_log(t, e, due)
  <2>1. u \in Table /\ u.wal = t.wal /\ u.buffer = Append(IF due THEN << >> ELSE t.buffer, e)
    BY <1>2, WriteLogTable
  <2> HIDE DEF u
  <2>2. insert_node(u, e).wal = u.wal /\ insert_node(u, e).buffer = u.buffer
    BY <2>1 DEF insert_node, Table
  <2> QED
    BY <1>1, <2>1, <2>2 DEF u
<1>7. CASE ~due
  <2>1. w.log \o memtable'.buffer = Append(w.log \o t.buffer, e)
    <3>1. memtable'.buffer = Append(t.buffer, e)
      BY <1>6, <1>7
    <3>2. w.log \o Append(t.buffer, e) = Append(w.log \o t.buffer, e)
      BY <1>2, <1>4, ConcatAppend
    <3> QED
      BY <3>1, <3>2
  <2>2. wals' = wals
    BY <1>1, <1>7
  <2> QED
    BY <1>3, <1>5, <1>6, <2>1, <2>2 DEF AllFit, ActiveRefills
<1>8. CASE due
  <2> DEFINE F(y) == IF y.ts = t.wal THEN [y EXCEPT !.log = @ \o t.buffer] ELSE y
             x == F(w)
  <2>1. wals' = {F(y) : y \in wals}
    BY <1>1, <1>8 DEF FlushLog
  <2>2. x.ts = t.wal /\ x.log = w.log \o t.buffer
    BY <1>3, <1>4 DEF WalFile
  <2>3. x \in wals'
    BY <1>3, <2>1
  <2>4. memtable'.buffer = Append(<< >>, e)
    BY <1>6, <1>8
  <2> HIDE DEF x
  <2>5. x.log \o memtable'.buffer = Append(w.log \o t.buffer, e)
    BY <1>4, <2>2, <2>4, ConcatAppend, Zenon
  <2>6. ActiveRefills'
    BY <1>5, <1>6, <2>2, <2>3, <2>5 DEF ActiveRefills
  <2>7. Fits(x.log)
    BY <1>2, <1>3, <1>4, <2>2, RefillFits
  <2>8. ASSUME NEW y \in wals PROVE Fits(F(y).log)
    <3>1. CASE y.ts = t.wal
      <4>1. y = w
        BY <1>3, <3>1 DEF DiskNames
      <4> QED
        BY <2>7, <4>1 DEF x
    <3>2. CASE y.ts # t.wal
      BY <3>2 DEF AllFit
    <3> QED
      BY <3>1, <3>2
  <2> HIDE DEF F
  <2>9. AllFit'
    BY <2>1, <2>8 DEF AllFit
  <2> QED
    BY <2>6, <2>9
<1> QED
  BY <1>7, <1>8

\* An empty log fits.
LEMMA EmptyFits ==
    ASSUME NEW ts \in Nat
    PROVE  Fits(<< >>) /\ Refills(NewTable(ts), << >>)
<1>1. from_wal(<< >>, ts) = NewTable(ts) /\ from_wal(<< >>, 0) = NewTable(0)
  BY FromWalEmpty
<1>2. NewTable(ts) \in Table /\ NewTable(0) \in Table
  BY NewTableType
<1>3. NewTable(ts) # Absent /\ NewTable(0) # Absent
  BY <1>2, TableAssumption
<1>4. NewTable(ts).wal = ts
  BY DEF NewTable
<1> QED
  BY <1>1, <1>3, <1>4 DEF Fits, Refills

\* The running engine.
LEMMA FitCall ==
    ASSUME TypeOK, PipelineInv, DiskNames, AllFit, ActiveRefills, NEW c \in Client,
           \/ \E k \in Key : Set(c, k) \/ Delete(c, k) \/ Get(c, k)
           \/ CallPoisoned(c) \/ RotateFails(c) \/ Cancel(c) \/ Call(c)
    PROVE  AllFit' /\ ActiveRefills'
<1>0. ASSUME UNCHANGED << memtable, wals >> PROVE AllFit' /\ ActiveRefills'
  BY <1>0 DEF AllFit, ActiveRefills
<1>1. ASSUME NEW e \in Entry, Write(c, e) \/ (Retry(c) /\ e = req[c])
      PROVE  AllFit' /\ ActiveRefills'
  <2>1. (~full(memtable) /\ Insert(e)) \/ UNCHANGED << memtable, wals >>
    BY <1>1 DEF Write, Retry
  <2> QED
    BY <1>0, <2>1, FitInsert
<1>2. CASE \E k \in Key : Set(c, k) \/ Delete(c, k)
  BY <1>1, <1>2, WriteEntries DEF Set, Delete
<1>3. CASE Retry(c)
  BY <1>1, <1>3 DEF Retry, PipelineInv, CallsCarry
<1>4. CASE \/ \E k \in Key : Get(c, k)
           \/ CallPoisoned(c) \/ RotateFails(c) \/ Cancel(c) \/ Push(c) \/ Signal(c)
           \/ SignalClosed(c) \/ GetImmutable(c) \/ GetSSTable(c) \/ Return(c)
  <2>1. UNCHANGED << memtable, wals >>
    BY <1>4 DEF Get, CallPoisoned, RotateFails, Cancel, Push, Signal, SignalClosed, GetImmutable,
         GetSSTable, Return, tableVars, diskVars
  <2> QED
    BY <1>0, <2>1
<1>5. CASE Rotate(c)
  <2> DEFINE n == NewTable(clock + 1)
             x == [ts |-> clock + 1, log |-> << >>]
  <2>1. memtable' = n /\ wals' = wals \cup {x}
    BY <1>5 DEF Rotate
  <2>2. n.wal = clock + 1 /\ n.buffer = << >> /\ x.ts = clock + 1 /\ x.log = << >> /\ clock + 1 \in Nat
    BY DEF NewTable, TypeOK
  <2>3. Fits(<< >>) /\ Refills(n, << >>)
    BY <2>2, EmptyFits
  <2>4. x.log \o n.buffer = << >>
    BY <2>2
  <2> HIDE DEF n, x
  <2> QED
    BY <2>1, <2>2, <2>3, <2>4 DEF AllFit, ActiveRefills
<1> QED
  BY <1>2, <1>3, <1>4, <1>5 DEF Call

LEMMA FitStep ==
    ASSUME TypeOK, PipelineInv, DiskNames, ActiveNames, AllFit, ActiveRefills, [Next]_vars
    PROVE  AllFit' /\ ActiveRefills'
<1>1. CASE UNCHANGED vars \/ Quiescent
  BY <1>1 DEF Quiescent, vars, clientVars, tableVars, diskVars, AllFit, ActiveRefills
<1>2. CASE \E c \in Client :
            \/ \E k \in Key : Set(c, k) \/ Delete(c, k) \/ Get(c, k)
            \/ CallPoisoned(c) \/ RotateFails(c) \/ Cancel(c) \/ Call(c)
  BY <1>2, FitCall
<1>3. CASE \/ Flusher \/ FlushCreateFails \/ FlushFails
           \/ Compactor \/ CompactorFails
           \/ DropSignalCompactor \/ DropSignalFlusher \/ DropInTask
  <2>0. UNCHANGED memtable
    BY <1>3, TasksFrame
  <2>1. CASE FlushUnlink
    <3>1. flushPc = "unlink" /\ wals' = {w \in wals : w.ts # flushHead.wal}
      BY <2>1 DEF FlushUnlink
    <3>2. InFlight /\ flushHead = Head(immutable) /\ immutable # << >>
      BY <3>1, FrontExists DEF PipelineInv, QueueCovered, InFlight
    <3>3. 1 \in DOMAIN immutable /\ flushHead = immutable[1]
      BY <3>2 DEF TypeOK
    <3>4. flushHead.wal # memtable.wal
      BY <3>3 DEF ActiveNames
    <3> QED
      BY <2>0, <3>1, <3>4 DEF AllFit, ActiveRefills
  <2>2. CASE ~FlushUnlink
    <3>1. wals' = wals
      BY <1>3, <2>2 DEF Flusher, Compactor, FlushRecv, FlushWrite, FlushShutdown, FlushRecvClosed,
         FlushFront, FlushLoad, FlushAck, FlushAckClosed, FlushCreateFails, FlushFails,
         CompactorCreate, CompactorFinish, CompactorCleanup, CompactorPop, CompactorLoad,
         CompactorShutdown, CompactorRecvClosed, CompactorReplace, CompactorCleaned, CompactorAck,
         CompactorFails, DropSignalCompactor, DropSignalFlusher, DropInTask, diskVars
    <3> QED
      BY <2>0, <3>1 DEF AllFit, ActiveRefills
  <2> QED
    BY <2>1, <2>2
<1> QED
  BY <1>1, <1>2, <1>3 DEF Next

\* The logs of the first process fit, and the first start's logs are those.
FitInv ==
    /\ crashes = 0 => phase = "running" /\ AllFit /\ ActiveRefills
    /\ crashes <= 1 /\ phase = "down" => AllFit
    /\ crashes <= 1 /\ phase \in {"memtable", "unlink", "cache", "replay"} =>
        \A i \in DOMAIN walFiles : Fits(walFiles[i].log)
    /\ crashes <= 1 => ReplayFits

LEMMA FitRestart ==
    ASSUME RestartInv, FitInv, [RestartNext]_restartVars
    PROVE  FitInv'
<1>0. crashes \in Nat /\ TypeOK /\ PipelineInv /\ DiskNames /\ walFiles \in Seq(WalFile)
  BY DEF RestartInv, StartType
<1>1. CASE Run
  <2>1. phase = "running" /\ Next /\ UNCHANGED << phase, crashes, walFiles >>
    BY <1>1 DEF Run, startVars
  <2>2. ActiveNames
    BY <2>1 DEF RestartInv, StartInv, HasTable
  <2>3. crashes = 0 => AllFit' /\ ActiveRefills'
    BY <1>0, <2>1, <2>2, FitStep DEF FitInv
  <2> QED
    BY <2>1, <2>3 DEF FitInv, ReplayFits
<1>2. CASE Crash
  <2>1. crashes' = crashes + 1 /\ phase' = "down" /\ UNCHANGED wals
    BY <1>2 DEF Crash
  <2>2. crashes' <= 1 => AllFit'
    BY <1>0, <2>1 DEF FitInv, AllFit
  <2> QED
    BY <1>0, <2>1, <2>2 DEF FitInv, ReplayFits
<1>3. CASE \E p \in StartIn : Start(p)
  <2>1. phase = "down" /\ phase' = "memtable" /\ crashes' = crashes /\ walFiles' = scan_wals
    BY <1>3 DEF Start
  <2>2. scan_wals \in Seq(wals)
    BY <1>0, WalsScanned
  <2>3. crashes <= 1 => \A i \in DOMAIN scan_wals : Fits(scan_wals[i].log)
    BY <2>1, <2>2 DEF FitInv, AllFit
  <2> QED
    BY <2>1, <2>3 DEF FitInv, ReplayFits
<1>4. ASSUME NEW i \in DOMAIN walFiles PROVE walFiles[i].log \in Seq(Entry)
  <2>1. walFiles[i] \in WalFile
    BY <1>0
  <2> QED
    BY <2>1 DEF WalFile
<1>5. clock + 1 \in Nat
  BY <1>0 DEF TypeOK
<1>6. CASE StartMemtable
  <2>1. phase = "memtable" /\ UNCHANGED << crashes, walFiles >>
    BY <1>6 DEF StartMemtable, startVars
  <2>2. /\ walFiles # << >>
        /\ \/ phase' = "failed" /\ from_wal(Last(walFiles).log, clock + 1) = Absent
           \/ phase' = "unlink"
    BY <1>6, RestartMemtable
  <2>3. Len(walFiles) \in DOMAIN walFiles /\ Last(walFiles) = walFiles[Len(walFiles)]
    BY <1>0, <2>2 DEF Last
  <2>4. crashes <= 1 => phase' = "unlink"
    <3>1. crashes <= 1 => Fits(Last(walFiles).log)
      BY <2>1, <2>3 DEF FitInv
    <3>2. crashes <= 1 => from_wal(Last(walFiles).log, clock + 1) # Absent
      BY <1>4, <1>5, <2>3, <3>1, FitsAny
    <3> QED
      BY <2>2, <3>2
  <2> QED
    BY <2>1, <2>2, <2>4 DEF FitInv, ReplayFits
<1>7. CASE StartUnlink
  <2>1. /\ phase = "unlink" /\ phase' = "cache" /\ walFiles' = Front(walFiles) /\ UNCHANGED crashes
    BY <1>7 DEF StartUnlink
  <2>2. walFiles # << >>
    BY <2>1 DEF RestartInv, StartInv
  <2>3. \A i \in DOMAIN Front(walFiles) : i \in DOMAIN walFiles /\ Front(walFiles)[i] = walFiles[i]
    BY <1>0, <2>2 DEF Front
  <2> QED
    BY <2>1, <2>3 DEF FitInv, ReplayFits
<1>8. CASE StartCache
  <2>1. /\ phase = "cache" /\ UNCHANGED << walFiles, sstFiles, crashes >>
        /\ \/ phase' = "failed" /\ \E i \in DOMAIN sstFiles : sstFiles[i].data = Partial
           \/ phase' \in {"running", "replay"}
    BY <1>8 DEF StartCache, Running
  <2> QED
    BY <2>1 DEF FitInv, ReplayFits
<1>9. ASSUME NEW i \in DOMAIN walFiles, StartReplay(i) PROVE FitInv'
  <2>1. phase = "replay" /\ UNCHANGED << crashes, walFiles >>
    BY <1>9 DEF StartReplay
  <2>2. \/ phase' = "failed" /\ from_wal(walFiles[i].log, clock + 1) = Absent
        \/ phase' = "replay"
    BY <1>9, RestartReplay
  <2>3. crashes <= 1 => phase' = "replay"
    <3>1. crashes <= 1 => Fits(walFiles[i].log)
      BY <2>1 DEF FitInv
    <3>2. crashes <= 1 => from_wal(walFiles[i].log, clock + 1) # Absent
      BY <1>4, <1>5, <3>1, FitsAny
    <3> QED
      BY <2>2, <3>2
  <2> QED
    BY <2>1, <2>2, <2>3 DEF FitInv, ReplayFits
<1>10. CASE StartQueue \/ \E i \in DOMAIN walFiles : StartReplayUnlink(i)
  <2>1. phase = "replay" /\ phase' \in {"replay", "signal"} /\ UNCHANGED << crashes, walFiles >>
    BY <1>10 DEF StartQueue, StartReplayUnlink, startVars
  <2> QED
    BY <2>1 DEF FitInv, ReplayFits
<1>11. CASE StartSignal
  <2>1. /\ phase = "signal" /\ UNCHANGED << crashes, walFiles, place >>
        /\ \/ phase' \in {"signal", "running"}
           \/ phase' = "failed" /\ place = "task"
    BY <1>11 DEF StartSignal, Running, startVars
  <2>2. walFiles # << >>
    BY <2>1 DEF RestartInv, StartInv
  <2> QED
    BY <2>1, <2>2 DEF FitInv, ReplayFits
<1>12. CASE Abandoned \/ UNCHANGED restartVars
  <2>1. UNCHANGED << phase, walFiles, sstFiles, place, crashes >> /\ UNCHANGED vars
    BY <1>12 DEF Abandoned, restartVars, startVars
  <2>2. UNCHANGED << memtable, wals >>
    BY <2>1 DEF vars, tableVars, diskVars
  <2> QED
    BY <2>1, <2>2 DEF FitInv, ReplayFits, AllFit, ActiveRefills
<1> QED
  BY <1>1, <1>2, <1>3, <1>6, <1>7, <1>8, <1>9, <1>10, <1>11, <1>12 DEF RestartNext, StartStep

\* The first start never panics over a full table: what a log holds, also one
\* cut off at its last buffer write, fits the table it is replayed into.
THEOREM FirstLogsFit == RestartSpec => []FirstReplayFits
<1>1. RestartInit => FitInv
  <2> SUFFICES ASSUME RestartInit PROVE FitInv
    OBVIOUS
  <2>1. /\ phase = "running" /\ memtable = NewTable(1) /\ wals = {[ts |-> 1, log |-> << >>]}
    BY DEF RestartInit, Init
  <2>2. Fits(<< >>) /\ Refills(NewTable(1), << >>)
    BY EmptyFits
  <2>3. NewTable(1).wal = 1 /\ NewTable(1).buffer = << >> /\ << >> \o << >> = << >>
    BY DEF NewTable
  <2>4. AllFit /\ ActiveRefills
    BY <2>1, <2>2, <2>3 DEF AllFit, ActiveRefills
  <2> QED
    BY <2>1, <2>4 DEF FitInv, ReplayFits
<1>2. RestartInv /\ FitInv /\ [RestartNext]_restartVars => FitInv'
  BY FitRestart
<1>3. FitInv => FirstReplayFits
  BY DEF FitInv, FirstReplayFits
<1> QED
  BY <1>1, <1>2, <1>3, EngineAcrossRestarts, PTL DEF RestartSpec

----------------------------------------------------------------------------
(* What the files of the first process say when it stops.                  *)

\* The first record for a key in the blocks of a set's members, in their order.
Latest(S, rank, block, k, d) ==
    \/ d = Absent /\ \A x \in S : block[x][k] = Absent
    \/ \E x \in S : /\ block[x][k] # Absent /\ d = block[x][k]
                    /\ \A y \in S : rank[y] < rank[x] => block[y][k] = Absent

\* A listing is a sequence of the set's members.
LEMMA ListsMembers ==
    ASSUME NEW S, NEW rank, NEW q, Lists(q, S, rank)
    PROVE  q \in Seq(S) /\ DOMAIN q = 1..Len(q) /\ Len(q) \in Nat /\ \A i \in 1..Len(q) : q[i] \in S
<1>1. q \in Seq(S)
  BY DEF Lists
<1> QED
  BY <1>1

LEMMA FirstLatest ==
    ASSUME NEW S, NEW rank, NEW q, Ranked(S, rank), Lists(q, S, rank),
           NEW block, \A x \in S : block[x] \in Block,
           NEW b \in Seq(Block), Len(b) = Len(q), \A i \in 1..Len(q) : b[i] = block[q[i]],
           NEW k \in Key
    PROVE  Latest(S, rank, block, k, First(b, k))
<1>1. /\ q \in Seq(S) /\ Len(q) \in Nat /\ \A i \in 1..Len(q) : q[i] \in S
      /\ \A x \in S : \E i \in 1..Len(q) : q[i] = x
      /\ \A i, j \in 1..Len(q) : i < j => rank[q[i]] < rank[q[j]]
      /\ \A x \in S : rank[x] \in Int
  <2>1. /\ \A x \in S : \E i \in 1..Len(q) : q[i] = x
        /\ \A i, j \in 1..Len(q) : i < j => rank[q[i]] < rank[q[j]]
    BY DEF Lists
  <2>2. \A x \in S : rank[x] \in Int
    BY DEF Ranked
  <2> QED
    BY <2>1, <2>2, ListsMembers
<1>2. CASE (\A i \in 1..Len(b) : b[i][k] = Absent) /\ First(b, k) = Absent
  <2>1. \A x \in S : block[x][k] = Absent
    BY <1>1, <1>2
  <2> QED
    BY <1>2, <2>1 DEF Latest
<1>3. CASE \E i \in 1..Len(b) :
                /\ b[i][k] # Absent
                /\ \A j \in 1..Len(b) : j < i => b[j][k] = Absent
                /\ First(b, k) = b[i][k]
  <2>1. PICK i \in 1..Len(q) : /\ b[i][k] # Absent
                               /\ \A j \in 1..Len(q) : j < i => b[j][k] = Absent
                               /\ First(b, k) = b[i][k]
    BY <1>3
  <2>2. q[i] \in S /\ block[q[i]][k] # Absent /\ First(b, k) = block[q[i]][k]
    BY <1>1, <2>1
  <2>3. ASSUME NEW y \in S, rank[y] < rank[q[i]] PROVE block[y][k] = Absent
    <3>1. PICK j \in 1..Len(q) : q[j] = y
      BY <1>1
    <3>2. rank[q[i]] \in Int /\ rank[q[j]] \in Int
      BY <1>1
    <3>3. ~(i < j) /\ i # j
      BY <1>1, <2>3, <3>1, <3>2
    <3>4. j < i
      BY <3>3
    <3> QED
      BY <2>1, <3>1, <3>4
  <2> QED
    BY <2>2, <2>3 DEF Latest
<1> QED
  BY <1>2, <1>3, FirstAt

\* The newest complete file with a record for the key.
NewestFile(k, d) ==
    \/ d = Absent /\ \A f \in sstables : f.data # Partial => f.data[k] = Absent
    \/ \E f \in sstables :
        /\ f.data # Partial /\ f.data[k] # Absent /\ d = f.data[k]
        /\ \A g \in sstables : g.data # Partial /\ g.path > f.path => g.data[k] = Absent

LEMMA FilesAt ==
    ASSUME TypeOK, PipelineInv, DiskNames, NEW k \in Key
    PROVE  NewestFile(k, InFiles(k))
<1> DEFINE S == {f \in sstables : f.data # Partial}
           rank == [f \in S |-> -f.path]
           block == [f \in S |-> f.data]
           q == InOrder(S, rank)
           b == FileBlocks
<1>1. \A f \in sstables : f \in SSTableFile /\ f.path \in Nat
  BY DEF TypeOK, SSTableFile
<1>2. Ranked(S, rank)
  <2>1. IsFiniteSet(S)
    BY FS_Subset DEF DiskNames
  <2>2. \A f, g \in S : f.path = g.path => f = g
    BY DEF PipelineInv, FilesInHand
  <2>3. \A f, g \in S : rank[f] = rank[g] => f.path = g.path
    BY <1>1
  <2>4. \A f \in S : rank[f] \in Int
    BY <1>1
  <2> HIDE DEF S, rank
  <2> QED
    BY <2>1, <2>2, <2>3, <2>4 DEF Ranked
<1>3. Lists(q, S, rank)
  BY <1>2, InOrderLists
<1>4. b = [i \in DOMAIN q |-> q[i].data]
  BY DEF FileBlocks
<1>5. q \in Seq(S) /\ DOMAIN q = 1..Len(q) /\ Len(q) \in Nat /\ \A i \in 1..Len(q) : q[i] \in S
  BY <1>3, ListsMembers
<1>6. \A f \in S : block[f] = f.data /\ f.data \in Block
  BY <1>1 DEF SSTableFile
<1>7. b \in Seq(Block)
  BY FileBlocksAre
<1>8. Len(b) = Len(q) /\ \A i \in 1..Len(q) : b[i] = block[q[i]]
  <2>1. DOMAIN b = 1..Len(q) /\ \A i \in 1..Len(q) : b[i] = q[i].data
    BY <1>4, <1>5
  <2>2. \A i \in 1..Len(q) : b[i] = block[q[i]]
    BY <1>5, <1>6, <2>1
  <2>3. Len(b) = Len(q)
    <3> HIDE DEF b, q, S
    <3> QED
      BY <1>5, <1>7, <2>1
  <2> QED
    BY <2>2, <2>3
<1>9. Latest(S, rank, block, k, First(b, k))
  <2> HIDE DEF S, rank, block, q, b
  <2> QED
    BY <1>2, <1>3, <1>6, <1>7, <1>8, FirstLatest
<1>10. \A f, g \in S : (rank[g] < rank[f]) <=> (g.path > f.path)
  BY <1>1
<1>11. CASE First(b, k) = Absent /\ \A f \in S : block[f][k] = Absent
  BY <1>6, <1>11 DEF NewestFile, InFiles
<1>12. CASE \E f \in S : /\ block[f][k] # Absent /\ First(b, k) = block[f][k]
                         /\ \A g \in S : rank[g] < rank[f] => block[g][k] = Absent
  <2>1. PICK f \in S : /\ block[f][k] # Absent /\ First(b, k) = block[f][k]
                       /\ \A g \in S : rank[g] < rank[f] => block[g][k] = Absent
    BY <1>12
  <2>2. \A g \in S : g.path > f.path => g.data[k] = Absent
    BY <1>6, <1>10, <2>1
  <2>3. f.data[k] # Absent /\ InFiles(k) = f.data[k]
    BY <1>6, <2>1 DEF InFiles
  <2> QED
    BY <2>2, <2>3 DEF NewestFile
<1> QED
  BY <1>9, <1>11, <1>12 DEF Latest

\* The newest log with a record for the key.
NewestLog(k, d) ==
    \/ d = Absent /\ \A w \in wals : Replay(w.log)[k] = Absent
    \/ \E w \in wals : /\ Replay(w.log)[k] # Absent /\ d = Replay(w.log)[k]
                       /\ \A v \in wals : v.ts > w.ts => Replay(v.log)[k] = Absent

LEMMA LogsAt ==
    ASSUME TypeOK, DiskNames, NEW k \in Key
    PROVE  NewestLog(k, First(LogBlocks, k))
<1> DEFINE rank == [w \in wals |-> -w.ts]
           block == [w \in wals |-> Replay(w.log)]
           q == InOrder(wals, rank)
           b == LogBlocks
<1>1. \A w \in wals : w.ts \in Nat /\ w.log \in Seq(Entry)
  BY DEF TypeOK, WalFile
<1>2. Ranked(wals, rank)
  <2>1. \A v, w \in wals : rank[v] = rank[w] => v.ts = w.ts
    BY <1>1
  <2>2. \A w \in wals : rank[w] \in Int
    BY <1>1
  <2> HIDE DEF rank
  <2> QED
    BY <2>1, <2>2 DEF Ranked, DiskNames
<1>3. Lists(q, wals, rank)
  BY <1>2, InOrderLists
<1>4. b = [i \in DOMAIN q |-> Replay(q[i].log)]
  BY DEF LogBlocks
<1>5. q \in Seq(wals) /\ DOMAIN q = 1..Len(q) /\ Len(q) \in Nat /\ \A i \in 1..Len(q) : q[i] \in wals
  BY <1>3, ListsMembers
<1>6. \A w \in wals : block[w] = Replay(w.log) /\ Replay(w.log) \in Block
  BY <1>1, ReplayType
<1>7. b \in Seq(Block)
  BY LogBlocksAre
<1>8. Len(b) = Len(q) /\ \A i \in 1..Len(q) : b[i] = block[q[i]]
  <2>1. DOMAIN b = 1..Len(q) /\ \A i \in 1..Len(q) : b[i] = Replay(q[i].log)
    BY <1>4, <1>5
  <2>2. \A i \in 1..Len(q) : b[i] = block[q[i]]
    BY <1>5, <1>6, <2>1
  <2>3. Len(b) = Len(q)
    <3> HIDE DEF b, q
    <3> QED
      BY <1>5, <1>7, <2>1
  <2> QED
    BY <2>2, <2>3
<1>9. Latest(wals, rank, block, k, First(b, k))
  <2> HIDE DEF rank, block, q, b
  <2> QED
    BY <1>2, <1>3, <1>6, <1>7, <1>8, FirstLatest
<1>10. \A v, w \in wals : (rank[v] < rank[w]) <=> (v.ts > w.ts)
  BY <1>1
<1>11. CASE First(b, k) = Absent /\ \A w \in wals : block[w][k] = Absent
  BY <1>6, <1>11 DEF NewestLog
<1>12. CASE \E w \in wals : /\ block[w][k] # Absent /\ First(b, k) = block[w][k]
                            /\ \A v \in wals : rank[v] < rank[w] => block[v][k] = Absent
  <2>1. PICK w \in wals : /\ block[w][k] # Absent /\ First(b, k) = block[w][k]
                          /\ \A v \in wals : rank[v] < rank[w] => block[v][k] = Absent
    BY <1>12
  <2>2. \A v \in wals : v.ts > w.ts => Replay(v.log)[k] = Absent
    BY <1>6, <1>10, <2>1
  <2> QED
    BY <1>6, <2>1, <2>2 DEF NewestLog
<1> QED
  BY <1>9, <1>11, <1>12 DEF Latest

\* The tables that are not served from an SSTable only.
Lives == {memtable} \cup Range(immutable) \cup ({held[c] : c \in Client} \ {Absent})

\* What those tables have for a key.
Upper(k) == Over(Active(k), Over(Moving(k), Queued(k)))

LEMMA QueueAt ==
    ASSUME TypeOK, NEW k \in Key
    PROVE  \/ Queued(k) = Absent /\ \A i \in DOMAIN immutable : write_sstable(immutable[i])[k] = Absent
           \/ \E i \in DOMAIN immutable :
                /\ write_sstable(immutable[i])[k] # Absent
                /\ Queued(k) = write_sstable(immutable[i])[k]
                /\ \A j \in DOMAIN immutable : j > i => write_sstable(immutable[j])[k] = Absent
<1> DEFINE q == immutable
           n == Len(q)
           r == Reverse(q)
           b == BlocksOf(r)
<1>1. q \in Seq(Table) /\ n \in Nat /\ DOMAIN q = 1..n
  BY DEF TypeOK
<1> HIDE DEF q, n
<1>2. \A i \in 1..n : n - i + 1 \in 1..n /\ n - (n - i + 1) + 1 = i
  BY <1>1
<1>3. r = [i \in 1..n |-> q[n - i + 1]]
  BY DEF Reverse, n
<1>4. r \in Seq(Table) /\ Len(r) = n /\ \A i \in 1..n : r[i] = q[n - i + 1]
  <2>1. \A i \in 1..n : q[n - i + 1] \in Table
    BY <1>1, <1>2 DEF n
  <2> HIDE DEF r
  <2> QED
    BY <1>1, <1>3, <2>1
<1> HIDE DEF r
<1>5. b \in Seq(Block) /\ Len(b) = n /\ \A i \in 1..n : b[i] = write_sstable(r[i])
  BY <1>4, BlocksType
<1>6. \A i \in 1..n : b[i] = write_sstable(q[n - i + 1])
  BY <1>4, <1>5
<1>7. \A i \in 1..n : b[n - i + 1] = write_sstable(q[i])
  <2> SUFFICES ASSUME NEW i \in 1..n PROVE b[n - i + 1] = write_sstable(q[i])
    OBVIOUS
  <2> DEFINE j == n - i + 1
  <2>1. j \in 1..n /\ n - j + 1 = i
    BY <1>2
  <2> HIDE DEF j
  <2>2. b[j] = write_sstable(q[n - j + 1])
    BY <1>6, <2>1
  <2> QED
    BY <2>1, <2>2 DEF j
<1>8. Queued(k) = First(b, k)
  BY DEF Queued, b, r, q
<1> HIDE DEF b
<1>9. CASE (\A i \in 1..n : b[i][k] = Absent) /\ First(b, k) = Absent
  <2>1. \A i \in 1..n : write_sstable(q[i])[k] = Absent
    BY <1>2, <1>7, <1>9
  <2> QED
    BY <1>1, <1>8, <1>9, <2>1 DEF q
<1>10. CASE \E i \in 1..n : /\ b[i][k] # Absent
                            /\ \A j \in 1..n : j < i => b[j][k] = Absent
                            /\ First(b, k) = b[i][k]
  <2>1. PICK i \in 1..n : /\ b[i][k] # Absent
                          /\ \A j \in 1..n : j < i => b[j][k] = Absent
                          /\ First(b, k) = b[i][k]
    BY <1>10
  <2> DEFINE m == n - i + 1
  <2>2. m \in 1..n /\ b[i] = write_sstable(q[m])
    BY <1>2, <1>6
  <2>3. ASSUME NEW j \in 1..n, j > m PROVE write_sstable(q[j])[k] = Absent
    <3> DEFINE l == n - j + 1
    <3>1. l \in 1..n /\ l < i
      BY <1>1, <1>2, <2>3
    <3>2. b[l] = write_sstable(q[j])
      BY <1>7
    <3> HIDE DEF l
    <3> QED
      BY <2>1, <3>1, <3>2
  <2> HIDE DEF m
  <2> QED
    BY <1>1, <1>8, <2>1, <2>2, <2>3 DEF q
<1> QED
  BY <1>5, <1>9, <1>10, FirstAt

\* The newest table with a record for the key.
NewestTable(k, d) ==
    \/ d = Absent /\ \A t \in Lives : write_sstable(t)[k] = Absent
    \/ \E t \in Lives : /\ write_sstable(t)[k] # Absent /\ d = write_sstable(t)[k]
                        /\ \A u \in Lives : u.wal > t.wal => write_sstable(u)[k] = Absent

LEMMA TablesAt ==
    ASSUME TypeOK, OneWriter, LogInv, WriterInv, NEW k \in Key
    PROVE  NewestTable(k, Upper(k))
<1>1. /\ memtable \in Lives /\ \A i \in DOMAIN immutable : immutable[i] \in Lives
      /\ \A c \in Client : held[c] # Absent => held[c] \in Lives
  BY DEF Lives, Range
<1>2. \A u \in Lives : \/ u = memtable
                       \/ \E i \in DOMAIN immutable : u = immutable[i]
                       \/ \E c \in Client : held[c] # Absent /\ u = held[c]
  BY DEF Lives, Range
<1>3. /\ memtable.wal \in Nat
      /\ \A c \in Client : held[c] # Absent => held[c].wal \in Nat /\ held[c].wal < memtable.wal
      /\ \A i \in DOMAIN immutable : immutable[i].wal \in Nat /\ immutable[i].wal < memtable.wal
  BY TablesTyped DEF LogInv, LogNames
<1>4. /\ \A i, j \in DOMAIN immutable : i < j => immutable[i].wal < immutable[j].wal
      /\ \A c \in Client, i \in DOMAIN immutable : held[c] # Absent => immutable[i].wal < held[c].wal
  BY DEF WriterInv, RotationOrder, QueueOrdered
<1>5. CASE Active(k) # Absent
  <2>1. Upper(k) = write_sstable(memtable)[k]
    BY <1>5 DEF Upper, Over, Active
  <2>2. \A u \in Lives : ~(u.wal > memtable.wal)
    BY <1>2, <1>3
  <2> QED
    BY <1>1, <1>5, <2>1, <2>2 DEF NewestTable, Active
<1>6. CASE Active(k) = Absent /\ \E c \in Client : held[c] # Absent /\ write_sstable(held[c])[k] # Absent
  <2>1. PICK c \in Client : held[c] # Absent /\ write_sstable(held[c])[k] # Absent
    BY <1>6
  <2>2. held[c] \in Table /\ TransitOf(held) = << held[c] >> /\ \A d \in Client : d # c => held[d] = Absent
    BY <2>1, Layers
  <2>3. Moving(k) = write_sstable(held[c])[k]
    BY <2>2, LayerOne DEF Moving
  <2>4. Upper(k) = write_sstable(held[c])[k]
    BY <1>6, <2>1, <2>3 DEF Upper, Over
  <2>5. \A u \in Lives : u.wal > held[c].wal => u = memtable
    BY <1>2, <1>3, <1>4, <2>1, <2>2
  <2> QED
    BY <1>1, <1>6, <2>1, <2>4, <2>5 DEF NewestTable, Active
<1>7. CASE Active(k) = Absent /\ \A c \in Client : held[c] # Absent => write_sstable(held[c])[k] = Absent
  <2>1. Moving(k) = Absent
    <3>1. CASE TransitOf(held) = << >>
      BY <3>1, LayerNone DEF Moving
    <3>2. ASSUME NEW c \in Client, held[c] \in Table, TransitOf(held) = << held[c] >>
          PROVE  Moving(k) = Absent
      <4>1. Moving(k) = write_sstable(held[c])[k]
        BY <3>2, LayerOne DEF Moving
      <4> QED
        BY <1>7, <3>2, <4>1, TableAssumption
    <3> QED
      BY <3>1, <3>2, Layers
  <2>2. Upper(k) = Queued(k)
    BY <1>7, <2>1 DEF Upper, Over
  <2>3. CASE Queued(k) = Absent /\ \A i \in DOMAIN immutable : write_sstable(immutable[i])[k] = Absent
    BY <1>2, <1>7, <2>2, <2>3 DEF NewestTable, Active
  <2>4. CASE \E i \in DOMAIN immutable :
                /\ write_sstable(immutable[i])[k] # Absent
                /\ Queued(k) = write_sstable(immutable[i])[k]
                /\ \A j \in DOMAIN immutable : j > i => write_sstable(immutable[j])[k] = Absent
    <3>1. PICK i \in DOMAIN immutable :
                /\ write_sstable(immutable[i])[k] # Absent
                /\ Queued(k) = write_sstable(immutable[i])[k]
                /\ \A j \in DOMAIN immutable : j > i => write_sstable(immutable[j])[k] = Absent
      BY <2>4
    <3>2. \A j \in DOMAIN immutable : immutable[j].wal > immutable[i].wal => j > i
      <4>1. i \in Nat /\ \A j \in DOMAIN immutable : j \in Nat
        BY DEF TypeOK
      <4>2. ASSUME NEW j \in DOMAIN immutable, ~(j > i) PROVE ~(immutable[j].wal > immutable[i].wal)
        <5>1. j < i \/ j = i
          BY <4>1, <4>2
        <5> QED
          BY <1>3, <1>4, <5>1
      <4> QED
        BY <4>2
    <3>3. \A u \in Lives : u.wal > immutable[i].wal => write_sstable(u)[k] = Absent
      BY <1>2, <1>7, <3>1, <3>2 DEF Active
    <3> QED
      BY <1>1, <2>2, <3>1, <3>3 DEF NewestTable
  <2> QED
    BY <2>3, <2>4, QueueAt
<1> QED
  BY <1>5, <1>6, <1>7

\* Every log is that of a table it replays to, with the table's buffer.
LogsLive ==
    \A w \in wals : \E t \in Lives :
        w.ts = t.wal /\ Replay(w.log \o t.buffer) = write_sstable(t)

\* The complete files, newest first, are what the cache has, or that under the
\* oldest table of the queue.
Same == \A k \in Key : InFiles(k) = Cached(k)

Covered ==
    /\ immutable # << >>
    /\ \A k \in Key : InFiles(k) = Over(write_sstable(Head(immutable))[k], Cached(k))

Unlinked(t) == \A w \in wals : w.ts # t.wal

FilesAre ==
    /\ Same \/ Covered
    /\ flushPc \in {"unlink", "load"} \/ PathQueued => Covered
    /\ flushPc = "load" \/ PathQueued \/ compPc = "pop" => Unlinked(flushHead)
    /\ compPc = "pop" => Same
    /\ flushPc \in {"front", "write"} =>
        \A f \in sstables : f.data # Partial => f.path < flushPath
    /\ immutable # << >> /\ Unlinked(Head(immutable)) => Covered

\* A key with no record in the buffer is in the log as it is in the table.
LEMMA UnbufferedReplay ==
    ASSUME NEW l \in Seq(Entry), NEW m \in Seq(Entry), NEW k \in Key,
           \A i \in 1..Len(m) : m[i].key # k
    PROVE  Replay(l \o m)[k] = Replay(l)[k]
<1> DEFINE a == Len(l)
           b == Len(m)
           c == l \o m
<1>1. a \in Nat /\ b \in Nat /\ c \in Seq(Entry) /\ Len(c) = a + b
  OBVIOUS
<1>2. /\ \A i \in 1..a : i \in 1..Len(c) /\ c[i] = l[i]
      /\ \A i \in 1..Len(c) : i > a => i - a \in 1..b /\ c[i] = m[i - a]
  OBVIOUS
<1> HIDE DEF c, a, b
<1>3. \A i \in 1..Len(c) : i > a => c[i].key # k
  BY <1>2 DEF b
<1>4. \A i \in 1..Len(c) : c[i].key = k => i \in 1..a
  BY <1>1, <1>3
<1>5. CASE (\A i \in 1..Len(c) : c[i].key # k) /\ Replay(c)[k] = Absent
  <2>1. \A i \in 1..Len(l) : l[i].key # k
    BY <1>2, <1>5 DEF a
  <2>2. Replay(l)[k] = Absent
    BY <2>1, ReplayAt
  <2> QED
    BY <1>5, <2>2 DEF c
<1>6. CASE \E i \in 1..Len(c) : /\ c[i].key = k
                                /\ \A j \in 1..Len(c) : j > i => c[j].key # k
                                /\ Replay(c)[k] = c[i].datum
  <2>1. PICK i \in 1..Len(c) : /\ c[i].key = k
                               /\ \A j \in 1..Len(c) : j > i => c[j].key # k
                               /\ Replay(c)[k] = c[i].datum
    BY <1>6
  <2>2. i \in 1..a /\ c[i] = l[i] /\ l[i].key = k
    BY <1>2, <1>4, <2>1
  <2>3. \A j \in 1..a : j > i => l[j].key # k
    BY <1>2, <2>1
  <2>4. PICK j \in 1..a : /\ l[j].key = k
                          /\ \A x \in 1..a : x > j => l[x].key # k
                          /\ Replay(l)[k] = l[j].datum
    BY <2>2, ReplayAt DEF a
  <2>5. i = j
    BY <1>1, <2>2, <2>3, <2>4
  <2> QED
    BY <2>1, <2>2, <2>4, <2>5 DEF c
<1> QED
  BY <1>1, <1>5, <1>6, ReplayAt DEF c

\* For such a key the files say what a get would find.
LEMMA StopKeeps ==
    ASSUME TypeOK, PipelineInv, DiskNames, OneWriter, LogInv, WriterInv, LogsLive, FilesAre,
           NEW k \in Key, ~Buffered(k)
    PROVE  OnDisk[k] = Contents[k]
<1> DEFINE L == First(LogBlocks, k)
           B(t) == write_sstable(t)[k]
<1>1. Contents[k] = Plain(Over(Upper(k), Cached(k)))
  <2>1. Newest(k) = Over(Upper(k), Cached(k))
    BY OverAssoc DEF Newest, Upper
  <2> QED
    BY <2>1, ContentsNewest
<1>2. OnDisk[k] = Plain(Over(L, InFiles(k)))
  BY OnDiskAt, LogBlocksAre DEF InFiles
<1>3. \A t \in Lives : t \in Table /\ t.wal \in Nat /\ t.buffer \in Seq(Entry)
  <2>1. \A t \in Lives : t \in Table
    BY TablesTyped DEF Lives, Range, TypeOK
  <2> QED
    BY <2>1 DEF Table
<1>4. \A t \in Lives : \A i \in 1..Len(t.buffer) : t.buffer[i].key # k
  BY <1>3 DEF Buffered, Lives
<1>5. \A w \in wals : w.ts \in Nat /\ w.log \in Seq(Entry)
  BY DEF TypeOK, WalFile
<1>6. ASSUME NEW w \in wals PROVE \E t \in Lives : w.ts = t.wal /\ Replay(w.log)[k] = B(t)
  <2>1. PICK t \in Lives : w.ts = t.wal /\ Replay(w.log \o t.buffer) = write_sstable(t)
    BY DEF LogsLive
  <2>2. Replay(w.log \o t.buffer)[k] = Replay(w.log)[k]
    BY <1>3, <1>4, <1>5, UnbufferedReplay
  <2> QED
    BY <2>1, <2>2
<1>7. NewestLog(k, L)
  BY LogsAt
<1>8. NewestTable(k, Upper(k))
  BY TablesAt
<1>9. \A t, u \in Lives : t.wal = u.wal => t = u
  BY TablesTyped DEF Lives, Range, LogInv, LogNames
<1>10. immutable # << >> => Head(immutable) = immutable[1] /\ 1 \in DOMAIN immutable
  BY DEF TypeOK
<1> HIDE DEF L, B
<1>11. CASE Upper(k) = Absent /\ \A t \in Lives : B(t) = Absent
  <2>1. \A w \in wals : Replay(w.log)[k] = Absent
    BY <1>6, <1>11
  <2>2. L = Absent
    BY <1>7, <2>1 DEF NewestLog
  <2>3. InFiles(k) = Cached(k)
    <3>1. CASE Same
      BY <3>1 DEF Same
    <3>2. CASE Covered
      <4>1. Head(immutable) \in Lives
        BY <1>10, <3>2 DEF Covered, Lives, Range
      <4> QED
        BY <1>11, <3>2, <4>1 DEF Covered, Over, B
    <3> QED
      BY <3>1, <3>2 DEF FilesAre
  <2> QED
    BY <1>1, <1>2, <1>11, <2>2, <2>3
<1>12. ASSUME NEW t \in Lives, B(t) # Absent, Upper(k) = B(t),
              \A u \in Lives : u.wal > t.wal => B(u) = Absent
       PROVE  OnDisk[k] = Contents[k]
  <2>1. CASE \E w \in wals : w.ts = t.wal
    <3>1. PICK w \in wals : w.ts = t.wal
      BY <2>1
    <3>2. Replay(w.log)[k] = B(t)
      BY <1>6, <1>9, <3>1
    <3>3. \A v \in wals : v.ts > w.ts => Replay(v.log)[k] = Absent
      BY <1>6, <1>12, <3>1
    <3>4. PICK v \in wals : /\ Replay(v.log)[k] # Absent /\ L = Replay(v.log)[k]
                            /\ \A x \in wals : x.ts > v.ts => Replay(x.log)[k] = Absent
      BY <1>7, <1>12, <3>2 DEF NewestLog
    <3>5. v.ts = w.ts
      BY <1>5, <1>12, <3>2, <3>3, <3>4
    <3>6. v = w
      BY <3>5 DEF DiskNames
    <3>7. L = B(t)
      BY <3>2, <3>4, <3>6
    <3> QED
      BY <1>1, <1>2, <1>12, <3>7 DEF Over
  <2>2. CASE \A w \in wals : w.ts # t.wal
    <3>1. immutable # << >> /\ t = Head(immutable)
      <4>1. t # memtable /\ \A c \in Client : held[c] # Absent => t # held[c]
        BY <2>2 DEF LogInv, LogsKept, Logged
      <4>2. PICK i \in DOMAIN immutable : t = immutable[i]
        BY <4>1 DEF Lives, Range
      <4>3. i = 1
        BY <2>2, <4>2 DEF LogInv, LogsKept, Logged
      <4> QED
        BY <1>10, <4>2, <4>3
    <3>2. Covered
      BY <2>2, <3>1 DEF FilesAre, Unlinked
    <3>3. InFiles(k) = B(t)
      BY <1>12, <3>1, <3>2 DEF Covered, Over, B
    <3>4. \A u \in Lives : u.wal # t.wal => B(u) = Absent
      <4>1. \A u \in Lives : u.wal # t.wal => u.wal > t.wal
        <5>1. \A i \in DOMAIN immutable : i # 1 => immutable[i].wal > immutable[1].wal
          BY <1>3, <1>10, <3>1, TablesTyped DEF WriterInv, RotationOrder, QueueOrdered, TypeOK
        <5>2. memtable.wal > t.wal /\ \A c \in Client : held[c] # Absent => held[c].wal > t.wal
          BY <1>3, <1>10, <3>1, TablesTyped DEF LogInv, LogNames, WriterInv, RotationOrder
        <5> QED
          BY <1>10, <3>1, <5>1, <5>2 DEF Lives, Range
      <4> QED
        BY <1>12, <4>1
    <3>5. \A w \in wals : Replay(w.log)[k] = Absent
      BY <1>6, <2>2, <3>4
    <3>6. L = Absent
      BY <1>7, <3>5 DEF NewestLog
    <3> QED
      BY <1>1, <1>2, <1>12, <3>3, <3>6 DEF Over
  <2> QED
    BY <2>1, <2>2
<1> QED
  BY <1>8, <1>11, <1>12 DEF NewestTable, B

----------------------------------------------------------------------------
(* The steps of the first process.                                         *)

\* Logs that are removed, and tables that only leave once theirs is.
LEMMA LiveFrame ==
    ASSUME LogsLive, wals' \subseteq wals,
           \A t \in Lives : (\E w \in wals' : w.ts = t.wal) => t \in Lives'
    PROVE  LogsLive'
BY DEF LogsLive

\* Only the active table's log is written.
LEMMA LiveWrite ==
    ASSUME LogsLive, LogInv', DiskNames',
           \A w \in wals' : w.ts = memtable'.wal \/ w \in wals,
           \A t \in Lives : t.wal # memtable'.wal => t \in Lives'
    PROVE  LogsLive'
<1> SUFFICES ASSUME NEW w \in wals'
             PROVE  \E t \in Lives' : w.ts = t.wal /\ Replay(w.log \o t.buffer) = write_sstable(t)
  BY DEF LogsLive
<1>1. CASE w.ts = memtable'.wal
  <2>1. PICK x \in wals' : /\ x.ts = memtable'.wal
                           /\ Replay(x.log \o memtable'.buffer) = write_sstable(memtable')
    BY DEF LogInv, LogsKept, Logged
  <2>2. x = w
    BY <1>1, <2>1 DEF DiskNames
  <2>3. memtable' \in Lives'
    BY DEF Lives
  <2> QED
    BY <2>1, <2>2, <2>3
<1>2. CASE w.ts # memtable'.wal
  <2>1. PICK t \in Lives : w.ts = t.wal /\ Replay(w.log \o t.buffer) = write_sstable(t)
    BY <1>2 DEF LogsLive
  <2> QED
    BY <1>2, <2>1
<1> QED
  BY <1>1, <1>2

\* What the newest complete files say depends on these files only.
FilesOf(S) == DataOf(InOrder(S, [f \in S |-> -f.path]))

LEMMA InFilesFrame ==
    ASSUME {f \in sstables' : f.data # Partial} = {f \in sstables : f.data # Partial}
    PROVE  \A k \in Key : InFiles(k)' = InFiles(k)
<1>1. FileBlocks = FilesOf({f \in sstables : f.data # Partial})
  BY DEF FileBlocks, FilesOf, DataOf
<1>2. FileBlocks' = FilesOf({f \in sstables' : f.data # Partial})
  BY DEF FileBlocks, FilesOf, DataOf
<1>3. FileBlocks' = FileBlocks
  BY <1>1, <1>2
<1> QED
  BY <1>3 DEF InFiles

LEMMA DiskFrame ==
    ASSUME FilesAre,
           \A k \in Key : InFiles(k)' = InFiles(k) /\ Cached(k)' = Cached(k),
           immutable # << >> => immutable' # << >> /\ Head(immutable') = Head(immutable),
           flushPc' \in {"unlink", "load"} \/ PathQueued' => flushPc \in {"unlink", "load"} \/ PathQueued,
           flushPc' = "load" \/ PathQueued' \/ compPc' = "pop" => Unlinked(flushHead)',
           compPc' = "pop" => compPc = "pop",
           flushPc' \in {"front", "write"} =>
                \A f \in sstables' : f.data # Partial => f.path < flushPath',
           immutable' # << >> /\ Unlinked(Head(immutable))' =>
                Covered \/ (immutable # << >> /\ Unlinked(Head(immutable)))
    PROVE  FilesAre'
<1>1. Same => Same'
  BY DEF Same
<1>2. Covered => Covered'
  BY DEF Covered
<1>3. (Same \/ Covered)'
  BY <1>1, <1>2 DEF FilesAre
<1>4. flushPc' \in {"unlink", "load"} \/ PathQueued' => Covered'
  BY <1>2 DEF FilesAre
<1>5. compPc' = "pop" => Same'
  BY <1>1 DEF FilesAre
<1>6. immutable' # << >> /\ Unlinked(Head(immutable))' => Covered'
  BY <1>2 DEF FilesAre
<1> QED
  BY <1>3, <1>4, <1>5, <1>6 DEF FilesAre

\* A table in flight is older than the active one.
LEMMA FlightWal ==
    ASSUME TypeOK, PipelineInv, LogInv, InFlight, flushPc # "front"
    PROVE  /\ immutable # << >> /\ flushHead = Head(immutable) /\ flushHead = immutable[1]
           /\ 1 \in DOMAIN immutable
           /\ flushHead \in Table /\ flushHead.wal \in Nat /\ clock \in Nat
           /\ flushHead.wal < memtable.wal /\ flushHead.wal <= clock
<1>1. immutable # << >> /\ flushHead = Head(immutable) /\ flushHead \in Table
  BY FrontExists DEF PipelineInv, QueueCovered
<1>2. 1 \in DOMAIN immutable /\ flushHead = immutable[1]
  BY <1>1 DEF TypeOK
<1>3. flushHead.wal \in Nat /\ clock \in Nat /\ memtable.wal \in Nat
  BY <1>1, TablesTyped DEF TypeOK, Table
<1>4. flushHead.wal < memtable.wal /\ memtable.wal <= clock
  BY <1>2 DEF LogInv, LogNames
<1> QED
  BY <1>1, <1>2, <1>3, <1>4

\* The calls, of which the tasks see the names of logs and the queue.
LEMMA FilesCall ==
    ASSUME TypeOK, PipelineInv, LogInv, FilesAre,
           UNCHANGED << flushPc, flushPath, flushHead, compPc, compChan, cache, sstables >>,
           immutable # << >> => immutable' # << >> /\ Head(immutable') = Head(immutable),
           \A w \in wals : \E v \in wals' : v.ts = w.ts,
           \A v \in wals' : v.ts = clock + 1 \/ \E w \in wals : v.ts = w.ts,
           immutable = << >> /\ immutable' # << >> => ~Unlinked(Head(immutable))'
    PROVE  FilesAre'
<1>1. \A k \in Key : InFiles(k)' = InFiles(k) /\ Cached(k)' = Cached(k)
  BY InFilesFrame DEF Cached
<1>2. PathQueued' = PathQueued
  BY QueuedFrame
<1>3. ASSUME flushPc = "load" \/ PathQueued \/ compPc = "pop" PROVE Unlinked(flushHead)'
  <2>1. InFlight /\ flushPc # "front"
    BY <1>3 DEF InFlight, PipelineInv, Handshake, NoFlushDuringCompaction, PathQueued, Exited
  <2>2. flushHead.wal \in Nat /\ clock \in Nat /\ flushHead.wal <= clock
    BY <2>1, FlightWal
  <2>3. Unlinked(flushHead)
    BY <1>3 DEF FilesAre
  <2> QED
    BY <2>2, <2>3 DEF Unlinked
<1>4. ASSUME immutable # << >>, Unlinked(Head(immutable))' PROVE Unlinked(Head(immutable))
  BY <1>4 DEF Unlinked
<1>5. flushPc \in {"front", "write"} =>
        \A f \in sstables : f.data # Partial => f.path < flushPath
  BY DEF FilesAre
<1> QED
  BY <1>1, <1>2, <1>3, <1>4, <1>5, DiskFrame

\* The insertion of a record.
LEMMA DiskInsert ==
    ASSUME TypeOK, PipelineInv, LogInv, LogInv', DiskNames', LogsLive, FilesAre,
           NEW e \in Entry, Insert(e),
           UNCHANGED << held, immutable, flushPc, flushPath, flushHead, compPc, compChan, cache,
                        sstables >>
    PROVE  LogsLive' /\ FilesAre'
<1>1. PICK due \in NeedsFlush :
        /\ memtable' = insert_node(write_log(memtable, e, due), e)
        /\ wals' = IF due THEN FlushLog(memtable) ELSE wals
  BY DEF Insert
<1>2. due \in BOOLEAN /\ memtable \in Table
  BY LsmliteAssumption DEF TypeOK
<1>3. memtable'.wal = memtable.wal
  BY <1>1, <1>2 DEF insert_node, write_log, Table
<1>4. /\ \A v \in wals' : v.ts = memtable.wal \/ v \in wals
      /\ \A w \in wals : \E v \in wals' : v.ts = w.ts
      /\ \A v \in wals' : \E w \in wals : v.ts = w.ts
  <2>1. CASE wals' = wals
    BY <2>1
  <2>2. CASE wals' = FlushLog(memtable)
    <3> DEFINE F(w) == IF w.ts = memtable.wal THEN [w EXCEPT !.log = @ \o memtable.buffer] ELSE w
    <3>1. wals' = {F(w) : w \in wals}
      BY <2>2 DEF FlushLog
    <3>2. \A w \in wals : w \in WalFile
      BY DEF TypeOK
    <3>3. ASSUME NEW w \in wals PROVE F(w).ts = w.ts /\ (F(w).ts = memtable.wal \/ F(w) = w)
      BY <3>2 DEF WalFile
    <3> HIDE DEF F
    <3> QED
      BY <3>1, <3>3
  <2> QED
    BY <1>1, <1>2, <2>1, <2>2
<1>5. \A t \in Lives : t.wal # memtable'.wal => t \in Lives'
  BY <1>3 DEF Lives, Range
<1>6. LogsLive'
  BY <1>3, <1>4, <1>5, LiveWrite
<1>7. FilesAre'
  BY <1>4, FilesCall
<1> QED
  BY <1>6, <1>7

LEMMA DiskCall ==
    ASSUME OneWriter, HandsOver, TypeOK, PipelineInv, LogInv, WriterInv, LogsLive, FilesAre,
           LogInv', DiskNames', NEW c \in Client,
           \/ \E k \in Key : Set(c, k) \/ Delete(c, k) \/ Get(c, k)
           \/ CallPoisoned(c) \/ RotateFails(c) \/ Cancel(c) \/ Call(c)
    PROVE  LogsLive' /\ FilesAre'
<1>0. UNCHANGED << flushPc, flushPath, flushHead, compPc, compChan, cache, sstables >>
  BY ClientFrame DEF flushVars, compVars
<1>1. ASSUME UNCHANGED << memtable, wals, immutable, held >> PROVE LogsLive' /\ FilesAre'
  <2>1. LogsLive'
    BY <1>1, LiveFrame DEF Lives
  <2>2. FilesAre'
    BY <1>0, <1>1, FilesCall
  <2> QED
    BY <2>1, <2>2
<1>2. ASSUME NEW e \in Entry, Write(c, e) \/ (Retry(c) /\ e = req[c])
      PROVE  LogsLive' /\ FilesAre'
  <2>1. /\ UNCHANGED << held, immutable >>
        /\ Insert(e) \/ UNCHANGED << memtable, wals >>
    BY <1>2 DEF Write, Retry
  <2> QED
    BY <1>0, <1>1, <2>1, DiskInsert
<1>3. CASE \E k \in Key : Set(c, k) \/ Delete(c, k)
  BY <1>2, <1>3, WriteEntries DEF Set, Delete
<1>4. CASE Retry(c)
  BY <1>2, <1>4 DEF Retry, PipelineInv, CallsCarry
<1>5. CASE \/ \E k \in Key : Get(c, k)
           \/ CallPoisoned(c) \/ RotateFails(c) \/ Signal(c) \/ SignalClosed(c)
           \/ GetImmutable(c) \/ GetSSTable(c) \/ Return(c)
  <2>1. UNCHANGED << memtable, held, immutable, wals >>
    BY <1>5 DEF Get, CallPoisoned, RotateFails, Signal, SignalClosed, GetImmutable, GetSSTable,
         Return, tableVars, diskVars
  <2> QED
    BY <1>1, <2>1
<1>6. CASE Cancel(c)
  <2>1. pc[c] # "push" /\ held' = [held EXCEPT ![c] = Absent] /\ UNCHANGED << memtable, immutable, wals >>
    BY <1>6 DEF Cancel, HandsOver, tableVars, diskVars
  <2>2. held[c] = Absent
    BY <2>1 DEF LogInv, HeldOnlyToPush
  <2>3. held' = held
    BY <2>1, <2>2 DEF TypeOK
  <2> QED
    BY <1>1, <2>1, <2>3
<1>7. CASE Push(c)
  <2>1. /\ pc[c] = "push" /\ immutable' = Append(immutable, held[c])
        /\ held' = [held EXCEPT ![c] = Absent]
        /\ UNCHANGED << memtable, clock, wals >>
    BY <1>7 DEF Push, insert, diskVars
  <2>2. held[c] \in Table /\ held[c] # Absent
    BY <2>1, TableAssumption DEF PipelineInv, CallsCarry
  <2>3. \A d \in Client : held'[d] = IF d = c THEN Absent ELSE held[d]
    BY <2>1 DEF TypeOK
  <2>4. /\ DOMAIN immutable' = 1..(Len(immutable) + 1) /\ Len(immutable) \in Nat
        /\ DOMAIN immutable = 1..Len(immutable)
        /\ \A i \in DOMAIN immutable : i \in DOMAIN immutable' /\ immutable'[i] = immutable[i]
        /\ immutable'[Len(immutable) + 1] = held[c]
    BY <2>1, <2>2 DEF TypeOK
  <2>5. \A t \in Lives : t \in Lives'
    <3> SUFFICES ASSUME NEW t \in Lives PROVE t \in Lives'
      OBVIOUS
    <3>1. CASE t = memtable
      BY <2>1, <3>1 DEF Lives
    <3>2. CASE \E i \in DOMAIN immutable : t = immutable[i]
      BY <2>4, <3>2 DEF Lives, Range
    <3>3. CASE \E d \in Client : t = held[d] /\ held[d] # Absent
      <4>1. PICK d \in Client : t = held[d] /\ held[d] # Absent
        BY <3>3
      <4>2. CASE d = c
        <5>1. Len(immutable) + 1 \in DOMAIN immutable' /\ t = immutable'[Len(immutable) + 1]
          BY <2>4, <4>1, <4>2
        <5> QED
          BY <5>1 DEF Lives, Range
      <4>3. CASE d # c
        BY <2>3, <4>1, <4>3 DEF Lives
      <4> QED
        BY <4>2, <4>3
    <3> QED
      BY <3>1, <3>2, <3>3 DEF Lives, Range
  <2>6. LogsLive'
    BY <2>1, <2>5, LiveFrame
  <2>7. immutable # << >> => immutable' # << >> /\ Head(immutable') = Head(immutable)
    BY <2>1, <2>2 DEF TypeOK
  <2>8. immutable = << >> /\ immutable' # << >> => ~Unlinked(Head(immutable))'
    <3>1. immutable = << >> => Head(immutable') = held[c]
      BY <2>1, <2>2
    <3>2. \E w \in wals' : w.ts = held[c].wal
      BY <2>1, <2>2 DEF LogInv, LogsKept, Logged
    <3> QED
      BY <3>1, <3>2 DEF Unlinked
  <2>9. FilesAre'
    BY <1>0, <2>1, <2>7, <2>8, FilesCall
  <2> QED
    BY <2>6, <2>9
<1>8. CASE Rotate(c)
  <2> DEFINE n == NewTable(clock + 1)
             x == [ts |-> clock + 1, log |-> << >>]
  <2>1. /\ pc[c] = "rotate" /\ clock' = clock + 1 /\ memtable' = n /\ wals' = wals \cup {x}
        /\ held' = [held EXCEPT ![c] = memtable]
        /\ UNCHANGED immutable
    BY <1>8 DEF Rotate
  <2>2. n.wal = clock + 1 /\ x.ts = clock + 1 /\ clock \in Nat
    BY DEF NewTable, TypeOK
  <2> HIDE DEF n, x
  <2>3. \A d \in Client : held'[d] = IF d = c THEN memtable ELSE held[d]
    BY <2>1 DEF TypeOK
  <2>4. held[c] = Absent /\ memtable # Absent
    BY <2>1, TableAssumption DEF LogInv, HeldOnlyToPush, TypeOK
  <2>5. \A t \in Lives : t \in Lives'
    <3>1. memtable \in Lives'
      BY <2>3, <2>4 DEF Lives
    <3>2. \A d \in Client : held[d] # Absent => held'[d] = held[d]
      BY <2>3, <2>4
    <3> QED
      BY <2>1, <3>1, <3>2 DEF Lives, Range
  <2>6. LogsLive'
    BY <2>1, <2>2, <2>5, LiveWrite
  <2>7. FilesAre'
    BY <1>0, <2>1, <2>2, FilesCall
  <2> QED
    BY <2>6, <2>7
<1> QED
  BY <1>3, <1>4, <1>5, <1>6, <1>7, <1>8 DEF Call

\* A step of a task that moves no table and completes no file.
LEMMA DiskQuiet ==
    ASSUME LogsLive, FilesAre, UNCHANGED << memtable, held, immutable, cache, wals >>,
           {f \in sstables' : f.data # Partial} = {f \in sstables : f.data # Partial},
           flushPc' \in {"unlink", "load"} \/ PathQueued' => flushPc \in {"unlink", "load"} \/ PathQueued,
           flushPc' = "load" \/ PathQueued' \/ compPc' = "pop" =>
                flushHead' = flushHead /\ (flushPc = "load" \/ PathQueued \/ compPc = "pop"),
           compPc' = "pop" => compPc = "pop",
           flushPc' \in {"front", "write"} =>
                \A f \in sstables' : f.data # Partial => f.path < flushPath'
    PROVE  LogsLive' /\ FilesAre'
<1>1. LogsLive'
  BY LiveFrame DEF Lives
<1>2. \A k \in Key : InFiles(k)' = InFiles(k) /\ Cached(k)' = Cached(k)
  BY InFilesFrame DEF Cached
<1>3. flushPc' = "load" \/ PathQueued' \/ compPc' = "pop" => Unlinked(flushHead)'
  BY DEF FilesAre, Unlinked
<1>4. immutable' # << >> /\ Unlinked(Head(immutable))' =>
        immutable # << >> /\ Unlinked(Head(immutable))
  BY DEF Unlinked
<1>5. FilesAre'
  BY <1>2, <1>3, <1>4, DiskFrame
<1> QED
  BY <1>1, <1>5

\* The files' answers, as a state predicate.
FilesAnswer == \A k \in Key : NewestFile(k, InFiles(k))

LEMMA FilesAnswered == TypeOK /\ PipelineInv /\ DiskNames => FilesAnswer
BY FilesAt DEF FilesAnswer

\* A file that is newer than every other complete one covers them.
LEMMA WriteCovers ==
    ASSUME TypeOK, PipelineInv, DiskNames, TypeOK', PipelineInv', DiskNames', FilesAre, FlushWrite,
           NEW k \in Key
    PROVE  InFiles(k)' = Over(write_sstable(flushHead)[k], InFiles(k))
<1> DEFINE b == write_sstable(flushHead)
           o == [path |-> flushPath, data |-> Partial]
           n == [path |-> flushPath, data |-> b]
<1>1. /\ flushPc = "write" /\ sstables' = (sstables \ {o}) \cup {n}
      /\ o.data = Partial /\ n.data = b /\ n.path = flushPath
  BY DEF FlushWrite, Written
<1>2. b \in Block /\ b # Partial
  <2>1. flushHead \in Table
    BY <1>1, FrontExists DEF InFlight
  <2> QED
    BY <2>1, WriteSSTableType, LsmliteAssumption
<1>3. \A f \in sstables : f.path \in Nat
  BY DEF TypeOK, SSTableFile
<1>4. \A f \in sstables : f.data # Partial => f.path < flushPath
  BY <1>1 DEF FilesAre
<1>5. flushPath \in Nat
  BY DEF TypeOK
<1> DEFINE d == InFiles(k)
           e == InFiles(k)'
<1>6. NewestFile(k, d)
  BY FilesAt
<1>7. \/ e = Absent /\ \A f \in sstables' : f.data # Partial => f.data[k] = Absent
      \/ \E f \in sstables' :
            /\ f.data # Partial /\ f.data[k] # Absent /\ e = f.data[k]
            /\ \A g \in sstables' : g.data # Partial /\ g.path > f.path => g.data[k] = Absent
  <2>1. FilesAnswer'
    BY FilesAnswered, PTL
  <2> QED
    BY <2>1 DEF FilesAnswer, NewestFile
<1> HIDE DEF d, e, b, o, n
<1>8. /\ \A f \in sstables : f.data # Partial => f \in sstables'
      /\ n \in sstables'
      /\ \A f \in sstables' : f.data # Partial => f = n \/ f \in sstables
  BY <1>1
<1>9. CASE b[k] # Absent
  <2>1. ~\A f \in sstables' : f.data # Partial => f.data[k] = Absent
    BY <1>1, <1>2, <1>8, <1>9
  <2>2. PICK f \in sstables' :
            /\ f.data # Partial /\ f.data[k] # Absent /\ e = f.data[k]
            /\ \A g \in sstables' : g.data # Partial /\ g.path > f.path => g.data[k] = Absent
    BY <1>7, <2>1
  <2>3. f = n
    <3>1. ~(n.path > f.path)
      BY <1>1, <1>2, <1>8, <1>9, <2>2
    <3>2. f \in sstables => f.path < n.path
      BY <1>1, <1>4, <2>2
    <3> QED
      BY <1>1, <1>3, <1>5, <1>8, <2>2, <3>1, <3>2
  <2> QED
    BY <1>1, <1>9, <2>2, <2>3 DEF Over, b, d, e
<1>10. CASE b[k] = Absent
  <2>1. \A f \in sstables' : f.data # Partial /\ f.data[k] # Absent => f \in sstables
    BY <1>1, <1>8, <1>10
  <2>2. e = d
    <3>1. CASE e = Absent /\ \A f \in sstables' : f.data # Partial => f.data[k] = Absent
      BY <1>6, <1>8, <3>1 DEF NewestFile
    <3>2. CASE \E f \in sstables' :
            /\ f.data # Partial /\ f.data[k] # Absent /\ e = f.data[k]
            /\ \A g \in sstables' : g.data # Partial /\ g.path > f.path => g.data[k] = Absent
      <4>1. PICK f \in sstables' :
            /\ f.data # Partial /\ f.data[k] # Absent /\ e = f.data[k]
            /\ \A g \in sstables' : g.data # Partial /\ g.path > f.path => g.data[k] = Absent
        BY <3>2
      <4>2. f \in sstables
        BY <2>1, <4>1
      <4>3. PICK g \in sstables :
            /\ g.data # Partial /\ g.data[k] # Absent /\ d = g.data[k]
            /\ \A h \in sstables : h.data # Partial /\ h.path > g.path => h.data[k] = Absent
        BY <1>6, <4>1, <4>2 DEF NewestFile
      <4>4. ~(g.path > f.path) /\ ~(f.path > g.path)
        BY <1>8, <4>1, <4>2, <4>3
      <4>5. f.path = g.path
        BY <1>3, <4>2, <4>4
      <4>6. f = g
        BY <4>2, <4>5 DEF PipelineInv, FilesInHand
      <4> QED
        BY <4>1, <4>3, <4>6
    <3> QED
      BY <1>7, <3>1, <3>2
  <2> QED
    BY <1>10, <2>2 DEF Over, b, d, e
<1> QED
  BY <1>9, <1>10

\* The flush task.
LEMMA DiskFlusher ==
    ASSUME TypeOK, PipelineInv, LogInv, DiskNames, LogsLive, FilesAre,
           TypeOK', PipelineInv', DiskNames',
           Flusher \/ FlushCreateFails \/ FlushFails
    PROVE  LogsLive' /\ FilesAre'
<1>0. UNCHANGED << memtable, held, immutable, cache, compPc >>
  BY DEF Flusher, FlushRecv, FlushShutdown, FlushRecvClosed, FlushFront, FlushWrite, FlushUnlink,
       FlushLoad, FlushAck, FlushAckClosed, FlushCreateFails, FlushFails, tableVars, clientVars, compVars
<1>1. CASE FlushRecv
  <2> DEFINE n == [path |-> clock + 1, data |-> Partial]
  <2>1. /\ flushPc = "recv" /\ flushPc' = "front" /\ flushPath' = clock + 1
        /\ sstables' = sstables \cup {n} /\ n.data = Partial
        /\ UNCHANGED << wals, compChan >>
    BY <1>1 DEF FlushRecv, Created
  <2> HIDE DEF n
  <2>2. ~PathQueued /\ ~PathQueued' /\ compPc # "pop"
    BY <2>1, NotQueued, QueuedFrame DEF PipelineInv, Handshake, NoFlushDuringCompaction, Exited
  <2>3. \A f \in sstables' : f.data # Partial => f.path < flushPath'
    BY <2>1 DEF PipelineInv, FilesInHand, TypeOK, SSTableFile
  <2>4. {f \in sstables' : f.data # Partial} = {f \in sstables : f.data # Partial}
    BY <2>1
  <2> QED
    BY <1>0, <2>1, <2>2, <2>3, <2>4, DiskQuiet
<1>2. CASE FlushFront
  <2>1. /\ flushPc = "front" /\ flushPc' = "write"
        /\ UNCHANGED << wals, compChan, sstables, flushPath >>
    BY <1>2 DEF FlushFront, diskVars, chanVars
  <2>2. ~PathQueued /\ ~PathQueued' /\ compPc # "pop"
    BY <2>1, NotQueued, QueuedFrame DEF PipelineInv, Handshake, NoFlushDuringCompaction, Exited
  <2>3. \A f \in sstables' : f.data # Partial => f.path < flushPath'
    BY <2>1 DEF FilesAre
  <2> QED
    BY <1>0, <2>1, <2>2, <2>3, DiskQuiet
<1>3. CASE FlushWrite
  <2>1. flushPc = "write" /\ flushPc' = "unlink" /\ UNCHANGED << wals, compChan, flushHead >>
    BY <1>3 DEF FlushWrite, chanVars
  <2>2. ~PathQueued /\ ~PathQueued' /\ compPc # "pop"
    BY <2>1, NotQueued, QueuedFrame DEF PipelineInv, Handshake, NoFlushDuringCompaction, Exited
  <2>3. immutable # << >> /\ flushHead = Head(immutable)
    BY <2>1, FrontExists DEF InFlight, PipelineInv, QueueCovered
  <2>4. LogsLive'
    BY <1>0, <2>1, LiveFrame DEF Lives
  <2>5. Covered'
    <3> SUFFICES ASSUME NEW k \in Key
                 PROVE  InFiles(k)' = Over(write_sstable(Head(immutable'))[k], Cached(k)')
      BY <1>0, <2>3 DEF Covered
    <3>1. InFiles(k)' = Over(write_sstable(Head(immutable))[k], InFiles(k))
      BY <1>3, <2>3, WriteCovers
    <3>2. Cached(k)' = Cached(k)
      BY <1>0 DEF Cached
    <3>3. CASE Same
      BY <1>0, <3>1, <3>2, <3>3 DEF Same
    <3>4. CASE Covered
      <4>1. InFiles(k) = Over(write_sstable(Head(immutable))[k], Cached(k))
        BY <3>4 DEF Covered
      <4> QED
        BY <1>0, <3>1, <3>2, <4>1 DEF Over
    <3> QED
      BY <3>3, <3>4 DEF FilesAre
  <2>6. FilesAre'
    BY <1>0, <2>1, <2>2, <2>5 DEF FilesAre
  <2> QED
    BY <2>4, <2>6
<1>4. CASE FlushUnlink
  <2>1. /\ flushPc = "unlink" /\ flushPc' = "load" /\ wals' = {w \in wals : w.ts # flushHead.wal}
        /\ UNCHANGED << compChan, flushHead, sstables >>
    BY <1>4 DEF FlushUnlink, chanVars
  <2>2. ~PathQueued /\ ~PathQueued' /\ compPc # "pop"
    BY <2>1, NotQueued, QueuedFrame DEF PipelineInv, Handshake, NoFlushDuringCompaction, Exited
  <2>3. LogsLive'
    BY <1>0, <2>1, LiveFrame DEF Lives
  <2>4. \A k \in Key : InFiles(k)' = InFiles(k) /\ Cached(k)' = Cached(k)
    BY <1>0, <2>1, InFilesFrame DEF Cached
  <2>5. Unlinked(flushHead)'
    BY <2>1 DEF Unlinked
  <2>6. Covered
    BY <2>1 DEF FilesAre
  <2>7. FilesAre'
    BY <1>0, <2>1, <2>2, <2>4, <2>5, <2>6, DiskFrame
  <2> QED
    BY <2>3, <2>7
<1>5. CASE FlushLoad
  <2>1. /\ flushPc = "load" /\ flushPc' = "ack" /\ UNCHANGED << wals, flushHead, sstables >>
    BY <1>5 DEF FlushLoad, diskVars
  <2>2. compPc # "pop"
    BY <2>1 DEF PipelineInv, Handshake, NoFlushDuringCompaction, Exited
  <2> QED
    BY <1>0, <2>1, <2>2, DiskQuiet
<1>6. CASE FlushFails \/ FlushAck \/ FlushCreateFails \/ FlushShutdown \/ FlushRecvClosed
  <2>1. /\ flushPc # "ack" \/ ackChan # 0
        /\ UNCHANGED << wals, sstables, compChan >>
    BY <1>6 DEF FlushFails, FlushAck, FlushCreateFails, FlushShutdown, FlushRecvClosed, diskVars, chanVars
  <2>2. flushPc' \in {"recv", "stopped"}
    BY <1>6 DEF FlushFails, FlushAck, FlushCreateFails, FlushShutdown, FlushRecvClosed
  <2>3. ~PathQueued /\ ~PathQueued' /\ compPc # "pop"
    BY <2>1, NotQueued, QueuedFrame DEF PipelineInv, Handshake, NoFlushDuringCompaction, Exited
  <2> QED
    BY <1>0, <2>1, <2>2, <2>3, DiskQuiet
<1>7. CASE FlushAckClosed
  <2>1. /\ flushPc = "ack" /\ flushPc' = "panicked" /\ UNCHANGED << wals, sstables, compChan, flushHead >>
    BY <1>7 DEF FlushAckClosed, diskVars, chanVars
  <2>2. PathQueued' = PathQueued
    BY <2>1, QueuedFrame
  <2> QED
    BY <1>0, <2>1, <2>2, DiskQuiet
<1> QED
  BY <1>1, <1>2, <1>3, <1>4, <1>5, <1>6, <1>7 DEF Flusher

\* The compaction task and the drop of the handle, a merge apart.
LEMMA DiskCompactor ==
    ASSUME TypeOK, PipelineInv, LogInv, LogsLive, FilesAre, NotMerging, PipelineInv',
           \/ Compactor \/ CompactorFails
           \/ DropSignalCompactor \/ DropSignalFlusher \/ DropInTask
    PROVE  LogsLive' /\ FilesAre'
<1>1. CASE CompactorLoad
  <2>1. /\ compPc = "recv" /\ compPc' = "pop"
        /\ compChan # << >> /\ Head(compChan) # Shutdown
        /\ UNCHANGED << memtable, held, immutable, wals, sstables, flushPc, flushHead >>
    BY <1>1 DEF CompactorLoad, clientVars, diskVars, flushVars
  <2>2. PathQueued
    BY <2>1, QueuedFile
  <2>3. flushPc = "ack"
    BY <2>2 DEF PipelineInv, Handshake, PathQueued
  <2>4. ~PathQueued'
    BY <2>1 DEF PipelineInv, Handshake, PathQueued
  <2>5. LogsLive'
    BY <2>1, LiveFrame DEF Lives
  <2>6. Covered /\ Unlinked(flushHead)
    BY <2>2 DEF FilesAre
  <2>7. \A k \in Key : InFiles(k)' = Over(write_sstable(Head(immutable))[k], Cached(k))
    BY <2>1, <2>6, InFilesFrame DEF Covered
  <2>8. \A k \in Key : Cached(k)' = Over(write_sstable(Head(immutable))[k], Cached(k))
    BY <1>1, LoadLayers
  <2>9. Same'
    BY <2>7, <2>8 DEF Same
  <2>10. Covered'
    <3> SUFFICES ASSUME NEW k \in Key
                 PROVE  InFiles(k)' = Over(write_sstable(Head(immutable'))[k], Cached(k)')
      BY <2>1, <2>6 DEF Covered
    <3>1. /\ InFiles(k)' = Over(write_sstable(Head(immutable))[k], Cached(k))
          /\ Cached(k)' = Over(write_sstable(Head(immutable))[k], Cached(k))
      BY <2>7, <2>8
    <3> QED
      BY <2>1, <3>1 DEF Over
  <2>11. Unlinked(flushHead)'
    BY <2>1, <2>6 DEF Unlinked
  <2>12. FilesAre'
    BY <2>1, <2>3, <2>4, <2>9, <2>10, <2>11 DEF FilesAre
  <2> QED
    BY <2>5, <2>12
<1>2. CASE CompactorPop
  <2>1. /\ compPc = "pop" /\ compPc' # "pop" /\ immutable' = pop(immutable)
        /\ UNCHANGED << memtable, held, cache, wals, sstables, flushPc, flushHead, compChan >>
    BY <1>2 DEF CompactorPop, clientVars, diskVars, flushVars, chanVars
  <2>2. flushPc = "ack" /\ ~PathQueued /\ ~PathQueued'
    BY <2>1, NotQueued, QueuedFrame DEF PipelineInv, Handshake, NoFlushDuringCompaction, Exited
  <2>3. /\ immutable # << >> /\ flushHead = Head(immutable) /\ flushHead = immutable[1]
    BY <2>1, <2>2, FlightWal DEF InFlight
  <2>4. immutable' = Tail(immutable)
    BY <2>1, <2>3 DEF pop
  <2>5. Same /\ Unlinked(flushHead)
    BY <2>1 DEF FilesAre
  <2>6. /\ \A i \in DOMAIN immutable : i # 1 => i - 1 \in DOMAIN immutable' /\ immutable'[i - 1] = immutable[i]
        /\ immutable' # << >> => 2 \in DOMAIN immutable /\ Head(immutable') = immutable[2]
    BY <2>3, <2>4 DEF TypeOK
  <2>7. ASSUME NEW t \in Lives, \E w \in wals' : w.ts = t.wal PROVE t \in Lives'
    <3>1. t # immutable[1]
      BY <2>1, <2>3, <2>5, <2>7 DEF Unlinked
    <3>2. CASE \E i \in DOMAIN immutable : t = immutable[i]
      <4>1. PICK i \in DOMAIN immutable : t = immutable[i]
        BY <3>2
      <4>2. i - 1 \in DOMAIN immutable' /\ t = immutable'[i - 1]
        BY <2>6, <3>1, <4>1
      <4> QED
        BY <4>2 DEF Lives, Range
    <3>3. CASE ~\E i \in DOMAIN immutable : t = immutable[i]
      BY <2>1, <3>3 DEF Lives, Range
    <3> QED
      BY <3>2, <3>3
  <2>8. LogsLive'
    BY <2>1, <2>7, LiveFrame
  <2>9. Same'
    <3>1. \A k \in Key : InFiles(k)' = InFiles(k) /\ Cached(k)' = Cached(k)
      BY <2>1, InFilesFrame DEF Cached
    <3> QED
      BY <2>5, <3>1 DEF Same
  <2>10. immutable' # << >> => ~Unlinked(Head(immutable))'
    BY <2>1, <2>6 DEF LogInv, LogsKept, Logged, Unlinked
  <2>11. FilesAre'
    BY <2>1, <2>2, <2>9, <2>10 DEF FilesAre
  <2> QED
    BY <2>8, <2>11
<1>3. CASE \/ CompactorShutdown \/ CompactorRecvClosed \/ CompactorAck \/ CompactorFails
           \/ DropSignalCompactor \/ DropSignalFlusher \/ DropInTask
  <2>1. /\ UNCHANGED << memtable, held, immutable, cache, wals, sstables, flushPc, flushHead, flushPath >>
        /\ compPc' # "pop" \/ compPc' = compPc
    BY <1>3 DEF CompactorShutdown, CompactorRecvClosed, CompactorAck, CompactorFails,
         DropSignalCompactor, DropSignalFlusher, DropInTask, tableVars, clientVars, diskVars, flushVars, compVars
  <2>2. compChan' \in {<< >>, compChan, Append(compChan, Shutdown)}
    BY <1>3 DEF CompactorShutdown, CompactorRecvClosed, CompactorAck, CompactorFails,
         DropSignalCompactor, DropSignalFlusher, DropInTask, chanVars
  <2>3. PathQueued' => PathQueued
    <3>1. CASE compChan' = << >>
      BY <3>1 DEF PathQueued
    <3> QED
      BY <2>2, <3>1, ShutdownQueued
  <2>4. flushPc \in {"front", "write"} => \A f \in sstables : f.data # Partial => f.path < flushPath
    BY DEF FilesAre
  <2> QED
    BY <2>1, <2>3, <2>4, DiskQuiet
<1> QED
  BY <1>1, <1>2, <1>3 DEF Compactor, NotMerging, CompactorCreate, CompactorFinish, CompactorReplace,
     CompactorCleanup, CompactorCleaned

\* Every step of the first process, a merge apart.
LEMMA DiskStep ==
    ASSUME OneWriter, HandsOver, TypeOK, PipelineInv, LogInv, WriterInv, DiskNames, LogsLive, FilesAre,
           TypeOK', PipelineInv', LogInv', DiskNames', NotMerging, [Next]_vars
    PROVE  LogsLive' /\ FilesAre'
<1>1. CASE UNCHANGED vars \/ Quiescent
  <2>1. UNCHANGED << memtable, held, immutable, cache, wals, sstables, flushPc, flushHead, flushPath,
                     compPc, compChan >>
    BY <1>1 DEF Quiescent, vars, clientVars, tableVars, flushVars, compVars, chanVars, diskVars
  <2>2. PathQueued' = PathQueued
    BY <2>1, QueuedFrame
  <2>3. flushPc \in {"front", "write"} => \A f \in sstables : f.data # Partial => f.path < flushPath
    BY DEF FilesAre
  <2> QED
    BY <2>1, <2>2, <2>3, DiskQuiet
<1> QED
  BY <1>1, DiskCall, DiskFlusher, DiskCompactor DEF Next

\* Until the first stop the engine runs, and files, logs and tables agree.
FirstRun ==
    crashes = 0 => phase = "running" /\ LogInv /\ WriterInv /\ LogsLive /\ FilesAre

\* No merge has begun before the first stop.
UnmergedUntilStop == crashes = 0 => NotMerging

LEMMA FirstRunInit == RestartInit => FirstRun
<1> SUFFICES ASSUME RestartInit PROVE FirstRun
  OBVIOUS
<1>1. Init /\ phase = "running"
  BY DEF RestartInit
<1>2. TypeOK /\ PipelineInv /\ LogInv /\ WriterInv /\ DiskNames
  BY <1>1, InitInv, LogInit, WriterInit, RestartInitInv DEF RestartInv
<1>3. LogsLive
  <2>1. \A w \in wals : w.ts = memtable.wal
    BY <1>1 DEF Init, NewTable
  <2>2. PICK x \in wals : x.ts = memtable.wal /\ Replay(x.log \o memtable.buffer) = write_sstable(memtable)
    BY <1>2 DEF LogInv, LogsKept, Logged
  <2>3. \A w \in wals : w = x
    BY <1>2, <2>1, <2>2 DEF DiskNames
  <2> QED
    BY <2>2, <2>3 DEF LogsLive, Lives
<1>4. FilesAre
  <2>1. sstables = {} /\ cache = << >> /\ immutable = << >> /\ compChan = << >> /\ compPc = "recv"
        /\ flushPc = "recv"
    BY <1>1 DEF Init
  <2>2. \A k \in Key : InFiles(k) = Absent
    BY <1>2, <2>1, FilesAt DEF NewestFile
  <2>3. \A k \in Key : Cached(k) = Absent
    <3>1. DataOf(cache) = << >>
      BY <2>1 DEF DataOf
    <3> QED
      BY <3>1, FirstNone DEF Cached
  <2>4. ~PathQueued
    BY <2>1 DEF PathQueued
  <2> QED
    BY <2>1, <2>2, <2>3, <2>4 DEF FilesAre, Same
<1> QED
  BY <1>1, <1>2, <1>3, <1>4 DEF FirstRun

\* Steps before the first stop are steps of the engine.
LEMMA FirstSteps ==
    ASSUME RestartInv, crashes = 0 => phase = "running", [RestartNext]_restartVars, crashes' = 0
    PROVE  crashes = 0 /\ [Next]_vars /\ phase' = phase
<1>1. crashes \in Nat
  BY DEF RestartInv, StartType
<1>2. CASE UNCHANGED restartVars
  BY <1>2 DEF restartVars
<1>3. CASE Run
  BY <1>3 DEF Run
<1>4. CASE Crash
  BY <1>1, <1>4 DEF Crash
<1>5. CASE (\E p \in StartIn : Start(p)) \/ StartStep \/ Abandoned
  <2>1. crashes' = crashes /\ phase # "running"
    BY <1>5 DEF Start, StartStep, StartMemtable, StartUnlink, StartCache, StartReplay,
                StartReplayUnlink, StartQueue, StartSignal, Abandoned, restartVars
  <2> QED
    BY <2>1
<1> QED
  BY <1>2, <1>3, <1>4, <1>5 DEF RestartNext

LEMMA FirstRunStep ==
    ASSUME OneWriter, HandsOver, RestartInv, RestartInv', FirstRun, UnmergedUntilStop,
           [RestartNext]_restartVars
    PROVE  FirstRun'
<1> SUFFICES ASSUME crashes' = 0
             PROVE  phase' = "running" /\ LogInv' /\ WriterInv' /\ LogsLive' /\ FilesAre'
  BY DEF FirstRun
<1>1. crashes = 0 /\ [Next]_vars /\ phase' = phase
  BY FirstSteps DEF FirstRun
<1>2. /\ TypeOK /\ PipelineInv /\ DiskNames
      /\ TypeOK' /\ PipelineInv' /\ DiskNames'
  BY DEF RestartInv
<1>3. phase = "running" /\ LogInv /\ WriterInv /\ LogsLive /\ FilesAre /\ NotMerging
  BY <1>1 DEF FirstRun, UnmergedUntilStop
<1>4. LogInv'
  BY <1>1, <1>2, <1>3, LogStep
<1>5. WriterInv'
  BY <1>1, <1>2, <1>3, WriterStep
<1>6. LogsLive' /\ FilesAre'
  BY <1>1, <1>2, <1>3, <1>4, DiskStep
<1> QED
  BY <1>1, <1>3, <1>4, <1>5, <1>6

\* What a stop leaves.
LEMMA FirstStop ==
    ASSUME OneWriter, RestartInv, FirstRun, [RestartNext]_restartVars,
           phase = "running", crashes = 0, phase' = "down"
    PROVE  \A k \in Key : ~Buffered(k) => OnDisk'[k] = Contents[k]
<1>1. Crash
  BY DEF restartVars, RestartNext, Run, Start, StartStep, StartMemtable, StartUnlink, StartCache,
     StartReplay, StartReplayUnlink, StartQueue, StartSignal, Abandoned
<1>2. wals' = wals /\ sstables' = sstables
  BY <1>1 DEF Crash
<1>3. OnDisk' = OnDisk
  BY <1>2 DEF OnDisk, LogBlocks, FileBlocks
<1> QED
  BY <1>3, StopKeeps DEF FirstRun, RestartInv

\* The first time the process stops, at whatever step of a rotation, a flush
\* or a load and whatever failed before, a key without a record in a log
\* buffer is on disk as a get would have found it: with one writer whose calls
\* are not dropped while they hold a table, and before the first merge.
THEOREM StopBeforeMerge ==
    ASSUME OneWriter, HandsOver
    PROVE  RestartSpec /\ []UnmergedUntilStop => CrashLosesOnlyBuffers
<1>1. RestartInit => FirstRun
  BY FirstRunInit
<1>2. RestartInv /\ RestartInv' /\ FirstRun /\ UnmergedUntilStop /\ [RestartNext]_restartVars => FirstRun'
  BY FirstRunStep
<1>3. RestartInv /\ FirstRun /\ [RestartNext]_restartVars =>
        [phase = "running" /\ crashes = 0 /\ phase' = "down" =>
            \A k \in Key : ~Buffered(k) => OnDisk'[k] = Contents[k]]_restartVars
  BY FirstStop
<1> QED
  BY <1>1, <1>2, <1>3, EngineAcrossRestarts, PTL DEF RestartSpec, CrashLosesOnlyBuffers

\* The writes of the first process are too few for a merge.
FirstBudget == crashes = 0 => WriterInv /\ FlushBudget /\ NotMerging /\ phase = "running" /\ LogInv

LEMMA FirstBudgetInit == RestartInit => FirstBudget
<1> SUFFICES ASSUME RestartInit PROVE FirstBudget
  OBVIOUS
<1>1. Init /\ phase = "running" /\ LogInv /\ WriterInv
  BY LogInit, WriterInit DEF RestartInit
<1>2. ~FileUnderway /\ ~Rotating
  BY <1>1 DEF Init, FileUnderway, PathQueued, Rotating
<1>3. Len(cache) = 0 /\ flushes = 0 /\ ops = 0 /\ compPc = "recv"
  BY <1>1 DEF Init
<1> QED
  BY <1>1, <1>2, <1>3 DEF FirstBudget, FlushBudget, Count, NotMerging

LEMMA FirstBudgetStep ==
    ASSUME OneWriter, MaxOps < CompactionRate, RestartInv, FirstBudget, [RestartNext]_restartVars
    PROVE  FirstBudget'
<1> SUFFICES ASSUME crashes' = 0
             PROVE  WriterInv' /\ FlushBudget' /\ NotMerging' /\ phase' = "running" /\ LogInv'
  BY DEF FirstBudget
<1>1. crashes = 0 /\ [Next]_vars /\ phase' = phase
  BY FirstSteps DEF FirstBudget
<1>2. /\ TypeOK /\ PipelineInv /\ LogInv /\ WriterInv /\ FlushBudget /\ NotMerging
      /\ phase = "running"
  BY <1>1 DEF FirstBudget, RestartInv
<1>3. LogInv' /\ WriterInv'
  BY <1>1, <1>2, LogStep, WriterStep
<1>4. FlushBudget' /\ NotMerging'
  BY <1>1, <1>2, BudgetStep
<1> QED
  BY <1>1, <1>2, <1>3, <1>4

\* In behaviours with fewer writes than a merge needs tables there is no merge
\* before the first stop, which then loses only what log buffers hold.
THEOREM StopLosesBuffers ==
    ASSUME OneWriter, HandsOver, MaxOps < CompactionRate
    PROVE  RestartSpec => CrashLosesOnlyBuffers
<1>1. RestartInit => FirstBudget
  BY FirstBudgetInit
<1>2. RestartInv /\ FirstBudget /\ [RestartNext]_restartVars => FirstBudget'
  BY FirstBudgetStep
<1>3. FirstBudget => UnmergedUntilStop
  BY DEF FirstBudget, UnmergedUntilStop
<1> QED
  BY <1>1, <1>2, <1>3, EngineAcrossRestarts, StopBeforeMerge, PTL DEF RestartSpec

\* Through any number of stops and starts the engine's state stays well formed
\* and its background tasks stay in step: the flush task finds the table of
\* each signal, the cache is in the order a start derives from the file names,
\* and every table of it but the oldest has its file.
THEOREM SafeAcrossRestarts ==
    RestartSpec => [](TypeOK /\ FlushNeverEmpty /\ CacheSortedByName /\ OnlyOldestLacksFile)
<1>1. RestartInv => TypeOK /\ FlushNeverEmpty /\ CacheSortedByName /\ OnlyOldestLacksFile
  BY FrontExists DEF RestartInv, FlushNeverEmpty, InFlight, CacheInv
<1> QED
  BY <1>1, EngineAcrossRestarts, PTL
=============================================================================
