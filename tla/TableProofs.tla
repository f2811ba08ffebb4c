---------------------------- MODULE TableProofs ----------------------------
(***************************************************************************)
(* Lemmas about the operators of module Table, which the proofs of the     *)
(* engine and of the merge share: what they return, and that InOrder lists *)
(* a set in order.                                                         *)
(***************************************************************************)
EXTENDS Table, WellFoundedInduction, FiniteSetTheorems, TLAPS

----------------------------------------------------------------------------
(* Minima and maxima.                                                      *)

\* A nonempty set of naturals has a least element.
LEMMA LeastElement ==
    ASSUME NEW S \in SUBSET Nat, S # {}
    PROVE  \E x \in S : \A y \in S : x <= y
<1> DEFINE R == OpToRel(<, Nat)
<1>1. PICK x \in S : \A y \in S : ~ (<< y, x >> \in R)
  BY WFMin, NatLessThanWellFounded
<1>2. \A a, b \in Nat : a < b => << a, b >> \in R
  <2> SUFFICES ASSUME NEW a \in Nat, NEW b \in Nat, a < b PROVE << a, b >> \in R
    OBVIOUS
  <2>1. << a, b >> \in Nat \X Nat /\ << a, b >>[1] < << a, b >>[2]
    OBVIOUS
  <2> QED BY <2>1, Zenon DEF OpToRel
<1> HIDE DEF R
<1>3. ASSUME NEW y \in S PROVE x <= y
  <2>1. x \in Nat /\ y \in Nat
    OBVIOUS
  <2>2. ~ (y < x)
    BY <1>1, <1>2, <2>1, Zenon
  <2> QED
    BY <2>1, <2>2
<1> QED
  BY <1>3

\* Induction up to n.
LEMMA Climb ==
    ASSUME NEW n \in Nat, NEW S, 0 \in S,
           \A m \in 0..n : m < n /\ m \in S => m + 1 \in S
    PROVE  \A m \in 0..n : m \in S
<1> DEFINE B == {m \in 0..n : m \notin S}
<1>1. SUFFICES ASSUME B # {} PROVE FALSE
  OBVIOUS
<1>2. B \in SUBSET Nat
  OBVIOUS
<1>3. PICK x \in B : \A y \in B : x <= y
  BY <1>1, <1>2, LeastElement
<1>4. x \in 1..n /\ x - 1 \in 0..n /\ x - 1 < n
  BY <1>3
<1>5. x - 1 \notin B
  BY <1>3, <1>4
<1>6. x - 1 \in S /\ x - 1 + 1 = x
  BY <1>4, <1>5
<1> QED
  BY <1>3, <1>4, <1>6

\* Min, as SelectInSeq uses it, picks a member of the set.
LEMMA MinExists ==
    ASSUME NEW S \in SUBSET Nat, S # {}
    PROVE  Min(S) \in S /\ \A y \in S : Min(S) <= y
BY LeastElement DEF Min

\* Max, as SelectLastInSeq uses it, picks a member of the set.
LEMMA MaxExists ==
    ASSUME NEW n \in Nat, NEW S \in SUBSET (1..n), S # {}
    PROVE  Max(S) \in S /\ \A y \in S : Max(S) >= y
<1> DEFINE R == {n - x : x \in S}
<1>0. \A x \in S : x \in 1..n /\ n - x \in Nat
  OBVIOUS
<1>1. R \in SUBSET Nat /\ R # {}
  BY <1>0
<1>2. PICK r \in R : \A y \in R : r <= y
  BY <1>1, LeastElement
<1>3. PICK x \in S : r = n - x
  BY <1>2
<1>4. ASSUME NEW y \in S PROVE x >= y
  <2>1. n - y \in R
    OBVIOUS
  <2>2. r <= n - y
    BY <2>1, <1>2
  <2> QED BY <2>2, <1>3, <1>0
<1> QED
  BY <1>4 DEF Max

----------------------------------------------------------------------------
(* What the operators of module Table return.                              *)

\* MemtableInner::new makes a table.
LEMMA NewTableType ==
    ASSUME NEW ts \in Nat
    PROVE  NewTable(ts) \in Table
BY DEF NewTable, Table

\* insert_node makes a table of a table and leaves its log alone.
LEMMA InsertNodeType ==
    ASSUME NEW u \in Table, NEW e \in Entry
    PROVE  /\ insert_node(u, e) \in Table
           /\ insert_node(u, e).wal = u.wal /\ insert_node(u, e).buffer = u.buffer
<1>2. /\ e.key \in Key /\ e.datum \in Datum
  BY DEF Entry
<1>3. NewNode(e.datum) \in Node
  BY <1>2 DEF NewNode, Node
<1>4. u.arena[e.key] # Absent => update_from_record(u.arena[e.key], e.datum) \in Node
  <2> SUFFICES ASSUME u.arena[e.key] # Absent
               PROVE  update_from_record(u.arena[e.key], e.datum) \in Node
    OBVIOUS
  <2> DEFINE n == u.arena[e.key]
  <2>1. n \in Node
    BY <1>2 DEF Table
  <2> HIDE DEF n
  <2>2. [n EXCEPT !.blob = e.datum] \in Node
    BY <1>2, <2>1 DEF Node
  <2>3. [blob |-> Tombstone, some |-> FALSE] \in Node
    BY DEF Node, Datum
  <2>4. update_from_record(n, e.datum) \in Node
    BY <2>2, <2>3 DEF update_from_record
  <2> QED
    BY <2>4 DEF n
<1>5. NodeSize(e.datum) \in Nat
  BY TableAssumption DEF NodeSize
<1>6. CASE u.arena[e.key] # Absent
  BY <1>6, <1>2, <1>4 DEF insert_node, Table
<1>7. CASE u.arena[e.key] = Absent
  <2> DEFINE n == NewNode(e.datum)
             sz == IF Nodes(u) = {} THEN u.size ELSE u.size + NodeSize(e.datum)
  <2>1. sz \in Nat
    BY <1>5 DEF Table
  <2>2. insert_node(u, e) = [u EXCEPT !.arena[e.key] = n, !.size = sz]
    BY <1>7 DEF insert_node
  <2> HIDE DEF n, sz
  <2>3. n \in Node
    BY <1>3 DEF n
  <2> QED
    BY <1>2, <2>1, <2>2, <2>3 DEF Table
<1> QED
  BY <1>6, <1>7

\* insert_data_record and insert_tombstone_record make a table of a table:
\* the log buffer first, then the node.
LEMMA InsertType ==
    ASSUME NEW t \in Table, NEW e \in Entry, NEW due \in BOOLEAN
    PROVE  insert_node(write_log(t, e, due), e) \in Table
<1>1. Append(IF due THEN << >> ELSE t.buffer, e) \in Seq(Entry)
  <2>1. CASE due
    BY <2>1
  <2>2. CASE ~due
    BY <2>2 DEF Table
  <2> QED
    BY <2>1, <2>2
<1> DEFINE b == Append(IF due THEN << >> ELSE t.buffer, e)
<1> HIDE DEF b
<1>2. [t EXCEPT !.buffer = b] \in Table
  BY <1>1 DEF Table, b
<1> QED
  BY <1>2, InsertNodeType DEF write_log, b

\* MemtableInner::get answers with a datum or with nothing.
LEMMA GetType ==
    ASSUME NEW t \in Table, NEW k \in Key
    PROVE  get(t, k) \in Datum \cup {Absent}
BY DEF get, Table, Node, Datum

\* ImmutableMemtable::get answers with a datum or with nothing.
LEMMA GetQueueType ==
    ASSUME NEW q \in Seq(Table), NEW k \in Key
    PROVE  get_queue(q, k) \in Datum \cup {Absent}
<1> DEFINE I == {i \in 1..Len(q) : get(q[i], k) # Absent}
<1>1. CASE I = {}
  BY <1>1 DEF get_queue, SelectLastInSeq
<1>2. CASE I # {}
  <2>1. Max(I) \in 1..Len(q)
    <3>1. Len(q) \in Nat /\ I \in SUBSET (1..Len(q))
      OBVIOUS
    <3> HIDE DEF I
    <3> QED
      BY <1>2, <3>1, MaxExists
  <2>2. get_queue(q, k) = get(q[Max(I)], k)
    BY <1>2, <2>1 DEF get_queue, SelectLastInSeq
  <2> QED
    BY <2>1, <2>2, GetType
<1> QED
  BY <1>1, <1>2

\* SSTableCache::search answers with a value or with nothing, never with a
\* tombstone.
LEMMA SearchType ==
    ASSUME NEW b \in Seq(Block), NEW k \in Key
    PROVE  search(b, k) \in Value \cup {Absent}
<1> DEFINE I == {i \in 1..Len(b) : b[i][k] # Absent}
<1>1. CASE I = {}
  BY <1>1 DEF search, SelectInSeq
<1>2. CASE I # {}
  <2>1. Min(I) \in 1..Len(b)
    BY <1>2, MinExists
  <2>2. search(b, k) = IF b[Min(I)][k] = Tombstone THEN Absent ELSE b[Min(I)][k]
    BY <1>2, <2>1 DEF search, SelectInSeq
  <2> QED
    BY <2>1, <2>2 DEF Block, Datum
<1> QED
  BY <1>1, <1>2

\* write_sstable makes a block of a table.
LEMMA WriteSSTableType ==
    ASSUME NEW t \in Table
    PROVE  write_sstable(t) \in Block
BY DEF write_sstable, Table, Block, Node

----------------------------------------------------------------------------
(* InOrder.                                                                *)

\* The ranks of S are distinct integers.
Ranked(S, rank) ==
    /\ IsFiniteSet(S)
    /\ \A x \in S : rank[x] \in Int
    /\ \A x, y \in S : rank[x] = rank[y] => x = y

\* How many elements precede x.
Before(S, rank, x) == {y \in S : rank[y] < rank[x]}

Place(S, rank, x) == Cardinality(Before(S, rank, x))

LEMMA PlaceOrdered ==
    ASSUME NEW S, NEW rank, Ranked(S, rank), NEW x \in S, NEW y \in S
    PROVE  /\ Place(S, rank, x) \in Nat
           /\ Place(S, rank, x) < Cardinality(S)
           /\ Cardinality(S) \in Nat
           /\ rank[x] < rank[y] => Place(S, rank, x) < Place(S, rank, y)
<1>1. IsFiniteSet(S) /\ Cardinality(S) \in Nat
  BY FS_CardinalityType DEF Ranked
<1> DEFINE A == Before(S, rank, x)
           B == Before(S, rank, y)
<1>2. A \in SUBSET S /\ B \in SUBSET S /\ x \notin A
  BY DEF Before, Ranked
<1>3. IsFiniteSet(A) /\ IsFiniteSet(B)
  BY <1>1, <1>2, FS_Subset
<1>4. Cardinality(A) \in Nat /\ Cardinality(B) \in Nat
  BY <1>3, FS_CardinalityType
<1>5. Cardinality(A) < Cardinality(S)
  <2>1. S # A
    BY <1>2
  <2>2. Cardinality(A) <= Cardinality(S) /\ Cardinality(S) # Cardinality(A)
    BY <1>1, <1>2, <2>1, FS_Subset
  <2> QED
    BY <1>1, <1>4, <2>2
<1>6. ASSUME rank[x] < rank[y] PROVE Cardinality(A) < Cardinality(B)
  <2>1. A \in SUBSET B /\ x \in B
    BY <1>6 DEF Before, Ranked
  <2>2. B # A
    BY <1>2, <2>1
  <2>3. Cardinality(A) <= Cardinality(B) /\ Cardinality(B) # Cardinality(A)
    BY <1>3, <2>1, <2>2, FS_Subset
  <2> QED
    BY <1>4, <2>3
<1> QED
  BY <1>1, <1>4, <1>5, <1>6 DEF Place

\* Each place is taken: the places of n elements are n numbers below n.
LEMMA PlaceTaken ==
    ASSUME NEW S, NEW rank, Ranked(S, rank), NEW i \in 1..Cardinality(S)
    PROVE  \E x \in S : Place(S, rank, x) = i - 1
<1> DEFINE n == Cardinality(S)
           f == [x \in S |-> Place(S, rank, x) + 1]
<1>1. IsFiniteSet(S) /\ n \in Nat
  BY FS_CardinalityType DEF Ranked
<1>2. \A x \in S : f[x] \in 1..n
  <2> SUFFICES ASSUME NEW x \in S PROVE f[x] \in 1..n
    OBVIOUS
  <2>1. Place(S, rank, x) \in Nat /\ Place(S, rank, x) < n
    BY PlaceOrdered
  <2> QED
    BY <1>1, <2>1
<1>3. \A x, y \in S : f[x] = f[y] => x = y
  <2> SUFFICES ASSUME NEW x \in S, NEW y \in S, f[x] = f[y] PROVE x = y
    OBVIOUS
  <2>1. Place(S, rank, x) \in Nat /\ Place(S, rank, y) \in Nat
    BY PlaceOrdered
  <2>2. Place(S, rank, x) = Place(S, rank, y)
    BY <2>1
  <2>3. ~(rank[x] < rank[y]) /\ ~(rank[y] < rank[x])
    BY <2>1, <2>2, PlaceOrdered
  <2>4. rank[x] \in Int /\ rank[y] \in Int
    BY DEF Ranked
  <2> QED
    BY <2>3, <2>4 DEF Ranked
<1>4. f \in Injection(S, 1..n)
  BY <1>2, <1>3 DEF Injection, IsInjective
<1>5. IsFiniteSet(1..n) /\ Cardinality(1..n) = n
  BY <1>1, FS_Interval
<1>6. f \in Surjection(S, 1..n)
  BY <1>4, <1>5, FS_Injection
<1>7. PICK x \in S : f[x] = i
  BY <1>6 DEF Surjection
<1>8. Place(S, rank, x) \in Nat
  BY PlaceOrdered
<1> QED
  BY <1>7, <1>8

\* The sequence has the elements of the set, each once and in order.
Lists(q, S, rank) ==
    /\ q \in Seq(S) /\ Len(q) = Cardinality(S) /\ Cardinality(S) \in Nat
    /\ \A x \in S : \E i \in 1..Len(q) : q[i] = x /\ Place(S, rank, x) = i - 1
    /\ \A i \in 1..Len(q) : Place(S, rank, q[i]) = i - 1
    /\ \A i, j \in 1..Len(q) : i < j => rank[q[i]] < rank[q[j]]

LEMMA InOrderLists ==
    ASSUME NEW S, NEW rank, Ranked(S, rank)
    PROVE  Lists(InOrder(S, rank), S, rank)
<1> DEFINE n == Cardinality(S)
           q == InOrder(S, rank)
<1>1. IsFiniteSet(S) /\ n \in Nat
  BY FS_CardinalityType DEF Ranked
<1>2. ASSUME NEW i \in 1..n PROVE q[i] \in S /\ Place(S, rank, q[i]) = i - 1
  <2>1. \E x \in S : Place(S, rank, x) = i - 1
    BY PlaceTaken
  <2>2. q[i] = CHOOSE x \in S : Place(S, rank, x) = i - 1
    BY DEF InOrder, Place, Before
  <2> QED
    BY <2>1, <2>2
<1>3. q = [i \in 1..n |-> q[i]]
  BY DEF InOrder
<1> HIDE DEF q
<1>4. q \in Seq(S) /\ Len(q) = n
  BY <1>1, <1>2, <1>3
<1>5. ASSUME NEW x \in S PROVE \E i \in 1..n : q[i] = x /\ Place(S, rank, x) = i - 1
  <2> DEFINE i == Place(S, rank, x) + 1
  <2>1. i \in 1..n /\ Place(S, rank, x) = i - 1 /\ Place(S, rank, x) \in Nat
    BY <1>1, PlaceOrdered
  <2>2. q[i] \in S /\ Place(S, rank, q[i]) = Place(S, rank, x)
    BY <1>2, <2>1
  <2>3. rank[q[i]] \in Int /\ rank[x] \in Int
    BY <2>2 DEF Ranked
  <2>4. ~(rank[x] < rank[q[i]]) /\ ~(rank[q[i]] < rank[x])
    BY <2>1, <2>2, PlaceOrdered
  <2>5. q[i] = x
    BY <2>2, <2>3, <2>4 DEF Ranked
  <2> QED
    BY <2>1, <2>5
<1>6. ASSUME NEW i \in 1..n, NEW j \in 1..n, i < j PROVE rank[q[i]] < rank[q[j]]
  <2>1. /\ q[i] \in S /\ q[j] \in S /\ Place(S, rank, q[i]) = i - 1
        /\ Place(S, rank, q[j]) = j - 1
    BY <1>2
  <2>2. rank[q[i]] \in Int /\ rank[q[j]] \in Int
    BY <2>1 DEF Ranked
  <2>3. ~(rank[q[j]] < rank[q[i]])
    BY <2>1, <1>6, PlaceOrdered
  <2>4. q[i] # q[j]
    BY <2>1, <1>6
  <2> QED
    BY <2>1, <2>2, <2>3, <2>4 DEF Ranked
<1> QED
  BY <1>1, <1>2, <1>4, <1>5, <1>6 DEF q, Lists

\* Listed by the opposite ranks, a set is listed backwards.
LEMMA InOrderReversed ==
    ASSUME NEW S, NEW rank, NEW opposite, Ranked(S, rank), \A x \in S : opposite[x] = -rank[x]
    PROVE  /\ Ranked(S, opposite)
           /\ InOrder(S, opposite) = Reverse(InOrder(S, rank))
<1> DEFINE n == Cardinality(S)
           p == InOrder(S, rank)
           q == InOrder(S, opposite)
           r == Reverse(p)
<1>1. Ranked(S, opposite)
  BY DEF Ranked
<1>2. IsFiniteSet(S) /\ n \in Nat
  BY FS_CardinalityType DEF Ranked
<1>a. Lists(p, S, rank) /\ Lists(q, S, opposite)
  BY <1>1, InOrderLists
<1> HIDE DEF p, q
<1>3. /\ p \in Seq(S) /\ Len(p) = n
      /\ \A i \in 1..n : Place(S, rank, p[i]) = i - 1
  BY <1>a DEF Lists
<1>4. /\ q \in Seq(S) /\ Len(q) = n
      /\ \A x \in S : \E i \in 1..n : q[i] = x /\ Place(S, opposite, x) = i - 1
  BY <1>a DEF Lists
<1>5. /\ r \in Seq(S) /\ Len(r) = n
      /\ \A i \in 1..n : r[i] = p[n - i + 1]
  <2>1. r = [i \in 1..n |-> p[n - i + 1]]
    BY <1>3 DEF Reverse
  <2>2. \A i \in 1..n : n - i + 1 \in 1..n /\ p[n - i + 1] \in S
    BY <1>2, <1>3
  <2> HIDE DEF r
  <2> QED
    BY <1>2, <2>1, <2>2
<1>6. ASSUME NEW x \in S PROVE Place(S, rank, x) + Place(S, opposite, x) + 1 = n
  <2> DEFINE A == Before(S, rank, x)
             B == Before(S, opposite, x)
  <2>1. A \subseteq S /\ B \subseteq S /\ A \cap B = {} /\ S = A \cup B \cup {x} /\ x \notin A \cup B
    BY DEF Before, Ranked
  <2>2. IsFiniteSet(A) /\ IsFiniteSet(B)
    BY <1>2, <2>1, FS_Subset
  <2>3. IsFiniteSet(A \cup B) /\ Cardinality(A \cup B) = Cardinality(A) + Cardinality(B)
    <3>1. /\ IsFiniteSet(A \cup B)
          /\ Cardinality(A \cup B) = Cardinality(A) + Cardinality(B) - Cardinality(A \cap B)
      BY <2>2, FS_Union
    <3>2. Cardinality(A \cap B) = 0
      BY <2>1, FS_EmptySet
    <3>3. Cardinality(A) \in Nat /\ Cardinality(B) \in Nat
      BY <2>2, FS_CardinalityType
    <3> QED
      BY <3>1, <3>2, <3>3
  <2>4. Cardinality(S) = Cardinality(A \cup B) + 1
    BY <2>1, <2>3, FS_AddElement
  <2> QED
    BY <2>3, <2>4 DEF Place
<1>7. ASSUME NEW i \in 1..n PROVE r[i] = q[i]
  <2> DEFINE x == p[n - i + 1]
  <2>1. n - i + 1 \in 1..n /\ x \in S
    BY <1>2, <1>3
  <2>2. Place(S, rank, x) = n - i
    BY <1>2, <1>3, <2>1
  <2>3. PICK j \in 1..n : q[j] = x /\ Place(S, opposite, x) = j - 1
    BY <1>4, <2>1
  <2>4. j = i
    BY <1>2, <1>6, <2>1, <2>2, <2>3
  <2> QED
    BY <1>5, <2>3, <2>4
<1> HIDE DEF r
<1>8. q = r
  BY <1>2, <1>4, <1>5, <1>7
<1> QED
  BY <1>1, <1>8 DEF p, q, r
=============================================================================
