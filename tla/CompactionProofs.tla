-------------------------- MODULE CompactionProofs --------------------------
(***************************************************************************)
(* Proofs about Compaction, for any number of tables and keys: sifting     *)
(* keeps the array a heap, so that a pop takes a node with the smallest    *)
(* key; and from that, what run_compaction writes.  The invariant          *)
(* MergeInv follows every record from its table through the heap to the    *)
(* written sequence.                                                       *)
(***************************************************************************)
EXTENDS Compaction, TableProofs

----------------------------------------------------------------------------
(* The heap.                                                               *)

HeapNode == [key : Key, datum : Datum, table : Nat]

\* No two nodes come from one table.
Distinct(h) == \A i, j \in 1..Len(h) : h[i].table = h[j].table => i = j

\* The array has these nodes, each once.
Holds(h, N) == h \in Seq(HeapNode) /\ Distinct(h) /\ Range(h) = N

\* The element at i is not smaller than its parent.
Ordered(h, i) == h[i \div 2].key <= h[i].key

IsHeap(h) == \A i \in 2..Len(h) : Ordered(h, i)

\* The children of p are not smaller than p's parent.
Bridged(h, p) == p # 1 => \A i \in 2..Len(h) : i \div 2 = p => h[p \div 2].key <= h[i].key

\* A heap but for the element at p, which may be too small for its place,
UpAt(h, p) == (\A i \in 2..Len(h) : i # p => Ordered(h, i)) /\ Bridged(h, p)

\* or in any relation to its parent and its children.
DownAt(h, p) ==
    (\A i \in 2..Len(h) : i # p /\ i \div 2 # p => Ordered(h, i)) /\ Bridged(h, p)

\* The place of an element's parent, and those of its children.
LEMMA ParentPlace ==
    ASSUME NEW i \in Nat, i # 0, i # 1
    PROVE  /\ i \div 2 \in Nat /\ i \div 2 # 0 /\ i \div 2 < i
           /\ i = 2 * (i \div 2) \/ i = 2 * (i \div 2) + 1
OBVIOUS

LEMMA ChildPlace ==
    ASSUME NEW p \in Nat
    PROVE  (2 * p) \div 2 = p /\ (2 * p + 1) \div 2 = p
OBVIOUS

\* The keys of a heap's nodes are numbers.
LEMMA NodeKeys ==
    ASSUME NEW h \in Seq(HeapNode), NEW i \in 1..Len(h)
    PROVE  h[i] \in HeapNode /\ h[i].key \in Nat /\ h[i].key \in Key
<1>1. h[i] \in HeapNode
  OBVIOUS
<1> QED
  BY <1>1, CompactionAssumption DEF HeapNode

\* Two places of the array exchanged.
Swapped(g, h, a, b) ==
    /\ Len(g) = Len(h)
    /\ \A i \in 1..Len(h) : g[i] = IF i = b THEN h[a] ELSE IF i = a THEN h[b] ELSE h[i]

\* An exchange keeps the nodes.
LEMMA SwapHolds ==
    ASSUME NEW N, NEW h, Holds(h, N), NEW a \in 1..Len(h), NEW b \in 1..Len(h)
    PROVE  Holds(Swap(h, a, b), N) /\ Swapped(Swap(h, a, b), h, a, b)
<1> DEFINE g == Swap(h, a, b)
           n == Len(h)
<1>1. /\ h \in Seq(HeapNode) /\ n \in Nat /\ DOMAIN h = 1..n /\ h[a] \in HeapNode /\ h[b] \in HeapNode
      /\ \A i \in 1..n : h[i] \in HeapNode
  BY DEF Holds
<1>2. \A i \in 1..n : g[i] = IF i = b THEN h[a] ELSE IF i = a THEN h[b] ELSE h[i]
  BY <1>1 DEF Swap
<1>3. DOMAIN g = 1..n /\ g = [i \in 1..n |-> g[i]]
  BY <1>1 DEF Swap
<1> HIDE DEF g
<1>4. \A i \in 1..n : g[i] \in HeapNode
  BY <1>1, <1>2
<1>5. g \in Seq(HeapNode) /\ Len(g) = n
  BY <1>1, <1>3, <1>4
<1>6. Distinct(g)
  <2> SUFFICES ASSUME NEW i \in 1..n, NEW j \in 1..n, g[i].table = g[j].table PROVE i = j
    BY <1>5 DEF Distinct
  <2> QED
    BY <1>2 DEF Holds, Distinct
<1>7. Range(g) = Range(h)
  <2>1. \A i \in 1..n : \E j \in 1..n : g[i] = h[j]
    BY <1>2
  <2>2. \A i \in 1..n : \E j \in 1..n : h[i] = g[j]
    BY <1>2
  <2>3. Range(g) \subseteq Range(h)
    BY <1>1, <1>3, <2>1 DEF Range
  <2>4. Range(h) \subseteq Range(g)
    BY <1>1, <1>3, <2>2 DEF Range
  <2> QED
    BY <2>3, <2>4
<1> QED
  BY <1>2, <1>5, <1>6, <1>7 DEF Holds, Swapped, g

\* A round up.
LEMMA UpRound ==
    ASSUME NEW N, NEW h, Holds(h, N), NEW p \in 1..Len(h), p # 1, UpAt(h, p), ~Ordered(h, p)
    PROVE  UpAt(Swap(h, p, p \div 2), p \div 2)
<1> DEFINE q == p \div 2
           n == Len(h)
           g == Swap(h, p, q)
<1>1. h \in Seq(HeapNode) /\ n \in Nat /\ p \in Nat /\ \A i \in 1..n : h[i].key \in Nat
  BY NodeKeys DEF Holds
<1>2. q \in 1..n /\ q < p /\ q # p
  BY <1>1, ParentPlace
<1>3. Len(g) = n /\ \A i \in 1..n : g[i] = IF i = q THEN h[p] ELSE IF i = p THEN h[q] ELSE h[i]
  <2>1. Swapped(g, h, p, q)
    BY <1>2, SwapHolds
  <2> QED
    BY <2>1 DEF Swapped
<1>4. h[p].key < h[q].key
  BY <1>1, <1>2 DEF Ordered
<1>5. /\ \A i \in 2..n : i # p => h[i \div 2].key <= h[i].key
      /\ \A i \in 2..n : i \div 2 = p => h[q].key <= h[i].key
  BY DEF UpAt, Bridged, Ordered
<1>6. \A i \in 2..n : i \in 1..n /\ i \div 2 \in 1..n /\ i \div 2 # i
  BY <1>1, ParentPlace
<1>q. q # 1 => q \in 2..n /\ q \div 2 \in 1..n /\ q \div 2 # q /\ q \div 2 # p
  BY <1>1, <1>2, ParentPlace
<1>p. p \in 2..n
  BY <1>1
<1> HIDE DEF g, n
<1>7. ASSUME NEW i \in 2..n, i # q PROVE g[i \div 2].key <= g[i].key
  <2> DEFINE a == i \div 2
  <2>1. a \in 1..n /\ i \in 1..n /\ a # i
    BY <1>6
  <2>2. CASE i = p
    <3>1. g[a] = h[p] /\ g[i] = h[q]
      BY <1>2, <1>3, <2>1, <2>2
    <3> QED
      BY <1>1, <1>2, <1>4, <3>1 DEF n
  <2>3. CASE i # p /\ a = q
    <3>1. g[a] = h[p] /\ g[i] = h[i] /\ h[q].key <= h[i].key
      BY <1>3, <1>5, <1>7, <2>1, <2>3
    <3> QED
      BY <1>1, <1>2, <1>4, <2>1, <3>1 DEF n
  <2>4. CASE i # p /\ a = p
    <3>1. g[a] = h[q] /\ g[i] = h[i] /\ h[q].key <= h[i].key
      BY <1>2, <1>3, <1>5, <1>7, <2>1, <2>4
    <3> QED
      BY <3>1
  <2>5. CASE i # p /\ a # p /\ a # q
    BY <1>3, <1>5, <1>7, <2>1, <2>5
  <2> QED
    BY <2>2, <2>3, <2>4, <2>5
<1>8. ASSUME q # 1, NEW i \in 2..n, i \div 2 = q PROVE g[q \div 2].key <= g[i].key
  <2>1. g[q \div 2] = h[q \div 2] /\ h[q \div 2].key <= h[q].key
    BY <1>2, <1>3, <1>5, <1>8, <1>q
  <2>2. g[i].key = h[q].key \/ (g[i] = h[i] /\ h[q].key <= h[i].key)
    <3>1. CASE i = p
      BY <1>2, <1>3, <1>6, <1>8, <3>1
    <3>2. CASE i # p
      BY <1>2, <1>3, <1>5, <1>6, <1>8, <3>2
    <3> QED
      BY <3>1, <3>2
  <2>3. h[q].key \in Nat /\ h[i].key \in Nat /\ h[q \div 2].key \in Nat
    BY <1>1, <1>2, <1>6, <1>8, <1>q DEF n
  <2> QED
    BY <2>1, <2>2, <2>3
<1> QED
  BY <1>3, <1>7, <1>8 DEF UpAt, Bridged, Ordered, g

\* A round down, to a child c that is not greater than the other.
LEMMA DownRound ==
    ASSUME NEW N, NEW h, Holds(h, N), NEW p \in 1..Len(h), NEW c \in 2..Len(h), c \div 2 = p,
           \A i \in 2..Len(h) : i \div 2 = p => h[c].key <= h[i].key,
           DownAt(h, p)
    PROVE  DownAt(Swap(h, p, c), c)
<1> DEFINE n == Len(h)
           g == Swap(h, p, c)
<1>1. h \in Seq(HeapNode) /\ n \in Nat /\ p \in Nat /\ \A i \in 1..n : h[i].key \in Nat
  BY NodeKeys DEF Holds
<1>2. c \in 1..n /\ c # p /\ p < c /\ c # 1
  BY <1>1, ParentPlace
<1>3. Len(g) = n /\ \A i \in 1..n : g[i] = IF i = c THEN h[p] ELSE IF i = p THEN h[c] ELSE h[i]
  <2>1. Swapped(g, h, p, c)
    BY <1>2, SwapHolds
  <2> QED
    BY <2>1 DEF Swapped
<1>5. /\ \A i \in 2..n : i # p /\ i \div 2 # p => h[i \div 2].key <= h[i].key
      /\ p # 1 => \A i \in 2..n : i \div 2 = p => h[p \div 2].key <= h[i].key
  BY DEF DownAt, Bridged, Ordered
<1>6. \A i \in 2..n : i \in 1..n /\ i \div 2 \in 1..n /\ i \div 2 # i /\ i # 1 /\ i \div 2 < i
  BY <1>1, ParentPlace
<1> HIDE DEF g, n
<1>7. ASSUME NEW i \in 2..n, i # c, i \div 2 # c PROVE g[i \div 2].key <= g[i].key
  <2> DEFINE a == i \div 2
  <2>1. a \in 1..n /\ i \in 1..n /\ a # i
    BY <1>6
  <2>2. CASE i = p
    <3>1. g[a] = h[p \div 2] /\ g[i] = h[c] /\ h[p \div 2].key <= h[c].key
      BY <1>2, <1>3, <1>5, <1>6, <1>7, <2>1, <2>2 DEF n
    <3> QED
      BY <3>1
  <2>3. CASE i # p /\ a = p
    <3>1. g[a] = h[c] /\ g[i] = h[i] /\ h[c].key <= h[i].key
      BY <1>2, <1>3, <1>7, <2>1, <2>3 DEF n
    <3> QED
      BY <3>1
  <2>4. CASE i # p /\ a # p
    BY <1>3, <1>5, <1>7, <2>1, <2>4
  <2> QED
    BY <2>2, <2>3, <2>4
<1>8. ASSUME NEW i \in 2..n, i \div 2 = c PROVE g[c \div 2].key <= g[i].key
  <2>1. i # p /\ i # c /\ i \in 1..n
    BY <1>1, <1>2, <1>6, <1>8
  <2>2. g[c \div 2] = h[c] /\ g[i] = h[i]
    BY <1>2, <1>3, <2>1
  <2>3. h[c].key <= h[i].key
    BY <1>2, <1>5, <1>8, <2>1
  <2> QED
    BY <2>2, <2>3
<1> QED
  BY <1>3, <1>7, <1>8 DEF DownAt, Bridged, Ordered, g

----------------------------------------------------------------------------
(* Sifting.                                                                *)

SiftState == [heap : Seq(HeapNode), pos : Nat, down : BOOLEAN]

\* A heap of n nodes but for the element that is sifted.
Good(s, n, N) ==
    /\ s \in SiftState /\ Holds(s.heap, N) /\ Len(s.heap) = n /\ n \in Nat /\ s.pos \in 1..n
    /\ IF s.down THEN DownAt(s.heap, s.pos) ELSE UpAt(s.heap, s.pos)

\* The element is in its place.
Settled(s) == ~s.down /\ (s.pos = 1 \/ Ordered(s.heap, s.pos))

\* The rounds it may take to get there.
RoundsLeft(s, n) == IF s.down THEN 2 * n - s.pos ELSE s.pos - 1

\* One round towards it.
Nearer(t, s, n) == RoundsLeft(t, n) <= RoundsLeft(s, n) - 1

LEMMA SiftUpRound ==
    ASSUME NEW N, NEW n, NEW s, Good(s, n, N), ~s.down
    PROVE  /\ Good(sift_up(s), n, N)
           /\ Settled(s) => sift_up(s) = s
           /\ ~Settled(s) => Nearer(sift_up(s), s, n)
<1> DEFINE h == s.heap
           p == s.pos
           q == p \div 2
           g == Swap(h, p, q)
           t == [s EXCEPT !.heap = g, !.pos = q]
<1>1. /\ s \in SiftState /\ Holds(h, N) /\ Len(h) = n /\ n \in Nat /\ p \in 1..n /\ p \in Nat
      /\ UpAt(h, p) /\ s.down = FALSE
  BY DEF Good, SiftState
<1>2. sift_up(s) = IF p = 1 \/ Ordered(h, p) THEN s ELSE t
  BY DEF sift_up, LE, Ordered
<1>3. CASE Settled(s)
  BY <1>2, <1>3 DEF Settled
<1>4. CASE ~Settled(s)
  <2>1. p # 1 /\ ~Ordered(h, p) /\ sift_up(s) = t
    BY <1>1, <1>2, <1>4 DEF Settled
  <2>2. q \in Nat /\ q \in 1..n /\ q < p
    BY <1>1, <2>1, ParentPlace
  <2>3. Holds(g, N) /\ Len(g) = n
    BY <1>1, <2>2, SwapHolds DEF Swapped
  <2>4. UpAt(g, q)
    BY <1>1, <2>1, UpRound
  <2>5. g \in Seq(HeapNode)
    BY <2>3 DEF Holds
  <2> HIDE DEF g, q
  <2>6. t \in SiftState /\ t.heap = g /\ t.pos = q /\ t.down = FALSE
    BY <1>1, <2>2, <2>5 DEF SiftState
  <2> HIDE DEF t
  <2>7. Good(t, n, N)
    BY <1>1, <2>2, <2>3, <2>4, <2>6 DEF Good
  <2>8. Nearer(t, s, n)
    BY <1>1, <2>2, <2>6 DEF Nearer, RoundsLeft
  <2> QED
    BY <1>4, <2>1, <2>7, <2>8
<1> QED
  BY <1>3, <1>4

LEMMA SiftDownRound ==
    ASSUME NEW N, NEW n, NEW s, Good(s, n, N), s.down
    PROVE  Good(sift_down_to_bottom(s), n, N) /\ Nearer(sift_down_to_bottom(s), s, n)
<1> DEFINE h == s.heap
           p == s.pos
           l == 2 * p
           c == IF l < Len(h) /\ LE(h[l], h[l + 1]) THEN l + 1 ELSE l
           g == Swap(h, p, c)
           u == [s EXCEPT !.down = FALSE]
           t == [s EXCEPT !.heap = g, !.pos = c]
<1>1. /\ s \in SiftState /\ Holds(h, N) /\ Len(h) = n /\ n \in Nat /\ p \in 1..n /\ p \in Nat
      /\ DownAt(h, p) /\ s.down = TRUE /\ h \in Seq(HeapNode)
  BY DEF Good, SiftState
<1>2. sift_down_to_bottom(s) = IF l > Len(h) THEN u ELSE t
  BY DEF sift_down_to_bottom
<1>3. \A i \in 2..n : i \div 2 = p => i = l \/ i = l + 1
  <2> SUFFICES ASSUME NEW i \in 2..n, i \div 2 = p PROVE i = l \/ i = l + 1
    OBVIOUS
  <2> QED
    BY <1>1, ParentPlace
<1>4. CASE l > Len(h)
  <2>1. u \in SiftState /\ u.heap = h /\ u.pos = p /\ u.down = FALSE
    BY <1>1 DEF SiftState
  <2>2. \A i \in 2..n : i \div 2 # p
    BY <1>1, <1>3, <1>4
  <2>3. UpAt(h, p)
    BY <1>1, <2>2 DEF UpAt, DownAt
  <2> HIDE DEF u
  <2>4. Good(u, n, N)
    BY <1>1, <2>1, <2>3 DEF Good
  <2>5. Nearer(u, s, n)
    BY <1>1, <2>1 DEF Nearer, RoundsLeft
  <2> QED
    BY <1>2, <1>4, <2>4, <2>5
<1>5. CASE ~(l > Len(h))
  <2>1. l \in 2..n /\ l \in 1..n /\ l \div 2 = p /\ (l + 1) \div 2 = p /\ l > p
    BY <1>1, <1>5, ChildPlace
  <2>c. \/ c = l + 1 /\ l < n /\ h[l + 1].key <= h[l].key
        \/ c = l /\ ~(l < n /\ h[l + 1].key <= h[l].key)
    BY <1>1 DEF LE
  <2> HIDE DEF c
  <2>2. c \in 2..n /\ c \in 1..n /\ c \div 2 = p /\ c > p /\ c \in Nat
    <3>1. l \in Nat /\ (c = l \/ (c = l + 1 /\ l < n))
      BY <1>1, <2>c
    <3> HIDE DEF l
    <3>2. CASE c = l
      BY <1>1, <2>1, <3>1, <3>2
    <3>3. CASE c = l + 1 /\ l < n
      <4>1. c \in 2..n /\ c \in 1..n /\ c > p /\ c \in Nat
        BY <1>1, <2>1, <3>1, <3>3
      <4> QED
        BY <2>1, <3>3, <4>1
    <3> QED
      BY <3>1, <3>2, <3>3
  <2>3. \A i \in 2..n : i \div 2 = p => h[c].key <= h[i].key
    <3> SUFFICES ASSUME NEW i \in 2..n, i \div 2 = p PROVE h[c].key <= h[i].key
      OBVIOUS
    <3>0. i \in 1..n
      BY <1>1
    <3>1. h[i].key \in Nat /\ h[l].key \in Nat
      BY <1>1, <2>1, <3>0, NodeKeys
    <3>2. i = l \/ i = l + 1
      BY <1>3
    <3>3. CASE i = l
      BY <2>c, <3>1, <3>3
    <3>4. CASE i = l + 1
      <4>1. l < n
        BY <1>1, <3>0, <3>4
      <4>2. c = l + 1 \/ (c = l /\ ~(h[l + 1].key <= h[l].key))
        BY <2>c, <4>1
      <4>3. h[l + 1] = h[i]
        BY <3>4
      <4> HIDE DEF l, h
      <4> QED
        BY <3>1, <3>4, <4>2, <4>3
    <3> QED
      BY <3>2, <3>3, <3>4
  <2>4. Holds(g, N) /\ Len(g) = n
    BY <1>1, <2>2, SwapHolds DEF Swapped
  <2>5. DownAt(g, c)
    BY <1>1, <2>2, <2>3, DownRound
  <2>6. g \in Seq(HeapNode)
    BY <2>4 DEF Holds
  <2> HIDE DEF g
  <2>7. t \in SiftState /\ t.heap = g /\ t.pos = c /\ t.down = TRUE
    BY <1>1, <2>2, <2>6 DEF SiftState
  <2> HIDE DEF t
  <2>8. Good(t, n, N)
    BY <1>1, <2>2, <2>4, <2>5, <2>7 DEF Good
  <2>9. Nearer(t, s, n)
    BY <1>1, <2>2, <2>7 DEF Nearer, RoundsLeft
  <2> QED
    BY <1>2, <1>5, <2>8, <2>9
<1> QED
  BY <1>4, <1>5

LEMMA SiftRound ==
    ASSUME NEW N, NEW n, NEW s, Good(s, n, N)
    PROVE  /\ Good(sift(s), n, N)
           /\ Settled(s) => sift(s) = s
           /\ ~Settled(s) => Nearer(sift(s), s, n)
<1>1. CASE s.down
  BY <1>1, SiftDownRound DEF sift, Settled
<1>2. CASE ~s.down
  BY <1>2, SiftUpRound DEF sift
<1> QED
  BY <1>1, <1>2

\* The states of the loop after 0, 1, ... n rounds.
Sifted(S) == {sift(t) : t \in S}

Sifts(g, s, n) ==
    g = [m \in 0..n |-> IF m = 0 THEN {s} ELSE Sifted(g[m - 1])]

SiftSteps(g, s, n) ==
    g[0] = {s} /\ \A m \in 0..n : m < n => g[m + 1] = Sifted(g[m])

LEMMA SiftsExist ==
    ASSUME NEW s, NEW n \in Nat
    PROVE  \E g : Sifts(g, s, n)
<1> DEFINE S == {m \in Nat : \E g : Sifts(g, s, m)}
           F(f, i) == IF i = 0 THEN {s} ELSE Sifted(f[i - 1])
<1>1. 0 \in S
  <2> DEFINE g == [m \in 0..0 |-> {s}]
  <2>1. Sifts(g, s, 0)
    BY DEF Sifts
  <2> QED
    BY <2>1
<1>2. ASSUME NEW m \in 0..n, m \in S PROVE m + 1 \in S
  <2>1. PICK g : Sifts(g, s, m)
    BY <1>2
  <2> DEFINE x == Sifted(g[m])
             h == [i \in 0..(m + 1) |-> IF i <= m THEN g[i] ELSE x]
  <2>2. g = [i \in 0..m |-> F(g, i)]
    BY <2>1 DEF Sifts
  <2>3. \A i \in 0..m : g[i] = F(g, i)
    <3> HIDE DEF F
    <3> QED
      BY <2>2
  <2>4. \A i \in 0..(m + 1) : h[i] = F(h, i)
    <3> SUFFICES ASSUME NEW i \in 0..(m + 1) PROVE h[i] = F(h, i)
      OBVIOUS
    <3>1. CASE i <= m
      <4>1. i \in 0..m /\ h[i] = g[i]
        BY <3>1
      <4>2. i # 0 => i - 1 \in 0..(m + 1) /\ i - 1 <= m
        BY <3>1
      <4>3. i # 0 => h[i - 1] = g[i - 1]
        BY <4>2
      <4> HIDE DEF h
      <4> QED
        BY <2>3, <4>1, <4>3
    <3>2. CASE i = m + 1
      <4>1. h[i] = x /\ i # 0 /\ i - 1 = m /\ h[m] = g[m]
        BY <3>2
      <4> HIDE DEF h
      <4> QED
        BY <3>2, <4>1
    <3> QED
      BY <3>1, <3>2
  <2>5. h = [i \in 0..(m + 1) |-> h[i]]
    OBVIOUS
  <2>6. h = [i \in 0..(m + 1) |-> F(h, i)]
    <3> HIDE DEF F, h
    <3> QED
      BY <2>4, <2>5
  <2>7. Sifts(h, s, m + 1)
    <3> HIDE DEF h
    <3> QED
      BY <2>6 DEF Sifts
  <2> QED
    BY <2>7
<1>3. \A m \in 0..n : m \in S
  <2>1. \A m \in 0..n : m < n /\ m \in S => m + 1 \in S
    BY <1>2
  <2> HIDE DEF S
  <2> QED
    BY <1>1, <2>1, Climb
<1> QED
  BY <1>3

LEMMA SiftsAt ==
    ASSUME NEW s, NEW n \in Nat, NEW g, Sifts(g, s, n)
    PROVE  SiftSteps(g, s, n)
<1> DEFINE F(f, i) == IF i = 0 THEN {s} ELSE Sifted(f[i - 1])
<1>1. g = [i \in 0..n |-> F(g, i)]
  BY DEF Sifts
<1> HIDE DEF F
<1>2. \A i \in 0..n : g[i] = F(g, i)
  BY <1>1
<1>3. g[0] = {s}
  BY <1>2 DEF F
<1>4. ASSUME NEW m \in 0..n, m < n PROVE g[m + 1] = Sifted(g[m])
  <2>1. m + 1 \in 0..n /\ m + 1 # 0 /\ m + 1 - 1 = m
    BY <1>4
  <2> QED
    BY <1>2, <2>1 DEF F
<1> QED
  BY <1>3, <1>4 DEF SiftSteps

\* Sifting makes a heap of the same nodes.
LEMMA SiftedHeap ==
    ASSUME NEW N, NEW h, NEW p, NEW down, Good([heap |-> h, pos |-> p, down |-> down], Len(h), N)
    PROVE  Holds(sifted(h, p, down), N) /\ IsHeap(sifted(h, p, down))
<1> DEFINE n == Len(h)
           s == [heap |-> h, pos |-> p, down |-> down]
           r == 2 * n
           f == CHOOSE g : Sifts(g, s, r)
<1>1. n \in Nat /\ r \in Nat /\ Good(s, n, N)
  BY DEF Good
<1>2. Sifts(f, s, r)
  BY <1>1, SiftsExist
<1>3. SiftSteps(f, s, r)
  BY <1>1, <1>2, SiftsAt
<1>4. sifted(h, p, down) = (CHOOSE t \in f[r] : TRUE).heap
  BY DEF sifted, Sifts, Sifted
<1> HIDE DEF f
<1> DEFINE G(m) == \E t : /\ f[m] = {t} /\ Good(t, n, N)
                          /\ Settled(t) \/ RoundsLeft(t, n) + m <= r
           S == {m \in Nat : G(m)}
<1>5. 0 \in S
  <2>1. f[0] = {s}
    BY <1>3 DEF SiftSteps
  <2>2. RoundsLeft(s, n) + 0 <= r
    <3>1. s.pos \in 1..n /\ s.down \in BOOLEAN
      BY <1>1 DEF Good, SiftState
    <3> HIDE DEF s
    <3> QED
      BY <1>1, <3>1 DEF RoundsLeft
  <2> HIDE DEF s
  <2> QED
    BY <1>1, <2>1, <2>2
<1>6. ASSUME NEW m \in 0..r, m < r, m \in S PROVE m + 1 \in S
  <2>1. PICK t : f[m] = {t} /\ Good(t, n, N) /\ (Settled(t) \/ RoundsLeft(t, n) + m <= r)
    BY <1>6
  <2>2. f[m + 1] = {sift(t)}
    <3>1. f[m + 1] = Sifted({t})
      BY <1>3, <1>6, <2>1 DEF SiftSteps
    <3> QED
      BY <3>1 DEF Sifted
  <2> DEFINE u == sift(t)
  <2>3. Good(u, n, N) /\ (Settled(t) => u = t) /\ (~Settled(t) => Nearer(u, t, n))
    BY <2>1, SiftRound
  <2> HIDE DEF u
  <2>4. RoundsLeft(t, n) \in Int /\ RoundsLeft(u, n) \in Int
    BY <2>1, <2>3 DEF Good, SiftState, RoundsLeft
  <2>5. Settled(u) \/ RoundsLeft(u, n) + (m + 1) <= r
    BY <1>1, <2>1, <2>3, <2>4 DEF Nearer
  <2> QED
    BY <1>1, <2>2, <2>3, <2>5 DEF u
<1>7. \A m \in 0..r : m \in S
  <2> HIDE DEF S, r
  <2> QED
    BY <1>1, <1>5, <1>6, Climb
<1>8. PICK t : f[r] = {t} /\ Good(t, n, N) /\ (Settled(t) \/ RoundsLeft(t, n) + r <= r)
  BY <1>1, <1>7
<1>9. Settled(t)
  <2>1. t.pos \in 1..n /\ t.down \in BOOLEAN
    BY <1>8 DEF Good, SiftState
  <2>2. CASE RoundsLeft(t, n) + r <= r
    <3>1. t.down = FALSE /\ t.pos = 1
      BY <1>1, <2>1, <2>2 DEF RoundsLeft
    <3> QED
      BY <3>1 DEF Settled
  <2> QED
    BY <1>8, <2>2
<1>10. sifted(h, p, down) = t.heap
  BY <1>4, <1>8
<1>11. Holds(t.heap, N) /\ UpAt(t.heap, t.pos) /\ (t.pos = 1 \/ Ordered(t.heap, t.pos))
  BY <1>8, <1>9 DEF Good, Settled
<1>12. IsHeap(t.heap)
  BY <1>11 DEF IsHeap, UpAt
<1> QED
  BY <1>10, <1>11, <1>12

\* push adds a node of a table that has none.
LEMMA HeapPush ==
    ASSUME NEW N, NEW h, Holds(h, N), IsHeap(h), NEW x \in HeapNode, \A y \in N : y.table # x.table
    PROVE  Holds(heap_push(h, x), N \cup {x}) /\ IsHeap(heap_push(h, x))
<1> DEFINE g == Append(h, x)
           n == Len(h)
           s == [heap |-> g, pos |-> n + 1, down |-> FALSE]
<1>1. h \in Seq(HeapNode) /\ n \in Nat /\ DOMAIN h = 1..n
  BY DEF Holds
<1>2. /\ g \in Seq(HeapNode) /\ Len(g) = n + 1 /\ DOMAIN g = 1..(n + 1)
      /\ g[n + 1] = x /\ \A i \in 1..n : g[i] = h[i]
  BY <1>1
<1> HIDE DEF g
<1>3. \A i \in 1..n : h[i] \in N
  BY <1>1 DEF Holds, Range
<1>4. Distinct(g)
  <2> SUFFICES ASSUME NEW i \in 1..(n + 1), NEW j \in 1..(n + 1), g[i].table = g[j].table PROVE i = j
    BY <1>2 DEF Distinct
  <2>1. CASE i \in 1..n /\ j \in 1..n
    BY <1>2, <2>1 DEF Holds, Distinct
  <2>2. CASE i \in 1..n /\ j = n + 1
    BY <1>2, <1>3, <2>2
  <2>3. CASE i = n + 1 /\ j \in 1..n
    BY <1>2, <1>3, <2>3
  <2>4. (i \in 1..n \/ i = n + 1) /\ (j \in 1..n \/ j = n + 1)
    BY <1>1
  <2> QED
    BY <2>1, <2>2, <2>3, <2>4
<1>5. Range(g) = N \cup {x}
  <2>1. Range(g) \subseteq N \cup {x}
    <3> SUFFICES ASSUME NEW i \in 1..(n + 1) PROVE g[i] \in N \cup {x}
      BY <1>2 DEF Range
    <3>1. i \in 1..n \/ i = n + 1
      BY <1>1
    <3> QED
      BY <1>2, <1>3, <3>1
  <2>2. ASSUME NEW y \in N PROVE y \in Range(g)
    <3>1. PICK i \in 1..n : y = h[i]
      BY <1>1 DEF Holds, Range
    <3>2. i \in 1..(n + 1) /\ g[i] = y
      BY <1>1, <1>2, <3>1
    <3> QED
      BY <1>2, <3>2 DEF Range
  <2>3. x \in Range(g)
    <3>1. n + 1 \in 1..(n + 1)
      BY <1>1
    <3> QED
      BY <1>2, <3>1 DEF Range
  <2> QED
    BY <2>1, <2>2, <2>3
<1>6. UpAt(g, n + 1)
  <2>1. ASSUME NEW i \in 2..(n + 1), i # n + 1 PROVE Ordered(g, i)
    <3>1. i \in 1..n /\ i \in 2..n /\ i \in Nat
      BY <1>1, <2>1
    <3>2. i \div 2 \in 1..n
      BY <3>1, ParentPlace
    <3> QED
      BY <1>2, <3>1, <3>2 DEF IsHeap, Ordered
  <2>2. \A i \in 2..(n + 1) : i \div 2 # n + 1
    BY <1>1, ParentPlace
  <2> QED
    BY <1>2, <2>1, <2>2 DEF UpAt, Bridged
<1>7. Good(s, Len(g), N \cup {x})
  <2>1. s \in SiftState /\ s.heap = g /\ s.pos = n + 1 /\ s.down = FALSE
    BY <1>1, <1>2 DEF SiftState
  <2> HIDE DEF s
  <2>2. Holds(g, N \cup {x})
    BY <1>2, <1>4, <1>5 DEF Holds
  <2> QED
    BY <1>1, <1>2, <1>6, <2>1, <2>2 DEF Good
<1>8. heap_push(h, x) = sifted(g, n + 1, FALSE)
  BY DEF heap_push, g
<1> QED
  BY <1>7, <1>8, SiftedHeap

\* A sequence without its first element, and with one before it.
LEMMA TailAt ==
    ASSUME NEW S, NEW t \in Seq(S), t # << >>
    PROVE  /\ Tail(t) \in Seq(S) /\ Len(Tail(t)) = Len(t) - 1
           /\ \A i \in 1..(Len(t) - 1) : Tail(t)[i] = t[i + 1] /\ i + 1 \in 1..Len(t)
<1>1. Len(t) \in Nat /\ Len(t) # 0
  OBVIOUS
<1>2. Tail(t) \in Seq(S) /\ Len(Tail(t)) = Len(t) - 1
  BY <1>1
<1>3. ASSUME NEW i \in 1..(Len(t) - 1) PROVE Tail(t)[i] = t[i + 1] /\ i + 1 \in 1..Len(t)
  BY <1>1
<1> QED
  BY <1>2, <1>3

LEMMA ConsAt ==
    ASSUME NEW S, NEW x \in S, NEW v \in Seq(S)
    PROVE  /\ << x >> \o v \in Seq(S) /\ Len(<< x >> \o v) = Len(v) + 1 /\ (<< x >> \o v)[1] = x
           /\ \A i \in 2..(Len(v) + 1) : (<< x >> \o v)[i] = v[i - 1] /\ i - 1 \in 1..Len(v)
OBVIOUS

\* pop removes the first node.
LEMMA HeapPop ==
    ASSUME NEW N, NEW h, Holds(h, N), IsHeap(h), h # << >>
    PROVE  /\ Holds(heap_pop(h), N \ {Head(h)}) /\ IsHeap(heap_pop(h))
           /\ Head(h) \in N /\ Head(h) \in HeapNode
<1> DEFINE n == Len(h)
           M == N \ {Head(h)}
<1>1. h \in Seq(HeapNode) /\ n \in Nat /\ n # 0 /\ DOMAIN h = 1..n /\ Head(h) = h[1] /\ 1 \in 1..n
  BY DEF Holds
<1>2. Head(h) \in N /\ Head(h) \in HeapNode /\ \A i \in 1..n : h[i] \in N
  BY <1>1 DEF Holds, Range
<1>3. \A y \in M : \E i \in 1..n : i # 1 /\ y = h[i]
  BY <1>1 DEF Holds, Range
<1>4. \A i \in 1..n : i # 1 => h[i] # h[1]
  BY <1>1 DEF Holds, Distinct
<1>5. CASE n = 1
  <2>1. heap_pop(h) = << >>
    BY <1>5 DEF heap_pop
  <2>2. M = {}
    BY <1>3, <1>5
  <2>3. Holds(<< >>, {}) /\ IsHeap(<< >>)
    BY DEF Holds, Distinct, IsHeap, Range
  <2> QED
    BY <1>2, <2>1, <2>2, <2>3
<1>6. CASE n # 1
  <2> DEFINE g == << Last(h) >> \o Tail(Front(h))
             s == [heap |-> g, pos |-> 1, down |-> TRUE]
             m == n - 1
  <2>1. m \in Nat /\ m # 0 /\ n = m + 1 /\ 1 \in 1..m
    BY <1>1, <1>6
  <2>2. /\ g \in Seq(HeapNode) /\ Len(g) = m /\ DOMAIN g = 1..m
        /\ g[1] = h[n] /\ \A i \in 2..m : g[i] = h[i]
    <3>1. Front(h) \in Seq(HeapNode) /\ Len(Front(h)) = m /\ \A i \in 1..m : Front(h)[i] = h[i]
      BY <1>1, <2>1 DEF Front
    <3>2. Last(h) = h[n] /\ h[n] \in HeapNode
      BY <1>1 DEF Last
    <3> DEFINE t == Front(h)
               v == Tail(t)
    <3> HIDE DEF t, m
    <3>3. t \in Seq(HeapNode) /\ Len(t) = m /\ t # << >> /\ \A i \in 1..m : t[i] = h[i]
      BY <2>1, <3>1 DEF t
    <3>4. v \in Seq(HeapNode) /\ Len(v) = m - 1 /\ \A i \in 1..(m - 1) : v[i] = t[i + 1] /\ i + 1 \in 1..m
      BY <3>3, TailAt
    <3>6. g = << h[n] >> \o v
      BY <3>2 DEF t
    <3> HIDE DEF g, v
    <3>7. /\ g \in Seq(HeapNode) /\ Len(g) = Len(v) + 1 /\ g[1] = h[n]
          /\ \A i \in 2..(Len(v) + 1) : g[i] = v[i - 1] /\ i - 1 \in 1..Len(v)
      BY <3>2, <3>4, <3>6, ConsAt
    <3>8. m - 1 + 1 = m /\ Len(v) + 1 = m
      BY <2>1, <3>4
    <3>9. Len(g) = m /\ DOMAIN g = 1..m
      BY <3>7, <3>8
    <3>10. ASSUME NEW i \in 2..m PROVE g[i] = h[i]
      <4>1. i - 1 \in 1..(m - 1) /\ i - 1 + 1 = i /\ g[i] = v[i - 1]
        BY <3>4, <3>7, <3>8
      <4>2. v[i - 1] = t[i - 1 + 1] /\ i - 1 + 1 \in 1..m
        BY <3>4, <4>1
      <4> QED
        BY <3>3, <4>1, <4>2
    <3> QED
      BY <3>7, <3>9, <3>10
  <2>3. heap_pop(h) = sifted(g, 1, TRUE)
    BY <1>6 DEF heap_pop
  <2> HIDE DEF g, m
  <2>4. \A i \in 1..m : \E j \in 1..n : j # 1 /\ g[i] = h[j] /\ (i = 1 => j = n) /\ (i # 1 => j = i)
    <3> SUFFICES ASSUME NEW i \in 1..m
                 PROVE  \E j \in 1..n : j # 1 /\ g[i] = h[j] /\ (i = 1 => j = n) /\ (i # 1 => j = i)
      OBVIOUS
    <3>1. CASE i = 1
      <4>1. n \in 1..n
        BY <1>1
      <4>2. n # 1 /\ g[i] = h[n]
        BY <1>6, <2>2, <3>1
      <4> QED
        BY <3>1, <4>1, <4>2
    <3>2. CASE i # 1
      <4>1. i \in 2..m /\ i \in 1..n
        BY <2>1, <3>2
      <4> QED
        BY <2>2, <3>2, <4>1
    <3> QED
      BY <3>1, <3>2
  <2>5. Distinct(g)
    <3> SUFFICES ASSUME NEW i \in 1..m, NEW j \in 1..m, g[i].table = g[j].table PROVE i = j
      BY <2>2 DEF Distinct
    <3>1. PICK a \in 1..n : g[i] = h[a] /\ (i = 1 => a = n) /\ (i # 1 => a = i)
      BY <2>4
    <3>2. PICK b \in 1..n : g[j] = h[b] /\ (j = 1 => b = n) /\ (j # 1 => b = j)
      BY <2>4
    <3>3. a = b
      BY <3>1, <3>2 DEF Holds, Distinct
    <3> QED
      BY <2>1, <3>1, <3>2, <3>3
  <2>6. Range(g) = M
    <3>1. ASSUME NEW y \in Range(g) PROVE y \in M
      <4>1. PICK i \in 1..m : y = g[i]
        BY <2>2 DEF Range
      <4>2. PICK j \in 1..n : j # 1 /\ g[i] = h[j]
        BY <2>4
      <4>3. h[j] \in N /\ h[j] # h[1] /\ h[1] = Head(h)
        BY <1>1, <1>2, <1>4, <4>2
      <4> QED
        BY <4>1, <4>2, <4>3
    <3>2. ASSUME NEW y \in M PROVE y \in Range(g)
      <4>1. PICK i \in 1..n : i # 1 /\ y = h[i]
        BY <1>3
      <4>2. CASE i = n
        BY <2>1, <2>2, <4>1, <4>2 DEF Range
      <4>3. CASE i # n
        <5>1. i \in 2..m /\ i \in 1..m
          BY <2>1, <4>1, <4>3
        <5> QED
          BY <2>2, <4>1, <5>1 DEF Range
      <4> QED
        BY <4>2, <4>3
    <3> QED
      BY <3>1, <3>2
  <2>7. DownAt(g, 1)
    <3>1. ASSUME NEW i \in 2..m, i \div 2 # 1 PROVE Ordered(g, i)
      <4>1. i \in Nat /\ i \in 2..n
        BY <2>1
      <4>2. i \div 2 \in 2..m
        BY <2>1, <3>1, <4>1, ParentPlace
      <4> QED
        BY <2>2, <4>1, <4>2 DEF IsHeap, Ordered
    <3> QED
      BY <2>2, <3>1 DEF DownAt, Bridged
  <2>8. Good(s, Len(g), M)
    <3>1. s \in SiftState /\ s.heap = g /\ s.pos = 1 /\ s.down = TRUE
      BY <2>2 DEF SiftState
    <3> HIDE DEF s
    <3>2. Holds(g, M)
      BY <2>2, <2>5, <2>6 DEF Holds
    <3> QED
      BY <2>1, <2>2, <2>7, <3>1, <3>2 DEF Good
  <2> QED
    BY <1>2, <2>3, <2>8, SiftedHeap
<1> QED
  BY <1>5, <1>6

\* The first node has the smallest key.
LEMMA HeapTop ==
    ASSUME NEW N, NEW h, Holds(h, N), IsHeap(h), h # << >>
    PROVE  \A y \in N : Head(h).key <= y.key
<1> DEFINE n == Len(h)
           B == {i \in 1..n : h[i].key < h[1].key}
<1>1. /\ h \in Seq(HeapNode) /\ n \in Nat /\ DOMAIN h = 1..n /\ Head(h) = h[1] /\ 1 \in 1..n
      /\ \A i \in 1..n : h[i].key \in Nat
  BY NodeKeys DEF Holds
<1>2. B = {}
  <2> SUFFICES ASSUME B # {} PROVE FALSE
    OBVIOUS
  <2>1. B \in SUBSET Nat
    OBVIOUS
  <2>2. PICK i \in B : \A j \in B : i <= j
    BY <2>1, LeastElement
  <2>3. i \in 1..n /\ i # 1 /\ i \in 2..n /\ i \in Nat /\ h[i].key < h[1].key
    BY <1>1, <2>2
  <2>4. i \div 2 \in 1..n /\ i \div 2 < i
    BY <1>1, <2>3, ParentPlace
  <2>5. h[i \div 2].key <= h[i].key
    BY <2>3 DEF IsHeap, Ordered
  <2>6. i \div 2 \in B
    BY <1>1, <2>3, <2>4, <2>5
  <2> QED
    BY <2>2, <2>3, <2>4, <2>6
<1>3. ASSUME NEW y \in N PROVE Head(h).key <= y.key
  <2>1. PICK i \in 1..n : y = h[i]
    BY <1>1 DEF Holds, Range
  <2> QED
    BY <1>1, <1>2, <2>1
<1> QED
  BY <1>3

----------------------------------------------------------------------------
(* The invariant of the merge.                                             *)

\* The keys of a sequence of records, and a sequence that increases and has
\* what the block b says.
KeysOf(q) == {q[i].key : i \in 1..Len(q)}

Increasing(q) == \A i, j \in 1..Len(q) : i < j => q[i].key < q[j].key

Agrees(q, b) == \A i \in 1..Len(q) : b[q[i].key] = q[i].datum

Sorted(q, b) == q \in Seq(Entry) /\ Increasing(q) /\ Agrees(q, b)

\* Of the tables T, the first m have their records in the set H of nodes and
\* in it, the rest in it: a node comes before its table's other records,
HandOK(T, H, it, m) ==
    \A x \in H : /\ x \in HeapNode /\ x.table \in 1..m /\ T[x.table][x.key] = x.datum
                 /\ \A k \in KeysOf(it[x.table]) : x.key < k

\* a table with records left has a node,
Fed(H, it, m) == \A i \in 1..m : it[i] # << >> => \E x \in H : x.table = i

\* and no record is lost: it is left, it is in a node or its key is in D.
Accounted(T, H, it, D) ==
    \A i \in 1..Len(T), k \in Key : T[i][k] # Absent =>
        k \in KeysOf(it[i]) \/ (\E x \in H : x.table = i /\ x.key = k) \/ k \in D

\* The written records: in order, before every node, none a tombstone, each
\* of some table.
OutOK(T, H, o) ==
    /\ o \in Seq(Entry) /\ Increasing(o)
    /\ \A n \in 1..Len(o) : /\ o[n].datum # Tombstone
                            /\ \E j \in 1..Len(T) : T[j][o[n].key] = o[n].datum
                            /\ \A x \in H : o[n].key < x.key

\* The nodes in the heap and in hand, the keys that are settled.
Held == IF pc = "clear" THEN {smallest} ELSE {}

Hand == Range(heap) \cup Held

Dropped(T) == {k \in Key : \E j \in 1..Len(T) : T[j][k] = Tombstone}

SettledKeys ==
    KeysOf(out) \cup Dropped(tables) \cup {x.key : x \in Held}

\* The counters and the phases.
Phases ==
    /\ tables \in Seq(Block) /\ Len(tables) # 0
    /\ DOMAIN iters = 1..Len(tables)
    /\ \A i \in 1..Len(tables) : Sorted(iters[i], tables[i])
    /\ seeded \in 0..Len(tables)
    /\ pc \in {"seed", "pop", "clear", "done"}
    /\ pc = "seed" => seeded # Len(tables)
    /\ pc # "seed" => seeded = Len(tables)
    /\ pc = "seed" => out = << >>
    /\ pc = "done" => heap = << >>

\* The heap is one, and has no node of the table in hand and no smaller one.
HeapInv ==
    /\ Holds(heap, Range(heap)) /\ IsHeap(heap)
    /\ \A x \in Held : x \in HeapNode
    /\ \A x \in Held, y \in Range(heap) : y.table # x.table /\ x.key <= y.key

MergeInv ==
    /\ Phases
    /\ HeapInv
    /\ HandOK(tables, Hand, iters, seeded)
    /\ Fed(Hand, iters, seeded)
    /\ OutOK(tables, Hand, out)
    /\ Accounted(tables, Hand, iters, SettledKeys)

----------------------------------------------------------------------------
(* Records.                                                                *)

LEMMA EntryKeys ==
    ASSUME NEW q \in Seq(Entry), NEW i \in 1..Len(q)
    PROVE  q[i] \in Entry /\ q[i].key \in Key /\ q[i].key \in Nat /\ q[i].datum \in Datum
<1>1. q[i] \in Entry
  OBVIOUS
<1> QED
  BY <1>1, CompactionAssumption DEF Entry

\* A node for the first record of q, a record of table i; r is what is left.
First(x, q, r, i, b) ==
    /\ x \in HeapNode /\ x.table = i /\ b[x.key] = x.datum
    /\ KeysOf(q) = {x.key} \cup KeysOf(r)
    /\ \A k \in KeysOf(r) : x.key < k

\* next() on a sorted sequence.
LEMMA NextRecord ==
    ASSUME NEW b, NEW q, Sorted(q, b), q # << >>, NEW i \in Nat
    PROVE  /\ Sorted(Tail(q), b)
           /\ First([key |-> Head(q).key, datum |-> Head(q).datum, table |-> i], q, Tail(q), i, b)
<1> DEFINE n == Len(q)
           r == Tail(q)
           x == [key |-> Head(q).key, datum |-> Head(q).datum, table |-> i]
<1>1. /\ q \in Seq(Entry) /\ n \in Nat /\ n # 0 /\ 1 \in 1..n /\ Head(q) = q[1]
      /\ \A j \in 1..n : q[j].key \in Nat
  BY EntryKeys DEF Sorted
<1>2. r \in Seq(Entry) /\ Len(r) = n - 1 /\ \A j \in 1..(n - 1) : r[j] = q[j + 1] /\ j + 1 \in 1..n
  BY <1>1, TailAt
<1>3. x \in HeapNode /\ x.table = i /\ x.key = q[1].key /\ x.datum = q[1].datum
  BY <1>1, EntryKeys DEF HeapNode
<1>4. /\ \A j, l \in 1..n : j < l => q[j].key < q[l].key
      /\ \A j \in 1..n : b[q[j].key] = q[j].datum
  BY DEF Sorted, Increasing, Agrees
<1> HIDE DEF x, r, n
<1>5. Increasing(r)
  <2> SUFFICES ASSUME NEW j \in 1..(n - 1), NEW l \in 1..(n - 1), j < l PROVE r[j].key < r[l].key
    BY <1>2 DEF Increasing
  <2>1. j + 1 \in 1..n /\ l + 1 \in 1..n /\ j + 1 < l + 1
    BY <1>1, <1>2
  <2> QED
    BY <1>2, <1>4, <2>1
<1>6. Agrees(r, b)
  BY <1>2, <1>4 DEF Agrees
<1>7. KeysOf(q) = {q[1].key} \cup KeysOf(r)
  <2>1. ASSUME NEW j \in 1..n PROVE q[j].key \in {q[1].key} \cup KeysOf(r)
    <3>1. CASE j = 1
      BY <3>1
    <3>2. CASE j # 1
      <4>1. j - 1 \in 1..(n - 1) /\ j - 1 + 1 = j
        BY <1>1, <3>2
      <4>2. q[j] = r[j - 1]
        BY <1>2, <4>1
      <4> QED
        BY <1>2, <4>1, <4>2 DEF KeysOf
    <3> QED
      BY <3>1, <3>2
  <2>2. KeysOf(r) \subseteq KeysOf(q)
    BY <1>2 DEF KeysOf, n
  <2>3. q[1].key \in KeysOf(q)
    BY <1>1 DEF KeysOf, n
  <2>4. KeysOf(q) \subseteq {q[1].key} \cup KeysOf(r)
    BY <2>1 DEF KeysOf, n
  <2> QED
    BY <2>2, <2>3, <2>4
<1>8. ASSUME NEW k \in KeysOf(r) PROVE q[1].key < k
  <2>1. PICK j \in 1..(n - 1) : k = r[j].key
    BY <1>2 DEF KeysOf
  <2>2. j + 1 \in 1..n /\ 1 < j + 1 /\ k = q[j + 1].key
    BY <1>1, <1>2, <2>1
  <2> QED
    BY <1>1, <1>4, <2>2
<1>9. Sorted(r, b)
  BY <1>2, <1>5, <1>6 DEF Sorted
<1>10. First(x, q, r, i, b)
  BY <1>1, <1>3, <1>4, <1>7, <1>8 DEF First
<1> QED
  BY <1>9, <1>10 DEF x, r

\* The records of a block.
LEMMA RecordsSorted ==
    ASSUME NEW b \in Block
    PROVE  /\ Sorted(Records(b), b)
           /\ \A k \in Key : b[k] # Absent => k \in KeysOf(Records(b))
<1> DEFINE S == {k \in Key : b[k] # Absent}
           rank == [k \in S |-> k]
           keys == InOrder(S, rank)
           q == Records(b)
<1>1. /\ S \subseteq Key /\ \A k \in S : b[k] \in Datum /\ k \in Nat
      /\ \A k \in Key : b[k] # Absent => k \in S
  BY CompactionAssumption DEF Block
<1>2. q = [i \in DOMAIN keys |-> [key |-> keys[i], datum |-> b[keys[i]]]]
  BY DEF Records
<1>3. Ranked(S, rank)
  <2>1. IsFiniteSet(S)
    BY <1>1, TableAssumption, FS_Subset
  <2> QED
    BY <1>1, <2>1 DEF Ranked
<1>4. \A k \in S : rank[k] = k
  OBVIOUS
<1> HIDE DEF S, rank
<1>5. Lists(keys, S, rank)
  BY <1>3, InOrderLists
<1> HIDE DEF keys
<1>6. /\ keys \in Seq(S) /\ Len(keys) \in Nat /\ DOMAIN keys = 1..Len(keys)
      /\ \A i \in 1..Len(keys) : keys[i] \in S
  BY <1>5 DEF Lists
<1>7. \A i \in 1..Len(keys) : q[i] = [key |-> keys[i], datum |-> b[keys[i]]]
  BY <1>2, <1>6
<1>8. \A i \in 1..Len(keys) : q[i] \in Entry /\ q[i].key = keys[i] /\ q[i].datum = b[keys[i]]
  <2> SUFFICES ASSUME NEW i \in 1..Len(keys)
               PROVE  q[i] \in Entry /\ q[i].key = keys[i] /\ q[i].datum = b[keys[i]]
    OBVIOUS
  <2>1. keys[i] \in Key /\ b[keys[i]] \in Datum /\ q[i] = [key |-> keys[i], datum |-> b[keys[i]]]
    BY <1>1, <1>6, <1>7
  <2> HIDE DEF q
  <2> QED
    BY <2>1 DEF Entry
<1>9. DOMAIN q = 1..Len(keys) /\ q = [i \in 1..Len(keys) |-> q[i]]
  BY <1>2, <1>6
<1> HIDE DEF q
<1>10. q \in Seq(Entry) /\ Len(q) = Len(keys)
  BY <1>6, <1>8, <1>9
<1>11. Increasing(q)
  <2> SUFFICES ASSUME NEW i \in 1..Len(keys), NEW j \in 1..Len(keys), i < j PROVE q[i].key < q[j].key
    BY <1>10 DEF Increasing
  <2>1. rank[keys[i]] < rank[keys[j]]
    BY <1>5 DEF Lists
  <2> QED
    BY <1>4, <1>6, <1>8, <2>1
<1>12. Agrees(q, b)
  BY <1>8, <1>10 DEF Agrees
<1>13. ASSUME NEW k \in Key, b[k] # Absent PROVE k \in KeysOf(q)
  <2>1. k \in S
    BY <1>1, <1>13
  <2>2. PICK i \in 1..Len(keys) : keys[i] = k
    BY <1>5, <2>1 DEF Lists
  <2> QED
    BY <1>8, <1>10, <2>2 DEF KeysOf
<1> QED
  BY <1>10, <1>11, <1>12, <1>13 DEF Sorted, q

----------------------------------------------------------------------------
(* A table is asked for its next record.                                   *)

\* The nodes X that the next record of q makes, r the records left.
Asked(X, q, r, i, b) ==
    \/ X = {} /\ q = << >> /\ r = << >>
    \/ q # << >> /\ \E x : X = {x} /\ First(x, q, r, i, b)

AskedOf(X, i) == Asked(X, iters[i], iters'[i], i, tables[i])

\* The heap takes the node, only table i moves on.
LEMMA Ask ==
    ASSUME Phases, NEW i \in 1..Len(tables), NEW N, NEW h, Holds(h, N), IsHeap(h),
           \A y \in N : y.table # i, Advance(i)
    PROVE  /\ \E X : Holds(PushNext(h, i), N \cup X) /\ IsHeap(PushNext(h, i)) /\ AskedOf(X, i)
           /\ Sorted(iters'[i], tables[i])
           /\ DOMAIN iters' = 1..Len(tables)
           /\ \A j \in 1..Len(tables) : j # i => iters'[j] = iters[j]
<1> DEFINE q == iters[i]
           r == iters'[i]
           x == [key |-> Head(q).key, datum |-> Head(q).datum, table |-> i]
<1>1. Sorted(q, tables[i]) /\ DOMAIN iters = 1..Len(tables) /\ Len(tables) \in Nat /\ i \in Nat
  BY DEF Phases
<1>2. /\ r = (IF q = << >> THEN q ELSE Tail(q)) /\ DOMAIN iters' = 1..Len(tables)
      /\ \A j \in 1..Len(tables) : j # i => iters'[j] = iters[j]
  BY <1>1 DEF Advance
<1>3. CASE q = << >>
  <2>1. PushNext(h, i) = h /\ r = << >>
    BY <1>2, <1>3 DEF PushNext
  <2>2. Asked({}, q, r, i, tables[i]) /\ N \cup {} = N
    BY <1>3, <2>1 DEF Asked
  <2> QED
    BY <1>1, <1>2, <1>3, <2>1, <2>2 DEF AskedOf
<1>4. CASE q # << >>
  <2>1. PushNext(h, i) = heap_push(h, x) /\ r = Tail(q)
    BY <1>2, <1>4 DEF PushNext
  <2>2. Sorted(r, tables[i]) /\ First(x, q, r, i, tables[i])
    BY <1>1, <1>4, <2>1, NextRecord
  <2> HIDE DEF x
  <2>3. x \in HeapNode /\ \A y \in N : y.table # x.table
    BY <2>2 DEF First
  <2>4. Holds(heap_push(h, x), N \cup {x}) /\ IsHeap(heap_push(h, x))
    BY <2>3, HeapPush
  <2>5. Asked({x}, q, r, i, tables[i])
    BY <1>4, <2>2 DEF Asked
  <2> QED
    BY <1>2, <2>1, <2>2, <2>4, <2>5 DEF AskedOf
<1> QED
  BY <1>3, <1>4

\* The sequences keep their order.
LEMMA AskPhases ==
    ASSUME Phases, NEW i \in 1..Len(tables), UNCHANGED tables,
           Sorted(iters'[i], tables[i]), DOMAIN iters' = 1..Len(tables),
           \A j \in 1..Len(tables) : j # i => iters'[j] = iters[j]
    PROVE  /\ tables' \in Seq(Block) /\ Len(tables') # 0 /\ DOMAIN iters' = 1..Len(tables')
           /\ \A j \in 1..Len(tables') : Sorted(iters'[j], tables'[j])
BY DEF Phases

\* The node replaces those of its table: the nodes H become J, of the table i.
Replaced(H, J, X, i) == \A y : y \in J <=> (y \in H /\ y.table # i) \/ y \in X

\* The records left of table i change from it to jt.
Moved(it, jt, i, n) == \A j \in 1..n : j # i => jt[j] = it[j]

LEMMA AskHand ==
    ASSUME NEW T, NEW H, NEW J, NEW X, NEW it, NEW jt, NEW m \in Nat, NEW mm \in Nat, NEW i \in 1..mm,
           HandOK(T, H, it, m), Fed(H, it, m), Replaced(H, J, X, i), Moved(it, jt, i, mm),
           Asked(X, it[i], jt[i], i, T[i]), mm = m \/ (mm = m + 1 /\ i = mm)
    PROVE  HandOK(T, J, jt, mm) /\ Fed(J, jt, mm)
<1>1. \A j \in 1..mm : j # i => j \in 1..m
  OBVIOUS
<1>2. \A j \in 1..m : j \in 1..mm
  OBVIOUS
<1>3. ASSUME NEW y \in J
      PROVE  /\ y \in HeapNode /\ y.table \in 1..mm /\ T[y.table][y.key] = y.datum
             /\ \A k \in KeysOf(jt[y.table]) : y.key < k
  <2>1. CASE y \in H /\ y.table # i
    BY <1>2, <2>1 DEF HandOK, Moved
  <2>2. CASE y \in X
    <3>1. First(y, it[i], jt[i], i, T[i])
      BY <2>2 DEF Asked
    <3> QED
      BY <1>1, <3>1 DEF First
  <2> QED
    BY <2>1, <2>2 DEF Replaced
<1>4. ASSUME NEW j \in 1..mm, jt[j] # << >> PROVE \E y \in J : y.table = j
  <2>1. CASE j = i
    <3>1. PICK x : X = {x} /\ First(x, it[i], jt[i], i, T[i])
      BY <1>4, <2>1 DEF Asked
    <3>2. x \in J /\ x.table = i
      BY <3>1 DEF Replaced, First
    <3> QED
      BY <2>1, <3>2
  <2>2. CASE j # i
    <3>1. j \in 1..m /\ jt[j] = it[j]
      BY <1>1, <2>2 DEF Moved
    <3>2. PICK y \in H : y.table = j
      BY <1>4, <3>1 DEF Fed
    <3> QED
      BY <2>2, <3>2 DEF Replaced
  <2> QED
    BY <2>1, <2>2
<1> QED
  BY <1>3, <1>4 DEF HandOK, Fed

\* Nothing is lost, if the keys of the replaced nodes are settled.
LEMMA AskAccounted ==
    ASSUME NEW T, NEW H, NEW J, NEW X, NEW it, NEW jt, NEW i \in 1..Len(T), NEW D, NEW E,
           Accounted(T, H, it, D), Replaced(H, J, X, i), Moved(it, jt, i, Len(T)),
           Asked(X, it[i], jt[i], i, T[i]), D \subseteq E,
           \A y \in H : y.table = i => y.key \in E
    PROVE  Accounted(T, J, jt, E)
<1> SUFFICES ASSUME NEW j \in 1..Len(T), NEW k \in Key, T[j][k] # Absent
             PROVE  k \in KeysOf(jt[j]) \/ (\E x \in J : x.table = j /\ x.key = k) \/ k \in E
  BY DEF Accounted
<1>1. k \in KeysOf(it[j]) \/ (\E x \in H : x.table = j /\ x.key = k) \/ k \in D
  BY DEF Accounted
<1>2. CASE k \in KeysOf(it[j])
  <2>1. CASE j # i
    BY <1>2, <2>1 DEF Moved
  <2>2. CASE j = i
    <3>1. CASE it[i] = << >>
      BY <1>2, <2>2, <3>1 DEF Asked
    <3>2. CASE it[i] # << >>
      <4>1. PICK x : X = {x} /\ First(x, it[i], jt[i], i, T[i])
        BY <3>2 DEF Asked
      <4>2. x \in J /\ x.table = i /\ (k = x.key \/ k \in KeysOf(jt[i]))
        BY <1>2, <2>2, <4>1 DEF First, Replaced
      <4> QED
        BY <2>2, <4>2
    <3> QED
      BY <3>1, <3>2
  <2> QED
    BY <2>1, <2>2
<1>3. CASE \E x \in H : x.table = j /\ x.key = k
  <2>1. PICK x \in H : x.table = j /\ x.key = k
    BY <1>3
  <2>2. CASE j = i
    BY <2>1, <2>2
  <2>3. CASE j # i
    BY <2>1, <2>3 DEF Replaced
  <2> QED
    BY <2>2, <2>3
<1>4. CASE k \in D
  BY <1>4
<1> QED
  BY <1>1, <1>2, <1>3, <1>4

\* The written records stay before every node when the nodes only grow.
LEMMA OutBefore ==
    ASSUME NEW T, NEW H, NEW J, NEW o, OutOK(T, H, o), \A x \in H : x \in HeapNode,
           \A y \in J : y \in HeapNode /\ (y \in H \/ \E x \in H : x.key < y.key)
    PROVE  OutOK(T, J, o)
<1>1. \A y : y \in HeapNode => y.key \in Nat
  BY CompactionAssumption DEF HeapNode
<1>2. ASSUME NEW n \in 1..Len(o), NEW y \in J PROVE o[n].key < y.key
  <2>1. o[n].key \in Nat
    BY EntryKeys DEF OutOK
  <2>2. CASE y \in H
    BY <2>2 DEF OutOK
  <2>3. CASE \E x \in H : x.key < y.key
    <3>1. PICK x \in H : x.key < y.key
      BY <2>3
    <3>2. x.key \in Nat /\ y.key \in Nat /\ o[n].key < x.key
      BY <1>1 DEF OutOK
    <3> QED
      BY <2>1, <3>1, <3>2
  <2> QED
    BY <2>2, <2>3
<1> QED
  BY <1>2 DEF OutOK

\* A record of a node that came before the others is written.
LEMMA OutWritten ==
    ASSUME NEW T, NEW H, NEW J, NEW o, OutOK(T, H, o), OutOK(T, J, o), NEW s \in H, s \in HeapNode,
           NEW i \in 1..Len(T), T[i][s.key] = s.datum, s.datum # Tombstone,
           \A y \in J : s.key < y.key
    PROVE  /\ OutOK(T, J, Append(o, [key |-> s.key, datum |-> s.datum]))
           /\ KeysOf(Append(o, [key |-> s.key, datum |-> s.datum])) = KeysOf(o) \cup {s.key}
<1> DEFINE e == [key |-> s.key, datum |-> s.datum]
           p == Append(o, e)
           n == Len(o)
<1>1. e \in Entry /\ e.key = s.key /\ e.datum = s.datum
  BY DEF HeapNode, Entry
<1>2. o \in Seq(Entry) /\ n \in Nat
  BY DEF OutOK
<1> HIDE DEF e
<1>3. /\ p \in Seq(Entry) /\ Len(p) = n + 1 /\ p[n + 1] = e
      /\ \A j \in 1..n : p[j] = o[j]
  BY <1>1, <1>2
<1>4. \A j \in 1..(n + 1) : j \in 1..n \/ j = n + 1
  BY <1>2
<1>5. n + 1 \in 1..(n + 1) /\ \A j \in 1..n : j \in 1..(n + 1)
  BY <1>2
<1> HIDE DEF p, n
<1>6. Increasing(p)
  <2> SUFFICES ASSUME NEW j \in 1..(n + 1), NEW l \in 1..(n + 1), j < l PROVE p[j].key < p[l].key
    BY <1>3 DEF Increasing
  <2>1. j \in 1..n
    BY <1>2
  <2>2. CASE l \in 1..n
    BY <1>3, <2>1, <2>2 DEF OutOK, Increasing, n
  <2>3. CASE l = n + 1
    BY <1>1, <1>3, <2>1, <2>3 DEF OutOK, n
  <2> QED
    BY <1>4, <2>2, <2>3
<1>7. ASSUME NEW j \in 1..(n + 1)
      PROVE  /\ p[j].datum # Tombstone
             /\ \E l \in 1..Len(T) : T[l][p[j].key] = p[j].datum
             /\ \A x \in J : p[j].key < x.key
  <2>1. CASE j \in 1..n
    BY <1>3, <2>1 DEF OutOK, n
  <2>2. CASE j = n + 1
    BY <1>1, <1>3, <2>2
  <2> QED
    BY <1>4, <2>1, <2>2
<1>8. KeysOf(p) = KeysOf(o) \cup {s.key}
  <2>1. KeysOf(o) \subseteq KeysOf(p)
    BY <1>3, <1>5 DEF KeysOf, n
  <2>2. s.key \in KeysOf(p)
    BY <1>1, <1>3, <1>5 DEF KeysOf
  <2>3. ASSUME NEW j \in 1..(n + 1) PROVE p[j].key \in KeysOf(o) \cup {s.key}
    <3>1. CASE j \in 1..n
      BY <1>3, <3>1 DEF KeysOf, n
    <3>2. CASE j = n + 1
      BY <1>1, <1>3, <3>2
    <3> QED
      BY <1>4, <3>1, <3>2
  <2>4. KeysOf(p) \subseteq KeysOf(o) \cup {s.key}
    BY <1>3, <2>3 DEF KeysOf
  <2> QED
    BY <2>1, <2>2, <2>4
<1>9. OutOK(T, J, p)
  BY <1>3, <1>6, <1>7 DEF OutOK
<1> QED
  BY <1>8, <1>9 DEF p, e

\* No two nodes of a heap are of one table.
LEMMA OnePerTable ==
    ASSUME NEW N, NEW h, Holds(h, N), NEW x \in N, NEW y \in N, x.table = y.table
    PROVE  x = y
<1>1. DOMAIN h = 1..Len(h)
  BY DEF Holds
<1>2. PICK i \in 1..Len(h) : x = h[i]
  BY <1>1 DEF Holds, Range
<1>3. PICK j \in 1..Len(h) : y = h[j]
  BY <1>1 DEF Holds, Range
<1> QED
  BY <1>2, <1>3 DEF Holds, Distinct

LEMMA HoldsRange ==
    ASSUME NEW N, NEW h, Holds(h, N)
    PROVE  Range(h) = N
BY DEF Holds

----------------------------------------------------------------------------
(* The invariant holds at the start, and every step keeps it.              *)

LEMMA TablesInit ==
    ASSUME Init
    PROVE  tables \in Seq(Block) /\ Len(tables) # 0
<1>1. PICK n \in 1..MaxTables : \E kind \in [(1..n) \X Key -> Kind] :
        tables = [i \in 1..n |-> [k \in Key |->
            IF kind[i, k] \in Value THEN n - i + 1 ELSE kind[i, k]]]
  BY DEF Init
<1>2. PICK kind \in [(1..n) \X Key -> Kind] :
        tables = [i \in 1..n |-> [k \in Key |->
            IF kind[i, k] \in Value THEN n - i + 1 ELSE kind[i, k]]]
  BY <1>1
<1>3. n \in Nat /\ n # 0
  BY CompactionAssumption
<1>4. ASSUME NEW i \in 1..n, NEW k \in Key
      PROVE  (IF kind[i, k] \in Value THEN n - i + 1 ELSE kind[i, k]) \in Datum \cup {Absent}
  <2>1. kind[i, k] \in Kind
    BY <1>2
  <2>2. n - i + 1 \in Value
    BY <1>3 DEF Value
  <2>3. kind[i, k] = 1 \/ kind[i, k] = Tombstone \/ kind[i, k] = Absent
    BY <2>1 DEF Kind
  <2>4. 1 \in Value
    BY DEF Value
  <2> QED
    BY <2>2, <2>3, <2>4 DEF Datum
<1>5. ASSUME NEW i \in 1..n PROVE tables[i] \in Block
  <2>1. tables[i] = [k \in Key |-> IF kind[i, k] \in Value THEN n - i + 1 ELSE kind[i, k]]
    BY <1>2
  <2> QED
    BY <1>4, <2>1 DEF Block
<1>6. DOMAIN tables = 1..n /\ tables = [i \in 1..n |-> tables[i]]
  BY <1>2
<1> QED
  BY <1>3, <1>5, <1>6

LEMMA EmptyHeap == Holds(<< >>, {}) /\ IsHeap(<< >>) /\ Range(<< >>) = {}
BY DEF Holds, Distinct, IsHeap, Range

LEMMA MergeInit == Init => MergeInv
<1> SUFFICES ASSUME Init PROVE MergeInv
  OBVIOUS
<1>1. /\ tables \in Seq(Block) /\ Len(tables) # 0 /\ Len(tables) \in Nat /\ DOMAIN tables = 1..Len(tables)
      /\ \A i \in 1..Len(tables) : tables[i] \in Block
  BY TablesInit
<1>2. /\ iters = [i \in DOMAIN tables |-> Records(tables[i])]
      /\ heap = << >> /\ out = << >> /\ seeded = 0 /\ pc = "seed"
  BY DEF Init
<1>3. DOMAIN iters = 1..Len(tables) /\ \A i \in 1..Len(tables) : iters[i] = Records(tables[i])
  BY <1>1, <1>2
<1>4. Held = {} /\ Hand = {} /\ Range(heap) = {}
  BY <1>2, EmptyHeap DEF Held, Hand
<1>5. Phases
  BY <1>1, <1>2, <1>3, RecordsSorted DEF Phases
<1>6. HeapInv
  BY <1>2, <1>4, EmptyHeap DEF HeapInv
<1>7. HandOK(tables, Hand, iters, seeded)
  BY <1>4 DEF HandOK
<1>8. Fed(Hand, iters, seeded)
  BY <1>2 DEF Fed
<1>9. OutOK(tables, Hand, out)
  BY <1>2 DEF OutOK, Increasing
<1>10. Accounted(tables, Hand, iters, SettledKeys)
  BY <1>1, <1>3, RecordsSorted DEF Accounted
<1> QED
  BY <1>5, <1>6, <1>7, <1>8, <1>9, <1>10 DEF MergeInv

LEMMA MergeSeed ==
    ASSUME MergeInv, Seed
    PROVE  MergeInv'
<1> DEFINE i == seeded + 1
           N == Range(heap)
<1>1. /\ Phases /\ HeapInv /\ HandOK(tables, Hand, iters, seeded) /\ Fed(Hand, iters, seeded)
      /\ Accounted(tables, Hand, iters, SettledKeys)
  BY DEF MergeInv
<1>2. /\ pc = "seed" /\ heap' = PushNext(heap, i) /\ Advance(i) /\ seeded' = i
      /\ pc' = (IF i = Len(tables) THEN "pop" ELSE "seed")
      /\ UNCHANGED << tables, smallest, out >>
  BY DEF Seed
<1>3. seeded \in Nat /\ Len(tables) \in Nat /\ i \in 1..Len(tables) /\ i \in Nat /\ out = << >>
  BY <1>1, <1>2 DEF Phases
<1>4. Held = {} /\ Held' = {} /\ Hand = N /\ Hand' = Range(heap')
  BY <1>2 DEF Held, Hand
<1>5. Holds(heap, N) /\ IsHeap(heap) /\ \A y \in N : y.table # i
  BY <1>1, <1>3, <1>4 DEF HeapInv, HandOK
<1> HIDE DEF i, N
<1>6. PICK X : Holds(heap', N \cup X) /\ IsHeap(heap') /\ AskedOf(X, i)
  BY <1>1, <1>2, <1>3, <1>5, Ask
<1>7. /\ Sorted(iters'[i], tables[i]) /\ DOMAIN iters' = 1..Len(tables)
      /\ \A j \in 1..Len(tables) : j # i => iters'[j] = iters[j]
  BY <1>1, <1>2, <1>3, <1>5, Ask
<1>8. Range(heap') = N \cup X
  BY <1>6, HoldsRange
<1>9. Replaced(Hand, Hand', X, i)
  BY <1>4, <1>5, <1>8 DEF Replaced
<1>10. Phases'
  <2>1. /\ tables' \in Seq(Block) /\ Len(tables') # 0 /\ DOMAIN iters' = 1..Len(tables')
        /\ \A j \in 1..Len(tables') : Sorted(iters'[j], tables'[j])
    BY <1>1, <1>2, <1>3, <1>7, AskPhases
  <2>2. i \in 0..Len(tables)
    BY <1>3
  <2> QED
    BY <1>2, <1>3, <2>1, <2>2 DEF Phases
<1>11. HeapInv'
  BY <1>4, <1>6, <1>8 DEF HeapInv
<1>12. HandOK(tables', Hand', iters', seeded') /\ Fed(Hand', iters', seeded')
  <2>1. Moved(iters, iters', i, i) /\ i \in 1..i /\ i = seeded + 1
    BY <1>3, <1>7 DEF Moved, i
  <2>2. HandOK(tables, Hand', iters', i) /\ Fed(Hand', iters', i)
    BY <1>1, <1>3, <1>6, <1>9, <2>1, AskHand DEF AskedOf
  <2> QED
    BY <1>2, <2>2
<1>13. OutOK(tables', Hand', out')
  BY <1>2, <1>3 DEF OutOK, Increasing
<1>14. Accounted(tables', Hand', iters', SettledKeys')
  <2>1. SettledKeys' = SettledKeys
    BY <1>2, <1>4 DEF SettledKeys
  <2>2. Moved(iters, iters', i, Len(tables))
    BY <1>7 DEF Moved
  <2>3. Accounted(tables, Hand', iters', SettledKeys)
    BY <1>1, <1>3, <1>4, <1>5, <1>6, <1>9, <2>2, AskAccounted DEF AskedOf
  <2> QED
    BY <1>2, <2>1, <2>3
<1> QED
  BY <1>10, <1>11, <1>12, <1>13, <1>14 DEF MergeInv

LEMMA MergePop ==
    ASSUME MergeInv, Pop
    PROVE  MergeInv'
<1> DEFINE x == Head(heap)
           N == Range(heap)
<1>1. /\ Phases /\ HeapInv /\ HandOK(tables, Hand, iters, seeded) /\ Fed(Hand, iters, seeded)
      /\ OutOK(tables, Hand, out) /\ Accounted(tables, Hand, iters, SettledKeys)
  BY DEF MergeInv
<1>2. /\ pc = "pop" /\ heap # << >> /\ smallest' = x /\ heap' = heap_pop(heap) /\ pc' = "clear"
      /\ UNCHANGED << tables, iters, out, seeded >>
  BY DEF Pop
<1>3. Holds(heap, N) /\ IsHeap(heap)
  BY <1>1 DEF HeapInv
<1> HIDE DEF N, x
<1>4. Holds(heap', N \ {x}) /\ IsHeap(heap') /\ x \in N /\ x \in HeapNode
  BY <1>2, <1>3, HeapPop DEF x
<1>5. \A y \in N : x.key <= y.key
  BY <1>2, <1>3, HeapTop DEF x
<1>6. Range(heap') = N \ {x}
  BY <1>4, HoldsRange
<1>7. Held = {} /\ Held' = {x} /\ Hand = N /\ Hand' = N
  BY <1>2, <1>4, <1>6 DEF Held, Hand, N
<1>8. Phases'
  BY <1>1, <1>2 DEF Phases
<1>9. HeapInv'
  <2>1. \A y \in N \ {x} : y.table # x.table
    BY <1>3, <1>4, OnePerTable
  <2> QED
    BY <1>4, <1>5, <1>6, <1>7, <2>1 DEF HeapInv
<1>10. SettledKeys \subseteq SettledKeys'
  BY <1>2, <1>7 DEF SettledKeys
<1>11. Accounted(tables', Hand', iters', SettledKeys')
  <2>1. Accounted(tables, Hand, iters, SettledKeys')
    BY <1>1, <1>10 DEF Accounted
  <2> QED
    BY <1>2, <1>7, <2>1
<1> QED
  BY <1>1, <1>2, <1>7, <1>8, <1>9, <1>11 DEF MergeInv

LEMMA MergeClear ==
    ASSUME MergeInv, Clear
    PROVE  MergeInv'
<1> DEFINE z == Head(heap)
           s == smallest
           i == z.table
           N == Range(heap)
           M == N \ {z}
<1>1. /\ Phases /\ HeapInv /\ HandOK(tables, Hand, iters, seeded) /\ Fed(Hand, iters, seeded)
      /\ OutOK(tables, Hand, out) /\ Accounted(tables, Hand, iters, SettledKeys)
  BY DEF MergeInv
<1>2. /\ pc = "clear" /\ heap # << >> /\ z.key = s.key /\ heap' = PushNext(heap_pop(heap), i)
      /\ Advance(i) /\ UNCHANGED << tables, smallest, out, pc, seeded >>
  BY DEF Clear, Duplicate
<1>3. Held = {s} /\ Held' = {s} /\ Hand = N \cup {s} /\ Hand' = Range(heap') \cup {s}
  BY <1>2 DEF Held, Hand
<1>4. /\ Holds(heap, N) /\ IsHeap(heap) /\ s \in HeapNode
      /\ \A y \in N : y.table # s.table /\ s.key <= y.key
  BY <1>1, <1>3 DEF HeapInv
<1> HIDE DEF N, z, i
<1>5. Holds(heap_pop(heap), M) /\ IsHeap(heap_pop(heap)) /\ z \in N /\ z \in HeapNode
  BY <1>2, <1>4, HeapPop DEF z
<1>6. i \in 1..Len(tables) /\ seeded = Len(tables) /\ Len(tables) \in Nat /\ i = z.table
  BY <1>1, <1>2, <1>3, <1>5 DEF HandOK, Phases, i
<1>7. \A y \in M : y.table # i
  BY <1>4, <1>5, OnePerTable DEF i
<1>8. PICK X : Holds(heap', M \cup X) /\ IsHeap(heap') /\ AskedOf(X, i)
  <2> HIDE DEF M
  <2> QED
    BY <1>1, <1>2, <1>5, <1>6, <1>7, Ask
<1>9. /\ Sorted(iters'[i], tables[i]) /\ DOMAIN iters' = 1..Len(tables)
      /\ \A j \in 1..Len(tables) : j # i => iters'[j] = iters[j]
  <2> HIDE DEF M
  <2> QED
    BY <1>1, <1>2, <1>5, <1>6, <1>7, Ask
<1>10. Range(heap') = M \cup X
  BY <1>8, HoldsRange
<1>11. Replaced(Hand, Hand', X, i)
  BY <1>3, <1>4, <1>5, <1>6, <1>7, <1>10 DEF Replaced
<1>12. \A x \in X : x \in HeapNode /\ x.table = i /\ z.key < x.key
  <2> SUFFICES ASSUME NEW x \in X PROVE x \in HeapNode /\ x.table = i /\ z.key < x.key
    OBVIOUS
  <2>1. First(x, iters[i], iters'[i], i, tables[i])
    BY <1>8 DEF AskedOf, Asked
  <2>2. x.key \in KeysOf(iters[i])
    BY <2>1 DEF First
  <2> QED
    BY <1>1, <1>3, <1>5, <1>6, <2>1, <2>2 DEF HandOK, First
<1>13. Phases'
  <2>1. /\ tables' \in Seq(Block) /\ Len(tables') # 0 /\ DOMAIN iters' = 1..Len(tables')
        /\ \A j \in 1..Len(tables') : Sorted(iters'[j], tables'[j])
    BY <1>1, <1>2, <1>6, <1>9, AskPhases
  <2> QED
    BY <1>1, <1>2, <2>1 DEF Phases
<1>14. HeapInv'
  <2>1. ASSUME NEW y \in M \cup X PROVE y.table # s.table /\ s.key <= y.key
    <3>1. CASE y \in M
      BY <1>4, <3>1
    <3>2. CASE y \in X
      <4>1. s.key \in Nat /\ y.key \in Nat /\ s.key < y.key
        BY <1>2, <1>4, <1>12, <3>2, CompactionAssumption DEF HeapNode
      <4>2. i # s.table
        BY <1>4, <1>5, <1>6
      <4> QED
        BY <1>12, <3>2, <4>1, <4>2
    <3> QED
      BY <2>1, <3>1, <3>2
  <2> QED
    BY <1>2, <1>3, <1>4, <1>8, <1>10, <2>1 DEF HeapInv
<1>15. HandOK(tables', Hand', iters', seeded') /\ Fed(Hand', iters', seeded')
  <2>1. Moved(iters, iters', i, seeded) /\ i \in 1..seeded /\ seeded \in Nat
    BY <1>6, <1>9 DEF Moved
  <2>2. HandOK(tables, Hand', iters', seeded) /\ Fed(Hand', iters', seeded)
    BY <1>1, <1>8, <1>11, <2>1, AskHand DEF AskedOf
  <2> QED
    BY <1>2, <2>2
<1>16. OutOK(tables', Hand', out')
  <2>1. \A y \in Hand : y \in HeapNode
    BY <1>1 DEF HandOK
  <2>2. ASSUME NEW y \in Hand' PROVE y \in HeapNode /\ (y \in Hand \/ \E x \in Hand : x.key < y.key)
    BY <1>3, <1>5, <1>10, <1>12, <2>1
  <2>3. OutOK(tables, Hand', out)
    BY <1>1, <2>1, <2>2, OutBefore
  <2> QED
    BY <1>2, <2>3
<1>17. Accounted(tables', Hand', iters', SettledKeys')
  <2>1. SettledKeys' = SettledKeys /\ s.key \in SettledKeys
    BY <1>2, <1>3 DEF SettledKeys
  <2>2. Moved(iters, iters', i, Len(tables))
    BY <1>9 DEF Moved
  <2>3. \A y \in Hand : y.table = i => y.key \in SettledKeys
    BY <1>2, <1>3, <1>4, <1>5, <1>6, <1>7, <2>1
  <2>4. Accounted(tables, Hand', iters', SettledKeys)
    BY <1>1, <1>6, <1>8, <1>11, <2>2, <2>3, AskAccounted DEF AskedOf
  <2> QED
    BY <1>2, <2>1, <2>4
<1> QED
  BY <1>13, <1>14, <1>15, <1>16, <1>17 DEF MergeInv

LEMMA MergeEmit ==
    ASSUME MergeInv, Emit
    PROVE  MergeInv'
<1> DEFINE s == smallest
           i == s.table
           N == Range(heap)
<1>1. /\ Phases /\ HeapInv /\ HandOK(tables, Hand, iters, seeded) /\ Fed(Hand, iters, seeded)
      /\ OutOK(tables, Hand, out) /\ Accounted(tables, Hand, iters, SettledKeys)
  BY DEF MergeInv
<1>2. /\ pc = "clear" /\ heap' = PushNext(heap, i) /\ Advance(i) /\ pc' = "pop"
      /\ out' = (IF s.datum = Tombstone THEN out ELSE Append(out, [key |-> s.key, datum |-> s.datum]))
      /\ UNCHANGED << tables, smallest, seeded >> /\ ~(heap # << >> /\ Head(heap).key = s.key)
  BY DEF Emit, Duplicate
<1>3. Held = {s} /\ Held' = {} /\ Hand = N \cup {s} /\ Hand' = Range(heap')
  BY <1>2 DEF Held, Hand
<1>4. /\ Holds(heap, N) /\ IsHeap(heap) /\ s \in HeapNode
      /\ \A y \in N : y.table # i /\ s.key <= y.key
  BY <1>1, <1>3 DEF HeapInv
<1>5. \A y \in N : s.key < y.key
  <2> SUFFICES ASSUME NEW y \in N PROVE s.key < y.key
    OBVIOUS
  <2>1. heap # << >>
    BY EmptyHeap
  <2>2. Head(heap) \in N /\ Head(heap) \in HeapNode /\ Head(heap).key <= y.key
    BY <1>4, <2>1, HeapPop, HeapTop
  <2>3. y \in HeapNode
    BY <1>1, <1>3 DEF HandOK
  <2>4. s.key \in Nat /\ y.key \in Nat /\ Head(heap).key \in Nat
    BY <1>4, <2>2, <2>3, CompactionAssumption DEF HeapNode
  <2>5. s.key <= Head(heap).key /\ Head(heap).key # s.key
    BY <1>2, <1>4, <2>1, <2>2
  <2> QED
    BY <2>2, <2>4, <2>5
<1>6. /\ i \in 1..Len(tables) /\ seeded = Len(tables) /\ Len(tables) \in Nat
      /\ tables[i][s.key] = s.datum /\ \A k \in KeysOf(iters[i]) : s.key < k
  BY <1>1, <1>2, <1>3 DEF HandOK, Phases
<1> HIDE DEF N
<1>8. PICK X : Holds(heap', N \cup X) /\ IsHeap(heap') /\ AskedOf(X, i)
  BY <1>1, <1>2, <1>4, <1>6, Ask
<1>9. /\ Sorted(iters'[i], tables[i]) /\ DOMAIN iters' = 1..Len(tables)
      /\ \A j \in 1..Len(tables) : j # i => iters'[j] = iters[j]
  BY <1>1, <1>2, <1>4, <1>6, Ask
<1>10. Range(heap') = N \cup X
  BY <1>8, HoldsRange
<1>11. Replaced(Hand, Hand', X, i)
  BY <1>3, <1>4, <1>10 DEF Replaced
<1>12. \A x \in X : x \in HeapNode /\ s.key < x.key
  <2> SUFFICES ASSUME NEW x \in X PROVE x \in HeapNode /\ s.key < x.key
    OBVIOUS
  <2>1. First(x, iters[i], iters'[i], i, tables[i])
    BY <1>8 DEF AskedOf, Asked
  <2> QED
    BY <1>6, <2>1 DEF First
<1>13. Phases'
  <2>1. /\ tables' \in Seq(Block) /\ Len(tables') # 0 /\ DOMAIN iters' = 1..Len(tables')
        /\ \A j \in 1..Len(tables') : Sorted(iters'[j], tables'[j])
    BY <1>1, <1>2, <1>6, <1>9, AskPhases
  <2> QED
    BY <1>1, <1>2, <2>1 DEF Phases
<1>14. HeapInv'
  BY <1>3, <1>8, <1>10 DEF HeapInv
<1>15. HandOK(tables', Hand', iters', seeded') /\ Fed(Hand', iters', seeded')
  <2>1. Moved(iters, iters', i, seeded) /\ i \in 1..seeded /\ seeded \in Nat
    BY <1>6, <1>9 DEF Moved
  <2>2. HandOK(tables, Hand', iters', seeded) /\ Fed(Hand', iters', seeded)
    BY <1>1, <1>8, <1>11, <2>1, AskHand DEF AskedOf
  <2> QED
    BY <1>2, <2>2
<1>16. \A y \in Hand' : y \in HeapNode /\ s.key < y.key
  BY <1>1, <1>3, <1>5, <1>10, <1>12 DEF HandOK
<1>17. OutOK(tables, Hand', out) /\ s \in Hand
  <2>1. \A y \in Hand : y \in HeapNode
    BY <1>1 DEF HandOK
  <2> QED
    BY <1>1, <1>3, <1>16, <2>1, OutBefore
<1>18. OutOK(tables', Hand', out') /\ SettledKeys \subseteq SettledKeys'
  <2>1. CASE s.datum = Tombstone
    <3>1. s.key \in Dropped(tables)
      BY <1>4, <1>6, <2>1 DEF Dropped, HeapNode
    <3> QED
      BY <1>2, <1>3, <1>17, <2>1, <3>1 DEF SettledKeys
  <2>2. CASE s.datum # Tombstone
    <3>1. OutOK(tables, Hand', out') /\ KeysOf(out') = KeysOf(out) \cup {s.key}
      BY <1>1, <1>2, <1>4, <1>6, <1>16, <1>17, <2>2, OutWritten
    <3> QED
      BY <1>2, <1>3, <3>1 DEF SettledKeys
  <2> QED
    BY <2>1, <2>2
<1>19. Accounted(tables', Hand', iters', SettledKeys')
  <2>1. s.key \in SettledKeys
    BY <1>3 DEF SettledKeys
  <2>2. Moved(iters, iters', i, Len(tables))
    BY <1>9 DEF Moved
  <2>3. \A y \in Hand : y.table = i => y.key \in SettledKeys'
    BY <1>3, <1>4, <1>18, <2>1
  <2>4. Accounted(tables, Hand', iters', SettledKeys')
    BY <1>1, <1>6, <1>8, <1>11, <1>18, <2>2, <2>3, AskAccounted DEF AskedOf
  <2> QED
    BY <1>2, <2>4
<1> QED
  BY <1>13, <1>14, <1>15, <1>18, <1>19 DEF MergeInv

LEMMA MergeStops ==
    ASSUME MergeInv, Finish \/ UNCHANGED vars
    PROVE  MergeInv'
<1>1. CASE UNCHANGED vars
  BY <1>1 DEF MergeInv, Phases, HeapInv, Hand, Held, SettledKeys, vars
<1>2. CASE Finish
  <2>1. /\ pc = "pop" /\ pc' = "done" /\ heap = << >>
        /\ UNCHANGED << tables, iters, heap, smallest, out, seeded >>
    BY <1>2 DEF Finish
  <2>2. Held = {} /\ Held' = {} /\ Hand' = Hand /\ SettledKeys' = SettledKeys
    BY <2>1 DEF Held, Hand, SettledKeys
  <2>3. Phases'
    BY <2>1 DEF MergeInv, Phases
  <2>4. HeapInv'
    BY <2>1, <2>2 DEF MergeInv, HeapInv
  <2> QED
    BY <2>1, <2>2, <2>3, <2>4 DEF MergeInv
<1> QED
  BY <1>1, <1>2

\* run_compaction keeps the heap a heap with one node per table, loses no
\* record and writes in key order: MergeInv, whose parts say so, holds in
\* every reachable state.
THEOREM MergeInvariant == Spec => []MergeInv
<1>1. MergeInv /\ [Next]_vars => MergeInv'
  <2> SUFFICES ASSUME MergeInv, [Next]_vars PROVE MergeInv'
    OBVIOUS
  <2>1. CASE Seed
    BY <2>1, MergeSeed
  <2>2. CASE Pop
    BY <2>2, MergePop
  <2>3. CASE Clear
    BY <2>3, MergeClear
  <2>4. CASE Emit
    BY <2>4, MergeEmit
  <2>5. CASE Finish \/ Done \/ UNCHANGED vars
    BY <2>5, MergeStops DEF Done
  <2> QED
    BY <2>1, <2>2, <2>3, <2>4, <2>5 DEF Next, Step
<1> QED
  BY <1>1, MergeInit, PTL DEF Spec

----------------------------------------------------------------------------
(* What follows.                                                           *)

LEMMA InvSorted == MergeInv => OutputSorted
<1> SUFFICES ASSUME MergeInv PROVE OutputSorted
  OBVIOUS
<1>1. out \in Seq(Entry) /\ Increasing(out)
  BY DEF MergeInv, OutOK
<1>2. DOMAIN out = 1..Len(out)
  BY <1>1
<1> QED
  BY <1>1, <1>2 DEF OutputSorted, Increasing

\* run_compaction pushes its records to the writer in strictly increasing
\* key order, whatever the tables: also among equal keys of several tables
\* the heap's key-only order never brings a key back.
THEOREM WritesSorted == Spec => []OutputSorted
BY MergeInvariant, InvSorted, PTL

LEMMA InvOneNode == MergeInv => OneNodePerTable
<1> SUFFICES ASSUME MergeInv, pc \in {"pop", "clear"}, NEW i \in DOMAIN tables
             PROVE  LET n == Cardinality({j \in DOMAIN heap : heap[j].table = i})
                               + (IF pc = "clear" /\ smallest.table = i THEN 1 ELSE 0)
                    IN  n <= 1 /\ (iters[i] # << >> => n = 1)
  BY DEF OneNodePerTable
<1> DEFINE P == {j \in DOMAIN heap : heap[j].table = i}
           c == Cardinality(P)
           e == IF pc = "clear" /\ smallest.table = i THEN 1 ELSE 0
<1>1. /\ i \in 1..Len(tables) /\ seeded = Len(tables)
  BY DEF MergeInv, Phases
<1>2. /\ Holds(heap, Range(heap)) /\ DOMAIN heap = 1..Len(heap)
      /\ \A x \in Held, y \in Range(heap) : y.table # x.table
  BY DEF MergeInv, HeapInv, Holds
<1>3. \A j, l \in P : j = l
  BY <1>2 DEF Holds, Distinct
<1>4. (P = {} /\ c = 0) \/ (P # {} /\ c = 1)
  <2>1. CASE P = {}
    BY <2>1, FS_EmptySet
  <2>2. CASE P # {}
    <3>1. PICK j : j \in P
      BY <2>2
    <3>2. P = {j}
      BY <1>3, <3>1
    <3>3. Cardinality({j}) = 1
      BY FS_Singleton
    <3> QED
      BY <2>2, <3>2, <3>3
  <2> QED
    BY <2>1, <2>2
<1>5. P # {} => e = 0
  <2> SUFFICES ASSUME NEW j \in P, pc = "clear", smallest.table = i PROVE FALSE
    OBVIOUS
  <2>1. heap[j] \in Range(heap) /\ smallest \in Held /\ heap[j].table = i
    BY DEF Range, Held
  <2> QED
    BY <1>2, <2>1
<1>6. e = 0 \/ e = 1
  OBVIOUS
<1>7. ASSUME iters[i] # << >> PROVE P # {} \/ e = 1
  <2>1. PICK x \in Hand : x.table = i
    BY <1>1, <1>7 DEF MergeInv, Fed
  <2>2. CASE x \in Range(heap)
    BY <2>1, <2>2 DEF Range
  <2>3. CASE x \in Held
    BY <2>1, <2>3 DEF Held
  <2> QED
    BY <2>1, <2>2, <2>3 DEF Hand
<1> HIDE DEF P, e, c
<1>8. c + e <= 1 /\ (iters[i] # << >> => c + e = 1)
  BY <1>4, <1>5, <1>6, <1>7
<1> QED
  BY <1>8 DEF P, c, e

\* While it merges, each table with records left has exactly one node in the
\* BinaryHeap or in hand, so no table is left behind and the heap never has
\* more nodes than there are tables.
THEOREM OneNodeEach == Spec => []OneNodePerTable
BY MergeInvariant, InvOneNode, PTL

\* What a key has in the written table.
LEMMA OutBlockAt ==
    ASSUME NEW k \in Key, out \in Seq(Entry)
    PROVE  \/ k \notin KeysOf(out) /\ OutBlock[k] = Absent
           \/ \E n \in 1..Len(out) : out[n].key = k /\ OutBlock[k] = out[n].datum
<1> DEFINE I == {n \in 1..Len(out) : out[n].key = k}
<1>0. I # {} => Min(I) \in I /\ Min(I) \in 1..Len(out)
  <2>1. I \in SUBSET Nat /\ I \subseteq 1..Len(out)
    OBVIOUS
  <2> HIDE DEF I
  <2> QED
    BY <2>1, MinExists
<1>1. OutBlock[k] = IF I = {} THEN Absent ELSE out[Min(I)].datum
  BY <1>0 DEF OutBlock, SelectInSeq
<1>2. CASE I = {}
  BY <1>1, <1>2 DEF KeysOf
<1>3. CASE I # {}
  BY <1>0, <1>1, <1>3
<1> QED
  BY <1>2, <1>3

\* What one table says of a key is what Merges may keep.
Kept(m, k) ==
    IF Holders(tables, k) = {} THEN m[k] = Absent
    ELSE \E i \in Holders(tables, k) :
            m[k] = IF tables[i][k] = Tombstone THEN Absent ELSE tables[i][k]

LEMMA InvMerged == MergeInv => MergeOfTables
<1> SUFFICES ASSUME MergeInv, pc = "done" PROVE OutBlock \in Merges(tables)
  BY DEF MergeOfTables
<1>1. /\ tables \in Seq(Block) /\ DOMAIN tables = 1..Len(tables) /\ heap = << >> /\ seeded = Len(tables)
      /\ out \in Seq(Entry)
  BY DEF MergeInv, Phases, OutOK
<1>2. Hand = {} /\ Held = {}
  BY <1>1, EmptyHeap DEF Hand, Held
<1>3. \A i \in 1..Len(tables) : KeysOf(iters[i]) = {}
  <2> SUFFICES ASSUME NEW i \in 1..Len(tables) PROVE KeysOf(iters[i]) = {}
    OBVIOUS
  <2>1. iters[i] = << >>
    BY <1>1, <1>2 DEF MergeInv, Fed
  <2> QED
    BY <2>1 DEF KeysOf
<1>4. ASSUME NEW k \in Key, NEW i \in Holders(tables, k)
      PROVE  k \in KeysOf(out) \/ \E j \in 1..Len(tables) : tables[j][k] = Tombstone
  <2>1. i \in 1..Len(tables) /\ tables[i][k] # Absent
    BY <1>1 DEF Holders
  <2>2. k \in SettledKeys
    BY <1>2, <1>3, <2>1 DEF MergeInv, Accounted
  <2> QED
    BY <1>2, <2>2 DEF SettledKeys, Dropped
<1>5. ASSUME NEW n \in 1..Len(out)
      PROVE  /\ out[n].datum # Tombstone /\ out[n].datum # Absent
             /\ \E j \in 1..Len(tables) : tables[j][out[n].key] = out[n].datum
  <2>1. out[n].datum \in Datum
    BY <1>1, EntryKeys
  <2> QED
    BY <2>1, TableAssumption DEF MergeInv, OutOK, Datum
<1>6. ASSUME NEW k \in Key PROVE Kept(OutBlock, k)
  <2>1. CASE \E n \in 1..Len(out) : out[n].key = k /\ OutBlock[k] = out[n].datum
    <3>1. PICK n \in 1..Len(out) : out[n].key = k /\ OutBlock[k] = out[n].datum
      BY <2>1
    <3>2. PICK j \in 1..Len(tables) : tables[j][k] = out[n].datum
      BY <1>5, <3>1
    <3>3. j \in Holders(tables, k)
      BY <1>1, <1>5, <3>2 DEF Holders
    <3> QED
      BY <1>5, <3>1, <3>2, <3>3 DEF Kept
  <2>2. CASE k \notin KeysOf(out) /\ OutBlock[k] = Absent
    <3>1. CASE Holders(tables, k) = {}
      BY <2>2, <3>1 DEF Kept
    <3>2. CASE Holders(tables, k) # {}
      <4>1. PICK j \in 1..Len(tables) : tables[j][k] = Tombstone
        BY <1>4, <2>2, <3>2
      <4>2. j \in Holders(tables, k)
        BY <1>1, <4>1, TableAssumption DEF Holders
      <4> QED
        BY <2>2, <3>2, <4>1, <4>2 DEF Kept
    <3> QED
      BY <3>1, <3>2
  <2> QED
    BY <1>1, <2>1, <2>2, OutBlockAt
<1>7. OutBlock = [k \in Key |-> OutBlock[k]]
  BY DEF OutBlock
<1> DEFINE All == (UNION {{tables[i][k] : i \in DOMAIN tables} : k \in Key}) \cup {Absent}
<1>8. ASSUME NEW k \in Key PROVE OutBlock[k] \in All
  <2>1. OutBlock[k] = Absent \/ \E i \in DOMAIN tables : OutBlock[k] = tables[i][k]
    BY <1>6 DEF Kept, Holders
  <2> QED
    BY <2>1
<1>9. OutBlock \in [Key -> All]
  <2> HIDE DEF All
  <2> QED
    BY <1>7, <1>8
<1>10. Merges(tables) = {m \in [Key -> All] : \A k \in Key : Kept(m, k)}
  BY DEF Merges, Kept
<1> QED
  <2> HIDE DEF All
  <2> QED
    BY <1>6, <1>9, <1>10

\* When run_compaction is done, the written table has for each key a record
\* that one of the merged tables had (nothing, if that is a tombstone), and
\* no other key: the engine's model takes one of these Merges as the result.
THEOREM MergesTables == Spec => []MergeOfTables
BY MergeInvariant, InvMerged, PTL
=============================================================================
