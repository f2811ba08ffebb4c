----------------------------- MODULE TreeProofs -----------------------------
(***************************************************************************)
(* Proofs about the red-black tree of a memtable, for any set of keys and  *)
(* any order of insertions.                                                *)
(***************************************************************************)
EXTENDS Tree, FiniteSetTheorems, WellFoundedInduction, TLAPS

----------------------------------------------------------------------------
(* Search trees as links and ancestors.  The two sides are parameters, and *)
(* so is the order (ord[i] < ord[j]: i lies on side L of j), so that one   *)
(* proof serves both rotations: the other one has the sides exchanged and  *)
(* the order reversed.                                                     *)

\* Children and parents agree.
Linked(I, root, L, R, P) ==
    /\ L \in [I -> I \cup {None}] /\ R \in [I -> I \cup {None}] /\ P \in [I -> I \cup {None}]
    /\ root \in I /\ P[root] = None
    /\ \A i \in I : i # root => P[i] # None /\ i \in {L[P[i]], R[P[i]]}
    /\ \A i \in I : L[i] # None => P[L[i]] = i
    /\ \A i \in I : R[i] # None => P[R[i]] = i

\* anc[i] are the nodes above i, and below each of them i lies on the side
\* its key belongs to.
Ordered(I, root, L, R, ord, anc) ==
    /\ anc \in [I -> SUBSET I]
    /\ anc[root] = {}
    /\ \A i \in I : i \notin anc[i] /\ root \in anc[i] \cup {i}
    /\ \A i \in I : \A a \in anc[i] : anc[a] \subseteq anc[i]
    /\ \A i \in I : L[i] # None => anc[L[i]] = anc[i] \cup {i}
    /\ \A i \in I : R[i] # None => anc[R[i]] = anc[i] \cup {i}
    /\ \A i \in I : \A a \in anc[i] :
        /\ L[a] \in anc[i] \cup {i} <=> ord[i] < ord[a]
        /\ R[a] \in anc[i] \cup {i} <=> ord[a] < ord[i]

\* Different nodes have different places.
Places(I, ord) ==
    /\ ord \in [I -> Int] /\ None \notin I
    /\ \A i, j \in I : ord[i] = ord[j] => i = j

\* The links after n has been rotated below its child r on side R.
RotL(I, L, P, n, r) ==
    [i \in I |-> IF i = r THEN n ELSE IF i = P[n] /\ L[i] = n THEN r ELSE L[i]]
RotR(I, L, R, P, n, r) ==
    [i \in I |-> IF i = n THEN L[r] ELSE IF i = P[n] /\ L[i] # n THEN r ELSE R[i]]
RotP(I, L, P, n, r) ==
    [i \in I |-> IF i = n THEN r ELSE IF i = r THEN P[n] ELSE IF i = L[r] THEN n ELSE P[i]]

\* Who is above whom then: r above n and what was under n outside r, n no
\* longer above r and what is beyond it.
RotAnc(I, ord, anc, n, r) ==
    [i \in I |->
        IF i = r \/ (r \in anc[i] /\ ord[r] < ord[i]) THEN anc[i] \ {n}
        ELSE IF i = n \/ (n \in anc[i] /\ r \notin anc[i]) THEN anc[i] \cup {r}
        ELSE anc[i]]

\* A search tree in which n has a child r on side R.
Rotates(I, root, L, R, P, ord, anc, n, r) ==
    /\ Linked(I, root, L, R, P) /\ Ordered(I, root, L, R, ord, anc) /\ Places(I, ord)
    /\ n \in I /\ r = R[n] /\ r # None

\* Where the nodes about the rotation are then.
Site(I, root, L, R, P, ord, anc, n, r) ==
    /\ r \in I /\ P[r] = n /\ n # r /\ anc[r] = anc[n] \cup {n}
    /\ ord[n] < ord[r] /\ r # root
    /\ \A j \in I : r \in anc[j] => n \in anc[j] /\ ord[n] < ord[j]
    /\ \A j \in I : n \in anc[j] /\ r \notin anc[j] /\ j # r => ord[j] < ord[n]
    /\ \A j \in I : n \in anc[j] => j # n /\ j \notin anc[n]
    /\ \A j \in I : r \in anc[j] => j # r /\ j \notin anc[r]
    /\ P[n] # None => /\ P[n] \in I /\ anc[n] = anc[P[n]] \cup {P[n]}
                      /\ P[n] # n /\ P[n] # r
                      /\ (L[P[n]] = n /\ R[P[n]] # n) \/ (R[P[n]] = n /\ L[P[n]] # n)
    /\ P[n] = None => n = root

\* Rotates gives Site.
LEMMA RotationSite ==
    ASSUME NEW I, NEW root, NEW L, NEW R, NEW P, NEW ord, NEW anc, NEW n, NEW r,
           Rotates(I, root, L, R, P, ord, anc, n, r)
    PROVE  Site(I, root, L, R, P, ord, anc, n, r)
<1> USE DEF Rotates
<1>1. r \in I /\ P[r] = n /\ anc[r] = anc[n] \cup {n} /\ None \notin I
  BY DEF Linked, Ordered, Places
<1>2. n # r /\ r # root
  BY <1>1 DEF Ordered
<1>3. ord[n] < ord[r]
  BY <1>1 DEF Ordered
<1>4. ASSUME NEW j \in I, r \in anc[j] PROVE n \in anc[j] /\ ord[n] < ord[j]
  BY <1>1, <1>4 DEF Ordered
<1>5. ASSUME NEW j \in I, n \in anc[j], r \notin anc[j], j # r PROVE ord[j] < ord[n]
  <2>1. ~(ord[n] < ord[j])
    BY <1>5 DEF Ordered
  <2>2. j # n
    BY <1>5 DEF Ordered
  <2> QED
    BY <2>1, <2>2 DEF Places
<1>6. ASSUME NEW j \in I, NEW i \in I, i \in anc[j] PROVE j # i /\ j \notin anc[i]
  BY <1>6 DEF Ordered
<1>7. ASSUME P[n] # None
      PROVE  /\ P[n] \in I /\ anc[n] = anc[P[n]] \cup {P[n]}
             /\ P[n] # n /\ P[n] # r
             /\ (L[P[n]] = n /\ R[P[n]] # n) \/ (R[P[n]] = n /\ L[P[n]] # n)
  <2>1. P[n] \in I /\ n # root /\ n \in {L[P[n]], R[P[n]]}
    BY <1>7 DEF Linked
  <2>2. anc[n] = anc[P[n]] \cup {P[n]}
    BY <1>1, <2>1 DEF Ordered
  <2>3. P[n] # n /\ P[n] # r
    BY <1>1, <2>2 DEF Ordered
  <2>4. P[n] \in anc[n] /\ ord[n] \in Int /\ ord[P[n]] \in Int
    BY <2>1, <2>2 DEF Places
  <2>5. ~(L[P[n]] = n /\ R[P[n]] = n)
    BY <2>1, <2>4 DEF Ordered
  <2> QED
    BY <2>1, <2>2, <2>3, <2>5
<1>8. P[n] = None => n = root
  BY DEF Linked
<1> QED
  BY <1>1, <1>2, <1>3, <1>4, <1>5, <1>6, <1>7, <1>8 DEF Site

\* A rotation keeps children and parents in agreement.
LEMMA RotationLinked ==
    ASSUME NEW I, NEW root, NEW L, NEW R, NEW P, NEW ord, NEW anc, NEW n, NEW r,
           Rotates(I, root, L, R, P, ord, anc, n, r)
    PROVE  Linked(I, IF P[n] = None THEN r ELSE root,
                  RotL(I, L, P, n, r), RotR(I, L, R, P, n, r), RotP(I, L, P, n, r))
<1> DEFINE L2 == RotL(I, L, P, n, r)
           R2 == RotR(I, L, R, P, n, r)
           P2 == RotP(I, L, P, n, r)
           top == IF P[n] = None THEN r ELSE root
<1>0. Site(I, root, L, R, P, ord, anc, n, r) /\ n \in I /\ r = R[n] /\ r # None
      /\ Linked(I, root, L, R, P) /\ Ordered(I, root, L, R, ord, anc) /\ Places(I, ord)
  BY RotationSite DEF Rotates
<1>1. /\ r \in I /\ P[r] = n /\ n # r /\ r # root
      /\ P[n] # None => /\ P[n] \in I /\ P[n] # n /\ P[n] # r
                        /\ (L[P[n]] = n /\ R[P[n]] # n) \/ (R[P[n]] = n /\ L[P[n]] # n)
      /\ P[n] = None => n = root
  BY <1>0 DEF Site
<1>2. None \notin I /\ n \in I /\ r = R[n] /\ r # None
  BY <1>0 DEF Places
<1>3. /\ L \in [I -> I \cup {None}] /\ R \in [I -> I \cup {None}] /\ P \in [I -> I \cup {None}]
      /\ root \in I /\ P[root] = None
      /\ \A i \in I : i # root => P[i] # None /\ i \in {L[P[i]], R[P[i]]}
      /\ \A i \in I : L[i] # None => P[L[i]] = i
      /\ \A i \in I : R[i] # None => P[R[i]] = i
  BY <1>0 DEF Linked
<1>4. L[r] # n /\ L[r] # r /\ L[n] # n /\ L[n] # r
  <2>1. L[r] # r /\ L[r] # n
    BY <1>1, <1>2, <1>3
  <2>2. anc[r] = anc[n] \cup {n} /\ ord[n] < ord[r]
    BY <1>0 DEF Site
  <2>3. L[n] # n
    BY <1>0 DEF Ordered, Places
  <2>4. L[n] # r
    BY <1>0, <1>1, <2>2 DEF Ordered, Places
  <2> QED
    BY <2>1, <2>3, <2>4
<1>5. ASSUME P[n] # None PROVE L[r] # P[n]
  <2>1. anc[n] = anc[P[n]] \cup {P[n]} /\ anc[r] = anc[n] \cup {n} /\ P[n] \in I
    BY <1>0, <1>5 DEF Site
  <2>2. L[r] = P[n] => anc[P[n]] = anc[r] \cup {r}
    BY <1>0, <1>1, <1>5 DEF Ordered
  <2> QED
    BY <1>0, <2>1, <2>2 DEF Ordered
<1>6. L2 \in [I -> I \cup {None}] /\ R2 \in [I -> I \cup {None}] /\ P2 \in [I -> I \cup {None}]
  BY <1>1, <1>3 DEF RotL, RotR, RotP
<1>7. top \in I /\ P2[top] = None
  BY <1>1, <1>2, <1>3, <1>4 DEF RotP
<1>8. ASSUME NEW i \in I, i # top PROVE P2[i] # None /\ i \in {L2[P2[i]], R2[P2[i]]}
  <2>1. CASE i = n
    BY <1>1, <1>2, <2>1 DEF RotP, RotL
  <2>2. CASE i = r
    <3>1. P2[i] = P[n] /\ P[n] # None
      BY <1>1, <1>8, <2>2 DEF RotP
    <3> QED
      BY <1>1, <2>2, <3>1 DEF RotL, RotR
  <2>3. CASE i # n /\ i # r /\ i = L[r]
    <3>1. P2[i] = n
      BY <2>3 DEF RotP
    <3> QED
      BY <1>2, <2>3, <3>1 DEF RotR
  <2>4. CASE i # n /\ i # r /\ i # L[r]
    <3>1. P2[i] = P[i] /\ i # root
      BY <1>1, <1>3, <1>8, <2>4 DEF RotP
    <3>2. P[i] # None /\ P[i] \in I /\ i \in {L[P[i]], R[P[i]]}
      BY <1>3, <3>1
    <3>3. CASE P[i] = r
      BY <1>1, <1>2, <2>4, <3>1, <3>2, <3>3 DEF RotR
    <3>4. CASE P[i] = n
      BY <1>1, <1>2, <2>4, <3>1, <3>2, <3>4 DEF RotL
    <3>5. CASE P[i] # r /\ P[i] # n
      BY <1>1, <2>4, <3>1, <3>2, <3>5 DEF RotL, RotR
    <3> QED
      BY <3>3, <3>4, <3>5
  <2> QED
    BY <2>1, <2>2, <2>3, <2>4
<1>9. ASSUME NEW i \in I, L2[i] # None PROVE P2[L2[i]] = i
  <2>1. CASE i = r
    BY <1>1, <1>2, <2>1 DEF RotL, RotP
  <2>2. CASE i # r /\ i = P[n] /\ L[i] = n
    BY <1>1, <2>2 DEF RotL, RotP
  <2>3. CASE i # r /\ ~(i = P[n] /\ L[i] = n)
    <3>1. L2[i] = L[i] /\ L[i] \in I /\ P[L[i]] = i
      BY <1>3, <1>9, <2>3 DEF RotL
    <3>2. L[i] # n /\ L[i] # r /\ L[i] # L[r]
      BY <1>1, <1>2, <1>3, <1>4, <2>3, <3>1
    <3> QED
      BY <3>1, <3>2 DEF RotP
  <2> QED
    BY <2>1, <2>2, <2>3
<1>10. ASSUME NEW i \in I, R2[i] # None PROVE P2[R2[i]] = i
  <2>1. CASE i = n
    BY <1>1, <1>3, <1>4, <1>10, <2>1 DEF RotR, RotP
  <2>2. CASE i # n /\ i = P[n] /\ L[i] # n
    BY <1>1, <2>2 DEF RotR, RotP
  <2>3. CASE i # n /\ ~(i = P[n] /\ L[i] # n)
    <3>1. R2[i] = R[i] /\ R[i] \in I /\ P[R[i]] = i
      BY <1>3, <1>10, <2>3 DEF RotR
    <3>2. R[i] # n /\ R[i] # r
      BY <1>1, <1>2, <1>3, <2>3, <3>1
    <3>3. R[i] # L[r]
      <4>1. ASSUME R[i] = L[r] PROVE FALSE
        <5>1. i = r /\ r \in anc[L[r]] /\ L[r] \in I
          BY <1>0, <1>1, <1>2, <1>3, <3>1, <4>1 DEF Ordered
        <5>2. ord[L[r]] \in Int /\ ord[r] \in Int
          BY <1>0, <1>1, <5>1 DEF Places
        <5> QED
          BY <1>0, <4>1, <5>1, <5>2 DEF Ordered
      <4> QED
        BY <4>1
    <3> QED
      BY <3>1, <3>2, <3>3 DEF RotP
  <2> QED
    BY <2>1, <2>2, <2>3
<1> HIDE DEF L2, R2, P2, top
<1>11. Linked(I, top, L2, R2, P2)
  BY <1>6, <1>7, <1>8, <1>9, <1>10 DEF Linked
<1> QED
  BY <1>11 DEF L2, R2, P2, top

\* A rotation keeps every node on the side it belongs to of those above it.
LEMMA RotationOrdered ==
    ASSUME NEW I, NEW root, NEW L, NEW R, NEW P, NEW ord, NEW anc, NEW n, NEW r,
           Rotates(I, root, L, R, P, ord, anc, n, r)
    PROVE  Ordered(I, IF P[n] = None THEN r ELSE root,
                   RotL(I, L, P, n, r), RotR(I, L, R, P, n, r), ord, RotAnc(I, ord, anc, n, r))
<1> DEFINE L2 == RotL(I, L, P, n, r)
           R2 == RotR(I, L, R, P, n, r)
           A2 == RotAnc(I, ord, anc, n, r)
           top == IF P[n] = None THEN r ELSE root
           Out(j) == j # n /\ n \notin anc[j]
           Near(j) == n \in anc[j] /\ r \notin anc[j] /\ j # r
           Mid(j) == r \in anc[j] /\ ord[j] < ord[r]
           Far(j) == r \in anc[j] /\ ord[r] < ord[j]
<1>0. Site(I, root, L, R, P, ord, anc, n, r) /\ n \in I /\ r = R[n] /\ r # None
      /\ Linked(I, root, L, R, P) /\ Ordered(I, root, L, R, ord, anc) /\ Places(I, ord)
  BY RotationSite DEF Rotates
<1>1. /\ r \in I /\ P[r] = n /\ n # r /\ r # root /\ anc[r] = anc[n] \cup {n} /\ ord[n] < ord[r]
      /\ \A j \in I : r \in anc[j] => n \in anc[j] /\ ord[n] < ord[j]
      /\ \A j \in I : n \in anc[j] /\ r \notin anc[j] /\ j # r => ord[j] < ord[n]
      /\ \A j \in I : n \in anc[j] => j # n /\ j \notin anc[n]
      /\ \A j \in I : r \in anc[j] => j # r /\ j \notin anc[r]
  BY <1>0 DEF Site
<1>2. /\ P[n] # None => /\ P[n] \in I /\ P[n] # n /\ P[n] # r /\ anc[n] = anc[P[n]] \cup {P[n]}
                        /\ (L[P[n]] = n /\ R[P[n]] # n) \/ (R[P[n]] = n /\ L[P[n]] # n)
      /\ P[n] = None => n = root
  BY <1>0 DEF Site
<1>3. /\ anc \in [I -> SUBSET I]
      /\ anc[root] = {}
      /\ \A i \in I : i \notin anc[i] /\ root \in anc[i] \cup {i}
      /\ \A i \in I : \A a \in anc[i] : anc[a] \subseteq anc[i]
      /\ \A i \in I : L[i] # None => anc[L[i]] = anc[i] \cup {i}
      /\ \A i \in I : R[i] # None => anc[R[i]] = anc[i] \cup {i}
  BY <1>0 DEF Ordered
<1>4. \A i \in I : \A a \in anc[i] : /\ L[a] \in anc[i] \cup {i} <=> ord[i] < ord[a]
                                     /\ R[a] \in anc[i] \cup {i} <=> ord[a] < ord[i]
  BY <1>0 DEF Ordered
<1>5. /\ L \in [I -> I \cup {None}] /\ R \in [I -> I \cup {None}] /\ P \in [I -> I \cup {None}]
      /\ root \in I /\ None \notin I /\ n \in I /\ r = R[n]
      /\ \A i \in I : L[i] # None => P[L[i]] = i
      /\ \A i \in I : R[i] # None => P[R[i]] = i
  BY <1>0 DEF Linked, Places
<1>6. ord \in [I -> Int] /\ \A i, j \in I : ord[i] = ord[j] => i = j
  BY <1>0 DEF Places
\* Each node is in one of six places, which says what is above it afterwards.
<1>7. \A j \in I : j = n \/ j = r \/ Out(j) \/ Near(j) \/ Mid(j) \/ Far(j)
  BY <1>1, <1>6
<1>8. /\ A2[n] = anc[n] \cup {r} /\ A2[r] = anc[n]
      /\ \A j \in I : /\ Out(j) => j # r /\ A2[j] = anc[j] /\ r \notin anc[j]
                      /\ Near(j) => j # n /\ A2[j] = anc[j] \cup {r}
                      /\ Mid(j) => j # n /\ j # r /\ A2[j] = anc[j] /\ n \in anc[j]
                      /\ Far(j) => j # n /\ j # r /\ A2[j] = anc[j] \ {n} /\ n \in anc[j]
  <2>1. r \notin anc[n] /\ n \notin anc[n]
    BY <1>1, <1>3, <1>5
  <2>2. A2[n] = anc[n] \cup {r}
    BY <1>1, <1>5, <2>1 DEF RotAnc
  <2>3. A2[r] = anc[n]
    BY <1>1, <2>1 DEF RotAnc
  <2>4. ASSUME NEW j \in I, Out(j) PROVE j # r /\ A2[j] = anc[j] /\ r \notin anc[j]
    BY <1>1, <2>4 DEF RotAnc
  <2>5. ASSUME NEW j \in I, Near(j) PROVE j # n /\ A2[j] = anc[j] \cup {r}
    BY <1>1, <2>5 DEF RotAnc
  <2>6. ASSUME NEW j \in I, Mid(j) PROVE j # n /\ j # r /\ A2[j] = anc[j] /\ n \in anc[j]
    BY <1>1, <1>6, <2>6 DEF RotAnc
  <2>7. ASSUME NEW j \in I, Far(j) PROVE j # n /\ j # r /\ A2[j] = anc[j] \ {n} /\ n \in anc[j]
    BY <1>1, <1>6, <2>7 DEF RotAnc
  <2> QED
    BY <2>2, <2>3, <2>4, <2>5, <2>6, <2>7
\* A node above another one, by the place of both.
<1>9. /\ r \notin anc[n] /\ n \notin anc[n]
      /\ \A a \in anc[n] : a \in I /\ Out(a)
      /\ \A j \in I : \A a \in anc[j] :
           /\ a \in I
           /\ Out(j) => Out(a)
           /\ Near(j) => Out(a) \/ a = n \/ Near(a)
           /\ Mid(j) => Out(a) \/ a = n \/ a = r \/ Mid(a)
           /\ Far(j) => Out(a) \/ a = n \/ a = r \/ Far(a)
  <2>1. r \notin anc[n] /\ n \notin anc[n]
    BY <1>1, <1>3, <1>5
  <2>2. \A a \in anc[n] : a \in I /\ Out(a)
    BY <1>3, <1>5, <2>1
  <2>3. ASSUME NEW j \in I, NEW a \in anc[j] PROVE a \in I /\ anc[a] \subseteq anc[j]
    BY <1>3
  <2>4. ASSUME NEW j \in I, NEW a \in anc[j], Out(j) PROVE Out(a)
    BY <2>3, <2>4
  <2>5. ASSUME NEW j \in I, NEW a \in anc[j], Near(j) PROVE Out(a) \/ a = n \/ Near(a)
    BY <2>3, <2>5
  <2>6. ASSUME NEW j \in I, NEW a \in anc[j], r \in anc[j] PROVE ~Near(a)
    <3>1. a \in I /\ anc[a] \subseteq anc[j] /\ n \in anc[j]
      BY <1>1, <2>3, <2>6
    <3>2. Near(a) => L[n] \in anc[a] \cup {a}
      BY <1>1, <1>4, <3>1
    <3>3. Near(a) => L[n] \in anc[j] /\ R[n] \in anc[j]
      BY <1>5, <2>6, <3>1, <3>2
    <3> QED
      BY <1>4, <1>5, <1>6, <3>1, <3>3
  <2>7. ASSUME NEW j \in I, NEW a \in anc[j], r \in anc[j], r \in anc[a]
        PROVE  ord[a] < ord[r] <=> ord[j] < ord[r]
    <3>1. a \in I /\ anc[a] \subseteq anc[j] /\ r # a /\ r # j
      BY <1>1, <2>3, <2>7
    <3>2. ord[a] < ord[r] => L[r] \in anc[j]
      BY <1>4, <2>7, <3>1
    <3>3. ord[r] < ord[a] => R[r] \in anc[j]
      BY <1>4, <2>7, <3>1
    <3> QED
      BY <1>1, <1>4, <1>6, <2>7, <3>1, <3>2, <3>3
  <2>8. ASSUME NEW j \in I, NEW a \in anc[j], Mid(j) PROVE Out(a) \/ a = n \/ a = r \/ Mid(a)
    BY <1>7, <2>3, <2>6, <2>7, <2>8, <1>6, <1>1
  <2>9. ASSUME NEW j \in I, NEW a \in anc[j], Far(j) PROVE Out(a) \/ a = n \/ a = r \/ Far(a)
    BY <1>7, <2>3, <2>6, <2>7, <2>9, <1>6, <1>1
  <2> QED
    BY <2>1, <2>2, <2>3, <2>4, <2>5, <2>8, <2>9
\* The rotation moves n and r only in what lies above a node.
<1>10. ASSUME NEW j \in I
       PROVE  /\ A2[j] \in SUBSET I
              /\ \A x : x \notin {n, r} => (x \in A2[j] <=> x \in anc[j])
              /\ r \in A2[j] \cup {j} <=> n \in anc[j] \cup {j}
              /\ n \in A2[j] \cup {j} <=> j = n \/ Near(j) \/ Mid(j)
  <2>1. anc[j] \in SUBSET I /\ anc[n] \in SUBSET I
    BY <1>3, <1>5
  <2>2. CASE j = n
    BY <1>1, <1>5, <1>8, <1>9, <2>1, <2>2
  <2>3. CASE j = r
    BY <1>1, <1>5, <1>8, <1>9, <2>1, <2>3
  <2>4. CASE Out(j)
    BY <1>1, <1>8, <2>1, <2>4
  <2>5. CASE Near(j)
    BY <1>1, <1>8, <2>1, <2>5
  <2>6. CASE Mid(j)
    BY <1>1, <1>8, <2>1, <2>6
  <2>7. CASE Far(j)
    BY <1>1, <1>6, <1>8, <2>1, <2>7
  <2> QED
    BY <1>7, <2>2, <2>3, <2>4, <2>5, <2>6, <2>7
<1>11. A2 \in [I -> SUBSET I] /\ A2[top] = {} /\ top \in I
  <2>1. A2 = [i \in I |-> A2[i]]
    BY DEF RotAnc
  <2>2. A2[top] = {}
    <3>1. CASE P[n] = None
      BY <1>2, <1>3, <1>8, <3>1
    <3>2. CASE P[n] # None
      <4>1. Out(root)
        BY <1>2, <1>3, <3>2
      <4> QED
        BY <1>3, <1>5, <1>8, <3>2, <4>1
    <3> QED
      BY <3>1, <3>2
  <2> HIDE DEF A2
  <2> QED
    BY <1>1, <1>5, <1>10, <2>1, <2>2
<1>12. ASSUME NEW i \in I PROVE i \notin A2[i] /\ top \in A2[i] \cup {i}
  <2>1. i \notin A2[i]
    BY <1>1, <1>3, <1>7, <1>8, <1>9
  <2>2. CASE P[n] = None
    <3>1. n \in anc[i] \cup {i}
      BY <1>2, <1>3, <2>2
    <3> QED
      BY <2>1, <1>10, <2>2, <3>1
  <2>3. CASE P[n] # None
    <3>1. root # n
      BY <1>2, <1>3, <2>3
    <3> QED
      BY <2>1, <1>1, <1>3, <1>10, <2>3, <3>1
  <2> QED
    BY <2>1, <2>2, <2>3
<1>13. ASSUME NEW i \in I, NEW a \in A2[i] PROVE A2[a] \subseteq A2[i]
  <2>1. CASE Out(i)
    BY <1>3, <1>8, <1>9, <1>13, <2>1
  <2>2. CASE i = n
    BY <1>3, <1>8, <1>9, <1>13, <2>2
  <2>3. CASE i = r
    BY <1>3, <1>5, <1>8, <1>9, <1>13, <2>3
  <2>4. CASE Near(i)
    <3>1. a = r \/ a = n \/ (a \in anc[i] /\ a \in I /\ (Out(a) \/ Near(a)))
      BY <1>8, <1>9, <1>13, <2>4
    <3>2. anc[n] \subseteq anc[i] /\ A2[i] = anc[i] \cup {r}
      BY <1>3, <1>8, <2>4
    <3> QED
      BY <1>3, <1>8, <2>4, <3>1, <3>2
  <2>5. CASE Mid(i)
    <3>1. a \in anc[i] /\ a \in I /\ (Out(a) \/ a = n \/ a = r \/ Mid(a))
      BY <1>8, <1>9, <1>13, <2>5
    <3>2. anc[n] \subseteq anc[i] /\ A2[i] = anc[i] /\ r \in anc[i]
      BY <1>3, <1>8, <2>5
    <3> QED
      BY <1>3, <1>8, <3>1, <3>2
  <2>6. CASE Far(i)
    <3>1. a \in anc[i] /\ a # n /\ a \in I /\ (Out(a) \/ a = r \/ Far(a))
      BY <1>8, <1>9, <1>13, <2>6
    <3>2. anc[n] \subseteq anc[i] /\ A2[i] = anc[i] \ {n}
      BY <1>3, <1>8, <2>6
    <3> QED
      BY <1>3, <1>8, <1>9, <3>1, <3>2
  <2> QED
    BY <1>7, <2>1, <2>2, <2>3, <2>4, <2>5, <2>6
\* A link the rotation leaves alone.
<1>14. ASSUME NEW i \in I, NEW x \in I, i \notin {n, r}, x \notin {n, r}, anc[x] = anc[i] \cup {i}
       PROVE  A2[x] = A2[i] \cup {i}
  <2>1. i \in anc[x]
    BY <1>14
  <2>2. CASE Out(i)
    BY <1>8, <1>14, <2>2
  <2>3. CASE Near(i)
    BY <1>8, <1>14, <2>3
  <2>4. CASE Mid(i)
    <3>1. Mid(x)
      BY <1>1, <1>6, <1>9, <1>14, <2>1, <2>4
    <3> QED
      BY <1>8, <1>14, <2>4, <3>1
  <2>5. CASE Far(i)
    <3>1. Far(x)
      BY <1>1, <1>6, <1>9, <1>14, <2>1, <2>5
    <3> QED
      BY <1>8, <1>14, <2>5, <3>1
  <2> QED
    BY <1>7, <1>14, <2>2, <2>3, <2>4, <2>5
<1>15. P[n] # None => A2[r] = A2[P[n]] \cup {P[n]}
  BY <1>2, <1>3, <1>8, <1>9
<1>16. ASSUME NEW i \in I, L2[i] # None PROVE A2[L2[i]] = A2[i] \cup {i}
  <2>1. CASE i = r
    BY <1>1, <1>8, <2>1 DEF RotL
  <2>2. CASE i # r /\ i = P[n] /\ L[i] = n
    BY <1>5, <1>15, <2>2 DEF RotL
  <2>3. CASE i # r /\ ~(i = P[n] /\ L[i] = n)
    <3>1. L2[i] = L[i] /\ L[i] \in I /\ P[L[i]] = i /\ anc[L[i]] = anc[i] \cup {i}
      BY <1>3, <1>5, <1>16, <2>3 DEF RotL
    <3>2. L[i] # n
      BY <2>3, <3>1
    <3>3. L[i] # r
      BY <1>1, <1>4, <1>6, <3>1
    <3>4. CASE i = n
      BY <1>8, <1>9, <3>1, <3>3, <3>4
    <3> QED
      BY <1>14, <2>3, <3>1, <3>2, <3>3, <3>4
  <2> QED
    BY <2>1, <2>2, <2>3
<1>17. ASSUME NEW i \in I, R2[i] # None PROVE A2[R2[i]] = A2[i] \cup {i}
  <2>1. CASE i = n
    <3>1. R2[i] = L[r] /\ L[r] \in I /\ anc[L[r]] = anc[r] \cup {r}
      BY <1>1, <1>3, <1>5, <1>17, <2>1 DEF RotR
    <3>2. Mid(L[r])
      BY <1>1, <1>4, <3>1
    <3> QED
      BY <1>1, <1>8, <2>1, <3>1, <3>2
  <2>2. CASE i # n /\ i = P[n] /\ L[i] # n
    BY <1>5, <1>15, <2>2 DEF RotR
  <2>3. CASE i # n /\ ~(i = P[n] /\ L[i] # n)
    <3>1. R2[i] = R[i] /\ R[i] \in I /\ P[R[i]] = i /\ anc[R[i]] = anc[i] \cup {i}
      BY <1>3, <1>5, <1>17, <2>3 DEF RotR
    <3>2. R[i] # n /\ R[i] # r
      BY <1>1, <1>2, <1>5, <2>3, <3>1
    <3>3. CASE i = r
      <4>1. Far(R[r])
        BY <1>1, <1>4, <3>1, <3>3
      <4> QED
        BY <1>1, <1>8, <1>9, <3>1, <3>3, <4>1
    <3> QED
      BY <1>14, <2>3, <3>1, <3>2, <3>3
  <2> QED
    BY <2>1, <2>2, <2>3
\* The sides, by the node above.
<1>18. ASSUME NEW j \in I, NEW a \in A2[j]
       PROVE  /\ L2[a] \in A2[j] \cup {j} <=> ord[j] < ord[a]
              /\ R2[a] \in A2[j] \cup {j} <=> ord[a] < ord[j]
  <2>0. /\ A2[j] \in SUBSET I /\ a \in I /\ anc[j] \in SUBSET I
        /\ \A x : x \notin {n, r} => (x \in A2[j] \cup {j} <=> x \in anc[j] \cup {j})
    BY <1>3, <1>10, <1>18
  <2>1. CASE a = n
    <3>1. Near(j) \/ Mid(j)
      BY <1>10, <1>12, <1>18, <2>1
    <3>2. L2[a] = L[n] /\ R2[a] = L[r] /\ n \in anc[j]
      BY <1>1, <1>2, <1>5, <1>8, <2>1, <3>1 DEF RotL, RotR
    <3>3. L[n] \notin {n, r} /\ L[r] \notin {n, r}
      BY <1>1, <1>3, <1>4, <1>5, <1>6
    <3>4. L[r] \in anc[j] \cup {j} <=> Mid(j)
      <4>1. CASE Mid(j)
        BY <1>4, <4>1
      <4>2. CASE Near(j)
        BY <1>3, <2>0, <4>2, <1>1, <1>5
      <4> QED
        BY <3>1, <4>1, <4>2
    <3> QED
      BY <1>1, <1>4, <1>5, <1>6, <2>0, <2>1, <3>1, <3>2, <3>3, <3>4
  <2>2. CASE a = r
    <3>1. j = n \/ Near(j) \/ Mid(j) \/ Far(j)
      BY <1>7, <1>8, <1>9, <1>18, <2>2
    <3>2. L2[a] = n /\ R2[a] = R[r] /\ R[r] \notin {n, r}
      <4>1. R[r] \notin {n, r}
        BY <1>1, <1>3, <1>5
      <4> QED
        BY <1>5, <1>1, <1>2, <2>2, <4>1 DEF RotL, RotR
    <3>3. n \in A2[j] \cup {j} <=> ord[j] < ord[r]
      BY <1>1, <1>5, <1>6, <1>10, <3>1
    <3>4. R[r] \in anc[j] \cup {j} <=> Far(j)
      <4>1. CASE j = n
        BY <1>1, <1>3, <1>5, <1>9, <2>0, <3>2, <4>1
      <4>2. CASE Near(j)
        BY <1>1, <1>3, <1>5, <2>0, <4>2
      <4>3. CASE Mid(j) \/ Far(j)
        BY <1>4, <4>3
      <4> QED
        BY <3>1, <4>1, <4>2, <4>3
    <3>5. Far(j) <=> ord[r] < ord[j]
      BY <1>1, <1>5, <1>6, <3>1
    <3> QED
      BY <2>2, <2>0, <3>2, <3>3, <3>4, <3>5
  <2>3. CASE a # n /\ a # r /\ a = P[n]
    <3>1. a \in anc[j] /\ a # None
      BY <1>5, <1>10, <2>0, <2>3, <1>18
    <3>2. r \in A2[j] \cup {j} <=> n \in anc[j] \cup {j}
      BY <1>10
    <3>3. L[a] # r /\ R[a] # r
      BY <1>1, <1>5, <2>0, <2>3
    <3>4. CASE L[a] = n /\ R[a] # n
      <4>1. L2[a] = r /\ R2[a] = R[a]
        BY <2>0, <2>3, <3>4 DEF RotL, RotR
      <4> QED
        BY <1>4, <2>0, <3>1, <3>2, <3>3, <3>4, <4>1
    <3>5. CASE R[a] = n /\ L[a] # n
      <4>1. R2[a] = r /\ L2[a] = L[a]
        BY <2>0, <2>3, <3>5 DEF RotL, RotR
      <4> QED
        BY <1>4, <2>0, <3>1, <3>2, <3>3, <3>5, <4>1
    <3> QED
      BY <1>2, <2>3, <3>1, <3>4, <3>5
  <2>4. CASE a # n /\ a # r /\ a # P[n]
    <3>1. a \in anc[j] /\ L2[a] = L[a] /\ R2[a] = R[a]
      BY <1>10, <1>18, <2>0, <2>4 DEF RotL, RotR
    <3>2. L[a] \notin {n, r} /\ R[a] \notin {n, r}
      BY <1>1, <1>5, <2>0, <2>4
    <3> QED
      BY <1>4, <2>0, <3>1, <3>2
  <2> QED
    BY <2>1, <2>2, <2>3, <2>4
<1> HIDE DEF L2, R2, A2, top
<1>19. Ordered(I, top, L2, R2, ord, A2)
  BY <1>11, <1>12, <1>13, <1>16, <1>17, <1>18 DEF Ordered
<1> QED
  BY <1>19 DEF L2, R2, A2, top

\* The same tree with its sides exchanged.
LEMMA Mirror ==
    ASSUME NEW I, NEW root, NEW L, NEW R, NEW P, NEW ord, NEW neg, NEW anc,
           ord \in [I -> Int], neg = [i \in I |-> -ord[i]]
    PROVE  /\ Linked(I, root, L, R, P) => Linked(I, root, R, L, P)
           /\ Ordered(I, root, L, R, ord, anc) => Ordered(I, root, R, L, neg, anc)
           /\ Places(I, ord) => Places(I, neg)
<1>1. \A i, j \in I : neg[i] < neg[j] <=> ord[j] < ord[i]
  OBVIOUS
<1>2. neg \in [I -> Int] /\ \A i, j \in I : neg[i] = neg[j] => ord[i] = ord[j]
  OBVIOUS
<1>3. Linked(I, root, L, R, P) => Linked(I, root, R, L, P)
  BY DEF Linked
<1>4. Places(I, ord) => Places(I, neg)
  BY <1>2 DEF Places
<1>5. ASSUME Ordered(I, root, L, R, ord, anc) PROVE Ordered(I, root, R, L, neg, anc)
  <2>1. anc \in [I -> SUBSET I]
    BY <1>5 DEF Ordered
  <2>2. ASSUME NEW i \in I, NEW a \in anc[i]
        PROVE  /\ R[a] \in anc[i] \cup {i} <=> neg[i] < neg[a]
               /\ L[a] \in anc[i] \cup {i} <=> neg[a] < neg[i]
    <3>1. a \in I
      BY <2>1, <2>2
    <3> QED
      BY <1>1, <1>5, <3>1 DEF Ordered
  <2> HIDE <1>1, <1>2
  <2> QED
    BY <1>5, <2>2 DEF Ordered
<1> QED
  BY <1>3, <1>4, <1>5

----------------------------------------------------------------------------
(* Arenas.                                                                 *)

Link == Key \cup {None}

TreeNode ==
    [record : Node, left : Link, right : Link, parent : Link, color : {"red", "black"}]

IsArena(a) == DOMAIN a \subseteq Key /\ a \in [DOMAIN a -> TreeNode]

Lefts(a) == [i \in DOMAIN a |-> a[i].left]
Rights(a) == [i \in DOMAIN a |-> a[i].right]
Parents(a) == [i \in DOMAIN a |-> a[i].parent]
KeyOrder(a) == [i \in DOMAIN a |-> i]

\* The nodes of the arena are a binary search tree.
SearchTree(a, root) ==
    /\ Linked(DOMAIN a, root, Lefts(a), Rights(a), Parents(a))
    /\ \E anc : Ordered(DOMAIN a, root, Lefts(a), Rights(a), KeyOrder(a), anc)

\* Two arenas that differ in links and colours only.
SameRecords(a, b) ==
    /\ IsArena(b) /\ DOMAIN b = DOMAIN a
    /\ \A i \in DOMAIN a : b[i].record = a[i].record

\* The keys of an arena are its places: no two nodes share one.
LEMMA KeysPlaced ==
    ASSUME NEW a, IsArena(a)
    PROVE  Places(DOMAIN a, KeyOrder(a))
BY TableAssumption, TreeAssumption DEF Places, KeyOrder, IsArena, None

\* b is a with these links.
Edit(a, b, L, R, P) ==
    /\ SameRecords(a, b) /\ \A i \in DOMAIN a : b[i].color = a[i].color
    /\ Lefts(b) = L /\ Rights(b) = R /\ Parents(b) = P

\* Setting a left link changes that link only.
LEMMA SetLeft ==
    ASSUME NEW a, IsArena(a), NEW i \in DOMAIN a, NEW x \in Link
    PROVE  Edit(a, [a EXCEPT ![i].left = x],
                [Lefts(a) EXCEPT ![i] = x], Rights(a), Parents(a))
<1> DEFINE b == [a EXCEPT ![i].left = x]
<1>1. /\ DOMAIN b = DOMAIN a /\ a[i] \in TreeNode /\ b[i] = [a[i] EXCEPT !.left = x]
      /\ \A j \in DOMAIN a : a[j] \in TreeNode /\ (j # i => b[j] = a[j])
  BY DEF IsArena
<1>2. /\ b[i] \in TreeNode /\ b[i].left = x /\ b[i].right = a[i].right /\ b[i].parent = a[i].parent
      /\ b[i].record = a[i].record /\ b[i].color = a[i].color
  BY <1>1 DEF TreeNode
<1>3. b \in [DOMAIN b -> TreeNode]
  BY <1>1, <1>2 DEF IsArena
<1> HIDE DEF b
<1>4. Edit(a, b, [Lefts(a) EXCEPT ![i] = x], Rights(a), Parents(a))
  BY <1>1, <1>2, <1>3 DEF Edit, SameRecords, IsArena, Lefts, Rights, Parents
<1> QED
  BY <1>4 DEF b

\* Setting a right link changes that link only.
LEMMA SetRight ==
    ASSUME NEW a, IsArena(a), NEW i \in DOMAIN a, NEW x \in Link
    PROVE  Edit(a, [a EXCEPT ![i].right = x],
                Lefts(a), [Rights(a) EXCEPT ![i] = x], Parents(a))
<1> DEFINE b == [a EXCEPT ![i].right = x]
<1>1. /\ DOMAIN b = DOMAIN a /\ a[i] \in TreeNode /\ b[i] = [a[i] EXCEPT !.right = x]
      /\ \A j \in DOMAIN a : a[j] \in TreeNode /\ (j # i => b[j] = a[j])
  BY DEF IsArena
<1>2. /\ b[i] \in TreeNode /\ b[i].right = x /\ b[i].left = a[i].left /\ b[i].parent = a[i].parent
      /\ b[i].record = a[i].record /\ b[i].color = a[i].color
  BY <1>1 DEF TreeNode
<1>3. b \in [DOMAIN b -> TreeNode]
  BY <1>1, <1>2 DEF IsArena
<1> HIDE DEF b
<1>4. Edit(a, b, Lefts(a), [Rights(a) EXCEPT ![i] = x], Parents(a))
  BY <1>1, <1>2, <1>3 DEF Edit, SameRecords, IsArena, Lefts, Rights, Parents
<1> QED
  BY <1>4 DEF b

\* Setting a parent changes that link only.
LEMMA SetParent ==
    ASSUME NEW a, IsArena(a), NEW i \in DOMAIN a, NEW x \in Link
    PROVE  Edit(a, [a EXCEPT ![i].parent = x],
                Lefts(a), Rights(a), [Parents(a) EXCEPT ![i] = x])
<1> DEFINE b == [a EXCEPT ![i].parent = x]
<1>1. /\ DOMAIN b = DOMAIN a /\ a[i] \in TreeNode /\ b[i] = [a[i] EXCEPT !.parent = x]
      /\ \A j \in DOMAIN a : a[j] \in TreeNode /\ (j # i => b[j] = a[j])
  BY DEF IsArena
<1>2. /\ b[i] \in TreeNode /\ b[i].parent = x /\ b[i].left = a[i].left /\ b[i].right = a[i].right
      /\ b[i].record = a[i].record /\ b[i].color = a[i].color
  BY <1>1 DEF TreeNode
<1>3. b \in [DOMAIN b -> TreeNode]
  BY <1>1, <1>2 DEF IsArena
<1> HIDE DEF b
<1>4. Edit(a, b, Lefts(a), Rights(a), [Parents(a) EXCEPT ![i] = x])
  BY <1>1, <1>2, <1>3 DEF Edit, SameRecords, IsArena, Lefts, Rights, Parents
<1> QED
  BY <1>4 DEF b

\* Steps of a rotation.
LEMMA EditReparent ==
    ASSUME NEW a, IsArena(a), NEW i \in DOMAIN a \cup {None}, NEW p \in Link
    PROVE  Edit(a, Reparent(a, i, p), Lefts(a), Rights(a),
                [j \in DOMAIN a |-> IF j = i THEN p ELSE Parents(a)[j]])
<1>1. CASE i = None
  <2>1. i \notin DOMAIN a /\ Reparent(a, i, p) = a
    BY <1>1, TableAssumption DEF IsArena, None, Reparent
  <2> QED
    BY <2>1 DEF Edit, SameRecords, Parents
<1>2. CASE i # None
  <2>1. i \in DOMAIN a /\ Reparent(a, i, p) = [a EXCEPT ![i].parent = p]
    BY <1>2 DEF Reparent
  <2>2. Edit(a, [a EXCEPT ![i].parent = p], Lefts(a), Rights(a), [Parents(a) EXCEPT ![i] = p])
    BY <2>1, SetParent
  <2>3. [Parents(a) EXCEPT ![i] = p] = [j \in DOMAIN a |-> IF j = i THEN p ELSE Parents(a)[j]]
    BY DEF Parents
  <2> QED
    BY <2>1, <2>2, <2>3
<1> QED
  BY <1>1, <1>2

\* Relink gives the parent, if there is one, another child.
LEMMA EditRelink ==
    ASSUME NEW a, IsArena(a), NEW p \in DOMAIN a \cup {None}, NEW x, NEW y \in Link
    PROVE  Edit(a, Relink(a, p, x, y),
                [j \in DOMAIN a |-> IF j = p /\ Lefts(a)[j] = x THEN y ELSE Lefts(a)[j]],
                [j \in DOMAIN a |-> IF j = p /\ Lefts(a)[j] # x THEN y ELSE Rights(a)[j]],
                Parents(a))
<1> DEFINE L2 == [j \in DOMAIN a |-> IF j = p /\ Lefts(a)[j] = x THEN y ELSE Lefts(a)[j]]
           R2 == [j \in DOMAIN a |-> IF j = p /\ Lefts(a)[j] # x THEN y ELSE Rights(a)[j]]
<1>1. CASE p = None
  <2>1. p \notin DOMAIN a /\ Relink(a, p, x, y) = a
    BY <1>1, TableAssumption DEF IsArena, None, Relink
  <2>2. L2 = Lefts(a) /\ R2 = Rights(a)
    BY <2>1 DEF Lefts, Rights
  <2> HIDE DEF L2, R2
  <2>3. Edit(a, a, L2, R2, Parents(a))
    BY <2>2 DEF Edit, SameRecords
  <2> QED
    BY <2>1, <2>3 DEF L2, R2
<1>2. CASE p # None /\ a[p].left = x
  <2>1. p \in DOMAIN a /\ Relink(a, p, x, y) = [a EXCEPT ![p].left = y]
    BY <1>2 DEF Relink
  <2>2. Edit(a, [a EXCEPT ![p].left = y], [Lefts(a) EXCEPT ![p] = y], Rights(a), Parents(a))
    BY <2>1, SetLeft
  <2>3. L2 = [Lefts(a) EXCEPT ![p] = y] /\ R2 = Rights(a)
    BY <1>2, <2>1 DEF Lefts, Rights
  <2> QED
    BY <2>1, <2>2, <2>3
<1>3. CASE p # None /\ a[p].left # x
  <2>1. p \in DOMAIN a /\ Relink(a, p, x, y) = [a EXCEPT ![p].right = y]
    BY <1>3 DEF Relink
  <2>2. Edit(a, [a EXCEPT ![p].right = y], Lefts(a), [Rights(a) EXCEPT ![p] = y], Parents(a))
    BY <2>1, SetRight
  <2>3. L2 = Lefts(a) /\ R2 = [Rights(a) EXCEPT ![p] = y]
    BY <1>3, <2>1 DEF Lefts, Rights
  <2> QED
    BY <2>1, <2>2, <2>3
<1> QED
  BY <1>1, <1>2, <1>3

\* One edit after another.
LEMMA EditTwice ==
    ASSUME NEW a, NEW b, NEW c, NEW L, NEW R, NEW P, NEW L2, NEW R2, NEW P2,
           Edit(a, b, L, R, P), Edit(b, c, L2, R2, P2)
    PROVE  Edit(a, c, L2, R2, P2)
BY DEF Edit, SameRecords

\* left_rotate changes the links the rotation changes, and nothing else.
LEMMA LeftRotateEdit ==
    ASSUME NEW a, IsArena(a), NEW n \in DOMAIN a, NEW r \in DOMAIN a,
           NEW p \in DOMAIN a \cup {None}, NEW x \in DOMAIN a \cup {None},
           r = a[n].right, p = a[n].parent, x = a[r].left, n # r, p # n, x # r
    PROVE  Edit(a, left_rotate(a, n),
                RotL(DOMAIN a, Lefts(a), Parents(a), n, r),
                RotR(DOMAIN a, Lefts(a), Rights(a), Parents(a), n, r),
                RotP(DOMAIN a, Lefts(a), Parents(a), n, r))
<1> DEFINE m1 == [a EXCEPT ![n].right = x]
           m2 == [m1 EXCEPT ![r].parent = p]
           m3 == Reparent(m2, x, n)
           m4 == Relink(m3, p, n, r)
           m5 == [m4 EXCEPT ![r].left = n]
           m6 == [m5 EXCEPT ![n].parent = r]
           I == DOMAIN a
<1>0. n \in Link /\ r \in Link /\ p \in Link /\ x \in Link
  BY DEF Link, IsArena
<1>1. left_rotate(a, n) = m6
  BY DEF left_rotate
<1>2. Edit(a, m1, Lefts(a), [Rights(a) EXCEPT ![n] = x], Parents(a))
  BY <1>0, SetRight
<1> HIDE DEF m1
<1>3. IsArena(m1) /\ DOMAIN m1 = I
  BY <1>2 DEF Edit, SameRecords
<1>4. Edit(m1, m2, Lefts(m1), Rights(m1), [Parents(m1) EXCEPT ![r] = p])
  BY <1>0, <1>3, SetParent
<1> HIDE DEF m2
<1>5. IsArena(m2) /\ DOMAIN m2 = I
  BY <1>3, <1>4 DEF Edit, SameRecords
<1>6. Edit(m2, m3, Lefts(m2), Rights(m2), [j \in DOMAIN m2 |-> IF j = x THEN n ELSE Parents(m2)[j]])
  <2>1. x \in DOMAIN m2 \cup {None}
    BY <1>5
  <2> QED
    BY <1>0, <1>5, <2>1, EditReparent
<1> HIDE DEF m3
<1>7. IsArena(m3) /\ DOMAIN m3 = I
  BY <1>5, <1>6 DEF Edit, SameRecords
<1>8. Edit(m3, m4, [j \in DOMAIN m3 |-> IF j = p /\ Lefts(m3)[j] = n THEN r ELSE Lefts(m3)[j]],
                   [j \in DOMAIN m3 |-> IF j = p /\ Lefts(m3)[j] # n THEN r ELSE Rights(m3)[j]],
                   Parents(m3))
  <2>1. p \in DOMAIN m3 \cup {None}
    BY <1>7
  <2> QED
    BY <1>0, <1>7, <2>1, EditRelink
<1> HIDE DEF m4
<1>9. IsArena(m4) /\ DOMAIN m4 = I
  BY <1>7, <1>8 DEF Edit, SameRecords
<1>10. Edit(m4, m5, [Lefts(m4) EXCEPT ![r] = n], Rights(m4), Parents(m4))
  BY <1>0, <1>9, SetLeft
<1> HIDE DEF m5
<1>11. IsArena(m5) /\ DOMAIN m5 = I
  BY <1>9, <1>10 DEF Edit, SameRecords
<1>12. Edit(m5, m6, Lefts(m5), Rights(m5), [Parents(m5) EXCEPT ![n] = r])
  BY <1>0, <1>11, SetParent
<1> HIDE DEF m6
<1>13. SameRecords(a, m6) /\ \A i \in I : m6[i].color = a[i].color
  <2>1. SameRecords(a, m2) /\ \A i \in I : m2[i].color = a[i].color
    BY <1>2, <1>4 DEF Edit, SameRecords
  <2>2. SameRecords(a, m4) /\ \A i \in I : m4[i].color = a[i].color
    BY <2>1, <1>6, <1>8 DEF Edit, SameRecords
  <2> QED
    BY <2>2, <1>10, <1>12 DEF Edit, SameRecords
<1>14. /\ Lefts(m3) = Lefts(a)
       /\ Lefts(m4) = [j \in I |-> IF j = p /\ Lefts(m3)[j] = n THEN r ELSE Lefts(m3)[j]]
       /\ Lefts(m6) = [Lefts(m4) EXCEPT ![r] = n]
  BY <1>2, <1>4, <1>6, <1>7, <1>8, <1>10, <1>12 DEF Edit
<1>15. /\ Rights(m3) = [Rights(a) EXCEPT ![n] = x]
       /\ Rights(m4) = [j \in I |-> IF j = p /\ Lefts(m3)[j] # n THEN r ELSE Rights(m3)[j]]
       /\ Rights(m6) = Rights(m4)
  BY <1>2, <1>4, <1>6, <1>7, <1>8, <1>10, <1>12 DEF Edit
<1>16. /\ Parents(m2) = [Parents(a) EXCEPT ![r] = p]
       /\ Parents(m3) = [j \in I |-> IF j = x THEN n ELSE Parents(m2)[j]]
       /\ Parents(m6) = [Parents(m3) EXCEPT ![n] = r]
  BY <1>2, <1>4, <1>5, <1>6, <1>8, <1>10, <1>12 DEF Edit
<1>17. DOMAIN Lefts(a) = I /\ DOMAIN Rights(a) = I /\ DOMAIN Parents(a) = I
       /\ Parents(a)[n] = p /\ Lefts(a)[r] = x
  BY DEF Lefts, Rights, Parents
<1>18. Lefts(m6) = RotL(I, Lefts(a), Parents(a), n, r)
  BY <1>14, <1>17 DEF RotL
<1>19. Rights(m6) = RotR(I, Lefts(a), Rights(a), Parents(a), n, r)
  BY <1>14, <1>15, <1>17 DEF RotR
<1>20. Parents(m6) = RotP(I, Lefts(a), Parents(a), n, r)
  BY <1>16, <1>17 DEF RotP
<1> QED
  BY <1>1, <1>13, <1>18, <1>19, <1>20 DEF Edit

\* right_rotate is the same rotation with the sides exchanged.
LEMMA RightRotateEdit ==
    ASSUME NEW a, IsArena(a), NEW n \in DOMAIN a, NEW l \in DOMAIN a,
           NEW p \in DOMAIN a \cup {None}, NEW x \in DOMAIN a \cup {None},
           l = a[n].left, p = a[n].parent, x = a[l].right, n # l, p # n, x # l,
           p # None => (a[p].left = n) # (a[p].right = n)
    PROVE  Edit(a, right_rotate(a, n),
                RotR(DOMAIN a, Rights(a), Lefts(a), Parents(a), n, l),
                RotL(DOMAIN a, Rights(a), Parents(a), n, l),
                RotP(DOMAIN a, Rights(a), Parents(a), n, l))
<1> DEFINE m1 == [a EXCEPT ![n].left = x]
           m2 == [m1 EXCEPT ![l].parent = p]
           m3 == Reparent(m2, x, n)
           m4 == Relink(m3, p, n, l)
           m5 == [m4 EXCEPT ![l].right = n]
           m6 == [m5 EXCEPT ![n].parent = l]
           I == DOMAIN a
<1>0. n \in Link /\ l \in Link /\ p \in Link /\ x \in Link
  BY DEF Link, IsArena
<1>1. right_rotate(a, n) = m6
  BY DEF right_rotate
<1>2. Edit(a, m1, [Lefts(a) EXCEPT ![n] = x], Rights(a), Parents(a))
  BY <1>0, SetLeft
<1> HIDE DEF m1
<1>3. IsArena(m1) /\ DOMAIN m1 = I
  BY <1>2 DEF Edit, SameRecords
<1>4. Edit(m1, m2, Lefts(m1), Rights(m1), [Parents(m1) EXCEPT ![l] = p])
  BY <1>0, <1>3, SetParent
<1> HIDE DEF m2
<1>5. IsArena(m2) /\ DOMAIN m2 = I
  BY <1>3, <1>4 DEF Edit, SameRecords
<1>6. Edit(m2, m3, Lefts(m2), Rights(m2), [j \in DOMAIN m2 |-> IF j = x THEN n ELSE Parents(m2)[j]])
  <2>1. x \in DOMAIN m2 \cup {None}
    BY <1>5
  <2> QED
    BY <1>0, <1>5, <2>1, EditReparent
<1> HIDE DEF m3
<1>7. IsArena(m3) /\ DOMAIN m3 = I
  BY <1>5, <1>6 DEF Edit, SameRecords
<1>8. Edit(m3, m4, [j \in DOMAIN m3 |-> IF j = p /\ Lefts(m3)[j] = n THEN l ELSE Lefts(m3)[j]],
                   [j \in DOMAIN m3 |-> IF j = p /\ Lefts(m3)[j] # n THEN l ELSE Rights(m3)[j]],
                   Parents(m3))
  <2>1. p \in DOMAIN m3 \cup {None}
    BY <1>7
  <2> QED
    BY <1>0, <1>7, <2>1, EditRelink
<1> HIDE DEF m4
<1>9. IsArena(m4) /\ DOMAIN m4 = I
  BY <1>7, <1>8 DEF Edit, SameRecords
<1>10. Edit(m4, m5, Lefts(m4), [Rights(m4) EXCEPT ![l] = n], Parents(m4))
  BY <1>0, <1>9, SetRight
<1> HIDE DEF m5
<1>11. IsArena(m5) /\ DOMAIN m5 = I
  BY <1>9, <1>10 DEF Edit, SameRecords
<1>12. Edit(m5, m6, Lefts(m5), Rights(m5), [Parents(m5) EXCEPT ![n] = l])
  BY <1>0, <1>11, SetParent
<1> HIDE DEF m6
<1>13. SameRecords(a, m6) /\ \A i \in I : m6[i].color = a[i].color
  <2>1. SameRecords(a, m2) /\ \A i \in I : m2[i].color = a[i].color
    BY <1>2, <1>4 DEF Edit, SameRecords
  <2>2. SameRecords(a, m4) /\ \A i \in I : m4[i].color = a[i].color
    BY <2>1, <1>6, <1>8 DEF Edit, SameRecords
  <2> QED
    BY <2>2, <1>10, <1>12 DEF Edit, SameRecords
<1>14. /\ Lefts(m3) = [Lefts(a) EXCEPT ![n] = x]
       /\ Lefts(m4) = [j \in I |-> IF j = p /\ Lefts(m3)[j] = n THEN l ELSE Lefts(m3)[j]]
       /\ Lefts(m6) = Lefts(m4)
  BY <1>2, <1>4, <1>6, <1>7, <1>8, <1>10, <1>12 DEF Edit
<1>15. /\ Rights(m3) = Rights(a)
       /\ Rights(m4) = [j \in I |-> IF j = p /\ Lefts(m3)[j] # n THEN l ELSE Rights(m3)[j]]
       /\ Rights(m6) = [Rights(m4) EXCEPT ![l] = n]
  BY <1>2, <1>4, <1>6, <1>7, <1>8, <1>10, <1>12 DEF Edit
<1>16. /\ Parents(m2) = [Parents(a) EXCEPT ![l] = p]
       /\ Parents(m3) = [j \in I |-> IF j = x THEN n ELSE Parents(m2)[j]]
       /\ Parents(m6) = [Parents(m3) EXCEPT ![n] = l]
  BY <1>2, <1>4, <1>5, <1>6, <1>8, <1>10, <1>12 DEF Edit
<1>17. DOMAIN Lefts(a) = I /\ DOMAIN Rights(a) = I /\ DOMAIN Parents(a) = I
       /\ Parents(a)[n] = p /\ Rights(a)[l] = x
       /\ (p \in I => (Lefts(a)[p] = n <=> Rights(a)[p] # n))
  BY TableAssumption DEF Lefts, Rights, Parents, IsArena, None
<1>18. Lefts(m6) = RotR(I, Rights(a), Lefts(a), Parents(a), n, l)
  BY <1>14, <1>17 DEF RotR
<1>19. Rights(m6) = RotL(I, Rights(a), Parents(a), n, l)
  BY <1>14, <1>15, <1>17 DEF RotL
<1>20. Parents(m6) = RotP(I, Rights(a), Parents(a), n, l)
  BY <1>16, <1>17 DEF RotP
<1> QED
  BY <1>1, <1>13, <1>18, <1>19, <1>20 DEF Edit

\* A rotation leaves a search tree over the same records and colours.
LEMMA LeftRotated ==
    ASSUME NEW a, NEW root, IsArena(a), SearchTree(a, root),
           NEW n \in DOMAIN a, NEW r, r = a[n].right, r # None
    PROVE  /\ Edit(a, left_rotate(a, n),
                   RotL(DOMAIN a, Lefts(a), Parents(a), n, r),
                   RotR(DOMAIN a, Lefts(a), Rights(a), Parents(a), n, r),
                   RotP(DOMAIN a, Lefts(a), Parents(a), n, r))
           /\ SearchTree(left_rotate(a, n), IF a[n].parent = None THEN r ELSE root)
           /\ \E ord, anc : Rotates(DOMAIN a, root, Lefts(a), Rights(a), Parents(a), ord, anc, n, r)
<1> DEFINE I == DOMAIN a
           L == Lefts(a)
           R == Rights(a)
           P == Parents(a)
           ord == KeyOrder(a)
           b == left_rotate(a, n)
           top == IF P[n] = None THEN r ELSE root
<1>1. PICK anc : Ordered(I, root, L, R, ord, anc)
  BY DEF SearchTree
<1>2. R[n] = r /\ P[n] = a[n].parent
  BY DEF Rights, Parents
<1>3. Rotates(I, root, L, R, P, ord, anc, n, r)
  BY <1>1, <1>2, KeysPlaced DEF Rotates, SearchTree
<1> HIDE DEF ord
<1>4. Site(I, root, L, R, P, ord, anc, n, r) /\ Linked(I, root, L, R, P)
  BY <1>3, RotationSite DEF Rotates
<1>5. /\ r \in I /\ P[n] \in I \cup {None} /\ L[r] \in I \cup {None}
      /\ n # r /\ P[n] # n
  BY <1>3, <1>4 DEF Site, Linked, Rotates, Places
<1>6. L[r] # r
  BY <1>3, <1>5 DEF Rotates, Ordered, Places
<1>7. L[r] = a[r].left
  BY <1>5 DEF Lefts
<1>8. Edit(a, b, RotL(I, L, P, n, r), RotR(I, L, R, P, n, r), RotP(I, L, P, n, r))
  <2> HIDE DEF b, L, R, P
  <2>1. a[n].parent \in I \cup {None} /\ a[r].left \in I \cup {None} /\ n # r
        /\ a[n].parent # n /\ a[r].left # r /\ r \in I
    BY <1>2, <1>5, <1>6, <1>7
  <2> QED
    BY <2>1, LeftRotateEdit DEF b, L, R, P
<1>9. Linked(I, top, RotL(I, L, P, n, r), RotR(I, L, R, P, n, r), RotP(I, L, P, n, r))
  <2> HIDE DEF I, L, R, P
  <2> QED
    BY <1>3, RotationLinked
<1>10. Ordered(I, top, RotL(I, L, P, n, r), RotR(I, L, R, P, n, r), ord, RotAnc(I, ord, anc, n, r))
  <2> HIDE DEF I, L, R, P
  <2> QED
    BY <1>3, RotationOrdered
<1>11. DOMAIN b = I /\ KeyOrder(b) = ord
  BY <1>8 DEF Edit, SameRecords, KeyOrder, ord
<1> HIDE DEF b, I, L, R, P
<1>12. SearchTree(b, top)
  <2>1. Lefts(b) = RotL(I, L, P, n, r) /\ Rights(b) = RotR(I, L, R, P, n, r)
        /\ Parents(b) = RotP(I, L, P, n, r)
    BY <1>8 DEF Edit
  <2>2. Ordered(DOMAIN b, top, Lefts(b), Rights(b), KeyOrder(b), RotAnc(I, ord, anc, n, r))
    BY <1>10, <1>11, <2>1
  <2>3. Linked(DOMAIN b, top, Lefts(b), Rights(b), Parents(b))
    BY <1>9, <1>11, <2>1
  <2> QED
    BY <2>2, <2>3 DEF SearchTree
<1> QED
  BY <1>2, <1>3, <1>8, <1>12 DEF I, L, R, P, b

\* The same for right_rotate.
LEMMA RightRotated ==
    ASSUME NEW a, NEW root, IsArena(a), SearchTree(a, root),
           NEW n \in DOMAIN a, NEW l, l = a[n].left, l # None
    PROVE  /\ Edit(a, right_rotate(a, n),
                   RotR(DOMAIN a, Rights(a), Lefts(a), Parents(a), n, l),
                   RotL(DOMAIN a, Rights(a), Parents(a), n, l),
                   RotP(DOMAIN a, Rights(a), Parents(a), n, l))
           /\ SearchTree(right_rotate(a, n), IF a[n].parent = None THEN l ELSE root)
           /\ \E ord, anc : Rotates(DOMAIN a, root, Rights(a), Lefts(a), Parents(a), ord, anc, n, l)
<1> DEFINE I == DOMAIN a
           L == Lefts(a)
           R == Rights(a)
           P == Parents(a)
           ord == KeyOrder(a)
           neg == [i \in I |-> -ord[i]]
           twice == [i \in I |-> -neg[i]]
           b == right_rotate(a, n)
           top == IF P[n] = None THEN l ELSE root
<1>1. PICK anc : Ordered(I, root, L, R, ord, anc)
  BY DEF SearchTree
<1>2. L[n] = l /\ P[n] = a[n].parent
  BY DEF Lefts, Parents
<1>3. ord \in [I -> Int] /\ neg \in [I -> Int] /\ twice = ord /\ Places(I, ord)
  <2>1. Places(I, ord)
    BY KeysPlaced
  <2>2. ord \in [I -> Int]
    BY <2>1 DEF Places
  <2>3. neg \in [I -> Int]
    BY <2>2
  <2>4. twice = ord
    <3> HIDE DEF ord
    <3> QED
      BY <2>2
  <2> QED
    BY <2>1, <2>2, <2>3, <2>4
<1>4. Linked(I, root, L, R, P)
  BY DEF SearchTree
<1> HIDE DEF I, L, R, P, ord, b, twice
<1>5. Linked(I, root, R, L, P) /\ Ordered(I, root, R, L, neg, anc) /\ Places(I, neg)
  BY <1>1, <1>3, <1>4, Mirror
<1> HIDE DEF neg
<1>6. Rotates(I, root, R, L, P, neg, anc, n, l)
  BY <1>2, <1>5 DEF Rotates, I
<1>7. Site(I, root, R, L, P, neg, anc, n, l)
  BY <1>6, RotationSite
<1>8. /\ l \in I /\ P[n] \in I \cup {None} /\ R[l] \in I \cup {None}
      /\ n # l /\ P[n] # n
      /\ P[n] # None => (L[P[n]] = n) # (R[P[n]] = n)
  BY <1>5, <1>6, <1>7 DEF Site, Linked, Rotates, Places
<1>9. R[l] # l
  BY <1>6, <1>8 DEF Rotates, Ordered, Places
<1>10. Edit(a, b, RotR(I, R, L, P, n, l), RotL(I, R, P, n, l), RotP(I, R, P, n, l))
  <2>1. R[l] = a[l].right
    BY <1>8 DEF R, I, Rights
  <2>2. P[n] \in I => L[P[n]] = a[P[n]].left /\ R[P[n]] = a[P[n]].right
    BY DEF L, R, I, Lefts, Rights
  <2>3. a[n].parent \in I \cup {None} /\ a[l].right \in I \cup {None} /\ n # l
        /\ a[n].parent # n /\ a[l].right # l /\ l \in I
    BY <1>2, <1>8, <1>9, <2>1
  <2>4. a[n].parent # None => (a[a[n].parent].left = n) # (a[a[n].parent].right = n)
    BY <1>2, <1>8, <2>2
  <2> QED
    BY <2>3, <2>4, RightRotateEdit DEF b, L, R, P, I
<1>11. Linked(I, top, RotL(I, R, P, n, l), RotR(I, R, L, P, n, l), RotP(I, R, P, n, l))
  BY <1>6, RotationLinked
<1>12. Ordered(I, top, RotL(I, R, P, n, l), RotR(I, R, L, P, n, l), neg, RotAnc(I, neg, anc, n, l))
  BY <1>6, RotationOrdered
<1>13. DOMAIN b = I /\ KeyOrder(b) = ord
  BY <1>10 DEF Edit, SameRecords, KeyOrder, ord, I
<1>14. Lefts(b) = RotR(I, R, L, P, n, l) /\ Rights(b) = RotL(I, R, P, n, l)
       /\ Parents(b) = RotP(I, R, P, n, l)
  BY <1>10 DEF Edit
<1> HIDE DEF top
<1>15. Linked(I, top, Lefts(b), Rights(b), Parents(b))
  <2>1. Linked(I, top, Rights(b), Lefts(b), Parents(b))
    BY <1>11, <1>14 DEF top
  <2> QED
    BY <2>1 DEF Linked
<1>16. Ordered(I, top, Lefts(b), Rights(b), ord, RotAnc(I, neg, anc, n, l))
  <2>1. Ordered(I, top, Rights(b), Lefts(b), neg, RotAnc(I, neg, anc, n, l))
    BY <1>12, <1>14 DEF top
  <2>2. Ordered(I, top, Lefts(b), Rights(b), twice, RotAnc(I, neg, anc, n, l))
    BY <1>3, <2>1, Mirror DEF twice
  <2> QED
    BY <1>3, <2>2
<1>17. SearchTree(b, top)
  BY <1>13, <1>15, <1>16 DEF SearchTree
<1> QED
  BY <1>2, <1>6, <1>10, <1>17 DEF I, L, R, P, b, top

----------------------------------------------------------------------------
(* Colours.                                                                *)

\* The rules on colours while the loop of insert_fix_tree has f in hand.
Coloured(I, root, P, col, f) ==
    /\ col \in [I -> {"red", "black"}]
    /\ root # f => col[root] = "black"
    /\ \A i \in I \ {root, f} : col[i] = "red" => col[P[i]] = "black"
    /\ f # None => f \in I /\ col[f] = "red"

\* count[i] are the black nodes from i up to the root, as many above every
\* missing child.
Balanced(I, L, R, P, col, count) ==
    /\ count \in [I -> Nat]
    /\ \A i \in I : count[i] = (IF col[i] = "black" THEN 1 ELSE 0)
                                 + (IF P[i] = None THEN 0 ELSE count[P[i]])
    /\ \A i, j \in I : None \in {L[i], R[i]} /\ None \in {L[j], R[j]} => count[i] = count[j]

\* The child in hand takes the place of its red parent.
LEMMA InnerRotation ==
    ASSUME NEW I, NEW root, NEW L, NEW R, NEW P, NEW ord, NEW anc, NEW n, NEW r,
           NEW col, NEW count,
           Rotates(I, root, L, R, P, ord, anc, n, r),
           Coloured(I, root, P, col, r), Balanced(I, L, R, P, col, count), col[n] = "red"
    PROVE  /\ P[n] # None
           /\ Coloured(I, root, RotP(I, L, P, n, r), col, n)
           /\ Balanced(I, RotL(I, L, P, n, r), RotR(I, L, R, P, n, r), RotP(I, L, P, n, r),
                       col, count)
<1> DEFINE L2 == RotL(I, L, P, n, r)
           R2 == RotR(I, L, R, P, n, r)
           P2 == RotP(I, L, P, n, r)
<1>0. Site(I, root, L, R, P, ord, anc, n, r) /\ n \in I /\ r = R[n] /\ r # None
      /\ Linked(I, root, L, R, P) /\ None \notin I
  BY RotationSite DEF Rotates, Places
<1>1. r \in I /\ P[r] = n /\ n # r /\ r # root /\ n # None /\ root # r
  BY <1>0 DEF Site
<1>2. n # root /\ P[n] # None /\ P[n] \in I /\ col[P[n]] = "black" /\ col[r] = "red"
  BY <1>0, <1>1 DEF Site, Coloured
<1>3. /\ L \in [I -> I \cup {None}] /\ R \in [I -> I \cup {None}] /\ P \in [I -> I \cup {None}]
      /\ \A i \in I : i # root => P[i] # None
      /\ \A i \in I : L[i] # None => P[L[i]] = i
      /\ root \in I
  BY <1>0 DEF Linked
<1>4. P2[n] = r /\ P2[r] = P[n]
      /\ \A i \in I : i \notin {n, r} => P2[i] = IF i = L[r] THEN n ELSE P[i]
  BY <1>0, <1>1 DEF RotP
<1>5. Coloured(I, root, P2, col, n)
  <2>1. ASSUME NEW i \in I \ {root, n}, col[i] = "red" PROVE col[P2[i]] = "black"
    <3>1. CASE i = r
      BY <1>2, <1>4, <3>1
    <3>2. CASE i # r /\ i = L[r]
      BY <1>2, <1>3, <1>1, <1>0, <2>1, <3>2 DEF Coloured
    <3>3. CASE i # r /\ i # L[r]
      BY <1>4, <2>1, <3>3 DEF Coloured
    <3> QED
      BY <3>1, <3>2, <3>3
  <2> HIDE DEF P2
  <2> QED
    BY <1>0, <1>1, <1>2, <2>1 DEF Coloured
<1>6. Balanced(I, L2, R2, P2, col, count)
  <2>1. count \in [I -> Nat] /\ count[n] = count[r] /\ count[r] = count[P[n]]
    BY <1>0, <1>1, <1>2 DEF Balanced
  <2>2. ASSUME NEW i \in I
        PROVE  count[i] = (IF col[i] = "black" THEN 1 ELSE 0)
                            + (IF P2[i] = None THEN 0 ELSE count[P2[i]])
    <3>1. CASE i = n
      BY <1>0, <1>1, <1>2, <1>4, <2>1, <3>1
    <3>2. CASE i = r
      BY <1>0, <1>1, <1>2, <1>4, <2>1, <3>2
    <3>3. CASE i \notin {n, r} /\ i = L[r]
      <4>1. P[i] = r /\ P2[i] = n /\ r # None /\ n # None
        BY <1>0, <1>1, <1>3, <1>4, <3>3
      <4> QED
        BY <2>1, <4>1 DEF Balanced
    <3>4. CASE i \notin {n, r} /\ i # L[r]
      <4>1. P2[i] = P[i]
        BY <1>4, <3>4
      <4> QED
        BY <4>1 DEF Balanced
    <3> QED
      BY <3>1, <3>2, <3>3, <3>4
  <2>3. ASSUME NEW i \in I, None \in {L2[i], R2[i]}
        PROVE  \E j \in I : count[j] = count[i] /\ None \in {L[j], R[j]}
    <3>1. CASE i = n
      BY <1>0, <1>1, <2>1, <2>3, <3>1 DEF RotL, RotR
    <3>2. CASE i = r
      BY <1>0, <1>1, <2>1, <2>3, <3>2 DEF RotL, RotR
    <3>3. CASE i \notin {n, r}
      BY <1>0, <2>3, <3>3 DEF RotL, RotR
    <3> QED
      BY <3>1, <3>2, <3>3
  <2> HIDE DEF L2, R2, P2
  <2>4. ASSUME NEW i \in I, NEW j \in I, None \in {L2[i], R2[i]}, None \in {L2[j], R2[j]}
        PROVE  count[i] = count[j]
    BY <2>3, <2>4 DEF Balanced
  <2> QED
    BY <2>1, <2>2, <2>4 DEF Balanced
<1> QED
  BY <1>2, <1>5, <1>6

\* The red parent takes the place of the grandparent and the two exchange
\* colours.
LEMMA OuterRotation ==
    ASSUME NEW I, NEW root, NEW L, NEW R, NEW P, NEW ord, NEW anc, NEW n, NEW r,
           NEW col, NEW count, NEW f,
           Rotates(I, root, L, R, P, ord, anc, n, r),
           Coloured(I, root, P, col, f), Balanced(I, L, R, P, col, count),
           f # None, P[f] = r, f # L[r], col[r] = "red", L[n] # None => col[L[n]] = "black"
    PROVE  /\ Coloured(I, IF P[n] = None THEN r ELSE root, RotP(I, L, P, n, r),
                       [col EXCEPT ![r] = "black", ![n] = "red"], None)
           /\ Balanced(I, RotL(I, L, P, n, r), RotR(I, L, R, P, n, r), RotP(I, L, P, n, r),
                       [col EXCEPT ![r] = "black", ![n] = "red"], count)
<1> DEFINE L2 == RotL(I, L, P, n, r)
           R2 == RotR(I, L, R, P, n, r)
           P2 == RotP(I, L, P, n, r)
           C2 == [col EXCEPT ![r] = "black", ![n] = "red"]
           top == IF P[n] = None THEN r ELSE root
<1>0. Site(I, root, L, R, P, ord, anc, n, r) /\ n \in I /\ r = R[n] /\ r # None
      /\ Linked(I, root, L, R, P) /\ None \notin I
  BY RotationSite DEF Rotates, Places
<1>1. r \in I /\ P[r] = n /\ n # r /\ r # root /\ n # None /\ (P[n] = None => n = root)
  BY <1>0 DEF Site
<1>2. /\ L \in [I -> I \cup {None}] /\ R \in [I -> I \cup {None}] /\ P \in [I -> I \cup {None}]
      /\ \A i \in I : i # root => P[i] # None /\ i \in {L[P[i]], R[P[i]]}
      /\ \A i \in I : L[i] # None => P[L[i]] = i
      /\ \A i \in I : R[i] # None => P[R[i]] = i
      /\ root \in I /\ P[root] = None
  BY <1>0 DEF Linked
<1>3. f \in I /\ col[f] = "red" /\ col \in [I -> {"red", "black"}]
  BY DEF Coloured
<1>4. f # root /\ f # n /\ f # r
  <2>1. P[n] # r
    BY <1>0, <1>1 DEF Site
  <2> QED
    BY <1>0, <1>1, <1>2, <2>1
<1>5. col[n] = "black" /\ col[root] = "black"
  BY <1>1, <1>4 DEF Coloured
<1>6. /\ P2[n] = r /\ P2[r] = P[n]
      /\ \A i \in I : i \notin {n, r} => P2[i] = IF i = L[r] THEN n ELSE P[i]
  BY <1>0, <1>1 DEF RotP
<1>7. /\ C2 \in [I -> {"red", "black"}] /\ C2[r] = "black" /\ C2[n] = "red"
      /\ \A i \in I : i \notin {n, r} => C2[i] = col[i]
  BY <1>0, <1>1, <1>3
<1>8. L[r] \in I => col[L[r]] = "black"
  <2>1. ASSUME L[r] \in I PROVE L[r] # root /\ L[r] # f /\ P[L[r]] = r
    BY <1>0, <1>1, <1>2, <2>1
  <2> QED
    BY <1>3, <2>1 DEF Coloured
<1> HIDE DEF C2, P2
<1>9. Coloured(I, top, P2, C2, None)
  <2>1. ASSUME NEW i \in I \ {top}, C2[i] = "red" PROVE C2[P2[i]] = "black"
    <3>1. CASE i = n
      BY <1>6, <1>7, <3>1
    <3>2. CASE i # n /\ i = L[r]
      BY <1>0, <1>1, <1>2, <1>7, <1>8, <2>1, <3>2
    <3>3. CASE i # n /\ i # L[r]
      <4>1. i # r /\ C2[i] = col[i] /\ P2[i] = P[i]
        BY <1>6, <1>7, <2>1, <3>3
      <4>2. i # root
        BY <1>5, <2>1, <4>1
      <4>3. CASE P[i] = n
        <5>1. i = L[n]
          BY <1>0, <1>2, <4>1, <4>2, <4>3
        <5> QED
          BY <1>0, <2>1, <4>1, <5>1
      <4>4. CASE P[i] = r
        BY <1>7, <4>1, <4>4
      <4>5. CASE P[i] # n /\ P[i] # r
        <5>1. P[i] \in I /\ i # f
          BY <1>2, <4>2, <4>5
        <5>2. col[P[i]] = "black"
          BY <2>1, <4>1, <4>2, <5>1 DEF Coloured
        <5> QED
          BY <1>7, <4>1, <4>5, <5>1, <5>2
      <4> QED
        BY <4>3, <4>4, <4>5
    <3> QED
      BY <3>1, <3>2, <3>3
  <2>2. C2[top] = "black"
    <3>1. CASE P[n] = None
      BY <1>7, <3>1
    <3>2. CASE P[n] # None
      <4>1. root # n /\ root # r
        BY <1>0, <1>1, <1>2, <3>2
      <4> QED
        BY <1>2, <1>5, <1>7, <3>2, <4>1
    <3> QED
      BY <3>1, <3>2
  <2> HIDE DEF top
  <2> QED
    BY <1>7, <2>1, <2>2 DEF Coloured
<1>10. Balanced(I, L2, R2, P2, C2, count)
  <2>1. /\ count \in [I -> Nat] /\ count[n] = count[r]
        /\ count[n] = 1 + (IF P[n] = None THEN 0 ELSE count[P[n]])
    <3>1. count \in [I -> Nat] /\ count[r] = count[n]
      BY <1>0, <1>1 DEF Balanced
    <3>2. count[n] = 1 + (IF P[n] = None THEN 0 ELSE count[P[n]])
      BY <1>0, <1>5 DEF Balanced
    <3> QED
      BY <3>1, <3>2
  <2>2. ASSUME NEW i \in I
        PROVE  count[i] = (IF C2[i] = "black" THEN 1 ELSE 0)
                            + (IF P2[i] = None THEN 0 ELSE count[P2[i]])
    <3>1. CASE i = n
      <4>1. C2[i] = "red" /\ P2[i] = r /\ r # None
        BY <1>0, <1>6, <1>7, <3>1
      <4>2. count[i] \in Nat /\ count[i] = count[r]
        BY <1>1, <2>1, <3>1
      <4> QED
        BY <4>1, <4>2
    <3>2. CASE i = r
      BY <1>0, <1>1, <1>6, <1>7, <2>1, <3>2
    <3>3. CASE i \notin {n, r} /\ i = L[r]
      <4>1. P[i] = r /\ P2[i] = n /\ r # None /\ n # None /\ C2[i] = col[i]
        BY <1>0, <1>1, <1>2, <1>6, <1>7, <3>3
      <4>2. count[i] = (IF col[i] = "black" THEN 1 ELSE 0) + count[r]
        BY <4>1 DEF Balanced
      <4> QED
        BY <2>1, <4>1, <4>2
    <3>4. CASE i \notin {n, r} /\ i # L[r]
      <4>1. P2[i] = P[i] /\ C2[i] = col[i]
        BY <1>6, <1>7, <3>4
      <4> QED
        BY <4>1 DEF Balanced
    <3> QED
      BY <3>1, <3>2, <3>3, <3>4
  <2>3. ASSUME NEW i \in I, None \in {L2[i], R2[i]}
        PROVE  \E j \in I : count[j] = count[i] /\ None \in {L[j], R[j]}
    <3>1. CASE i = n
      BY <1>0, <1>1, <2>1, <2>3, <3>1 DEF RotL, RotR
    <3>2. CASE i = r
      BY <1>0, <1>1, <2>1, <2>3, <3>2 DEF RotL, RotR
    <3>3. CASE i \notin {n, r}
      BY <1>0, <2>3, <3>3 DEF RotL, RotR
    <3> QED
      BY <3>1, <3>2, <3>3
  <2> HIDE DEF L2, R2
  <2>4. ASSUME NEW i \in I, NEW j \in I, None \in {L2[i], R2[i]}, None \in {L2[j], R2[j]}
        PROVE  count[i] = count[j]
    BY <2>3, <2>4 DEF Balanced
  <2> QED
    BY <2>1, <2>2, <2>4 DEF Balanced
<1> QED
  BY <1>9, <1>10 DEF C2, P2

\* The loop ends at a node that is the root or under a black parent.
LEMMA BlackenRoot ==
    ASSUME NEW I, NEW root, NEW L, NEW R, NEW P, NEW col, NEW count, NEW f,
           Linked(I, root, L, R, P), None \notin I,
           Coloured(I, root, P, col, f), Balanced(I, L, R, P, col, count),
           f # None, P[f] # None => col[P[f]] # "red"
    PROVE  /\ Coloured(I, root, P, [col EXCEPT ![root] = "black"], None)
           /\ \E c : Balanced(I, L, R, P, [col EXCEPT ![root] = "black"], c)
<1> DEFINE C2 == [col EXCEPT ![root] = "black"]
           more == [i \in I |-> count[i] + 1]
<1>1. /\ root \in I /\ P[root] = None /\ P \in [I -> I \cup {None}]
      /\ \A i \in I : i # root => P[i] # None
  BY DEF Linked
<1>2. /\ C2 \in [I -> {"red", "black"}] /\ C2[root] = "black"
      /\ \A i \in I : i # root => C2[i] = col[i]
  BY <1>1 DEF Coloured
<1> HIDE DEF C2
<1>3. ASSUME NEW i \in I \ {root}, C2[i] = "red" PROVE C2[P[i]] = "black"
  <2>1. P[i] \in I /\ P[i] # None /\ col[i] = "red" /\ col[P[i]] \in {"red", "black"}
    BY <1>1, <1>2, <1>3 DEF Coloured
  <2>2. col[P[i]] = "black"
    BY <2>1 DEF Coloured
  <2> QED
    BY <1>2, <2>1, <2>2
<1>4. Coloured(I, root, P, C2, None)
  BY <1>1, <1>2, <1>3 DEF Coloured
<1>5. CASE col[root] = "black"
  <2>1. C2 = col
    BY <1>5 DEF C2, Coloured
  <2> QED
    BY <1>4, <2>1 DEF C2
<1>6. CASE col[root] # "black"
  <2>1. more \in [I -> Nat] /\ count \in [I -> Nat]
    BY DEF Balanced
  <2>2. ASSUME NEW i \in I
        PROVE  more[i] = (IF C2[i] = "black" THEN 1 ELSE 0)
                           + (IF P[i] = None THEN 0 ELSE more[P[i]])
    <3>1. CASE i = root
      <4>1. count[i] = 0
        BY <1>1, <1>6, <3>1 DEF Balanced
      <4> QED
        BY <1>1, <1>2, <3>1, <4>1
    <3>2. CASE i # root
      <4>1. P[i] \in I /\ P[i] # None /\ C2[i] = col[i]
        BY <1>1, <1>2, <3>2
      <4>2. count[i] = (IF col[i] = "black" THEN 1 ELSE 0) + count[P[i]]
        BY <4>1 DEF Balanced
      <4>3. more[i] = count[i] + 1 /\ more[P[i]] = count[P[i]] + 1
        BY <4>1
      <4> QED
        BY <2>1, <4>1, <4>2, <4>3
    <3> QED
      BY <3>1, <3>2
  <2>3. \A i, j \in I : None \in {L[i], R[i]} /\ None \in {L[j], R[j]} => more[i] = more[j]
    BY DEF Balanced
  <2> HIDE DEF more
  <2>4. Balanced(I, L, R, P, C2, more)
    BY <2>1, <2>2, <2>3 DEF Balanced
  <2> QED
    BY <1>4, <2>4 DEF C2
<1> QED
  BY <1>5, <1>6

\* A black node g with two red children, p and u, and the node in hand under p.
RedFamily(I, L, R, P, col, f, p, g, u) ==
    /\ f \in I /\ p \in I /\ g \in I /\ u \in I
    /\ P[f] = p /\ P[p] = g /\ P[u] = g /\ P[g] # g
    /\ col[p] = "red" /\ col[u] = "red" /\ col[g] = "black"
    /\ u # p /\ f # p /\ f # g /\ {L[g], R[g]} = {p, u}

\* A red parent and a red uncle turn black, the grandparent red.
LEMMA Recolouring ==
    ASSUME NEW I, NEW root, NEW L, NEW R, NEW P, NEW col, NEW count, NEW f, NEW p, NEW g, NEW u,
           Linked(I, root, L, R, P), None \notin I,
           Coloured(I, root, P, col, f), Balanced(I, L, R, P, col, count),
           RedFamily(I, L, R, P, col, f, p, g, u)
    PROVE  /\ Coloured(I, root, P, [col EXCEPT ![u] = "black", ![p] = "black", ![g] = "red"], g)
           /\ \E c : Balanced(I, L, R, P, [col EXCEPT ![u] = "black", ![p] = "black", ![g] = "red"], c)
<1> DEFINE C2 == [col EXCEPT ![u] = "black", ![p] = "black", ![g] = "red"]
           less == [count EXCEPT ![g] = @ - 1]
<1>0. /\ f \in I /\ p \in I /\ g \in I /\ u \in I
      /\ P[f] = p /\ P[p] = g /\ P[u] = g /\ P[g] # g
      /\ col[p] = "red" /\ col[u] = "red" /\ col[g] = "black"
      /\ u # p /\ f # p /\ f # g /\ {L[g], R[g]} = {p, u}
  BY DEF RedFamily
<1>1. /\ root \in I /\ P[root] = None /\ P \in [I -> I \cup {None}]
      /\ \A i \in I : i # root => P[i] # None /\ i \in {L[P[i]], R[P[i]]}
  BY DEF Linked
<1>2. g # p /\ g # u /\ p # None /\ g # None /\ root # p /\ root # u /\ root # f
  BY <1>0, <1>1
<1>3. /\ C2 \in [I -> {"red", "black"}] /\ C2[g] = "red" /\ C2[p] = "black" /\ C2[u] = "black"
      /\ \A i \in I : i \notin {g, p, u} => C2[i] = col[i]
  BY <1>0, <1>2 DEF Coloured
<1>4. col[root] = "black"
  BY <1>0, <1>2 DEF Coloured
<1>5. \A i \in I : i \notin {g, p, u} => P[i] # g
  BY <1>0, <1>1, <1>2
<1> HIDE DEF C2
<1>6. ASSUME NEW i \in I \ {root, g}, C2[i] = "red" PROVE C2[P[i]] = "black"
  <2>1. P[i] \in I /\ P[i] # g /\ col[i] = "red" /\ i \notin {g, p, u}
    BY <1>0, <1>1, <1>3, <1>5, <1>6
  <2>2. CASE i = f
    BY <1>0, <1>3, <2>2
  <2>3. CASE i # f
    <3>1. col[P[i]] = "black"
      BY <1>0, <1>6, <2>1, <2>3 DEF Coloured
    <3> QED
      BY <1>0, <1>3, <2>1, <3>1
  <2> QED
    BY <1>0, <2>2, <2>3
<1>7. Coloured(I, root, P, C2, g)
  <2>1. root # g => C2[root] = "black"
    BY <1>0, <1>1, <1>2, <1>3, <1>4
  <2> QED
    BY <1>0, <1>3, <1>6, <2>1 DEF Coloured
<1>8. count \in [I -> Nat] /\ count[g] = 1 + (IF P[g] = None THEN 0 ELSE count[P[g]])
  BY <1>0 DEF Balanced
<1>9. count[p] = count[g] /\ count[u] = count[g]
  <2>1. count[p] = 0 + count[g] /\ count[u] = 0 + count[g]
    BY <1>0, <1>2 DEF Balanced
  <2> QED
    BY <1>0, <1>8, <2>1
<1>10. less \in [I -> Nat] /\ less[g] = count[g] - 1 /\ \A i \in I : i # g => less[i] = count[i]
  <2>1. P[g] \in I \cup {None} /\ count[g] \in Nat /\ (P[g] # None => count[P[g]] \in Nat)
    BY <1>0, <1>1, <1>8
  <2>2. count[g] - 1 \in Nat
    BY <1>0, <1>8, <2>1
  <2> QED
    BY <1>0, <1>8, <2>2
<1> HIDE DEF less
<1>11. ASSUME NEW i \in I
       PROVE  less[i] = (IF C2[i] = "black" THEN 1 ELSE 0)
                          + (IF P[i] = None THEN 0 ELSE less[P[i]])
  <2>1. CASE i = g
    <3>1. P[g] # None => less[P[g]] = count[P[g]] /\ count[P[g]] \in Nat
      BY <1>0, <1>1, <1>8, <1>10
    <3>2. less[g] = (IF P[g] = None THEN 0 ELSE count[P[g]])
      BY <1>0, <1>8, <1>10, <3>1
    <3> QED
      BY <1>0, <1>3, <2>1, <3>1, <3>2
  <2>2. CASE i = p \/ i = u
    <3>1. less[i] = count[g] /\ C2[i] = "black" /\ P[i] = g
      BY <1>0, <1>2, <1>3, <1>9, <1>10, <2>2
    <3> QED
      BY <1>0, <1>2, <1>8, <1>10, <3>1
  <2>3. CASE i \notin {g, p, u}
    <3>1. P[i] \in I \cup {None} /\ P[i] # g /\ C2[i] = col[i] /\ less[i] = count[i]
      BY <1>0, <1>1, <1>3, <1>5, <1>10, <2>3
    <3>2. P[i] # None => less[P[i]] = count[P[i]]
      BY <1>0, <1>10, <3>1
    <3>3. count[i] = (IF col[i] = "black" THEN 1 ELSE 0)
                       + (IF P[i] = None THEN 0 ELSE count[P[i]])
      BY <1>0 DEF Balanced
    <3> QED
      BY <1>0, <3>1, <3>2, <3>3
  <2> QED
    BY <1>0, <2>1, <2>2, <2>3
<1>12. ASSUME NEW i \in I, NEW j \in I, None \in {L[i], R[i]}, None \in {L[j], R[j]}
       PROVE  less[i] = less[j]
  <2>1. i # g /\ j # g
    BY <1>0, <1>12
  <2> QED
    BY <1>0, <1>10, <1>12, <2>1 DEF Balanced
<1>13. Balanced(I, L, R, P, C2, less)
  BY <1>0, <1>10, <1>11, <1>12 DEF Balanced
<1> QED
  BY <1>0, <1>7, <1>13 DEF C2

Colors(a) == [i \in DOMAIN a |-> a[i].color]

\* The red-black rules of an arena while the loop has f in hand.
Coloring(a, root, f) ==
    /\ Coloured(DOMAIN a, root, Parents(a), Colors(a), f)
    /\ \E c : Balanced(DOMAIN a, Lefts(a), Rights(a), Parents(a), Colors(a), c)

\* b is a with these colours.
Recolours(a, b, C) ==
    /\ SameRecords(a, b)
    /\ Lefts(b) = Lefts(a) /\ Rights(b) = Rights(a) /\ Parents(b) = Parents(a)
    /\ Colors(b) = C

\* Setting a colour changes that colour only.
LEMMA SetColor ==
    ASSUME NEW a, IsArena(a), NEW i \in DOMAIN a, NEW c \in {"red", "black"}
    PROVE  Recolours(a, [a EXCEPT ![i].color = c], [Colors(a) EXCEPT ![i] = c])
<1> DEFINE b == [a EXCEPT ![i].color = c]
<1>1. /\ DOMAIN b = DOMAIN a /\ a[i] \in TreeNode /\ b[i] = [a[i] EXCEPT !.color = c]
      /\ \A j \in DOMAIN a : a[j] \in TreeNode /\ (j # i => b[j] = a[j])
  BY DEF IsArena
<1>2. /\ b[i] \in TreeNode /\ b[i].parent = a[i].parent /\ b[i].left = a[i].left
      /\ b[i].right = a[i].right /\ b[i].record = a[i].record /\ b[i].color = c
  BY <1>1 DEF TreeNode
<1>3. b \in [DOMAIN b -> TreeNode]
  BY <1>1, <1>2 DEF IsArena
<1> HIDE DEF b
<1>4. SameRecords(a, b)
  BY <1>1, <1>2, <1>3 DEF SameRecords, IsArena
<1>5. Lefts(b) = Lefts(a) /\ Rights(b) = Rights(a) /\ Parents(b) = Parents(a)
  BY <1>1, <1>2 DEF Lefts, Rights, Parents
<1>6. Colors(b) = [Colors(a) EXCEPT ![i] = c]
  BY <1>1, <1>2 DEF Colors
<1> QED
  BY <1>4, <1>5, <1>6 DEF b, Recolours

\* One recolouring after another.
LEMMA RecoloursTwice ==
    ASSUME NEW a, NEW b, NEW c, NEW C, NEW C2, Recolours(a, b, C), Recolours(b, c, C2)
    PROVE  Recolours(a, c, C2)
BY DEF Recolours, SameRecords

\* The search does not see colours.
LEMMA RecolouredTree ==
    ASSUME NEW a, NEW b, NEW C, NEW root, Recolours(a, b, C), SearchTree(a, root)
    PROVE  IsArena(b) /\ SearchTree(b, root)
<1>1. IsArena(b) /\ DOMAIN b = DOMAIN a /\ KeyOrder(b) = KeyOrder(a)
      /\ Lefts(b) = Lefts(a) /\ Rights(b) = Rights(a) /\ Parents(b) = Parents(a)
  BY DEF Recolours, SameRecords, KeyOrder
<1> QED
  BY <1>1 DEF SearchTree

\* Rules on the colours given are rules on those of the new arena.
LEMMA RecolouredColoring ==
    ASSUME NEW a, NEW b, NEW C, NEW root, NEW f, Recolours(a, b, C),
           Coloured(DOMAIN a, root, Parents(a), C, f),
           \E c : Balanced(DOMAIN a, Lefts(a), Rights(a), Parents(a), C, c)
    PROVE  Coloring(b, root, f)
<1>1. DOMAIN b = DOMAIN a /\ Colors(b) = C
      /\ Lefts(b) = Lefts(a) /\ Rights(b) = Rights(a) /\ Parents(b) = Parents(a)
  BY DEF Recolours, SameRecords
<1> QED
  BY <1>1 DEF Coloring

----------------------------------------------------------------------------
(* The loop of insert_fix_tree.                                            *)

\* An arena that is a red-black tree but for the node in hand.
Grown(a, root, f) == IsArena(a) /\ SearchTree(a, root) /\ Coloring(a, root, f)

\* The end of the loop.
LEMMA FixDoneGrown ==
    ASSUME Grown(arena, root_node, fixing), FixDone
    PROVE  Grown(arena', root_node', fixing') /\ SameRecords(arena, arena')
<1> DEFINE I == Index
           L == Lefts(arena)
           R == Rights(arena)
           P == Parents(arena)
           C == Colors(arena)
           C2 == [C EXCEPT ![root_node] = "black"]
<1>1. /\ Linked(I, root_node, L, R, P) /\ None \notin I
      /\ Coloured(I, root_node, P, C, fixing)
  BY KeysPlaced DEF Grown, SearchTree, Coloring, Index, Places
<1>2. PICK count : Balanced(I, L, R, P, C, count)
  BY DEF Grown, Coloring, Index
<1>3. fixing \in I /\ root_node \in I /\ fixing # None /\ P \in [I -> I \cup {None}]
  BY <1>1 DEF FixDone, Coloured, Linked
<1>4. P[fixing] = Parent /\ (Parent # None => Parent \in I /\ C[Parent] = arena[Parent].color)
  BY <1>3 DEF Parent, Parents, Colors, Index
<1>5. P[fixing] # None => C[P[fixing]] # "red"
  BY <1>3, <1>4 DEF FixDone, RedParent
<1>6. Recolours(arena, arena', C2)
  BY <1>3, SetColor DEF FixDone, Grown, Index
<1> HIDE DEF I, L, R, P, C
<1>7. Coloured(I, root_node, P, C2, None) /\ \E c : Balanced(I, L, R, P, C2, c)
  BY <1>1, <1>2, <1>3, <1>5, BlackenRoot
<1> HIDE DEF C2
<1>8. Coloring(arena', root_node, None)
  BY <1>6, <1>7, RecolouredColoring DEF I, L, R, P, Index
<1>9. IsArena(arena') /\ SearchTree(arena', root_node)
  BY <1>6, RecolouredTree DEF Grown
<1> QED
  BY <1>6, <1>8, <1>9 DEF Grown, FixDone, Recolours

\* The nodes the loop looks at when the parent is red: the grandparent is
\* there and black, and has the parent on one side and the uncle on the other.
LEMMA RedParentSite ==
    ASSUME Grown(arena, root_node, fixing), RedParent
    PROVE  /\ fixing \in Index /\ Parent \in Index /\ Grandparent \in Index
           /\ fixing # Parent /\ fixing # Grandparent /\ Parent # Grandparent
           /\ fixing # root_node /\ Parent # root_node
           /\ arena[Parent].color = "red" /\ arena[Grandparent].color = "black"
           /\ arena[Parent].parent = Grandparent /\ arena[fixing].parent = Parent
           /\ arena[Grandparent].parent # Grandparent
           /\ \/ /\ arena[Grandparent].left = Parent /\ arena[Grandparent].right # Parent
                 /\ uncle = arena[Grandparent].right
              \/ /\ arena[Grandparent].right = Parent /\ arena[Grandparent].left # Parent
                 /\ uncle = arena[Grandparent].left
           /\ \/ arena[Parent].left = fixing /\ arena[Parent].right # fixing
              \/ arena[Parent].right = fixing /\ arena[Parent].left # fixing
           /\ uncle # None => uncle \in Index /\ arena[uncle].parent = Grandparent
<1> DEFINE I == Index
           L == Lefts(arena)
           R == Rights(arena)
           P == Parents(arena)
           C == Colors(arena)
           ord == KeyOrder(arena)
<1>1. /\ Linked(I, root_node, L, R, P) /\ None \notin I /\ ord \in [I -> Int]
      /\ Coloured(I, root_node, P, C, fixing)
  BY KeysPlaced DEF Grown, SearchTree, Coloring, Index, Places
<1>2. PICK anc : Ordered(I, root_node, L, R, ord, anc)
  BY DEF Grown, SearchTree, Index
<1>3. \A i \in I : L[i] = arena[i].left /\ R[i] = arena[i].right /\ P[i] = arena[i].parent
                   /\ C[i] = arena[i].color
  BY DEF Lefts, Rights, Parents, Colors, Index
<1> HIDE DEF I, L, R, P, C, ord
<1>4. /\ L \in [I -> I \cup {None}] /\ R \in [I -> I \cup {None}] /\ P \in [I -> I \cup {None}]
      /\ root_node \in I /\ P[root_node] = None
      /\ \A i \in I : i # root_node => P[i] # None /\ i \in {L[P[i]], R[P[i]]}
      /\ \A i \in I : L[i] # None => P[L[i]] = i
      /\ \A i \in I : R[i] # None => P[R[i]] = i
  BY <1>1 DEF Linked
\* A node is on one side of its parent and not above it.
<1>5. ASSUME NEW i \in I, P[i] # None
      PROVE  /\ P[i] \in I /\ P[i] # i /\ i # root_node /\ anc[i] = anc[P[i]] \cup {P[i]}
             /\ (L[P[i]] = i /\ R[P[i]] # i) \/ (R[P[i]] = i /\ L[P[i]] # i)
  <2>1. P[i] \in I /\ i # root_node /\ i \in {L[P[i]], R[P[i]]}
    BY <1>4, <1>5
  <2>2. anc[i] = anc[P[i]] \cup {P[i]}
    BY <1>1, <1>2, <2>1 DEF Ordered
  <2>3. P[i] # i
    BY <1>2, <2>1, <2>2 DEF Ordered
  <2>4. ord[i] \in Int /\ ord[P[i]] \in Int /\ P[i] \in anc[i]
    BY <1>1, <2>1, <2>2
  <2>5. ~(L[P[i]] = i /\ R[P[i]] = i)
    BY <1>2, <2>4 DEF Ordered
  <2> QED
    BY <2>1, <2>2, <2>3, <2>5
<1>6. fixing # None /\ Parent # None /\ arena[Parent].color = "red" /\ fixing \in I
  BY <1>1 DEF RedParent, Coloured
<1>7. P[fixing] = Parent /\ Parent \in I /\ Parent # fixing /\ fixing # root_node
      /\ anc[fixing] = anc[Parent] \cup {Parent}
      /\ ((L[Parent] = fixing /\ R[Parent] # fixing) \/ (R[Parent] = fixing /\ L[Parent] # fixing))
  BY <1>3, <1>5, <1>6 DEF Parent
<1>8. Parent # root_node /\ P[Parent] # None
  <2>1. C[Parent] = "red" /\ C[root_node] = "black"
    BY <1>1, <1>3, <1>6, <1>7 DEF Coloured
  <2> QED
    BY <1>4, <1>7, <2>1
<1>9. P[Parent] = Grandparent /\ Grandparent \in I /\ Grandparent # Parent
      /\ anc[Parent] = anc[Grandparent] \cup {Grandparent}
      /\ ((L[Grandparent] = Parent /\ R[Grandparent] # Parent)
            \/ (R[Grandparent] = Parent /\ L[Grandparent] # Parent))
  <2>1. P[Parent] = Grandparent
    BY <1>3, <1>7 DEF Grandparent
  <2> QED
    BY <1>5, <1>7, <1>8, <2>1
<1>10. C[Grandparent] = "black"
  BY <1>1, <1>3, <1>6, <1>7, <1>8, <1>9 DEF Coloured
<1>11. fixing # Grandparent
  <2>1. Grandparent \in anc[fixing]
    BY <1>7, <1>9
  <2> QED
    BY <1>2, <1>6, <2>1 DEF Ordered
<1>12. P[Grandparent] # Grandparent
  BY <1>1, <1>5, <1>9
<1>13. \/ arena[Grandparent].left = Parent /\ arena[Grandparent].right # Parent
          /\ uncle = R[Grandparent]
       \/ arena[Grandparent].right = Parent /\ arena[Grandparent].left # Parent
          /\ uncle = L[Grandparent]
  BY <1>3, <1>9 DEF uncle
<1>14. uncle # None => uncle \in I /\ P[uncle] = Grandparent
  BY <1>4, <1>9, <1>13
<1> QED
  BY <1>3, <1>6, <1>7, <1>8, <1>9, <1>10, <1>11, <1>12, <1>13, <1>14 DEF I

\* A turn with a red uncle.
LEMMA FixRecolorGrown ==
    ASSUME Grown(arena, root_node, fixing), FixRecolor
    PROVE  Grown(arena', root_node', fixing') /\ SameRecords(arena, arena')
<1> DEFINE I == Index
           L == Lefts(arena)
           R == Rights(arena)
           P == Parents(arena)
           C == Colors(arena)
           C1 == [C EXCEPT ![uncle] = "black"]
           C2 == [C1 EXCEPT ![Parent] = "black"]
           C3 == [C2 EXCEPT ![Grandparent] = "red"]
           a1 == [arena EXCEPT ![uncle].color = "black"]
           a2 == [a1 EXCEPT ![Parent].color = "black"]
           a3 == [a2 EXCEPT ![Grandparent].color = "red"]
<1>0. RedParent /\ RedUncle /\ IsArena(arena)
  BY DEF FixRecolor, Grown
<1>1. /\ Linked(I, root_node, L, R, P) /\ None \notin I
      /\ Coloured(I, root_node, P, C, fixing)
  BY KeysPlaced DEF Grown, SearchTree, Coloring, Index, Places
<1>2. PICK count : Balanced(I, L, R, P, C, count)
  BY DEF Grown, Coloring, Index
<1>3. /\ fixing \in I /\ Parent \in I /\ Grandparent \in I /\ uncle \in I
      /\ fixing # Parent /\ fixing # Grandparent /\ Parent # Grandparent /\ uncle # Parent
      /\ arena[Parent].color = "red" /\ arena[Grandparent].color = "black"
      /\ arena[uncle].color = "red"
      /\ arena[Parent].parent = Grandparent /\ arena[fixing].parent = Parent
      /\ arena[uncle].parent = Grandparent
      /\ arena[Grandparent].parent # Grandparent
      /\ {arena[Grandparent].left, arena[Grandparent].right} = {Parent, uncle}
  <2>1. uncle # None /\ arena[uncle].color = "red"
    BY <1>0 DEF RedUncle
  <2> QED
    BY <1>0, <2>1, RedParentSite
<1>4. /\ P[fixing] = Parent /\ P[Parent] = Grandparent /\ P[uncle] = Grandparent
      /\ P[Grandparent] # Grandparent
      /\ C[Parent] = "red" /\ C[uncle] = "red" /\ C[Grandparent] = "black"
      /\ {L[Grandparent], R[Grandparent]} = {Parent, uncle}
  BY <1>3 DEF Lefts, Rights, Parents, Colors, Index
<1>5. Recolours(arena, a1, C1)
  BY <1>0, <1>3, SetColor DEF Index
<1>6. arena' = a3
  BY DEF FixRecolor
<1> HIDE DEF a1
<1>7. IsArena(a1) /\ DOMAIN a1 = I /\ Colors(a1) = C1
  BY <1>5 DEF Recolours, SameRecords, Index
<1>8. Recolours(a1, a2, C2)
  <2>1. Recolours(a1, a2, [Colors(a1) EXCEPT ![Parent] = "black"])
    BY <1>3, <1>7, SetColor
  <2> QED
    BY <1>7, <2>1
<1> HIDE DEF a2
<1>9. IsArena(a2) /\ DOMAIN a2 = I /\ Colors(a2) = C2
  BY <1>7, <1>8 DEF Recolours, SameRecords
<1>10. Recolours(a2, a3, C3)
  <2>1. Recolours(a2, a3, [Colors(a2) EXCEPT ![Grandparent] = "red"])
    BY <1>3, <1>9, SetColor
  <2> QED
    BY <1>9, <2>1
<1> HIDE DEF a3
<1>11. Recolours(arena, a3, C3)
  <2>1. Recolours(arena, a2, C2)
    BY <1>5, <1>8, RecoloursTwice
  <2> QED
    BY <1>10, <2>1, RecoloursTwice
<1>12. C3 = [C EXCEPT ![uncle] = "black", ![Parent] = "black", ![Grandparent] = "red"]
  OBVIOUS
<1> HIDE DEF I, L, R, P, C
<1>13. /\ Coloured(I, root_node, P,
             [C EXCEPT ![uncle] = "black", ![Parent] = "black", ![Grandparent] = "red"], Grandparent)
       /\ \E c : Balanced(I, L, R, P,
             [C EXCEPT ![uncle] = "black", ![Parent] = "black", ![Grandparent] = "red"], c)
  <2>1. RedFamily(I, L, R, P, C, fixing, Parent, Grandparent, uncle)
    BY <1>3, <1>4 DEF RedFamily
  <2> QED
    BY <1>1, <1>2, <2>1, Recolouring
<1> HIDE DEF C3
<1>14. Coloring(a3, root_node, Grandparent)
  <2>1. Coloured(I, root_node, P, C3, Grandparent) /\ \E c : Balanced(I, L, R, P, C3, c)
    BY <1>12, <1>13
  <2> QED
    BY <1>11, <2>1, RecolouredColoring DEF I, L, R, P, Index
<1>15. IsArena(a3) /\ SearchTree(a3, root_node)
  BY <1>11, RecolouredTree DEF Grown
<1>16. root_node' = root_node /\ fixing' = Grandparent
  BY DEF FixRecolor
<1> QED
  BY <1>6, <1>11, <1>14, <1>15, <1>16 DEF Grown, Recolours

\* Colours after a rotation that keeps them.
LEMMA EditColoring ==
    ASSUME NEW a, NEW b, NEW L, NEW R, NEW P, NEW root, NEW f, Edit(a, b, L, R, P),
           Coloured(DOMAIN a, root, P, Colors(a), f),
           \E c : Balanced(DOMAIN a, L, R, P, Colors(a), c)
    PROVE  Coloring(b, root, f)
<1>1. DOMAIN b = DOMAIN a /\ Lefts(b) = L /\ Rights(b) = R /\ Parents(b) = P
  BY DEF Edit, SameRecords
<1>2. Colors(b) = Colors(a)
  BY <1>1 DEF Edit, Colors
<1> QED
  BY <1>1, <1>2 DEF Coloring

\* The sides of the rules on colours can be exchanged.
LEMMA BalancedMirror ==
    ASSUME NEW I, NEW L, NEW R, NEW P, NEW col, NEW count
    PROVE  Balanced(I, L, R, P, col, count) => Balanced(I, R, L, P, col, count)
BY DEF Balanced

\* A turn with an inner child.
LEMMA FixInnerGrown ==
    ASSUME Grown(arena, root_node, fixing), FixInner
    PROVE  Grown(arena', root_node', fixing') /\ SameRecords(arena, arena')
<1> DEFINE I == Index
           L == Lefts(arena)
           R == Rights(arena)
           P == Parents(arena)
           C == Colors(arena)
<1>0. RedParent /\ ~Outer /\ IsArena(arena) /\ SearchTree(arena, root_node)
  BY DEF FixInner, Grown
<1>1. Coloured(I, root_node, P, C, fixing)
  BY DEF Grown, Coloring, Index
<1>2. PICK count : Balanced(I, L, R, P, C, count)
  BY DEF Grown, Coloring, Index
<1>3. /\ fixing \in I /\ Parent \in I /\ Parent # root_node /\ fixing # None
      /\ arena[Parent].color = "red" /\ arena[Parent].parent # None
      /\ arena[Parent].left = fixing \/ arena[Parent].right = fixing
      /\ arena[Grandparent].left = Parent \/ arena[Grandparent].right = Parent
  <2>1. None \notin I
    BY <1>0, KeysPlaced DEF Places, Index
  <2> QED
    BY <1>0, <2>1, RedParentSite
<1>4. C[Parent] = "red" /\ P[Parent] = arena[Parent].parent
  BY <1>3 DEF Colors, Parents, Index
<1>5. root_node' = root_node /\ fixing' = Parent
  BY <1>3 DEF FixInner, RootAfter
<1>6. CASE IsLeft(Grandparent, Parent)
  <2>1. arena' = left_rotate(arena, Parent) /\ arena[Parent].right = fixing
    BY <1>0, <1>3, <1>6 DEF FixInner, Outer, IsLeft
  <2>2. /\ Edit(arena, arena', RotL(I, L, P, Parent, fixing), RotR(I, L, R, P, Parent, fixing),
                RotP(I, L, P, Parent, fixing))
        /\ SearchTree(arena', root_node)
        /\ \E ord, anc : Rotates(I, root_node, L, R, P, ord, anc, Parent, fixing)
    BY <1>0, <1>3, <2>1, LeftRotated DEF Index
  <2> HIDE DEF I, L, R, P, C
  <2>3. /\ Coloured(I, root_node, RotP(I, L, P, Parent, fixing), C, Parent)
        /\ Balanced(I, RotL(I, L, P, Parent, fixing), RotR(I, L, R, P, Parent, fixing),
                    RotP(I, L, P, Parent, fixing), C, count)
    BY <1>1, <1>2, <1>4, <2>2, InnerRotation
  <2>4. Coloring(arena', root_node, Parent)
    BY <2>2, <2>3, EditColoring DEF I, C, Index
  <2> QED
    BY <1>5, <2>2, <2>4 DEF Grown, Edit, SameRecords
<1>7. CASE ~IsLeft(Grandparent, Parent)
  <2>1. arena' = right_rotate(arena, Parent) /\ arena[Parent].left = fixing
    BY <1>0, <1>3, <1>7 DEF FixInner, Outer, IsLeft
  <2>2. /\ Edit(arena, arena', RotR(I, R, L, P, Parent, fixing), RotL(I, R, P, Parent, fixing),
                RotP(I, R, P, Parent, fixing))
        /\ SearchTree(arena', root_node)
        /\ \E ord, anc : Rotates(I, root_node, R, L, P, ord, anc, Parent, fixing)
    BY <1>0, <1>3, <2>1, RightRotated DEF Index
  <2> HIDE DEF I, L, R, P, C
  <2>3. Balanced(I, R, L, P, C, count)
    BY <1>2, BalancedMirror
  <2>4. /\ Coloured(I, root_node, RotP(I, R, P, Parent, fixing), C, Parent)
        /\ Balanced(I, RotL(I, R, P, Parent, fixing), RotR(I, R, L, P, Parent, fixing),
                    RotP(I, R, P, Parent, fixing), C, count)
    BY <1>1, <1>4, <2>2, <2>3, InnerRotation
  <2>5. Balanced(I, RotR(I, R, L, P, Parent, fixing), RotL(I, R, P, Parent, fixing),
                 RotP(I, R, P, Parent, fixing), C, count)
    BY <2>4, BalancedMirror
  <2>6. Coloring(arena', root_node, Parent)
    BY <2>2, <2>4, <2>5, EditColoring DEF I, C, Index
  <2> QED
    BY <1>5, <2>2, <2>6 DEF Grown, Edit, SameRecords
<1> QED
  BY <1>6, <1>7

\* Blackening a root that is black already.
LEMMA BlackRoot ==
    ASSUME NEW a, NEW root, Grown(a, root, None)
    PROVE  Grown([a EXCEPT ![root].color = "black"], root, None)
           /\ SameRecords(a, [a EXCEPT ![root].color = "black"])
<1> DEFINE b == [a EXCEPT ![root].color = "black"]
<1>1. /\ IsArena(a) /\ root \in DOMAIN a
      /\ Coloured(DOMAIN a, root, Parents(a), Colors(a), None)
      /\ \E c : Balanced(DOMAIN a, Lefts(a), Rights(a), Parents(a), Colors(a), c)
  BY DEF Grown, SearchTree, Linked, Coloring
<1>2. Recolours(a, b, [Colors(a) EXCEPT ![root] = "black"])
  BY <1>1, SetColor
<1>3. [Colors(a) EXCEPT ![root] = "black"] = Colors(a)
  <2>1. root # None
    BY <1>1, KeysPlaced DEF Places
  <2>2. Colors(a)[root] = "black"
    BY <1>1, <2>1 DEF Coloured
  <2> QED
    BY <1>1, <2>2 DEF Colors
<1>4. Recolours(a, b, Colors(a))
  BY <1>2, <1>3
<1> HIDE DEF b
<1>5. Coloring(b, root, None)
  BY <1>1, <1>4, RecolouredColoring
<1>6. IsArena(b) /\ SearchTree(b, root)
  BY <1>4, RecolouredTree DEF Grown
<1> QED
  BY <1>4, <1>5, <1>6 DEF Grown, Recolours, b

\* A turn with an outer child.
LEMMA FixOuterGrown ==
    ASSUME Grown(arena, root_node, fixing), FixOuter
    PROVE  Grown(arena', root_node', fixing') /\ SameRecords(arena, arena')
<1> DEFINE I == Index
           L == Lefts(arena)
           R == Rights(arena)
           P == Parents(arena)
           C == Colors(arena)
           C1 == [C EXCEPT ![Parent] = "black"]
           C2 == [C1 EXCEPT ![Grandparent] = "red"]
           a1 == [arena EXCEPT ![Parent].color = "black"]
           a2 == [a1 EXCEPT ![Grandparent].color = "red"]
           left == IsLeft(Grandparent, Parent)
           a3 == IF left THEN right_rotate(a2, Grandparent) ELSE left_rotate(a2, Grandparent)
           top == IF P[Grandparent] = None THEN Parent ELSE root_node
<1>0. RedParent /\ ~RedUncle /\ Outer /\ IsArena(arena) /\ SearchTree(arena, root_node)
      /\ None \notin I
  <2>1. IsArena(arena) /\ RedParent /\ ~RedUncle /\ Outer /\ SearchTree(arena, root_node)
    BY DEF FixOuter, Grown
  <2> QED
    BY <2>1, KeysPlaced DEF Places, Index
<1>1. Coloured(I, root_node, P, C, fixing)
  BY DEF Grown, Coloring, Index
<1>2. PICK count : Balanced(I, L, R, P, C, count)
  BY DEF Grown, Coloring, Index
<1>3. /\ fixing \in I /\ Parent \in I /\ Grandparent \in I
      /\ arena[Parent].color = "red" /\ arena[Grandparent].color = "black"
      /\ arena[Parent].parent = Grandparent /\ arena[fixing].parent = Parent
      /\ left => /\ arena[Grandparent].left = Parent /\ arena[Parent].left = fixing
                 /\ arena[Parent].right # fixing /\ uncle = arena[Grandparent].right
      /\ ~left => /\ arena[Grandparent].right = Parent /\ arena[Parent].right = fixing
                  /\ arena[Parent].left # fixing /\ uncle = arena[Grandparent].left
      /\ uncle # None => uncle \in I
  BY <1>0, RedParentSite DEF IsLeft, Outer
<1>4. uncle # None => C[uncle] = "black"
  <2>1. uncle # None => arena[uncle].color # "red" /\ C[uncle] = arena[uncle].color
    BY <1>0, <1>3 DEF RedUncle, Colors, Index
  <2> QED
    BY <1>1, <1>3, <2>1 DEF Coloured
<1>5. /\ P[fixing] = Parent /\ P[Grandparent] = arena[Grandparent].parent
      /\ C[Parent] = "red" /\ fixing # None /\ Parent # None
      /\ L[Parent] = arena[Parent].left /\ R[Parent] = arena[Parent].right
      /\ L[Grandparent] = arena[Grandparent].left /\ R[Grandparent] = arena[Grandparent].right
  BY <1>0, <1>3 DEF Lefts, Rights, Parents, Colors, Index
<1>6. Recolours(arena, a1, C1)
  BY <1>0, <1>3, SetColor DEF Index
<1>7. /\ root_node' = top /\ fixing' = None
      /\ arena' = [a3 EXCEPT ![root_node'].color = "black"]
  BY <1>5 DEF FixOuter, RootAfter
<1> HIDE DEF a1
<1>8. IsArena(a1) /\ DOMAIN a1 = I /\ Colors(a1) = C1
  BY <1>6 DEF Recolours, SameRecords, Index
<1>9. Recolours(a1, a2, C2)
  <2>1. Recolours(a1, a2, [Colors(a1) EXCEPT ![Grandparent] = "red"])
    BY <1>3, <1>8, SetColor
  <2> QED
    BY <1>8, <2>1
<1> HIDE DEF a2
<1>10. Recolours(arena, a2, C2)
  BY <1>6, <1>9, RecoloursTwice
<1>11. IsArena(a2) /\ SearchTree(a2, root_node)
  BY <1>0, <1>10, RecolouredTree
<1>12. /\ DOMAIN a2 = I /\ Lefts(a2) = L /\ Rights(a2) = R /\ Parents(a2) = P /\ Colors(a2) = C2
       /\ SameRecords(arena, a2)
  BY <1>10 DEF Recolours, SameRecords, Index
<1>13. a2[Grandparent].left = L[Grandparent] /\ a2[Grandparent].right = R[Grandparent]
       /\ a2[Grandparent].parent = P[Grandparent]
  <2>1. Lefts(a2)[Grandparent] = a2[Grandparent].left /\ Rights(a2)[Grandparent] = a2[Grandparent].right
        /\ Parents(a2)[Grandparent] = a2[Grandparent].parent
    BY <1>3, <1>12 DEF Lefts, Rights, Parents
  <2> QED
    BY <1>12, <2>1
<1>14. C2 = [C EXCEPT ![Parent] = "black", ![Grandparent] = "red"]
  OBVIOUS
<1> HIDE DEF left, C2
<1>15. Grown(a3, top, None) /\ SameRecords(arena, a3)
  <2>1. CASE left
    <3>1. a3 = right_rotate(a2, Grandparent) /\ a2[Grandparent].left = Parent
      BY <1>3, <1>5, <1>13, <2>1
    <3> HIDE DEF a3
    <3>2. /\ Edit(a2, a3, RotR(DOMAIN a2, Rights(a2), Lefts(a2), Parents(a2), Grandparent, Parent),
                  RotL(DOMAIN a2, Rights(a2), Parents(a2), Grandparent, Parent),
                  RotP(DOMAIN a2, Rights(a2), Parents(a2), Grandparent, Parent))
          /\ SearchTree(a3, IF a2[Grandparent].parent = None THEN Parent ELSE root_node)
          /\ \E ord, anc : Rotates(DOMAIN a2, root_node, Rights(a2), Lefts(a2), Parents(a2),
                                   ord, anc, Grandparent, Parent)
      BY <1>3, <1>5, <1>11, <1>12, <3>1, RightRotated
    <3> HIDE DEF I, L, R, P, C
    <3>3. /\ Edit(a2, a3, RotR(I, R, L, P, Grandparent, Parent), RotL(I, R, P, Grandparent, Parent),
                  RotP(I, R, P, Grandparent, Parent))
          /\ SearchTree(a3, top)
          /\ \E ord, anc : Rotates(I, root_node, R, L, P, ord, anc, Grandparent, Parent)
      BY <1>12, <1>13, <3>2
    <3>4. Balanced(I, R, L, P, C, count)
      BY <1>2, BalancedMirror
    <3>5. /\ P[fixing] = Parent /\ fixing # R[Parent] /\ C[Parent] = "red" /\ fixing # None
          /\ R[Grandparent] # None => C[R[Grandparent]] = "black"
      BY <1>3, <1>4, <1>5, <2>1
    <3>6. /\ Coloured(I, top, RotP(I, R, P, Grandparent, Parent), C2, None)
          /\ Balanced(I, RotL(I, R, P, Grandparent, Parent), RotR(I, R, L, P, Grandparent, Parent),
                      RotP(I, R, P, Grandparent, Parent), C2, count)
      BY <1>1, <1>14, <3>3, <3>4, <3>5, OuterRotation
    <3>7. Balanced(I, RotR(I, R, L, P, Grandparent, Parent), RotL(I, R, P, Grandparent, Parent),
                   RotP(I, R, P, Grandparent, Parent), C2, count)
      BY <3>6, BalancedMirror
    <3>8. Coloring(a3, top, None)
      BY <1>12, <3>3, <3>6, <3>7, EditColoring
    <3> QED
      BY <1>12, <3>3, <3>8 DEF Grown, Edit, SameRecords
  <2>2. CASE ~left
    <3>1. a3 = left_rotate(a2, Grandparent) /\ a2[Grandparent].right = Parent
      BY <1>3, <1>5, <1>13, <2>2
    <3> HIDE DEF a3
    <3>2. /\ Edit(a2, a3, RotL(DOMAIN a2, Lefts(a2), Parents(a2), Grandparent, Parent),
                  RotR(DOMAIN a2, Lefts(a2), Rights(a2), Parents(a2), Grandparent, Parent),
                  RotP(DOMAIN a2, Lefts(a2), Parents(a2), Grandparent, Parent))
          /\ SearchTree(a3, IF a2[Grandparent].parent = None THEN Parent ELSE root_node)
          /\ \E ord, anc : Rotates(DOMAIN a2, root_node, Lefts(a2), Rights(a2), Parents(a2),
                                   ord, anc, Grandparent, Parent)
      BY <1>3, <1>5, <1>11, <1>12, <3>1, LeftRotated
    <3> HIDE DEF I, L, R, P, C
    <3>3. /\ Edit(a2, a3, RotL(I, L, P, Grandparent, Parent), RotR(I, L, R, P, Grandparent, Parent),
                  RotP(I, L, P, Grandparent, Parent))
          /\ SearchTree(a3, top)
          /\ \E ord, anc : Rotates(I, root_node, L, R, P, ord, anc, Grandparent, Parent)
      BY <1>12, <1>13, <3>2
    <3>4. /\ P[fixing] = Parent /\ fixing # L[Parent] /\ C[Parent] = "red" /\ fixing # None
          /\ L[Grandparent] # None => C[L[Grandparent]] = "black"
      BY <1>3, <1>4, <1>5, <2>2
    <3>5. /\ Coloured(I, top, RotP(I, L, P, Grandparent, Parent), C2, None)
          /\ Balanced(I, RotL(I, L, P, Grandparent, Parent), RotR(I, L, R, P, Grandparent, Parent),
                      RotP(I, L, P, Grandparent, Parent), C2, count)
      BY <1>1, <1>2, <1>14, <3>3, <3>4, OuterRotation
    <3>6. Coloring(a3, top, None)
      BY <1>12, <3>3, <3>5, EditColoring
    <3> QED
      BY <1>12, <3>3, <3>6 DEF Grown, Edit, SameRecords
  <2> QED
    BY <2>1, <2>2
<1> HIDE DEF a3, top
<1>16. Grown(arena', root_node', None) /\ SameRecords(a3, arena')
  BY <1>7, <1>15, BlackRoot
<1> QED
  BY <1>7, <1>15, <1>16 DEF SameRecords

----------------------------------------------------------------------------
(* Searching.                                                              *)

\* A walk that follows T until it comes to k or cannot go on.
Follows(I, T, k, g) == g = [i \in I |-> IF i = k \/ T[i] = None THEN i ELSE g[T[i]]]

\* There is one: from each node it ends at a stop among those it can reach.
LEMMA WalkExists ==
    ASSUME NEW I, NEW k, NEW T \in [I -> I \cup {None}]
    PROVE  \E g : Follows(I, T, k, g)
<1> DEFINE Stop(i) == i = k \/ T[i] = None
           Closed(S) == \A y \in S : Stop(y) \/ T[y] \in S
           Reach(i) == {x \in I : \A S \in SUBSET I : i \in S /\ Closed(S) => x \in S}
           End(i) == CHOOSE x : x \in Reach(i) /\ Stop(x)
           g == [i \in I |-> End(i)]
<1>1. ASSUME NEW i \in I PROVE i \in Reach(i) /\ Closed(Reach(i)) /\ Reach(i) \in SUBSET I
  OBVIOUS
<1>2. ASSUME NEW i \in I, Stop(i) PROVE End(i) = i
  <2>1. {i} \in SUBSET I /\ Closed({i})
    BY <1>2
  <2>2. \A x : x \in Reach(i) => x = i
    BY <2>1
  <2> HIDE DEF Reach, Stop
  <2> QED
    BY <1>1, <1>2, <2>2
<1>3. ASSUME NEW i \in I, ~Stop(i) PROVE T[i] \in I /\ End(i) = End(T[i])
  <2>1. T[i] \in I
    BY <1>3
  <2>2. Reach(i) \subseteq {i} \cup Reach(T[i])
    <3>1. {i} \cup Reach(T[i]) \in SUBSET I /\ Closed({i} \cup Reach(T[i]))
      <4> HIDE DEF Reach, Stop
      <4> QED
        BY <1>1, <2>1
    <3> QED
      BY <3>1
  <2>3. Reach(T[i]) \subseteq Reach(i)
    <3>1. ASSUME NEW S \in SUBSET I, i \in S, Closed(S) PROVE T[i] \in S
      BY <1>3, <3>1
    <3> QED
      BY <3>1
  <2> HIDE DEF Reach, Stop
  <2>4. \A x : (x \in Reach(i) /\ Stop(x)) <=> (x \in Reach(T[i]) /\ Stop(x))
    BY <1>3, <2>2, <2>3
  <2>5. (CHOOSE x : x \in Reach(i) /\ Stop(x)) = (CHOOSE x : x \in Reach(T[i]) /\ Stop(x))
    BY <2>4
  <2> QED
    BY <2>1, <2>5
<1> HIDE DEF End
<1>4. DOMAIN g = I /\ \A i \in I : g[i] = IF i = k \/ T[i] = None THEN i ELSE g[T[i]]
  BY <1>2, <1>3
<1>5. g = [i \in I |-> g[i]]
  OBVIOUS
<1> HIDE DEF g
<1>6. g = [i \in I |-> IF i = k \/ T[i] = None THEN i ELSE g[T[i]]]
  BY <1>4, <1>5
<1> QED
  BY <1>6 DEF Follows

\* anc is a strict order.
Above(I, anc) ==
    /\ anc \in [I -> SUBSET I]
    /\ \A i \in I : i \notin anc[i]
    /\ \A i \in I : \A a \in anc[i] : anc[a] \subseteq anc[i]

\* Among B there is a node with no other of them below it, and one with no
\* other of them above it.
Extremes(B, anc) ==
    /\ \E x \in B : \A y \in B : x \notin anc[y]
    /\ \E x \in B : \A y \in B : y \notin anc[x]

\* A set of nodes that is not empty has both.
LEMMA DeepestHighest ==
    ASSUME NEW I, NEW anc, IsFiniteSet(I), Above(I, anc), NEW B, B \subseteq I, B # {}
    PROVE  Extremes(B, anc)
<1> DEFINE up(x) == Cardinality(anc[x])
           down(x) == Cardinality(I \ anc[x])
           ups == {up(x) : x \in B}
           downs == {down(x) : x \in B}
<1>1. ASSUME NEW x \in I PROVE up(x) \in Nat /\ down(x) \in Nat
  <2>1. anc[x] \in SUBSET I /\ I \ anc[x] \in SUBSET I
    BY DEF Above
  <2> QED
    BY <2>1, FS_Subset, FS_CardinalityType
<1>2. ASSUME NEW x \in I, NEW y \in I, x \in anc[y] PROVE up(x) < up(y) /\ down(y) < down(x)
  <2>1. /\ anc[x] \in SUBSET anc[y] /\ anc[x] # anc[y] /\ anc[y] \in SUBSET I
        /\ I \ anc[y] \in SUBSET (I \ anc[x]) /\ I \ anc[x] # I \ anc[y] /\ I \ anc[x] \in SUBSET I
    BY <1>2 DEF Above
  <2>2. IsFiniteSet(anc[y]) /\ IsFiniteSet(I \ anc[x])
    BY <2>1, FS_Subset
  <2>3. up(x) <= up(y) /\ up(x) # up(y)
    BY <2>1, <2>2, FS_Subset
  <2>4. down(y) <= down(x) /\ down(x) # down(y)
    BY <2>1, <2>2, FS_Subset
  <2> HIDE DEF up, down
  <2> QED
    BY <1>1, <2>3, <2>4
<1> HIDE DEF up, down
<1>3. ASSUME NEW S, S \subseteq Nat, S # {} PROVE \E m \in S : \A n \in S : ~(n < m)
  <2>1. \E m \in S : \A n \in S : ~(<< n, m >> \in OpToRel(<, Nat))
    BY <1>3, NatLessThanWellFounded, WFMin
  <2> QED
    BY <1>3, <2>1 DEF OpToRel
<1>4. ups \subseteq Nat /\ ups # {} /\ downs \subseteq Nat /\ downs # {}
  BY <1>1
<1>5. PICK m \in ups : \A n \in ups : ~(n < m)
  BY <1>3, <1>4
<1>6. PICK x \in B : up(x) = m
  OBVIOUS
<1>7. \A y \in B : y \notin anc[x]
  BY <1>2, <1>5, <1>6
<1>8. PICK m2 \in downs : \A n \in downs : ~(n < m2)
  BY <1>3, <1>4
<1>9. PICK x2 \in B : down(x2) = m2
  OBVIOUS
<1>10. \A y \in B : x2 \notin anc[y]
  BY <1>2, <1>8, <1>9
<1> QED
  BY <1>7, <1>10 DEF Extremes

\* Where a search for k goes from each node, and where it ends.
Steps(a, k) == [i \in DOMAIN a |-> IF k < i THEN a[i].left ELSE a[i].right]

Walk(a, k) == CHOOSE g : Follows(DOMAIN a, Steps(a, k), k, g)

\* Descend is the walk from the root, before and after a step.
LEMMA DescendWalks ==
    ASSUME NEW k
    PROVE  /\ Descend(k) = Walk(arena, k)[root_node]
           /\ Descend(k)' = Walk(arena', k)[root_node']
<1>1. ASSUME NEW a, NEW g
      PROVE  g = [i \in DOMAIN a |-> IF i = k \/ (IF k < i THEN a[i].left ELSE a[i].right) = None
                                     THEN i ELSE g[IF k < i THEN a[i].left ELSE a[i].right]]
               <=> Follows(DOMAIN a, Steps(a, k), k, g)
  <2>1. \A i \in DOMAIN a : Steps(a, k)[i] = IF k < i THEN a[i].left ELSE a[i].right
    BY DEF Steps
  <2>2. [i \in DOMAIN a |-> IF i = k \/ Steps(a, k)[i] = None THEN i ELSE g[Steps(a, k)[i]]]
          = [i \in DOMAIN a |-> IF i = k \/ (IF k < i THEN a[i].left ELSE a[i].right) = None
                                     THEN i ELSE g[IF k < i THEN a[i].left ELSE a[i].right]]
    BY <2>1
  <2> QED
    BY <2>2 DEF Follows
<1>2. Descend(k) = Walk(arena, k)[root_node]
  BY <1>1 DEF Descend, Walk, Toward, Index
<1>3. Descend(k)' = Walk(arena', k)[root_node']
  BY <1>1 DEF Descend, Walk, Toward, Index, None
<1> QED
  BY <1>2, <1>3

\* A key that is not in the tree would be on these sides of the nodes above v.
Passes(L, R, anc, k, v) ==
    \A x \in anc[v] : /\ L[x] \in anc[v] \cup {v} <=> k < x
                      /\ R[x] \in anc[v] \cup {v} <=> x < k

\* A search finds a key that is in the tree, and otherwise ends at the node
\* the key belongs under, which has no child on that side.
LEMMA SearchEnds ==
    ASSUME NEW a, NEW root, NEW k \in Key, NEW anc, IsArena(a),
           Linked(DOMAIN a, root, Lefts(a), Rights(a), Parents(a)),
           Ordered(DOMAIN a, root, Lefts(a), Rights(a), KeyOrder(a), anc)
    PROVE  /\ k \in DOMAIN a => Walk(a, k)[root] = k
           /\ k \notin DOMAIN a =>
                /\ Walk(a, k)[root] \in DOMAIN a
                /\ Steps(a, k)[Walk(a, k)[root]] = None
                /\ Passes(Lefts(a), Rights(a), anc, k, Walk(a, k)[root])
<1> DEFINE I == DOMAIN a
           L == Lefts(a)
           R == Rights(a)
           P == Parents(a)
           ord == KeyOrder(a)
           T == Steps(a, k)
           g == Walk(a, k)
<1>1. IsFiniteSet(I) /\ I \subseteq Nat /\ k \in Nat /\ None \notin I
  BY FS_Subset, TableAssumption, TreeAssumption DEF IsArena, None
<1>2. /\ L \in [I -> I \cup {None}] /\ R \in [I -> I \cup {None}] /\ root \in I
      /\ \A i \in I : L[i] # None => P[L[i]] = i
      /\ \A i \in I : R[i] # None => P[R[i]] = i
  BY DEF Linked
<1>3. \A i \in I : ord[i] = i /\ T[i] = IF k < i THEN L[i] ELSE R[i]
  BY DEF Steps, Lefts, Rights, KeyOrder
<1>4. T \in [I -> I \cup {None}]
  <2>1. T = [i \in I |-> T[i]]
    BY DEF Steps
  <2> HIDE DEF T, L, R
  <2> QED
    BY <1>2, <1>3, <2>1
<1> HIDE DEF I, L, R, P, ord, T
<1>5. Follows(I, T, k, g)
  <2>1. \E h : Follows(I, T, k, h)
    BY <1>4, WalkExists
  <2> QED
    BY <2>1 DEF Walk, I, T
<1> HIDE DEF g
<1>6. \A i \in I : g[i] = IF i = k \/ T[i] = None THEN i ELSE g[T[i]]
  BY <1>5 DEF Follows
<1>7. /\ anc \in [I -> SUBSET I]
      /\ anc[root] = {}
      /\ \A i \in I : i \notin anc[i] /\ root \in anc[i] \cup {i}
      /\ \A i \in I : \A x \in anc[i] : anc[x] \subseteq anc[i]
      /\ \A i \in I : L[i] # None => anc[L[i]] = anc[i] \cup {i}
      /\ \A i \in I : R[i] # None => anc[R[i]] = anc[i] \cup {i}
  BY DEF Ordered, I, L, R
<1>8. \A i \in I : \A x \in anc[i] :
        /\ x \in I
        /\ L[x] \in anc[i] \cup {i} <=> i < x
        /\ R[x] \in anc[i] \cup {i} <=> x < i
  <2>1. \A i \in I : \A x \in anc[i] :
            /\ L[x] \in anc[i] \cup {i} <=> ord[i] < ord[x]
            /\ R[x] \in anc[i] \cup {i} <=> ord[x] < ord[i]
    BY DEF Ordered, I, L, R, ord
  <2> QED
    BY <1>3, <1>7, <2>1
<1>9. ASSUME NEW B, B \subseteq I, B # {} PROVE \E x \in B : \A y \in B : x \notin anc[y]
  <2>1. Above(I, anc)
    BY <1>7 DEF Above
  <2>2. Extremes(B, anc)
    BY <1>1, <1>9, <2>1, DeepestHighest
  <2> QED
    BY <2>2 DEF Extremes
<1>10. ASSUME NEW i \in I, T[i] # None PROVE T[i] \in I /\ anc[T[i]] = anc[i] \cup {i} /\ P[T[i]] = i
  BY <1>2, <1>3, <1>4, <1>7, <1>10
<1>11. ASSUME k \in I PROVE g[root] = k
  <2> DEFINE B == {i \in I : (i = k \/ i \in anc[k]) /\ g[i] # k}
  <2>1. ASSUME NEW i \in B, \A y \in B : i \notin anc[y] PROVE FALSE
    <3>1. i \in I /\ i # k /\ i \in anc[k] /\ g[i] # k
      BY <1>6, <2>1
    <3>2. T[i] \in anc[k] \cup {k} /\ T[i] # None
      BY <1>1, <1>3, <1>7, <1>8, <1>11, <3>1
    <3>3. g[i] = g[T[i]] /\ T[i] \in I /\ i \in anc[T[i]]
      BY <1>6, <1>10, <3>1, <3>2
    <3> QED
      BY <2>1, <3>1, <3>2, <3>3
  <2>2. B = {}
    <3> HIDE DEF B
    <3>1. B # {} => \E x \in B : \A y \in B : x \notin anc[y]
      <4>1. B \subseteq I
        BY DEF B
      <4> QED
        BY <1>9, <4>1
    <3> QED
      BY <2>1, <3>1
  <2> QED
    BY <1>2, <1>7, <1>11, <2>2
<1>12. ASSUME k \notin I
       PROVE  g[root] \in I /\ T[g[root]] = None /\ Passes(L, R, anc, k, g[root])
  <2> DEFINE Good(v) == v \in I /\ T[v] = None /\ Passes(L, R, anc, k, v)
             B == {i \in I : Passes(L, R, anc, k, i) /\ ~Good(g[i])}
  <2>1. ASSUME NEW i \in I, Passes(L, R, anc, k, i), T[i] # None
        PROVE  Passes(L, R, anc, k, T[i])
    <3> DEFINE c == T[i]
    <3>1. c \in I /\ anc[c] = anc[i] \cup {i} /\ P[c] = i /\ c # None
      BY <1>10, <2>1
    <3>2. ASSUME NEW x \in anc[c]
          PROVE  /\ L[x] \in anc[c] \cup {c} <=> k < x
                 /\ R[x] \in anc[c] \cup {c} <=> x < k
      <4>1. CASE x = i
        <5>1. (L[i] \in anc[c] \cup {c} <=> c < i) /\ (R[i] \in anc[c] \cup {c} <=> i < c)
          BY <1>8, <3>1
        <5>2. c \in Nat /\ i \in Nat /\ k # i
          BY <1>1, <1>12, <3>1
        <5>3. (k < i /\ c = L[i]) \/ (i < k /\ c = R[i])
          BY <1>1, <1>3, <5>2
        <5> QED
          BY <1>1, <4>1, <5>1, <5>2, <5>3
      <4>2. CASE x # i
        <5>1. x \in anc[i] /\ x \in I
          BY <1>7, <3>1, <4>2
        <5>2. (L[x] \in anc[i] \cup {i} <=> k < x) /\ (R[x] \in anc[i] \cup {i} <=> x < k)
          BY <2>1, <5>1 DEF Passes
        <5>3. L[x] # c /\ R[x] # c
          BY <1>2, <3>1, <4>2, <5>1
        <5> QED
          BY <3>1, <5>2, <5>3
      <4> QED
        BY <4>1, <4>2
    <3> QED
      BY <3>2 DEF Passes
  <2>2. ASSUME NEW i \in B, \A y \in B : i \notin anc[y] PROVE FALSE
    <3>1. i \in I /\ Passes(L, R, anc, k, i) /\ ~Good(g[i]) /\ i # k
      BY <1>12
    <3>2. T[i] # None
      <4>1. T[i] = None => g[i] = i
        BY <1>6, <3>1
      <4> QED
        BY <3>1, <4>1
    <3>3. g[i] = g[T[i]] /\ T[i] \in I /\ i \in anc[T[i]]
      BY <1>6, <1>10, <3>1, <3>2
    <3>4. Passes(L, R, anc, k, T[i])
      BY <2>1, <3>1, <3>2
    <3> HIDE DEF Good
    <3> QED
      BY <2>2, <3>1, <3>3, <3>4
  <2>3. B = {}
    <3> HIDE DEF B
    <3>1. B # {} => \E x \in B : \A y \in B : x \notin anc[y]
      <4>1. B \subseteq I
        BY DEF B
      <4> QED
        BY <1>9, <4>1
    <3> QED
      BY <2>2, <3>1
  <2>4. Passes(L, R, anc, k, root)
    BY <1>7 DEF Passes
  <2> HIDE DEF Good
  <2>5. Good(g[root])
    BY <1>2, <2>3, <2>4
  <2> QED
    BY <2>5 DEF Good
<1> QED
  BY <1>11, <1>12 DEF I, L, R, T, g

----------------------------------------------------------------------------
(* Insertion.                                                              *)

\* The tree with a leaf k under v on side L.
LeafL(I, L, v, k) == [i \in I \cup {k} |-> IF i = k THEN None ELSE IF i = v THEN k ELSE L[i]]
LeafR(I, R, k) == [i \in I \cup {k} |-> IF i = k THEN None ELSE R[i]]
LeafP(I, P, v, k) == [i \in I \cup {k} |-> IF i = k THEN v ELSE P[i]]
LeafColors(I, col, k) == [i \in I \cup {k} |-> IF i = k THEN "red" ELSE col[i]]
LeafAnc(I, anc, v, k) == [i \in I \cup {k} |-> IF i = k THEN anc[v] \cup {v} ELSE anc[i]]

\* k belongs under v on side L, where nothing is.
Hangs(I, root, L, R, P, ord, anc, v, k) ==
    /\ Linked(I, root, L, R, P) /\ Ordered(I, root, L, R, ord, anc) /\ Places(I \cup {k}, ord)
    /\ k \notin I /\ v \in I /\ L[v] = None /\ ord[k] < ord[v]
    /\ \A x \in anc[v] : /\ L[x] \in anc[v] \cup {v} <=> ord[k] < ord[x]
                         /\ R[x] \in anc[v] \cup {v} <=> ord[x] < ord[k]

\* The links with the leaf agree.
LEMMA LeafLinked ==
    ASSUME NEW I, NEW root, NEW L, NEW R, NEW P, NEW ord, NEW anc, NEW v, NEW k,
           Hangs(I, root, L, R, P, ord, anc, v, k)
    PROVE  Linked(I \cup {k}, root, LeafL(I, L, v, k), LeafR(I, R, k), LeafP(I, P, v, k))
<1> DEFINE J == I \cup {k}
           L2 == LeafL(I, L, v, k)
           R2 == LeafR(I, R, k)
           P2 == LeafP(I, P, v, k)
<1>1. k \notin I /\ v \in I /\ L[v] = None /\ None \notin J /\ k # None /\ v # None
  BY DEF Hangs, Places
<1>2. /\ L \in [I -> I \cup {None}] /\ R \in [I -> I \cup {None}] /\ P \in [I -> I \cup {None}]
      /\ root \in I /\ P[root] = None
      /\ \A i \in I : i # root => P[i] # None /\ i \in {L[P[i]], R[P[i]]}
      /\ \A i \in I : L[i] # None => P[L[i]] = i
      /\ \A i \in I : R[i] # None => P[R[i]] = i
  BY DEF Hangs, Linked
<1>3. /\ L2 \in [J -> J \cup {None}] /\ R2 \in [J -> J \cup {None}] /\ P2 \in [J -> J \cup {None}]
      /\ L2[k] = None /\ R2[k] = None /\ P2[k] = v /\ L2[v] = k
      /\ \A i \in I : R2[i] = R[i] /\ P2[i] = P[i] /\ (i # v => L2[i] = L[i])
  BY <1>1, <1>2 DEF LeafL, LeafR, LeafP
<1> HIDE DEF L2, R2, P2
<1>4. ASSUME NEW i \in J, i # root PROVE P2[i] # None /\ i \in {L2[P2[i]], R2[P2[i]]}
  <2>1. CASE i = k
    BY <1>1, <1>3, <2>1
  <2>2. CASE i # k
    <3>1. i \in I /\ P2[i] = P[i] /\ P[i] # None /\ P[i] \in I /\ i \in {L[P[i]], R[P[i]]} /\ i # None
      BY <1>1, <1>2, <1>3, <1>4, <2>2
    <3> QED
      BY <1>1, <1>3, <3>1
  <2> QED
    BY <2>1, <2>2
<1>5. ASSUME NEW i \in J, L2[i] # None PROVE P2[L2[i]] = i
  <2>1. CASE i = v
    BY <1>3, <2>1
  <2>2. CASE i # v
    <3>1. i \in I /\ L2[i] = L[i] /\ L[i] \in I /\ P[L[i]] = i
      BY <1>2, <1>3, <1>5, <2>2
    <3> QED
      BY <1>3, <3>1
  <2> QED
    BY <2>1, <2>2
<1>6. ASSUME NEW i \in J, R2[i] # None PROVE P2[R2[i]] = i
  <2>1. i \in I /\ R2[i] = R[i] /\ R[i] \in I /\ P[R[i]] = i
    BY <1>2, <1>3, <1>6
  <2> QED
    BY <1>3, <2>1
<1>7. Linked(J, root, L2, R2, P2)
  BY <1>2, <1>3, <1>4, <1>5, <1>6 DEF Linked
<1> QED
  BY <1>7 DEF L2, R2, P2

\* The leaf is on the side it belongs to of every node above it.
LEMMA LeafOrdered ==
    ASSUME NEW I, NEW root, NEW L, NEW R, NEW P, NEW ord, NEW anc, NEW v, NEW k,
           Hangs(I, root, L, R, P, ord, anc, v, k)
    PROVE  Ordered(I \cup {k}, root, LeafL(I, L, v, k), LeafR(I, R, k), ord, LeafAnc(I, anc, v, k))
<1> DEFINE J == I \cup {k}
           L2 == LeafL(I, L, v, k)
           R2 == LeafR(I, R, k)
           A2 == LeafAnc(I, anc, v, k)
<1>1. k \notin I /\ v \in I /\ L[v] = None /\ None \notin J /\ k # None /\ v # None /\ root \in I
  BY DEF Hangs, Places, Linked
<1>2. /\ anc \in [I -> SUBSET I]
      /\ anc[root] = {}
      /\ \A i \in I : i \notin anc[i] /\ root \in anc[i] \cup {i}
      /\ \A i \in I : \A a \in anc[i] : anc[a] \subseteq anc[i]
      /\ \A i \in I : L[i] # None => anc[L[i]] = anc[i] \cup {i}
      /\ \A i \in I : R[i] # None => anc[R[i]] = anc[i] \cup {i}
  BY DEF Hangs, Ordered
<1>3. /\ L \in [I -> I \cup {None}] /\ R \in [I -> I \cup {None}]
      /\ L2[k] = None /\ R2[k] = None /\ L2[v] = k
      /\ \A i \in I : R2[i] = R[i] /\ (i # v => L2[i] = L[i])
  BY <1>1 DEF LeafL, LeafR, Hangs, Linked
<1>4. A2 \in [J -> SUBSET J] /\ A2[k] = anc[v] \cup {v} /\ \A i \in I : A2[i] = anc[i]
  BY <1>1, <1>2 DEF LeafAnc
<1> HIDE DEF L2, R2, A2
<1>5. A2[root] = {}
  BY <1>1, <1>2, <1>4
<1>6. ASSUME NEW i \in J PROVE i \notin A2[i] /\ root \in A2[i] \cup {i}
  <2>1. CASE i = k
    BY <1>1, <1>2, <1>4, <2>1
  <2>2. CASE i # k
    BY <1>2, <1>4, <2>2
  <2> QED
    BY <2>1, <2>2
<1>7. ASSUME NEW i \in J, NEW a \in A2[i] PROVE A2[a] \subseteq A2[i]
  <2>1. CASE i = k
    BY <1>1, <1>2, <1>4, <2>1
  <2>2. CASE i # k
    <3>1. i \in I /\ a \in anc[i] /\ a \in I
      BY <1>2, <1>4, <1>7, <2>2
    <3> QED
      BY <1>2, <1>4, <3>1
  <2> QED
    BY <2>1, <2>2
<1>8. ASSUME NEW i \in J, L2[i] # None PROVE A2[L2[i]] = A2[i] \cup {i}
  <2>1. CASE i = v
    BY <1>1, <1>3, <1>4, <2>1
  <2>2. CASE i # v
    <3>1. i \in I /\ L2[i] = L[i] /\ L[i] \in I
      BY <1>1, <1>3, <1>8, <2>2
    <3> QED
      BY <1>2, <1>4, <1>8, <3>1
  <2> QED
    BY <2>1, <2>2
<1>9. ASSUME NEW i \in J, R2[i] # None PROVE A2[R2[i]] = A2[i] \cup {i}
  <2>1. i \in I /\ R2[i] = R[i] /\ R[i] \in I
    BY <1>1, <1>3, <1>9
  <2> QED
    BY <1>2, <1>4, <1>9, <2>1
<1>10. ord[v] \in Int /\ ord[k] \in Int /\ ord[k] < ord[v]
  BY <1>1 DEF Hangs, Places
<1>11. ASSUME NEW i \in I, NEW a \in anc[i]
       PROVE  /\ a \in I
              /\ L[a] \in anc[i] \cup {i} <=> ord[i] < ord[a]
              /\ R[a] \in anc[i] \cup {i} <=> ord[a] < ord[i]
  BY <1>2 DEF Hangs, Ordered
<1>12. ASSUME NEW i \in J, NEW a \in A2[i]
       PROVE  /\ L2[a] \in A2[i] \cup {i} <=> ord[i] < ord[a]
              /\ R2[a] \in A2[i] \cup {i} <=> ord[a] < ord[i]
  <2>1. CASE i = k
    <3>1. A2[i] = anc[v] \cup {v} /\ a \in I
      BY <1>1, <1>2, <1>4, <1>12, <2>1
    <3>2. CASE a = v
      <4>1. R2[v] = R[v] /\ R[v] \notin anc[v] \cup {v}
        <5>1. R[v] \in I \/ R[v] = None
          BY <1>1, <1>3
        <5>2. R[v] \in I => R[v] \notin anc[v] \cup {v}
          BY <1>1, <1>2
        <5>3. None \notin anc[v] \cup {v}
          BY <1>1, <1>2
        <5> QED
          BY <1>1, <1>3, <5>1, <5>2, <5>3
      <4>2. R[v] # k
        BY <1>1, <1>3
      <4> QED
        BY <1>3, <1>10, <2>1, <3>1, <3>2, <4>1, <4>2
    <3>3. CASE a # v
      <4>1. a \in anc[v] /\ L2[a] = L[a] /\ R2[a] = R[a] /\ L[a] # k /\ R[a] # k
        BY <1>1, <1>3, <1>12, <3>1, <3>3
      <4>2. /\ L[a] \in anc[v] \cup {v} <=> ord[k] < ord[a]
            /\ R[a] \in anc[v] \cup {v} <=> ord[a] < ord[k]
        BY <4>1 DEF Hangs
      <4> QED
        BY <2>1, <3>1, <4>1, <4>2
    <3> QED
      BY <3>2, <3>3
  <2>2. CASE i # k
    <3>1. i \in I /\ a \in anc[i] /\ A2[i] = anc[i] /\ a \in I
      BY <1>2, <1>4, <1>12, <2>2
    <3>2. CASE a = v
      <4>1. L2[a] = k /\ k \notin anc[i] \cup {i} /\ R2[a] = R[a]
        BY <1>1, <1>2, <1>3, <3>1, <3>2
      <4>2. L[a] \notin anc[i] \cup {i}
        BY <1>1, <1>2, <3>1, <3>2
      <4> QED
        BY <1>11, <3>1, <4>1, <4>2
    <3>3. CASE a # v
      BY <1>3, <1>11, <3>1, <3>3
    <3> QED
      BY <3>2, <3>3
  <2> QED
    BY <2>1, <2>2
<1>13. Ordered(J, root, L2, R2, ord, A2)
  BY <1>4, <1>5, <1>6, <1>7, <1>8, <1>9, <1>12 DEF Ordered
<1> QED
  BY <1>13 DEF L2, R2, A2

\* The leaf is red: no path has more black nodes than before, and only the
\* leaf may be under a red parent.
LEMMA LeafColoured ==
    ASSUME NEW I, NEW root, NEW L, NEW R, NEW P, NEW ord, NEW anc, NEW v, NEW k,
           NEW col, NEW count, Hangs(I, root, L, R, P, ord, anc, v, k),
           Coloured(I, root, P, col, None), Balanced(I, L, R, P, col, count)
    PROVE  /\ Coloured(I \cup {k}, root, LeafP(I, P, v, k), LeafColors(I, col, k), k)
           /\ \E c : Balanced(I \cup {k}, LeafL(I, L, v, k), LeafR(I, R, k),
                              LeafP(I, P, v, k), LeafColors(I, col, k), c)
<1> DEFINE J == I \cup {k}
           L2 == LeafL(I, L, v, k)
           R2 == LeafR(I, R, k)
           P2 == LeafP(I, P, v, k)
           C2 == LeafColors(I, col, k)
           c == [i \in J |-> IF i = k THEN count[v] ELSE count[i]]
<1>1. k \notin I /\ v \in I /\ L[v] = None /\ None \notin J /\ k # None /\ v # None
  BY DEF Hangs, Places
<1>2. /\ P \in [I -> I \cup {None}] /\ root \in I
      /\ \A i \in I : i # root => P[i] # None
  BY DEF Hangs, Linked
<1>3. /\ R2[k] = None /\ P2[k] = v
      /\ \A i \in I : R2[i] = R[i] /\ P2[i] = P[i] /\ (i # v => L2[i] = L[i])
  BY <1>1 DEF LeafL, LeafR, LeafP
<1>4. C2 \in [J -> {"red", "black"}] /\ C2[k] = "red" /\ \A i \in I : C2[i] = col[i]
  BY <1>1 DEF Coloured, LeafColors
<1>5. c \in [J -> Nat] /\ c[k] = count[v] /\ count[v] \in Nat /\ \A i \in I : c[i] = count[i]
  BY <1>1 DEF Balanced
<1> HIDE DEF L2, R2, P2, C2, c
<1>6. Coloured(J, root, P2, C2, k)
  <2>1. ASSUME NEW i \in J \ {root, k}, C2[i] = "red" PROVE C2[P2[i]] = "black"
    <3>1. i \in I /\ P2[i] = P[i] /\ P[i] \in I /\ col[i] = "red" /\ i # None
      BY <1>1, <1>2, <1>3, <1>4, <2>1
    <3>2. col[P[i]] = "black"
      BY <2>1, <3>1 DEF Coloured
    <3> QED
      BY <1>4, <3>1, <3>2
  <2>2. C2[root] = "black"
    BY <1>1, <1>2, <1>4 DEF Coloured
  <2> QED
    BY <1>4, <2>1, <2>2 DEF Coloured
<1>7. Balanced(J, L2, R2, P2, C2, c)
  <2>1. ASSUME NEW i \in J
        PROVE  c[i] = (IF C2[i] = "black" THEN 1 ELSE 0) + (IF P2[i] = None THEN 0 ELSE c[P2[i]])
    <3>1. CASE i = k
      BY <1>1, <1>3, <1>4, <1>5, <3>1
    <3>2. CASE i # k
      <4>1. i \in I /\ P2[i] = P[i] /\ P[i] \in I \cup {None} /\ C2[i] = col[i] /\ c[i] = count[i]
        BY <1>2, <1>3, <1>4, <1>5, <3>2
      <4>2. count[i] = (IF col[i] = "black" THEN 1 ELSE 0)
                         + (IF P[i] = None THEN 0 ELSE count[P[i]])
        BY <4>1 DEF Balanced
      <4> QED
        BY <1>5, <4>1, <4>2
    <3> QED
      BY <3>1, <3>2
  <2>2. ASSUME NEW i \in J, None \in {L2[i], R2[i]} PROVE c[i] = count[v]
    <3>1. CASE i = k \/ i = v
      BY <1>1, <1>5, <3>1
    <3>2. CASE i # k /\ i # v
      <4>1. i \in I /\ None \in {L[i], R[i]}
        BY <1>3, <2>2, <3>2
      <4>2. count[i] = count[v]
        BY <1>1, <4>1 DEF Balanced
      <4> QED
        BY <1>5, <4>1, <4>2
    <3> QED
      BY <3>1, <3>2
  <2> QED
    BY <1>5, <2>1, <2>2 DEF Balanced
<1> QED
  BY <1>6, <1>7 DEF L2, R2, P2, C2

\* Ordered looks at the order of the nodes only.
LEMMA OrderedAgree ==
    ASSUME NEW I, NEW root, NEW L, NEW R, NEW ord, NEW ord2, NEW anc,
           Ordered(I, root, L, R, ord, anc), \A i \in I : ord2[i] = ord[i]
    PROVE  Ordered(I, root, L, R, ord2, anc)
<1>1. \A i \in I : anc[i] \subseteq I
  BY DEF Ordered
<1>2. ASSUME NEW i \in I, NEW a \in anc[i]
      PROVE  /\ L[a] \in anc[i] \cup {i} <=> ord2[i] < ord2[a]
             /\ R[a] \in anc[i] \cup {i} <=> ord2[a] < ord2[i]
  BY <1>1 DEF Ordered
<1> QED
  BY <1>2 DEF Ordered

\* The arena is empty or a red-black tree but for the node in hand.
Shape(a, root, f) ==
    /\ IsArena(a)
    /\ \/ DOMAIN a = {} /\ root = None /\ f = None
       \/ Grown(a, root, f)

\* get_search finds exactly the keys that are in the arena.
LEMMA SearchFinds ==
    ASSUME NEW k \in Key
    PROVE  /\ Shape(arena, root_node, fixing) =>
                get_search(k) = IF k \in Index THEN k ELSE None
           /\ Shape(arena', root_node', fixing') =>
                get_search(k)' = IF k \in Index' THEN k ELSE None
<1>1. ASSUME NEW a, NEW root, NEW f, Shape(a, root, f)
      PROVE  (root # None /\ Walk(a, k)[root] = k) <=> k \in DOMAIN a
  <2>1. CASE Grown(a, root, f)
    <3>1. IsArena(a) /\ Linked(DOMAIN a, root, Lefts(a), Rights(a), Parents(a))
      BY <2>1 DEF Grown, SearchTree
    <3>2. PICK anc : Ordered(DOMAIN a, root, Lefts(a), Rights(a), KeyOrder(a), anc)
      BY <2>1 DEF Grown, SearchTree
    <3>3. root # None
      BY <3>1, KeysPlaced DEF Linked, Places
    <3> QED
      BY <3>1, <3>2, <3>3, SearchEnds
  <2>2. CASE DOMAIN a = {} /\ root = None
    BY <2>2
  <2> QED
    BY <1>1, <2>1, <2>2 DEF Shape
<1>2. None # k
  BY TableAssumption DEF None
<1>3. Shape(arena, root_node, fixing) => get_search(k) = IF k \in Index THEN k ELSE None
  BY <1>1, DescendWalks DEF get_search, Index
<1>4. Shape(arena', root_node', fixing') => get_search(k)' = IF k \in Index' THEN k ELSE None
  <2>1. get_search(k)' = IF root_node' # None /\ Descend(k)' = k THEN k ELSE None
    BY DEF get_search, None
  <2> QED
    BY <1>1, <2>1, DescendWalks DEF Index
<1> QED
  BY <1>3, <1>4

\* An arena c with a node appended at k.
Appended(c, k, node) == [i \in DOMAIN c \cup {k} |-> IF i = k THEN node ELSE c[i]]

\* A red node without children under v.
Leaf(node, v) ==
    /\ node \in TreeNode
    /\ node.left = None /\ node.right = None /\ node.parent = v /\ node.color = "red"

\* b is the arena a with these children and a leaf at k under v.
Sprouts(a, b, L, R, k, v, node) ==
    /\ IsArena(b) /\ DOMAIN b = DOMAIN a \cup {k} /\ b[k] = node
    /\ \A i \in DOMAIN a : b[i].record = a[i].record
    /\ Lefts(b) = L /\ Rights(b) = R
    /\ Parents(b) = LeafP(DOMAIN a, Parents(a), v, k)
    /\ Colors(b) = LeafColors(DOMAIN a, Colors(a), k)

\* The links and colours of an arena with a leaf appended.
LEMMA AppendEdit ==
    ASSUME NEW a, NEW c, NEW L, NEW R, Edit(a, c, L, R, Parents(a)),
           NEW k \in Key, k \notin DOMAIN a, NEW v, NEW node, Leaf(node, v)
    PROVE  Sprouts(a, Appended(c, k, node), LeafR(DOMAIN a, L, k), LeafR(DOMAIN a, R, k), k, v, node)
<1> DEFINE b == Appended(c, k, node)
           I == DOMAIN a
<1>1. /\ IsArena(c) /\ DOMAIN c = I
      /\ \A i \in I : c[i].record = a[i].record /\ c[i].color = a[i].color
      /\ Lefts(c) = L /\ Rights(c) = R /\ Parents(c) = Parents(a)
  BY DEF Edit, SameRecords
<1>2. /\ DOMAIN b = I \cup {k} /\ b[k] = node /\ \A i \in I : b[i] = c[i] /\ i # k
      /\ b = [i \in I \cup {k} |-> b[i]]
  BY <1>1 DEF Appended
<1> HIDE DEF b
<1>3. \A i \in I : /\ b[i].left = L[i] /\ b[i].right = R[i] /\ b[i].parent = Parents(a)[i]
                   /\ b[i].color = Colors(a)[i] /\ b[i] \in TreeNode
  <2>1. \A i \in I : c[i].left = Lefts(c)[i] /\ c[i].right = Rights(c)[i]
                     /\ c[i].parent = Parents(c)[i] /\ c[i] \in TreeNode
    BY <1>1 DEF Lefts, Rights, Parents, IsArena
  <2>2. \A i \in I : Colors(a)[i] = a[i].color
    BY DEF Colors
  <2> QED
    BY <1>1, <1>2, <2>1, <2>2
<1>4. I \subseteq Key
  BY <1>1 DEF IsArena
<1>5. IsArena(b)
  BY <1>2, <1>3, <1>4 DEF IsArena, Leaf
<1>6. Lefts(b) = LeafR(I, L, k)
  BY <1>2, <1>3 DEF Lefts, LeafR, Leaf
<1>7. Rights(b) = LeafR(I, R, k)
  BY <1>2, <1>3 DEF Rights, LeafR, Leaf
<1>8. Parents(b) = LeafP(I, Parents(a), v, k)
  <2>1. \A i \in I \cup {k} : b[i].parent = IF i = k THEN v ELSE Parents(a)[i]
    BY <1>2, <1>3 DEF Leaf
  <2> QED
    BY <1>2, <2>1 DEF Parents, LeafP
<1>9. Colors(b) = LeafColors(I, Colors(a), k)
  <2>1. \A i \in I \cup {k} : b[i].color = IF i = k THEN "red" ELSE Colors(a)[i]
    BY <1>2, <1>3 DEF Leaf
  <2> QED
    BY <1>2, <2>1 DEF Colors, LeafColors
<1>10. \A i \in I : b[i].record = a[i].record
  BY <1>1, <1>2
<1> QED
  BY <1>2, <1>5, <1>6, <1>7, <1>8, <1>9, <1>10 DEF b, Sprouts

\* The new link on the side the leaf hangs from.
LEMMA LeafSide ==
    ASSUME NEW I, NEW L \in [I -> I \cup {None}], NEW v \in I, NEW k, k \notin I
    PROVE  LeafR(I, [L EXCEPT ![v] = k], k) = LeafL(I, L, v, k)
BY DEF LeafR, LeafL

\* b is a red-black tree but for its node k, and beside k as a was.
GrownBy(a, b, root, k, node) ==
    /\ Grown(b, root, k)
    /\ DOMAIN b = DOMAIN a \cup {k}
    /\ b[k] = node
    /\ \A i \in DOMAIN a : b[i].record = a[i].record

\* The arena with a red leaf under v.
LEMMA LeafGrown ==
    ASSUME NEW a, NEW root, Grown(a, root, None), NEW anc,
           Ordered(DOMAIN a, root, Lefts(a), Rights(a), KeyOrder(a), anc),
           NEW k \in Key, k \notin DOMAIN a, NEW v \in DOMAIN a, Steps(a, k)[v] = None,
           Passes(Lefts(a), Rights(a), anc, k, v), NEW node, Leaf(node, v),
           NEW c, c = IF k < v THEN [a EXCEPT ![v].left = k] ELSE [a EXCEPT ![v].right = k]
    PROVE  GrownBy(a, Appended(c, k, node), root, k, node)
<1> DEFINE I == DOMAIN a
           J == I \cup {k}
           L == Lefts(a)
           R == Rights(a)
           P == Parents(a)
           C == Colors(a)
           C2 == LeafColors(I, C, k)
           b == Appended(c, k, node)
           ord == KeyOrder(b)
           neg == [i \in J |-> -ord[i]]
           twice == [i \in J |-> -neg[i]]
<1>1. IsArena(a) /\ Linked(I, root, L, R, P) /\ Coloured(I, root, P, C, None)
  BY DEF Grown, SearchTree, Coloring
<1>2. PICK count : Balanced(I, L, R, P, C, count)
  BY DEF Grown, Coloring
<1>3. k \in Link /\ k \in Nat /\ I \subseteq Nat /\ v \in Nat /\ k # v
  BY <1>1, TreeAssumption DEF Link, IsArena
<1>4. L \in [I -> I \cup {None}] /\ R \in [I -> I \cup {None}]
  BY <1>1 DEF Linked
<1>5. (k < v => L[v] = None) /\ (v < k => R[v] = None)
  BY <1>3 DEF Steps, Lefts, Rights
<1>6. \A x \in anc[v] : x \in I /\ (L[x] \in anc[v] \cup {v} <=> k < x)
                        /\ (R[x] \in anc[v] \cup {v} <=> x < k)
  BY DEF Passes, Ordered
<1>7. CASE k < v
  <2>0. c = [a EXCEPT ![v].left = k]
    BY <1>7
  <2>1. Edit(a, c, [L EXCEPT ![v] = k], R, P)
    <3>1. Edit(a, [a EXCEPT ![v].left = k], [L EXCEPT ![v] = k], R, P)
      BY <1>1, <1>3, SetLeft
    <3> HIDE DEF L, R, P
    <3> QED
      BY <2>0, <3>1
  <2> HIDE DEF I, L, R, P, C, C2, b
  <2>2. /\ IsArena(b) /\ DOMAIN b = J /\ b[k] = node
        /\ \A i \in I : b[i].record = a[i].record
        /\ Lefts(b) = LeafL(I, L, v, k) /\ Rights(b) = LeafR(I, R, k)
        /\ Parents(b) = LeafP(I, P, v, k) /\ Colors(b) = C2
    <3>1. Sprouts(a, b, LeafR(I, [L EXCEPT ![v] = k], k), LeafR(I, R, k), k, v, node)
      BY <2>1, AppendEdit DEF b, I, P
    <3>2. LeafR(I, [L EXCEPT ![v] = k], k) = LeafL(I, L, v, k)
      BY <1>4, LeafSide DEF I
    <3> QED
      BY <3>1, <3>2 DEF Sprouts, I, P, C, C2
  <2>3. Places(J, ord)
    BY <2>2, KeysPlaced
  <2>4. \A i \in J : ord[i] = i
    BY <2>2 DEF KeyOrder
  <2>5. Ordered(I, root, L, R, ord, anc)
    <3>1. \A i \in I : ord[i] = KeyOrder(a)[i]
      BY <2>4 DEF KeyOrder, I
    <3> HIDE DEF ord
    <3> QED
      BY <3>1, OrderedAgree DEF I, L, R
  <2> HIDE DEF ord
  <2>6. Hangs(I, root, L, R, P, ord, anc, v, k)
    <3>1. v \in I /\ k \notin I
      BY DEF I
    <3>2. \A x \in anc[v] : /\ L[x] \in anc[v] \cup {v} <=> ord[k] < ord[x]
                            /\ R[x] \in anc[v] \cup {v} <=> ord[x] < ord[k]
      BY <1>6, <2>4, <3>1
    <3> QED
      BY <1>1, <1>5, <1>7, <2>3, <2>4, <2>5, <3>1, <3>2 DEF Hangs
  <2>7. Linked(J, root, LeafL(I, L, v, k), LeafR(I, R, k), LeafP(I, P, v, k))
    BY <2>6, LeafLinked
  <2>8. Ordered(J, root, LeafL(I, L, v, k), LeafR(I, R, k), ord, LeafAnc(I, anc, v, k))
    BY <2>6, LeafOrdered
  <2>9. /\ Coloured(J, root, LeafP(I, P, v, k), C2, k)
        /\ \E n : Balanced(J, LeafL(I, L, v, k), LeafR(I, R, k), LeafP(I, P, v, k), C2, n)
    BY <1>1, <1>2, <2>6, LeafColoured DEF C2
  <2>10. SearchTree(b, root) /\ Coloring(b, root, k)
    <3>1. Linked(DOMAIN b, root, Lefts(b), Rights(b), Parents(b))
      BY <2>2, <2>7
    <3>2. Ordered(DOMAIN b, root, Lefts(b), Rights(b), KeyOrder(b), LeafAnc(I, anc, v, k))
      BY <2>2, <2>8 DEF ord
    <3> QED
      BY <2>2, <2>9, <3>1, <3>2 DEF SearchTree, Coloring
  <2> QED
    BY <2>2, <2>10 DEF GrownBy, Grown, b, I
<1>8. CASE ~(k < v)
  <2>0. c = [a EXCEPT ![v].right = k]
    BY <1>8
  <2>1. Edit(a, c, L, [R EXCEPT ![v] = k], P)
    <3>1. Edit(a, [a EXCEPT ![v].right = k], L, [R EXCEPT ![v] = k], P)
      BY <1>1, <1>3, SetRight
    <3> HIDE DEF L, R, P
    <3> QED
      BY <2>0, <3>1
  <2> HIDE DEF I, L, R, P, C, C2, b
  <2>2. /\ IsArena(b) /\ DOMAIN b = J /\ b[k] = node
        /\ \A i \in I : b[i].record = a[i].record
        /\ Lefts(b) = LeafR(I, L, k) /\ Rights(b) = LeafL(I, R, v, k)
        /\ Parents(b) = LeafP(I, P, v, k) /\ Colors(b) = C2
    <3>1. Sprouts(a, b, LeafR(I, L, k), LeafR(I, [R EXCEPT ![v] = k], k), k, v, node)
      BY <2>1, AppendEdit DEF b, I, P
    <3>2. LeafR(I, [R EXCEPT ![v] = k], k) = LeafL(I, R, v, k)
      BY <1>4, LeafSide DEF I
    <3> QED
      BY <3>1, <3>2 DEF Sprouts, I, P, C, C2
  <2>3. Places(J, ord)
    BY <2>2, KeysPlaced
  <2>4. /\ \A i \in J : ord[i] = i /\ neg[i] = -i /\ i \in Int
        /\ ord \in [J -> Int] /\ neg \in [J -> Int] /\ twice = ord
    <3>1. \A i \in J : ord[i] = i
      BY <2>2 DEF KeyOrder
    <3>2. ord \in [J -> Int]
      BY <2>3 DEF Places
    <3> HIDE DEF ord
    <3> QED
      BY <3>1, <3>2
  <2>5. Ordered(I, root, R, L, neg, anc)
    <3> DEFINE one == [i \in I |-> -KeyOrder(a)[i]]
    <3>1. KeyOrder(a) \in [I -> Int]
      BY <1>1, KeysPlaced DEF Places, I
    <3>2. Ordered(I, root, L, R, KeyOrder(a), anc)
      BY DEF I, L, R
    <3>3. Ordered(I, root, R, L, one, anc)
      BY <3>1, <3>2, Mirror
    <3>4. \A i \in I : neg[i] = one[i]
      BY <2>4 DEF KeyOrder, I
    <3> HIDE DEF one, neg
    <3> QED
      BY <3>3, <3>4, OrderedAgree
  <2>6. Places(J, neg)
    BY <2>3, <2>4, Mirror
  <2> HIDE DEF ord, neg
  <2>7. Hangs(I, root, R, L, P, neg, anc, v, k)
    <3>1. v \in I /\ k \notin I
      BY DEF I
    <3>2. \A x \in anc[v] : /\ R[x] \in anc[v] \cup {v} <=> neg[k] < neg[x]
                            /\ L[x] \in anc[v] \cup {v} <=> neg[x] < neg[k]
      BY <1>3, <1>6, <2>4, <3>1
    <3>3. neg[k] < neg[v]
      BY <1>3, <1>8, <2>4, <3>1
    <3>4. Linked(I, root, R, L, P)
      BY <1>1 DEF Linked
    <3> QED
      BY <1>3, <1>5, <1>8, <2>5, <2>6, <3>1, <3>2, <3>3, <3>4 DEF Hangs
  <2>8. Linked(J, root, LeafL(I, R, v, k), LeafR(I, L, k), LeafP(I, P, v, k))
    BY <2>7, LeafLinked
  <2>9. Ordered(J, root, LeafL(I, R, v, k), LeafR(I, L, k), neg, LeafAnc(I, anc, v, k))
    BY <2>7, LeafOrdered
  <2>10. /\ Coloured(J, root, LeafP(I, P, v, k), C2, k)
         /\ \E n : Balanced(J, LeafL(I, R, v, k), LeafR(I, L, k), LeafP(I, P, v, k), C2, n)
    <3>1. Balanced(I, R, L, P, C, count)
      BY <1>2, BalancedMirror
    <3> QED
      BY <1>1, <2>7, <3>1, LeafColoured DEF C2
  <2>11. Linked(DOMAIN b, root, Lefts(b), Rights(b), Parents(b))
    <3>1. Linked(DOMAIN b, root, Rights(b), Lefts(b), Parents(b))
      BY <2>2, <2>8
    <3> QED
      BY <3>1 DEF Linked
  <2>12. Ordered(DOMAIN b, root, Lefts(b), Rights(b), KeyOrder(b), LeafAnc(I, anc, v, k))
    <3>1. Ordered(J, root, Rights(b), Lefts(b), neg, LeafAnc(I, anc, v, k))
      BY <2>2, <2>9
    <3>2. Ordered(J, root, Lefts(b), Rights(b), twice, LeafAnc(I, anc, v, k))
      BY <2>4, <3>1, Mirror
    <3> QED
      BY <2>2, <2>4, <3>2 DEF ord
  <2>13. Coloring(b, root, k)
    <3>1. PICK n : Balanced(J, LeafL(I, R, v, k), LeafR(I, L, k), LeafP(I, P, v, k), C2, n)
      BY <2>10
    <3>2. Balanced(J, LeafR(I, L, k), LeafL(I, R, v, k), LeafP(I, P, v, k), C2, n)
      BY <3>1, BalancedMirror
    <3> QED
      BY <2>2, <2>10, <3>2 DEF Coloring
  <2> QED
    BY <2>2, <2>11, <2>12, <2>13 DEF Grown, GrownBy, SearchTree, b, I
<1> QED
  BY <1>7, <1>8

----------------------------------------------------------------------------
(* The invariant.                                                          *)

TreeInv == Shape(arena, root_node, fixing) /\ current_size \in Nat

\* The first node.
LEMMA RootGrown ==
    ASSUME NEW k \in Key, NEW node \in TreeNode, NEW a, a = [i \in {k} |-> node],
           node.left = None, node.right = None, node.parent = None, node.color = "black"
    PROVE  Grown(a, k, None)
<1> DEFINE one == [i \in {k} |-> {}]
           c == [i \in {k} |-> 1]
<1>1. /\ DOMAIN a = {k} /\ a[k] = node /\ k # None
      /\ Lefts(a) = [i \in {k} |-> None] /\ Rights(a) = [i \in {k} |-> None]
      /\ Parents(a) = [i \in {k} |-> None] /\ Colors(a) = [i \in {k} |-> "black"]
  BY TableAssumption DEF Lefts, Rights, Parents, Colors, None
<1>2. IsArena(a)
  BY <1>1 DEF IsArena
<1>3. Linked(DOMAIN a, k, Lefts(a), Rights(a), Parents(a))
  BY <1>1 DEF Linked
<1>4. Ordered(DOMAIN a, k, Lefts(a), Rights(a), KeyOrder(a), one)
  BY <1>1 DEF Ordered
<1>5. Coloured(DOMAIN a, k, Parents(a), Colors(a), None)
  BY <1>1 DEF Coloured
<1>6. Balanced(DOMAIN a, Lefts(a), Rights(a), Parents(a), Colors(a), c)
  BY <1>1 DEF Balanced
<1> QED
  BY <1>2, <1>3, <1>4, <1>5, <1>6 DEF Grown, SearchTree, Coloring

\* The tree does not see records.
LEMMA SetRecord ==
    ASSUME NEW a, NEW root, NEW f, Grown(a, root, f), NEW i \in DOMAIN a, NEW n \in Node
    PROVE  LET b == [a EXCEPT ![i].record = n]
           IN  /\ Grown(b, root, f) /\ DOMAIN b = DOMAIN a /\ b[i].record = n
               /\ \A j \in DOMAIN a : j # i => b[j] = a[j]
<1> DEFINE b == [a EXCEPT ![i].record = n]
<1>1. /\ DOMAIN b = DOMAIN a /\ a[i] \in TreeNode /\ b[i] = [a[i] EXCEPT !.record = n]
      /\ \A j \in DOMAIN a : a[j] \in TreeNode /\ (j # i => b[j] = a[j])
  BY DEF IsArena, Grown
<1>2. /\ b[i] \in TreeNode /\ b[i].parent = a[i].parent /\ b[i].left = a[i].left
      /\ b[i].right = a[i].right /\ b[i].color = a[i].color /\ b[i].record = n
  BY <1>1 DEF TreeNode
<1>3. b \in [DOMAIN b -> TreeNode]
  BY <1>1, <1>2 DEF IsArena, Grown
<1> HIDE DEF b
<1>4. IsArena(b)
  BY <1>1, <1>3 DEF IsArena, Grown
<1>5. /\ Lefts(b) = Lefts(a) /\ Rights(b) = Rights(a) /\ Parents(b) = Parents(a)
      /\ Colors(b) = Colors(a) /\ KeyOrder(b) = KeyOrder(a)
  BY <1>1, <1>2 DEF Lefts, Rights, Parents, Colors, KeyOrder
<1>6. Grown(b, root, f)
  BY <1>1, <1>4, <1>5 DEF Grown, SearchTree, Coloring
<1> QED
  BY <1>1, <1>2, <1>6 DEF b

\* What an insertion does to the records, beside keeping the tree.
LEMMA InsertRootShape ==
    ASSUME NEW e \in Entries, TreeInv, InsertRoot(e)
    PROVE  /\ TreeInv' /\ Index = {} /\ Index' = {e.key} /\ e.key \in Key
           /\ arena'[e.key].record = NewNode(e.datum)
<1>1. e.key \in Key /\ e.datum \in Datum
  BY TreeAssumption DEF Entry
<1>2. NewNode(e.datum) \in Node
  BY <1>1 DEF NewNode, Node, Datum
<1>3. NewTreeNode(e, None, "black") \in TreeNode
  BY <1>2 DEF NewTreeNode, TreeNode, Link
<1>4. Index = {}
  <2>1. Grown(arena, root_node, fixing) => root_node \in Index /\ IsArena(arena)
    BY DEF Grown, SearchTree, Linked, Index
  <2>2. ~Grown(arena, root_node, fixing)
    BY <2>1, KeysPlaced DEF InsertRoot, Places, Index
  <2> QED
    BY <2>2 DEF TreeInv, Shape, Index
<1>5. arena' = [i \in {e.key} |-> NewTreeNode(e, None, "black")]
  BY DEF InsertRoot
<1>6. Grown(arena', e.key, None)
  <2>1. LET node == NewTreeNode(e, None, "black")
        IN  node.left = None /\ node.right = None /\ node.parent = None /\ node.color = "black"
    BY DEF NewTreeNode
  <2> QED
    BY <1>1, <1>3, <1>5, <2>1, RootGrown
<1>7. TreeInv'
  <2>1. root_node' = e.key /\ fixing' = None /\ current_size' = current_size
    BY DEF InsertRoot
  <2>2. Shape(arena', root_node', fixing')
    BY <1>6, <2>1 DEF Shape, Grown
  <2> QED
    BY <2>1, <2>2 DEF TreeInv
<1>8. Index' = {e.key} /\ arena'[e.key].record = NewNode(e.datum)
  BY <1>5 DEF Index, NewTreeNode
<1> QED
  BY <1>1, <1>4, <1>7, <1>8

\* An update in place.
LEMMA InsertExistingShape ==
    ASSUME NEW e \in Entries, TreeInv, InsertExisting(e)
    PROVE  /\ TreeInv' /\ e.key \in Index /\ Index' = Index /\ e.key \in Key
           /\ arena'[e.key].record = update_from_record(arena[e.key].record, e.datum)
           /\ \A j \in Index : j # e.key => arena'[j].record = arena[j].record
<1>1. e.key \in Key /\ e.datum \in Datum
  BY TreeAssumption DEF Entry
<1>2. get_search(e.key) = IF e.key \in Index THEN e.key ELSE None
  BY <1>1, SearchFinds DEF TreeInv
<1>3. e.key \in Index /\ get_search(e.key) = e.key
  BY <1>2 DEF InsertExisting
<1>4. Grown(arena, root_node, fixing)
  BY <1>3 DEF TreeInv, Shape, Index
<1> DEFINE n == update_from_record(arena[e.key].record, e.datum)
<1>5. n \in Node
  <2>1. arena[e.key].record \in Node
    BY <1>3, <1>4 DEF Grown, IsArena, TreeNode, Index
  <2> QED
    BY <1>1, <2>1 DEF update_from_record, Node, Datum
<1>6. arena' = [arena EXCEPT ![e.key].record = n]
  BY <1>3 DEF InsertExisting
<1> HIDE DEF n
<1>7. /\ Grown(arena', root_node, fixing) /\ DOMAIN arena' = DOMAIN arena
      /\ arena'[e.key].record = n
      /\ \A j \in DOMAIN arena : j # e.key => arena'[j] = arena[j]
  <2>1. e.key \in DOMAIN arena
    BY <1>3 DEF Index
  <2> QED
    BY <1>4, <1>5, <1>6, <2>1, SetRecord
<1>8. root_node' = root_node /\ fixing' = fixing /\ current_size' = current_size
  BY DEF InsertExisting
<1>9. TreeInv'
  BY <1>7, <1>8 DEF TreeInv, Shape, Grown
<1> QED
  BY <1>1, <1>3, <1>7, <1>9 DEF Index, n

\* A new leaf.
LEMMA InsertNewShape ==
    ASSUME NEW e \in Entries, TreeInv, InsertNew(e)
    PROVE  /\ TreeInv' /\ Index # {} /\ e.key \notin Index /\ Index' = Index \cup {e.key}
           /\ e.key \in Key /\ arena'[e.key].record = NewNode(e.datum)
           /\ \A j \in Index : arena'[j].record = arena[j].record
<1>1. e.key \in Key /\ e.datum \in Datum
  BY TreeAssumption DEF Entry
<1>2. get_search(e.key) = IF e.key \in Index THEN e.key ELSE None
  BY <1>1, SearchFinds DEF TreeInv
<1>3. e.key \notin Index
  BY <1>1, <1>2, TableAssumption DEF InsertNew, None
<1>4. Grown(arena, root_node, None) /\ fixing = None
  BY DEF TreeInv, Shape, InsertNew
<1>5. IsArena(arena) /\ Linked(Index, root_node, Lefts(arena), Rights(arena), Parents(arena))
  BY <1>4 DEF Grown, SearchTree, Index
<1>6. PICK anc : Ordered(Index, root_node, Lefts(arena), Rights(arena), KeyOrder(arena), anc)
  BY <1>4 DEF Grown, SearchTree, Index
<1> DEFINE v == Descend(e.key)
           node == NewTreeNode(e, v, "red")
           c == IF e.key < v THEN [arena EXCEPT ![v].left = e.key]
                             ELSE [arena EXCEPT ![v].right = e.key]
<1>7. v \in Index /\ Steps(arena, e.key)[v] = None
      /\ Passes(Lefts(arena), Rights(arena), anc, e.key, v)
  <2>1. v = Walk(arena, e.key)[root_node]
    BY DescendWalks
  <2> HIDE DEF v
  <2> QED
    BY <1>1, <1>3, <1>5, <1>6, <2>1, SearchEnds DEF Index
<1>8. DOMAIN c = Index /\ arena' = Appended(c, e.key, node)
  <2> HIDE DEF v, node
  <2>1. DOMAIN c = Index
    BY DEF Index
  <2>2. arena' = [k \in Index \cup {e.key} |-> IF k = e.key THEN node ELSE c[k]]
    BY DEF InsertNew, v, node
  <2> HIDE DEF c
  <2> QED
    BY <2>1, <2>2 DEF Appended
<1>9. Leaf(node, v)
  <2> HIDE DEF v
  <2>1. NewNode(e.datum) \in Node
    BY <1>1 DEF NewNode, Node, Datum
  <2>2. v \in Link /\ None \in Link
    BY <1>5, <1>7 DEF Link, IsArena, Index
  <2> QED
    BY <2>1, <2>2 DEF Leaf, TreeNode, NewTreeNode
<1>10. node.record = NewNode(e.datum)
  BY DEF NewTreeNode
<1> HIDE DEF v, node
<1>11. /\ Grown(Appended(c, e.key, node), root_node, e.key)
       /\ DOMAIN Appended(c, e.key, node) = Index \cup {e.key}
       /\ Appended(c, e.key, node)[e.key] = node
       /\ \A i \in Index : Appended(c, e.key, node)[i].record = arena[i].record
  <2>1. c = IF e.key < v THEN [arena EXCEPT ![v].left = e.key]
                         ELSE [arena EXCEPT ![v].right = e.key]
    OBVIOUS
  <2> HIDE DEF c
  <2>2. e.key \notin DOMAIN arena /\ v \in DOMAIN arena
    BY <1>3, <1>7 DEF Index
  <2>3. Ordered(DOMAIN arena, root_node, Lefts(arena), Rights(arena), KeyOrder(arena), anc)
    BY <1>6 DEF Index
  <2>4. GrownBy(arena, Appended(c, e.key, node), root_node, e.key, node)
    BY <1>1, <1>4, <1>7, <1>9, <2>1, <2>2, <2>3, LeafGrown
  <2> QED
    BY <2>4 DEF GrownBy, Index
<1>12. /\ root_node' = root_node /\ fixing' = e.key
       /\ current_size' = current_size + NodeSize(e.datum)
  BY DEF InsertNew
<1>13. current_size' \in Nat
  BY <1>12, TableAssumption DEF TreeInv, NodeSize
<1>14. TreeInv'
  <2>1. Grown(arena', root_node', fixing')
    BY <1>8, <1>11, <1>12
  <2> QED
    BY <1>13, <2>1 DEF TreeInv, Shape, Grown
<1> QED
  BY <1>1, <1>3, <1>7, <1>8, <1>10, <1>11, <1>14 DEF Index

\* A turn of the loop keeps the tree and the records.
LEMMA FixShape ==
    ASSUME TreeInv, FixDone \/ FixRecolor \/ FixInner \/ FixOuter
    PROVE  TreeInv' /\ SameRecords(arena, arena') /\ current_size' = current_size
<1>1. fixing # None
  BY DEF FixDone, FixRecolor, FixInner, FixOuter, RedParent
<1>2. Grown(arena, root_node, fixing)
  BY <1>1 DEF TreeInv, Shape
<1>3. Grown(arena', root_node', fixing') /\ SameRecords(arena, arena')
  BY <1>2, FixDoneGrown, FixRecolorGrown, FixInnerGrown, FixOuterGrown
<1>4. current_size' = current_size
  BY DEF FixDone, FixRecolor, FixInner, FixOuter
<1> QED
  BY <1>3, <1>4 DEF TreeInv, Shape, Grown

\* Init => TreeInv and TreeInv /\ [Next]_vars => TreeInv'.
LEMMA TreeInductive ==
    /\ Init => TreeInv
    /\ TreeInv /\ [Next]_vars => TreeInv'
<1>1. ASSUME Init PROVE TreeInv
  <2>1. DOMAIN arena = {}
    BY <1>1 DEF Init
  <2>2. arena \in [DOMAIN arena -> TreeNode]
    BY <1>1 DEF Init
  <2> QED
    BY <1>1, <2>1, <2>2 DEF Init, TreeInv, Shape, IsArena
<1>2. ASSUME TreeInv, UNCHANGED vars PROVE TreeInv'
  BY <1>2 DEF TreeInv, vars
<1>3. ASSUME TreeInv, Next PROVE TreeInv'
  <2>1. ASSUME NEW e \in Entries, InsertFull(e) PROVE TreeInv'
    BY <1>2, <1>3, <2>1 DEF InsertFull
  <2>2. ASSUME NEW e \in Entries, InsertRoot(e) PROVE TreeInv'
    BY <1>3, <2>2, InsertRootShape
  <2>3. ASSUME NEW e \in Entries, InsertExisting(e) PROVE TreeInv'
    BY <1>3, <2>3, InsertExistingShape
  <2>4. ASSUME NEW e \in Entries, InsertNew(e) PROVE TreeInv'
    BY <1>3, <2>4, InsertNewShape
  <2>5. ASSUME FixDone \/ FixRecolor \/ FixInner \/ FixOuter PROVE TreeInv'
    BY <1>3, <2>5, FixShape
  <2> QED
    BY <1>3, <2>1, <2>2, <2>3, <2>4, <2>5 DEF Next
<1> QED
  BY <1>1, <1>2, <1>3

\* At every step of every insertion the arena is a search tree over its keys
\* with the rules of a red-black tree, but for the node the loop of
\* insert_fix_tree has in hand.
THEOREM TreeStaysATree == Spec => []TreeInv
<1>1. Init => TreeInv
  BY TreeInductive
<1>2. TreeInv /\ [Next]_vars => TreeInv'
  BY TreeInductive
<1> QED
  BY <1>1, <1>2, PTL DEF Spec

----------------------------------------------------------------------------
(* The links and the colours.                                              *)

\* A node on one side of its parent is on that side only.
LEMMA OneSide ==
    ASSUME NEW a, NEW root, IsArena(a), SearchTree(a, root), NEW i \in DOMAIN a, i # root
    PROVE  a[i].parent \in DOMAIN a /\ (a[a[i].parent].left = i) # (a[a[i].parent].right = i)
<1> DEFINE I == DOMAIN a
           L == Lefts(a)
           R == Rights(a)
           P == Parents(a)
           p == a[i].parent
<1>1. Linked(I, root, L, R, P) /\ None \notin I /\ KeyOrder(a) \in [I -> Int]
  BY KeysPlaced DEF SearchTree, Places
<1>2. PICK anc : Ordered(I, root, L, R, KeyOrder(a), anc)
  BY DEF SearchTree
<1>3. P[i] = p /\ (p \in I => L[p] = a[p].left /\ R[p] = a[p].right)
  BY DEF Lefts, Rights, Parents
<1> HIDE DEF I, L, R, P, p
<1>4. p \in I /\ i \in {L[p], R[p]} /\ i \in I
  BY <1>1, <1>3 DEF Linked, I
<1>5. anc[i] = anc[p] \cup {p}
  BY <1>1, <1>2, <1>4 DEF Ordered
<1>6. ~(L[p] = i /\ R[p] = i)
  BY <1>1, <1>2, <1>4, <1>5 DEF Ordered
<1>7. p \in I /\ (a[p].left = i) # (a[p].right = i)
  BY <1>3, <1>4, <1>6
<1> QED
  BY <1>7 DEF p, I

\* The links of a tree being grown are those of a tree at every step of an
\* insertion, whatever is inserted.
THEOREM TreeWellLinked == Spec => []WellLinked
<1>1. ASSUME TreeInv PROVE WellLinked
  <2>1. CASE DOMAIN arena = {} /\ root_node = None
    BY <2>1 DEF WellLinked, Index
  <2>2. CASE Grown(arena, root_node, fixing)
    <3>1. IsArena(arena) /\ SearchTree(arena, root_node) /\ None \notin Index
      BY <2>2, KeysPlaced DEF Grown, Places, Index
    <3>2. Linked(Index, root_node, Lefts(arena), Rights(arena), Parents(arena))
      BY <3>1 DEF SearchTree, Index
    <3>3. \A i \in Index : Lefts(arena)[i] = arena[i].left /\ Rights(arena)[i] = arena[i].right
                           /\ Parents(arena)[i] = arena[i].parent
      BY DEF Lefts, Rights, Parents, Index
    <3>4. root_node \in Index /\ root_node # None /\ arena[root_node].parent = None
      BY <3>1, <3>2, <3>3 DEF Linked
    <3>5. ASSUME NEW i \in Index, i # root_node
          PROVE  /\ arena[i].parent # None
                 /\ (arena[arena[i].parent].left = i) # (arena[arena[i].parent].right = i)
      BY <3>1, <3>5, OneSide DEF Index
    <3>6. ASSUME NEW i \in Index, NEW c \in {arena[i].left, arena[i].right} \ {None}
          PROVE  arena[c].parent = i
      <4>1. c \in Index /\ Parents(arena)[c] = i
        BY <3>2, <3>3 DEF Linked
      <4> QED
        BY <3>3, <4>1
    <3> QED
      BY <3>4, <3>5, <3>6 DEF WellLinked
  <2> QED
    BY <1>1, <2>1, <2>2 DEF TreeInv, Shape
<1> QED
  BY <1>1, TreeStaysATree, PTL

\* g counts the black nodes up to the root the way Blacks does.
CountsUp(a, g) ==
    g = [j \in DOMAIN a |-> (IF a[j].color = "black" THEN 1 ELSE 0)
                              + (IF a[j].parent = None THEN 0 ELSE g[a[j].parent])]

\* Only one function does: the highest node where two differ has a parent
\* where they agree.
LEMMA CountUnique ==
    ASSUME NEW a, NEW root, IsArena(a), SearchTree(a, root), NEW count, NEW g,
           Balanced(DOMAIN a, Lefts(a), Rights(a), Parents(a), Colors(a), count),
           CountsUp(a, g)
    PROVE  \A i \in DOMAIN a : g[i] = count[i]
<1> DEFINE I == DOMAIN a
           P == Parents(a)
           B == {i \in I : g[i] # count[i]}
           b(i) == IF a[i].color = "black" THEN 1 ELSE 0
<1>1. Linked(I, root, Lefts(a), Rights(a), P) /\ IsFiniteSet(I)
  BY FS_Subset, TableAssumption DEF SearchTree, IsArena
<1>2. PICK anc : Ordered(I, root, Lefts(a), Rights(a), KeyOrder(a), anc)
  BY DEF SearchTree
<1>3. Above(I, anc)
  BY <1>2 DEF Above, Ordered
<1>4. ASSUME NEW i \in I, P[i] # None PROVE P[i] \in I /\ P[i] \in anc[i]
  <2>1. P[i] \in I /\ i \in {Lefts(a)[P[i]], Rights(a)[P[i]]} /\ i # None
    BY <1>1, <1>4, KeysPlaced DEF Linked, Places
  <2>2. anc[i] = anc[P[i]] \cup {P[i]}
    BY <1>2, <2>1 DEF Ordered
  <2> QED
    BY <2>1, <2>2
<1>5. \A i \in I : P[i] = a[i].parent /\ Colors(a)[i] = a[i].color
  BY DEF Parents, Colors
<1>6. \A i \in I : g[i] = b(i) + (IF P[i] = None THEN 0 ELSE g[P[i]])
  BY <1>5 DEF CountsUp
<1>7. \A i \in I : count[i] = b(i) + (IF P[i] = None THEN 0 ELSE count[P[i]])
  BY <1>5 DEF Balanced
<1> HIDE DEF I, P
<1>8. ASSUME B # {} PROVE FALSE
  <2>0. B \subseteq I
    OBVIOUS
  <2> HIDE DEF B
  <2>1. PICK x \in B : \A y \in B : y \notin anc[x]
    <3>1. Extremes(B, anc)
      BY <1>1, <1>3, <1>8, <2>0, DeepestHighest
    <3> QED
      BY <3>1 DEF Extremes
  <2> USE DEF B
  <2>2. P[x] # None => P[x] \in I /\ g[P[x]] = count[P[x]]
    BY <1>4, <2>1
  <2> QED
    BY <1>6, <1>7, <2>1, <2>2
<1> QED
  BY <1>8 DEF I

\* Blacks is the count of Balanced.
LEMMA BlacksCounted ==
    ASSUME NEW count, Grown(arena, root_node, fixing),
           Balanced(Index, Lefts(arena), Rights(arena), Parents(arena), Colors(arena), count)
    PROVE  \A i \in Index : Blacks(i) = count[i]
<1> DEFINE up == CHOOSE g : CountsUp(arena, g)
<1>1. ASSUME NEW i PROVE Blacks(i) = up[i]
  BY DEF Blacks, CountsUp, Index
<1>2. CountsUp(arena, count)
  <2>1. \A i \in Index : Parents(arena)[i] = arena[i].parent /\ Colors(arena)[i] = arena[i].color
    BY DEF Parents, Colors, Index
  <2>2. count = [i \in Index |-> count[i]]
    BY DEF Balanced
  <2> QED
    BY <2>1, <2>2 DEF Balanced, CountsUp, Index
<1>3. CountsUp(arena, up)
  BY <1>2
<1> HIDE DEF up
<1>4. IsArena(arena) /\ SearchTree(arena, root_node)
  BY DEF Grown
<1>5. \A i \in DOMAIN arena : up[i] = count[i]
  BY <1>3, <1>4, CountUnique DEF Index
<1> QED
  BY <1>1, <1>5 DEF Index

\* The rules of a red-black tree hold between insertions, and during one only
\* the node in hand breaks them: every path down is as black, whatever is
\* inserted.
THEOREM TreeRedBlack == Spec => []RedBlack
<1>1. ASSUME TreeInv PROVE RedBlack
  <2>1. CASE DOMAIN arena = {} /\ root_node = None
    BY <2>1 DEF RedBlack, Index
  <2>2. CASE Grown(arena, root_node, fixing)
    <3>1. Coloured(Index, root_node, Parents(arena), Colors(arena), fixing)
      BY <2>2 DEF Grown, Coloring, Index
    <3>2. PICK count : Balanced(Index, Lefts(arena), Rights(arena), Parents(arena),
                                Colors(arena), count)
      BY <2>2 DEF Grown, Coloring, Index
    <3>3. /\ Linked(Index, root_node, Lefts(arena), Rights(arena), Parents(arena))
          /\ None \notin Index
      BY <2>2, KeysPlaced DEF Grown, SearchTree, Places, Index
    <3>4. \A i \in Index : /\ Lefts(arena)[i] = arena[i].left
                           /\ Rights(arena)[i] = arena[i].right
                           /\ Parents(arena)[i] = arena[i].parent
                           /\ Colors(arena)[i] = arena[i].color
      BY DEF Lefts, Rights, Parents, Colors, Index
    <3>5. root_node # fixing => arena[root_node].color = "black"
      BY <3>1, <3>3, <3>4 DEF Coloured, Linked
    <3>6. ASSUME NEW i \in Index \ {root_node, fixing}, arena[i].color = "red"
          PROVE  arena[arena[i].parent].color = "black"
      <4>1. Parents(arena)[i] \in Index
        BY <3>3, <3>6 DEF Linked
      <4> QED
        BY <3>1, <3>4, <3>6, <4>1 DEF Coloured
    <3>7. ASSUME NEW i \in Index, NEW j \in Index, None \in {arena[i].left, arena[i].right},
                 None \in {arena[j].left, arena[j].right}
          PROVE  Blacks(i) = Blacks(j)
      <4>1. count[i] = count[j]
        BY <3>2, <3>4, <3>7 DEF Balanced
      <4> QED
        BY <2>2, <3>2, <4>1, BlacksCounted
    <3> QED
      BY <3>5, <3>6, <3>7 DEF RedBlack
  <2> QED
    BY <1>1, <2>1, <2>2 DEF TreeInv, Shape
<1> QED
  BY <1>1, TreeStaysATree, PTL

----------------------------------------------------------------------------
(* The tree implements the memtable.                                       *)

\* The table whose records are those of arena a.
TableOf(a, size) ==
    [wal |-> 1, buffer |-> << >>, size |-> size,
     arena |-> [k \in Key |-> IF k \in DOMAIN a THEN a[k].record ELSE Absent]]

\* A search shows the records of the arena, before and after a step.
LEMMA ShownTable ==
    /\ TreeInv => Shown = TableOf(arena, current_size)
    /\ TreeInv' => Shown' = TableOf(arena', current_size')
<1>1. ASSUME NEW k \in Key PROVE Absent # k
  BY TableAssumption
<1>2. ASSUME TreeInv PROVE Shown = TableOf(arena, current_size)
  <2>1. ASSUME NEW k \in Key
        PROVE  (IF get_search(k) = None THEN Absent ELSE arena[get_search(k)].record)
                 = IF k \in DOMAIN arena THEN arena[k].record ELSE Absent
    <3>1. get_search(k) = IF k \in Index THEN k ELSE None
      BY <1>2, SearchFinds DEF TreeInv
    <3> QED
      BY <1>1, <3>1 DEF Index, None
  <2> QED
    BY <2>1 DEF Shown, TableOf
<1>3. ASSUME TreeInv' PROVE Shown' = TableOf(arena', current_size')
  <2>1. ASSUME NEW k \in Key
        PROVE  (IF get_search(k)' = Absent THEN Absent ELSE arena'[get_search(k)'].record)
                 = IF k \in DOMAIN arena' THEN arena'[k].record ELSE Absent
    <3>1. get_search(k)' = IF k \in Index' THEN k ELSE Absent
      BY <1>3, SearchFinds DEF TreeInv, None
    <3> QED
      BY <1>1, <3>1 DEF Index
  <2> QED
    BY <2>1 DEF Shown, TableOf, None
<1> QED
  BY <1>2, <1>3

\* The nodes of that table are those of the arena.
LEMMA NodesOfTable ==
    ASSUME NEW a, IsArena(a), NEW n
    PROVE  /\ Nodes(TableOf(a, n)) = DOMAIN a
           /\ \A k \in Key : TableOf(a, n).arena[k] # Absent <=> k \in DOMAIN a
<1>1. \A k \in DOMAIN a : k \in Key /\ a[k].record # Absent
  BY TableAssumption DEF IsArena, TreeNode
<1>2. \A k \in Key : TableOf(a, n).arena[k] = IF k \in DOMAIN a THEN a[k].record ELSE Absent
  BY DEF TableOf
<1> QED
  BY <1>1, <1>2 DEF Nodes

\* b is a after record e was put in.
Put(a, n, b, m, e) ==
    \/ /\ e.key \in DOMAIN a /\ DOMAIN b = DOMAIN a /\ m = n
       /\ b[e.key].record = update_from_record(a[e.key].record, e.datum)
       /\ \A j \in DOMAIN a : j # e.key => b[j].record = a[j].record
    \/ /\ e.key \notin DOMAIN a /\ DOMAIN b = DOMAIN a \cup {e.key}
       /\ m = IF DOMAIN a = {} THEN n ELSE n + NodeSize(e.datum)
       /\ b[e.key].record = NewNode(e.datum)
       /\ \A j \in DOMAIN a : b[j].record = a[j].record

\* A record put into the arena is one inserted into the table.
LEMMA PutInserts ==
    ASSUME NEW a, IsArena(a), NEW b, NEW n, NEW m, NEW e, e.key \in Key, Put(a, n, b, m, e)
    PROVE  TableOf(b, m) = insert_node(TableOf(a, n), e)
<1> DEFINE T == TableOf(a, n)
           held(k) == IF k \in DOMAIN a THEN a[k].record ELSE Absent
<1>1. Nodes(T) = DOMAIN a /\ (T.arena[e.key] # Absent <=> e.key \in DOMAIN a)
  BY NodesOfTable
<1>2. /\ T = [wal |-> 1, buffer |-> << >>, size |-> n, arena |-> [k \in Key |-> held(k)]]
      /\ \A k \in Key : T.arena[k] = held(k)
      /\ T.size = n
  BY DEF TableOf
<1>3. CASE e.key \in DOMAIN a
  <2>1. insert_node(T, e) = [T EXCEPT !.arena[e.key] = update_from_record(T.arena[e.key], e.datum)]
    BY <1>1, <1>3 DEF insert_node
  <2>2. insert_node(T, e) =
          [wal |-> 1, buffer |-> << >>, size |-> n,
           arena |-> [[k \in Key |-> held(k)] EXCEPT ![e.key] = update_from_record(held(e.key), e.datum)]]
    BY <1>2, <2>1
  <2>3. [[k \in Key |-> held(k)] EXCEPT ![e.key] = update_from_record(held(e.key), e.datum)]
          = [k \in Key |-> IF k \in DOMAIN b THEN b[k].record ELSE Absent]
    BY <1>3 DEF Put
  <2> QED
    BY <1>3, <2>2, <2>3 DEF TableOf, Put
<1>4. CASE e.key \notin DOMAIN a
  <2>1. insert_node(T, e) =
          [T EXCEPT !.arena[e.key] = NewNode(e.datum),
                    !.size = IF DOMAIN a = {} THEN n ELSE n + NodeSize(e.datum)]
    BY <1>1, <1>2, <1>4 DEF insert_node
  <2>2. insert_node(T, e) =
          [wal |-> 1, buffer |-> << >>, size |-> m,
           arena |-> [[k \in Key |-> held(k)] EXCEPT ![e.key] = NewNode(e.datum)]]
    <3> DEFINE h == [k \in Key |-> held(k)]
               x == NewNode(e.datum)
    <3>1. m = IF DOMAIN a = {} THEN n ELSE n + NodeSize(e.datum)
      BY <1>4 DEF Put
    <3>2. T = [wal |-> 1, buffer |-> << >>, size |-> n, arena |-> h]
      BY <1>2
    <3>3. insert_node(T, e) = [T EXCEPT !.arena[e.key] = x, !.size = m]
      BY <2>1, <3>1
    <3> HIDE DEF T, h, x
    <3>4. insert_node(T, e) = [wal |-> 1, buffer |-> << >>, size |-> m, arena |-> [h EXCEPT ![e.key] = x]]
      BY <3>2, <3>3
    <3> QED
      BY <3>4 DEF h, x
  <2>3. [[k \in Key |-> held(k)] EXCEPT ![e.key] = NewNode(e.datum)]
          = [k \in Key |-> IF k \in DOMAIN b THEN b[k].record ELSE Absent]
    BY <1>4 DEF Put
  <2> QED
    BY <2>2, <2>3 DEF TableOf
<1> QED
  BY <1>3, <1>4

\* The insertions of the abstract memtable, in the operators of this module.
LEMMA AbstractInsert ==
    ASSUME NEW e
    PROVE  Abstract!Insert(e) <=> ~full(Shown) /\ Shown' = insert_node(Shown, e)
BY DEF Abstract!Insert, Abstract!full, Abstract!Nodes, Abstract!insert_node, Abstract!NodeSize,
       Abstract!Cardinality, Abstract!NewNode, Abstract!update_from_record,
       Cardinality, full, Nodes, insert_node, NodeSize, NewNode, update_from_record

\* Every step of the tree is an insertion into the memtable a search shows,
\* or changes nothing of it.
LEMMA MemtableStep ==
    ASSUME TreeInv, TreeInv', [Next]_vars
    PROVE  [Abstract!Next]_Shown
<1> DEFINE S == TableOf(arena, current_size)
           S2 == TableOf(arena', current_size')
<1>1. Shown = S /\ Shown' = S2
  BY ShownTable
<1>2. IsArena(arena) /\ IsArena(arena')
  BY DEF TreeInv, Shape
<1>3. ASSUME DOMAIN arena' = DOMAIN arena, current_size' = current_size,
             \A j \in DOMAIN arena : arena'[j].record = arena[j].record
      PROVE  S2 = S
  BY <1>3 DEF TableOf
<1>4. ASSUME NEW e \in Entries, ~tree_full, e.key \in Key,
             Put(arena, current_size, arena', current_size', e)
      PROVE  Abstract!Next
  <2>1. ~full(S)
    <3>1. Nodes(S) = Index /\ S.size = current_size
      BY <1>2, NodesOfTable DEF TableOf, Index
    <3> QED
      BY <1>4, <3>1 DEF full, tree_full
  <2>2. S2 = insert_node(S, e)
    BY <1>2, <1>4, PutInserts
  <2>3. Abstract!Insert(e)
    BY <1>1, <2>1, <2>2, AbstractInsert
  <2> QED
    BY <2>3 DEF Abstract!Next
<1>5. ASSUME NEW e \in Entries, InsertRoot(e) PROVE Abstract!Next
  <2>1. Put(arena, current_size, arena', current_size', e) /\ e.key \in Key
    BY <1>5, InsertRootShape DEF Put, Index, InsertRoot
  <2> QED
    BY <1>4, <1>5, <2>1 DEF InsertRoot
<1>6. ASSUME NEW e \in Entries, InsertExisting(e) PROVE Abstract!Next
  <2>1. Put(arena, current_size, arena', current_size', e) /\ e.key \in Key
    BY <1>6, InsertExistingShape DEF Put, Index, InsertExisting
  <2> QED
    BY <1>4, <1>6, <2>1 DEF InsertExisting
<1>7. ASSUME NEW e \in Entries, InsertNew(e) PROVE Abstract!Next
  <2>1. Put(arena, current_size, arena', current_size', e) /\ e.key \in Key
    BY <1>7, InsertNewShape DEF Put, Index, InsertNew
  <2> QED
    BY <1>4, <1>7, <2>1 DEF InsertNew
<1>8. ASSUME FixDone \/ FixRecolor \/ FixInner \/ FixOuter PROVE Shown' = Shown
  BY <1>1, <1>3, <1>8, FixShape DEF SameRecords
<1>9. ASSUME UNCHANGED vars PROVE Shown' = Shown
  BY <1>1, <1>9 DEF vars
<1> QED
  BY <1>5, <1>6, <1>7, <1>8, <1>9 DEF Next, InsertFull

\* The tree implements the memtable of the engine's model, whatever is
\* inserted: an insertion shows at once to every search with the size and the
\* limits of the table, and no turn of the loop changes what is found.
THEOREM TreeImplementsMemtable == Spec => ImplementsMemtable
<1>1. ASSUME Init PROVE Abstract!Init
  <2>1. Shown = TableOf(arena, current_size)
    BY <1>1, TreeInductive, ShownTable
  <2>2. DOMAIN arena = {} /\ current_size = 0
    BY <1>1 DEF Init
  <2> QED
    BY <2>1, <2>2 DEF TableOf, Abstract!Init, Abstract!NewTable
<1>2. TreeInv /\ TreeInv' /\ [Next]_vars => [Abstract!Next]_Shown
  BY MemtableStep
<1> QED
  BY <1>1, <1>2, TreeStaysATree, PTL DEF Spec, ImplementsMemtable, Abstract!Spec

----------------------------------------------------------------------------
(* The order of a flush.                                                   *)

\* s lists the numbers of S in ascending order.
Lists(S, s) ==
    /\ s \in Seq(S)
    /\ \A x \in S : \E n \in 1..Len(s) : s[n] = x
    /\ \A m, n \in 1..Len(s) : m < n => s[m] < s[n]

\* A list of numbers of S has them only.
LEMMA ListsTyped ==
    ASSUME NEW S, S \subseteq Nat, NEW s, Lists(S, s)
    PROVE  Len(s) \in Nat /\ \A n \in 1..Len(s) : s[n] \in S /\ s[n] \in Nat
<1>1. s \in Seq(S)
  BY DEF Lists
<1>2. Len(s) \in Nat /\ \A n \in 1..Len(s) : s[n] \in S
  BY <1>1
<1> QED
  BY <1>2

\* There is one such list.
LEMMA ListsUnique ==
    ASSUME NEW S, S \subseteq Nat, NEW s, NEW t, Lists(S, s), Lists(S, t)
    PROVE  s = t
<1> DEFINE Differ(n) == n \notin 1..Len(s) \/ n \notin 1..Len(t) \/ s[n] # t[n]
           D == {n \in (1..Len(s)) \cup (1..Len(t)) : Differ(n)}
<1>1. /\ Len(s) \in Nat /\ Len(t) \in Nat
      /\ \A n \in 1..Len(s) : s[n] \in S /\ s[n] \in Nat
      /\ \A n \in 1..Len(t) : t[n] \in S /\ t[n] \in Nat
  BY ListsTyped
<1>2. ASSUME D # {} PROVE FALSE
  <2>1. PICK d \in D : \A n \in D : ~(n < d)
    <3>1. D \subseteq Nat
      BY <1>1
    <3> HIDE DEF D
    <3>2. \E d \in D : \A n \in D : ~(<< n, d >> \in OpToRel(<, Nat))
      BY <1>2, <3>1, NatLessThanWellFounded, WFMin
    <3> QED
      BY <3>1, <3>2 DEF OpToRel
  <2>2. d \in Nat \ {0}
    BY <1>1
  <2>3. \A n \in 1..(d - 1) : n \in 1..Len(s) /\ n \in 1..Len(t) /\ s[n] = t[n]
    BY <1>1, <2>1, <2>2
  \* What one list has at d, the other has further on.
  <2>4. ASSUME d \in 1..Len(s) PROVE d \in 1..Len(t) /\ t[d] < s[d]
    <3>1. PICK m \in 1..Len(t) : t[m] = s[d]
      BY <1>1, <2>4 DEF Lists
    <3>2. ~(m < d)
      BY <1>1, <2>2, <2>3, <2>4, <3>1 DEF Lists
    <3>3. m # d
      BY <1>1, <2>1, <2>4, <3>1
    <3> QED
      BY <1>1, <2>2, <3>1, <3>2, <3>3 DEF Lists
  <2>5. ASSUME d \in 1..Len(t) PROVE d \in 1..Len(s) /\ s[d] < t[d]
    <3>1. PICK m \in 1..Len(s) : s[m] = t[d]
      BY <1>1, <2>5 DEF Lists
    <3>2. ~(m < d)
      BY <1>1, <2>2, <2>3, <2>5, <3>1 DEF Lists
    <3>3. m # d
      BY <1>1, <2>1, <2>5, <3>1
    <3> QED
      BY <1>1, <2>2, <3>1, <3>2, <3>3 DEF Lists
  <2>6. d \in 1..Len(s) \/ d \in 1..Len(t)
    BY <2>1
  <2> QED
    BY <1>1, <2>4, <2>5, <2>6
<1>3. Len(s) = Len(t)
  <2>1. Len(s) > 0 => Len(s) \in 1..Len(t)
    BY <1>1, <1>2
  <2>2. Len(t) > 0 => Len(t) \in 1..Len(s)
    BY <1>1, <1>2
  <2> QED
    BY <1>1, <2>1, <2>2
<1>4. \A n \in 1..Len(s) : s[n] = t[n]
  BY <1>2, <1>3
<1> QED
  BY <1>3, <1>4 DEF Lists

\* The lists of what is below i and of what is above it, about i.
LEMMA ListsConcat ==
    ASSUME NEW S, S \subseteq Nat, NEW T, T \subseteq Nat, NEW i \in Nat,
           \A x \in S : x < i, \A x \in T : i < x, NEW s, NEW t, Lists(S, s), Lists(T, t)
    PROVE  Lists(S \cup {i} \cup T, s \o << i >> \o t)
<1> DEFINE U == S \cup {i} \cup T
           u == s \o << i >> \o t
           k == Len(s)
<1>1. s \in Seq(U) /\ t \in Seq(U) /\ << i >> \in Seq(U)
  <2>1. s \in Seq(S) /\ t \in Seq(T)
    BY DEF Lists
  <2> QED
    BY <2>1
<1>2. u \in Seq(U) /\ Len(u) = k + 1 + Len(t) /\ k \in Nat /\ Len(t) \in Nat
  BY <1>1
<1>3. /\ \A n \in 1..k : u[n] = s[n]
      /\ u[k + 1] = i
      /\ \A n \in 1..Len(t) : u[k + 1 + n] = t[n]
  BY <1>1
<1>4. /\ \A n \in 1..k : s[n] \in S /\ s[n] \in Nat
      /\ \A n \in 1..Len(t) : t[n] \in T /\ t[n] \in Nat
  BY ListsTyped
<1> HIDE DEF u, k
<1>5. \A n \in 1..Len(u) : \/ n \in 1..k
                           \/ n = k + 1
                           \/ (n - k - 1) \in 1..Len(t) /\ n = k + 1 + (n - k - 1)
  BY <1>2
<1>6. ASSUME NEW x \in U PROVE \E n \in 1..Len(u) : u[n] = x
  <2>1. CASE x \in S
    <3>1. PICK n \in 1..k : s[n] = x
      BY <2>1 DEF Lists, k
    <3> QED
      BY <1>2, <1>3, <3>1
  <2>2. CASE x = i
    BY <1>2, <1>3, <2>2
  <2>3. CASE x \in T
    <3>1. PICK n \in 1..Len(t) : t[n] = x
      BY <2>3 DEF Lists
    <3> QED
      BY <1>2, <1>3, <3>1
  <2> QED
    BY <2>1, <2>2, <2>3
<1>7. ASSUME NEW m \in 1..Len(u), NEW n \in 1..Len(u), m < n PROVE u[m] < u[n]
  <2>1. CASE n \in 1..k
    <3>1. m \in 1..k
      BY <1>2, <1>7, <2>1
    <3>2. s[m] < s[n]
      BY <1>7, <2>1, <3>1 DEF Lists, k
    <3> QED
      BY <1>3, <2>1, <3>1, <3>2
  <2>2. CASE n = k + 1
    <3>1. m \in 1..k
      BY <1>2, <1>7, <2>2
    <3> QED
      BY <1>3, <1>4, <2>2, <3>1
  <2>3. CASE (n - k - 1) \in 1..Len(t) /\ n = k + 1 + (n - k - 1)
    <3> DEFINE q == n - k - 1
               p == m - k - 1
    <3>1. q \in 1..Len(t) /\ u[n] = t[q] /\ t[q] \in T /\ t[q] \in Nat /\ i < t[q]
      BY <1>3, <1>4, <2>3
    <3>2. CASE m \in 1..k
      BY <1>3, <1>4, <3>1, <3>2
    <3>3. CASE m = k + 1
      BY <1>3, <3>1, <3>3
    <3>4. CASE p \in 1..Len(t) /\ m = k + 1 + p
      <4>1. u[m] = t[p] /\ p < q
        BY <1>2, <1>3, <1>7, <3>4
      <4> HIDE DEF p, q
      <4> QED
        BY <3>1, <3>4, <4>1 DEF Lists
    <3> QED
      BY <1>5, <3>2, <3>3, <3>4
  <2> QED
    BY <1>5, <2>1, <2>2, <2>3
<1> QED
  BY <1>2, <1>6, <1>7 DEF Lists, u

\* The nodes of the subtree at i, none for a missing child.
Under(I, anc, i) == {j \in I : i \in anc[j] \cup {j}}

\* The node, what is on its left and what is on its right.
LEMMA UnderNode ==
    ASSUME NEW I, I \subseteq Nat, None \notin I, NEW root, NEW L, NEW R, NEW ord, NEW anc,
           L \in [I -> I \cup {None}], R \in [I -> I \cup {None}],
           Ordered(I, root, L, R, ord, anc), \A j \in I : ord[j] = j, NEW i \in I
    PROVE  /\ Under(I, anc, i) = Under(I, anc, L[i]) \cup {i} \cup Under(I, anc, R[i])
           /\ \A j \in Under(I, anc, L[i]) : j < i
           /\ \A j \in Under(I, anc, R[i]) : i < j
           /\ \A x \in {L[i], R[i]} \ {None} : x \in I /\ i \in anc[x]
           /\ i # None /\ Under(I, anc, None) = {}
<1>1. /\ \A j \in I : anc[j] \subseteq I /\ j \notin anc[j]
      /\ \A j \in I : \A x \in anc[j] : anc[x] \subseteq anc[j]
      /\ \A j \in I : \A x \in anc[j] : /\ L[x] \in anc[j] \cup {j} <=> j < x
                                        /\ R[x] \in anc[j] \cup {j} <=> x < j
  <2>1. \A j \in I : anc[j] \subseteq I /\ j \notin anc[j]
    BY DEF Ordered
  <2>2. \A j \in I : \A x \in anc[j] : ord[x] = x /\ ord[j] = j
    BY <2>1
  <2> QED
    BY <2>1, <2>2 DEF Ordered
<1>2. \A x \in {L[i], R[i]} \ {None} : x \in I /\ anc[x] = anc[i] \cup {i}
  BY DEF Ordered
<1>3. Under(I, anc, None) = {}
  <2>1. \A j \in I : None \notin anc[j] /\ None # j
    BY <1>1
  <2> QED
    BY <2>1 DEF Under
<1>4. ASSUME NEW x \in {L[i], R[i]}, NEW j \in Under(I, anc, x) PROVE j \in I /\ i \in anc[j]
  <2>1. x # None
    BY <1>3, <1>4
  <2>2. x \in I /\ anc[x] = anc[i] \cup {i} /\ j \in I /\ (x = j \/ x \in anc[j])
    BY <1>2, <1>4, <2>1 DEF Under
  <2> QED
    BY <1>1, <2>2
<1>5. \A j \in Under(I, anc, L[i]) : j < i
  BY <1>1, <1>4 DEF Under
<1>6. \A j \in Under(I, anc, R[i]) : i < j
  BY <1>1, <1>4 DEF Under
<1>7. ASSUME NEW j \in Under(I, anc, i), j # i
      PROVE  j \in Under(I, anc, L[i]) \/ j \in Under(I, anc, R[i])
  <2>1. j \in I /\ i \in anc[j] /\ (j < i \/ i < j)
    BY <1>7 DEF Under
  <2> QED
    BY <1>1, <2>1 DEF Under
<1>8. i \in Under(I, anc, i)
  BY DEF Under
<1>9. Under(I, anc, i) = Under(I, anc, L[i]) \cup {i} \cup Under(I, anc, R[i])
  <2>1. \A j \in Under(I, anc, L[i]) \cup Under(I, anc, R[i]) : j \in Under(I, anc, i)
    BY <1>4 DEF Under
  <2> QED
    BY <1>7, <1>8, <2>1
<1> QED
  BY <1>2, <1>3, <1>5, <1>6, <1>9

Around(s, i, t) == s \o << i >> \o t

\* g writes the subtrees in the order of inorder_flush.
Orders(a, g) ==
    g = [i \in DOMAIN a \cup {None} |->
            IF i = None THEN << >> ELSE Around(g[a[i].left], i, g[a[i].right])]

Below(S, T, i) == S \subseteq Nat /\ T \subseteq Nat /\ (\A x \in S : x < i) /\ \A x \in T : i < x

\* There is such a g, and it lists every subtree in ascending order: a
\* deepest node where it did not would have children where it does.
LEMMA OrderListed ==
    ASSUME NEW a, NEW root, IsArena(a), SearchTree(a, root)
    PROVE  (\E g : Orders(a, g)) /\ \A g : Orders(a, g) => Lists(DOMAIN a, g[root])
<1> DEFINE I == DOMAIN a
           L == Lefts(a)
           R == Rights(a)
<1>1. Linked(I, root, L, R, Parents(a)) /\ IsFiniteSet(I) /\ I \subseteq Nat /\ None \notin I
  BY FS_Subset, TableAssumption, TreeAssumption DEF SearchTree, IsArena, None
<1>2. PICK anc : Ordered(I, root, L, R, KeyOrder(a), anc)
  BY DEF SearchTree
<1>3. Above(I, anc)
  BY <1>2 DEF Above, Ordered
<1>4. \A i \in I : L[i] = a[i].left /\ R[i] = a[i].right /\ KeyOrder(a)[i] = i
  BY DEF Lefts, Rights, KeyOrder
<1>5. L \in [I -> I \cup {None}] /\ R \in [I -> I \cup {None}] /\ root \in I
  BY <1>1 DEF Linked
<1> DEFINE sub(i) == Under(I, anc, i)
<1> HIDE DEF L, R
<1>6. ASSUME NEW i \in I
      PROVE  /\ sub(i) = sub(L[i]) \cup {i} \cup sub(R[i])
             /\ Below(sub(L[i]), sub(R[i]), i)
             /\ \A x \in {L[i], R[i]} \ {None} : x \in I /\ i \in anc[x]
             /\ i # None /\ i \in Nat
  <2>1. /\ sub(i) = sub(L[i]) \cup {i} \cup sub(R[i])
        /\ \A j \in sub(L[i]) : j < i
        /\ \A j \in sub(R[i]) : i < j
        /\ \A x \in {L[i], R[i]} \ {None} : x \in I /\ i \in anc[x]
        /\ i # None
    BY <1>1, <1>2, <1>4, <1>5, UnderNode
  <2>2. sub(L[i]) \subseteq Nat /\ sub(R[i]) \subseteq Nat /\ i \in Nat
    BY <1>1 DEF Under
  <2> QED
    BY <2>1, <2>2 DEF Below
<1>7. sub(None) = {}
  BY <1>1, <1>2 DEF Under, Ordered
<1> HIDE DEF I, sub
<1>8. ASSUME NEW i \in I, NEW s, NEW t, Lists(sub(L[i]), s), Lists(sub(R[i]), t)
      PROVE  Lists(sub(i), Around(s, i, t))
  <2>1. Lists(sub(L[i]) \cup {i} \cup sub(R[i]), Around(s, i, t))
    BY <1>6, <1>8, ListsConcat DEF Below, Around
  <2> QED
    BY <1>6, <2>1
<1>9. Lists(sub(None), << >>)
  BY <1>7 DEF Lists
\* A property of the missing child that the children pass on to their parent.
<1>10. ASSUME NEW H, None \in H, \A i \in I : L[i] \in H /\ R[i] \in H => i \in H
       PROVE  I \subseteq H
  <2> DEFINE B == I \ H
  <2>1. ASSUME B # {} PROVE FALSE
    <3>0. B \subseteq I
      OBVIOUS
    <3> HIDE DEF B
    <3>1. Extremes(B, anc)
      BY <1>1, <1>3, <2>1, <3>0, DeepestHighest DEF I
    <3>2. PICK x \in B : \A y \in B : x \notin anc[y]
      BY <3>1 DEF Extremes
    <3> USE DEF B
    <3>3. L[x] \in H /\ R[x] \in H
      BY <1>6, <1>10, <3>2
    <3> QED
      BY <1>10, <3>2, <3>3
  <2> QED
    BY <2>1
<1>11. \E g : Orders(a, g)
  <2> DEFINE w == [i \in I \cup {None} |-> IF i = None THEN << >> ELSE CHOOSE s : Lists(sub(i), s)]
             H == {i \in I \cup {None} : Lists(sub(i), w[i])}
  <2>1. None \in H
    BY <1>9
  <2>2. ASSUME NEW i \in I, L[i] \in H, R[i] \in H
        PROVE  i \in H /\ w[i] = Around(w[L[i]], i, w[R[i]])
    <3>1. Lists(sub(i), Around(w[L[i]], i, w[R[i]]))
      BY <1>8, <2>2
    <3>2. w[i] = CHOOSE s : Lists(sub(i), s)
      BY <1>6
    <3>3. Lists(sub(i), w[i])
      BY <3>1, <3>2
    <3>4. sub(i) \subseteq Nat
      BY <1>6 DEF Below
    <3> HIDE DEF w
    <3> QED
      BY <3>1, <3>3, <3>4, ListsUnique
  <2> HIDE DEF H
  <2>3. I \subseteq H
    BY <1>10, <2>1, <2>2
  <2>4. \A i \in I : w[i] = Around(w[L[i]], i, w[R[i]])
    <3>1. ASSUME NEW i \in I PROVE L[i] \in H /\ R[i] \in H
      BY <1>5, <2>1, <2>3
    <3> QED
      BY <2>2, <3>1
  <2>5. w[None] = << >> /\ None \notin I /\ w = [i \in I \cup {None} |-> w[i]]
    BY <1>1 DEF I
  <2> HIDE DEF w
  <2>6. w = [i \in I \cup {None} |-> IF i = None THEN << >> ELSE Around(w[a[i].left], i, w[a[i].right])]
    <3> DEFINE body(i) == IF i = None THEN << >> ELSE Around(w[a[i].left], i, w[a[i].right])
    <3>1. ASSUME NEW i \in I \cup {None} PROVE w[i] = body(i)
      <4>1. CASE i = None
        BY <2>5, <4>1
      <4>2. CASE i \in I /\ i # None
        <5>1. L[i] = a[i].left /\ R[i] = a[i].right
          BY <1>4, <4>2 DEF I
        <5> QED
          BY <2>4, <4>2, <5>1
      <4> QED
        BY <4>1, <4>2
    <3> HIDE DEF body
    <3>2. w = [i \in I \cup {None} |-> body(i)]
      BY <2>5, <3>1
    <3> QED
      BY <3>2 DEF body
  <2> QED
    BY <2>6 DEF Orders, I
<1>12. ASSUME NEW g, Orders(a, g) PROVE Lists(DOMAIN a, g[root])
  <2> DEFINE H == {i \in I \cup {None} : Lists(sub(i), g[i])}
  <2>1. g[None] = << >> /\ \A i \in I : g[i] = Around(g[L[i]], i, g[R[i]])
    BY <1>1, <1>4, <1>12 DEF Orders, I
  <2>2. None \in H
    BY <1>9, <2>1
  <2>3. ASSUME NEW i \in I, L[i] \in H, R[i] \in H PROVE i \in H
    BY <1>8, <2>1, <2>3
  <2> HIDE DEF H
  <2>4. I \subseteq H
    BY <1>10, <2>2, <2>3
  <2>5. Lists(sub(root), g[root])
    BY <1>5, <2>4 DEF H
  <2>6. sub(root) = I
    BY <1>2 DEF sub, Under, Ordered, I
  <2> QED
    BY <2>5, <2>6 DEF I
<1> QED
  BY <1>11, <1>12

\* A flush writes every record of the memtable once, in strictly ascending
\* key order, whatever was inserted and in whatever order.
THEOREM TreeFlushedInOrder == Spec => []FlushedInOrder
<1>1. ASSUME TreeInv PROVE FlushedInOrder
  <2> DEFINE from == CHOOSE g : Orders(arena, g)
             order == from[root_node]
  <2>1. inorder_flush = order
    BY DEF inorder_flush, Orders, Around, Index
  <2>2. Lists(Index, order)
    <3>1. CASE DOMAIN arena = {} /\ root_node = None
      <4> DEFINE g0 == [i \in DOMAIN arena \cup {None} |-> << >>]
      <4>1. Orders(arena, g0)
        BY <3>1 DEF Orders
      <4>2. Orders(arena, from)
        BY <4>1
      <4> HIDE DEF from
      <4>3. order = << >>
        BY <3>1, <4>2 DEF Orders
      <4> QED
        BY <3>1, <4>3 DEF Lists, Index
    <3>2. CASE Grown(arena, root_node, fixing)
      <4>1. IsArena(arena) /\ SearchTree(arena, root_node)
        BY <3>2 DEF Grown
      <4>2. Orders(arena, from)
        BY <4>1, OrderListed
      <4> HIDE DEF from
      <4> QED
        BY <4>1, <4>2, OrderListed DEF Index
    <3> QED
      BY <1>1, <3>1, <3>2 DEF TreeInv, Shape
  <2> HIDE DEF order
  <2>3. order \in Seq(Index) /\ Len(order) \in Nat
    BY <2>2 DEF Lists
  <2>4. ToSet(order) = Index
    BY <2>2, <2>3 DEF Lists, ToSet
  <2>5. \A i \in 1..(Len(order) - 1) : order[i] < order[i + 1]
    <3>1. ASSUME NEW i \in 1..(Len(order) - 1) PROVE order[i] < order[i + 1]
      <4>1. i \in 1..Len(order) /\ i + 1 \in 1..Len(order) /\ i < i + 1
        BY <2>3
      <4> QED
        BY <2>2, <4>1 DEF Lists
    <3> QED
      BY <3>1
  <2> QED
    BY <2>1, <2>4, <2>5 DEF FlushedInOrder
<1> QED
  BY <1>1, TreeStaysATree, PTL
=============================================================================
