---------------------------- MODULE RecordProofs ----------------------------
(***************************************************************************)
(* Proofs about the encoding of records and their updates in place, for    *)
(* keys and values of every length and any number of writes.               *)
(*                                                                         *)
(*   - A varint decodes to its number and to its length; varint_size_-     *)
(*     from_len says how long it will be (VarintRoundTrip).                *)
(*   - A record decodes to its key and its value (RecordRoundTrip).        *)
(*   - Record::overwrite_data copies the pieces of the new record beside   *)
(*     each other, each where a fresh encoding would have it: Started and  *)
(*     Finish follow the copies.  RecordInv says that blob is therefore    *)
(*     the record of the last write (RecordInvariant).                     *)
(*                                                                         *)
(* encode_varint and upper_bound are recursive functions.  What they       *)
(* compute is shown from the least number for which it fails (Induct), and *)
(* that the functions exist from partial ones (Recursion).                 *)
(***************************************************************************)
EXTENDS Record, SequenceTheorems, WellFoundedInduction, FiniteSetTheorems, TLAPS

----------------------------------------------------------------------------
(* Induction and recursion over the naturals.                              *)

LEMMA LeastElement ==
    ASSUME NEW S \in SUBSET Nat, S # {}
    PROVE  \E x \in S : \A y \in S : x <= y
<1> DEFINE R == OpToRel(<, Nat)
<1>1. PICK x \in S : \A y \in S : ~ (<< y, x >> \in R)
  BY WFMin, NatLessThanWellFounded
<1>2. \A a, b \in Nat : a < b => << a, b >> \in R
  <2> SUFFICES ASSUME NEW a \in Nat, NEW b \in Nat, a < b PROVE << a, b >> \in R
    OBVIOUS
  <2>1. << a, b >> \in Nat \X Nat /\ << a, b >>[1] < << a, b >>[2]
    OBVIOUS
  <2> QED BY <2>1, Zenon DEF OpToRel
<1> HIDE DEF R
<1>3. ASSUME NEW y \in S PROVE x <= y
  <2>1. x \in Nat /\ y \in Nat
    OBVIOUS
  <2>2. ~ (y < x)
    BY <1>1, <1>2, <2>1, Zenon
  <2> QED
    BY <2>1, <2>2
<1> QED
  BY <1>3

\* What holds of a number if it holds of all smaller ones holds of all.
LEMMA Induct ==
    ASSUME NEW S, \A n \in Nat : (\A m \in Nat : m < n => m \in S) => n \in S
    PROVE  \A n \in Nat : n \in S
<1> DEFINE B == {n \in Nat : n \notin S}
<1>1. SUFFICES ASSUME B # {} PROVE FALSE
  OBVIOUS
<1>2. B \in SUBSET Nat
  OBVIOUS
<1>3. PICK x \in B : \A y \in B : x <= y
  BY <1>1, <1>2, LeastElement
<1>4. ASSUME NEW m \in Nat, m < x PROVE m \in S
  BY <1>3, <1>4
<1> QED
  BY <1>3, <1>4

\* f is defined up to n: f[v] comes from f[p[v]], p[v] < v, by a step.
Given(f, p, a, v) == IF v = 0 THEN a ELSE f[p[v]]

Partial(f, n, R, p, a, step) ==
    f \in [0..n -> R] /\ \A v \in 0..n : f[v] = step[v, Given(f, p, a, v)]

Steps(R, p, a, step) ==
    /\ a \in R /\ p \in [Nat -> Nat] /\ step \in [Nat \X R -> R]
    /\ \A v \in Nat : v # 0 => p[v] < v

LEMMA PartialUnique ==
    ASSUME NEW R, NEW p, NEW a, NEW step, Steps(R, p, a, step), NEW n \in Nat, NEW m \in Nat,
           NEW f, NEW g, Partial(f, n, R, p, a, step), Partial(g, m, R, p, a, step)
    PROVE  \A v \in Nat : v <= n /\ v <= m => f[v] = g[v]
<1> DEFINE S == {v \in Nat : v <= n /\ v <= m => f[v] = g[v]}
<1>1. ASSUME NEW v \in Nat, \A u \in Nat : u < v => u \in S PROVE v \in S
  <2> SUFFICES ASSUME v <= n, v <= m PROVE f[v] = g[v]
    OBVIOUS
  <2>1. v \in 0..n /\ v \in 0..m
    OBVIOUS
  <2>2. Given(f, p, a, v) = Given(g, p, a, v)
    <3>1. CASE v = 0
      BY <3>1 DEF Given
    <3>2. CASE v # 0
      <4>1. p[v] \in Nat /\ p[v] < v
        BY <3>2 DEF Steps
      <4>2. f[p[v]] = g[p[v]]
        BY <1>1, <4>1
      <4> QED
        BY <3>2, <4>2 DEF Given
    <3> QED
      BY <3>1, <3>2
  <2> QED
    BY <2>1, <2>2 DEF Partial
<1> HIDE DEF S
<1>2. \A v \in Nat : v \in S
  BY <1>1, Induct
<1> QED
  BY <1>2 DEF S

LEMMA PartialExists ==
    ASSUME NEW R, NEW p, NEW a, NEW step, Steps(R, p, a, step)
    PROVE  \A n \in Nat : \E f : Partial(f, n, R, p, a, step)
<1> DEFINE S == {n \in Nat : \E f : Partial(f, n, R, p, a, step)}
<1>1. ASSUME NEW n \in Nat, \A u \in Nat : u < n => u \in S PROVE n \in S
  <2>1. CASE n = 0
    <3> DEFINE x == step[0, a]
               f == [v \in 0..0 |-> x]
    <3>1. x \in R
      BY DEF Steps
    <3>0. \A v \in 0..0 : v = 0
      OBVIOUS
    <3> HIDE DEF x
    <3>2. f \in [0..0 -> R] /\ \A v \in 0..0 : v = 0 /\ f[v] = x
      BY <3>0, <3>1
    <3> HIDE DEF f
    <3>3. Partial(f, 0, R, p, a, step)
      BY <3>2 DEF Partial, Given, x
    <3> QED
      BY <2>1, <3>3
  <2>2. CASE n # 0
    <3> DEFINE m == n - 1
    <3>1. m \in Nat /\ m < n /\ n = m + 1
      BY <2>2
    <3>2. PICK g : Partial(g, m, R, p, a, step)
      BY <1>1, <3>1
    <3> HIDE DEF m
    <3> DEFINE x == step[n, g[p[n]]]
               f == [v \in 0..n |-> IF v = n THEN x ELSE g[v]]
    <3>3. p[n] \in 0..m /\ g \in [0..m -> R]
      <4>1. p[n] \in Nat /\ p[n] < n
        BY <2>2 DEF Steps
      <4>2. p[n] \in 0..m
        BY <3>1, <4>1
      <4> QED
        BY <3>2, <4>2 DEF Partial
    <3>4. x \in R
      BY <3>3 DEF Steps
    <3>5. \A v \in 0..n : v = n \/ v \in 0..m
      BY <3>1
    <3> HIDE DEF x
    <3>6. f \in [0..n -> R] /\ f[n] = x /\ \A v \in 0..m : f[v] = g[v]
      BY <3>1, <3>3, <3>4, <3>5
    <3> HIDE DEF f
    <3>7. ASSUME NEW v \in 0..m PROVE f[v] = step[v, Given(f, p, a, v)]
      <4>1. CASE v = 0
        BY <3>2, <3>6, <4>1 DEF Partial, Given
      <4>2. CASE v # 0
        <5>1. p[v] \in 0..m
          BY <3>1, <4>2 DEF Steps
        <5> QED
          BY <3>2, <3>6, <4>2, <5>1 DEF Partial, Given
      <4> QED
        BY <4>1, <4>2
    <3>8. f[n] = step[n, Given(f, p, a, n)]
      BY <2>2, <3>3, <3>6 DEF Given, x
    <3>9. Partial(f, n, R, p, a, step)
      BY <3>5, <3>6, <3>7, <3>8 DEF Partial
    <3> QED
      BY <3>9
  <2> QED
    BY <2>1, <2>2
<1> HIDE DEF S
<1>2. \A n \in Nat : n \in S
  BY <1>1, Induct
<1> QED
  BY <1>2 DEF S

\* A recursive function exists.
Total(f, R, p, a, step) ==
    f \in [Nat -> R] /\ \A v \in Nat : f[v] = step[v, Given(f, p, a, v)]

LEMMA Recursion ==
    ASSUME NEW R, NEW p, NEW a, NEW step, Steps(R, p, a, step)
    PROVE  \E f : Total(f, R, p, a, step)
<1> DEFINE g(n) == CHOOSE f : Partial(f, n, R, p, a, step)
           h == [n \in Nat |-> g(n)[n]]
<1>1. \A n \in Nat : Partial(g(n), n, R, p, a, step)
  BY PartialExists
<1> HIDE DEF g
<1>2. \A n \in Nat : n \in 0..n /\ g(n)[n] \in R
  <2> SUFFICES ASSUME NEW n \in Nat PROVE n \in 0..n /\ g(n)[n] \in R
    OBVIOUS
  <2>1. n \in 0..n
    OBVIOUS
  <2> QED
    BY <1>1, <2>1 DEF Partial
<1>3. h \in [Nat -> R] /\ \A n \in Nat : h[n] = g(n)[n]
  BY <1>2
<1> HIDE DEF h
<1>4. ASSUME NEW v \in Nat PROVE h[v] = step[v, Given(h, p, a, v)]
  <2>1. h[v] = step[v, Given(g(v), p, a, v)]
    BY <1>1, <1>2, <1>3 DEF Partial
  <2>2. CASE v = 0
    BY <2>1, <2>2 DEF Given
  <2>3. CASE v # 0
    <3>1. p[v] \in Nat /\ p[v] < v /\ p[v] <= v /\ p[v] <= p[v]
      BY <2>3 DEF Steps
    <3>2. g(v)[p[v]] = g(p[v])[p[v]]
      BY <1>1, <3>1, PartialUnique
    <3> QED
      BY <1>3, <2>1, <2>3, <3>1, <3>2 DEF Given
  <2> QED
    BY <2>2, <2>3
<1> QED
  BY <1>3, <1>4 DEF Total

----------------------------------------------------------------------------
(* Varints.                                                                *)

LEMMA Digits ==
    ASSUME NEW v \in Nat
    PROVE  /\ v \div Base \in Nat /\ v % Base \in Nat /\ v % Base < Base
           /\ v = Base * (v \div Base) + (v % Base)
           /\ v # 0 => v \div Base < v
           /\ v < Base => v % Base = v
           /\ v >= Base => v \div Base # 0
           /\ (Base + (v % Base)) % Base = v % Base
<1>1. v \div Base \in Nat /\ v % Base \in Nat /\ v % Base < Base
  BY CodecAssumption
<1>2. v = Base * (v \div Base) + (v % Base)
  BY CodecAssumption
<1>3. v # 0 => v \div Base < v
  BY CodecAssumption
<1>4. v < Base => v % Base = v
  BY CodecAssumption
<1>5. v >= Base => v \div Base # 0
  BY CodecAssumption
<1>6. (Base + (v % Base)) % Base = v % Base
  <2> DEFINE r == v % Base
  <2>1. r \in 0..(Base - 1)
    BY <1>1, CodecAssumption
  <2> HIDE DEF r
  <2>2. (Base + r) % Base = r
    BY <2>1, CodecAssumption
  <2> QED
    BY <2>2 DEF r
<1> QED
  BY <1>1, <1>2, <1>3, <1>4, <1>5, <1>6

LEMMA UpperBound ==
    /\ upper_bound[0] = 1
    /\ \A s \in Nat : upper_bound[s] \in Nat /\ upper_bound[s] # 0 /\ upper_bound[s + 1] = Base * upper_bound[s]
<1> DEFINE P == Nat \ {0}
           p == [v \in Nat |-> IF v = 0 THEN 0 ELSE v - 1]
           step == [x \in Nat \X P |-> IF x[1] = 0 THEN 1 ELSE Base * x[2]]
           F(f, v) == IF v = 0 THEN 1 ELSE Base * f[v - 1]
<1>1. Steps(P, p, 1, step)
  <2>1. \A x \in Nat \X P : (IF x[1] = 0 THEN 1 ELSE Base * x[2]) \in P
    BY CodecAssumption
  <2>2. step \in [Nat \X P -> P]
    BY <2>1
  <2>3. p \in [Nat -> Nat] /\ \A v \in Nat : v # 0 => p[v] < v
    OBVIOUS
  <2> HIDE DEF p, step
  <2> QED
    BY <2>2, <2>3 DEF Steps
<1>2. \A v \in Nat, r \in P : step[v, r] = IF v = 0 THEN 1 ELSE Base * r
  OBVIOUS
<1>3. \A v \in Nat : v # 0 => p[v] = v - 1 /\ v - 1 \in Nat
  OBVIOUS
<1> HIDE DEF p, step, P
<1>4a. PICK f : Total(f, P, p, 1, step)
  BY <1>1, Recursion
<1>4. f \in [Nat -> P] /\ \A v \in Nat : f[v] = step[v, Given(f, p, 1, v)]
  BY <1>4a DEF Total
<1>5. \A v \in Nat : f[v] = F(f, v)
  <2> SUFFICES ASSUME NEW v \in Nat PROVE f[v] = F(f, v)
    OBVIOUS
  <2>1. CASE v = 0
    <3>1. Given(f, p, 1, v) \in P
      BY <1>1, <2>1 DEF Given, Steps
    <3> QED
      BY <1>2, <1>4, <2>1, <3>1
  <2>2. CASE v # 0
    <3>1. Given(f, p, 1, v) = f[v - 1] /\ f[v - 1] \in P
      BY <1>3, <1>4, <2>2 DEF Given
    <3> QED
      BY <1>2, <1>4, <2>2, <3>1
  <2> QED
    BY <2>1, <2>2
<1>6. f = [v \in Nat |-> F(f, v)]
  <2> HIDE DEF F
  <2>1. f = [v \in Nat |-> f[v]]
    BY <1>4
  <2> QED
    BY <1>5, <2>1
<1>7. upper_bound = CHOOSE g : g = [v \in Nat |-> F(g, v)]
  BY DEF upper_bound
<1>8. upper_bound = [v \in Nat |-> F(upper_bound, v)]
  <2> HIDE DEF F
  <2> QED
    BY <1>6, <1>7
<1>9. \A v \in Nat : upper_bound[v] = F(upper_bound, v)
  <2> HIDE DEF F
  <2> QED
    BY <1>8
<1>10. upper_bound[0] = 1 /\ \A s \in Nat : upper_bound[s + 1] = Base * upper_bound[s]
  <2>1. ASSUME NEW s \in Nat PROVE upper_bound[s + 1] = Base * upper_bound[s]
    <3>1. s + 1 \in Nat /\ s + 1 # 0 /\ s + 1 - 1 = s
      OBVIOUS
    <3>2. upper_bound[s + 1] = F(upper_bound, s + 1)
      BY <1>9, <3>1
    <3> QED
      BY <3>1, <3>2
  <2>2. upper_bound[0] = F(upper_bound, 0)
    BY <1>9
  <2> QED
    BY <2>1, <2>2
<1> DEFINE S == {s \in Nat : upper_bound[s] \in Nat /\ upper_bound[s] # 0}
<1>11. ASSUME NEW n \in Nat, \A m \in Nat : m < n => m \in S PROVE n \in S
  <2>1. CASE n = 0
    BY <1>10, <2>1
  <2>2. CASE n # 0
    <3>1. n - 1 \in Nat /\ n - 1 < n /\ n - 1 + 1 = n
      BY <2>2
    <3>2. upper_bound[n - 1] \in Nat /\ upper_bound[n - 1] # 0 /\ upper_bound[n] = Base * upper_bound[n - 1]
      BY <1>10, <1>11, <3>1
    <3> QED
      BY <3>2, CodecAssumption
  <2> QED
    BY <2>1, <2>2
<1>12. \A s \in Nat : s \in S
  <2> HIDE DEF S
  <2> QED
    BY <1>11, Induct
<1> QED
  BY <1>10, <1>12

\* encode_varint as its loop computes it.
LEMMA EncodeVarint ==
    ASSUME NEW v \in Nat
    PROVE  /\ encode_varint[v] \in Seq(Nat)
           /\ v < Base => encode_varint[v] = << v >>
           /\ v >= Base => encode_varint[v] = << Base + (v % Base) >> \o encode_varint[v \div Base]
<1> DEFINE R == Seq(Nat)
           p == [n \in Nat |-> n \div Base]
           step == [x \in Nat \X R |-> IF x[1] < Base THEN << x[1] >> ELSE << Base + (x[1] % Base) >> \o x[2]]
           F(f, n) == IF n < Base THEN << n >> ELSE << Base + (n % Base) >> \o f[n \div Base]
<1>1. Base \in Nat /\ Base > 1
  BY CodecAssumption
<1>2. Steps(R, p, << >>, step)
  <2>1. ASSUME NEW n \in Nat, NEW r \in R
        PROVE  (IF n < Base THEN << n >> ELSE << Base + (n % Base) >> \o r) \in R
    <3>1. Base + (n % Base) \in Nat
      BY <1>1, Digits
    <3> QED
      BY <3>1
  <2>2. step \in [Nat \X R -> R]
    <3>1. \A x \in Nat \X R : x[1] \in Nat /\ x[2] \in R
      OBVIOUS
    <3> HIDE DEF R
    <3> QED
      BY <2>1, <3>1
  <2>3. p \in [Nat -> Nat] /\ \A n \in Nat : n # 0 => p[n] < n
    BY Digits
  <2>4. << >> \in R
    OBVIOUS
  <2> HIDE DEF p, step, R
  <2> QED
    BY <2>2, <2>3, <2>4 DEF Steps
<1>3. \A n \in Nat, r \in R : step[n, r] = IF n < Base THEN << n >> ELSE << Base + (n % Base) >> \o r
  <2> HIDE DEF R
  <2> QED
    OBVIOUS
<1>4. \A n \in Nat : p[n] = n \div Base /\ n \div Base \in Nat
  BY Digits
<1> HIDE DEF p, step, R
<1>5a. PICK f : Total(f, R, p, << >>, step)
  BY <1>2, Recursion
<1>5. f \in [Nat -> R] /\ \A n \in Nat : f[n] = step[n, Given(f, p, << >>, n)]
  BY <1>5a DEF Total
<1>6. \A n \in Nat : f[n] = F(f, n)
  <2> SUFFICES ASSUME NEW n \in Nat PROVE f[n] = F(f, n)
    OBVIOUS
  <2>1. CASE n = 0
    <3>1. Given(f, p, << >>, n) \in R /\ n < Base
      BY <1>1, <1>2, <2>1 DEF Given, Steps
    <3> QED
      BY <1>3, <1>5, <3>1
  <2>2. CASE n # 0
    <3>1. Given(f, p, << >>, n) = f[n \div Base] /\ f[n \div Base] \in R
      BY <1>4, <1>5, <2>2 DEF Given
    <3> QED
      BY <1>3, <1>5, <3>1
  <2> QED
    BY <2>1, <2>2
<1>7. f = [n \in Nat |-> F(f, n)]
  <2> HIDE DEF F
  <2>1. f = [n \in Nat |-> f[n]]
    BY <1>5
  <2> QED
    BY <1>6, <2>1
<1>8. encode_varint = CHOOSE g : g = [n \in Nat |-> F(g, n)]
  BY DEF encode_varint
<1>9. encode_varint = [n \in Nat |-> F(encode_varint, n)]
  <2> HIDE DEF F
  <2> QED
    BY <1>7, <1>8
<1>10. \A n \in Nat : encode_varint[n] = F(encode_varint, n)
  <2> HIDE DEF F
  <2> QED
    BY <1>9
<1> DEFINE S == {n \in Nat : encode_varint[n] \in Seq(Nat)}
<1>11. ASSUME NEW n \in Nat, \A m \in Nat : m < n => m \in S PROVE n \in S
  <2>1. encode_varint[n] = F(encode_varint, n)
    BY <1>10
  <2>2. CASE n < Base
    <3>1. << n >> \in Seq(Nat)
      OBVIOUS
    <3> QED
      BY <2>1, <2>2, <3>1
  <2>3. CASE ~(n < Base)
    <3>1. n \div Base \in Nat /\ n \div Base < n /\ Base + (n % Base) \in Nat
      BY <1>1, <2>3, Digits
    <3>2. encode_varint[n \div Base] \in Seq(Nat)
      BY <1>11, <3>1
    <3>3. << Base + (n % Base) >> \o encode_varint[n \div Base] \in Seq(Nat)
      BY <3>1, <3>2
    <3> QED
      BY <2>1, <2>3, <3>3
  <2> QED
    BY <2>2, <2>3
<1>12. \A n \in Nat : n \in S
  <2> HIDE DEF S
  <2> QED
    BY <1>11, Induct
<1>13. v >= Base => ~(v < Base)
  BY <1>1
<1> QED
  BY <1>10, <1>12, <1>13

\* A first byte before a sequence.
LEMMA ConsAt ==
    ASSUME NEW x \in Nat, NEW v \in Seq(Nat)
    PROVE  /\ << x >> \o v \in Seq(Nat) /\ Len(<< x >> \o v) = Len(v) + 1 /\ (<< x >> \o v)[1] = x
           /\ \A i \in 1..Len(v) : (<< x >> \o v)[i + 1] = v[i]
OBVIOUS

\* Only the last byte has no continuation bit.
Varint(w) ==
    /\ w \in Seq(Nat) /\ Len(w) \in Nat /\ Len(w) # 0 /\ w[Len(w)] < Base
    /\ \A j \in 1..Len(w) : j < Len(w) => w[j] >= Base

\* x takes as many bytes as w has.
Fits(w, x) ==
    x < upper_bound[Len(w)] /\ (Len(w) = 1 \/ x >= upper_bound[Len(w) - 1])

\* The varint of a number that has more than one digit.
Longer(w, v, x) ==
    /\ v \in Seq(Nat) /\ w \in Seq(Nat) /\ Len(v) \in Nat /\ Len(w) = Len(v) + 1 /\ w[1] = Base + (x % Base)
    /\ \A i \in 1..Len(v) : w[i + 1] = v[i]

LEMMA EncodeLonger ==
    ASSUME NEW x \in Nat, x >= Base
    PROVE  Longer(encode_varint[x], encode_varint[x \div Base], x)
<1> DEFINE v == encode_varint[x \div Base]
           d == Base + (x % Base)
<1>1. v \in Seq(Nat) /\ d \in Nat /\ Len(v) \in Nat
  <2>1. x \div Base \in Nat /\ x % Base \in Nat /\ Base \in Nat
    BY Digits, CodecAssumption
  <2>2. v \in Seq(Nat)
    BY <2>1, EncodeVarint
  <2> QED
    BY <2>1, <2>2
<1>2. encode_varint[x] = << d >> \o v
  BY EncodeVarint
<1> HIDE DEF d, v
<1>3. Longer(<< d >> \o v, v, x)
  BY <1>1, ConsAt DEF Longer, d
<1> QED
  BY <1>2, <1>3 DEF v

LEMMA EncodeShape ==
    \A x \in Nat : Varint(encode_varint[x]) /\ Fits(encode_varint[x], x)
<1> DEFINE S == {x \in Nat : Varint(encode_varint[x]) /\ Fits(encode_varint[x], x)}
<1>1. ASSUME NEW x \in Nat, \A m \in Nat : m < x => m \in S PROVE x \in S
  <2>0. Base \in Nat /\ Base > 1
    BY CodecAssumption
  <2>1. CASE x < Base
    <3>1. encode_varint[x] = << x >>
      BY <2>1, EncodeVarint
    <3>2. Varint(<< x >>)
      BY <2>1 DEF Varint
    <3>3. upper_bound[1] = Base
      <4>1. upper_bound[0 + 1] = Base * upper_bound[0] /\ upper_bound[0] = 1
        BY UpperBound
      <4> QED
        BY <2>0, <4>1
    <3>4. Fits(<< x >>, x)
      <4>1. Len(<< x >>) = 1
        OBVIOUS
      <4> QED
        BY <2>1, <3>3, <4>1 DEF Fits
    <3> QED
      BY <3>1, <3>2, <3>4
  <2>2. CASE ~(x < Base)
    <3> DEFINE q == x \div Base
               v == encode_varint[q]
               w == encode_varint[x]
               n == Len(v)
    <3>1. x >= Base
      BY <2>0, <2>2
    <3>2. q \in Nat /\ q < x /\ x = Base * q + (x % Base) /\ x % Base \in Nat /\ x % Base < Base /\ q # 0
      BY <2>0, <3>1, Digits
    <3>3. Longer(w, v, x)
      BY <3>1, EncodeLonger
    <3>4. Varint(v) /\ Fits(v, q)
      BY <1>1, <3>2
    <3> HIDE DEF q, v, w
    <3>5. w \in Seq(Nat) /\ n \in Nat /\ Len(w) = n + 1 /\ w[1] >= Base /\ \A i \in 1..n : w[i + 1] = v[i]
      BY <2>0, <3>2, <3>3 DEF Longer
    <3>6. Varint(w)
      <4>1. n # 0 /\ v[n] < Base /\ \A j \in 1..n : j < n => v[j] >= Base
        BY <3>4 DEF Varint
      <4>2. w[Len(w)] < Base
        <5>1. n \in 1..n
          BY <3>5, <4>1
        <5> QED
          BY <3>5, <4>1, <5>1
      <4>3. ASSUME NEW j \in 1..(n + 1), j < n + 1 PROVE w[j] >= Base
        <5>1. CASE j = 1
          BY <3>5, <5>1
        <5>2. CASE j # 1
          <6>1. j - 1 \in 1..n /\ j - 1 < n /\ j - 1 + 1 = j
            BY <3>5, <4>3, <5>2
          <6>2. w[j - 1 + 1] = v[j - 1]
            BY <3>5, <6>1
          <6> QED
            BY <4>1, <6>1, <6>2
        <5> QED
          BY <5>1, <5>2
      <4> QED
        BY <3>5, <4>2, <4>3 DEF Varint
    <3>7. Fits(w, x)
      <4>1. n # 0 /\ n - 1 \in Nat /\ n - 1 + 1 = n /\ q < upper_bound[n] /\ (n = 1 \/ q >= upper_bound[n - 1])
        BY <3>4, <3>5 DEF Varint, Fits
      <4>2. upper_bound[n] \in Nat /\ upper_bound[n + 1] = Base * upper_bound[n]
        BY <3>5, UpperBound
      <4>3. upper_bound[n - 1] \in Nat /\ upper_bound[n] = Base * upper_bound[n - 1] /\ (n = 1 => upper_bound[n - 1] = 1)
        <5>1. upper_bound[n - 1] \in Nat /\ upper_bound[n - 1 + 1] = Base * upper_bound[n - 1]
          BY <4>1, UpperBound
        <5>2. n = 1 => n - 1 = 0
          OBVIOUS
        <5>3. n = 1 => upper_bound[n - 1] = 1
          BY <5>2, UpperBound
        <5> HIDE DEF n
        <5> QED
          BY <4>1, <5>1, <5>3
      <4>4. Base * q + Base <= Base * upper_bound[n]
        <5>1. q + 1 <= upper_bound[n]
          BY <3>2, <4>1, <4>2
        <5>2. Base * (q + 1) <= Base * upper_bound[n]
          BY <2>0, <3>2, <4>2, <5>1
        <5> QED
          BY <2>0, <3>2, <5>2
      <4>5. x < upper_bound[n + 1]
        BY <2>0, <3>2, <4>2, <4>4
      <4>6. x >= upper_bound[n]
        <5>1. q >= upper_bound[n - 1]
          BY <3>2, <4>1, <4>3
        <5>2. Base * q >= Base * upper_bound[n - 1]
          BY <2>0, <3>2, <4>3, <5>1
        <5>3. Base * q \in Nat
          BY <2>0, <3>2
        <5> QED
          BY <3>2, <4>2, <4>3, <5>2, <5>3
      <4>7. Len(w) - 1 = n
        BY <3>5
      <4> QED
        BY <3>5, <4>5, <4>6, <4>7 DEF Fits
    <3> QED
      BY <3>6, <3>7 DEF w
  <2> QED
    BY <2>1, <2>2
<1>2. \A x \in Nat : x \in S
  <2> HIDE DEF S
  <2> QED
    BY <1>1, Induct
<1> QED
  BY <1>2

LEMMA UpperBoundGrows ==
    ASSUME NEW s \in Nat, NEW t \in Nat, s <= t
    PROVE  upper_bound[s] <= upper_bound[t]
<1> DEFINE S == {n \in Nat : s <= n => upper_bound[s] <= upper_bound[n]}
<1>1. ASSUME NEW n \in Nat, \A m \in Nat : m < n => m \in S PROVE n \in S
  <2>1. CASE n = s \/ n < s
    BY <2>1, UpperBound
  <2>2. CASE ~(n = s \/ n < s)
    <3>1. n - 1 \in Nat /\ s <= n - 1 /\ n - 1 < n /\ n - 1 + 1 = n
      BY <2>2
    <3>2. upper_bound[s] <= upper_bound[n - 1]
      BY <1>1, <3>1
    <3>3. upper_bound[n] = Base * upper_bound[n - 1] /\ upper_bound[n - 1] \in Nat /\ upper_bound[s] \in Nat
      <4>1. upper_bound[n - 1 + 1] = Base * upper_bound[n - 1] /\ upper_bound[n - 1] \in Nat
        BY <3>1, UpperBound
      <4> QED
        BY <3>1, <4>1, UpperBound
    <3>4. Base * upper_bound[n - 1] >= upper_bound[n - 1]
      BY <3>3, CodecAssumption
    <3>5. Base * upper_bound[n - 1] \in Nat
      BY <3>3, CodecAssumption
    <3> QED
      BY <3>2, <3>3, <3>4, <3>5
  <2> QED
    BY <2>1, <2>2
<1>2. \A n \in Nat : n \in S
  <2> HIDE DEF S
  <2> QED
    BY <1>1, Induct
<1> QED
  BY <1>2

\* varint_size_from_len tells how long encode_varint's result is.
LEMMA VarintSize ==
    ASSUME NEW x \in Nat, x < upper_bound[10]
    PROVE  varint_size_from_len(x) = Len(encode_varint[x])
<1> DEFINE n == Len(encode_varint[x])
           OK(s) == x < upper_bound[s] /\ (s = 1 \/ x >= upper_bound[s - 1])
<1>1. n \in Nat /\ n # 0 /\ OK(n)
  BY EncodeShape DEF Varint, Fits
<1>5. varint_size_from_len(x) = CHOOSE s \in 1..10 : OK(s)
  BY DEF varint_size_from_len
<1> HIDE DEF n
<1>2. ASSUME NEW s \in Nat, NEW t \in Nat, s # 0, t # 0, OK(s), OK(t), s < t PROVE FALSE
  <2>1. t - 1 \in Nat /\ s <= t - 1 /\ t # 1
    BY <1>2
  <2>2. upper_bound[s] <= upper_bound[t - 1] /\ upper_bound[s] \in Nat /\ upper_bound[t - 1] \in Nat
    BY <2>1, UpperBound, UpperBoundGrows
  <2> QED
    BY <1>2, <2>1, <2>2
<1>3. n \in 1..10
  <2>1. ASSUME n > 10 PROVE FALSE
    <3>1. n - 1 \in Nat /\ 10 <= n - 1 /\ n # 1 /\ 10 \in Nat
      BY <1>1, <2>1
    <3>2. upper_bound[10] <= upper_bound[n - 1] /\ upper_bound[10] \in Nat /\ upper_bound[n - 1] \in Nat
      BY <3>1, UpperBound, UpperBoundGrows
    <3>3. x >= upper_bound[n - 1]
      BY <1>1, <3>1
    <3> QED
      BY <3>2, <3>3
  <2> QED
    BY <1>1, <2>1
<1>4. \A s \in 1..10 : OK(s) => s = n
  <2> SUFFICES ASSUME NEW s \in 1..10, OK(s) PROVE s = n
    OBVIOUS
  <2>1. s \in Nat /\ s # 0
    OBVIOUS
  <2>2. ~(s < n) /\ ~(n < s)
    BY <1>1, <1>2, <2>1
  <2> QED
    BY <1>1, <2>1, <2>2
<1> HIDE DEF OK
<1> QED
  BY <1>1, <1>3, <1>4, <1>5 DEF n

----------------------------------------------------------------------------
(* Reading a varint back.                                                  *)

\* The bytes s are in b from offset off on.
At(b, off, s) == off + Len(s) <= Len(b) /\ \A i \in 1..Len(s) : b[off + i] = s[i]

\* g[i] is what the first i bytes of n add up to.
Sums(g, b, off, n) ==
    /\ g[0] = 0
    /\ \A i \in 0..n : i < n => g[i + 1] = g[i] + (b[off + (i + 1)] % Base) * upper_bound[i]

\* The function decode_varint adds up with.
Adds(g, b, off, n) ==
    g = [i \in 0..n |-> IF i = 0 THEN 0 ELSE g[i - 1] + (b[off + i] % Base) * upper_bound[i - 1]]

LEMMA AddsSums ==
    ASSUME NEW b, NEW off, NEW n \in Nat, NEW g, Adds(g, b, off, n)
    PROVE  Sums(g, b, off, n)
<1> DEFINE F(i) == IF i = 0 THEN 0 ELSE g[i - 1] + (b[off + i] % Base) * upper_bound[i - 1]
<1>1. g = [i \in 0..n |-> F(i)]
  BY DEF Adds
<1>2. \A i \in 0..n : g[i] = F(i)
  <2> HIDE DEF F
  <2> QED
    BY <1>1
<1>3. g[0] = 0
  BY <1>2
<1>4. ASSUME NEW i \in 0..n, i < n
      PROVE  g[i + 1] = g[i] + (b[off + (i + 1)] % Base) * upper_bound[i]
  <2>1. i + 1 \in 0..n /\ i + 1 # 0 /\ i + 1 - 1 = i
    BY <1>4
  <2>2. g[i + 1] = F(i + 1)
    BY <1>2, <2>1
  <2> QED
    BY <2>1, <2>2
<1> QED
  BY <1>3, <1>4 DEF Sums

LEMMA AddsExist ==
    ASSUME NEW b \in Seq(Nat), NEW off \in Nat, NEW n \in Nat, off + n <= Len(b)
    PROVE  \E g : Adds(g, b, off, n)
<1> DEFINE p == [v \in Nat |-> IF v = 0 THEN 0 ELSE v - 1]
           D(v) == IF v \in 1..n THEN (b[off + v] % Base) * upper_bound[v - 1] ELSE 0
           step == [x \in Nat \X Nat |-> IF x[1] = 0 THEN 0 ELSE x[2] + D(x[1])]
<1>1. \A v \in Nat : D(v) \in Nat
  <2> SUFFICES ASSUME NEW v \in 1..n PROVE (b[off + v] % Base) * upper_bound[v - 1] \in Nat
    OBVIOUS
  <2>1. off + v \in 1..Len(b) /\ v - 1 \in Nat
    OBVIOUS
  <2>2. b[off + v] \in Nat
    BY <2>1
  <2>3. b[off + v] % Base \in Nat /\ upper_bound[v - 1] \in Nat
    BY <2>1, <2>2, Digits, UpperBound
  <2> QED
    BY <2>3
<1> HIDE DEF D
<1>2. Steps(Nat, p, 0, step)
  <2>1. ASSUME NEW v \in Nat, NEW r \in Nat PROVE (IF v = 0 THEN 0 ELSE r + D(v)) \in Nat
    <3> DEFINE d == D(v)
    <3>1. d \in Nat
      BY <1>1
    <3> HIDE DEF d
    <3>2. r + d \in Nat
      BY <3>1
    <3> QED
      BY <3>2 DEF d
  <2>2. step \in [Nat \X Nat -> Nat]
    <3>1. \A x \in Nat \X Nat : x[1] \in Nat /\ x[2] \in Nat
      OBVIOUS
    <3>2. \A x \in Nat \X Nat : (IF x[1] = 0 THEN 0 ELSE x[2] + D(x[1])) \in Nat
      BY <2>1, <3>1
    <3> QED
      BY <3>2
  <2>3. p \in [Nat -> Nat] /\ \A v \in Nat : v # 0 => p[v] < v
    OBVIOUS
  <2> HIDE DEF p, step
  <2> QED
    BY <2>2, <2>3 DEF Steps
<1>3. \A v \in Nat, r \in Nat : step[v, r] = IF v = 0 THEN 0 ELSE r + D(v)
  OBVIOUS
<1>4. \A v \in Nat : v # 0 => p[v] = v - 1 /\ v - 1 \in Nat
  OBVIOUS
<1> HIDE DEF p, step
<1>5. PICK f : Total(f, Nat, p, 0, step)
  BY <1>2, Recursion
<1>6. f \in [Nat -> Nat] /\ \A v \in Nat : f[v] = step[v, Given(f, p, 0, v)]
  BY <1>5 DEF Total
<1>7. \A v \in Nat : f[v] = IF v = 0 THEN 0 ELSE f[v - 1] + D(v)
  <2> SUFFICES ASSUME NEW v \in Nat PROVE f[v] = IF v = 0 THEN 0 ELSE f[v - 1] + D(v)
    OBVIOUS
  <2>1. CASE v = 0
    BY <1>3, <1>6, <2>1 DEF Given
  <2>2. CASE v # 0
    <3>1. Given(f, p, 0, v) = f[v - 1] /\ f[v - 1] \in Nat
      BY <1>4, <1>6, <2>2 DEF Given
    <3> QED
      BY <1>3, <1>6, <2>2, <3>1
  <2> QED
    BY <2>1, <2>2
<1> DEFINE g == [i \in 0..n |-> f[i]]
           F(i) == IF i = 0 THEN 0 ELSE g[i - 1] + (b[off + i] % Base) * upper_bound[i - 1]
<1>8. \A i \in 0..n : g[i] = F(i)
  <2> SUFFICES ASSUME NEW i \in 0..n PROVE g[i] = F(i)
    OBVIOUS
  <2>1. i \in Nat /\ g[i] = f[i] /\ (i # 0 => i \in 1..n /\ i - 1 \in 0..n)
    OBVIOUS
  <2>2. i # 0 => g[i - 1] = f[i - 1] /\ D(i) = (b[off + i] % Base) * upper_bound[i - 1]
    BY <2>1 DEF D
  <2> HIDE DEF g
  <2> QED
    BY <1>7, <2>1, <2>2
<1>9. g = [i \in 0..n |-> g[i]]
  OBVIOUS
<1>10. g = [i \in 0..n |-> F(i)]
  <2> HIDE DEF g, F
  <2> QED
    BY <1>8, <1>9
<1>11. Adds(g, b, off, n)
  <2> HIDE DEF g
  <2> QED
    BY <1>10 DEF Adds
<1> QED
  BY <1>11

LEMMA Regroup ==
    ASSUME NEW d \in Nat, NEW y \in Nat, NEW e \in Nat, NEW u \in Nat, NEW f \in Nat
    PROVE  y + e * u \in Nat /\ d + f * y + e * (f * u) = d + f * (y + e * u)
OBVIOUS

\* The sum from the second byte on counts Base times as much.
LEMMA SumsShift ==
    ASSUME NEW b \in Seq(Nat), NEW off \in Nat, NEW n \in Nat, off + (n + 1) <= Len(b), NEW g, NEW h,
           Sums(g, b, off, n + 1), Sums(h, b, off + 1, n)
    PROVE  \A i \in Nat : i <= n => h[i] \in Nat /\ g[i + 1] = (b[off + 1] % Base) + Base * h[i]
<1> DEFINE d == b[off + 1] % Base
           S == {i \in Nat : i <= n => h[i] \in Nat /\ g[i + 1] = d + Base * h[i]}
<1>0. Base \in Nat /\ Base > 1
  BY CodecAssumption
<1>1. d \in Nat
  <2>1. off + 1 \in 1..Len(b)
    OBVIOUS
  <2>2. b[off + 1] \in Nat
    BY <2>1
  <2> QED
    BY <2>2, Digits
<1> HIDE DEF d
<1>2. ASSUME NEW i \in Nat, \A m \in Nat : m < i => m \in S PROVE i \in S
  <2> SUFFICES ASSUME i <= n PROVE h[i] \in Nat /\ g[i + 1] = d + Base * h[i]
    OBVIOUS
  <2>1. CASE i = 0
    <3>1. g[0] = 0 /\ h[0] = 0 /\ 0 \in 0..(n + 1) /\ 0 < n + 1 /\ upper_bound[0] = 1
      BY UpperBound DEF Sums
    <3>2. g[0 + 1] = g[0] + (b[off + (0 + 1)] % Base) * upper_bound[0]
      BY <3>1 DEF Sums
    <3>3. g[0 + 1] = d
      BY <1>1, <3>1, <3>2 DEF d
    <3> QED
      BY <1>0, <1>1, <2>1, <3>1, <3>3
  <2>2. CASE i # 0
    <3> DEFINE j == i - 1
               e == b[off + (i + 1)] % Base
    <3>1. j \in Nat /\ j < i /\ i = j + 1 /\ j \in 0..n /\ j < n /\ i \in 0..(n + 1) /\ i < n + 1
      BY <2>2
    <3>2. h[j] \in Nat /\ g[j + 1] = d + Base * h[j]
      BY <1>2, <3>1
    <3>3. e \in Nat
      <4>1. off + (i + 1) \in 1..Len(b)
        BY <3>1
      <4>2. b[off + (i + 1)] \in Nat
        BY <4>1
      <4> QED
        BY <4>2, Digits
    <3>4. off + 1 + (j + 1) = off + (i + 1)
      BY <3>1
    <3>5. h[j + 1] = h[j] + (b[off + 1 + (j + 1)] % Base) * upper_bound[j]
      BY <3>1 DEF Sums
    <3>6. g[i + 1] = g[i] + e * upper_bound[i]
      BY <3>1 DEF Sums
    <3>7. upper_bound[j] \in Nat /\ upper_bound[j + 1] = Base * upper_bound[j]
      BY <3>1, UpperBound
    <3>8. h[i] = h[j] + e * upper_bound[j]
      BY <3>1, <3>4, <3>5
    <3>9. g[i + 1] = d + Base * h[j] + e * (Base * upper_bound[j])
      BY <3>1, <3>2, <3>6, <3>7
    <3> DEFINE y == h[j]
               u == upper_bound[j]
    <3> HIDE DEF e, j, y, u
    <3>10. y \in Nat /\ u \in Nat
      BY <3>2, <3>7 DEF y, u
    <3>11. y + e * u \in Nat /\ d + Base * y + e * (Base * u) = d + Base * (y + e * u)
      BY <1>0, <1>1, <3>3, <3>10, Regroup
    <3>12. h[i] = y + e * u /\ g[i + 1] = d + Base * y + e * (Base * u)
      BY <3>8, <3>9 DEF y, u
    <3> QED
      BY <3>11, <3>12
  <2> QED
    BY <2>1, <2>2
<1>3. \A i \in Nat : i \in S
  <2> HIDE DEF S
  <2> QED
    BY <1>2, Induct
<1> QED
  BY <1>3 DEF d

\* The bytes of x add up to x.
AddUp(x) ==
    \A b \in Seq(Nat), off \in Nat : \A g :
        At(b, off, encode_varint[x]) /\ Sums(g, b, off, Len(encode_varint[x]))
            => g[Len(encode_varint[x])] = x

LEMMA EncodeAddsUp == \A x \in Nat : AddUp(x)
<1> DEFINE S == {x \in Nat : AddUp(x)}
<1>0. Base \in Nat /\ Base > 1
  BY CodecAssumption
<1>1. ASSUME NEW x \in Nat, \A m \in Nat : m < x => m \in S PROVE x \in S
  <2> DEFINE w == encode_varint[x]
  <2> SUFFICES ASSUME NEW b \in Seq(Nat), NEW off \in Nat, NEW g, At(b, off, w), Sums(g, b, off, Len(w))
               PROVE  g[Len(w)] = x
    BY DEF AddUp
  <2>1. CASE x < Base
    <3>1. w = << x >>
      BY <2>1, EncodeVarint
    <3>2. Len(w) = 1 /\ w[1] = x
      BY <3>1
    <3>3. b[off + 1] = x
      BY <3>2 DEF At
    <3>4. g[0] = 0 /\ g[0 + 1] = g[0] + (b[off + (0 + 1)] % Base) * upper_bound[0] /\ upper_bound[0] = 1
      <4>1. 0 \in 0..Len(w) /\ 0 < Len(w)
        BY <3>2
      <4> QED
        BY <4>1, UpperBound DEF Sums
    <3>5. x % Base = x
      BY <2>1, Digits
    <3> QED
      BY <3>2, <3>3, <3>4, <3>5
  <2>2. CASE ~(x < Base)
    <3> DEFINE q == x \div Base
               v == encode_varint[q]
               n == Len(v)
    <3>1. x >= Base
      BY <1>0, <2>2
    <3>2. q \in Nat /\ q < x /\ x = Base * q + (x % Base) /\ x % Base \in Nat /\ (Base + (x % Base)) % Base = x % Base
      BY <1>0, <3>1, Digits
    <3>3. Longer(w, v, x)
      BY <3>1, EncodeLonger
    <3>4. AddUp(q)
      BY <1>1, <3>2
    <3> HIDE DEF q, w, v
    <3>5. n \in Nat /\ Len(w) = n + 1 /\ w[1] = Base + (x % Base) /\ \A i \in 1..n : w[i + 1] = v[i]
      BY <3>3 DEF Longer
    <3>6. off + (n + 1) <= Len(b) /\ \A i \in 1..(n + 1) : b[off + i] = w[i]
      BY <3>5 DEF At
    <3>6a. Len(b) \in Nat /\ n \in Nat /\ off + (n + 1) <= Len(b)
      BY <3>5, <3>6
    <3> HIDE DEF n
    <3>7. At(b, off + 1, v)
      <4>1. off + 1 + n <= Len(b)
        BY <3>6a
      <4>2. ASSUME NEW i \in 1..n PROVE b[off + 1 + i] = v[i]
        <5>1. i + 1 \in 1..(n + 1) /\ off + 1 + i = off + (i + 1)
          BY <3>5
        <5> QED
          BY <3>5, <3>6, <5>1
      <4> QED
        BY <4>1, <4>2 DEF At, n
    <3>8. PICK h : Sums(h, b, off + 1, n)
      <4>1. off + 1 \in Nat /\ off + 1 + n <= Len(b)
        BY <3>6a
      <4>2. PICK h : Adds(h, b, off + 1, n)
        BY <3>5, <4>1, AddsExist
      <4> QED
        BY <3>5, <4>2, AddsSums
    <3>9. h[n] = q
      BY <3>2, <3>4, <3>7, <3>8 DEF AddUp, n, v
    <3>10. g[n + 1] = (b[off + 1] % Base) + Base * h[n]
      BY <3>5, <3>6, <3>8, SumsShift
    <3>11. b[off + 1] = Base + (x % Base)
      <4>1. 1 \in 1..(n + 1)
        BY <3>5
      <4> QED
        BY <3>5, <3>6, <4>1
    <3>12. g[n + 1] = (x % Base) + Base * q
      BY <3>2, <3>9, <3>10, <3>11
    <3>13. Base * q \in Nat
      BY <1>0, <3>2
    <3> QED
      BY <3>2, <3>5, <3>12, <3>13
  <2> QED
    BY <2>1, <2>2
<1>2. \A x \in Nat : x \in S
  <2> HIDE DEF S
  <2> QED
    BY <1>1, Induct
<1> QED
  BY <1>2

\* decode_varint reads what encode_varint wrote, wherever it stands.
LEMMA DecodeVarint ==
    ASSUME NEW b \in Seq(Nat), NEW off \in Nat, NEW x \in Nat, At(b, off, encode_varint[x])
    PROVE  decode_varint(b, off).val = x /\ decode_varint(b, off).len = Len(encode_varint[x])
<1> DEFINE w == encode_varint[x]
           OK(i) == b[off + i] < Base /\ \A j \in 1..(i - 1) : b[off + j] >= Base
           n == CHOOSE i \in 1..(Len(b) - off) : OK(i)
           f == CHOOSE g : Adds(g, b, off, n)
<1>1. /\ Len(w) \in Nat /\ Len(w) # 0 /\ w[Len(w)] < Base
      /\ \A j \in 1..Len(w) : j < Len(w) => w[j] >= Base
      /\ \A j \in 1..Len(w) : w[j] \in Nat
  BY EncodeShape DEF Varint
<1>2. off + Len(w) <= Len(b) /\ \A i \in 1..Len(w) : b[off + i] = w[i]
  BY DEF At
<1>3. decode_varint(b, off) = [val |-> f[n], len |-> n]
  BY DEF decode_varint, Adds
<1> HIDE DEF w
<1>4. Len(w) \in 1..(Len(b) - off) /\ OK(Len(w))
  <2>1. Len(w) \in 1..(Len(b) - off) /\ Len(w) \in 1..Len(w)
    BY <1>1, <1>2
  <2>2. \A j \in 1..(Len(w) - 1) : j \in 1..Len(w) /\ j < Len(w)
    BY <1>1
  <2> QED
    BY <1>1, <1>2, <2>1, <2>2
<1>5. ASSUME NEW i \in 1..(Len(b) - off), OK(i) PROVE i = Len(w)
  <2>1. ~(i < Len(w))
    <3> SUFFICES ASSUME i < Len(w) PROVE FALSE
      OBVIOUS
    <3>1. i \in 1..Len(w)
      BY <1>1
    <3>2. b[off + i] >= Base /\ b[off + i] < Base /\ b[off + i] \in Nat
      BY <1>1, <1>2, <1>5, <3>1
    <3> QED
      BY <3>2, CodecAssumption
  <2>2. ~(Len(w) < i)
    <3> SUFFICES ASSUME Len(w) < i PROVE FALSE
      OBVIOUS
    <3>1. Len(w) \in 1..(i - 1) /\ Len(w) \in 1..Len(w)
      BY <1>1
    <3>2. b[off + Len(w)] >= Base /\ b[off + Len(w)] < Base /\ b[off + Len(w)] \in Nat
      BY <1>1, <1>2, <1>5, <3>1
    <3> QED
      BY <3>2, CodecAssumption
  <2> QED
    BY <1>1, <2>1, <2>2
<1>6. n = Len(w)
  <2> HIDE DEF OK
  <2> QED
    BY <1>4, <1>5
<1> HIDE DEF n
<1>7. Sums(f, b, off, n)
  <2>1. \E g : Adds(g, b, off, n)
    BY <1>1, <1>2, <1>6, AddsExist
  <2>2. Adds(f, b, off, n)
    BY <2>1
  <2> HIDE DEF f
  <2> QED
    BY <1>1, <1>6, <2>2, AddsSums
<1> HIDE DEF f
<1>8. f[n] = x
  BY <1>6, <1>7, EncodeAddsUp DEF AddUp, w
<1> QED
  BY <1>3, <1>6, <1>8 DEF w

----------------------------------------------------------------------------
(* Bytes in their places.                                                  *)

LEMMA Inside ==
    ASSUME NEW o \in Nat, NEW m \in Nat, NEW n \in Nat, o + m <= n, NEW i \in 1..m
    PROVE  o + i \in 1..n /\ o + i <= o + m
OBVIOUS

LEMMA Outside ==
    ASSUME NEW o \in Nat, NEW m \in Nat, NEW f \in Nat, NEW l \in Nat, o + m <= f \/ f + l <= o, NEW i \in 1..m
    PROVE  ~(o + i > f /\ o + i <= f + l)
OBVIOUS

LEMMA ConcatAt ==
    ASSUME NEW p \in Seq(Nat), NEW q \in Seq(Nat)
    PROVE  /\ p \o q \in Seq(Nat) /\ Len(p \o q) = Len(p) + Len(q) /\ Len(p) \in Nat /\ Len(q) \in Nat
           /\ At(p \o q, Len(p), q)
           /\ \A off \in Nat, s \in Seq(Nat) : At(p, off, s) => At(p \o q, off, s)
<1> DEFINE r == p \o q
<1>1. /\ r \in Seq(Nat) /\ Len(r) = Len(p) + Len(q) /\ Len(p) \in Nat /\ Len(q) \in Nat
      /\ \A i \in 1..Len(p) + Len(q) : r[i] = IF i <= Len(p) THEN p[i] ELSE q[i - Len(p)]
  BY ConcatProperties
<1> HIDE DEF r
<1>2. At(r, Len(p), q)
  <2>1. ASSUME NEW i \in 1..Len(q) PROVE r[Len(p) + i] = q[i]
    <3>1. Len(p) + i \in 1..Len(p) + Len(q) /\ ~(Len(p) + i <= Len(p)) /\ Len(p) + i - Len(p) = i
      BY <1>1
    <3> QED
      BY <1>1, <3>1
  <2>2. Len(p) + Len(q) <= Len(r)
    BY <1>1
  <2> QED
    BY <2>1, <2>2 DEF At
<1>3. ASSUME NEW off \in Nat, NEW s \in Seq(Nat), At(p, off, s) PROVE At(r, off, s)
  <2>1. Len(s) \in Nat /\ off + Len(s) <= Len(p) /\ \A i \in 1..Len(s) : p[off + i] = s[i]
    BY <1>3 DEF At
  <2>2. ASSUME NEW i \in 1..Len(s) PROVE r[off + i] = s[i]
    <3>1. off + i \in 1..Len(p)
      BY <1>1, <2>1, Inside
    <3>2. off + i \in 1..Len(p) + Len(q) /\ off + i <= Len(p)
      BY <1>1, <3>1
    <3> QED
      BY <1>1, <2>1, <3>2
  <2>3. off + Len(s) <= Len(r)
    BY <1>1, <2>1
  <2> QED
    BY <2>2, <2>3 DEF At
<1> QED
  BY <1>1, <1>2, <1>3 DEF r

LEMMA SelfAt ==
    ASSUME NEW s \in Seq(Nat)
    PROVE  At(s, 0, s) /\ Len(s) \in Nat
BY DEF At

LEMMA SliceAt ==
    ASSUME NEW b \in Seq(Nat), NEW off \in Nat, NEW s \in Seq(Nat), At(b, off, s)
    PROVE  Slice(b, << off, Len(s) >>) = s /\ InRange(b, << off, Len(s) >>)
<1> DEFINE t == SubSeq(b, off + 1, off + Len(s))
<1>1. Len(s) \in Nat /\ Len(b) \in Nat /\ off + Len(s) <= Len(b) /\ \A i \in 1..Len(s) : b[off + i] = s[i]
  BY DEF At
<1>2. /\ t \in Seq(Nat) /\ Len(t) = Len(s)
      /\ \A i \in 1..Len(s) : t[i] = b[off + i]
  <2>1. \A i \in (off + 1)..(off + Len(s)) : b[i] \in Nat
    BY <1>1
  <2>2. /\ t \in Seq(Nat)
        /\ Len(t) = IF off + 1 <= off + Len(s) THEN off + Len(s) - (off + 1) + 1 ELSE 0
        /\ \A i \in 1..(off + Len(s) - (off + 1) + 1) : t[i] = b[off + 1 + i - 1]
    BY <2>1, <1>1, SubSeqProperties
  <2>3. off + Len(s) - (off + 1) + 1 = Len(s)
    BY <1>1
  <2>4. Len(t) = Len(s)
    BY <1>1, <2>2, <2>3
  <2>5. \A i \in 1..Len(s) : off + 1 + i - 1 = off + i
    BY <1>1
  <2> HIDE DEF t
  <2> QED
    BY <2>2, <2>3, <2>4, <2>5
<1> HIDE DEF t
<1>3. t = s
  BY <1>1, <1>2, SeqEqual
<1>4. Slice(b, << off, Len(s) >>) = t
  BY DEF Slice, t
<1> QED
  BY <1>1, <1>3, <1>4 DEF InRange

LEMMA PutAt ==
    ASSUME NEW b \in Seq(Nat), NEW off \in Nat, NEW s \in Seq(Nat), off + Len(s) <= Len(b)
    PROVE  /\ Put(b, off, s) \in Seq(Nat) /\ Len(Put(b, off, s)) = Len(b)
           /\ At(Put(b, off, s), off, s)
           /\ \A o \in Nat, t \in Seq(Nat) :
                At(b, o, t) /\ (o + Len(t) <= off \/ off + Len(s) <= o) => At(Put(b, off, s), o, t)
<1> DEFINE p == Put(b, off, s)
<1>1. /\ Len(b) \in Nat /\ Len(s) \in Nat /\ DOMAIN b = 1..Len(b)
      /\ \A i \in 1..Len(b) : b[i] \in Nat
      /\ \A i \in 1..Len(s) : s[i] \in Nat
  OBVIOUS
<1>2. /\ DOMAIN p = 1..Len(b) /\ p = [i \in 1..Len(b) |-> p[i]]
      /\ \A i \in 1..Len(b) : p[i] = IF i > off /\ i <= off + Len(s) THEN s[i - off] ELSE b[i]
  BY <1>1 DEF Put
<1> HIDE DEF p
<1>3. ASSUME NEW i \in 1..Len(b) PROVE p[i] \in Nat
  <2>1. CASE i > off /\ i <= off + Len(s)
    <3>1. i - off \in 1..Len(s)
      BY <1>1, <2>1
    <3> QED
      BY <1>1, <1>2, <2>1, <3>1
  <2>2. CASE ~(i > off /\ i <= off + Len(s))
    BY <1>1, <1>2, <2>2
  <2> QED
    BY <2>1, <2>2
<1>4. p \in Seq(Nat) /\ Len(p) = Len(b)
  BY <1>1, <1>2, <1>3
<1>5. At(p, off, s)
  <2>1. ASSUME NEW i \in 1..Len(s) PROVE p[off + i] = s[i]
    <3>1. off + i \in 1..Len(b) /\ off + i > off /\ off + i <= off + Len(s) /\ off + i - off = i
      BY <1>1
    <3> DEFINE j == off + i
    <3>2. j \in 1..Len(b) /\ j > off /\ j <= off + Len(s) /\ j - off = i
      BY <3>1
    <3> HIDE DEF j
    <3>3. p[j] = s[j - off]
      BY <1>2, <3>2
    <3>4. p[j] = s[i]
      BY <3>2, <3>3
    <3> QED
      BY <3>4 DEF j
  <2> QED
    BY <1>4, <2>1 DEF At
<1>6. ASSUME NEW o \in Nat, NEW t \in Seq(Nat), At(b, o, t), o + Len(t) <= off \/ off + Len(s) <= o
      PROVE  At(p, o, t)
  <2>1. Len(t) \in Nat /\ o + Len(t) <= Len(b) /\ \A i \in 1..Len(t) : b[o + i] = t[i]
    BY <1>6 DEF At
  <2>2. ASSUME NEW i \in 1..Len(t) PROVE p[o + i] = t[i]
    <3>1. o + i \in 1..Len(b) /\ ~(o + i > off /\ o + i <= off + Len(s))
      BY <1>1, <1>6, <2>1, Inside, Outside
    <3> QED
      BY <1>2, <2>1, <3>1
  <2> QED
    BY <1>4, <2>1, <2>2 DEF At
<1> QED
  BY <1>4, <1>5, <1>6 DEF p

LEMMA ResizeAt ==
    ASSUME NEW b \in Seq(Nat), NEW n \in Nat
    PROVE  /\ resize(b, n) \in Seq(Nat) /\ Len(resize(b, n)) = n
           /\ \A o \in Nat, t \in Seq(Nat) : At(b, o, t) /\ o + Len(t) <= n => At(resize(b, n), o, t)
<1> DEFINE p == resize(b, n)
<1>1. Len(b) \in Nat /\ \A i \in 1..Len(b) : b[i] \in Nat
  OBVIOUS
<1>2. /\ DOMAIN p = 1..n /\ p = [i \in 1..n |-> p[i]]
      /\ \A i \in 1..n : p[i] = IF i <= Len(b) THEN b[i] ELSE 0
  BY DEF resize
<1> HIDE DEF p
<1>3. \A i \in 1..n : p[i] \in Nat
  BY <1>1, <1>2
<1>4. p \in Seq(Nat) /\ Len(p) = n
  BY <1>2, <1>3
<1>5. ASSUME NEW o \in Nat, NEW t \in Seq(Nat), At(b, o, t), o + Len(t) <= n PROVE At(p, o, t)
  <2>1. Len(t) \in Nat /\ o + Len(t) <= Len(b) /\ \A i \in 1..Len(t) : b[o + i] = t[i]
    BY <1>5 DEF At
  <2>2. ASSUME NEW i \in 1..Len(t) PROVE p[o + i] = t[i]
    <3>1. o + i \in 1..n /\ o + i <= Len(b)
      BY <1>1, <1>5, <2>1
    <3> QED
      BY <1>2, <2>1, <3>1
  <2> QED
    BY <1>4, <1>5, <2>1, <2>2 DEF At
<1> QED
  BY <1>4, <1>5 DEF p

LEMMA ShiftAt ==
    ASSUME NEW p \in Seq(Nat), NEW q \in Seq(Nat), NEW o \in Nat, NEW s \in Seq(Nat), At(q, o, s)
    PROVE  At(p \o q, Len(p) + o, s)
<1> DEFINE r == p \o q
<1>1. r \in Seq(Nat) /\ Len(r) = Len(p) + Len(q) /\ Len(p) \in Nat /\ Len(q) \in Nat /\ At(r, Len(p), q)
  BY ConcatAt
<1> HIDE DEF r
<1>2. \A i \in 1..Len(q) : r[Len(p) + i] = q[i]
  BY <1>1 DEF At
<1>3. Len(s) \in Nat /\ o + Len(s) <= Len(q) /\ \A i \in 1..Len(s) : q[o + i] = s[i]
  BY DEF At
<1>4. ASSUME NEW i \in 1..Len(s) PROVE r[Len(p) + o + i] = s[i]
  <2>1. o + i \in 1..Len(q)
    BY <1>1, <1>3, Inside
  <2>2. Len(p) + o + i = Len(p) + (o + i)
    BY <1>1
  <2> QED
    BY <1>2, <1>3, <2>1, <2>2
<1>5. Len(p) + o + Len(s) <= Len(r)
  BY <1>1, <1>3
<1>6. At(r, Len(p) + o, s)
  BY <1>4, <1>5 DEF At
<1> QED
  BY <1>6 DEF r

\* How many bytes the varint of x takes.
VarLen(x) == Len(encode_varint[x])

LEMMA VarintType ==
    ASSUME NEW x \in Nat
    PROVE  encode_varint[x] \in Seq(Nat) /\ Len(encode_varint[x]) = VarLen(x) /\ VarLen(x) \in Nat
<1>1. encode_varint[x] \in Seq(Nat)
  BY EncodeVarint
<1> QED
  BY <1>1 DEF VarLen

----------------------------------------------------------------------------
(* The layout of a record.                                                 *)

\* The header, the size of what follows, the key's length and the key.
Framed(b, h, k, size) ==
    /\ b \in Seq(Nat) /\ size \in Nat /\ Len(b) = 1 + VarLen(size) + size
    /\ At(b, 0, << h >>)
    /\ At(b, 1, encode_varint[size])
    /\ At(b, 1 + VarLen(size), encode_varint[Len(k)])
    /\ At(b, KeyOffset(Len(k), size), k)

TombstoneSize(k) == VarLen(Len(k)) + Len(k)

DataSize(k, v) == VarLen(Len(k)) + Len(k) + VarLen(Len(v)) + Len(v)

\* Where the value's length starts, and the value.
KeyEnd(k, v) == KeyOffset(Len(k), DataSize(k, v)) + Len(k)

ValueOffset(k, v) == KeyEnd(k, v) + VarLen(Len(v))

IsTombstone(b, k) == Framed(b, TOMBSTONE_LOG_HEADER, k, TombstoneSize(k))

IsData(b, k, v) ==
    /\ Framed(b, DATA_LOG_HEADER, k, DataSize(k, v))
    /\ At(b, KeyEnd(k, v), encode_varint[Len(v)])
    /\ At(b, ValueOffset(k, v), v)

LEMMA KeyOffsetIs ==
    ASSUME NEW x \in Nat, NEW size \in Nat
    PROVE  KeyOffset(x, size) = 1 + VarLen(size) + VarLen(x) /\ KeyOffset(x, size) \in Nat
<1>1. KeyOffset(x, size) = 1 + VarLen(size) + VarLen(x)
  BY DEF KeyOffset, VarLen
<1>2. VarLen(size) \in Nat /\ VarLen(x) \in Nat
  BY VarintType
<1> QED
  BY <1>1, <1>2

LEMMA SizeType ==
    ASSUME NEW k \in Seq(Nat), NEW v \in Seq(Nat)
    PROVE  /\ Len(k) \in Nat /\ Len(v) \in Nat
           /\ TombstoneSize(k) \in Nat /\ DataSize(k, v) \in Nat
           /\ KeyEnd(k, v) \in Nat /\ ValueOffset(k, v) \in Nat
           /\ KeyOffset(Len(k), DataSize(k, v)) \in Nat /\ KeyOffset(Len(k), TombstoneSize(k)) \in Nat
<1>1. Len(k) \in Nat /\ Len(v) \in Nat
  OBVIOUS
<1>2. VarLen(Len(k)) \in Nat /\ VarLen(Len(v)) \in Nat
  BY <1>1, VarintType
<1>3. TombstoneSize(k) \in Nat /\ DataSize(k, v) \in Nat
  BY <1>1, <1>2 DEF TombstoneSize, DataSize
<1>4. KeyOffset(Len(k), DataSize(k, v)) \in Nat /\ KeyOffset(Len(k), TombstoneSize(k)) \in Nat
  BY <1>1, <1>3, KeyOffsetIs
<1>5. KeyEnd(k, v) \in Nat
  BY <1>1, <1>4 DEF KeyEnd
<1>6. ValueOffset(k, v) \in Nat
  BY <1>2, <1>5 DEF ValueOffset
<1> QED
  BY <1>1, <1>3, <1>4, <1>5, <1>6

\* A body behind its header and its size.
LEMMA EncodeFrame ==
    ASSUME NEW k \in Seq(Nat), NEW body \in Seq(Nat), NEW h \in Nat,
           At(body, 0, encode_varint[Len(k)]), At(body, VarLen(Len(k)), k)
    PROVE  /\ Framed(<< h >> \o encode_varint[Len(body)] \o body, h, k, Len(body))
           /\ \A o \in Nat, s \in Seq(Nat) : At(body, o, s) =>
                At(<< h >> \o encode_varint[Len(body)] \o body, 1 + VarLen(Len(body)) + o, s)
<1> DEFINE size == Len(body)
           lv == encode_varint[size]
           kv == encode_varint[Len(k)]
           l == VarLen(size)
           n == VarLen(Len(k))
           hd == << h >>
           p == hd \o lv
           b == p \o body
<1>1. size \in Nat /\ Len(k) \in Nat /\ hd \in Seq(Nat) /\ Len(hd) = 1
  OBVIOUS
<1>2. lv \in Seq(Nat) /\ Len(lv) = l /\ l \in Nat /\ kv \in Seq(Nat) /\ Len(kv) = n /\ n \in Nat
  BY <1>1, VarintType
<1>3. At(hd, 0, hd)
  BY <1>1, SelfAt
<1>k. KeyOffset(Len(k), size) = 1 + l + n
  BY <1>1, KeyOffsetIs
<1> HIDE DEF hd, lv, kv, l, n
<1>4. p \in Seq(Nat) /\ Len(p) = 1 + l /\ At(p, 1, lv) /\ At(p, 0, hd)
  <2>1. /\ p \in Seq(Nat) /\ Len(p) = Len(hd) + Len(lv) /\ At(p, Len(hd), lv)
        /\ \A off \in Nat, s \in Seq(Nat) : At(hd, off, s) => At(p, off, s)
    BY <1>1, <1>2, ConcatAt
  <2> QED
    BY <1>1, <1>2, <1>3, <2>1
<1> HIDE DEF p
<1>5. /\ b \in Seq(Nat) /\ Len(b) = 1 + l + size /\ At(b, 0, hd) /\ At(b, 1, lv)
  <2>1. /\ b \in Seq(Nat) /\ Len(b) = Len(p) + size
        /\ \A off \in Nat, s \in Seq(Nat) : At(p, off, s) => At(b, off, s)
    BY <1>4, ConcatAt
  <2> QED
    BY <1>1, <1>2, <1>4, <2>1
<1>6. \A o \in Nat, s \in Seq(Nat) : At(body, o, s) => At(b, 1 + l + o, s)
  BY <1>4, ShiftAt
<1>7. At(b, 1 + l, kv) /\ At(b, 1 + l + n, k)
  <2>0. At(body, 0, kv) /\ At(body, n, k)
    BY DEF kv, n
  <2>1. At(b, 1 + l + 0, kv) /\ At(b, 1 + l + n, k)
    BY <1>2, <1>6, <2>0
  <2>2. 1 + l + 0 = 1 + l
    BY <1>2
  <2> QED
    BY <2>1, <2>2
<1> HIDE DEF b
<1>8. Framed(b, h, k, size)
  BY <1>1, <1>5, <1>7, <1>k DEF Framed, hd, lv, kv, l, n
<1> QED
  BY <1>6, <1>8 DEF b, p, hd, lv, l

\* encode_tombstone_record and encode_data_record.
LEMMA EncodeTombstone ==
    ASSUME NEW k \in Seq(Nat)
    PROVE  IsTombstone(encode_tombstone_record(k), k)
<1> DEFINE kv == encode_varint[Len(k)]
           n == VarLen(Len(k))
           body == kv \o k
<1>1. kv \in Seq(Nat) /\ Len(k) \in Nat /\ Len(kv) = n /\ n \in Nat
  BY VarintType
<1>2. encode_tombstone_record(k) = << TOMBSTONE_LOG_HEADER >> \o encode_varint[Len(body)] \o body
  BY DEF encode_tombstone_record
<1>3. TombstoneSize(k) = n + Len(k)
  BY DEF TombstoneSize
<1> HIDE DEF kv, n
<1>4. body \in Seq(Nat) /\ Len(body) = n + Len(k) /\ At(body, n, k) /\ At(body, 0, kv)
  BY <1>1, ConcatAt, SelfAt
<1> HIDE DEF body
<1>5. TOMBSTONE_LOG_HEADER \in Nat
  BY DEF TOMBSTONE_LOG_HEADER
<1>6. Framed(<< TOMBSTONE_LOG_HEADER >> \o encode_varint[Len(body)] \o body, TOMBSTONE_LOG_HEADER, k, Len(body))
  BY <1>4, <1>5, EncodeFrame DEF kv, n
<1> QED
  BY <1>2, <1>3, <1>4, <1>6 DEF IsTombstone

LEMMA EncodeData ==
    ASSUME NEW k \in Seq(Nat), NEW v \in Seq(Nat)
    PROVE  IsData(encode_data_record(k, v), k, v)
<1> DEFINE kv == encode_varint[Len(k)]
           vv == encode_varint[Len(v)]
           n == VarLen(Len(k))
           m == VarLen(Len(v))
           x == Len(k)
           y == Len(v)
           b1 == kv \o k
           b2 == b1 \o vv
           body == b2 \o v
           rec == encode_data_record(k, v)
           l == VarLen(Len(body))
<1>1. kv \in Seq(Nat) /\ x \in Nat /\ Len(kv) = n /\ n \in Nat /\ vv \in Seq(Nat) /\ y \in Nat /\ Len(vv) = m /\ m \in Nat
  <2>1. x \in Nat /\ y \in Nat
    OBVIOUS
  <2>2. kv \in Seq(Nat) /\ Len(kv) = n /\ n \in Nat
    BY <2>1, VarintType
  <2>3. vv \in Seq(Nat) /\ Len(vv) = m /\ m \in Nat
    BY <2>1, VarintType
  <2> QED
    BY <2>1, <2>2, <2>3
<1>2. rec = << DATA_LOG_HEADER >> \o encode_varint[Len(body)] \o body
  BY DEF encode_data_record
<1>3. DataSize(k, v) = n + x + m + y /\ DataSize(k, v) \in Nat
  BY SizeType DEF DataSize
<1>e. KeyOffset(x, DataSize(k, v)) = 1 + VarLen(DataSize(k, v)) + n /\ VarLen(DataSize(k, v)) \in Nat
  BY <1>1, <1>3, KeyOffsetIs, VarintType
<1>f. KeyEnd(k, v) = KeyOffset(x, DataSize(k, v)) + x /\ ValueOffset(k, v) = KeyEnd(k, v) + m
  BY DEF KeyEnd, ValueOffset
<1>g. Len(k) = x /\ Len(v) = y
  OBVIOUS
<1> HIDE DEF kv, vv, rec, n, m, x, y
<1>4. b1 \in Seq(Nat) /\ Len(b1) = n + x /\ At(b1, n, k) /\ At(b1, 0, kv)
  BY <1>1, <1>g, ConcatAt, SelfAt
<1> HIDE DEF b1
<1>5. /\ b2 \in Seq(Nat) /\ Len(b2) = n + x + m /\ At(b2, n + x, vv)
      /\ At(b2, n, k) /\ At(b2, 0, kv)
  BY <1>1, <1>4, ConcatAt
<1> HIDE DEF b2
<1>6. /\ body \in Seq(Nat) /\ Len(body) = n + x + m + y /\ At(body, n + x + m, v)
      /\ At(body, n + x, vv) /\ At(body, n, k) /\ At(body, 0, kv)
  <2>1. n + x \in Nat
    BY <1>1
  <2>2. body \in Seq(Nat) /\ Len(body) = Len(b2) + Len(v) /\ At(body, Len(b2), v)
    BY <1>5, ConcatAt
  <2>3. \A o \in Nat, t \in Seq(Nat) : At(b2, o, t) => At(body, o, t)
    BY <1>5, ConcatAt
  <2>4. At(body, n + x, vv) /\ At(body, n, k) /\ At(body, 0, kv)
    BY <1>1, <1>5, <2>1, <2>3
  <2> QED
    BY <1>5, <1>g, <2>2, <2>4
<1> HIDE DEF body
<1>7. DATA_LOG_HEADER \in Nat
  BY DEF DATA_LOG_HEADER
<1>8. /\ Framed(rec, DATA_LOG_HEADER, k, Len(body))
      /\ \A o \in Nat, s \in Seq(Nat) : At(body, o, s) => At(rec, 1 + l + o, s)
  BY <1>2, <1>6, <1>7, EncodeFrame DEF kv, n, l
<1>9. Len(body) = DataSize(k, v)
  BY <1>3, <1>6
<1>10. l \in Nat /\ l = VarLen(DataSize(k, v))
  BY <1>e, <1>9 DEF l
<1> HIDE DEF l
<1>11. 1 + l + (n + x) = KeyEnd(k, v) /\ 1 + l + (n + x + m) = ValueOffset(k, v)
  <2>1. KeyEnd(k, v) = 1 + l + n + x /\ ValueOffset(k, v) = 1 + l + n + x + m
    BY <1>e, <1>f, <1>10
  <2>2. 1 + l + (n + x) = 1 + l + n + x /\ 1 + l + (n + x + m) = 1 + l + n + x + m
    BY <1>1, <1>10
  <2> QED
    BY <2>1, <2>2
<1>12. At(rec, 1 + l + (n + x), vv) /\ At(rec, 1 + l + (n + x + m), v)
  <2>1. n + x \in Nat /\ n + x + m \in Nat
    BY <1>1
  <2> QED
    BY <1>1, <1>6, <1>8, <2>1
<1>13. Framed(rec, DATA_LOG_HEADER, k, DataSize(k, v))
  BY <1>8, <1>9
<1>14. At(rec, KeyEnd(k, v), encode_varint[Len(v)]) /\ At(rec, ValueOffset(k, v), v)
  BY <1>11, <1>12 DEF vv
<1> QED
  BY <1>13, <1>14 DEF IsData, rec

\* What decode_disk_record finds in the frame.
FrameRead(b, h, k, size) ==
    /\ b[0 + 1] = h /\ b \in Seq(Nat) /\ size \in Nat /\ Len(b) = 1 + VarLen(size) + size
    /\ decode_varint(b, 0 + 1).val = size /\ decode_varint(b, 0 + 1).len = VarLen(size)
    /\ decode_varint(b, 0 + 1 + VarLen(size)).val = Len(k)
    /\ decode_varint(b, 0 + 1 + VarLen(size)).len = VarLen(Len(k))
    /\ 0 + 1 + VarLen(size) + VarLen(Len(k)) = KeyOffset(Len(k), size)
    /\ Slice(b, << KeyOffset(Len(k), size), Len(k) >>) = k
    /\ InRange(b, << KeyOffset(Len(k), size), Len(k) >>)

LEMMA DecodeFrame ==
    ASSUME NEW k \in Seq(Nat), NEW h, NEW size, NEW b, Framed(b, h, k, size)
    PROVE  FrameRead(b, h, k, size)
<1> DEFINE l == VarLen(size)
           x == Len(k)
           n == VarLen(x)
           ko == KeyOffset(x, size)
<1>1. /\ b \in Seq(Nat) /\ size \in Nat /\ Len(b) = 1 + l + size /\ x \in Nat
      /\ At(b, 0, << h >>) /\ At(b, 1, encode_varint[size]) /\ At(b, 1 + l, encode_varint[x]) /\ At(b, ko, k)
  BY DEF Framed
<1>2. l \in Nat /\ n \in Nat /\ ko = 1 + l + n /\ ko \in Nat
  BY <1>1, VarintType, KeyOffsetIs
<1>3. b[0 + 1] = h
  BY <1>1 DEF At
<1>4. Slice(b, << ko, x >>) = k /\ InRange(b, << ko, x >>)
  BY <1>1, <1>2, SliceAt
<1>a. Len(encode_varint[size]) = l /\ Len(encode_varint[x]) = n
  BY <1>1, VarintType
<1> HIDE DEF l, n, ko, x
<1>5. 0 + 1 = 1 /\ 1 + l \in Nat /\ 0 + 1 + l = 1 + l /\ 0 + 1 + l + n = ko
  BY <1>2
<1>6. decode_varint(b, 1).val = size /\ decode_varint(b, 1).len = l
  BY <1>1, <1>a, DecodeVarint
<1>7. decode_varint(b, 1 + l).val = x /\ decode_varint(b, 1 + l).len = n
  <2> DEFINE o == 1 + l
  <2>1. o \in Nat /\ At(b, o, encode_varint[x])
    BY <1>1, <1>5
  <2> HIDE DEF o
  <2>2. decode_varint(b, o).val = x /\ decode_varint(b, o).len = Len(encode_varint[x])
    BY <1>1, <2>1, DecodeVarint
  <2> QED
    BY <1>a, <2>2 DEF o
<1>8. /\ decode_varint(b, 0 + 1).val = size /\ decode_varint(b, 0 + 1).len = l
      /\ decode_varint(b, 0 + 1 + l).val = x /\ decode_varint(b, 0 + 1 + l).len = n
  BY <1>5, <1>6, <1>7
<1> QED
  BY <1>1, <1>3, <1>4, <1>5, <1>8 DEF FrameRead, l, n, ko, x

\* What BlobIsLastWrite says.
Reads(b, k, v) ==
    LET log == decode_varint(b, 1)
    IN  /\ decode_disk_record(b, 0) = [key |-> k, value |-> v, end |-> Len(b)]
        /\ 1 + log.len + log.val = Len(b)

LEMMA DecodeTombstone ==
    ASSUME NEW k \in Seq(Nat), NEW b, IsTombstone(b, k)
    PROVE  Reads(b, k, None)
<1> DEFINE size == TombstoneSize(k)
           l == VarLen(size)
           x == Len(k)
           n == VarLen(x)
           ko == KeyOffset(x, size)
<1>1. Framed(b, TOMBSTONE_LOG_HEADER, k, size)
  BY DEF IsTombstone
<1>2. FrameRead(b, TOMBSTONE_LOG_HEADER, k, size)
  BY <1>1, DecodeFrame
<1>3. x \in Nat /\ n \in Nat
  BY VarintType
<1>4. size = n + x
  BY DEF TombstoneSize
<1> HIDE DEF size
<1>5. /\ b[0 + 1] = TOMBSTONE_LOG_HEADER /\ decode_varint(b, 0 + 1).val = size /\ decode_varint(b, 0 + 1).len = l
      /\ decode_varint(b, 0 + 1 + l).val = x /\ decode_varint(b, 0 + 1 + l).len = n
      /\ 0 + 1 + l + n = ko /\ Slice(b, << ko, x >>) = k /\ Len(b) = 1 + l + size /\ size \in Nat
  BY <1>2 DEF FrameRead
<1>6. l \in Nat
  BY <1>5, VarintType
<1>7. DATA_LOG_HEADER # TOMBSTONE_LOG_HEADER
  BY DEF DATA_LOG_HEADER, TOMBSTONE_LOG_HEADER
<1> HIDE DEF l, n, x, ko
<1>8. decode_disk_record(b, 0) = [key |-> k, value |-> None, end |-> ko + x]
  BY <1>5, <1>7 DEF decode_disk_record
<1>9. ko + x = Len(b) /\ 0 + 1 = 1
  BY <1>3, <1>4, <1>5, <1>6
<1>10. decode_varint(b, 1).val = size /\ decode_varint(b, 1).len = l
  BY <1>5, <1>9
<1>11. 1 + l + size = Len(b)
  BY <1>5
<1> QED
  BY <1>8, <1>9, <1>10, <1>11 DEF Reads

LEMMA DecodeData ==
    ASSUME NEW k \in Seq(Nat), NEW v \in Seq(Nat), NEW b, IsData(b, k, v)
    PROVE  Reads(b, k, v)
<1> DEFINE size == DataSize(k, v)
           l == VarLen(size)
           x == Len(k)
           y == Len(v)
           n == VarLen(x)
           m == VarLen(y)
           ko == KeyOffset(x, size)
<1>1. /\ Framed(b, DATA_LOG_HEADER, k, size)
      /\ At(b, ko + x, encode_varint[y]) /\ At(b, ko + x + m, v)
  BY DEF IsData, KeyEnd, ValueOffset
<1>2. FrameRead(b, DATA_LOG_HEADER, k, size)
  BY <1>1, DecodeFrame
<1>3. x \in Nat /\ n \in Nat /\ y \in Nat /\ m \in Nat /\ Len(encode_varint[y]) = m
  <2>1. x \in Nat /\ y \in Nat
    OBVIOUS
  <2>2. n \in Nat
    BY <2>1, VarintType
  <2>3. m \in Nat /\ Len(encode_varint[y]) = m
    BY <2>1, VarintType
  <2> QED
    BY <2>1, <2>2, <2>3
<1>4. size = n + x + m + y
  BY DEF DataSize
<1>k. ko \in Nat
  BY SizeType
<1> HIDE DEF size
<1>5. /\ b[0 + 1] = DATA_LOG_HEADER /\ decode_varint(b, 0 + 1).val = size /\ decode_varint(b, 0 + 1).len = l
      /\ decode_varint(b, 0 + 1 + l).val = x /\ decode_varint(b, 0 + 1 + l).len = n
      /\ 0 + 1 + l + n = ko /\ Slice(b, << ko, x >>) = k /\ Len(b) = 1 + l + size /\ size \in Nat /\ b \in Seq(Nat)
  BY <1>2 DEF FrameRead
<1>6. l \in Nat
  BY <1>5, VarintType
<1>y. Len(v) = y
  OBVIOUS
<1> HIDE DEF l, n, x, ko, m, y
<1>7. ko + x \in Nat /\ ko + x + m \in Nat
  BY <1>3, <1>k
<1>8. decode_varint(b, ko + x).val = y /\ decode_varint(b, ko + x).len = m
  <2> DEFINE o == ko + x
  <2>1. o \in Nat /\ At(b, o, encode_varint[y])
    BY <1>1, <1>7
  <2> HIDE DEF o
  <2>2. decode_varint(b, o).val = y /\ decode_varint(b, o).len = Len(encode_varint[y])
    BY <1>3, <1>5, <2>1, DecodeVarint
  <2> QED
    BY <1>3, <2>2 DEF o
<1>9. Slice(b, << ko + x + m, y >>) = v
  <2>1. Slice(b, << ko + x + m, Len(v) >>) = v
    BY <1>1, <1>5, <1>7, SliceAt
  <2> QED
    BY <2>1, <1>y
<1>10. decode_disk_record(b, 0) = [key |-> k, value |-> v, end |-> ko + x + m + y]
  <2> DEFINE log  == decode_varint(b, 0 + 1)
             klen == decode_varint(b, 0 + 1 + log.len)
             koff == 0 + 1 + log.len + klen.len
             vlen == decode_varint(b, koff + klen.val)
             voff == koff + klen.val + vlen.len
             found == [key |-> Slice(b, << koff, klen.val >>),
                       value |-> Slice(b, << voff, vlen.val >>), end |-> voff + vlen.val]
             dead == [key |-> Slice(b, << koff, klen.val >>), value |-> None, end |-> koff + klen.val]
  <2>0. decode_disk_record(b, 0) =
            CASE b[0 + 1] = DATA_LOG_HEADER -> found
              [] b[0 + 1] = TOMBSTONE_LOG_HEADER -> dead
              [] OTHER -> None
    BY DEF decode_disk_record
  <2>1. decode_disk_record(b, 0) = found
    <3> HIDE DEF found, dead
    <3>1. b[0 + 1] = DATA_LOG_HEADER /\ b[0 + 1] # TOMBSTONE_LOG_HEADER
      BY <1>5 DEF DATA_LOG_HEADER, TOMBSTONE_LOG_HEADER
    <3> QED
      BY <2>0, <3>1
  <2>2. log.len = l
    BY <1>5
  <2> HIDE DEF log
  <2>3. klen.len = n /\ klen.val = x
    BY <1>5, <2>2
  <2> HIDE DEF klen
  <2>4. koff = ko
    BY <1>5, <2>2, <2>3
  <2> HIDE DEF koff
  <2>5. vlen.len = m /\ vlen.val = y
    BY <1>8, <2>3, <2>4
  <2> HIDE DEF vlen
  <2>6. voff = ko + x + m
    BY <2>3, <2>4, <2>5
  <2> HIDE DEF voff
  <2>7. found = [key |-> k, value |-> v, end |-> ko + x + m + y]
    BY <1>5, <1>9, <2>3, <2>4, <2>5, <2>6
  <2> QED
    BY <2>1, <2>7
<1>11. ko + x + m + y = Len(b) /\ 0 + 1 = 1
  BY <1>3, <1>4, <1>5, <1>6
<1>12. decode_varint(b, 1).val = size /\ decode_varint(b, 1).len = l
  BY <1>5, <1>11
<1>13. 1 + l + size = Len(b)
  BY <1>5
<1> QED
  BY <1>10, <1>11, <1>12, <1>13 DEF Reads

\* encode_varint, decode_varint and varint_size_from_len agree: the number is
\* read back at whatever offset its bytes are, with the number of bytes it
\* takes, and that is the size computed for a length that fits ten bytes.
THEOREM VarintRoundTrip ==
    /\ \A x \in Nat, b \in Seq(Nat), off \in Nat :
        At(b, off, encode_varint[x]) =>
            decode_varint(b, off).val = x /\ decode_varint(b, off).len = Len(encode_varint[x])
    /\ \A x \in Nat : x < upper_bound[10] => varint_size_from_len(x) = Len(encode_varint[x])
BY DecodeVarint, VarintSize

\* decode_disk_record reads back what encode_data_record and
\* encode_tombstone_record wrote, and ends where the bytes end.
THEOREM RecordRoundTrip ==
    \A k, v \in Seq(Nat) :
        LET data == encode_data_record(k, v)
            dead == encode_tombstone_record(k)
        IN  /\ decode_disk_record(data, 0) = [key |-> k, value |-> v, end |-> Len(data)]
            /\ decode_disk_record(dead, 0) = [key |-> k, value |-> None, end |-> Len(dead)]
<1> SUFFICES ASSUME NEW k \in Seq(Nat), NEW v \in Seq(Nat)
             PROVE  Reads(encode_data_record(k, v), k, v) /\ Reads(encode_tombstone_record(k), k, None)
  BY DEF Reads
<1>1. Reads(encode_data_record(k, v), k, v)
  BY EncodeData, DecodeData
<1>2. Reads(encode_tombstone_record(k), k, None)
  BY EncodeTombstone, DecodeTombstone
<1> QED
  BY <1>1, <1>2

----------------------------------------------------------------------------
(* Writing over a record in place.                                         *)

\* One copy_from_slice: what is written is there, what is beside it stays.
LEMMA PutKeeps ==
    ASSUME NEW b \in Seq(Nat), NEW off \in Nat, NEW s \in Seq(Nat), off + Len(s) <= Len(b),
           NEW o \in Nat, NEW t \in Seq(Nat), At(b, o, t), o + Len(t) <= off \/ off + Len(s) <= o
    PROVE  At(Put(b, off, s), o, t)
BY PutAt

\* The record before the value is copied: its size, its key's length and its
\* key are in place.
Started(c, k, v) ==
    /\ c \in Seq(Nat) /\ Len(c) = 1 + VarLen(DataSize(k, v)) + DataSize(k, v)
    /\ At(c, 1, encode_varint[DataSize(k, v)])
    /\ At(c, 1 + VarLen(DataSize(k, v)), encode_varint[Len(k)])
    /\ At(c, KeyOffset(Len(k), DataSize(k, v)), k)

LEMMA Finish ==
    ASSUME NEW k \in Seq(Nat), NEW v \in Seq(Nat), NEW c, Started(c, k, v)
    PROVE  IsData(Put(Put(Put(c, KeyEnd(k, v), encode_varint[Len(v)]), ValueOffset(k, v), v),
                      0, << DATA_LOG_HEADER >>), k, v)
<1> DEFINE size == DataSize(k, v)
           x == Len(k)
           y == Len(v)
           l == VarLen(size)
           n == VarLen(x)
           m == VarLen(y)
           ko == KeyOffset(x, size)
           ke == KeyEnd(k, v)
           vo == ValueOffset(k, v)
           lv == encode_varint[size]
           kv == encode_varint[x]
           vv == encode_varint[y]
           hd == << DATA_LOG_HEADER >>
           c1 == Put(c, ke, vv)
           c2 == Put(c1, vo, v)
           c3 == Put(c2, 0, hd)
<1>1. x \in Nat /\ y \in Nat /\ size \in Nat /\ ke \in Nat /\ vo \in Nat /\ ko \in Nat /\ Len(k) = x /\ Len(v) = y
  BY SizeType
<1>2. /\ lv \in Seq(Nat) /\ Len(lv) = l /\ l \in Nat /\ kv \in Seq(Nat) /\ Len(kv) = n /\ n \in Nat
      /\ vv \in Seq(Nat) /\ Len(vv) = m /\ m \in Nat
  BY <1>1, VarintType
<1>3. size = n + x + m + y /\ ke = ko + x /\ vo = ke + m
  BY DEF DataSize, KeyEnd, ValueOffset
<1>4. ko = 1 + l + n
  BY <1>1, KeyOffsetIs
<1>5. c \in Seq(Nat) /\ Len(c) = 1 + l + size /\ At(c, 1, lv) /\ At(c, 1 + l, kv) /\ At(c, ko, k)
  BY DEF Started
<1>6. hd \in Seq(Nat) /\ Len(hd) = 1
  BY DEF DATA_LOG_HEADER
<1> HIDE DEF size, x, y, l, n, m, ko, ke, vo, lv, kv, vv, hd
<1>7. 1 + l <= ke /\ 1 + l + n <= ke /\ ko + x <= ke /\ ke + m <= vo /\ ko + x <= vo /\ 1 + l <= vo /\ 1 + l + n <= vo
  BY <1>1, <1>2, <1>3, <1>4
<1>8. 1 <= ko /\ 1 <= ke /\ 1 <= vo /\ 1 <= 1 + l /\ ke + m <= 1 + l + size /\ vo + y <= 1 + l + size /\ 1 <= 1 + l + size /\ 1 + l \in Nat
  BY <1>1, <1>2, <1>3, <1>4
<1>9. c1 \in Seq(Nat) /\ Len(c1) = 1 + l + size /\ At(c1, ke, vv)
  BY <1>1, <1>2, <1>5, <1>8, PutAt
<1>10. At(c1, 1, lv) /\ At(c1, 1 + l, kv) /\ At(c1, ko, k)
  BY <1>1, <1>2, <1>5, <1>7, <1>8, PutKeeps
<1> HIDE DEF c1
<1>11. c2 \in Seq(Nat) /\ Len(c2) = 1 + l + size /\ At(c2, vo, v)
  BY <1>1, <1>8, <1>9, PutAt
<1>12. At(c2, 1, lv) /\ At(c2, 1 + l, kv) /\ At(c2, ko, k) /\ At(c2, ke, vv)
  BY <1>1, <1>2, <1>7, <1>8, <1>9, <1>10, PutKeeps
<1> HIDE DEF c2
<1>13. c3 \in Seq(Nat) /\ Len(c3) = 1 + l + size /\ At(c3, 0, hd)
  <2>1. 0 + 1 <= 1 + l + size /\ 0 \in Nat
    BY <1>8
  <2> QED
    BY <1>6, <1>11, <2>1, PutAt
<1>14. At(c3, 1, lv) /\ At(c3, 1 + l, kv) /\ At(c3, ko, k) /\ At(c3, ke, vv) /\ At(c3, vo, v)
  <2>1. 0 + 1 <= 1 /\ 0 + 1 <= 1 + l /\ 0 + 1 <= ko /\ 0 + 1 <= ke /\ 0 + 1 <= vo /\ 0 + 1 <= 1 + l + size
    BY <1>8
  <2> QED
    BY <1>1, <1>2, <1>6, <1>8, <1>11, <1>12, <2>1, PutKeeps
<1> HIDE DEF c3
<1>15. Framed(c3, DATA_LOG_HEADER, k, size)
  BY <1>1, <1>13, <1>14 DEF Framed, hd, lv, kv, l, ko, x
<1>16. IsData(c3, k, v)
  BY <1>14, <1>15 DEF IsData, size, vv, y, ke, vo
<1> QED
  BY <1>16 DEF c3, c2, c1, hd, vv, y, ke, vo

\* The size keeps its length: the key stays where it is.
LEMMA StartInPlace ==
    ASSUME NEW k \in Seq(Nat), NEW v \in Seq(Nat), NEW h, NEW size, NEW b,
           Framed(b, h, k, size), VarLen(size) = VarLen(DataSize(k, v))
    PROVE  /\ Started(Put(resize(b, VarLen(DataSize(k, v)) + DataSize(k, v) + 1), 1,
                          encode_varint[DataSize(k, v)]), k, v)
           /\ KeyOffset(Len(k), size) = KeyOffset(Len(k), DataSize(k, v))
<1> DEFINE new == DataSize(k, v)
           x == Len(k)
           y == Len(v)
           l == VarLen(new)
           n == VarLen(x)
           m == VarLen(y)
           ko == KeyOffset(x, new)
           lv == encode_varint[new]
           kv == encode_varint[x]
           c == resize(b, l + new + 1)
           d == Put(c, 1, lv)
<1>1. x \in Nat /\ y \in Nat /\ new \in Nat /\ ko \in Nat /\ Len(k) = x
  BY SizeType
<1>2. /\ lv \in Seq(Nat) /\ Len(lv) = l /\ l \in Nat /\ kv \in Seq(Nat) /\ Len(kv) = n /\ n \in Nat /\ m \in Nat
  BY <1>1, VarintType
<1>3. new = n + x + m + y
  BY DEF DataSize
<1>4. ko = 1 + l + n
  BY <1>1, KeyOffsetIs
<1>5. b \in Seq(Nat) /\ size \in Nat /\ At(b, 1 + VarLen(size), kv) /\ At(b, KeyOffset(x, size), k)
  BY DEF Framed
<1>6. KeyOffset(x, size) = 1 + VarLen(size) + n
  BY <1>1, <1>5, KeyOffsetIs
<1>7. KeyOffset(x, size) = ko /\ At(b, 1 + l, kv) /\ At(b, ko, k)
  BY <1>4, <1>5, <1>6
<1> HIDE DEF new, x, y, l, n, m, ko, lv, kv
<1>8. l + new + 1 \in Nat /\ 1 + l \in Nat /\ 1 + l + n <= l + new + 1 /\ ko + x <= l + new + 1 /\ l + new + 1 = 1 + l + new
      /\ 1 + l <= l + new + 1 /\ 1 + l <= 1 + l /\ 1 \in Nat /\ 1 + l <= ko
  BY <1>1, <1>2, <1>3, <1>4
<1>9. c \in Seq(Nat) /\ Len(c) = l + new + 1 /\ At(c, 1 + l, kv) /\ At(c, ko, k)
  BY <1>1, <1>2, <1>5, <1>7, <1>8, ResizeAt
<1> HIDE DEF c
<1>10. d \in Seq(Nat) /\ Len(d) = 1 + l + new /\ At(d, 1, lv)
  BY <1>2, <1>8, <1>9, PutAt
<1>11. At(d, 1 + l, kv) /\ At(d, ko, k)
  BY <1>1, <1>2, <1>8, <1>9, PutKeeps
<1> HIDE DEF d
<1>12. Started(d, k, v)
  BY <1>10, <1>11 DEF Started, new, l, lv, kv, ko, x
<1> QED
  BY <1>7, <1>12 DEF d, c, new, l, lv, ko, x

\* The key is copied to where the new record has it.
LEMMA StartMoved ==
    ASSUME NEW k \in Seq(Nat), NEW v \in Seq(Nat), NEW h, NEW size, NEW b,
           Framed(b, h, k, size),
           InRange(resize(b, VarLen(DataSize(k, v)) + DataSize(k, v) + 1), << KeyOffset(Len(k), size), Len(k) >>)
    PROVE  Started(Put(Put(Put(resize(b, VarLen(DataSize(k, v)) + DataSize(k, v) + 1), 1,
                               encode_varint[DataSize(k, v)]),
                           1 + VarLen(DataSize(k, v)), encode_varint[Len(k)]),
                       KeyOffset(Len(k), DataSize(k, v)),
                       Slice(resize(b, VarLen(DataSize(k, v)) + DataSize(k, v) + 1),
                             << KeyOffset(Len(k), size), Len(k) >>)), k, v)
<1> DEFINE new == DataSize(k, v)
           x == Len(k)
           y == Len(v)
           l == VarLen(new)
           n == VarLen(x)
           m == VarLen(y)
           ko == KeyOffset(x, new)
           old == KeyOffset(x, size)
           lv == encode_varint[new]
           kv == encode_varint[x]
           c == resize(b, l + new + 1)
           d == Put(c, 1, lv)
           e == Put(d, 1 + l, kv)
           f == Put(e, ko, k)
<1>1. x \in Nat /\ y \in Nat /\ new \in Nat /\ ko \in Nat /\ Len(k) = x
  BY SizeType
<1>2. /\ lv \in Seq(Nat) /\ Len(lv) = l /\ l \in Nat /\ kv \in Seq(Nat) /\ Len(kv) = n /\ n \in Nat /\ m \in Nat
  BY <1>1, VarintType
<1>3. new = n + x + m + y
  BY DEF DataSize
<1>4. ko = 1 + l + n
  BY <1>1, KeyOffsetIs
<1>5. b \in Seq(Nat) /\ size \in Nat /\ At(b, old, k)
  BY DEF Framed
<1>6. old \in Nat
  BY <1>1, <1>5, KeyOffsetIs
<1>7. InRange(c, << old, x >>)
  OBVIOUS
<1> HIDE DEF new, x, y, l, n, m, ko, lv, kv, old
<1>8. l + new + 1 \in Nat /\ 1 + l \in Nat /\ 1 + l + n <= l + new + 1 /\ ko + x <= l + new + 1 /\ l + new + 1 = 1 + l + new
      /\ 1 + l <= l + new + 1 /\ 1 + l <= 1 + l /\ 1 \in Nat /\ 1 + l <= ko /\ 1 + l + n <= ko
  BY <1>1, <1>2, <1>3, <1>4
<1>9. c \in Seq(Nat) /\ Len(c) = l + new + 1
  BY <1>5, <1>8, ResizeAt
<1>10. old + x <= l + new + 1
  BY <1>7, <1>9 DEF InRange
<1>11. At(c, old, k)
  BY <1>1, <1>5, <1>6, <1>8, <1>10, ResizeAt
<1> HIDE DEF c
<1>12. Slice(c, << old, x >>) = k
  BY <1>1, <1>6, <1>9, <1>11, SliceAt
<1>13. d \in Seq(Nat) /\ Len(d) = l + new + 1 /\ At(d, 1, lv)
  BY <1>2, <1>8, <1>9, PutAt
<1> HIDE DEF d
<1>14. e \in Seq(Nat) /\ Len(e) = l + new + 1 /\ At(e, 1 + l, kv)
  BY <1>2, <1>8, <1>13, PutAt
<1>15. At(e, 1, lv)
  BY <1>2, <1>8, <1>13, PutKeeps
<1> HIDE DEF e
<1>16. f \in Seq(Nat) /\ Len(f) = 1 + l + new /\ At(f, ko, k)
  BY <1>1, <1>8, <1>14, PutAt
<1>17. At(f, 1, lv) /\ At(f, 1 + l, kv)
  BY <1>1, <1>2, <1>8, <1>14, <1>15, PutKeeps
<1> HIDE DEF f
<1>18. Started(f, k, v)
  BY <1>16, <1>17 DEF Started, new, l, lv, kv, ko, x
<1>19. f = Put(Put(Put(c, 1, lv), 1 + l, kv), ko, Slice(c, << old, x >>))
  BY <1>12 DEF f, e, d
<1> QED
  BY <1>18, <1>19 DEF c, new, l, lv, kv, ko, x, old

----------------------------------------------------------------------------
(* The invariant: the record holds the last write.                         *)

\* What may be written: values, and None for a delete.
Written == {None} \cup {ValueBytes(w, len) : w \in 1..MaxWrites, len \in ValueLens}

\* The record of key k and last write u.
Holds(b, view, k, u) ==
    /\ view = << KeyOffset(Len(k), IF u = None THEN TombstoneSize(k) ELSE DataSize(k, u)), Len(k) >>
    /\ u = None => IsTombstone(b, k)
    /\ u # None => IsData(b, k, u)

\* After the writes p and u: a delete was among them; the first of them.
Deleted(p, u) == u = None \/ \E i \in 1..Len(p) : p[i] = None

FirstOf(p, u) == IF Len(p) = 0 THEN u ELSE p[1]

\* The value's view is where the first value was, until a delete clears it.
Views(view, k, p, u) ==
    view = IF Deleted(p, u) THEN None
           ELSE << ValueOffset(k, FirstOf(p, u)), Len(FirstOf(p, u)) >>

RecordInv ==
    /\ past \in Seq(Written) /\ last \in Written /\ Len(past) + 1 <= MaxWrites
    /\ ~panicked => \E klen \in KeyLens : /\ Holds(blob, key, KeyBytes(klen), last)
                                          /\ Views(value, KeyBytes(klen), past, last)

LEMMA KeyBytesType ==
    ASSUME NEW klen \in KeyLens
    PROVE  KeyBytes(klen) \in Seq(Nat) /\ Len(KeyBytes(klen)) = klen /\ klen \in Nat /\ klen < upper_bound[10]
<1>1. upper_bound[10] \in Nat
  BY UpperBound
<1>2. klen \in 0..(upper_bound[10] - 1)
  BY RecordAssumption
<1>3. klen \in Nat /\ klen < upper_bound[10]
  BY <1>1, <1>2
<1>4. \A i \in 1..klen : 1000 + i \in Nat
  BY <1>3
<1> QED
  BY <1>3, <1>4 DEF KeyBytes

LEMMA ValueBytesType ==
    ASSUME NEW w \in 1..MaxWrites, NEW len \in ValueLens
    PROVE  /\ ValueBytes(w, len) \in Seq(Nat) /\ Len(ValueBytes(w, len)) = len /\ len \in Nat
           /\ ValueBytes(w, len) # None /\ ValueBytes(w, len) \in Written
<1>1. MaxWrites \in Nat /\ len \in Nat /\ ValueBytes(w, len) # None
  BY RecordAssumption
<1>2. \A i \in 1..len : 2000 + 100 * w + i \in Nat
  BY <1>1
<1>3. ValueBytes(w, len) \in Seq(Nat) /\ Len(ValueBytes(w, len)) = len
  BY <1>1, <1>2 DEF ValueBytes
<1>4. ValueBytes(w, len) \in Written
  BY DEF Written
<1> QED
  BY <1>1, <1>3, <1>4

LEMMA WrittenType ==
    ASSUME NEW u \in Written, u # None
    PROVE  u \in Seq(Nat)
<1>1. PICK w \in 1..MaxWrites, len \in ValueLens : u = ValueBytes(w, len)
  BY DEF Written
<1> QED
  BY <1>1, ValueBytesType

\* One frame for both kinds.
LEMMA HoldsFrame ==
    ASSUME NEW k \in Seq(Nat), NEW u \in Written, NEW b, NEW view, Holds(b, view, k, u)
    PROVE  \E h, size : Framed(b, h, k, size) /\ view = << KeyOffset(Len(k), size), Len(k) >>
<1>1. CASE u = None
  <2>1. Framed(b, TOMBSTONE_LOG_HEADER, k, TombstoneSize(k)) /\ view = << KeyOffset(Len(k), TombstoneSize(k)), Len(k) >>
    BY <1>1 DEF Holds, IsTombstone
  <2> QED
    BY <2>1
<1>2. CASE u # None
  <2>1. Framed(b, DATA_LOG_HEADER, k, DataSize(k, u)) /\ view = << KeyOffset(Len(k), DataSize(k, u)), Len(k) >>
    BY <1>2 DEF Holds, IsData
  <2> QED
    BY <2>1
<1> QED
  BY <1>1, <1>2

\* Record::overwrite_data leaves the record of the new value, or panics.
LEMMA OverwriteData ==
    ASSUME NEW k \in Seq(Nat), Len(k) < upper_bound[10], NEW u \in Written, Holds(blob, key, k, u),
           NEW v \in Seq(Nat), v # None, overwrite_data(v)
    PROVE  /\ value' = value
           /\ panicked' = TRUE \/ Holds(blob', key', k, v)
<1>1. PICK h, size : Framed(blob, h, k, size) /\ key = << KeyOffset(Len(k), size), Len(k) >>
  BY HoldsFrame
<1> DEFINE new == DataSize(k, v)
           x == Len(k)
           y == Len(v)
           l == VarLen(new)
           n == VarLen(x)
           m == VarLen(y)
           ko == KeyOffset(x, new)
           old == KeyOffset(x, size)
           klen == key[2]
           kvar == varint_size_from_len(klen)
           vvar == encode_varint[Len(v)]
           logSize == log_size(kvar, v)
           lvar == encode_varint[logSize]
           sized == resize(blob, Len(lvar) + logSize + 1)
           moves == key[1] - kvar - 1 # Len(lvar)
           koff == IF moves THEN 1 + Len(lvar) + kvar ELSE key[1]
           logged == Put(sized, 1, lvar)
           keyed == IF moves THEN Put(Put(logged, 1 + Len(lvar), encode_varint[klen]),
                                      koff, Slice(sized, key))
                             ELSE logged
           done == Put(Put(Put(keyed, koff + klen, vvar), koff + klen + Len(vvar), v), 0, << DATA_LOG_HEADER >>)
<1>2. IF moves /\ ~InRange(sized, key)
      THEN panicked' = TRUE /\ blob' = sized /\ UNCHANGED << key, value >>
      ELSE blob' = done /\ key' = moved_key(koff) /\ UNCHANGED << value, panicked >>
  BY Zenon DEF overwrite_data
<1>3. size \in Nat /\ x \in Nat /\ y \in Nat /\ new \in Nat /\ ko \in Nat /\ old \in Nat
  BY <1>1, SizeType, KeyOffsetIs DEF Framed
<1>4. /\ l \in Nat /\ n \in Nat /\ m \in Nat /\ VarLen(size) \in Nat
      /\ Len(encode_varint[new]) = l /\ Len(encode_varint[y]) = m
  BY <1>3, VarintType
<1>5. ko = 1 + l + n /\ old = 1 + VarLen(size) + n
  BY <1>3, KeyOffsetIs
<1>6. new = n + x + m + y
  BY DEF DataSize
<1>7. key[2] = x /\ key[1] = old /\ key = << old, x >> /\ Len(v) = y /\ Len(k) = x
  BY <1>1
<1>8. varint_size_from_len(x) = n
  BY <1>3, VarintSize DEF VarLen
<1>9. KeyEnd(k, v) = ko + x /\ ValueOffset(k, v) = ko + x + m
  BY DEF KeyEnd, ValueOffset
<1>10. klen = x /\ kvar = n
  BY <1>7, <1>8
<1>11. log_size(kvar, v) = Len(encode_varint[Len(v)]) + kvar + key[2] + Len(v)
  BY DEF log_size
<1>12. Len(encode_varint[Len(v)]) = m
  BY <1>4
<1>h. v # None
  OBVIOUS
<1> HIDE DEF new, x, y, l, n, m, ko, old
<1>13. logSize = m + n + x + y
  BY <1>7, <1>10, <1>11, <1>12
<1>14. logSize = new
  BY <1>3, <1>4, <1>6, <1>13
<1> HIDE DEF klen, kvar, logSize
<1>15. lvar = encode_varint[new] /\ Len(lvar) = l /\ Len(vvar) = m /\ vvar = encode_varint[y]
  BY <1>4, <1>12, <1>14, <1>7
<1> HIDE DEF lvar, vvar
<1>16. sized = resize(blob, l + new + 1)
  BY <1>14, <1>15
<1> HIDE DEF sized
<1>17. logged = Put(resize(blob, l + new + 1), 1, encode_varint[new])
  BY <1>15, <1>16
<1> HIDE DEF logged
<1>18. ASSUME Started(keyed, k, v), koff = ko, blob' = done, key' = moved_key(koff)
       PROVE  Holds(blob', key', k, v)
  <2>1. done = Put(Put(Put(keyed, KeyEnd(k, v), encode_varint[Len(v)]), ValueOffset(k, v), v), 0, << DATA_LOG_HEADER >>)
    <3> HIDE DEF keyed, koff
    <3> QED
      BY <1>7, <1>9, <1>10, <1>15, <1>18
  <2> HIDE DEF done, keyed, koff
  <2>2. IsData(blob', k, v)
    BY <1>18, <2>1, Finish
  <2>3. key' = << KeyOffset(Len(k), DataSize(k, v)), Len(k) >>
    BY <1>7, <1>18 DEF moved_key, ko, x, new
  <2> QED
    BY <1>h, <2>2, <2>3 DEF Holds
<1>19. CASE moves /\ ~InRange(sized, key)
  BY <1>2, <1>19
<1>20. CASE moves /\ InRange(sized, key)
  <2>1. koff = ko
    BY <1>5, <1>10, <1>15, <1>20
  <2>2. keyed = Put(Put(logged, 1 + l, encode_varint[x]), ko, Slice(sized, << old, x >>))
    BY <1>7, <1>10, <1>15, <1>20, <2>1
  <2>3. InRange(resize(blob, l + new + 1), << old, x >>)
    BY <1>7, <1>16, <1>20
  <2>4. Started(keyed, k, v)
    <3>1. Started(Put(Put(Put(resize(blob, l + new + 1), 1, encode_varint[new]), 1 + l, encode_varint[x]), ko,
                      Slice(resize(blob, l + new + 1), << old, x >>)), k, v)
      BY <1>1, <2>3, StartMoved DEF l, new, x, ko, old
    <3> QED
      BY <1>16, <1>17, <2>2, <3>1
  <2>5. blob' = done /\ key' = moved_key(koff) /\ value' = value
    BY <1>2, <1>20
  <2> QED
    BY <1>18, <2>1, <2>4, <2>5
<1>21. CASE ~moves
  <2>1. koff = old /\ keyed = logged
    BY <1>7, <1>21
  <2>2. old - n - 1 = l
    BY <1>7, <1>10, <1>15, <1>21
  <2>3. VarLen(size) = l
    BY <1>3, <1>4, <1>5, <2>2
  <2>4. old = ko
    BY <1>5, <2>3
  <2>5. Started(keyed, k, v)
    <3>1. Started(Put(resize(blob, l + new + 1), 1, encode_varint[new]), k, v)
      BY <1>1, <2>3, StartInPlace DEF l, new
    <3> QED
      BY <1>17, <2>1, <3>1
  <2>6. blob' = done /\ key' = moved_key(koff) /\ value' = value
    BY <1>2, <1>21
  <2> QED
    BY <1>18, <2>1, <2>4, <2>5, <2>6
<1> QED
  BY <1>19, <1>20, <1>21

\* Record::update_data_to_tombstone leaves the tombstone of the key.
LEMMA DeleteData ==
    ASSUME NEW k \in Seq(Nat), NEW u \in Written, Holds(blob, key, k, u), update_data_to_tombstone
    PROVE  Holds(blob', key', k, None) /\ value' = None
<1>1. PICK h, size : Framed(blob, h, k, size) /\ key = << KeyOffset(Len(k), size), Len(k) >>
  BY HoldsFrame
<1>2. FrameRead(blob, h, k, size)
  BY <1>1, DecodeFrame
<1>3. Slice(blob, key) = k
  BY <1>1, <1>2 DEF FrameRead
<1>4. /\ blob' = encode_tombstone_record(k)
      /\ key' = << KeyOffset(Len(k), Len(encode_varint[Len(k)]) + Len(k)), Len(k) >>
      /\ value' = None
  BY <1>3 DEF update_data_to_tombstone
<1>5. IsTombstone(blob', k)
  BY <1>4, EncodeTombstone
<1>6. key' = << KeyOffset(Len(k), TombstoneSize(k)), Len(k) >>
  BY <1>4 DEF TombstoneSize, VarLen
<1> QED
  BY <1>4, <1>5, <1>6 DEF Holds

\* What one more write does to the history.
LEMMA OneMore ==
    ASSUME NEW p \in Seq(Written), NEW u \in Written, NEW t \in Written
    PROVE  /\ Append(p, u) \in Seq(Written) /\ Len(Append(p, u)) = Len(p) + 1
           /\ Deleted(Append(p, u), t) <=> t = None \/ Deleted(p, u)
           /\ FirstOf(Append(p, u), t) = FirstOf(p, u)
<1> DEFINE q == Append(p, u)
           n == Len(p)
<1>1. /\ q \in Seq(Written) /\ Len(q) = n + 1 /\ n \in Nat
      /\ \A i \in 1..n : q[i] = p[i]
      /\ q[n + 1] = u
  BY AppendProperties
<1> HIDE DEF q
<1>2. Deleted(q, t) <=> t = None \/ Deleted(p, u)
  <2>1. ASSUME NEW i \in 1..Len(q), q[i] = None PROVE Deleted(p, u)
    <3>1. CASE i = n + 1
      BY <1>1, <2>1, <3>1 DEF Deleted
    <3>2. CASE i # n + 1
      <4>1. i \in 1..n
        BY <1>1, <3>2
      <4> QED
        BY <1>1, <2>1, <4>1 DEF Deleted
    <3> QED
      BY <3>1, <3>2
  <2>2. ASSUME NEW i \in 1..n, p[i] = None PROVE Deleted(q, t)
    <3>1. i \in 1..Len(q) /\ q[i] = None
      BY <1>1, <2>2
    <3> QED
      BY <3>1 DEF Deleted
  <2>3. ASSUME u = None PROVE Deleted(q, t)
    <3>1. n + 1 \in 1..Len(q) /\ q[n + 1] = None
      BY <1>1, <2>3
    <3> QED
      BY <3>1 DEF Deleted
  <2> QED
    BY <2>1, <2>2, <2>3 DEF Deleted
<1>3. FirstOf(q, t) = FirstOf(p, u)
  <2>0. FirstOf(q, t) = q[1]
    <3>1. Len(q) # 0
      BY <1>1
    <3> QED
      BY <3>1 DEF FirstOf
  <2>1. CASE n = 0
    <3>1. q[1] = u
      BY <1>1, <2>1
    <3> QED
      BY <2>0, <2>1, <3>1 DEF FirstOf
  <2>2. CASE n # 0
    <3>1. q[1] = p[1]
      BY <1>1, <2>2
    <3> QED
      BY <2>0, <2>2, <3>1 DEF FirstOf
  <2> QED
    BY <2>1, <2>2
<1> QED
  BY <1>1, <1>2, <1>3 DEF q

LEMMA RecordInit == Init => RecordInv
<1> SUFFICES ASSUME Init PROVE RecordInv
  OBVIOUS
<1>1. PICK klen \in KeyLens : (\E vlen \in ValueLens : NewData(klen, vlen)) \/ NewTombstone(klen)
  BY DEF Init
<1>2. past = << >> /\ panicked = FALSE
  BY DEF Init
<1>3. past \in Seq(Written) /\ Len(past) = 0
  BY <1>2
<1>4. MaxWrites \in Nat /\ 1 \in 1..MaxWrites /\ Len(past) + 1 <= MaxWrites
  BY <1>3, RecordAssumption
<1> DEFINE k == KeyBytes(klen)
<1>5. k \in Seq(Nat) /\ Len(k) = klen /\ klen \in Nat
  BY KeyBytesType
<1> HIDE DEF k
<1>6. CASE NewTombstone(klen)
  <2>1. blob = encode_tombstone_record(k) /\ value = None /\ last = None
    BY <1>6 DEF NewTombstone, k
  <2>2. key = << KeyOffset(klen, Len(encode_varint[klen]) + klen), klen >>
    BY <1>6 DEF NewTombstone
  <2>3. TombstoneSize(k) = Len(encode_varint[klen]) + klen
    BY <1>5 DEF TombstoneSize, VarLen
  <2>4. IsTombstone(blob, k)
    BY <1>5, <2>1, EncodeTombstone
  <2>5. Holds(blob, key, k, last)
    BY <1>5, <2>1, <2>2, <2>3, <2>4 DEF Holds
  <2>6. Views(value, k, past, last)
    BY <2>1 DEF Views, Deleted
  <2>7. last \in Written
    BY <2>1 DEF Written
  <2> QED
    BY <1>3, <1>4, <2>5, <2>6, <2>7 DEF RecordInv, k
<1>7. CASE \E vlen \in ValueLens : NewData(klen, vlen)
  <2>1. PICK vlen \in ValueLens : NewData(klen, vlen)
    BY <1>7
  <2> DEFINE v == ValueBytes(1, vlen)
             size == Len(encode_varint[klen]) + klen + Len(encode_varint[vlen]) + vlen
  <2>2. v \in Seq(Nat) /\ Len(v) = vlen /\ v # None /\ v \in Written
    BY <1>4, ValueBytesType
  <2>3. /\ blob = encode_data_record(k, v) /\ last = v
        /\ key = << KeyOffset(klen, size), klen >>
        /\ value = << KeyOffset(klen, size) + klen + Len(encode_varint[vlen]), vlen >>
    BY <2>1 DEF NewData, k
  <2> HIDE DEF v
  <2>4. DataSize(k, v) = size
    BY <1>5, <2>2 DEF DataSize, VarLen
  <2>5. ValueOffset(k, v) = KeyOffset(klen, size) + klen + Len(encode_varint[vlen])
    BY <1>5, <2>2, <2>4 DEF ValueOffset, KeyEnd, VarLen
  <2> HIDE DEF size
  <2>6. IsData(blob, k, v)
    BY <1>5, <2>2, <2>3, EncodeData
  <2>7. Holds(blob, key, k, last)
    BY <1>5, <2>2, <2>3, <2>4, <2>6 DEF Holds
  <2>8. Views(value, k, past, last)
    <3>1. ~Deleted(past, last)
      BY <1>3, <2>2, <2>3 DEF Deleted
    <3>2. FirstOf(past, last) = v
      BY <1>3, <2>3 DEF FirstOf
    <3> QED
      BY <2>2, <2>3, <2>5, <3>1, <3>2 DEF Views
  <2> QED
    BY <1>3, <1>4, <2>2, <2>3, <2>7, <2>8 DEF RecordInv, k
<1> QED
  BY <1>1, <1>6, <1>7

LEMMA RecordStep == RecordInv /\ [Next]_vars => RecordInv'
<1> SUFFICES ASSUME RecordInv, [Next]_vars PROVE RecordInv'
  OBVIOUS
<1>1. past \in Seq(Written) /\ last \in Written /\ Len(past) \in Nat /\ MaxWrites \in Nat
  BY RecordAssumption DEF RecordInv
<1>2. ASSUME ~panicked
      PROVE  \E klen \in KeyLens : Holds(blob, key, KeyBytes(klen), last) /\ Views(value, KeyBytes(klen), past, last)
  BY <1>2 DEF RecordInv
<1>3. CASE UNCHANGED vars
  BY <1>3 DEF vars, RecordInv, Holds, Views
<1>4. ASSUME NEW vlen \in ValueLens, UpdateData(vlen) PROVE RecordInv'
  <2> DEFINE w == Len(past) + 2
             v == ValueBytes(w, vlen)
  <2>1. /\ ~panicked /\ Len(past) + 1 < MaxWrites /\ overwrite_data(v)
        /\ last' = v /\ past' = Append(past, last)
    BY <1>4 DEF UpdateData
  <2>2. w \in 1..MaxWrites
    BY <1>1, <2>1
  <2> HIDE DEF w
  <2>3. v \in Seq(Nat) /\ v # None /\ v \in Written
    BY <2>2, ValueBytesType
  <2> HIDE DEF v
  <2>4. PICK klen \in KeyLens : Holds(blob, key, KeyBytes(klen), last) /\ Views(value, KeyBytes(klen), past, last)
    BY <1>2, <2>1
  <2> DEFINE k == KeyBytes(klen)
  <2>5. k \in Seq(Nat) /\ Len(k) < upper_bound[10]
    BY KeyBytesType
  <2>6. value' = value /\ (panicked' = TRUE \/ Holds(blob', key', k, v))
    BY <1>1, <2>1, <2>3, <2>4, <2>5, OverwriteData
  <2>7. /\ past' \in Seq(Written) /\ Len(past') = Len(past) + 1
        /\ Deleted(past', v) <=> v = None \/ Deleted(past, last)
        /\ FirstOf(past', v) = FirstOf(past, last)
    BY <1>1, <2>1, <2>3, OneMore
  <2>8. Views(value', k, past', v)
    BY <2>3, <2>4, <2>6, <2>7 DEF Views
  <2> HIDE DEF k
  <2>9. Len(past') + 1 <= MaxWrites
    BY <1>1, <2>1, <2>7
  <2>10. ~panicked' => Holds(blob', key', k, last') /\ Views(value', k, past', last')
    BY <2>1, <2>6, <2>8
  <2> QED
    BY <2>1, <2>3, <2>7, <2>9, <2>10 DEF RecordInv, k, Holds, Views
<1>5. ASSUME UpdateTombstone PROVE RecordInv'
  <2>1. /\ ~panicked /\ Len(past) + 1 < MaxWrites /\ update_data_to_tombstone
        /\ last' = None /\ past' = Append(past, last)
    BY <1>5 DEF UpdateTombstone
  <2>2. None \in Written
    BY DEF Written
  <2>3. PICK klen \in KeyLens : Holds(blob, key, KeyBytes(klen), last) /\ Views(value, KeyBytes(klen), past, last)
    BY <1>2, <2>1
  <2> DEFINE k == KeyBytes(klen)
  <2>4. k \in Seq(Nat)
    BY KeyBytesType
  <2>5. Holds(blob', key', k, None) /\ value' = None
    BY <1>1, <2>1, <2>3, <2>4, DeleteData
  <2>6. past' \in Seq(Written) /\ Len(past') = Len(past) + 1
    BY <1>1, <2>1, <2>2, OneMore
  <2>7. Views(value', k, past', None)
    BY <2>5 DEF Views, Deleted
  <2> HIDE DEF k
  <2>8. Len(past') + 1 <= MaxWrites
    BY <1>1, <2>1, <2>6
  <2>9. Holds(blob', key', k, last') /\ Views(value', k, past', last')
    BY <2>1, <2>5, <2>7
  <2> QED
    BY <2>1, <2>2, <2>6, <2>8, <2>9 DEF RecordInv, k, Holds, Views
<1> QED
  BY <1>3, <1>4, <1>5 DEF Next

\* The inductive invariant: until a slice is out of range, blob has the layout
\* of the key and the last write, key its view, and value the place of the
\* first value until a delete clears it.
THEOREM RecordInvariant == Spec => []RecordInv
<1>1. Init => RecordInv
  BY RecordInit
<1>2. RecordInv /\ [Next]_vars => RecordInv'
  BY RecordStep
<1> QED
  BY <1>1, <1>2, PTL DEF Spec

\* Whatever updates in place came before, the bytes of a record decode to its
\* key and its last write and end where the record ends.
THEOREM DecodesLastWrite == Spec => []BlobIsLastWrite
<1>1. RecordInv => BlobIsLastWrite
  <2> SUFFICES ASSUME RecordInv, ~panicked
               PROVE  Reads(blob, KeyBytes(key[2]), last)
    BY DEF BlobIsLastWrite, Reads
  <2>1. PICK klen \in KeyLens : Holds(blob, key, KeyBytes(klen), last)
    BY DEF RecordInv
  <2> DEFINE k == KeyBytes(klen)
  <2>2. k \in Seq(Nat) /\ Len(k) = klen
    BY KeyBytesType
  <2>3. key[2] = klen
    BY <2>1, <2>2 DEF Holds
  <2> HIDE DEF k
  <2>4. CASE last = None
    <3>1. IsTombstone(blob, k)
      BY <2>1, <2>4 DEF Holds, k
    <3>2. Reads(blob, k, None)
      BY <2>2, <3>1, DecodeTombstone
    <3> QED
      BY <2>3, <2>4, <3>2 DEF k
  <2>5. CASE last # None
    <3>1. IsData(blob, k, last)
      BY <2>1, <2>5 DEF Holds, k
    <3>2. last \in Seq(Nat)
      BY <2>5, WrittenType DEF RecordInv
    <3>3. Reads(blob, k, last)
      BY <2>2, <3>1, <3>2, DecodeData
    <3> QED
      BY <2>3, <3>3 DEF k
  <2> QED
    BY <2>4, <2>5
<1> QED
  BY <1>1, RecordInvariant, PTL

\* The view the tree compares keys by shows the key after every update, moved
\* keys included.
THEOREM ShowsKey == Spec => []KeyViewIsKey
<1>1. RecordInv => KeyViewIsKey
  <2> SUFFICES ASSUME RecordInv, ~panicked
               PROVE  InRange(blob, key) /\ Slice(blob, key) = KeyBytes(key[2])
    BY DEF KeyViewIsKey
  <2>1. PICK klen \in KeyLens : Holds(blob, key, KeyBytes(klen), last)
    BY DEF RecordInv
  <2> DEFINE k == KeyBytes(klen)
  <2>2. k \in Seq(Nat) /\ Len(k) = klen
    BY KeyBytesType
  <2> HIDE DEF k
  <2>3. last \in Written /\ Holds(blob, key, k, last)
    BY <2>1 DEF RecordInv, k
  <2>4. PICK h, size : Framed(blob, h, k, size) /\ key = << KeyOffset(Len(k), size), Len(k) >>
    BY <2>2, <2>3, HoldsFrame
  <2>5. FrameRead(blob, h, k, size)
    BY <2>2, <2>4, DecodeFrame
  <2>6. InRange(blob, key) /\ Slice(blob, key) = k
    BY <2>4, <2>5 DEF FrameRead
  <2>7. key[2] = klen
    BY <2>2, <2>4
  <2> QED
    BY <2>6, <2>7 DEF k
<1> QED
  BY <1>1, RecordInvariant, PTL

\* The lengths of the values of a history are finitely many, and two of them
\* are equal when there is at most one.
LEMMA OneLength ==
    ASSUME NEW q \in Seq(Written), NEW lens,
           lens = {Len(v) : v \in ToSet(q) \ {None}},
           \A i \in 1..Len(q) : q[i] # None, Cardinality(lens) <= 1,
           NEW i \in 1..Len(q), NEW j \in 1..Len(q)
    PROVE  Len(q[i]) = Len(q[j])
<1> DEFINE n == Len(q)
           f == [c \in 1..n |-> Len(q[c])]
           a == Len(q[i])
           b == Len(q[j])
<1>1. n \in Nat /\ DOMAIN q = 1..n
  OBVIOUS
<1>2. \A c \in 1..n : Len(q[c]) \in lens
  BY <1>1 DEF ToSet
<1>3. \A y \in lens : \E c \in 1..n : Len(q[c]) = y
  BY <1>1 DEF ToSet
<1>4. f \in Surjection(1..n, lens)
  BY <1>2, <1>3 DEF Surjection
<1>5. IsFiniteSet(1..n)
  BY <1>1, FS_Interval
<1>6. IsFiniteSet(lens)
  BY <1>4, <1>5, FS_Surjection
<1>7. a \in lens /\ b \in lens
  BY <1>2
<1> HIDE DEF a, b
<1>8. {a} \cup {b} \in SUBSET lens
  BY <1>7
<1>9. Cardinality({a} \cup {b}) <= Cardinality(lens)
  BY <1>6, <1>8, FS_Subset
<1>10. IsFiniteSet({a}) /\ Cardinality({a}) = 1
  BY FS_Singleton
<1>11. Cardinality({a} \cup {b}) = IF b \in {a} THEN Cardinality({a}) ELSE Cardinality({a}) + 1
  BY <1>10, FS_AddElement
<1>12. Cardinality(lens) \in Nat
  BY <1>6, FS_CardinalityType
<1>13. ASSUME a # b PROVE FALSE
  <2>1. Cardinality({a} \cup {b}) = 2
    <3>1. b \notin {a}
      BY <1>13
    <3>2. Cardinality({a} \cup {b}) = Cardinality({a}) + 1
      BY <1>11, <3>1
    <3>3. 1 + 1 = 2
      OBVIOUS
    <3> QED
      BY <1>10, <3>2, <3>3
  <2> DEFINE c == Cardinality(lens)
  <2>2. 2 <= c
    BY <1>9, <2>1
  <2>3. c <= 1 /\ c \in Nat
    BY <1>12
  <2> HIDE DEF c
  <2> QED
    BY <2>2, <2>3
<1> QED
  BY <1>13 DEF a, b

\* With values of one length the value's view shows the last value, and None
\* once the record was deleted: what the Table module assumes of a record.
THEOREM ShowsValue == Spec => []ValueViewAsInTable
<1>1. RecordInv => ValueViewAsInTable
  <2> DEFINE q == Append(past, last)
             lens == {Len(v) : v \in ToSet(q) \ {None}}
  <2> SUFFICES ASSUME RecordInv, ~panicked, Cardinality(lens) <= 1
               PROVE  IF None \in ToSet(q) THEN value = None
                      ELSE InRange(blob, value) /\ Slice(blob, value) = last
    BY DEF ValueViewAsInTable
  <2>1. PICK klen \in KeyLens : Holds(blob, key, KeyBytes(klen), last) /\ Views(value, KeyBytes(klen), past, last)
    BY DEF RecordInv
  <2> DEFINE k == KeyBytes(klen)
             n == Len(past)
  <2>2. k \in Seq(Nat)
    BY KeyBytesType
  <2>3. past \in Seq(Written) /\ last \in Written
    BY DEF RecordInv
  <2>4. /\ q \in Seq(Written) /\ Len(q) = n + 1 /\ n \in Nat
        /\ \A i \in 1..n : q[i] = past[i]
        /\ q[n + 1] = last
    BY <2>3, AppendProperties
  <2>5. Cardinality(lens) <= 1 /\ lens = {Len(v) : v \in ToSet(q) \ {None}}
    OBVIOUS
  <2> HIDE DEF q, k, lens
  <2>6. DOMAIN q = 1..(n + 1) /\ n + 1 \in 1..(n + 1) /\ 1 \in 1..(n + 1)
    BY <2>4
  <2>7. None \in ToSet(q) <=> Deleted(past, last)
    <3>1. None \in ToSet(q) <=> \E i \in 1..(n + 1) : q[i] = None
      BY <2>6 DEF ToSet
    <3>2. (\E i \in 1..(n + 1) : q[i] = None) => Deleted(past, last)
      <4> SUFFICES ASSUME NEW i \in 1..(n + 1), q[i] = None PROVE Deleted(past, last)
        OBVIOUS
      <4>1. CASE i = n + 1
        BY <2>4, <4>1 DEF Deleted
      <4>2. CASE i # n + 1
        <5>1. i \in 1..n
          BY <2>4, <4>2
        <5> QED
          BY <2>4, <5>1 DEF Deleted
      <4> QED
        BY <4>1, <4>2
    <3>3. Deleted(past, last) => \E i \in 1..(n + 1) : q[i] = None
      <4>1. CASE last = None
        BY <2>4, <2>6, <4>1
      <4>2. ASSUME NEW i \in 1..n, past[i] = None PROVE \E j \in 1..(n + 1) : q[j] = None
        <5>1. i \in 1..(n + 1)
          BY <2>4
        <5> QED
          BY <2>4, <4>2, <5>1
      <4> QED
        BY <4>1, <4>2 DEF Deleted
    <3> QED
      BY <3>1, <3>2, <3>3
  <2>8. CASE Deleted(past, last)
    BY <2>1, <2>7, <2>8 DEF Views
  <2>9. CASE ~Deleted(past, last)
    <3> DEFINE f == FirstOf(past, last)
    <3>1. value = << ValueOffset(k, f), Len(f) >>
      BY <2>1, <2>9 DEF Views, k
    <3>2. f = q[1]
      <4>1. CASE n = 0
        BY <2>4, <4>1 DEF FirstOf
      <4>2. CASE n # 0
        <5>1. 1 \in 1..n
          BY <2>4, <4>2
        <5> QED
          BY <2>4, <4>2, <5>1 DEF FirstOf
      <4> QED
        BY <4>1, <4>2
    <3> HIDE DEF f
    <3>3. \A i \in 1..Len(q) : q[i] # None
      BY <2>4, <2>6, <2>7, <2>9 DEF ToSet
    <3>4. Len(q[1]) = Len(q[n + 1])
      <4>1. 1 \in 1..Len(q) /\ n + 1 \in 1..Len(q)
        BY <2>4, <2>6
      <4> QED
        BY <2>4, <2>5, <3>3, <4>1, OneLength
    <3>5. Len(f) = Len(last)
      BY <2>4, <3>2, <3>4
    <3>6. ValueOffset(k, f) = ValueOffset(k, last)
      BY <3>5 DEF ValueOffset, KeyEnd, DataSize
    <3>7. last # None /\ IsData(blob, k, last)
      BY <2>1, <2>9 DEF Holds, Deleted, k
    <3>8. last \in Seq(Nat)
      BY <2>3, <3>7, WrittenType
    <3>9. At(blob, ValueOffset(k, last), last) /\ blob \in Seq(Nat) /\ ValueOffset(k, last) \in Nat
      BY <2>2, <3>7, <3>8, SizeType DEF IsData, Framed
    <3>10. /\ Slice(blob, << ValueOffset(k, last), Len(last) >>) = last
           /\ InRange(blob, << ValueOffset(k, last), Len(last) >>)
      BY <3>8, <3>9, SliceAt
    <3>11. value = << ValueOffset(k, last), Len(last) >>
      BY <3>1, <3>5, <3>6
    <3> QED
      BY <2>7, <2>9, <3>10, <3>11
  <2> QED
    BY <2>8, <2>9
<1> QED
  BY <1>1, RecordInvariant, PTL
=============================================================================
