------------------------ MODULE LaneSchedulerProofs -------------------------
(***************************************************************************)
(* Theorems about LaneScheduler, for every batch size, reserve and set of  *)
(* item lengths, and queues of any length.  A batch is described by the    *)
(* numbers of items it takes from the lanes (Composed); what the passes    *)
(* and the credits promise follows from that description.                  *)
(***************************************************************************)
EXTENDS LaneScheduler, SequenceTheorems, SumLemmas, TLAPS

-----------------------------------------------------------------------------
(* Sums of bytes.                                                            *)

LEMMA MaxOfInterval ==
  \A n \in Nat : \A s \in SUBSET (1..n) : s # {} =>
    /\ Max(s) \in s
    /\ \A y \in s : y <= Max(s)
<1> DEFINE T == {n \in Nat : \A s \in SUBSET (1..n) : s # {} => \E x \in s : \A y \in s : x >= y}
<1>1. 0 \in T
  <2>1. \A s \in SUBSET (1..0) : s = {}
    BY SMT
  <2> QED
    BY <2>1, Zenon
<1>2. ASSUME NEW n \in Nat, n \in T PROVE n + 1 \in T
  <2>1. SUFFICES ASSUME NEW s \in SUBSET (1..(n + 1)), s # {}
                 PROVE  \E x \in s : \A y \in s : x >= y
    OBVIOUS
  <2>2. CASE n + 1 \in s
    BY <2>1, <2>2
  <2>3. CASE n + 1 \notin s
    <3>1. s \in SUBSET (1..n)
      BY <2>1, <2>3
    <3> QED
      BY <1>2, <2>1, <3>1
  <2> QED
    BY <2>2, <2>3
<1>3. \A n \in Nat : n \in T
  <2> HIDE DEF T
  <2> QED
    BY <1>1, <1>2, Induction
<1>4. SUFFICES ASSUME NEW n \in Nat, NEW s \in SUBSET (1..n), s # {}
               PROVE  Max(s) \in s /\ \A y \in s : y <= Max(s)
  OBVIOUS
<1>5. \E x \in s : \A y \in s : x >= y
  BY <1>3, <1>4
<1>6. Max(s) \in s /\ \A y \in s : Max(s) >= y
  BY <1>5, Zenon DEF Max
<1> QED
  BY <1>4, <1>6

\* The recursion of a fold: what it says of a function of the sets of indices.
Sums(q, D, it) == it = [s \in SUBSET D |-> IF s = {} THEN 0 ELSE it[s \ {Max(s)}] + q[Max(s)]]

LEMMA SumsExist ==
  ASSUME NEW q
  PROVE  \A n \in Nat : \E it : Sums(q, 1..n, it)
<1> DEFINE T == {n \in Nat : \E it : Sums(q, 1..n, it)}
<1>1. 0 \in T
  <2>1. Sums(q, 1..0, [s \in SUBSET (1..0) |-> 0])
    <3>1. \A s \in SUBSET (1..0) : s = {}
      BY SMT
    <3> QED
      BY <3>1 DEF Sums
  <2> QED
    BY <2>1
<1>2. ASSUME NEW n \in Nat, n \in T PROVE n + 1 \in T
  <2>1. PICK g : g = [s \in SUBSET (1..n) |-> IF s = {} THEN 0 ELSE g[s \ {Max(s)}] + q[Max(s)]]
    BY <1>2 DEF Sums
  <2>2. PICK h : h = [s \in SUBSET (1..(n + 1)) |->
                        IF s = {} THEN 0 ELSE g[s \ {Max(s)}] + q[Max(s)]]
    OBVIOUS
  <2>3. ASSUME NEW s \in SUBSET (1..(n + 1)), s # {} PROVE h[s \ {Max(s)}] = g[s \ {Max(s)}]
    <3>1. Max(s) \in s /\ \A y \in s : y <= Max(s)
      <4>1. n + 1 \in Nat
        OBVIOUS
      <4> QED
        BY <2>3, <4>1, MaxOfInterval
    <3>2. PICK t : t = s \ {Max(s)}
      OBVIOUS
    <3>3. t \in SUBSET (1..n)
      <4>1. SUFFICES ASSUME NEW y \in t PROVE y \in 1..n
        BY Zenon
      <4>2. y \in s /\ y # Max(s)
        BY <3>2
      <4>3. y \in 1..(n + 1) /\ Max(s) \in 1..(n + 1) /\ y <= Max(s)
        BY <3>1, <4>2
      <4>4. PICK m : m = Max(s)
        OBVIOUS
      <4> QED
        BY <4>2, <4>3, <4>4
    <3>4. t \in SUBSET (1..(n + 1))
      BY <3>2
    <3>5. g[t] = IF t = {} THEN 0 ELSE g[t \ {Max(t)}] + q[Max(t)]
      BY <2>1, <3>3
    <3>6. h[t] = IF t = {} THEN 0 ELSE g[t \ {Max(t)}] + q[Max(t)]
      BY <2>2, <3>4
    <3> QED
      BY <3>2, <3>5, <3>6
  <2>4. h = [s \in SUBSET (1..(n + 1)) |->
               IF s = {} THEN 0 ELSE h[s \ {Max(s)}] + q[Max(s)]]
    BY <2>2, <2>3, Zenon
  <2>5. Sums(q, 1..(n + 1), h)
    BY <2>4 DEF Sums
  <2> QED
    BY <2>5
<1>3. \A n \in Nat : n \in T
  <2> HIDE DEF T
  <2> QED
    BY <1>1, <1>2, Induction
<1> QED
  BY <1>3

\* The fold is one of these functions.
LEMMA BytesAreSums ==
  ASSUME NEW q \in Seq(Nat)
  PROVE  \E it : Sums(q, 1..Len(q), it) /\ Bytes(q) = it[1..Len(q)]
<1>1. DOMAIN q = 1..Len(q) /\ Len(q) \in Nat
  BY LenProperties
<1>2. PICK it : it = CHOOSE f : f = [s \in SUBSET (1..Len(q)) |->
                                       IF s = {} THEN 0 ELSE f[s \ {Max(s)}] + q[Max(s)]]
  OBVIOUS
<1>3. Bytes(q) = it[1..Len(q)]
  BY <1>1, <1>2 DEF Bytes, FoldLeft, MapThenFoldSet
<1>4. \E f : f = [s \in SUBSET (1..Len(q)) |-> IF s = {} THEN 0 ELSE f[s \ {Max(s)}] + q[Max(s)]]
  BY <1>1, SumsExist DEF Sums
<1>5. Sums(q, 1..Len(q), it)
  BY <1>2, <1>4, Zenon DEF Sums
<1> QED
  BY <1>3, <1>5

\* The bytes of the first items of a sequence, one item after another.
Running(q, f) ==
  /\ f \in [0..Len(q) -> Nat]
  /\ f[0] = 0
  /\ \A k \in 1..Len(q) : f[k] = f[k - 1] + q[k]

LEMMA RunningExists ==
  ASSUME NEW q \in Seq(Nat)
  PROVE  \E f : Running(q, f) /\ f[Len(q)] = Bytes(q)
<1>1. PICK it : Sums(q, 1..Len(q), it) /\ Bytes(q) = it[1..Len(q)]
  BY BytesAreSums
<1>2. PICK n \in Nat : n = Len(q)
  BY LenProperties
<1>3. \A k \in 1..n : q[k] \in Nat
  BY <1>2, ElementOfSeq
<1>4. it[1..0] = 0
  <2>1. 1..0 = {}
    BY SMT
  <2>2. it[{}] = 0
    <3>1. {} \in SUBSET (1..Len(q))
      BY Zenon
    <3> QED
      BY <1>1, <3>1 DEF Sums
  <2> QED
    BY <2>1, <2>2
<1>5. ASSUME NEW k \in 1..n PROVE it[1..k] = it[1..(k - 1)] + q[k]
  <2>1. k \in Nat /\ 1..k \in SUBSET (1..k) /\ 1..k # {} /\ k \in 1..k
    <3>1. k \in Nat /\ k \in 1..k
      BY <1>2, SMT
    <3>2. 1..k \in SUBSET (1..k)
      BY Zenon
    <3> QED
      BY <3>1, <3>2, Zenon
  <2>2. Max(1..k) \in 1..k /\ \A y \in 1..k : y <= Max(1..k)
    BY <2>1, MaxOfInterval
  <2>3. PICK m : m = Max(1..k)
    OBVIOUS
  <2>4. m = k
    BY <2>1, <2>2, <2>3
  <2>5. (1..k) \ {k} = 1..(k - 1)
    OBVIOUS
  <2>6. 1..k \in SUBSET (1..Len(q))
    BY <1>2
  <2>7. it[1..k] = it[(1..k) \ {m}] + q[m]
    BY <1>1, <2>1, <2>3, <2>6 DEF Sums
  <2> QED
    BY <2>4, <2>5, <2>7
<1> DEFINE f == [k \in 0..n |-> it[1..k]]
           T == {k \in Nat : k \in 0..n => it[1..k] \in Nat}
<1>6. 0 \in T
  BY <1>4
<1>7. ASSUME NEW k \in Nat, k \in T PROVE k + 1 \in T
  <2>1. SUFFICES ASSUME k + 1 \in 0..n PROVE it[1..(k + 1)] \in Nat
    OBVIOUS
  <2>2. it[1..k] \in Nat
    BY <1>7, <2>1
  <2>3. k + 1 \in 1..n /\ (k + 1) - 1 = k
    BY <2>1
  <2>4. it[1..(k + 1)] = it[1..k] + q[k + 1]
    BY <1>5, <2>3
  <2>5. q[k + 1] \in Nat
    BY <1>3, <2>3
  <2> QED
    BY <2>2, <2>4, <2>5
<1>8. \A k \in Nat : k \in T
  <2> HIDE DEF T
  <2> QED
    BY <1>6, <1>7, Induction
<1>9. f \in [0..n -> Nat]
  BY <1>8
<1>10. \A k \in 1..n : f[k] = f[k - 1] + q[k]
  BY <1>5
<1>11. f[0] = 0 /\ f[n] = Bytes(q)
  BY <1>1, <1>2, <1>4
<1> HIDE DEF f
<1>12. Running(q, f)
  BY <1>2, <1>9, <1>10, <1>11 DEF Running
<1> QED
  BY <1>2, <1>11, <1>12

\* There is one such function, and it ends with the bytes of the sequence.
LEMMA RunningBytes ==
  ASSUME NEW q \in Seq(Nat), NEW f, Running(q, f)
  PROVE  f[Len(q)] = Bytes(q)
<1>1. PICK g : Running(q, g) /\ g[Len(q)] = Bytes(q)
  BY RunningExists
<1>2. PICK n \in Nat : n = Len(q)
  BY LenProperties
<1> DEFINE T == {k \in Nat : k \in 0..n => f[k] = g[k]}
<1>3. 0 \in T
  BY <1>1 DEF Running
<1>4. ASSUME NEW k \in Nat, k \in T PROVE k + 1 \in T
  <2>1. SUFFICES ASSUME k + 1 \in 0..n PROVE f[k + 1] = g[k + 1]
    OBVIOUS
  <2>2. f[k] = g[k]
    BY <1>4, <2>1
  <2>3. k + 1 \in 1..n /\ (k + 1) - 1 = k
    BY <2>1
  <2>4. f[k + 1] = f[k] + q[k + 1]
    BY <1>2, <2>3 DEF Running
  <2>5. g[k + 1] = g[k] + q[k + 1]
    BY <1>1, <1>2, <2>3 DEF Running
  <2> QED
    BY <2>2, <2>4, <2>5
<1>5. \A k \in Nat : k \in T
  <2> HIDE DEF T
  <2> QED
    BY <1>3, <1>4, Induction
<1>6. f[n] = g[n]
  BY <1>5
<1> QED
  BY <1>1, <1>2, <1>6

LEMMA BytesType ==
  ASSUME NEW q \in Seq(Nat)
  PROVE  Bytes(q) \in Nat
<1>1. PICK f : Running(q, f) /\ f[Len(q)] = Bytes(q)
  BY RunningExists
<1>2. Len(q) \in 0..Len(q)
  BY LenProperties
<1> QED
  BY <1>1, <1>2 DEF Running

\* A longer prefix holds no less.
LEMMA RunningGrows ==
  ASSUME NEW q \in Seq(Nat), NEW f, Running(q, f)
  PROVE  \A i, j \in 0..Len(q) : i <= j => f[i] <= f[j]
<1>1. PICK n \in Nat : n = Len(q)
  BY LenProperties
<1>2. \A k \in 0..n : f[k] \in Nat
  BY <1>1 DEF Running
<1>3. \A k \in 1..n : q[k] \in Nat
  BY <1>1, ElementOfSeq
<1> DEFINE T == {d \in Nat : \A i \in 0..n : i + d \in 0..n => f[i] <= f[i + d]}
<1>4. 0 \in T
  BY <1>2
<1>5. ASSUME NEW d \in Nat, d \in T PROVE d + 1 \in T
  <2>1. SUFFICES ASSUME NEW i \in 0..n, i + (d + 1) \in 0..n
                 PROVE  f[i] <= f[i + (d + 1)]
    OBVIOUS
  <2>2. PICK k \in Int : k = i + (d + 1)
    OBVIOUS
  <2>3. k \in 1..n /\ k - 1 = i + d /\ i + d \in 0..n
    BY <2>1, <2>2
  <2>4. f[k] = f[k - 1] + q[k]
    BY <1>1, <2>3 DEF Running
  <2>5. f[i] <= f[k - 1]
    BY <1>5, <2>3
  <2>6. f[i] \in Nat /\ f[k] \in Nat /\ q[k] \in Nat /\ f[k - 1] \in Nat
    BY <1>2, <1>3, <2>3
  <2> QED
    BY <2>2, <2>4, <2>5, <2>6
<1>6. \A d \in Nat : d \in T
  <2> HIDE DEF T
  <2> QED
    BY <1>4, <1>5, Induction
<1>7. SUFFICES ASSUME NEW i \in 0..n, NEW j \in 0..n, i <= j PROVE f[i] <= f[j]
  BY <1>1
<1>8. j - i \in Nat /\ i + (j - i) = j
  BY <1>7
<1> QED
  BY <1>6, <1>8

\* A running function of a sequence is one of each of its prefixes.
LEMMA BytesOfPrefix ==
  ASSUME NEW q \in Seq(Nat), NEW f, Running(q, f)
  PROVE  \A k \in 0..Len(q) : Bytes(SubSeq(q, 1, k)) = f[k]
<1>1. PICK n \in Nat : n = Len(q)
  BY LenProperties
<1>2. SUFFICES ASSUME NEW k \in 0..n PROVE Bytes(SubSeq(q, 1, k)) = f[k]
  BY <1>1
<1>3. PICK p : p = SubSeq(q, 1, k)
  OBVIOUS
<1>4. p \in Seq(Nat) /\ Len(p) = k /\ \A i \in 1..k : p[i] = q[i]
  BY <1>1, <1>2, <1>3
<1> DEFINE g == [i \in 0..k |-> f[i]]
<1>5. g \in [0..k -> Nat] /\ g[0] = 0 /\ g[k] = f[k]
  <2>1. f[0] = 0 /\ \A i \in 0..n : f[i] \in Nat
    BY <1>1 DEF Running
  <2>2. 0 \in 0..k /\ k \in 0..k /\ \A i \in 0..k : i \in 0..n
    BY SMT
  <2> QED
    BY <2>1, <2>2
<1>6. \A i \in 1..k : g[i] = g[i - 1] + q[i]
  <2>1. \A i \in 1..n : f[i] = f[i - 1] + q[i]
    BY <1>1 DEF Running
  <2>2. \A i \in 1..k : i \in 1..n /\ i \in 0..k /\ i - 1 \in 0..k
    BY SMT
  <2> QED
    BY <2>1, <2>2
<1> HIDE DEF g
<1>7. Running(p, g)
  BY <1>4, <1>5, <1>6 DEF Running
<1>8. g[Len(p)] = Bytes(p)
  BY <1>4, <1>7, RunningBytes
<1> QED
  BY <1>3, <1>4, <1>5, <1>8

LEMMA BytesEmpty == Bytes(<<>>) = 0
<1>1. PICK q : q = <<>>
  OBVIOUS
<1>0. q \in Seq(Nat) /\ Len(q) = 0
  <2>1. <<>> \in Seq(Nat) /\ Len(<<>>) = 0
    OBVIOUS
  <2> QED
    BY <1>1, <2>1
<1>2. PICK f : Running(q, f) /\ f[Len(q)] = Bytes(q)
  BY <1>0, RunningExists
<1>3. f[0] = 0
  BY <1>2 DEF Running
<1> QED
  BY <1>0, <1>1, <1>2, <1>3

LEMMA BytesConcat ==
  ASSUME NEW p \in Seq(Nat), NEW q \in Seq(Nat)
  PROVE  Bytes(p \o q) = Bytes(p) + Bytes(q)
<1>1. PICK m \in Nat, n \in Nat : m = Len(p) /\ n = Len(q)
  BY LenProperties
<1>2. PICK f : Running(p, f) /\ f[Len(p)] = Bytes(p)
  BY RunningExists
<1>3. PICK g : Running(q, g) /\ g[Len(q)] = Bytes(q)
  BY RunningExists
<1>4. PICK r : r = p \o q
  OBVIOUS
<1>5. r \in Seq(Nat) /\ Len(r) = m + n
  BY <1>1, <1>4
<1>6. /\ \A k \in 1..m : r[k] = p[k]
      /\ \A k \in 1..n : r[m + k] = q[k]
  BY <1>1, <1>4
<1>7. /\ f[0] = 0 /\ g[0] = 0
      /\ \A k \in 0..m : f[k] \in Nat
      /\ \A k \in 0..n : g[k] \in Nat
  BY <1>1, <1>2, <1>3 DEF Running
<1>8. /\ \A k \in 1..m : f[k] = f[k - 1] + p[k]
      /\ \A k \in 1..n : g[k] = g[k - 1] + q[k]
  BY <1>1, <1>2, <1>3 DEF Running
<1>9. \A k \in 1..n : q[k] \in Nat
  BY <1>1, ElementOfSeq
<1> DEFINE h == [k \in 0..(m + n) |-> IF k <= m THEN f[k] ELSE f[m] + g[k - m]]
<1>10. h \in [0..(m + n) -> Nat]
  <2>1. SUFFICES ASSUME NEW k \in 0..(m + n) PROVE h[k] \in Nat
    OBVIOUS
  <2>2. CASE k <= m
    BY <1>7, <2>2
  <2>3. CASE k > m
    <3>1. k - m \in 0..n /\ m \in 0..m /\ ~ (k <= m)
      BY <2>3
    <3> QED
      BY <1>7, <3>1
  <2> QED
    BY <2>2, <2>3
<1>11. ASSUME NEW k \in 1..(m + n) PROVE h[k] = h[k - 1] + r[k]
  <2>1. CASE k <= m
    BY <1>6, <1>8, <2>1
  <2>2. CASE k = m + 1
    <3>1. 1 \in 1..n /\ m \in 0..m /\ ~ (k <= m) /\ k - m = 1 /\ k - 1 = m
      BY <2>2
    <3>2. h[k] = f[m] + g[1] /\ h[k - 1] = f[m]
      BY <3>1
    <3>3. g[1] = g[1 - 1] + q[1] /\ r[m + 1] = q[1] /\ q[1] \in Nat
      BY <1>6, <1>8, <1>9, <3>1
    <3> QED
      BY <1>7, <2>2, <3>1, <3>2, <3>3
  <2>3. CASE k > m + 1
    <3>1. PICK j \in 2..n : j = k - m
      BY <2>3
    <3>2. h[k] = f[m] + g[j] /\ h[k - 1] = f[m] + g[j - 1]
      <4>1. ~ (k <= m) /\ ~ (k - 1 <= m) /\ (k - 1) - m = j - 1 /\ k - 1 \in 0..(m + n)
        BY <2>3, <3>1
      <4> QED
        BY <3>1, <4>1
    <3>3. g[j] = g[j - 1] + q[j] /\ r[m + j] = q[j] /\ q[j] \in Nat /\ g[j - 1] \in Nat
      BY <1>6, <1>7, <1>8, <1>9, <3>1
    <3>4. m + j = k /\ f[m] \in Nat
      BY <1>7, <3>1
    <3>5. r[k] = q[j]
      BY <3>3, <3>4
    <3>6. PICK u, w : u = g[j - 1] /\ w = q[j]
      OBVIOUS
    <3>7. h[k] = f[m] + (u + w) /\ h[k - 1] = f[m] + u
      BY <3>2, <3>3, <3>6
    <3> HIDE DEF h
    <3>8. u \in Nat /\ w \in Nat /\ r[k] = w
      BY <3>3, <3>5, <3>6
    <3> QED
      BY <3>4, <3>7, <3>8
  <2> QED
    BY <2>1, <2>2, <2>3
<1>12. h[0] = 0
  BY <1>7
<1>13. h[m + n] = f[m] + g[n]
  <2>1. CASE n = 0
    BY <1>7, <2>1
  <2>2. CASE n # 0
    <3>1. ~ (m + n <= m) /\ (m + n) - m = n
      BY <2>2
    <3> QED
      BY <3>1
  <2> QED
    BY <2>1, <2>2
<1> HIDE DEF h
<1>14. Running(r, h)
  BY <1>5, <1>10, <1>11, <1>12 DEF Running
<1>15. h[Len(r)] = Bytes(r)
  BY <1>5, <1>14, RunningBytes
<1> QED
  BY <1>1, <1>2, <1>3, <1>4, <1>5, <1>13, <1>15

LEMMA BytesHead ==
  ASSUME NEW q \in Seq(Nat), q # <<>>
  PROVE  Bytes(SubSeq(q, 1, 1)) = Head(q)
<1>1. PICK f : Running(q, f) /\ f[Len(q)] = Bytes(q)
  BY RunningExists
<1>2. PICK n \in Nat : n = Len(q)
  BY LenProperties
<1>3. n # 0
  BY <1>2, EmptySeq
<1>4. f[1] = f[1 - 1] + q[1] /\ f[0] = 0 /\ q[1] \in Nat
  BY <1>1, <1>2, <1>3, ElementOfSeq DEF Running
<1>5. Bytes(SubSeq(q, 1, 1)) = f[1]
  BY <1>1, <1>2, <1>3, BytesOfPrefix
<1>6. Head(q) = q[1]
  OBVIOUS
<1> QED
  BY <1>4, <1>5, <1>6

\* Fitting counts the longest prefix that fits.
LEMMA FittingIsLongest ==
  ASSUME NEW q \in Seq(Nat), NEW b \in Nat, NEW c \in Nat
  PROVE  /\ Fitting(q, b, c) \in 0..Len(q)
         /\ Fitting(q, b, c) > 0 => b + Bytes(SubSeq(q, 1, Fitting(q, b, c))) <= c
         /\ Fitting(q, b, c) < Len(q) =>
              b + Bytes(SubSeq(q, 1, Fitting(q, b, c) + 1)) > c
<1>1. PICK n \in Nat : n = Len(q) /\ DOMAIN q = 1..n
  BY LenProperties
<1>2. PICK f : Running(q, f) /\ f[Len(q)] = Bytes(q)
  BY RunningExists
<1>3. \A k \in 0..n : Bytes(SubSeq(q, 1, k)) = f[k] /\ f[k] \in Nat
  BY <1>1, <1>2, BytesOfPrefix DEF Running
<1>4. \A i, j \in 0..n : i <= j => f[i] <= f[j]
  BY <1>1, <1>2, RunningGrows
<1>5. PICK s : s = {k \in 1..n : b + f[k] <= c}
  OBVIOUS
<1>6. {k \in DOMAIN q : b + Bytes(SubSeq(q, 1, k)) <= c} = s
  BY <1>1, <1>3, <1>5
<1>7. PICK m \in 0..n : s = 1..m
  <2>1. CASE s = {}
    <3>1. 1..0 = {} /\ 0 \in 0..n
      OBVIOUS
    <3>2. s = 1..0
      BY <2>1, <3>1
    <3> QED
      BY <3>1, <3>2, Zenon
  <2>2. CASE s # {}
    <3>1. s \in SUBSET (1..n)
      BY <1>5
    <3>2. Max(s) \in s /\ \A y \in s : y <= Max(s)
      BY <2>2, <3>1, MaxOfInterval
    <3>3. PICK m \in 1..n : m = Max(s)
      BY <3>1, <3>2
    <3>4. m \in s /\ \A y \in s : y <= m
      BY <3>2, <3>3
    <3>5. b + f[m] <= c
      BY <1>5, <3>4
    <3>6. \A k \in 1..m : k \in s
      <4>1. SUFFICES ASSUME NEW k \in 1..m PROVE b + f[k] <= c
        BY <1>5
      <4>2. f[k] <= f[m] /\ f[k] \in Nat /\ f[m] \in Nat
        BY <1>3, <1>4
      <4> QED
        BY <3>5, <4>2
    <3>7. \A k \in s : k \in 1..m
      BY <3>1, <3>4
    <3>8. s = 1..m
      BY <3>6, <3>7, Zenon
    <3>9. m \in 0..n
      OBVIOUS
    <3> QED
      BY <3>8, <3>9, Zenon
  <2> QED
    BY <2>1, <2>2
<1>8. Cardinality(1..m) = m
  BY FS_Interval
<1>9. Fitting(q, b, c) = m
  BY <1>6, <1>7, <1>8 DEF Fitting
<1>10. m > 0 => b + f[m] <= c
  BY <1>5, <1>7
<1>11. m < n => b + f[m + 1] > c
  <2>1. SUFFICES ASSUME m < n PROVE b + f[m + 1] > c
    OBVIOUS
  <2>2. m + 1 \in 1..n /\ m + 1 \notin s
    BY <1>7, <2>1
  <2>3. f[m + 1] \in Nat /\ ~ (b + f[m + 1] <= c)
    BY <1>3, <1>5, <2>2
  <2> QED
    BY <2>3
<1> QED
  <2>1. m > 0 => b + Bytes(SubSeq(q, 1, m)) <= c
    BY <1>3, <1>10
  <2>2. m < n => b + Bytes(SubSeq(q, 1, m + 1)) > c
    BY <1>3, <1>11
  <2> QED
    BY <1>1, <1>9, <2>1, <2>2

-----------------------------------------------------------------------------
(* A batch: how many items of each lane it takes.                           *)

\* What lane l gives to a batch that takes its first k items.
First(q, l, k) == Bytes(SubSeq(q[l], 1, k))

\* Draft d has taken n[l] items from each lane l of q.
Cut(q, d, n) ==
  /\ n \in [Lane -> Nat]
  /\ d.bytes \in Nat
  /\ d.queue \in [Lane -> Seq(Nat)]
  /\ \A l \in Lane : /\ n[l] <= Len(q[l])
                     /\ d.queue[l] = SubSeq(q[l], n[l] + 1, Len(q[l]))
  /\ d.bytes = First(q, 1, n[1]) + First(q, 2, n[2]) + First(q, 3, n[3])

\* From d to e lane l alone has given items, as many as fit under the ceiling.
Topped(q, d, n, e, m, l, ceiling) ==
  /\ \A k \in Lane : k # l => m[k] = n[k]
  /\ m[l] >= n[l]
  /\ e.bytes >= d.bytes
  /\ m[l] = n[l] => e.bytes = d.bytes
  /\ m[l] > n[l] => e.bytes <= ceiling
  /\ m[l] < Len(q[l]) => e.bytes + q[l][m[l] + 1] > ceiling

LEMMA Suffix ==
  ASSUME NEW q \in Seq(Nat), NEW a \in 0..Len(q)
  PROVE  /\ SubSeq(q, a + 1, Len(q)) \in Seq(Nat)
         /\ Len(SubSeq(q, a + 1, Len(q))) = Len(q) - a
         /\ \A i \in 1..(Len(q) - a) : SubSeq(q, a + 1, Len(q))[i] = q[a + i]
  BY LenProperties

LEMMA Joined ==
  ASSUME NEW x \in Seq(Nat), NEW y \in Seq(Nat)
  PROVE  /\ x \o y \in Seq(Nat)
         /\ Len(x \o y) = Len(x) + Len(y)
         /\ \A i \in 1..Len(x) : (x \o y)[i] = x[i]
         /\ \A i \in 1..Len(y) : (x \o y)[Len(x) + i] = y[i]
<1>1. PICK m \in Nat, n \in Nat : m = Len(x) /\ n = Len(y)
  BY LenProperties
<1>2. /\ x \o y \in Seq(Nat)
      /\ Len(x \o y) = m + n
      /\ \A i \in 1..m : (x \o y)[i] = x[i]
      /\ \A i \in 1..n : (x \o y)[m + i] = y[i]
  BY <1>1
<1> QED
  BY <1>1, <1>2

LEMMA RestOfSeq ==
  ASSUME NEW q \in Seq(Nat), NEW a \in 0..Len(q), NEW b \in 0..(Len(q) - a),
         NEW r, r = SubSeq(q, a + 1, Len(q))
  PROVE  /\ r \in Seq(Nat)
         /\ Len(r) = Len(q) - a
         /\ SubSeq(r, b + 1, Len(r)) = SubSeq(q, a + b + 1, Len(q))
         /\ b < Len(r) => r[b + 1] = q[a + b + 1]
         /\ Bytes(SubSeq(q, 1, a + b)) = Bytes(SubSeq(q, 1, a)) + Bytes(SubSeq(r, 1, b))
<1>1. PICK n \in Nat : n = Len(q)
  BY LenProperties
<1>2. /\ r \in Seq(Nat)
      /\ Len(r) = n - a
      /\ \A i \in 1..(n - a) : r[i] = q[a + i]
  BY <1>1
<1>3. b < Len(r) => r[b + 1] = q[a + b + 1]
  <2>1. SUFFICES ASSUME b < Len(r) PROVE r[b + 1] = q[a + b + 1]
    OBVIOUS
  <2>2. b + 1 \in 1..(n - a) /\ a + (b + 1) = a + b + 1
    BY <1>1, <1>2, <2>1
  <2>3. r[b + 1] = q[a + (b + 1)]
    BY <1>2, <2>2
  <2> QED
    BY <2>2, <2>3
<1>4. SubSeq(r, b + 1, Len(r)) = SubSeq(q, a + b + 1, Len(q))
  <2>1. PICK x, y : x = SubSeq(r, b + 1, n - a) /\ y = SubSeq(q, a + b + 1, n)
    OBVIOUS
  <2>2. x \in Seq(Nat) /\ Len(x) = n - a - b /\ \A i \in 1..(n - a - b) : x[i] = r[b + i]
    BY <1>1, <1>2, <2>1
  <2>3. y \in Seq(Nat) /\ Len(y) = n - a - b /\ \A i \in 1..(n - a - b) : y[i] = q[a + b + i]
    <3>1. PICK k \in 0..n : k = a + b
      BY <1>1
    <3>2. /\ SubSeq(q, k + 1, n) \in Seq(Nat)
          /\ Len(SubSeq(q, k + 1, n)) = n - k
          /\ \A i \in 1..(n - k) : SubSeq(q, k + 1, n)[i] = q[k + i]
      BY <1>1, Suffix
    <3>3. y = SubSeq(q, k + 1, n) /\ n - k = n - a - b
      BY <1>1, <2>1, <3>1
    <3> QED
      BY <3>1, <3>2, <3>3
  <2>4. ASSUME NEW i \in 1..(n - a - b) PROVE x[i] = y[i]
    <3>1. b + i \in 1..(n - a) /\ a + (b + i) = a + b + i
      BY <1>1, <2>4
    <3>2. r[b + i] = q[a + (b + i)]
      BY <1>2, <3>1
    <3>3. x[i] = r[b + i] /\ y[i] = q[a + b + i]
      BY <2>2, <2>3, <2>4
    <3> QED
      BY <3>1, <3>2, <3>3
  <2>5. x = y
    BY <2>2, <2>3, <2>4, SeqEqual
  <2> QED
    BY <1>1, <1>2, <2>1, <2>5
<1>5. Bytes(SubSeq(q, 1, a + b)) = Bytes(SubSeq(q, 1, a)) + Bytes(SubSeq(r, 1, b))
  <2>1. PICK x, y, z : x = SubSeq(q, 1, a) /\ y = SubSeq(r, 1, b) /\ z = SubSeq(q, 1, a + b)
    OBVIOUS
  <2>2. x \in Seq(Nat) /\ Len(x) = a /\ \A i \in 1..a : x[i] = q[i]
    BY <1>1, <2>1
  <2>3. y \in Seq(Nat) /\ Len(y) = b /\ \A i \in 1..b : y[i] = r[i]
    BY <1>1, <1>2, <2>1
  <2>4. z \in Seq(Nat) /\ Len(z) = a + b /\ \A i \in 1..(a + b) : z[i] = q[i]
    BY <1>1, <2>1
  <2>5. PICK v : v = x \o y
    OBVIOUS
  <2>6. /\ v \in Seq(Nat) /\ Len(v) = a + b
        /\ \A i \in 1..a : v[i] = x[i]
        /\ \A i \in 1..b : v[a + i] = y[i]
    <3>1. /\ x \o y \in Seq(Nat)
          /\ Len(x \o y) = Len(x) + Len(y)
          /\ \A i \in 1..Len(x) : (x \o y)[i] = x[i]
          /\ \A i \in 1..Len(y) : (x \o y)[Len(x) + i] = y[i]
      BY <2>2, <2>3, Joined
    <3>2. Len(x) = a /\ Len(y) = b
      BY <2>2, <2>3
    <3> QED
      BY <2>5, <3>1, <3>2
  <2>7. ASSUME NEW i \in 1..(a + b) PROVE v[i] = z[i]
    <3>1. CASE i <= a
      <4>1. i \in 1..a
        BY <3>1
      <4> QED
        BY <2>2, <2>4, <2>6, <4>1
    <3>2. CASE ~ (i <= a)
      <4>1. i - a \in 1..b /\ i - a \in 1..(n - a) /\ a + (i - a) = i
        BY <1>1, <3>2
      <4>2. v[a + (i - a)] = y[i - a]
        BY <2>6, <4>1
      <4>3. y[i - a] = r[i - a] /\ r[i - a] = q[a + (i - a)] /\ z[i] = q[i]
        BY <1>2, <2>3, <2>4, <4>1
      <4> QED
        BY <4>1, <4>2, <4>3
    <3> QED
      BY <3>1, <3>2
  <2>8. v = z
    BY <2>4, <2>6, <2>7, SeqEqual
  <2>9. Bytes(v) = Bytes(x) + Bytes(y)
    BY <2>2, <2>3, <2>5, BytesConcat
  <2> QED
    BY <2>1, <2>8, <2>9
<1> QED
  BY <1>1, <1>2, <1>3, <1>4, <1>5

\* One more item adds its length.
LEMMA BytesNext ==
  ASSUME NEW q \in Seq(Nat), NEW k \in Nat, k < Len(q)
  PROVE  /\ Bytes(SubSeq(q, 1, k + 1)) = Bytes(SubSeq(q, 1, k)) + q[k + 1]
         /\ q[k + 1] \in Nat
<1>1. PICK f : Running(q, f) /\ f[Len(q)] = Bytes(q)
  BY RunningExists
<1>2. PICK n \in Nat : n = Len(q)
  BY LenProperties
<1>3. PICK j \in 1..n : j = k + 1 /\ j - 1 = k
  BY <1>2
<1>4. f[j] = f[j - 1] + q[j]
  BY <1>1, <1>2 DEF Running
<1>5. Bytes(SubSeq(q, 1, j)) = f[j] /\ Bytes(SubSeq(q, 1, k)) = f[k]
  BY <1>1, <1>2, <1>3, BytesOfPrefix
<1>6. q[j] \in Nat
  BY <1>2, ElementOfSeq
<1> QED
  BY <1>3, <1>4, <1>5, <1>6

LEMMA FirstType ==
  ASSUME NEW q \in [Lane -> Seq(Nat)], NEW l \in Lane, NEW k \in 0..Len(q[l])
  PROVE  First(q, l, k) \in Nat
<1>1. PICK s \in Seq(Nat) : s = q[l]
  OBVIOUS
<1>2. PICK n \in Nat : n = Len(s)
  BY LenProperties
<1>3. PICK p : p = SubSeq(s, 1, k)
  OBVIOUS
<1>4. p \in Seq(Nat)
  BY <1>1, <1>2, <1>3
<1>5. Bytes(p) \in Nat
  BY <1>4, BytesType
<1> QED
  BY <1>1, <1>3, <1>5 DEF First

\* What a fill does to a draft.
LEMMA FillCuts ==
  ASSUME NEW q \in [Lane -> Seq(Nat)], NEW d, NEW n, Cut(q, d, n),
         NEW l \in Lane, NEW c \in Nat, NEW e, e = Fill(d, l, c)
  PROVE  \E m : Cut(q, e, m) /\ Topped(q, d, n, e, m, l, c)
<1>0. n \in [Lane -> Nat] /\ d.bytes \in Nat /\ d.queue \in [Lane -> Seq(Nat)]
  BY DEF Cut
<1>1. PICK s \in Seq(Nat) : s = q[l]
  OBVIOUS
<1>R. PICK r : r = d.queue[l]
  OBVIOUS
<1>2. PICK a \in Nat, size \in Nat : a = n[l] /\ size = Len(s)
  BY LenProperties DEF Cut
<1>3. a <= size /\ r = SubSeq(s, a + 1, size)
  BY <1>1, <1>R, <1>2 DEF Cut
<1>4. r \in Seq(Nat) /\ Len(r) = size - a
  <2>1. a \in 0..Len(s) /\ 0 \in 0..(Len(s) - a)
    BY <1>2, <1>3
  <2>2. /\ r \in Seq(Nat)
        /\ Len(r) = Len(s) - a
    BY <1>2, <1>3, <2>1, RestOfSeq
  <2> QED
    BY <1>2, <2>2
<1>5. PICK b : b = Fitting(r, d.bytes, c)
  OBVIOUS
<1>6. /\ b \in 0..(size - a)
      /\ b > 0 => d.bytes + Bytes(SubSeq(r, 1, b)) <= c
      /\ b < size - a => d.bytes + Bytes(SubSeq(r, 1, b + 1)) > c
  <2>1. d.bytes \in Nat
    BY DEF Cut
  <2>2. /\ Fitting(r, d.bytes, c) \in 0..Len(r)
        /\ Fitting(r, d.bytes, c) > 0 =>
             d.bytes + Bytes(SubSeq(r, 1, Fitting(r, d.bytes, c))) <= c
        /\ Fitting(r, d.bytes, c) < Len(r) =>
             d.bytes + Bytes(SubSeq(r, 1, Fitting(r, d.bytes, c) + 1)) > c
    BY <1>4, <2>1, FittingIsLongest
  <2> QED
    BY <1>4, <1>5, <2>2
<1>7. PICK x : x = Bytes(SubSeq(r, 1, b))
  OBVIOUS
<1>8. /\ e.queue = [d.queue EXCEPT ![l] = SubSeq(r, b + 1, Len(r))]
      /\ e.bytes = d.bytes + x
  BY <1>1, <1>R, <1>5, <1>7 DEF Fill
<1>9. /\ SubSeq(r, b + 1, Len(r)) = SubSeq(s, a + b + 1, size)
      /\ b < size - a => r[b + 1] = s[a + b + 1]
      /\ Bytes(SubSeq(s, 1, a + b)) = Bytes(SubSeq(s, 1, a)) + x
  <2>1. a \in 0..Len(s) /\ b \in 0..(Len(s) - a) /\ r = SubSeq(s, a + 1, Len(s))
    BY <1>2, <1>3, <1>6
  <2>2. /\ r \in Seq(Nat)
        /\ Len(r) = Len(s) - a
        /\ SubSeq(r, b + 1, Len(r)) = SubSeq(s, a + b + 1, Len(s))
        /\ b < Len(r) => r[b + 1] = s[a + b + 1]
        /\ Bytes(SubSeq(s, 1, a + b)) = Bytes(SubSeq(s, 1, a)) + Bytes(SubSeq(r, 1, b))
    BY <2>1, RestOfSeq
  <2> QED
    BY <1>2, <1>7, <2>2
<1>10. b < size - a => /\ Bytes(SubSeq(r, 1, b + 1)) = x + r[b + 1]
                       /\ r[b + 1] \in Nat
  <2>1. SUFFICES ASSUME b < size - a
                 PROVE  /\ Bytes(SubSeq(r, 1, b + 1)) = x + r[b + 1]
                        /\ r[b + 1] \in Nat
    OBVIOUS
  <2>2. b \in Nat /\ b < Len(r)
    BY <1>4, <1>6, <2>1
  <2>3. /\ Bytes(SubSeq(r, 1, b + 1)) = Bytes(SubSeq(r, 1, b)) + r[b + 1]
        /\ r[b + 1] \in Nat
    BY <1>4, <2>2, BytesNext
  <2> QED
    BY <1>7, <2>3
<1>11. x \in Nat /\ (b = 0 => x = 0)
  <2>1. PICK t : t = SubSeq(r, 1, b)
    OBVIOUS
  <2>2. PICK z \in Nat : z = size - a
    BY <1>3
  <2>3. t \in Seq(Nat) /\ (b = 0 => t = <<>>)
    BY <1>4, <1>6, <2>1, <2>2
  <2> QED
    BY <1>7, <2>1, <2>3, BytesType, BytesEmpty
<1> DEFINE m == [n EXCEPT ![l] = a + b]
<1>12. /\ m \in [Lane -> Nat]
       /\ m[l] = a + b
       /\ \A k \in Lane : k # l => m[k] = n[k]
  <2>1. a + b \in Nat
    BY <1>2, <1>6
  <2> QED
    BY <1>0, <2>1
<1> HIDE DEF m
<1>13. Topped(q, d, n, e, m, l, c)
  <2>1. PICK y \in Nat : y = d.bytes
    BY DEF Cut
  <2>2. e.bytes = y + x
    BY <1>8, <2>1
  <2>3. m[l] >= n[l] /\ (m[l] = n[l] => b = 0) /\ (m[l] > n[l] => b > 0)
    BY <1>2, <1>6, <1>12
  <2>4. m[l] < Len(q[l]) => e.bytes + q[l][m[l] + 1] > c
    <3>1. SUFFICES ASSUME a + b < size PROVE y + x + s[a + b + 1] > c
      BY <1>1, <1>R, <1>2, <1>12, <2>2
    <3>2. b < size - a
      BY <1>6, <3>1
    <3>3. /\ y + Bytes(SubSeq(r, 1, b + 1)) > c
          /\ Bytes(SubSeq(r, 1, b + 1)) = x + r[b + 1]
          /\ r[b + 1] = s[a + b + 1]
          /\ r[b + 1] \in Nat
      BY <1>6, <1>9, <1>10, <2>1, <3>2
    <3> QED
      BY <1>11, <3>3
  <2>5. m[l] > n[l] => e.bytes <= c
    BY <1>6, <1>7, <2>1, <2>2, <2>3
  <2>6. m[l] = n[l] => e.bytes = d.bytes
    BY <1>11, <2>1, <2>2, <2>3
  <2>7. e.bytes >= d.bytes
    BY <1>11, <2>1, <2>2
  <2> QED
    BY <1>12, <2>3, <2>4, <2>5, <2>6, <2>7 DEF Topped
<1>14. Cut(q, e, m)
  <2>1. e.bytes \in Nat
    BY <1>0, <1>8, <1>11
  <2>2. SubSeq(r, b + 1, Len(r)) \in Seq(Nat)
    <3>1. b \in 0..Len(r)
      BY <1>4, <1>6
    <3> QED
      BY <1>4, <3>1, Suffix
  <2>3. d.queue \in [Lane -> Seq(Nat)]
    BY DEF Cut
  <2>4. /\ e.queue \in [Lane -> Seq(Nat)]
        /\ e.queue[l] = SubSeq(r, b + 1, Len(r))
        /\ \A k \in Lane : k # l => e.queue[k] = d.queue[k]
    BY <1>8, <2>2, <2>3
  <2>5. \A k \in Lane : /\ m[k] <= Len(q[k])
                        /\ e.queue[k] = SubSeq(q[k], m[k] + 1, Len(q[k]))
    <3>1. SUFFICES ASSUME NEW k \in Lane
                   PROVE  /\ m[k] <= Len(q[k])
                          /\ e.queue[k] = SubSeq(q[k], m[k] + 1, Len(q[k]))
      OBVIOUS
    <3>2. CASE k = l
      <4>1. m[l] <= Len(q[l])
        BY <1>1, <1>R, <1>2, <1>6, <1>12
      <4>2. e.queue[l] = SubSeq(s, a + b + 1, size)
        BY <1>9, <2>4
      <4>3. e.queue[l] = SubSeq(q[l], m[l] + 1, Len(q[l]))
        BY <1>1, <1>R, <1>2, <1>12, <4>2
      <4> QED
        BY <3>2, <4>1, <4>3
    <3>3. CASE k # l
      <4>1. m[k] = n[k] /\ e.queue[k] = d.queue[k]
        BY <1>12, <2>4, <3>3
      <4> QED
        BY <4>1 DEF Cut
    <3> QED
      BY <3>2, <3>3
  <2>6. e.bytes = First(q, 1, m[1]) + First(q, 2, m[2]) + First(q, 3, m[3])
    <3>1. \A k \in Lane : k # l => First(q, k, m[k]) = First(q, k, n[k])
      BY <1>12
    <3>2. First(q, l, m[l]) = First(q, l, n[l]) + x
      BY <1>1, <1>R, <1>2, <1>9, <1>12 DEF First
    <3>3. \A k \in Lane : First(q, k, n[k]) \in Nat
      <4>1. SUFFICES ASSUME NEW k \in Lane PROVE First(q, k, n[k]) \in Nat
        OBVIOUS
      <4>2. n[k] \in Nat /\ n[k] <= Len(q[k]) /\ Len(q[k]) \in Nat
        BY LenProperties DEF Cut
      <4>3. n[k] \in 0..Len(q[k])
        BY <4>2
      <4> QED
        BY <4>3, FirstType
    <3>4. d.bytes = First(q, 1, n[1]) + First(q, 2, n[2]) + First(q, 3, n[3])
      BY DEF Cut
    <3>5. e.bytes = d.bytes + x
      BY <1>8
    <3>6. 1 \in Lane /\ 2 \in Lane /\ 3 \in Lane /\ (l = 1 \/ l = 2 \/ l = 3)
      BY DEF Lane
    <3>7. PICK u \in Nat, v \in Nat, w \in Nat :
                 u = First(q, 1, n[1]) /\ v = First(q, 2, n[2]) /\ w = First(q, 3, n[3])
      BY <3>3, <3>6
    <3>8. e.bytes = u + v + w + x
      BY <3>4, <3>5, <3>7
    <3>9. CASE l = 1
      <4>1. First(q, 1, m[1]) = u + x /\ First(q, 2, m[2]) = v /\ First(q, 3, m[3]) = w
        BY <3>1, <3>2, <3>6, <3>7, <3>9
      <4> QED
        BY <1>11, <3>8, <4>1
    <3>10. CASE l = 2
      <4>1. First(q, 1, m[1]) = u /\ First(q, 2, m[2]) = v + x /\ First(q, 3, m[3]) = w
        BY <3>1, <3>2, <3>6, <3>7, <3>10
      <4> QED
        BY <1>11, <3>8, <4>1
    <3>11. CASE l = 3
      <4>1. First(q, 1, m[1]) = u /\ First(q, 2, m[2]) = v /\ First(q, 3, m[3]) = w + x
        BY <3>1, <3>2, <3>6, <3>7, <3>11
      <4> QED
        BY <1>11, <3>8, <4>1
    <3> QED
      BY <3>6, <3>9, <3>10, <3>11
  <2> QED
    BY <1>12, <2>1, <2>4, <2>5, <2>6 DEF Cut
<1> QED
  BY <1>13, <1>14

LEMMA AllowanceType == \A l \in Lane : Allowance(l) \in Nat /\ Allowance(l) >= 1
<1>1. SUFFICES ASSUME NEW l \in Lane PROVE Allowance(l) \in Nat /\ Allowance(l) >= 1
  OBVIOUS
<1>2. PICK x \in Int : x = (MaxBatch * Reserve[l]) \div 100
  <2>1. MaxBatch \in Nat /\ Reserve[l] \in Nat
    BY SchedulerAssumption
  <2> QED
    BY <2>1
<1>3. \E y \in {1, x} : \A z \in {1, x} : y >= z
  <2>1. CASE x >= 1
    BY <2>1
  <2>2. CASE ~ (x >= 1)
    BY <2>2
  <2> QED
    BY <2>1, <2>2
<1>4. Max({1, x}) \in {1, x} /\ \A z \in {1, x} : Max({1, x}) >= z
  BY <1>3, Zenon DEF Max
<1>5. Allowance(l) = Max({1, x})
  BY <1>2 DEF Allowance
<1>6. PICK a : a = Max({1, x})
  OBVIOUS
<1>7. a \in {1, x} /\ a >= 1
  BY <1>4, <1>6
<1> QED
  BY <1>5, <1>6, <1>7

LEMMA MinOfLanes ==
  \A s \in SUBSET Lane : s # {} => Min(s) \in s /\ \A y \in s : Min(s) <= y
<1>1. SUFFICES ASSUME NEW s \in SUBSET Lane, s # {}
               PROVE  Min(s) \in s /\ \A y \in s : Min(s) <= y
  OBVIOUS
<1>2. \A y \in s : y = 1 \/ y = 2 \/ y = 3
  BY DEF Lane
<1>3. \E x \in s : \A y \in s : x <= y
  <2>1. CASE 1 \in s
    BY <1>2, <2>1
  <2>2. CASE 1 \notin s /\ 2 \in s
    BY <1>2, <2>2
  <2>3. CASE 1 \notin s /\ 2 \notin s
    BY <1>1, <1>2, <2>3
  <2> QED
    BY <2>1, <2>2, <2>3
<1> QED
  BY <1>3, Zenon DEF Min

LEMMA SeedIsLeast ==
  ASSUME Busy # {}
  PROVE  /\ SeedLane \in Busy
         /\ Owed # {} => SeedLane \in Owed /\ \A l \in Owed : SeedLane <= l
         /\ Owed = {} => \A l \in Busy : SeedLane <= l
<1>1. Busy \in SUBSET Lane /\ Owed \in SUBSET Busy
  BY DEF Busy, Owed
<1>2. CASE Owed # {}
  <2>1. SeedLane = Min(Owed)
    BY <1>2 DEF SeedLane
  <2>2. Min(Owed) \in Owed /\ \A l \in Owed : Min(Owed) <= l
    BY <1>1, <1>2, MinOfLanes
  <2> QED
    BY <1>1, <1>2, <2>1, <2>2
<1>3. CASE Owed = {}
  <2>1. SeedLane = Min(Busy)
    BY <1>3 DEF SeedLane
  <2>2. Min(Busy) \in Busy /\ \A l \in Busy : Min(Busy) <= l
    BY <1>1, MinOfLanes
  <2> QED
    BY <1>3, <2>1, <2>2
<1> QED
  BY <1>2, <1>3

\* From d to e lane l alone has given items, up to its share ...
GaveShare(q, d, n, e, m, l) ==
  /\ \A k \in Lane : k # l => m[k] = n[k]
  /\ m[l] >= n[l]
  /\ d.bytes <= e.bytes /\ e.bytes <= d.bytes + Allowance(l)
  /\ m[l] = 0 /\ q[l] # <<>> =>
       d.bytes + q[l][1] > Least(d.bytes + Allowance(l), MaxBatch)

\* ... or as many as fit.
GaveRest(q, d, n, e, m, l) ==
  /\ \A k \in Lane : k # l => m[k] = n[k]
  /\ m[l] >= n[l]
  /\ d.bytes <= e.bytes
  /\ m[l] < Len(q[l]) => e.bytes + q[l][m[l] + 1] > MaxBatch

LEMMA ShareCuts ==
  ASSUME NEW q \in [Lane -> Seq(Nat)], NEW d, NEW n, Cut(q, d, n), NEW l \in Lane,
         NEW e, e = FillShare(d, l)
  PROVE  \E m : Cut(q, e, m) /\ GaveShare(q, d, n, e, m, l)
<1>1. PICK b \in Nat, a \in Nat : b = d.bytes /\ a = Allowance(l) /\ a >= 1
  BY AllowanceType DEF Cut
<1>2. PICK c \in Nat : c = Least(b + a, MaxBatch) /\ c <= b + a
  <2>1. MaxBatch \in Nat
    BY SchedulerAssumption
  <2> QED
    BY <1>1, <2>1 DEF Least
<1>3. e = Fill(d, l, c)
  BY <1>1, <1>2 DEF FillShare
<1>4. PICK m : Cut(q, e, m) /\ Topped(q, d, n, e, m, l, c)
  BY <1>3, FillCuts
<1>5. m[l] \in Nat /\ n[l] \in Nat /\ e.bytes \in Nat
  BY <1>4 DEF Cut
<1>6. e.bytes <= b + a
  <2>1. m[l] = n[l] => e.bytes = b
    BY <1>1, <1>4 DEF Topped
  <2>2. m[l] > n[l] => e.bytes <= c
    BY <1>4 DEF Topped
  <2>3. m[l] >= n[l]
    BY <1>4 DEF Topped
  <2> QED
    BY <1>2, <1>5, <2>1, <2>2, <2>3
<1>7. m[l] = 0 /\ q[l] # <<>> => b + q[l][1] > c
  <2>1. SUFFICES ASSUME m[l] = 0, q[l] # <<>> PROVE b + q[l][1] > c
    OBVIOUS
  <2>2. PICK s \in Seq(Nat) : s = q[l]
    OBVIOUS
  <2>3. 0 < Len(q[l])
    BY <2>1, <2>2, EmptySeq
  <2>4. m[l] >= n[l]
    BY <1>4 DEF Topped
  <2>5. n[l] = 0
    BY <1>5, <2>1, <2>4
  <2>6. e.bytes = b
    BY <1>1, <1>4, <2>1, <2>5 DEF Topped
  <2>7. e.bytes + q[l][m[l] + 1] > c
    BY <1>4, <2>1, <2>3 DEF Topped
  <2> QED
    BY <2>1, <2>6, <2>7
<1>8. \A k \in Lane : k # l => m[k] = n[k]
  BY <1>4 DEF Topped
<1>9. m[l] >= n[l] /\ d.bytes <= e.bytes
  <2>1. m[l] >= n[l] /\ e.bytes >= d.bytes
    BY <1>4 DEF Topped
  <2> QED
    BY <1>1, <1>5, <2>1
<1>10. GaveShare(q, d, n, e, m, l)
  BY <1>1, <1>2, <1>6, <1>7, <1>8, <1>9, Zenon DEF GaveShare
<1> QED
  BY <1>4, <1>10

LEMMA RestCuts ==
  ASSUME NEW q \in [Lane -> Seq(Nat)], NEW d, NEW n, Cut(q, d, n), NEW l \in Lane,
         NEW e, e = FillRest(d, l)
  PROVE  \E m : Cut(q, e, m) /\ GaveRest(q, d, n, e, m, l)
<1>1. MaxBatch \in Nat
  BY SchedulerAssumption
<1>2. e = Fill(d, l, MaxBatch)
  BY DEF FillRest
<1>3. PICK m : Cut(q, e, m) /\ Topped(q, d, n, e, m, l, MaxBatch)
  BY <1>1, <1>2, FillCuts
<1>4. e.bytes \in Nat /\ d.bytes \in Nat
  BY <1>3 DEF Cut
<1>5. e.bytes >= d.bytes
  BY <1>3 DEF Topped
<1>6. GaveRest(q, d, n, e, m, l)
  <2>1. d.bytes <= e.bytes
    BY <1>4, <1>5
  <2> QED
    BY <1>3, <2>1 DEF Topped, GaveRest
<1> QED
  BY <1>3, <1>6

\* When lane l gives nothing, its head exceeds its share after some b bytes:
\* the seed and no more than the shares above l.
Passed(q, s, n, l, above) ==
  n[l] = 0 /\ q[l] # <<>> =>
    \E b \in q[s][1]..(q[s][1] + above) :
      b + q[l][1] > Least(b + Allowance(l), MaxBatch)

\* A batch seeded from lane s takes n[l] items from each lane l, and ends as e.
Composed(q, s, e, n) ==
  /\ Cut(q, e, n)
  /\ n[s] >= 1
  /\ \A l \in Lane : n[l] < Len(q[l]) => e.bytes + q[l][n[l] + 1] > MaxBatch
  /\ Passed(q, s, n, 1, 0)
  /\ Passed(q, s, n, 2, Allowance(1))
  /\ Passed(q, s, n, 3, Allowance(1) + Allowance(2))

LEMMA SeedCuts ==
  ASSUME NEW q \in [Lane -> Seq(Nat)], NEW s \in Lane, q[s] # <<>>,
         NEW d, d = [queue |-> [q EXCEPT ![s] = Tail(@)], bytes |-> Head(q[s])]
  PROVE  \E n : /\ Cut(q, d, n)
                /\ n[s] = 1
                /\ d.bytes = q[s][1]
<1> DEFINE n == [l \in Lane |-> IF l = s THEN 1 ELSE 0]
<1>1. PICK t \in Seq(Nat) : t = q[s]
  OBVIOUS
<1>2. PICK size \in Nat : size = Len(t) /\ size >= 1
  BY <1>1, EmptySeq, LenProperties
<1>3. t[1] \in Nat /\ Head(t) = t[1] /\ Tail(t) = SubSeq(t, 2, size) /\ Tail(t) \in Seq(Nat)
  <2>1. t # <<>>
    BY <1>1
  <2>2. t[1] \in Nat
    BY <1>2, ElementOfSeq
  <2>3. Tail(t) = SubSeq(t, 2, size) /\ Tail(t) \in Seq(Nat)
    BY <1>2, <2>1, TailIsSubSeq, HeadTailProperties
  <2> QED
    BY <2>1, <2>2, <2>3
<1>4. n \in [Lane -> Nat] /\ n[s] = 1 /\ \A l \in Lane : l # s => n[l] = 0
  OBVIOUS
<1>5. /\ d.bytes = t[1]
      /\ d.queue \in [Lane -> Seq(Nat)]
      /\ d.queue[s] = SubSeq(t, 2, size)
      /\ \A l \in Lane : l # s => d.queue[l] = q[l]
  <2>1. d.bytes = t[1] /\ d.queue = [q EXCEPT ![s] = Tail(t)]
    BY <1>1, <1>3
  <2> QED
    BY <1>3, <2>1
<1> HIDE DEF n
<1>6. ASSUME NEW l \in Lane, l # s
      PROVE  /\ n[l] <= Len(q[l])
             /\ d.queue[l] = SubSeq(q[l], n[l] + 1, Len(q[l]))
             /\ First(q, l, n[l]) = 0
  <2>1. PICK r \in Seq(Nat) : r = q[l]
    OBVIOUS
  <2>2. Len(r) \in Nat /\ SubSeq(r, 1, Len(r)) = r
    BY LenProperties, SubSeqFull
  <2>3. SubSeq(r, 1, 0) = <<>>
    BY SubSeqEmpty
  <2>4. n[l] = 0 /\ d.queue[l] = r
    BY <1>4, <1>5, <1>6, <2>1
  <2>5. First(q, l, 0) = 0
    BY <2>1, <2>3, BytesEmpty DEF First
  <2> QED
    BY <2>1, <2>2, <2>4, <2>5
<1>7. First(q, s, n[s]) = t[1]
  <2>1. Bytes(SubSeq(t, 1, 1)) = Head(t)
    BY <1>1, BytesHead
  <2> QED
    BY <1>1, <1>3, <1>4, <2>1 DEF First
<1>8. \A l \in Lane : /\ n[l] <= Len(q[l])
                      /\ d.queue[l] = SubSeq(q[l], n[l] + 1, Len(q[l]))
  <2>1. SUFFICES ASSUME NEW l \in Lane
                 PROVE  /\ n[l] <= Len(q[l])
                        /\ d.queue[l] = SubSeq(q[l], n[l] + 1, Len(q[l]))
    OBVIOUS
  <2>2. CASE l = s
    BY <1>1, <1>2, <1>4, <1>5, <2>2
  <2>3. CASE l # s
    BY <1>6, <2>3
  <2> QED
    BY <2>2, <2>3
<1>9. d.bytes = First(q, 1, n[1]) + First(q, 2, n[2]) + First(q, 3, n[3])
  <2>1. 1 \in Lane /\ 2 \in Lane /\ 3 \in Lane /\ (s = 1 \/ s = 2 \/ s = 3)
    BY DEF Lane
  <2>2. \A l \in Lane : l # s => First(q, l, n[l]) = 0
    BY <1>6
  <2>3. PICK x \in Nat : x = t[1]
    BY <1>3
  <2>4. d.bytes = x /\ First(q, s, n[s]) = x
    BY <1>5, <1>7, <2>3
  <2>5. CASE s = 1
    <3>1. First(q, 1, n[1]) = x /\ First(q, 2, n[2]) = 0 /\ First(q, 3, n[3]) = 0
      BY <2>1, <2>2, <2>4, <2>5
    <3> QED
      BY <2>4, <3>1
  <2>6. CASE s = 2
    <3>1. First(q, 1, n[1]) = 0 /\ First(q, 2, n[2]) = x /\ First(q, 3, n[3]) = 0
      BY <2>1, <2>2, <2>4, <2>6
    <3> QED
      BY <2>4, <3>1
  <2>7. CASE s = 3
    <3>1. First(q, 1, n[1]) = 0 /\ First(q, 2, n[2]) = 0 /\ First(q, 3, n[3]) = x
      BY <2>1, <2>2, <2>4, <2>7
    <3> QED
      BY <2>4, <3>1
  <2> QED
    BY <2>1, <2>5, <2>6, <2>7
<1>10. Cut(q, d, n)
  BY <1>3, <1>4, <1>5, <1>8, <1>9 DEF Cut
<1> QED
  BY <1>1, <1>4, <1>5, <1>10

LEMMA OneLane ==
  ASSUME NEW n, NEW m, \A l \in Lane : n[l] \in Nat,
         NEW l \in Lane, m[l] >= n[l], \A k \in Lane : k # l => m[k] = n[k]
  PROVE  \A k \in Lane : m[k] >= n[k]
  OBVIOUS

LEMMA BatchCuts ==
  ASSUME NEW q \in [Lane -> Seq(Nat)], NEW s \in Lane, q[s] # <<>>,
         NEW d, d = [queue |-> [q EXCEPT ![s] = Tail(@)], bytes |-> Head(q[s])]
  PROVE  \E n : Composed(q, s, Filled(Shared(d)), n)
<1>0. 1 \in Lane /\ 2 \in Lane /\ 3 \in Lane /\ \A l \in Lane : l = 1 \/ l = 2 \/ l = 3
  BY DEF Lane
<1>1. PICK n : Cut(q, d, n) /\ n[s] = 1 /\ d.bytes = q[s][1]
  BY SeedCuts
<1>2. PICK d1, d2, d3 :
        d1 = FillShare(d, 1) /\ d2 = FillShare(d1, 2) /\ d3 = FillShare(d2, 3)
  OBVIOUS
<1>3. PICK d4, d5, d6 :
        d4 = FillRest(d3, 1) /\ d5 = FillRest(d4, 2) /\ d6 = FillRest(d5, 3)
  OBVIOUS
<1>4. PICK n1 : Cut(q, d1, n1) /\ GaveShare(q, d, n, d1, n1, 1)
  BY <1>0, <1>1, <1>2, ShareCuts
<1>5. PICK n2 : Cut(q, d2, n2) /\ GaveShare(q, d1, n1, d2, n2, 2)
  BY <1>0, <1>2, <1>4, ShareCuts
<1>6. PICK n3 : Cut(q, d3, n3) /\ GaveShare(q, d2, n2, d3, n3, 3)
  BY <1>0, <1>2, <1>5, ShareCuts
<1>7. PICK n4 : Cut(q, d4, n4) /\ GaveRest(q, d3, n3, d4, n4, 1)
  BY <1>0, <1>3, <1>6, RestCuts
<1>8. PICK n5 : Cut(q, d5, n5) /\ GaveRest(q, d4, n4, d5, n5, 2)
  BY <1>0, <1>3, <1>7, RestCuts
<1>9. PICK n6 : Cut(q, d6, n6) /\ GaveRest(q, d5, n5, d6, n6, 3)
  BY <1>0, <1>3, <1>8, RestCuts
<1>10. d6 = Filled(Shared(d))
  BY <1>2, <1>3 DEF Filled, Shared
<1>11. \A l \in Lane : n[l] \in Nat /\ n1[l] \in Nat /\ n2[l] \in Nat /\ n3[l] \in Nat
  BY <1>1, <1>4, <1>5, <1>6 DEF Cut
<1>12. \A l \in Lane : n4[l] \in Nat /\ n5[l] \in Nat /\ n6[l] \in Nat
  BY <1>7, <1>8, <1>9 DEF Cut
<1>13. PICK b0 \in Nat, b1 \in Nat, b2 \in Nat : b0 = d.bytes /\ b1 = d1.bytes /\ b2 = d2.bytes
  BY <1>1, <1>4, <1>5 DEF Cut
<1>14. PICK b4 \in Nat, b5 \in Nat, b6 \in Nat : b4 = d4.bytes /\ b5 = d5.bytes /\ b6 = d6.bytes
  BY <1>7, <1>8, <1>9 DEF Cut
<1>15. PICK a1 \in Nat, a2 \in Nat : a1 = Allowance(1) /\ a2 = Allowance(2)
  BY <1>0, AllowanceType
\* What each lane has given when the batch is full.
<1>17. /\ n4[2] = n3[2] /\ n4[3] = n3[3] /\ n4[1] >= n3[1]
       /\ n5[1] = n4[1] /\ n5[3] = n4[3] /\ n5[2] >= n4[2]
       /\ n6[1] = n5[1] /\ n6[2] = n5[2] /\ n6[3] >= n5[3]
  BY <1>0, <1>7, <1>8, <1>9 DEF GaveRest
<1>18. \A l \in Lane : n6[l] >= n[l] /\ n6[l] >= n1[l] /\ n6[l] >= n2[l] /\ n6[l] >= n3[l]
  <2>1. ASSUME NEW l \in Lane
        PROVE  n1[l] >= n[l] /\ n2[l] >= n1[l] /\ n3[l] >= n2[l]
    BY <1>0, <1>11, <1>4, <1>5, <1>6, OneLane DEF GaveShare
  <2>2. ASSUME NEW l \in Lane
        PROVE  n4[l] >= n3[l] /\ n5[l] >= n4[l] /\ n6[l] >= n5[l]
    BY <1>0, <1>11, <1>12, <1>7, <1>8, <1>9, OneLane DEF GaveRest
  <2>3. SUFFICES ASSUME NEW l \in Lane
                 PROVE  n6[l] >= n[l] /\ n6[l] >= n1[l] /\ n6[l] >= n2[l] /\ n6[l] >= n3[l]
    OBVIOUS
  <2>4. n[l] \in Nat /\ n1[l] \in Nat /\ n2[l] \in Nat /\ n3[l] \in Nat
    BY <1>11
  <2>5. n4[l] \in Nat /\ n5[l] \in Nat /\ n6[l] \in Nat
    BY <1>12
  <2> QED
    BY <2>1, <2>2, <2>4, <2>5
<1>19. n6[s] >= 1
  BY <1>1, <1>18
<1>20. /\ b0 <= b1 /\ b1 <= b0 + a1
       /\ b1 <= b2 /\ b2 <= b1 + a2
  BY <1>4, <1>5, <1>13, <1>15 DEF GaveShare
<1>21. b4 <= b5 /\ b5 <= b6
  BY <1>8, <1>9, <1>14 DEF GaveRest
<1>22. Passed(q, s, n6, 1, 0)
  <2>1. SUFFICES ASSUME n6[1] = 0, q[1] # <<>>
                 PROVE  b0 + q[1][1] > Least(b0 + Allowance(1), MaxBatch) /\ b0 \in b0..(b0 + 0)
    BY <1>1, <1>13 DEF Passed
  <2>2. n1[1] = 0
    BY <1>0, <1>11, <1>18, <2>1
  <2> QED
    BY <1>4, <1>13, <2>1, <2>2 DEF GaveShare
<1>23. Passed(q, s, n6, 2, Allowance(1))
  <2>1. SUFFICES ASSUME n6[2] = 0, q[2] # <<>>
                 PROVE  b1 + q[2][1] > Least(b1 + Allowance(2), MaxBatch) /\ b1 \in b0..(b0 + a1)
    BY <1>1, <1>13, <1>15 DEF Passed
  <2>2. n2[2] = 0
    BY <1>0, <1>11, <1>18, <2>1
  <2> QED
    BY <1>5, <1>13, <1>20, <2>1, <2>2 DEF GaveShare
<1>24. Passed(q, s, n6, 3, Allowance(1) + Allowance(2))
  <2>1. SUFFICES ASSUME n6[3] = 0, q[3] # <<>>
                 PROVE  b2 + q[3][1] > Least(b2 + Allowance(3), MaxBatch) /\ b2 \in b0..(b0 + (a1 + a2))
    BY <1>1, <1>13, <1>15 DEF Passed
  <2>2. n3[3] = 0
    BY <1>0, <1>11, <1>18, <2>1
  <2>3. b2 \in b0..(b0 + (a1 + a2))
    BY <1>20
  <2> QED
    BY <1>6, <1>13, <2>1, <2>2, <2>3 DEF GaveShare
<1>25. ASSUME NEW l \in Lane, n6[l] < Len(q[l]) PROVE d6.bytes + q[l][n6[l] + 1] > MaxBatch
  <2>1. q[l][n6[l] + 1] \in Nat
    <3>1. q[l] \in Seq(Nat) /\ n6[l] \in Nat
      BY <1>12
    <3> QED
      BY <1>25, <3>1, BytesNext
  <2>2. PICK x \in Nat : x = q[l][n6[l] + 1]
    BY <2>1
  <2>3. MaxBatch \in Nat
    BY SchedulerAssumption
  <2>4. CASE l = 1
    <3>1. n4[1] = n6[1]
      BY <1>17
    <3>2. b4 + x > MaxBatch
      BY <1>7, <1>14, <1>25, <2>2, <2>4, <3>1 DEF GaveRest
    <3>3. b6 + x > MaxBatch
      BY <1>21, <2>3, <3>2
    <3> QED
      BY <1>14, <2>2, <3>3
  <2>5. CASE l = 2
    <3>1. n5[2] = n6[2]
      BY <1>17
    <3>2. b5 + x > MaxBatch
      BY <1>8, <1>14, <1>25, <2>2, <2>5, <3>1 DEF GaveRest
    <3>3. b6 + x > MaxBatch
      BY <1>21, <2>3, <3>2
    <3> QED
      BY <1>14, <2>2, <3>3
  <2>6. CASE l = 3
    BY <1>9, <1>25, <2>6 DEF GaveRest
  <2> QED
    BY <1>0, <2>4, <2>5, <2>6
<1>26. Composed(q, s, d6, n6)
  BY <1>9, <1>19, <1>22, <1>23, <1>24, <1>25 DEF Composed
<1> QED
  BY <1>10, <1>26

-----------------------------------------------------------------------------
(* The steps of the scheduler.                                              *)

LEMMA QueueOfNat ==
  ASSUME TypeOK
  PROVE  queue \in [Lane -> Seq(Nat)]
<1>1. Lengths \subseteq Nat
  BY SchedulerAssumption
<1>2. ASSUME NEW l \in Lane PROVE queue[l] \in Seq(Nat)
  <2>1. queue[l] \in Seq(Lengths)
    BY DEF TypeOK
  <2> QED
    BY <1>1, <2>1, SeqMonotonic
<1>3. queue = [l \in Lane |-> queue[l]]
  BY DEF TypeOK
<1> QED
  BY <1>2, <1>3

\* The batch of a step: how many items it takes from each lane.
LEMMA BatchComposed ==
  ASSUME TypeOK, NextBatch
  PROVE  /\ SeedLane \in Busy
         /\ \E e, n : Composed(queue, SeedLane, e, n) /\ queue' = e.queue
<1>1. queue \in [Lane -> Seq(Nat)]
  BY QueueOfNat
<1>2. Busy # {}
  BY DEF NextBatch
<1>3. SeedLane \in Busy
  BY <1>2, SeedIsLeast
<1>4. PICK s \in Lane : s = SeedLane /\ queue[s] # <<>>
  BY <1>3 DEF Busy
<1>5. PICK d : d = Seeded
  OBVIOUS
<1>6. d = [queue |-> [queue EXCEPT ![s] = Tail(@)], bytes |-> Head(queue[s])]
  BY <1>4, <1>5 DEF Seeded
<1>7. PICK n : Composed(queue, s, Filled(Shared(d)), n)
  BY <1>1, <1>4, <1>6, BatchCuts
<1>8. queue' = Filled(Shared(d)).queue
  BY <1>5 DEF NextBatch
<1> QED
  BY <1>3, <1>4, <1>7, <1>8

\* What it leaves.
LEMMA BatchLeaves ==
  ASSUME TypeOK, NEW e, NEW n, NEW s, Composed(queue, s, e, n), queue' = e.queue, NEW l \in Lane
  PROVE  /\ n[l] \in 0..Len(queue[l])
         /\ queue'[l] = SubSeq(queue[l], n[l] + 1, Len(queue[l]))
         /\ queue'[l] \in Seq(Lengths)
         /\ Len(queue'[l]) = Len(queue[l]) - n[l]
         /\ Served(l) <=> n[l] # 0
         /\ Taken(l) = SubSeq(queue[l], 1, n[l])
<1>1. PICK q \in Seq(Lengths), size \in Nat : q = queue[l] /\ size = Len(q)
  BY LenProperties DEF TypeOK
<1>2. PICK a \in 0..size : a = n[l]
  BY <1>1 DEF Composed, Cut
<1>3. PICK r : r = SubSeq(q, a + 1, size)
  OBVIOUS
<1>4. queue'[l] = r
  BY <1>1, <1>2, <1>3 DEF Composed, Cut
<1>5. r \in Seq(Lengths) /\ Len(r) = size - a
  BY <1>1, <1>3
<1>6. Served(l) <=> a # 0
  BY <1>1, <1>4, <1>5 DEF Served
<1>7. Taken(l) = SubSeq(q, 1, a)
  <2>1. size - (size - a) = a
    OBVIOUS
  <2> QED
    BY <1>1, <1>4, <1>5, <2>1 DEF Taken
<1> QED
  BY <1>1, <1>2, <1>3, <1>4, <1>5, <1>6, <1>7

LEMMA TypePush ==
  ASSUME TypeOK, NEW l \in Lane, NEW items \in Seq(Lengths), Push(l, items)
  PROVE  TypeOK'
<1>1. queue \in [Lane -> Seq(Lengths)] /\ queue[l] \in Seq(Lengths)
  BY DEF TypeOK
<1>2. queue[l] \o items \in Seq(Lengths)
  BY <1>1, ConcatProperties
<1>3. queue' \in [Lane -> Seq(Lengths)]
  BY <1>1, <1>2 DEF Push
<1> QED
  BY <1>3 DEF Push, TypeOK

LEMMA TypeBatch ==
  ASSUME TypeOK, NextBatch
  PROVE  TypeOK'
<1>1. PICK e, n : Composed(queue, SeedLane, e, n) /\ queue' = e.queue
  BY BatchComposed
<1>2. \A l \in Lane : queue'[l] \in Seq(Lengths)
  BY <1>1, BatchLeaves
<1>3. e.queue = [l \in Lane |-> e.queue[l]]
  BY <1>1 DEF Composed, Cut
<1>4. queue' \in [Lane -> Seq(Lengths)]
  BY <1>1, <1>2, <1>3
<1>5. credit' \in [Lane -> Nat]
  <2>1. \A l \in Lane : credit[l] + Allowance(l) \in Nat
    BY AllowanceType DEF TypeOK
  <2> QED
    BY <2>1, Zenon DEF NextBatch, Settle
<1>6. waited' \in [Lane -> Nat]
  <2>1. \A l \in Lane : waited[l] + 1 \in Nat
    BY DEF TypeOK
  <2> QED
    BY <2>1 DEF NextBatch
<1> QED
  BY <1>4, <1>5, <1>6 DEF TypeOK

(* The lanes hold items and the accounts are numbers, whatever is pushed    *)
(* and however many batches are composed (LaneScheduler::push, next_batch   *)
(* and settle_credits).                                                     *)
THEOREM LaneSchedulerTypeCorrect == Spec => []TypeOK
<1>1. SchedulerInit => TypeOK
  <2>1. <<>> \in Seq(Lengths) /\ 0 \in Nat
    BY EmptySeq
  <2> QED
    BY <2>1 DEF SchedulerInit, TypeOK
<1>2. TypeOK /\ [SchedulerNext]_scheduler => TypeOK'
  <2>1. SUFFICES ASSUME TypeOK, [SchedulerNext]_scheduler PROVE TypeOK'
    OBVIOUS
  <2>2. ASSUME NEW l \in Lane, NEW len \in Lengths, Push(l, <<len>>) PROVE TypeOK'
    <3>1. <<len>> \in Seq(Lengths)
      OBVIOUS
    <3> QED
      BY <2>1, <2>2, <3>1, TypePush
  <2>3. CASE UNCHANGED scheduler
    BY <2>1, <2>3 DEF TypeOK, scheduler
  <2> QED
    BY <2>1, <2>2, <2>3, TypeBatch DEF SchedulerNext
<1> QED
  BY <1>1, <1>2, PTL DEF Spec

LEMMA FullBatch ==
  ASSUME TypeOK, NextBatch
  PROVE  \A l \in Lane : queue'[l] # <<>> => BatchBytes + Head(queue'[l]) > MaxBatch
<1>1. SUFFICES ASSUME NEW l \in Lane, queue'[l] # <<>>
               PROVE  BatchBytes + Head(queue'[l]) > MaxBatch
  OBVIOUS
<1>2. PICK s, e, n : Composed(queue, s, e, n) /\ queue' = e.queue
  BY BatchComposed
<1>3. \A k \in Lane : n[k] \in 0..Len(queue[k]) /\ Taken(k) = SubSeq(queue[k], 1, n[k])
  BY <1>2, BatchLeaves
<1>4. BatchBytes = e.bytes
  <2>1. PICK t1, t2, t3 : t1 = Taken(1) /\ t2 = Taken(2) /\ t3 = Taken(3)
    OBVIOUS
  <2>2. 1 \in Lane /\ 2 \in Lane /\ 3 \in Lane
    BY DEF Lane
  <2>3. \A k \in Lane : Taken(k) \in Seq(Nat)
    <3>1. SUFFICES ASSUME NEW k \in Lane PROVE SubSeq(queue[k], 1, n[k]) \in Seq(Nat)
      BY <1>3
    <3>2. PICK q \in Seq(Nat), size \in Nat : q = queue[k] /\ size = Len(q)
      BY QueueOfNat, LenProperties
    <3>3. PICK a \in 0..size : a = n[k]
      BY <1>3, <3>2
    <3>4. SubSeq(q, 1, a) \in Seq(Nat)
      BY <3>2
    <3> QED
      BY <3>2, <3>3, <3>4
  <2>4. t1 \in Seq(Nat) /\ t2 \in Seq(Nat) /\ t3 \in Seq(Nat)
    BY <2>1, <2>2, <2>3
  <2>5. t1 \o t2 \in Seq(Nat)
    BY <2>4, ConcatProperties
  <2>6. Bytes(t1 \o t2) = Bytes(t1) + Bytes(t2)
    BY <2>4, BytesConcat
  <2>7. Bytes((t1 \o t2) \o t3) = Bytes(t1 \o t2) + Bytes(t3)
    BY <2>4, <2>5, BytesConcat
  <2>8. BatchBytes = Bytes((t1 \o t2) \o t3)
    BY <2>1 DEF BatchBytes
  <2>9. Bytes(t1) = First(queue, 1, n[1]) /\ Bytes(t2) = First(queue, 2, n[2])
          /\ Bytes(t3) = First(queue, 3, n[3])
    BY <1>3, <2>1, <2>2 DEF First
  <2> QED
    BY <1>2, <2>6, <2>7, <2>8, <2>9 DEF Composed, Cut
<1>5. PICK q \in Seq(Nat), size \in Nat, a \in Nat : q = queue[l] /\ size = Len(q) /\ a = n[l]
  BY <1>1, <1>3, QueueOfNat, LenProperties
<1>6. queue'[l] = SubSeq(q, a + 1, size) /\ a <= size
  BY <1>2, <1>5 DEF Composed, Cut
<1>7. a < size
  <2>1. SUFFICES ASSUME a = size PROVE FALSE
    BY <1>6
  <2>2. SubSeq(q, a + 1, size) = <<>>
    BY <2>1, SubSeqEmpty
  <2> QED
    BY <1>1, <1>6, <2>2
<1>8. Head(queue'[l]) = q[a + 1]
  <2>1. a + 1 \in 1..Len(q) /\ size \in (a + 1)..Len(q)
    BY <1>5, <1>7
  <2> QED
    BY <1>6, <2>1, HeadTailOfSubSeq
<1>9. e.bytes + q[a + 1] > MaxBatch
  BY <1>2, <1>5, <1>7 DEF Composed
<1> QED
  BY <1>4, <1>8, <1>9

(* A batch of next_batch leaves nothing behind that it has room for,        *)
(* whatever the shares of the lanes are and whatever lane seeds it.         *)
THEOREM BatchIsFull == Spec => BatchFull
<1>1. TypeOK => [NextBatch => \A l \in Lane : queue'[l] # <<>> =>
                               BatchBytes + Head(queue'[l]) > MaxBatch]_scheduler
  BY FullBatch
<1> QED
  BY <1>1, LaneSchedulerTypeCorrect, PTL DEF Spec, BatchFull

LEMMA SharesAboveAre ==
  /\ SharesAbove(1) = 0
  /\ SharesAbove(2) = Allowance(1)
  /\ SharesAbove(3) = Allowance(1) + Allowance(2)
<1>1. PICK a \in Nat, b \in Nat : a = Allowance(1) /\ b = Allowance(2)
  <2>1. 1 \in Lane /\ 2 \in Lane
    BY DEF Lane
  <2> QED
    BY <2>1, AllowanceType
<1>2. PICK q : q = <<a, b>>
  OBVIOUS
<1>3. q \in Seq(Nat) /\ Len(q) = 2 /\ q[1] = a /\ q[2] = b
  BY <1>2
<1>4. \A l \in 1..3 : SharesAbove(l) = Bytes(SubSeq(q, 1, l - 1))
  BY <1>1, <1>2 DEF SharesAbove
<1>5. Bytes(SubSeq(q, 1, 0)) = 0
  <2>1. SubSeq(q, 1, 0) = <<>>
    BY SubSeqEmpty
  <2> QED
    BY <2>1, BytesEmpty
<1>6. \A k \in Nat : k < 2 => Bytes(SubSeq(q, 1, k + 1)) = Bytes(SubSeq(q, 1, k)) + q[k + 1]
  BY <1>3, BytesNext
<1>7. Bytes(SubSeq(q, 1, 1)) = a
  <2>1. Bytes(SubSeq(q, 1, 0 + 1)) = Bytes(SubSeq(q, 1, 0)) + q[0 + 1]
    BY <1>6
  <2>2. 0 + 1 = 1
    OBVIOUS
  <2> QED
    BY <1>3, <1>5, <2>1, <2>2
<1>8. Bytes(SubSeq(q, 1, 2)) = a + b
  <2>1. PICK k \in Nat : k = 1 /\ k + 1 = 2
    OBVIOUS
  <2>2. Bytes(SubSeq(q, 1, k + 1)) = Bytes(SubSeq(q, 1, k)) + q[k + 1]
    BY <1>6, <2>1
  <2> QED
    BY <1>3, <1>7, <2>1, <2>2
<1>9. 1 - 1 = 0 /\ 2 - 1 = 1 /\ 3 - 1 = 2
  OBVIOUS
<1> QED
  BY <1>1, <1>4, <1>5, <1>7, <1>8, <1>9

\* A lane that gives nothing did not fit its share, at some place of the batch
\* that the seed and the shares above it bound.
LEMMA NotServed ==
  ASSUME TypeOK, NEW e, NEW n, Composed(queue, SeedLane, e, n), queue' = e.queue,
         SeedLane \in Busy, NEW l \in Busy, ~ Served(l)
  PROVE  \E b \in Head(queue[SeedLane])..(Head(queue[SeedLane]) + SharesAbove(l)) :
           b + Head(queue[l]) > Least(b + Allowance(l), MaxBatch)
<1>1. PICK s \in Lane : s = SeedLane /\ queue[s] # <<>>
  BY DEF Busy
<1>2. l \in Lane /\ queue[l] # <<>>
  BY DEF Busy
<1>3. n[l] = 0
  BY <1>2, BatchLeaves
<1>4. /\ Passed(queue, s, n, 1, 0)
      /\ Passed(queue, s, n, 2, Allowance(1))
      /\ Passed(queue, s, n, 3, Allowance(1) + Allowance(2))
  BY <1>1 DEF Composed
<1>5. l = 1 \/ l = 2 \/ l = 3
  BY <1>2 DEF Lane
<1>6. Passed(queue, s, n, l, SharesAbove(l))
  BY <1>4, <1>5, SharesAboveAre, Zenon
<1>7. Head(queue[s]) = queue[s][1] /\ Head(queue[l]) = queue[l][1]
  <2>1. queue \in [Lane -> Seq(Nat)]
    BY QueueOfNat
  <2>2. \A q \in Seq(Nat) : q # <<>> => Head(q) = q[1]
    OBVIOUS
  <2> QED
    BY <1>1, <1>2, <2>1, <2>2
<1> QED
  BY <1>1, <1>2, <1>3, <1>6, <1>7, Zenon DEF Passed

LEMMA HeadType ==
  ASSUME TypeOK, NEW l \in Busy
  PROVE  Head(queue[l]) \in Lengths /\ Head(queue[l]) \in Nat /\ l \in Lane
<1>1. l \in Lane /\ queue[l] # <<>>
  BY DEF Busy
<1>2. queue[l] \in Seq(Lengths)
  BY <1>1 DEF TypeOK
<1>3. Head(queue[l]) \in Lengths
  BY <1>1, <1>2, HeadTailProperties
<1> QED
  BY <1>1, <1>3, SchedulerAssumption

LEMMA HeldShares ==
  ASSUME TypeOK, NextBatch
  PROVE  \A l \in Busy :
           /\ Head(queue[l]) <= Allowance(l)
           /\ Head(queue[SeedLane]) + SharesAbove(l) + Head(queue[l]) <= MaxBatch
           => Served(l)
<1>1. SUFFICES ASSUME NEW l \in Busy,
                      Head(queue[l]) <= Allowance(l),
                      Head(queue[SeedLane]) + SharesAbove(l) + Head(queue[l]) <= MaxBatch,
                      ~ Served(l)
               PROVE  FALSE
  OBVIOUS
<1>2. SeedLane \in Busy
  BY BatchComposed
<1>3. PICK e, n : Composed(queue, SeedLane, e, n) /\ queue' = e.queue
  BY BatchComposed
<1>4. PICK b \in Head(queue[SeedLane])..(Head(queue[SeedLane]) + SharesAbove(l)) :
             b + Head(queue[l]) > Least(b + Allowance(l), MaxBatch)
  BY <1>1, <1>2, <1>3, NotServed
<1>5. PICK h \in Nat, x \in Nat, a \in Nat, above \in Nat :
             /\ h = Head(queue[SeedLane]) /\ x = Head(queue[l])
             /\ a = Allowance(l) /\ above = SharesAbove(l)
  <2>1. Head(queue[SeedLane]) \in Nat /\ Head(queue[l]) \in Nat /\ l \in Lane
    BY <1>1, <1>2, HeadType
  <2>2. SharesAbove(l) \in Nat /\ Allowance(l) \in Nat
    <3>1. l = 1 \/ l = 2 \/ l = 3
      BY <2>1 DEF Lane
    <3>2. Allowance(l) \in Nat /\ Allowance(1) \in Nat /\ Allowance(2) \in Nat
      BY <2>1, AllowanceType DEF Lane
    <3> QED
      BY <3>1, <3>2, SharesAboveAre
  <2> QED
    BY <2>1, <2>2
<1>6. b \in h..(h + above) /\ x <= a /\ h + above + x <= MaxBatch
  BY <1>1, <1>5
<1>7. b + x > Least(b + a, MaxBatch)
  BY <1>4, <1>5
<1>8. MaxBatch \in Nat
  BY SchedulerAssumption
<1> QED
  BY <1>6, <1>7, <1>8 DEF Least

(* The reserve of LANE_RESERVE holds in every batch: a lane whose head is   *)
(* within its share is served when the seed leaves the shares above it, and *)
(* the head, room, however much the lanes above it have.                    *)
THEOREM SharesHold == Spec => ShareHeld
<1>1. TypeOK => [NextBatch => \A l \in Busy :
                   /\ Head(queue[l]) <= Allowance(l)
                   /\ Head(queue[SeedLane]) + SharesAbove(l) + Head(queue[l]) <= MaxBatch
                   => Served(l)]_scheduler
  BY HeldShares
<1> QED
  BY <1>1, LaneSchedulerTypeCorrect, PTL DEF Spec, ShareHeld

-----------------------------------------------------------------------------
(* No lane starves.                                                         *)

\* The batches that bank the length of lane l's head.
Batches(l) == (Head(queue[l]) + Allowance(l) - 1) \div Allowance(l)

\* Lane l has waited k batches longer.
Overdue(l, k) == l \in Busy /\ waited[l] >= Batches(l) + k

\* Items have a length, and the shares of the first two lanes fit a batch.
ItemsHaveLength == 0 \notin Lengths
SharesFit == Allowance(1) + Allowance(2) <= MaxBatch

\* What a lane has banked is what it has waited, and some lane has been served
\* by the last batch.
AccountInv ==
  /\ \A l \in Lane : credit[l] = waited[l] * Allowance(l)
  /\ \A l \in Lane : l \notin Busy => waited[l] = 0
  /\ \E l \in Lane : waited[l] = 0

\* The higher lane that can still come before an overdue one, and how soon.
NormalInv == ~ Overdue(1, 1)

BulkInv ==
  /\ Overdue(2, 1) => waited[1] = 0
  /\ ~ Overdue(2, 2)

BackgroundInv ==
  /\ Overdue(3, 1) => (waited[1] = 0 /\ waited[2] <= 1) \/ waited[2] = 0
  /\ Overdue(3, 2) => \/ waited[1] = 0 /\ waited[2] <= 1
                      \/ waited[2] = 0 /\ ~ Overdue(1, 0)
  /\ Overdue(3, 3) => waited[2] = 0 /\ ~ Overdue(1, 0)
  /\ ~ Overdue(3, 4)

WaitInv == TypeOK /\ AccountInv /\ NormalInv /\ BulkInv /\ BackgroundInv

\* A share banked w times pays for x bytes when w is at least their quotient,
\* rounded up.
LEMMA Pays ==
  ASSUME NEW x \in Nat, x # 0, NEW a \in Nat, a # 0, NEW w \in Nat,
         NEW need, need = (x + a - 1) \div a
  PROVE  /\ need \in Nat /\ need >= 1
         /\ w * a >= x <=> w >= need
<1>1. need \in Int /\ need * a <= x + a - 1 /\ x + a - 1 < (need + 1) * a
  BY SMT
<1>2. (need + 1) * a = need * a + a
  BY <1>1
<1>3. PICK p \in Int : p = need * a
  BY <1>1
<1>4. p < x + a /\ p >= x
  BY <1>1, <1>2, <1>3
<1>5. need >= 1
  <2>1. need <= 0 => need * a <= 0
    BY <1>1, SMT
  <2> QED
    BY <1>1, <1>3, <1>4, <2>1
<1>6. CASE w >= need
  <2>1. w * a >= need * a
    <3>1. PICK d \in Nat : w = need + d
      <4>1. w - need \in Nat /\ w = need + (w - need)
        BY <1>1, <1>6
      <4> QED
        BY <4>1
    <3>2. w * a = need * a + d * a /\ d * a >= 0
      BY <1>1, <3>1, SMT
    <3> QED
      BY <1>3, <3>2
  <2> QED
    BY <1>1, <1>3, <1>4, <1>5, <1>6, <2>1
<1>7. CASE ~ (w >= need)
  <2>1. w * a <= need * a - a
    <3>1. PICK d \in Nat : need = w + 1 + d
      <4>1. need - w - 1 \in Nat /\ need = w + 1 + (need - w - 1)
        BY <1>1, <1>7
      <4> QED
        BY <4>1
    <3>2. need * a = w * a + a + d * a /\ d * a >= 0
      BY <1>1, <3>1, SMT
    <3> QED
      BY <1>3, <3>2
  <2> QED
    BY <1>1, <1>3, <1>4, <1>5, <1>7, <2>1
<1> QED
  BY <1>1, <1>5, <1>6, <1>7

LEMMA BatchesType ==
  ASSUME TypeOK, ItemsHaveLength, NEW l \in Busy
  PROVE  /\ Batches(l) \in Nat /\ Batches(l) >= 1
         /\ \A w \in Nat : w * Allowance(l) >= Head(queue[l]) <=> w >= Batches(l)
<1>1. PICK x \in Nat, a \in Nat : x = Head(queue[l]) /\ a = Allowance(l) /\ x # 0 /\ a # 0
  <2>1. Head(queue[l]) \in Lengths /\ Head(queue[l]) \in Nat /\ l \in Lane
    BY HeadType
  <2>2. Allowance(l) \in Nat /\ Allowance(l) # 0
    BY <2>1, AllowanceType
  <2> QED
    BY <2>1, <2>2 DEF ItemsHaveLength
<1>2. PICK need : need = (x + a - 1) \div a
  OBVIOUS
<1>3. Batches(l) = need
  BY <1>1, <1>2 DEF Batches
<1>4. \A w \in Nat : /\ need \in Nat /\ need >= 1
                     /\ w * a >= x <=> w >= need
  BY <1>1, <1>2, Pays
<1>5. 0 \in Nat
  OBVIOUS
<1> QED
  BY <1>1, <1>3, <1>4, <1>5, Zenon

LEMMA OwedIsOverdue ==
  ASSUME TypeOK, AccountInv, ItemsHaveLength, NEW l \in Lane
  PROVE  l \in Owed <=> Overdue(l, 0)
<1>1. CASE l \in Busy
  <2>1. waited[l] \in Nat /\ credit[l] = waited[l] * Allowance(l)
    BY DEF TypeOK, AccountInv
  <2>2. waited[l] * Allowance(l) >= Head(queue[l]) <=> waited[l] >= Batches(l)
    BY <1>1, <2>1, BatchesType
  <2>3. Batches(l) \in Nat
    BY <1>1, BatchesType
  <2>4. Batches(l) + 0 = Batches(l)
    BY <2>3
  <2> QED
    BY <1>1, <2>1, <2>2, <2>4 DEF Owed, Overdue
<1>2. CASE l \notin Busy
  BY <1>2 DEF Owed, Overdue
<1> QED
  BY <1>1, <1>2

\* A lane that was passed over with something to send.
Kept(l) == ~ Served(l) /\ queue'[l] # <<>>

\* The seed is the highest overdue lane, if one is, and is served; a lane that
\* was kept has the head it had, and has waited one batch more.
LEMMA KeptLanes ==
  ASSUME TypeOK, AccountInv, ItemsHaveLength, NextBatch
  PROVE  /\ SeedLane \in Busy /\ ~ Kept(SeedLane)
         /\ \A l \in Lane : Kept(l) =>
              /\ l \in Busy /\ queue'[l] = queue[l]
              /\ waited'[l] = waited[l] + 1
              /\ credit'[l] = credit[l] + Allowance(l)
              /\ Overdue(l, 0) => Overdue(SeedLane, 0) /\ SeedLane < l
         /\ \A l \in Lane : ~ Kept(l) => waited'[l] = 0 /\ credit'[l] = 0
<1>1. PICK e, n : Composed(queue, SeedLane, e, n) /\ queue' = e.queue
  BY BatchComposed
<1>2. PICK s \in Busy : s = SeedLane
  BY BatchComposed
<1>3. Busy \subseteq Lane
  BY DEF Busy
<1>4. ~ Kept(s)
  <2>1. n[s] >= 1
    BY <1>1, <1>2 DEF Composed
  <2>2. n[s] # 0
    BY <2>1
  <2>3. Served(s)
    BY <1>1, <1>2, <1>3, <2>2, BatchLeaves
  <2> QED
    BY <2>3 DEF Kept
<1>5. \A l \in Lane : /\ waited'[l] = IF Kept(l) THEN waited[l] + 1 ELSE 0
                      /\ credit'[l] = IF Kept(l) THEN credit[l] + Allowance(l) ELSE 0
  BY Zenon DEF NextBatch, Settle, Kept
<1>6. ASSUME NEW l \in Lane, Kept(l)
      PROVE  l \in Busy /\ queue'[l] = queue[l]
  <2>1. n[l] = 0
    BY <1>1, <1>6, BatchLeaves DEF Kept
  <2>2. queue'[l] = SubSeq(queue[l], n[l] + 1, Len(queue[l]))
    BY <1>1, BatchLeaves
  <2>3. PICK q \in Seq(Lengths) : q = queue[l]
    BY DEF TypeOK
  <2>4. SubSeq(q, 1, Len(q)) = q
    BY SubSeqFull
  <2>5. queue'[l] = queue[l]
    BY <2>1, <2>2, <2>3, <2>4
  <2> QED
    BY <1>6, <2>5 DEF Kept, Busy
<1>7. ASSUME NEW l \in Lane, Kept(l), Overdue(l, 0)
      PROVE  Overdue(s, 0) /\ s < l
  <2>1. l \in Owed
    BY <1>7, OwedIsOverdue
  <2>2. s \in Owed /\ s <= l
    <3>1. Busy # {}
      BY <1>2
    <3>2. /\ SeedLane \in Busy
          /\ Owed # {} => SeedLane \in Owed /\ \A k \in Owed : SeedLane <= k
          /\ Owed = {} => \A k \in Busy : SeedLane <= k
      BY <3>1, SeedIsLeast
    <3> QED
      BY <1>2, <2>1, <3>2
  <2>3. s # l
    BY <1>4, <1>7
  <2>4. s \in Lane
    BY <1>2, <1>3
  <2>5. Overdue(s, 0)
    BY <2>2, <2>4, OwedIsOverdue
  <2> QED
    BY <2>2, <2>3, <2>4, <2>5 DEF Lane
<1> QED
  BY <1>2, <1>4, <1>5, <1>6, <1>7

\* A lane that is overdue after a batch was kept by it, and overdue but for
\* that batch.
LEMMA OverdueWasKept ==
  ASSUME TypeOK, AccountInv, ItemsHaveLength, NextBatch, TypeOK',
         NEW l \in Lane, NEW k \in Nat, Overdue(l, k)'
  PROVE  /\ Kept(l)
         /\ waited[l] + 1 >= Batches(l) + k
         /\ l \in Busy
         /\ k >= 1 => Overdue(l, k - 1)
<1>1. l \in Busy' /\ waited'[l] >= Batches(l)' + k
  BY DEF Overdue
<1>2. Batches(l)' \in Nat /\ Batches(l)' >= 1
  <2>1. queue'[l] \in Seq(Lengths) /\ queue'[l] # <<>>
    BY <1>1 DEF TypeOK, Busy
  <2>2. Head(queue'[l]) \in Lengths
    BY <2>1, HeadTailProperties
  <2>3. PICK x \in Nat, a \in Nat : x = Head(queue'[l]) /\ a = Allowance(l) /\ x # 0 /\ a # 0
    <3>1. Allowance(l) \in Nat /\ Allowance(l) # 0
      BY AllowanceType
    <3>2. Head(queue'[l]) \in Nat
      BY <2>2, SchedulerAssumption
    <3> QED
      BY <2>2, <3>1, <3>2 DEF ItemsHaveLength
  <2>4. Batches(l)' = (x + a - 1) \div a
    BY <2>3 DEF Batches, Allowance
  <2>5. 0 \in Nat
    OBVIOUS
  <2>6. PICK need : need = (x + a - 1) \div a
    OBVIOUS
  <2>7. /\ need \in Nat /\ need >= 1
        /\ 0 * a >= x <=> 0 >= need
    BY <2>3, <2>5, <2>6, Pays
  <2> QED
    BY <2>4, <2>6, <2>7
<1>3. /\ Kept(l) => /\ l \in Busy /\ queue'[l] = queue[l]
                    /\ waited'[l] = waited[l] + 1
      /\ ~ Kept(l) => waited'[l] = 0
  BY KeptLanes
<1>4. Kept(l)
  BY <1>1, <1>2, <1>3
<1>5. Batches(l)' = Batches(l)
  BY <1>3, <1>4 DEF Batches, Allowance
<1>6. waited[l] \in Nat
  BY DEF TypeOK
<1>7. PICK w \in Nat, b \in Nat : w = waited[l] /\ b = Batches(l) /\ w + 1 >= b + k
  BY <1>1, <1>2, <1>3, <1>4, <1>5, <1>6
<1>8. k >= 1 => w >= b + (k - 1)
  BY <1>7
<1> QED
  BY <1>3, <1>4, <1>7, <1>8 DEF Overdue

\* After a Bulk item within its share, Normal's head does not stay if one share
\* pays for it: both fit the batch.
LEMMA NormalAfterBulk ==
  ASSUME TypeOK, AccountInv, ItemsHaveLength, SharesFit, NextBatch, TypeOK',
         SeedLane = 2, waited[1] = 0, waited[2] <= 1, Overdue(2, 0)
  PROVE  ~ Overdue(1, 0)'
<1>1. SUFFICES ASSUME Overdue(1, 0)' PROVE FALSE
  OBVIOUS
<1>2. 1 \in Lane /\ 2 \in Lane /\ 2 \in Busy
  BY DEF Lane, Overdue
<1>3. Kept(1) /\ waited[1] + 1 >= Batches(1) + 0 /\ 1 \in Busy
  <2>1. 0 \in Nat
    OBVIOUS
  <2> QED
    BY <1>1, <1>2, <2>1, OverdueWasKept
<1>4. ~ Served(1)
  BY <1>3 DEF Kept
<1>5. PICK e, n : Composed(queue, SeedLane, e, n) /\ queue' = e.queue
  BY BatchComposed
<1>6. PICK b \in Head(queue[2])..(Head(queue[2]) + SharesAbove(1)) :
             b + Head(queue[1]) > Least(b + Allowance(1), MaxBatch)
  BY <1>2, <1>3, <1>4, <1>5, NotServed
<1>7. PICK x1 \in Nat, x2 \in Nat, a1 \in Nat, a2 \in Nat :
             /\ x1 = Head(queue[1]) /\ x2 = Head(queue[2])
             /\ a1 = Allowance(1) /\ a2 = Allowance(2)
  BY <1>2, <1>3, HeadType, AllowanceType
<1>8. b = x2
  <2>1. b \in x2..(x2 + 0)
    BY <1>6, <1>7, SharesAboveAre
  <2> QED
    BY <2>1
<1>9. x1 <= a1
  <2>1. Batches(1) \in Nat /\ Batches(1) >= 1
    BY <1>3, BatchesType
  <2>2. 1 \in Nat /\ 1 >= Batches(1)
    BY <1>3, <2>1
  <2>3. 1 * Allowance(1) >= Head(queue[1])
    BY <1>3, <2>2, BatchesType
  <2> QED
    BY <1>7, <2>3
<1>10. x2 <= a2
  <2>1. Batches(2) \in Nat /\ Batches(2) >= 1
    BY <1>2, BatchesType
  <2>2. waited[2] \in Nat
    BY <1>2 DEF TypeOK
  <2>3. waited[2] >= Batches(2) + 0
    BY DEF Overdue
  <2>4. 1 \in Nat /\ 1 >= Batches(2)
    BY <2>1, <2>2, <2>3
  <2>5. 1 * Allowance(2) >= Head(queue[2])
    BY <1>2, <2>4, BatchesType
  <2> QED
    BY <1>7, <2>5
<1>11. x2 + x1 > Least(x2 + a1, MaxBatch)
  BY <1>6, <1>7, <1>8
<1>12. a1 + a2 <= MaxBatch /\ MaxBatch \in Nat
  BY <1>7, SchedulerAssumption DEF SharesFit
<1> QED
  BY <1>9, <1>10, <1>11, <1>12 DEF Least

LEMMA WaitInvBatch ==
  ASSUME WaitInv, ItemsHaveLength, SharesFit, NextBatch, TypeOK'
  PROVE  WaitInv'
<1> USE DEF WaitInv
<1>0. 1 \in Lane /\ 2 \in Lane /\ 3 \in Lane /\ \A l \in Lane : l = 1 \/ l = 2 \/ l = 3
  BY DEF Lane
<1>1. /\ SeedLane \in Busy /\ ~ Kept(SeedLane)
      /\ \A l \in Lane : Kept(l) =>
           /\ l \in Busy /\ queue'[l] = queue[l]
           /\ waited'[l] = waited[l] + 1
           /\ credit'[l] = credit[l] + Allowance(l)
           /\ Overdue(l, 0) => Overdue(SeedLane, 0) /\ SeedLane < l
      /\ \A l \in Lane : ~ Kept(l) => waited'[l] = 0 /\ credit'[l] = 0
  BY KeptLanes
<1>2. PICK s \in Lane : s = SeedLane /\ s \in Busy /\ ~ Kept(s) /\ waited'[s] = 0
  BY <1>1 DEF Busy
<1>3. AccountInv'
  <2>1. ASSUME NEW l \in Lane PROVE credit'[l] = waited'[l] * Allowance(l)
    <3>1. PICK w \in Nat, a \in Nat : w = waited[l] /\ a = Allowance(l)
      BY AllowanceType DEF TypeOK
    <3>2. credit[l] = w * a
      BY <3>1 DEF AccountInv
    <3>3. CASE Kept(l)
      <4>1. waited'[l] = w + 1 /\ credit'[l] = w * a + a
        BY <1>1, <3>1, <3>2, <3>3
      <4>2. (w + 1) * a = w * a + a
        BY SMT
      <4> QED
        BY <3>1, <4>1, <4>2
    <3>4. CASE ~ Kept(l)
      <4>1. waited'[l] = 0 /\ credit'[l] = 0
        BY <1>1, <3>4
      <4>2. 0 * a = 0
        OBVIOUS
      <4> QED
        BY <3>1, <4>1, <4>2
    <3> QED
      BY <3>3, <3>4
  <2>2. \A l \in Lane : credit'[l] = waited'[l] * Allowance(l)'
    BY <2>1 DEF Allowance
  <2>3. \A l \in Lane : l \notin Busy' => waited'[l] = 0
    <3>1. SUFFICES ASSUME NEW l \in Lane, queue'[l] = <<>> PROVE waited'[l] = 0
      BY DEF Busy
    <3> QED
      BY <1>1, <3>1 DEF Kept
  <2> QED
    BY <1>2, <2>2, <2>3 DEF AccountInv
\* What is overdue after the batch was kept, and overdue before it but for it.
<1>4. \A l \in Lane : waited[l] \in Nat
  BY DEF TypeOK
<1>5. ASSUME NEW l \in Lane, NEW k \in Nat, k >= 1, Overdue(l, k)'
      PROVE  Overdue(l, k - 1) /\ Overdue(s, 0) /\ s < l /\ waited[s] >= 1
  <2>1. Kept(l) /\ Overdue(l, k - 1)
    BY <1>5, OverdueWasKept
  <2>2. Overdue(l, 0)
    <3>1. Batches(l) \in Nat
      BY <2>1, BatchesType DEF Overdue
    <3>2. waited[l] >= Batches(l) + (k - 1) /\ l \in Busy /\ waited[l] \in Nat
      BY <1>4, <2>1 DEF Overdue
    <3>3. waited[l] >= Batches(l) + 0
      BY <1>5, <3>1, <3>2
    <3> QED
      BY <3>2, <3>3 DEF Overdue
  <2>3. Overdue(s, 0) /\ s < l
    BY <1>1, <1>2, <2>1, <2>2
  <2>4. waited[s] >= 1
    <3>1. Batches(s) \in Nat /\ Batches(s) >= 1
      BY <1>2, BatchesType
    <3>2. waited[s] >= Batches(s) + 0 /\ waited[s] \in Nat
      BY <1>4, <2>3 DEF Overdue
    <3> QED
      BY <3>1, <3>2
  <2> QED
    BY <2>1, <2>3, <2>4
<1>6. NormalInv'
  <2>1. SUFFICES ASSUME Overdue(1, 1)' PROVE FALSE
    BY DEF NormalInv
  <2>2. s < 1
    BY <1>0, <1>5, <2>1
  <2> QED
    BY <1>0, <2>2
<1>7. BulkInv'
  <2>1. ASSUME NEW k \in {1, 2}, Overdue(2, k)'
        PROVE  s = 1 /\ Overdue(2, k - 1) /\ waited[1] >= 1 /\ waited'[1] = 0
    <3>1. k \in Nat /\ k >= 1
      BY <2>1
    <3>2. Overdue(2, k - 1) /\ s < 2 /\ waited[s] >= 1
      BY <1>0, <1>5, <2>1, <3>1
    <3>3. s = 1
      BY <1>0, <3>2
    <3> QED
      BY <1>2, <3>2, <3>3
  <2>2. Overdue(2, 1)' => waited'[1] = 0
    BY <2>1
  <2>3. ~ Overdue(2, 2)'
    <3>1. SUFFICES ASSUME Overdue(2, 2)' PROVE FALSE
      OBVIOUS
    <3>2. Overdue(2, 2 - 1) /\ waited[1] >= 1
      BY <2>1, <3>1
    <3>3. 2 - 1 = 1
      OBVIOUS
    <3>4. waited[1] = 0
      BY <3>2, <3>3 DEF BulkInv
    <3> QED
      BY <3>2, <3>4
  <2> QED
    BY <2>2, <2>3 DEF BulkInv
<1>8. BackgroundInv'
  <2>1. ASSUME NEW k \in {1, 2, 3, 4}, Overdue(3, k)'
        PROVE  /\ Overdue(3, k - 1) /\ waited[3] >= 1
               /\ \/ s = 1 /\ waited[1] >= 1 /\ waited'[1] = 0 /\ Overdue(1, 0)
                  \/ s = 2 /\ waited[2] >= 1 /\ waited'[2] = 0 /\ Overdue(2, 0)
    <3>1. k \in Nat /\ k >= 1
      BY <2>1
    <3>2. Overdue(3, k - 1) /\ Overdue(s, 0) /\ s < 3 /\ waited[s] >= 1
      BY <1>0, <1>5, <2>1, <3>1
    <3>3. s = 1 \/ s = 2
      BY <1>0, <3>2
    <3>4. waited[3] >= 1
      <4>1. 3 \in Busy /\ waited[3] >= Batches(3) + (k - 1) /\ waited[3] \in Nat
        BY <1>0, <1>4, <3>2 DEF Overdue
      <4>2. Batches(3) \in Nat /\ Batches(3) >= 1
        BY <4>1, BatchesType
      <4> QED
        BY <3>1, <4>1, <4>2
    <3> QED
      BY <1>2, <3>2, <3>3, <3>4
  \* A seed of Bulk while Normal has waited for nothing.
  <2>2. s = 2 /\ Overdue(2, 0) /\ waited[1] = 0 /\ waited[2] <= 1 => ~ Overdue(1, 0)'
    BY <1>2, NormalAfterBulk
  \* A seed of Normal while Bulk has waited for nothing.
  <2>3. waited[2] = 0 => waited'[2] <= 1
    <3>1. waited'[2] = 0 \/ waited'[2] = waited[2] + 1
      BY <1>0, <1>1
    <3> QED
      BY <3>1
  <2>4. Overdue(3, 1)' => (waited'[1] = 0 /\ waited'[2] <= 1) \/ waited'[2] = 0
    <3>1. SUFFICES ASSUME Overdue(3, 1)', waited'[2] # 0
                   PROVE  waited'[1] = 0 /\ waited'[2] <= 1
      OBVIOUS
    <3>2. waited[3] >= 1 /\ waited[1] >= 1 /\ waited'[1] = 0
      BY <2>1, <3>1
    <3>3. waited[2] = 0
      <4>1. waited[1] # 0 /\ waited[3] # 0
        BY <1>0, <1>4, <3>2
      <4> QED
        BY <1>0, <4>1 DEF AccountInv
    <3> QED
      BY <2>3, <3>2, <3>3
  <2>5. Overdue(3, 2)' => \/ waited'[1] = 0 /\ waited'[2] <= 1
                          \/ waited'[2] = 0 /\ ~ Overdue(1, 0)'
    <3>1. SUFFICES ASSUME Overdue(3, 2)'
                   PROVE  \/ waited'[1] = 0 /\ waited'[2] <= 1
                          \/ waited'[2] = 0 /\ ~ Overdue(1, 0)'
      OBVIOUS
    <3>2. Overdue(3, 2 - 1)
      BY <2>1, <3>1
    <3>3. 2 - 1 = 1
      OBVIOUS
    <3>4. (waited[1] = 0 /\ waited[2] <= 1) \/ waited[2] = 0
      BY <3>2, <3>3 DEF BackgroundInv
    <3>5. CASE s = 1 /\ waited[1] >= 1 /\ waited'[1] = 0
      <4>1. waited[2] = 0
        BY <3>4, <3>5
      <4> QED
        BY <2>3, <3>5, <4>1
    <3>6. CASE s = 2 /\ waited[2] >= 1 /\ waited'[2] = 0 /\ Overdue(2, 0)
      <4>1. waited[1] = 0 /\ waited[2] <= 1
        BY <3>4, <3>6
      <4> QED
        BY <2>2, <3>6, <4>1
    <3> QED
      BY <2>1, <3>1, <3>5, <3>6
  <2>6. Overdue(3, 3)' => waited'[2] = 0 /\ ~ Overdue(1, 0)'
    <3>1. SUFFICES ASSUME Overdue(3, 3)' PROVE waited'[2] = 0 /\ ~ Overdue(1, 0)'
      OBVIOUS
    <3>2. Overdue(3, 3 - 1)
      BY <2>1, <3>1
    <3>3. 3 - 1 = 2
      OBVIOUS
    <3>4. \/ waited[1] = 0 /\ waited[2] <= 1
          \/ waited[2] = 0 /\ ~ Overdue(1, 0)
      BY <3>2, <3>3 DEF BackgroundInv
    <3>5. CASE s = 1 /\ waited[1] >= 1 /\ Overdue(1, 0)
      BY <3>4, <3>5
    <3>6. CASE s = 2 /\ waited[2] >= 1 /\ waited'[2] = 0 /\ Overdue(2, 0)
      <4>1. waited[1] = 0 /\ waited[2] <= 1
        BY <3>4, <3>6
      <4> QED
        BY <2>2, <3>6, <4>1
    <3> QED
      BY <2>1, <3>1, <3>5, <3>6
  <2>7. ~ Overdue(3, 4)'
    <3>1. SUFFICES ASSUME Overdue(3, 4)' PROVE FALSE
      OBVIOUS
    <3>2. Overdue(3, 4 - 1)
      BY <2>1, <3>1
    <3>3. 4 - 1 = 3
      OBVIOUS
    <3>4. waited[2] = 0 /\ ~ Overdue(1, 0)
      BY <3>2, <3>3 DEF BackgroundInv
    <3> QED
      BY <2>1, <3>1, <3>4
  <2> QED
    BY <2>4, <2>5, <2>6, <2>7 DEF BackgroundInv
<1> QED
  BY <1>3, <1>6, <1>7, <1>8

\* Items at the end of a lane make nothing overdue.
LEMMA PushOverdue ==
  ASSUME TypeOK, AccountInv, ItemsHaveLength, NEW p \in Lane,
         NEW items \in Seq(Lengths), items # <<>>, Push(p, items), NEW l \in Lane, NEW k \in Nat, Overdue(l, k)'
  PROVE  Overdue(l, k)
<1>1. queue \in [Lane -> Seq(Lengths)] /\ waited'[l] = waited[l] /\ waited[l] \in Nat
  BY DEF TypeOK, Push
<1>2. PICK q \in Seq(Lengths) : q = queue[l]
  BY <1>1
<1>3. queue'[l] = q \/ (queue'[l] = q \o items /\ l = p)
  <2>1. queue' = [queue EXCEPT ![p] = queue[p] \o items]
    BY DEF Push
  <2> QED
    BY <1>1, <1>2, <2>1
<1>4. queue'[l] # <<>> /\ waited'[l] >= Batches(l)' + k
  BY DEF Overdue, Busy
<1>5. CASE q # <<>>
  <2>1. Head(q \o items) = Head(q)
    BY <1>5
  <2>2. Head(queue'[l]) = Head(queue[l])
    BY <1>2, <1>3, <2>1
  <2>3. Batches(l)' = Batches(l)
    BY <2>2 DEF Batches, Allowance
  <2> QED
    BY <1>1, <1>2, <1>4, <1>5, <2>3 DEF Overdue, Busy
<1>6. CASE q = <<>>
  <2>1. waited[l] = 0
    BY <1>2, <1>6 DEF AccountInv, Busy
  <2>2. queue'[l] = items
    BY <1>2, <1>3, <1>4, <1>6
  <2>3. PICK x \in Nat, a \in Nat : x = Head(items) /\ a = Allowance(l) /\ x # 0 /\ a # 0
    <3>1. Allowance(l) \in Nat /\ Allowance(l) # 0
      BY AllowanceType
    <3>2. Head(items) \in Lengths
      OBVIOUS
    <3> QED
      BY <3>1, <3>2, SchedulerAssumption DEF ItemsHaveLength
  <2>4. PICK need : need = (x + a - 1) \div a
    OBVIOUS
  <2>5. Batches(l)' = need
    <3>1. Head(queue'[l]) = x
      BY <2>2, <2>3
    <3>2. Batches(l)' = (Head(queue'[l]) + Allowance(l) - 1) \div Allowance(l)
      BY DEF Batches, Allowance
    <3> QED
      BY <2>3, <2>4, <3>1, <3>2
  <2>6. 0 \in Nat
    OBVIOUS
  <2>7. /\ need \in Nat /\ need >= 1
        /\ 0 * a >= x <=> 0 >= need
    BY <2>3, <2>4, <2>6, Pays
  <2> QED
    BY <1>1, <1>4, <2>1, <2>5, <2>7
<1> QED
  BY <1>5, <1>6

LEMMA WaitInvPush ==
  ASSUME WaitInv, ItemsHaveLength, NEW p \in Lane,
         NEW items \in Seq(Lengths), items # <<>>, Push(p, items), TypeOK'
  PROVE  WaitInv'
<1> USE DEF WaitInv
<1>0. 1 \in Lane /\ 2 \in Lane /\ 3 \in Lane
  BY DEF Lane
<1>1. \A l \in Lane, k \in Nat : Overdue(l, k)' => Overdue(l, k)
  BY PushOverdue
<1>2. credit' = credit /\ waited' = waited
  BY DEF Push
<1>3. AccountInv'
  <2>1. \A l \in Lane : l \notin Busy' => l \notin Busy
    <3>1. SUFFICES ASSUME NEW l \in Lane, queue'[l] = <<>> PROVE queue[l] = <<>>
      BY DEF Busy
    <3>2. queue' = [queue EXCEPT ![p] = queue[p] \o items] /\ queue \in [Lane -> Seq(Lengths)]
      BY DEF Push, TypeOK
    <3>3. queue[p] \o items # <<>>
      BY <3>2
    <3> QED
      BY <3>1, <3>2, <3>3
  <2>2. \A l \in Lane : credit'[l] = waited'[l] * Allowance(l)'
    BY <1>2 DEF AccountInv, Allowance
  <2>3. \A l \in Lane : l \notin Busy' => waited'[l] = 0
    BY <1>2, <2>1 DEF AccountInv
  <2>4. \E l \in Lane : waited'[l] = 0
    BY <1>2 DEF AccountInv
  <2> QED
    BY <2>2, <2>3, <2>4 DEF AccountInv
<1>4. /\ Overdue(1, 0)' => Overdue(1, 0)
      /\ Overdue(1, 1)' => Overdue(1, 1)
      /\ Overdue(2, 1)' => Overdue(2, 1)
      /\ Overdue(2, 2)' => Overdue(2, 2)
  BY <1>0, <1>1
<1>5. /\ Overdue(3, 1)' => Overdue(3, 1)
      /\ Overdue(3, 2)' => Overdue(3, 2)
      /\ Overdue(3, 3)' => Overdue(3, 3)
      /\ Overdue(3, 4)' => Overdue(3, 4)
  BY <1>0, <1>1
<1>6. NormalInv'
  BY <1>4 DEF NormalInv
<1>7. BulkInv'
  BY <1>2, <1>4, Zenon DEF BulkInv
<1>8. BackgroundInv'
  BY <1>2, <1>4, <1>5, Zenon DEF BackgroundInv
<1> QED
  BY <1>3, <1>6, <1>7, <1>8

\* The waits and the credits after any batches and pushes.
LEMMA WaitInvInit ==
  ASSUME SchedulerInit, TypeOK
  PROVE  WaitInv
<1>1. Busy = {} /\ \A l \in Lane : waited[l] = 0 /\ credit[l] = 0
  BY DEF SchedulerInit, Busy
<1>2. AccountInv
  <2>1. \A l \in Lane : 0 = 0 * Allowance(l)
    BY AllowanceType
  <2>2. 1 \in Lane
    BY DEF Lane
  <2> QED
    BY <1>1, <2>1, <2>2 DEF AccountInv
<1>3. \A l, k : ~ Overdue(l, k)
  BY <1>1 DEF Overdue
<1> QED
  BY <1>2, <1>3, Zenon DEF WaitInv, NormalInv, BulkInv, BackgroundInv

LEMMA WaitInvKept ==
  ASSUME WaitInv, UNCHANGED scheduler
  PROVE  WaitInv'
<1>1. queue' = queue /\ credit' = credit /\ waited' = waited
  BY DEF scheduler
<1> QED
  BY <1>1 DEF WaitInv, TypeOK, AccountInv, NormalInv, BulkInv, BackgroundInv,
              Overdue, Batches, Busy, Allowance

LEMMA WaitInvariant ==
  ASSUME ItemsHaveLength, SharesFit
  PROVE  Spec => []WaitInv
<1>1. SchedulerInit /\ TypeOK => WaitInv
  BY WaitInvInit
<1>2. WaitInv /\ TypeOK' /\ [SchedulerNext]_scheduler => WaitInv'
  <2>1. SUFFICES ASSUME WaitInv, TypeOK', [SchedulerNext]_scheduler PROVE WaitInv'
    OBVIOUS
  <2>2. ASSUME NEW l \in Lane, NEW len \in Lengths, Push(l, <<len>>) PROVE WaitInv'
    <3>1. <<len>> \in Seq(Lengths) /\ <<len>> # <<>>
      OBVIOUS
    <3> QED
      BY <2>1, <2>2, <3>1, WaitInvPush
  <2>3. ASSUME NextBatch PROVE WaitInv'
    BY <2>1, <2>3, WaitInvBatch
  <2> QED
    BY <2>1, <2>2, <2>3, WaitInvKept DEF SchedulerNext
<1> QED
  BY <1>1, <1>2, LaneSchedulerTypeCorrect, PTL DEF Spec

\* Nothing overdue is within everybody's patience.
LEMMA WaitBound ==
  ASSUME WaitInv, ItemsHaveLength
  PROVE  BoundedWait
<1>1. SUFFICES ASSUME NEW l \in Busy
               PROVE  waited[l] <= Patience(l, Head(queue[l]))
  BY DEF BoundedWait
<1>0. TypeOK
  BY DEF WaitInv
<1>2. l \in Lane
  BY DEF Busy
<1>3. PICK b \in Nat, w \in Nat : b = Batches(l) /\ w = waited[l]
  BY <1>0, <1>1, <1>2, BatchesType DEF TypeOK
<1>4. Patience(l, Head(queue[l])) = b + <<0, 1, 3>>[l]
  BY <1>3 DEF Patience, Batches
<1>5. \A k \in Nat : ~ Overdue(l, k) => w < b + k
  BY <1>1, <1>3 DEF Overdue
<1>6. CASE l = 1
  <2>1. w < b + 1
    BY <1>1, <1>5, <1>6 DEF WaitInv, NormalInv
  <2> QED
    BY <1>3, <1>4, <1>6, <2>1
<1>7. CASE l = 2
  <2>1. w < b + 2
    BY <1>1, <1>5, <1>7 DEF WaitInv, BulkInv
  <2> QED
    BY <1>3, <1>4, <1>7, <2>1
<1>8. CASE l = 3
  <2>1. w < b + 4
    BY <1>1, <1>5, <1>8 DEF WaitInv, BackgroundInv
  <2> QED
    BY <1>3, <1>4, <1>8, <2>1
<1> QED
  BY <1>2, <1>6, <1>7, <1>8 DEF Lane

(* No lane starves, whatever is pushed: its head leaves within the batches  *)
(* that bank its length, one more for Bulk and three more for Background    *)
(* (the credit of LaneScheduler::settle_credits, which seeds the batch of   *)
(* next_batch).                                                             *)
THEOREM LaneBoundedWait ==
  ASSUME ItemsHaveLength, SharesFit
  PROVE  Spec => []BoundedWait
<1>1. WaitInv => BoundedWait
  BY WaitBound
<1> QED
  BY <1>1, WaitInvariant, PTL

(* The shares of LANE_RESERVE fit every batch of two bytes or more.         *)
THEOREM ReserveFits ==
  ASSUME Reserve = <<70, 20, 10>>, MaxBatch >= 2
  PROVE  SharesFit
<1>1. PICK m \in Nat : m = MaxBatch /\ m >= 2
  BY SchedulerAssumption
<1>2. ASSUME NEW x \in Nat
      PROVE  /\ Max({1, x}) \in Nat
             /\ x >= 1 => Max({1, x}) = x
             /\ x < 1 => Max({1, x}) = 1
  <2>1. \E y \in {1, x} : \A z \in {1, x} : y >= z
    <3>1. CASE x >= 1
      BY <3>1
    <3>2. CASE ~ (x >= 1)
      BY <3>2
    <3> QED
      BY <3>1, <3>2
  <2>2. Max({1, x}) \in {1, x} /\ \A z \in {1, x} : Max({1, x}) >= z
    BY <2>1, Zenon DEF Max
  <2>3. PICK a \in {1, x} : a = Max({1, x}) /\ a >= 1 /\ a >= x
    BY <2>2
  <2> QED
    BY <2>3
<1>3. PICK u \in Nat, v \in Nat : u = (m * 70) \div 100 /\ v = (m * 20) \div 100
  BY SMT
<1>4. 100 * u <= 70 * m /\ 100 * v <= 20 * m
  BY <1>3
<1>5. Allowance(1) = Max({1, u}) /\ Allowance(2) = Max({1, v})
  BY <1>1, <1>3 DEF Allowance
<1>6. PICK a \in Nat, b \in Nat : a = Max({1, u}) /\ b = Max({1, v})
  BY <1>2
<1>7. (u >= 1 => a = u) /\ (u < 1 => a = 1) /\ (v >= 1 => b = v) /\ (v < 1 => b = 1)
  BY <1>2, <1>6
<1>8. a + b <= m
  BY <1>1, <1>4, <1>7
<1> QED
  BY <1>1, <1>5, <1>6, <1>8 DEF SharesFit
=============================================================================
