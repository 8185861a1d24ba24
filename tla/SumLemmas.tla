----------------------------- MODULE SumLemmas ------------------------------
(***************************************************************************)
(* Sums of a function of numbers over a finite set (SumFunctionOnSet of    *)
(* the module Functions), and induction over the numbers, stated for a     *)
(* set rather than for an operator.                                        *)
(***************************************************************************)
EXTENDS Functions, FiniteSetTheorems, TLAPS

LEMMA Induction ==
  ASSUME NEW T, 0 \in T, \A n \in Nat : n \in T => n + 1 \in T
  PROVE  \A n \in Nat : n \in T
<1> DEFINE R == OpToRel(<, Nat)
           F == {n \in Nat : n \notin T}
<1>1. SUFFICES ASSUME F # {} PROVE FALSE
  OBVIOUS
<1>2. IsWellFoundedOn(R, Nat)
  BY NatLessThanWellFounded
<1>3. PICK m \in F : \A n \in F : ~ (<<n, m>> \in R)
  <2>1. F \subseteq Nat
    OBVIOUS
  <2> HIDE DEF F, R
  <2> QED
    BY <1>1, <1>2, <2>1, WFMin
<1>4. m \in Nat /\ m # 0
  OBVIOUS
<1>5. m - 1 \in Nat /\ <<m - 1, m>> \in R
  BY <1>4 DEF OpToRel
<1>6. m - 1 \in T
  BY <1>3, <1>5
<1>7. (m - 1) + 1 \in T
  BY <1>5, <1>6
<1> QED
  BY <1>4, <1>7

Pick(s) == CHOOSE x \in s : TRUE

LEMMA PickIn == \A s : s # {} => Pick(s) \in s
  BY DEF Pick

\* The recursion of the sum, as a function of the subsets of D.
Adds(f, D, it) ==
  it = [s \in SUBSET D |-> IF s = {} THEN 0 ELSE f[Pick(s)] + it[s \ {Pick(s)}]]

LEMMA Smaller ==
  ASSUME NEW s, IsFiniteSet(s), NEW x \in s, NEW n \in Nat, Cardinality(s) = n + 1
  PROVE  IsFiniteSet(s \ {x}) /\ Cardinality(s \ {x}) = n
<1>1. IsFiniteSet(s \ {x}) /\ Cardinality(s \ {x}) = Cardinality(s) - 1
  BY FS_RemoveElement
<1> QED
  BY <1>1

LEMMA AddsExists ==
  ASSUME NEW f, NEW D, IsFiniteSet(D)
  PROVE  \E it : Adds(f, D, it)
<1> DEFINE T == {n \in Nat : \E h : \A s \in SUBSET D : Cardinality(s) <= n =>
                   h[s] = IF s = {} THEN 0 ELSE f[Pick(s)] + h[s \ {Pick(s)}]}
<1>1. \A s \in SUBSET D : IsFiniteSet(s) /\ Cardinality(s) \in Nat
  BY FS_Subset, FS_CardinalityType
<1>2. 0 \in T
  <2>1. \A s \in SUBSET D : Cardinality(s) <= 0 => s = {}
    BY <1>1, FS_EmptySet
  <2>2. PICK h : h = [s \in SUBSET D |-> 0]
    OBVIOUS
  <2> QED
    BY <2>1, <2>2
<1>3. ASSUME NEW n \in Nat, n \in T PROVE n + 1 \in T
  <2>1. PICK h : \A s \in SUBSET D : Cardinality(s) <= n =>
                   h[s] = IF s = {} THEN 0 ELSE f[Pick(s)] + h[s \ {Pick(s)}]
    BY <1>3
  <2>2. PICK g : g = [s \in SUBSET D |->
                        IF s = {} THEN 0 ELSE f[Pick(s)] + h[s \ {Pick(s)}]]
    OBVIOUS
  <2>3. ASSUME NEW s \in SUBSET D, Cardinality(s) <= n PROVE g[s] = h[s]
    BY <2>1, <2>2, <2>3
  <2>4. ASSUME NEW s \in SUBSET D, Cardinality(s) <= n + 1, s # {}
        PROVE  g[s \ {Pick(s)}] = h[s \ {Pick(s)}]
    <3>1. PICK x \in s : x = Pick(s)
      BY <2>4, PickIn
    <3>2. Cardinality(s \ {x}) = Cardinality(s) - 1
      BY <1>1, FS_RemoveElement
    <3>3. Cardinality(s \ {x}) <= n
      BY <1>1, <2>4, <3>2
    <3>4. s \ {x} \in SUBSET D
      OBVIOUS
    <3>5. g[s \ {x}] = h[s \ {x}]
      BY <2>3, <3>3, <3>4
    <3> QED
      BY <3>1, <3>5
  <2>5. \A s \in SUBSET D : Cardinality(s) <= n + 1 =>
          g[s] = IF s = {} THEN 0 ELSE f[Pick(s)] + g[s \ {Pick(s)}]
    BY <2>2, <2>4, Zenon
  <2>6. \E i : \A s \in SUBSET D : Cardinality(s) <= n + 1 =>
          i[s] = IF s = {} THEN 0 ELSE f[Pick(s)] + i[s \ {Pick(s)}]
    BY <2>5, Zenon
  <2>7. n + 1 \in Nat
    OBVIOUS
  <2> QED
    BY <2>6, <2>7, Zenon
<1>4. \A n \in Nat : n \in T
  <2> HIDE DEF T
  <2> QED
    BY <1>2, <1>3, Induction
<1>5. Cardinality(D) \in Nat /\ \A s \in SUBSET D : Cardinality(s) <= Cardinality(D)
  BY FS_Subset, FS_CardinalityType
<1>6. PICK h : \A s \in SUBSET D : Cardinality(s) <= Cardinality(D) =>
                 h[s] = IF s = {} THEN 0 ELSE f[Pick(s)] + h[s \ {Pick(s)}]
  BY <1>4, <1>5
<1>7. PICK it : it = [s \in SUBSET D |-> h[s]]
  OBVIOUS
<1>8. \A s \in SUBSET D : s \ {Pick(s)} \in SUBSET D
  OBVIOUS
<1>9. it = [s \in SUBSET D |-> IF s = {} THEN 0 ELSE f[Pick(s)] + it[s \ {Pick(s)}]]
  BY <1>5, <1>6, <1>7, <1>8, Zenon
<1> QED
  BY <1>9 DEF Adds

LEMMA SumAdds ==
  ASSUME NEW f, NEW D, IsFiniteSet(D)
  PROVE  \E it : Adds(f, D, it) /\ SumFunctionOnSet(f, D) = it[D]
<1>1. PICK it : it = CHOOSE i : i = [s \in SUBSET D |->
                  IF s = {} THEN 0 ELSE f[CHOOSE x \in s : TRUE] + i[s \ {CHOOSE x \in s : TRUE}]]
  OBVIOUS
<1>2. SumFunctionOnSet(f, D) = it[D]
  BY <1>1 DEF SumFunctionOnSet, FoldFunctionOnSet, MapThenFoldSet
<1>3. \E i : i = [s \in SUBSET D |->
                  IF s = {} THEN 0 ELSE f[CHOOSE x \in s : TRUE] + i[s \ {CHOOSE x \in s : TRUE}]]
  <2>1. PICK i : Adds(f, D, i)
    BY AddsExists
  <2>2. i = [s \in SUBSET D |->
               IF s = {} THEN 0 ELSE f[CHOOSE x \in s : TRUE] + i[s \ {CHOOSE x \in s : TRUE}]]
    BY <2>1 DEF Adds, Pick
  <2> QED
    BY <2>2, Zenon
<1>4. Adds(f, D, it)
  BY <1>1, <1>3, Zenon DEF Adds, Pick
<1> QED
  BY <1>2, <1>4

LEMMA AddsNone ==
  ASSUME NEW f, NEW D, NEW it, Adds(f, D, it)
  PROVE  it[{}] = 0
<1>1. {} \in SUBSET D
  OBVIOUS
<1>2. it[{}] = IF {} = {} THEN 0 ELSE f[Pick({})] + it[{} \ {Pick({})}]
  BY <1>1, Zenon DEF Adds
<1> QED
  BY <1>2

LEMMA AddsPick ==
  ASSUME NEW f, NEW D, NEW it, Adds(f, D, it), NEW s \in SUBSET D, NEW x \in s, x = Pick(s)
  PROVE  it[s] = f[x] + it[s \ {x}]
<1>1. it[s] = IF s = {} THEN 0 ELSE f[Pick(s)] + it[s \ {Pick(s)}]
  BY Zenon DEF Adds
<1> QED
  BY <1>1

\* The sums of the subsets depend on the values in them alone.
LEMMA AddsAgree ==
  ASSUME NEW f, NEW D, NEW i, Adds(f, D, i),
         NEW g, NEW E, NEW j, Adds(g, E, j),
         NEW S, IsFiniteSet(S), S \subseteq D, S \subseteq E, \A x \in S : f[x] = g[x]
  PROVE  i[S] = j[S]
<1> DEFINE T == {n \in Nat : \A s \in SUBSET S : Cardinality(s) = n => i[s] = j[s]}
<1>1. \A s \in SUBSET S : IsFiniteSet(s) /\ Cardinality(s) \in Nat
  BY FS_Subset, FS_CardinalityType
<1>2. 0 \in T
  <2>1. SUFFICES ASSUME NEW s \in SUBSET S, Cardinality(s) = 0 PROVE i[s] = j[s]
    OBVIOUS
  <2>2. s = {}
    BY <1>1, <2>1, FS_EmptySet
  <2>3. i[s] = 0 /\ j[s] = 0
    BY <2>2, AddsNone
  <2> QED
    BY <2>3
<1>3. ASSUME NEW n \in Nat, n \in T PROVE n + 1 \in T
  <2>1. SUFFICES ASSUME NEW s \in SUBSET S, Cardinality(s) = n + 1 PROVE i[s] = j[s]
    OBVIOUS
  <2>2. s # {}
    <3>1. Cardinality({}) = 0
      BY FS_EmptySet
    <3> QED
      BY <2>1, <3>1
  <2>3. PICK x \in s : x = Pick(s)
    BY <2>2, PickIn
  <2>4. Cardinality(s \ {x}) = n
    BY <1>1, <2>1, Smaller
  <2>5. s \ {x} \in SUBSET S
    OBVIOUS
  <2>6. i[s \ {x}] = j[s \ {x}]
    BY <1>3, <2>4, <2>5
  <2>7. i[s] = f[x] + i[s \ {x}]
    <3>1. s \in SUBSET D
      OBVIOUS
    <3> QED
      BY <2>3, <3>1, AddsPick
  <2>8. j[s] = g[x] + j[s \ {x}]
    <3>1. s \in SUBSET E
      OBVIOUS
    <3> QED
      BY <2>3, <3>1, AddsPick
  <2> QED
    BY <2>6, <2>7, <2>8
<1>4. \A n \in Nat : n \in T
  <2> HIDE DEF T
  <2> QED
    BY <1>2, <1>3, Induction
<1>5. S \in SUBSET S /\ Cardinality(S) \in Nat
  BY <1>1
<1> QED
  BY <1>4, <1>5

LEMMA AddsType ==
  ASSUME NEW f, NEW D, IsFiniteSet(D), NEW it, Adds(f, D, it), \A x \in D : f[x] \in Nat
  PROVE  \A s \in SUBSET D : it[s] \in Nat
<1> DEFINE T == {n \in Nat : \A s \in SUBSET D : Cardinality(s) = n => it[s] \in Nat}
<1>1. \A s \in SUBSET D : IsFiniteSet(s) /\ Cardinality(s) \in Nat
  BY FS_Subset, FS_CardinalityType
<1>2. 0 \in T
  <2>1. SUFFICES ASSUME NEW s \in SUBSET D, Cardinality(s) = 0 PROVE it[s] \in Nat
    OBVIOUS
  <2>2. s = {}
    BY <1>1, <2>1, FS_EmptySet
  <2>3. it[s] = 0
    BY <2>2, AddsNone
  <2> QED
    BY <2>3
<1>3. ASSUME NEW n \in Nat, n \in T PROVE n + 1 \in T
  <2>1. SUFFICES ASSUME NEW s \in SUBSET D, Cardinality(s) = n + 1 PROVE it[s] \in Nat
    OBVIOUS
  <2>2. s # {}
    <3>1. Cardinality({}) = 0
      BY FS_EmptySet
    <3> QED
      BY <2>1, <3>1
  <2>3. PICK x \in s : x = Pick(s)
    BY <2>2, PickIn
  <2>4. Cardinality(s \ {x}) = n
    BY <1>1, <2>1, Smaller
  <2>5. s \ {x} \in SUBSET D
    OBVIOUS
  <2>6. it[s \ {x}] \in Nat
    BY <1>3, <2>4, <2>5
  <2>7. it[s] = f[x] + it[s \ {x}]
    BY <2>3, AddsPick
  <2>8. f[x] \in Nat
    OBVIOUS
  <2> QED
    BY <2>6, <2>7, <2>8
<1>4. \A n \in Nat : n \in T
  <2> HIDE DEF T
  <2> QED
    BY <1>2, <1>3, Induction
<1> QED
  BY <1>1, <1>4

\* Any element can be the one that is added last.
LEMMA AddsAny ==
  ASSUME NEW f, NEW D, IsFiniteSet(D), NEW it, Adds(f, D, it), \A x \in D : f[x] \in Nat
  PROVE  \A s \in SUBSET D : \A y \in s : it[s] = f[y] + it[s \ {y}]
<1> DEFINE T == {n \in Nat : \A s \in SUBSET D : Cardinality(s) = n =>
                   \A y \in s : it[s] = f[y] + it[s \ {y}]}
<1>1. \A s \in SUBSET D : IsFiniteSet(s) /\ Cardinality(s) \in Nat
  BY FS_Subset, FS_CardinalityType
<1>2. 0 \in T
  <2>1. \A s \in SUBSET D : Cardinality(s) = 0 => s = {}
    BY <1>1, FS_EmptySet
  <2> QED
    BY <2>1
<1>3. ASSUME NEW n \in Nat, n \in T PROVE n + 1 \in T
  <2>1. SUFFICES ASSUME NEW s \in SUBSET D, Cardinality(s) = n + 1, NEW y \in s
                 PROVE  it[s] = f[y] + it[s \ {y}]
    OBVIOUS
  <2>2. s # {}
    OBVIOUS
  <2>3. PICK x \in s : x = Pick(s)
    BY <2>2, PickIn
  <2>4. it[s] = f[x] + it[s \ {x}]
    BY <2>3, AddsPick
  <2>5. CASE x = y
    BY <2>4, <2>5
  <2>6. CASE x # y
    <3>1. PICK u, v, w : u = s \ {x} /\ v = s \ {y} /\ w = u \ {y}
      OBVIOUS
    <3>2. u \in SUBSET D /\ v \in SUBSET D /\ w \in SUBSET D /\ y \in u /\ x \in v
      BY <2>1, <2>6, <3>1
    <3>3. w = v \ {x}
      BY <3>1, Zenon
    <3>4. Cardinality(u) = n /\ Cardinality(v) = n
      BY <1>1, <2>1, <3>1, Smaller
    <3>5. it[u] = f[y] + it[w]
      BY <1>3, <3>1, <3>2, <3>4
    <3>6. it[v] = f[x] + it[w]
      BY <1>3, <3>2, <3>3, <3>4
    <3>7. it[w] \in Nat /\ f[x] \in Nat /\ f[y] \in Nat
      BY <3>2, AddsType
    <3>8. it[s] = f[x] + it[u]
      BY <2>4, <3>1
    <3>9. it[s] = f[y] + it[v]
      BY <3>5, <3>6, <3>7, <3>8
    <3> QED
      BY <3>1, <3>9
  <2> QED
    BY <2>5, <2>6
<1>4. \A n \in Nat : n \in T
  <2> HIDE DEF T
  <2> QED
    BY <1>2, <1>3, Induction
<1> QED
  BY <1>1, <1>4

-----------------------------------------------------------------------------
(* What the sum is.                                                         *)

LEMMA SumEmpty ==
  ASSUME NEW f
  PROVE  SumFunctionOnSet(f, {}) = 0
<1>1. IsFiniteSet({})
  BY FS_EmptySet
<1>2. PICK it : Adds(f, {}, it) /\ SumFunctionOnSet(f, {}) = it[{}]
  BY <1>1, SumAdds
<1>3. it[{}] = 0
  BY <1>2, AddsNone
<1> QED
  BY <1>2, <1>3

LEMMA SumType ==
  ASSUME NEW f, NEW S, IsFiniteSet(S), \A x \in S : f[x] \in Nat
  PROVE  SumFunctionOnSet(f, S) \in Nat
<1>1. PICK it : Adds(f, S, it) /\ SumFunctionOnSet(f, S) = it[S]
  BY SumAdds
<1>2. it[S] \in Nat
  BY <1>1, AddsType
<1> QED
  BY <1>1, <1>2

LEMMA SumSame ==
  ASSUME NEW f, NEW g, NEW S, IsFiniteSet(S), \A x \in S : f[x] = g[x]
  PROVE  SumFunctionOnSet(f, S) = SumFunctionOnSet(g, S)
<1>1. PICK i : Adds(f, S, i) /\ SumFunctionOnSet(f, S) = i[S]
  BY SumAdds
<1>2. PICK j : Adds(g, S, j) /\ SumFunctionOnSet(g, S) = j[S]
  BY SumAdds
<1>3. i[S] = j[S]
  BY <1>1, <1>2, AddsAgree
<1> QED
  BY <1>1, <1>2, <1>3

LEMMA SumWithout ==
  ASSUME NEW f, NEW S, IsFiniteSet(S), \A x \in S : f[x] \in Nat, NEW y \in S
  PROVE  SumFunctionOnSet(f, S) = f[y] + SumFunctionOnSet(f, S \ {y})
<1>1. IsFiniteSet(S \ {y})
  BY FS_RemoveElement
<1>2. PICK i : Adds(f, S, i) /\ SumFunctionOnSet(f, S) = i[S]
  BY SumAdds
<1>3. PICK j : Adds(f, S \ {y}, j) /\ SumFunctionOnSet(f, S \ {y}) = j[S \ {y}]
  BY <1>1, SumAdds
<1>4. i[S \ {y}] = j[S \ {y}]
  <2>1. S \ {y} \subseteq S /\ S \ {y} \subseteq S \ {y}
    OBVIOUS
  <2> QED
    BY <1>1, <1>2, <1>3, <2>1, AddsAgree
<1>5. i[S] = f[y] + i[S \ {y}]
  <2>1. S \in SUBSET S
    OBVIOUS
  <2> QED
    BY <1>2, <2>1, AddsAny
<1> QED
  BY <1>2, <1>3, <1>4, <1>5

\* A new element adds its value, a changed one the difference.
LEMMA SumWith ==
  ASSUME NEW f, NEW g, NEW S, IsFiniteSet(S), NEW y, y \notin S,
         \A x \in S : f[x] \in Nat /\ g[x] = f[x], g[y] \in Nat
  PROVE  /\ IsFiniteSet(S \cup {y})
         /\ SumFunctionOnSet(g, S \cup {y}) = SumFunctionOnSet(f, S) + g[y]
<1>1. PICK U : U = S \cup {y}
  OBVIOUS
<1>2. IsFiniteSet(U) /\ y \in U /\ U \ {y} = S
  BY <1>1, FS_AddElement
<1>3. \A x \in U : g[x] \in Nat
  BY <1>1
<1>4. SumFunctionOnSet(g, U) = g[y] + SumFunctionOnSet(g, U \ {y})
  BY <1>2, <1>3, SumWithout
<1>5. SumFunctionOnSet(f, S) = SumFunctionOnSet(g, S)
  BY SumSame
<1>6. SumFunctionOnSet(f, S) \in Nat
  BY SumType
<1>7. g[y] + SumFunctionOnSet(f, S) = SumFunctionOnSet(f, S) + g[y]
  BY <1>6
<1> QED
  BY <1>1, <1>2, <1>4, <1>5, <1>7

LEMMA SumDrop ==
  ASSUME NEW f, NEW g, NEW S, IsFiniteSet(S), NEW y \in S,
         \A x \in S : f[x] \in Nat, \A x \in S \ {y} : g[x] = f[x]
  PROVE  /\ IsFiniteSet(S \ {y})
         /\ f[y] <= SumFunctionOnSet(f, S)
         /\ SumFunctionOnSet(g, S \ {y}) = SumFunctionOnSet(f, S) - f[y]
<1>1. IsFiniteSet(S \ {y})
  BY FS_RemoveElement
<1>2. SumFunctionOnSet(f, S) = f[y] + SumFunctionOnSet(f, S \ {y})
  BY SumWithout
<1>3. SumFunctionOnSet(f, S \ {y}) = SumFunctionOnSet(g, S \ {y})
  BY <1>1, SumSame
<1>4. SumFunctionOnSet(f, S \ {y}) \in Nat
  BY <1>1, SumType
<1> QED
  BY <1>1, <1>2, <1>3, <1>4

LEMMA SumChange ==
  ASSUME NEW f, NEW g, NEW S, IsFiniteSet(S), NEW y \in S,
         \A x \in S : f[x] \in Nat, \A x \in S \ {y} : g[x] = f[x], g[y] \in Nat
  PROVE  SumFunctionOnSet(g, S) = SumFunctionOnSet(f, S) - f[y] + g[y]
<1>1. \A x \in S : g[x] \in Nat
  OBVIOUS
<1>2. SumFunctionOnSet(g, S) = g[y] + SumFunctionOnSet(g, S \ {y})
  BY <1>1, SumWithout
<1>3. SumFunctionOnSet(g, S \ {y}) = SumFunctionOnSet(f, S) - f[y]
  BY SumDrop
<1>4. SumFunctionOnSet(f, S) \in Nat
  BY SumType
<1> QED
  BY <1>2, <1>3, <1>4
=============================================================================
