---------------------------- MODULE DataInduction ----------------------------
(***************************************************************************)
(* What the folds of the community modules compute, for every input.  The  *)
(* induction theorems of the proof library take an operator, which the     *)
(* provers cannot instantiate; these lemmas have the induction from the    *)
(* strict subsets of a finite set being well founded (a fact about sets    *)
(* alone) and a counterexample that is minimal.                            *)
(***************************************************************************)
EXTENDS Filtering, FiniteSets, FiniteSetsExt, FiniteSetTheorems, SequenceTheorems, TLAPS

\* Any set of parts of a finite set has a minimal part: the strict subsets of a finite
\* set are well founded.
LEMMA Minimal ==
    ASSUME NEW S, IsFiniteSet(S), NEW B, B \subseteq SUBSET S, B # {}
    PROVE  \E T \in B : \A U \in B : ~(U \subseteq T /\ U # T)
<1>1. B \subseteq FiniteSubsetsOf(S)
  BY FS_FiniteSubsetsOfFinite
<1>2. IsWellFoundedOn(StrictSubsetOrdering(S), FiniteSubsetsOf(S))
  BY FS_StrictSubsetOrderingWellFounded
<1>3. \E T \in B : \A U \in B : ~(<<U, T>> \in StrictSubsetOrdering(S))
  BY <1>1, <1>2, WFMin
<1>4. QED
  BY <1>3 DEF StrictSubsetOrdering

\* Any set of natural numbers has a least one, for 1..n grows with n.
LEMMA LeastNumber ==
    ASSUME NEW B, B \subseteq Nat, B # {}
    PROVE  \E n \in B : \A m \in B : n <= m
<1>1. PICK k \in B : TRUE
  OBVIOUS
<1>2. IsFiniteSet(1..k)
  BY FS_Interval
<1> DEFINE C == {1..n : n \in {m \in B : m <= k}}
<1>3. C \subseteq SUBSET (1..k) /\ C # {}
  <2>1. k \in {m \in B : m <= k}
    OBVIOUS
  <2>2. \A n \in {m \in B : m <= k} : 1..n \subseteq 1..k
    OBVIOUS
  <2>3. QED
    BY <2>1, <2>2
<1>4. PICK T \in C : \A U \in C : ~(U \subseteq T /\ U # T)
  <2> DEFINE R == 1..k
  <2>1. IsFiniteSet(R) /\ C \subseteq SUBSET R /\ C # {}
    BY <1>2, <1>3
  <2> HIDE DEF C, R
  <2>2. QED
    BY <2>1, Minimal
<1>5. PICK n \in B : n <= k /\ T = 1..n
  OBVIOUS
<1>6. ASSUME NEW m \in B, m < n
      PROVE  FALSE
  <2>1. (1..m) \in C /\ 1..m \subseteq 1..n
    BY <1>5, <1>6
  <2>2. n \in 1..n /\ n \notin 1..m
    BY <1>5, <1>6
  <2>3. 1..m # 1..n
    BY <2>2
  <2>4. QED
    BY <1>4, <1>5, <2>1, <2>3
<1>7. QED
  BY <1>5, <1>6

-----------------------------------------------------------------------------
\* it is a function on the subsets of S that starts from base at the empty set and
\* takes one step for every element, in the order of choice c.
Computes(it, S, T, base, c, g) ==
    /\ it \in [SUBSET S -> T]
    /\ it[{}] = base
    /\ \A s \in SUBSET S : s # {} => it[s] = g[<<s, it[s \ {c[s]}]>>]

\* Two such functions on parts of F agree where both are defined: at a minimal part at
\* which they did not, one step would.
LEMMA ComputesAgree ==
    ASSUME NEW F, IsFiniteSet(F), NEW T, NEW base \in T, NEW c, NEW g,
           \A s \in SUBSET F : s # {} => c[s] \in s,
           NEW S1 \in SUBSET F, NEW i1, Computes(i1, S1, T, base, c, g),
           NEW S2 \in SUBSET F, NEW i2, Computes(i2, S2, T, base, c, g)
    PROVE  \A s \in (SUBSET S1) \cap (SUBSET S2) : i1[s] = i2[s]
<1> DEFINE B == {s \in (SUBSET S1) \cap (SUBSET S2) : i1[s] # i2[s]}
<1> SUFFICES ASSUME B # {} PROVE FALSE
  OBVIOUS
<1>1. B \subseteq SUBSET F
  OBVIOUS
<1>2. PICK s \in B : \A u \in B : ~(u \subseteq s /\ u # s)
  <2> HIDE DEF B
  <2> QED
    BY <1>1, Minimal
<1>3. s # {}
  BY DEF Computes
<1>4. c[s] \in s
  BY <1>1, <1>3
<1>5. s \ {c[s]} \notin B
  BY <1>2, <1>4
<1>6. i1[s \ {c[s]}] = i2[s \ {c[s]}]
  BY <1>5
<1>7. i1[s] = i2[s]
  BY <1>3, <1>6 DEF Computes
<1>8. QED
  BY <1>7

\* There is such a function on all of F: it is the step applied to those on the smaller
\* parts, which agree.
LEMMA FoldExists ==
    ASSUME NEW F, IsFiniteSet(F), NEW T, NEW base \in T, NEW c,
           \A s \in SUBSET F : s # {} => c[s] \in s,
           NEW g \in [(SUBSET F) \X T -> T]
    PROVE  \E it : Computes(it, F, T, base, c, g)
<1> DEFINE Has(S) == \E it : Computes(it, S, T, base, c, g)
           B == {S \in SUBSET F : ~ Has(S)}
<1> SUFFICES ASSUME B # {} PROVE FALSE
  <2>1. F \notin B => Has(F)
    BY DEF Computes
  <2>2. QED
    BY <2>1
<1>1. PICK S \in B : \A U \in B : ~(U \subseteq S /\ U # S)
  <2>1. B \subseteq SUBSET F
    OBVIOUS
  <2> HIDE DEF B
  <2> QED
    BY <2>1, Minimal
<1> DEFINE h == [U \in SUBSET S |-> CHOOSE it : Computes(it, U, T, base, c, g)]
<1>2. ASSUME NEW U \in SUBSET S, U # S
      PROVE  Computes(h[U], U, T, base, c, g)
  <2>1. U \notin B /\ U \in SUBSET F
    BY <1>1, <1>2
  <2>2. Has(U)
    BY <2>1
  <2>3. h[U] = CHOOSE it : Computes(it, U, T, base, c, g)
    OBVIOUS
  <2> HIDE DEF h
  <2>4. QED
    BY <2>2, <2>3
<1> DEFINE it == [s \in SUBSET S |-> IF s = {} THEN base
                                     ELSE g[<<s, h[s \ {c[s]}][s \ {c[s]}]>>]]
<1>3. ASSUME NEW s \in SUBSET S, s # {}
      PROVE  /\ s \ {c[s]} \in SUBSET S /\ s \ {c[s]} # S
             /\ h[s \ {c[s]}][s \ {c[s]}] \in T
             /\ s \in SUBSET F /\ c[s] \in s
  <2>1. s \in SUBSET F
    BY <1>1
  <2>2. c[s] \in s
    BY <1>3, <2>1
  <2>3. s \ {c[s]} \in SUBSET S /\ s \ {c[s]} # S
    BY <2>2
  <2>4. Computes(h[s \ {c[s]}], s \ {c[s]}, T, base, c, g)
    BY <1>2, <2>3
  <2> HIDE DEF h
  <2>5. QED
    BY <2>1, <2>2, <2>3, <2>4 DEF Computes
<1> HIDE DEF h
<1>4. it \in [SUBSET S -> T]
  <2>1. ASSUME NEW s \in SUBSET S, s # {}
        PROVE  g[<<s, h[s \ {c[s]}][s \ {c[s]}]>>] \in T
    <3>1. <<s, h[s \ {c[s]}][s \ {c[s]}]>> \in (SUBSET F) \X T
      BY <1>3, <2>1
    <3>2. QED
      BY <3>1
  <2>2. QED
    BY <2>1
<1>5. it[{}] = base
  OBVIOUS
<1>6. ASSUME NEW s \in SUBSET S, s # {}
      PROVE  it[s] = g[<<s, it[s \ {c[s]}]>>]
  <2> DEFINE u == s \ {c[s]}
  <2>1. u \in SUBSET S /\ u # S
    BY <1>3, <1>6
  <2>2. Computes(h[u], u, T, base, c, g)
    BY <1>2, <2>1
  <2>3. it[s] = g[<<s, h[u][u]>>]
    BY <1>6
  <2>4. CASE u = {}
    BY <2>2, <2>3, <2>4 DEF Computes
  <2>5. CASE u # {}
    <3> DEFINE v == u \ {c[u]}
    <3>1. v \in SUBSET S /\ v # S /\ c[u] \in u
      BY <1>3, <2>1, <2>5
    <3>2. Computes(h[v], v, T, base, c, g)
      BY <1>2, <3>1
    <3>3. h[u][u] = g[<<u, h[u][v]>>]
      BY <2>2, <2>5 DEF Computes
    <3>4. h[u][v] = h[v][v]
      <4>1. S \in SUBSET F
        BY <1>1
      <4>2. u \in SUBSET F /\ v \in SUBSET F /\ v \in (SUBSET u) \cap (SUBSET v)
        BY <4>1, <2>1, <3>1
      <4> DEFINE i1 == h[u]
                 i2 == h[v]
      <4>a. Computes(i1, u, T, base, c, g) /\ Computes(i2, v, T, base, c, g)
        BY <2>2, <3>2
      <4> HIDE DEF u, v, i1, i2
      <4>b. \A s1 \in (SUBSET u) \cap (SUBSET v) : i1[s1] = i2[s1]
        BY <4>a, <4>2, ComputesAgree
      <4>3. \A s1 \in (SUBSET u) \cap (SUBSET v) : h[u][s1] = h[v][s1]
        BY <4>b DEF i1, i2
      <4>4. QED
        BY <4>2, <4>3
    <3>5. it[u] = g[<<u, h[v][v]>>]
      BY <2>1, <2>5
    <3>6. QED
      BY <2>3, <3>3, <3>4, <3>5
  <2>6. QED
    BY <2>4, <2>5
<1>7. Computes(it, S, T, base, c, g)
  BY <1>4, <1>5, <1>6 DEF Computes
<1>8. QED
  BY <1>1, <1>7
-----------------------------------------------------------------------------
\* The sum of d over F.
SumOf(d, F) == MapThenSumSet(LAMBDA x : d[x], F)

\* The function that MapThenSumSet computes with.
Summing(it, d, F) ==
    it = [s \in SUBSET F |-> IF s = {} THEN 0
                             ELSE d[CHOOSE x \in s : TRUE] + it[s \ {CHOOSE x \in s : TRUE}]]

\* The function MapThenSumSet chooses exists, and its values are numbers.
LEMMA SumUnfolds ==
    ASSUME NEW F, IsFiniteSet(F), NEW d, \A x \in F : d[x] \in Nat
    PROVE  \E it \in [SUBSET F -> Nat] : Summing(it, d, F) /\ SumOf(d, F) = it[F]
<1> DEFINE c == [s \in SUBSET F |-> CHOOSE x \in s : TRUE]
           g == [sv \in (SUBSET F) \X Nat |-> IF sv[1] = {} THEN 0 ELSE d[c[sv[1]]] + sv[2]]
<1>1. \A s \in SUBSET F : s # {} => c[s] \in s
  OBVIOUS
<1>2. g \in [(SUBSET F) \X Nat -> Nat]
  <2>1. ASSUME NEW sv \in (SUBSET F) \X Nat, sv[1] # {}
        PROVE  d[c[sv[1]]] + sv[2] \in Nat
    <3>1. c[sv[1]] \in F
      BY <1>1, <2>1
    <3>2. QED
      BY <3>1
  <2> HIDE DEF c
  <2>2. QED
    BY <2>1
<1>3. PICK f : Computes(f, F, Nat, 0, c, g)
  <2> HIDE DEF c, g
  <2> QED
    BY <1>1, <1>2, FoldExists
<1>4. ASSUME NEW s \in SUBSET F, s # {}
      PROVE  f[s] = d[c[s]] + f[s \ {c[s]}]
  <2>0. f \in [SUBSET F -> Nat]
    BY <1>3 DEF Computes
  <2>2. f[s] = g[<<s, f[s \ {c[s]}]>>]
    BY <1>3, <1>4 DEF Computes
  <2> HIDE DEF c
  <2>1. <<s, f[s \ {c[s]}]>> \in (SUBSET F) \X Nat
    BY <2>0
  <2>3. QED
    BY <1>4, <2>1, <2>2
<1>5. Summing(f, d, F)
  <2>1. f \in [SUBSET F -> Nat] /\ f[{}] = 0
    BY <1>3 DEF Computes
  <2>2. \A s \in SUBSET F : f[s] = IF s = {} THEN 0
             ELSE d[CHOOSE x \in s : TRUE] + f[s \ {CHOOSE x \in s : TRUE}]
    BY <1>4, <2>1
  <2>3. QED
    BY <2>1, <2>2 DEF Summing
<1>6. SumOf(d, F) = (CHOOSE it : Summing(it, d, F))[F]
  BY DEF SumOf, MapThenSumSet, MapThenFoldSet, Summing
<1>7. PICK it : it = (CHOOSE i : Summing(i, d, F)) /\ Summing(it, d, F)
  BY <1>5
<1> DEFINE B == {s \in SUBSET F : it[s] # f[s]}
<1>8. B = {}
  <2> SUFFICES ASSUME B # {} PROVE FALSE
    OBVIOUS
  <2>1. PICK s \in B : \A u \in B : ~(u \subseteq s /\ u # s)
    <3>1. B \subseteq SUBSET F
      OBVIOUS
    <3> HIDE DEF B
    <3> QED
      BY <3>1, Minimal
  <2>2. s # {}
    BY <1>5, <1>7 DEF Summing
  <2>3. c[s] \in s /\ s \ {c[s]} \notin B
    BY <1>1, <2>1, <2>2
  <2>4. it[s] = d[c[s]] + it[s \ {c[s]}]
    BY <1>7, <2>2 DEF Summing
  <2>5. it[s \ {c[s]}] = f[s \ {c[s]}]
    BY <2>3
  <2>6. QED
    BY <1>4, <2>2, <2>4, <2>5
<1>9. it \in [SUBSET F -> Nat]
  <2>1. it = [s \in SUBSET F |-> it[s]]
    BY <1>7 DEF Summing
  <2>2. \A s \in SUBSET F : it[s] = f[s]
    BY <1>8
  <2>3. f \in [SUBSET F -> Nat]
    BY <1>3 DEF Computes
  <2>4. QED
    BY <2>1, <2>2, <2>3
<1>10. QED
  BY <1>6, <1>7, <1>9

\* The sums over the parts of G are the same whether computed with G or with F.
LEMMA SumsAgree ==
    ASSUME NEW F, IsFiniteSet(F), NEW d, \A x \in F : d[x] \in Nat, NEW G \in SUBSET F,
           NEW i, Summing(i, d, F), NEW j, Summing(j, d, G)
    PROVE  \A s \in SUBSET G : i[s] = j[s]
<1> DEFINE B == {s \in SUBSET G : i[s] # j[s]}
<1> SUFFICES ASSUME B # {} PROVE FALSE
  OBVIOUS
<1>1. B \subseteq SUBSET F
  OBVIOUS
<1>2. PICK s \in B : \A u \in B : ~(u \subseteq s /\ u # s)
  <2> HIDE DEF B
  <2> QED
    BY <1>1, Minimal
<1>3. s # {}
  BY DEF Summing
<1>4. PICK x : x = (CHOOSE y \in s : TRUE)
  OBVIOUS
<1>5. x \in s
  BY <1>3, <1>4
<1>6. s \ {x} \notin B
  BY <1>2, <1>5
<1>7. i[s \ {x}] = j[s \ {x}]
  BY <1>6
<1>8. i[s] = d[x] + i[s \ {x}] /\ j[s] = d[x] + j[s \ {x}]
  BY <1>1, <1>3, <1>4 DEF Summing
<1>9. QED
  BY <1>7, <1>8

\* The sum over a part of a set is computed as the sum over it alone.
LEMMA SumOfPart ==
    ASSUME NEW F, IsFiniteSet(F), NEW d, \A x \in F : d[x] \in Nat,
           NEW it, Summing(it, d, F), NEW G \in SUBSET F
    PROVE  SumOf(d, G) = it[G]
<1>1. IsFiniteSet(G) /\ \A x \in G : d[x] \in Nat
  BY FS_Subset
<1>2. PICK j \in [SUBSET G -> Nat] : Summing(j, d, G) /\ SumOf(d, G) = j[G]
  BY <1>1, SumUnfolds
<1>3. \A s \in SUBSET G : it[s] = j[s]
  BY <1>2, SumsAgree
<1>4. QED
  BY <1>2, <1>3

\* A sum of numbers is a number.
LEMMA SumType ==
    ASSUME NEW F, IsFiniteSet(F), NEW d, \A x \in F : d[x] \in Nat
    PROVE  SumOf(d, F) \in Nat
<1>1. PICK it \in [SUBSET F -> Nat] : SumOf(d, F) = it[F]
  BY SumUnfolds
<1>2. QED
  BY <1>1

\* The sum of nothing is zero.
LEMMA SumOfNone == \A d : SumOf(d, {}) = 0
<1>1. IsFiniteSet({})
  BY FS_EmptySet
<1>2. QED
  BY <1>1, SumUnfolds DEF Summing

\* A sum may be taken in any order.
LEMMA SumTake ==
    ASSUME NEW F, IsFiniteSet(F), NEW d, \A x \in F : d[x] \in Nat, NEW x \in F
    PROVE  SumOf(d, F) = d[x] + SumOf(d, F \ {x})
<1>1. PICK it \in [SUBSET F -> Nat] : Summing(it, d, F) /\ SumOf(d, F) = it[F]
  BY SumUnfolds
<1> DEFINE B == {s \in SUBSET F : \E y \in s : it[s] # d[y] + it[s \ {y}]}
<1>2. B = {}
  <2> SUFFICES ASSUME B # {} PROVE FALSE
    OBVIOUS
  <2>1. PICK s \in B : \A u \in B : ~(u \subseteq s /\ u # s)
    <3>1. B \subseteq SUBSET F
      OBVIOUS
    <3> HIDE DEF B
    <3> QED
      BY <3>1, Minimal
  <2>2. PICK y \in s : it[s] # d[y] + it[s \ {y}]
    OBVIOUS
  <2>3. PICK z : z = (CHOOSE w \in s : TRUE)
    OBVIOUS
  <2>4. z \in s /\ it[s] = d[z] + it[s \ {z}]
    BY <1>1, <2>2, <2>3 DEF Summing
  <2>5. y # z
    BY <2>2, <2>4
  <2>6. s \ {y} \notin B /\ s \ {z} \notin B
    BY <2>1, <2>4
  <2>7. it[s \ {y}] = d[z] + it[(s \ {y}) \ {z}]
    BY <2>4, <2>5, <2>6
  <2>8. it[s \ {z}] = d[y] + it[(s \ {z}) \ {y}]
    BY <2>2, <2>5, <2>6
  <2>9. (s \ {y}) \ {z} = (s \ {z}) \ {y}
    OBVIOUS
  <2>10. d[y] \in Nat /\ d[z] \in Nat /\ it[(s \ {y}) \ {z}] \in Nat
    BY <1>1, <2>4
  <2>11. ASSUME NEW a \in Nat, NEW b \in Nat, NEW r \in Nat, NEW p, NEW q, p = b + r, q = a + r
         PROVE  a + p = b + q
    BY <2>11
  <2>12. d[y] + it[s \ {y}] = d[z] + it[s \ {z}]
    <3> DEFINE a == d[y]
               b == d[z]
               r == it[(s \ {y}) \ {z}]
               p == it[s \ {y}]
               q == it[s \ {z}]
    <3>1. a \in Nat /\ b \in Nat /\ r \in Nat /\ p = b + r /\ q = a + r
      BY <2>7, <2>8, <2>9, <2>10
    <3> HIDE DEF a, b, r, p, q
    <3>2. a + p = b + q
      BY <2>11, <3>1
    <3> USE DEF a, b, r, p, q
    <3>3. QED
      BY <3>2
  <2>13. QED
    BY <2>2, <2>4, <2>12
<1>3. it[F] = d[x] + it[F \ {x}]
  BY <1>2
<1>4. SumOf(d, F \ {x}) = it[F \ {x}]
  BY <1>1, SumOfPart
<1>5. QED
  BY <1>1, <1>3, <1>4

\* A sum depends on the terms only.
LEMMA SumSame ==
    ASSUME NEW F, IsFiniteSet(F), NEW d, NEW e, \A x \in F : d[x] \in Nat /\ e[x] = d[x]
    PROVE  SumOf(d, F) = SumOf(e, F)
<1> DEFINE B == {s \in SUBSET F : SumOf(d, s) # SumOf(e, s)}
<1> SUFFICES ASSUME B # {} PROVE FALSE
  OBVIOUS
<1>1. PICK s \in B : \A u \in B : ~(u \subseteq s /\ u # s)
  <2>1. B \subseteq SUBSET F
    OBVIOUS
  <2> HIDE DEF B
  <2> QED
    BY <2>1, Minimal
<1>2. s # {}
  BY SumOfNone
<1>3. PICK x \in s : TRUE
  BY <1>2
<1>4. s \ {x} \notin B
  BY <1>1
<1>5. IsFiniteSet(s)
  BY FS_Subset
<1>6. SumOf(d, s) = d[x] + SumOf(d, s \ {x}) /\ SumOf(e, s) = e[x] + SumOf(e, s \ {x})
  BY <1>5, SumTake
<1>7. QED
  BY <1>4, <1>6
-----------------------------------------------------------------------------
\* Max, which the community modules choose, is the greatest of some of the first numbers.
LEMMA MaxOfNumbers ==
    ASSUME NEW n \in Nat, NEW S \in SUBSET (1..n), S # {}
    PROVE  Max(S) \in S /\ \A y \in S : y <= Max(S)
<1> DEFINE B == {n - x : x \in S}
<1>0. \A x \in S : x \in Nat /\ n - x \in Nat
  OBVIOUS
<1>1. B \subseteq Nat /\ B # {}
  BY <1>0
<1>2. PICK b \in B : \A a \in B : b <= a
  <2> HIDE DEF B
  <2> QED
    BY <1>1, LeastNumber
<1>3. PICK x \in S : b = n - x
  OBVIOUS
<1>4. \A y \in S : n - y \in B
  OBVIOUS
<1>5. ASSUME NEW y \in S
      PROVE  x >= y
  <2>1. n - x <= n - y
    BY <1>2, <1>3, <1>4
  <2> HIDE DEF B
  <2>2. QED
    BY <1>0, <2>1
<1>6. \E z : z \in S /\ \A y \in S : z >= y
  BY <1>5
<1>7. Max(S) \in S /\ \A y \in S : Max(S) >= y
  BY <1>6 DEF Max
<1>8. QED
  BY <1>7

\* The function that FoldLeft computes Filtered with.
Filters(it, s, keep) ==
    it = [p \in SUBSET DOMAIN s |->
             IF p = {} THEN <<>>
             ELSE IF s[Max(p)] \in keep THEN Append(it[p \ {Max(p)}], s[Max(p)])
                  ELSE it[p \ {Max(p)}]]

\* What Filtered stands for.
LEMMA FilteredUnfolds == \A s, keep : Filtered(s, keep) = (CHOOSE it : Filters(it, s, keep))[DOMAIN s]
BY DEF Filtered, FoldLeft, MapThenFoldSet, Filters

\* The function Filtered chooses exists.
LEMMA FiltersExists ==
    ASSUME NEW T, NEW s \in Seq(T), NEW keep
    PROVE  \E it : Filters(it, s, keep)
<1> DEFINE F == DOMAIN s
           c == [p \in SUBSET F |-> Max(p)]
           g == [pv \in (SUBSET F) \X Seq(T) |->
                    IF pv[1] # {} /\ s[c[pv[1]]] \in keep THEN Append(pv[2], s[c[pv[1]]]) ELSE pv[2]]
<1>1. F = 1..Len(s) /\ Len(s) \in Nat /\ IsFiniteSet(F)
  BY FS_Interval
<1>2. \A p \in SUBSET F : p # {} => c[p] \in p
  BY <1>1, MaxOfNumbers
<1>3. g \in [(SUBSET F) \X Seq(T) -> Seq(T)]
  <2>1. ASSUME NEW pv \in (SUBSET F) \X Seq(T), pv[1] # {}
        PROVE  Append(pv[2], s[c[pv[1]]]) \in Seq(T)
    <3>1. c[pv[1]] \in F
      BY <1>2, <2>1
    <3> HIDE DEF c
    <3>2. QED
      BY <3>1
  <2> HIDE DEF c, F
  <2>2. QED
    BY <2>1
<1>4. PICK f : Computes(f, F, Seq(T), <<>>, c, g)
  <2>1. <<>> \in Seq(T)
    OBVIOUS
  <2> HIDE DEF c, g, F
  <2> QED
    BY <1>1, <1>2, <1>3, <2>1, FoldExists
<1>5. f \in [SUBSET F -> Seq(T)] /\ f[{}] = <<>>
  BY <1>4 DEF Computes
<1>6. ASSUME NEW p \in SUBSET F, p # {}
      PROVE  f[p] = IF s[Max(p)] \in keep THEN Append(f[p \ {Max(p)}], s[Max(p)])
                    ELSE f[p \ {Max(p)}]
  <2>1. f[p] = g[<<p, f[p \ {c[p]}]>>]
    BY <1>4, <1>6 DEF Computes
  <2>2. c[p] = Max(p)
    OBVIOUS
  <2> HIDE DEF c, F
  <2>3. <<p, f[p \ {c[p]}]>> \in (SUBSET F) \X Seq(T)
    BY <1>5
  <2>4. QED
    BY <1>6, <2>1, <2>2, <2>3
<1>7. QED
  BY <1>5, <1>6 DEF Filters

\* A fold from the left takes the greatest index last.
LEMMA Recede ==
    ASSUME NEW n \in Nat, NEW i \in 1..n
    PROVE  /\ 1..i \in SUBSET (1..n) /\ 1..i # {} /\ Max(1..i) = i /\ (1..i) \ {i} = 1..(i - 1)
           /\ 1..(i - 1) \in SUBSET (1..n)
<1>1. i \in 1..i /\ 1..i \in SUBSET (1..n) /\ 1..(i - 1) \in SUBSET (1..n)
  OBVIOUS
<1>2. Max(1..i) \in 1..i /\ \A y \in 1..i : y <= Max(1..i)
  <2> DEFINE S == 1..i
  <2>1. S \in SUBSET (1..n) /\ S # {}
    BY <1>1
  <2> HIDE DEF S
  <2>2. Max(S) \in S /\ \A y \in S : y <= Max(S)
    BY <2>1, MaxOfNumbers
  <2>3. QED
    BY <2>2 DEF S
<1>3. Max(1..i) = i
  BY <1>1, <1>2
<1>4. QED
  BY <1>1, <1>3

\* The elements kept of the first i.
LEMMA FilteredStep ==
    ASSUME NEW T, NEW s \in Seq(T), NEW keep, NEW it, Filters(it, s, keep)
    PROVE  /\ it[1..0] = <<>>
           /\ \A i \in 1..Len(s) : it[1..i] = IF s[i] \in keep THEN Append(it[1..(i - 1)], s[i])
                                             ELSE it[1..(i - 1)]
<1>1. DOMAIN s = 1..Len(s) /\ Len(s) \in Nat
  OBVIOUS
<1>2. 1..0 = {}
  OBVIOUS
<1>3. it[1..0] = <<>>
  BY <1>2 DEF Filters
<1>4. ASSUME NEW i \in 1..Len(s)
      PROVE  it[1..i] = IF s[i] \in keep THEN Append(it[1..(i - 1)], s[i]) ELSE it[1..(i - 1)]
  <2> DEFINE p == 1..i
             q == 1..(i - 1)
  <2>1. p \in SUBSET DOMAIN s /\ p # {} /\ Max(p) = i /\ p \ {i} = q
    BY <1>1, Recede
  <2> HIDE DEF p, q
  <2>2. it[p] = IF s[i] \in keep THEN Append(it[q], s[i]) ELSE it[q]
    BY <2>1 DEF Filters
  <2>3. QED
    BY <2>2 DEF p, q
<1>5. QED
  BY <1>3, <1>4

\* Induction on sequences, for a set of them: what holds of the empty sequence and stays
\* true when an element is appended holds of all.
LEMMA SequenceInduction ==
    ASSUME NEW T, NEW P, <<>> \in P,
           \A s \in Seq(T) : s \in P => \A x \in T : Append(s, x) \in P
    PROVE  Seq(T) \subseteq P
<1> DEFINE B == {n \in Nat : \E s \in Seq(T) : s \notin P /\ Len(s) = n}
<1> SUFFICES ASSUME NEW t \in Seq(T), t \notin P PROVE FALSE
  OBVIOUS
<1>1. B \subseteq Nat /\ Len(t) \in B
  OBVIOUS
<1>2. PICK n \in B : \A m \in B : n <= m
  <2> HIDE DEF B
  <2> QED
    BY <1>1, LeastNumber
<1>3. PICK s \in Seq(T) : s \notin P /\ Len(s) = n
  OBVIOUS
<1>4. Len(s) # 0
  BY <1>3
<1> DEFINE r == SubSeq(s, 1, n - 1)
<1>5. r \in Seq(T) /\ Len(r) = n - 1 /\ s[n] \in T /\ s = Append(r, s[n]) /\ n - 1 \in Nat
  BY <1>3, <1>4
<1>6. n - 1 \notin B
  BY <1>2
<1>7. r \in P
  <2> HIDE DEF r
  <2> QED
    BY <1>5, <1>6
<1>8. QED
  <2> HIDE DEF r
  <2> QED
    BY <1>3, <1>5, <1>7

\* Induction on numbers, for a set of them.
LEMMA NaturalInduction ==
    ASSUME NEW P, 0 \in P, \A n \in Nat : n \in P => n + 1 \in P
    PROVE  Nat \subseteq P
<1> DEFINE B == {n \in Nat : n \notin P}
<1> SUFFICES ASSUME B # {} PROVE FALSE
  OBVIOUS
<1>1. PICK n \in B : \A m \in B : n <= m
  <2>1. B \subseteq Nat
    OBVIOUS
  <2> HIDE DEF B
  <2> QED
    BY <2>1, LeastNumber
<1>2. n # 0 /\ n - 1 \in Nat /\ n - 1 \notin B
  BY <1>1
<1>3. n - 1 \in P /\ (n - 1) + 1 = n
  BY <1>2
<1>4. QED
  BY <1>2, <1>3

\* Nothing is kept of nothing.
LEMMA FilteredOfNone == \A keep : Filtered(<<>>, keep) = <<>>
<1> TAKE keep
<1>1. PICK it : it = (CHOOSE i : Filters(i, <<>>, keep)) /\ Filters(it, <<>>, keep)
  <2>1. <<>> \in Seq({})
    OBVIOUS
  <2>2. QED
    BY <2>1, FiltersExists
<1>2. Filtered(<<>>, keep) = it[{}]
  BY <1>1, FilteredUnfolds
<1>3. QED
  BY <1>1, <1>2 DEF Filters

\* An element appended is kept or not, and changes nothing else.
LEMMA FilteredOfAppend ==
    ASSUME NEW T, NEW s \in Seq(T), NEW x \in T, NEW keep
    PROVE  Filtered(Append(s, x), keep) = IF x \in keep THEN Append(Filtered(s, keep), x) ELSE Filtered(s, keep)
<1> DEFINE t == Append(s, x)
<1>1. t \in Seq(T) /\ Len(t) = Len(s) + 1 /\ t[Len(t)] = x /\ \A i \in 1..Len(s) : t[i] = s[i]
  OBVIOUS
<1> HIDE DEF t
<1>2. PICK f : f = (CHOOSE i : Filters(i, s, keep)) /\ Filters(f, s, keep)
  BY FiltersExists
<1>3. PICK g : g = (CHOOSE i : Filters(i, t, keep)) /\ Filters(g, t, keep)
  BY <1>1, FiltersExists
<1> DEFINE P == {i \in Nat : i <= Len(s) => f[1..i] = g[1..i]}
<1>4. Nat \subseteq P
  <2>1. 0 \in P
    BY <1>1, <1>2, <1>3, FilteredStep
  <2>2. ASSUME NEW i \in Nat, i \in P
        PROVE  i + 1 \in P
    <3>1. SUFFICES ASSUME i + 1 <= Len(s) PROVE f[1..(i + 1)] = g[1..(i + 1)]
      OBVIOUS
    <3>2. f[1..i] = g[1..i] /\ (i + 1) - 1 = i /\ i + 1 \in 1..Len(s) /\ i + 1 \in 1..Len(t)
      BY <1>1, <2>2, <3>1
    <3>3. f[1..(i + 1)] = IF s[i + 1] \in keep THEN Append(f[1..i], s[i + 1]) ELSE f[1..i]
      BY <1>2, <3>2, FilteredStep
    <3>4. g[1..(i + 1)] = IF t[i + 1] \in keep THEN Append(g[1..i], t[i + 1]) ELSE g[1..i]
      BY <1>1, <1>3, <3>2, FilteredStep
    <3>5. QED
      BY <1>1, <3>2, <3>3, <3>4
  <2> HIDE DEF P
  <2>3. QED
    BY <2>1, <2>2, NaturalInduction
<1>5. Len(s) \in Nat /\ Len(t) \in 1..Len(t) /\ Len(t) - 1 = Len(s)
  BY <1>1
<1>6. f[1..Len(s)] = g[1..Len(s)]
  BY <1>4, <1>5
<1>7. g[1..Len(t)] = IF x \in keep THEN Append(g[1..Len(s)], x) ELSE g[1..Len(s)]
  BY <1>1, <1>3, <1>5, FilteredStep
<1>8. Filtered(s, keep) = f[1..Len(s)] /\ Filtered(t, keep) = g[1..Len(t)]
  BY <1>1, <1>2, <1>3, FilteredUnfolds
<1>9. QED
  BY <1>6, <1>7, <1>8 DEF t

\* What is kept are elements of the list, and no more than it has.
LEMMA FilteredType ==
    ASSUME NEW T, NEW keep
    PROVE  \A s \in Seq(T) : Filtered(s, keep) \in Seq(T) /\ Len(Filtered(s, keep)) <= Len(s)
<1> DEFINE P == {s \in Seq(T) : Filtered(s, keep) \in Seq(T) /\ Len(Filtered(s, keep)) <= Len(s)}
<1>1. <<>> \in P
  <2> DEFINE e == <<>>
  <2>1. e \in Seq(T) /\ Filtered(e, keep) = e
    BY FilteredOfNone
  <2> HIDE DEF e
  <2>2. e \in P
    BY <2>1
  <2>3. QED
    BY <2>2 DEF e
<1>2. ASSUME NEW s \in Seq(T), s \in P, NEW x \in T
      PROVE  Append(s, x) \in P
  <2>1. Filtered(Append(s, x), keep) \in {Append(Filtered(s, keep), x), Filtered(s, keep)}
    BY FilteredOfAppend
  <2>2. QED
    BY <1>2, <2>1
<1>3. Seq(T) \subseteq P
  <2> HIDE DEF P
  <2> QED
    BY <1>1, <1>2, SequenceInduction
<1>4. QED
  BY <1>3

\* An element appended to the second of two lists is appended to both.
LEMMA AppendNotInto ==
    ASSUME NEW T, NEW s \in Seq(T), NEW t \in Seq(T), NEW x \in T
    PROVE  s \o Append(t, x) = Append(s \o t, x)
OBVIOUS

\* What is kept of two lists, one after the other.
LEMMA FilteredOfConcat ==
    ASSUME NEW T, NEW keep, NEW s \in Seq(T)
    PROVE  \A t \in Seq(T) : Filtered(s \o t, keep) = Filtered(s, keep) \o Filtered(t, keep)
<1> DEFINE P == {t \in Seq(T) : Filtered(s \o t, keep) = Filtered(s, keep) \o Filtered(t, keep)}
<1>0. Filtered(s, keep) \in Seq(T)
  BY FilteredType
<1>1. <<>> \in P
  <2> DEFINE e == <<>>
  <2>1. e \in Seq(T) /\ Filtered(e, keep) = e
    BY FilteredOfNone
  <2>2. s \o e = s /\ \A r \in Seq(T) : r \o e = r
    OBVIOUS
  <2> HIDE DEF e
  <2>3. e \in P
    BY <1>0, <2>1, <2>2
  <2>4. QED
    BY <2>3 DEF e
<1>2. ASSUME NEW t \in Seq(T), t \in P, NEW x \in T
      PROVE  Append(t, x) \in P
  <2> DEFINE u == s \o t
             f == Filtered(s, keep)
             g == Filtered(t, keep)
  <2>1. u \in Seq(T) /\ s \o Append(t, x) = Append(u, x)
    OBVIOUS
  <2>2. f \in Seq(T) /\ g \in Seq(T)
    BY FilteredType
  <2>3. Filtered(u, keep) = f \o g
    BY <1>2
  <2>4. Filtered(Append(t, x), keep) = IF x \in keep THEN Append(g, x) ELSE g
    BY FilteredOfAppend
  <2> HIDE DEF u, f, g
  <2>5. Filtered(Append(u, x), keep) = IF x \in keep THEN Append(f \o g, x) ELSE f \o g
    BY <2>1, <2>3, FilteredOfAppend
  <2>9. \A a, b \in Seq(T) : a \o Append(b, x) = Append(a \o b, x)
    BY AppendNotInto
  <2>6. Filtered(s \o Append(t, x), keep) = f \o Filtered(Append(t, x), keep)
    <3>1. f \o Append(g, x) = Append(f \o g, x)
      BY <2>2, <2>9
    <3>2. QED
      BY <2>1, <2>4, <2>5, <3>1
  <2>7. Append(t, x) \in Seq(T)
    OBVIOUS
  <2>8. QED
    BY <2>6, <2>7 DEF f
<1>3. Seq(T) \subseteq P
  <2> HIDE DEF P
  <2> QED
    BY <1>1, <1>2, SequenceInduction
<1>4. QED
  BY <1>3

\* What is kept of one element.
LEMMA FilteredOfOne ==
    ASSUME NEW x, NEW keep
    PROVE  Filtered(<<x>>, keep) = IF x \in keep THEN <<x>> ELSE <<>>
<1> DEFINE e == <<>>
<1>1. e \in Seq({x}) /\ x \in {x} /\ Append(e, x) = <<x>>
  OBVIOUS
<1>2. Filtered(e, keep) = e
  BY FilteredOfNone
<1> HIDE DEF e
<1>3. Filtered(Append(e, x), keep) = IF x \in keep THEN Append(e, x) ELSE e
  <2>1. PICK T : T = {x}
    OBVIOUS
  <2>2. e \in Seq(T) /\ x \in T
    BY <1>1, <2>1
  <2>3. Filtered(Append(e, x), keep) = IF x \in keep THEN Append(Filtered(e, keep), x) ELSE Filtered(e, keep)
    BY <2>2, FilteredOfAppend
  <2>4. QED
    BY <1>2, <2>3
<1>4. QED
  BY <1>1, <1>3 DEF e

\* What is kept depends on which of the elements of the list are to be kept.
LEMMA FilteredSame ==
    ASSUME NEW T, NEW keep, NEW other
    PROVE  \A s \in Seq(T) : (\A i \in 1..Len(s) : s[i] \in keep <=> s[i] \in other)
                                 => Filtered(s, keep) = Filtered(s, other)
<1> DEFINE Alike(s) == \A i \in 1..Len(s) : s[i] \in keep <=> s[i] \in other
           P == {s \in Seq(T) : Alike(s) => Filtered(s, keep) = Filtered(s, other)}
<1>1. <<>> \in P
  <2> DEFINE e == <<>>
  <2>1. e \in Seq(T) /\ Filtered(e, keep) = e /\ Filtered(e, other) = e
    BY FilteredOfNone
  <2> HIDE DEF e
  <2>2. e \in P
    BY <2>1
  <2>3. QED
    BY <2>2 DEF e
<1>2. ASSUME NEW s \in Seq(T), s \in P, NEW x \in T
      PROVE  Append(s, x) \in P
  <2> DEFINE t == Append(s, x)
  <2>1. t \in Seq(T) /\ Len(t) = Len(s) + 1 /\ t[Len(t)] = x /\ Len(s) \in Nat
        /\ \A i \in 1..Len(s) : t[i] = s[i]
    OBVIOUS
  <2>2. /\ Filtered(t, keep) = IF x \in keep THEN Append(Filtered(s, keep), x) ELSE Filtered(s, keep)
        /\ Filtered(t, other) = IF x \in other THEN Append(Filtered(s, other), x) ELSE Filtered(s, other)
    BY FilteredOfAppend
  <2> HIDE DEF t
  <2>3. ASSUME Alike(t)
        PROVE  Alike(s) /\ (x \in keep <=> x \in other)
    <3>1. \A i \in 1..Len(s) : i \in 1..Len(t)
      BY <2>1
    <3>2. Len(t) \in 1..Len(t)
      BY <2>1
    <3>3. QED
      BY <2>1, <2>3, <3>1, <3>2
  <2>4. Alike(t) => Filtered(t, keep) = Filtered(t, other)
    BY <1>2, <2>2, <2>3
  <2>5. t \in P
    BY <2>1, <2>4
  <2>6. QED
    BY <2>5 DEF t
<1>3. Seq(T) \subseteq P
  <2> HIDE DEF P
  <2> QED
    BY <1>1, <1>2, SequenceInduction
<1>4. QED
  BY <1>3

\* A list keeps its own elements.
LEMMA FilteredByItself ==
    ASSUME NEW T, NEW s \in Seq(T), NEW keep, \A i \in 1..Len(s) : s[i] \in keep
    PROVE  Filtered(s, keep) = s
<1> DEFINE P == {t \in Seq(T) : Filtered(t, T) = t}
<1>1. <<>> \in P
  <2> DEFINE e == <<>>
  <2>1. e \in Seq(T) /\ Filtered(e, T) = e
    BY FilteredOfNone
  <2> HIDE DEF e
  <2>2. e \in P
    BY <2>1
  <2>3. QED
    BY <2>2 DEF e
<1>2. ASSUME NEW t \in Seq(T), t \in P, NEW x \in T
      PROVE  Append(t, x) \in P
  <2>1. Filtered(Append(t, x), T) = IF x \in T THEN Append(Filtered(t, T), x) ELSE Filtered(t, T)
    BY FilteredOfAppend
  <2>2. QED
    BY <1>2, <2>1
<1>3. Seq(T) \subseteq P
  <2> HIDE DEF P
  <2> QED
    BY <1>1, <1>2, SequenceInduction
<1>4. \A i \in 1..Len(s) : s[i] \in keep <=> s[i] \in T
  OBVIOUS
<1>5. QED
  BY <1>3, <1>4, FilteredSame

\* What is kept is what passes, and each of it comes from the list.
LEMMA FilteredElements ==
    ASSUME NEW T, NEW keep
    PROVE  \A s \in Seq(T) :
              /\ \A i \in 1..Len(Filtered(s, keep)) :
                    Filtered(s, keep)[i] \in keep /\ \E j \in 1..Len(s) : s[j] = Filtered(s, keep)[i]
              /\ \A j \in 1..Len(s) :
                    s[j] \in keep => \E i \in 1..Len(Filtered(s, keep)) : Filtered(s, keep)[i] = s[j]
<1> DEFINE From(f, s) == \A i \in 1..Len(f) : f[i] \in keep /\ \E j \in 1..Len(s) : s[j] = f[i]
           All(f, s) == \A j \in 1..Len(s) : s[j] \in keep => \E i \in 1..Len(f) : f[i] = s[j]
           P == {s \in Seq(T) : From(Filtered(s, keep), s) /\ All(Filtered(s, keep), s)}
<1>1. <<>> \in P
  <2> DEFINE e == <<>>
  <2>1. e \in Seq(T) /\ Filtered(e, keep) = e /\ Len(e) = 0
    BY FilteredOfNone
  <2> HIDE DEF e
  <2>2. From(e, e) /\ All(e, e)
    BY <2>1
  <2>3. e \in P
    BY <2>1, <2>2
  <2>4. QED
    BY <2>3 DEF e
<1>2. ASSUME NEW s \in Seq(T), s \in P, NEW x \in T
      PROVE  Append(s, x) \in P
  <2> DEFINE f == Filtered(s, keep)
             t == Append(s, x)
             g == Filtered(t, keep)
  <2>1. f \in Seq(T) /\ From(f, s) /\ All(f, s)
    BY <1>2, FilteredType
  <2>2. /\ t \in Seq(T) /\ Len(t) = Len(s) + 1 /\ t[Len(s) + 1] = x /\ Len(s) \in Nat
        /\ \A i \in 1..Len(s) : t[i] = s[i]
    OBVIOUS
  <2>3. g = IF x \in keep THEN Append(f, x) ELSE f
    BY FilteredOfAppend
  <2> HIDE DEF f, t, g
  <2>4. From(g, t) /\ All(g, t)
    <3>1. CASE x \in keep
      <4>1. /\ Len(g) = Len(f) + 1 /\ g[Len(f) + 1] = x /\ Len(f) \in Nat
            /\ \A i \in 1..Len(f) : g[i] = f[i]
        BY <2>1, <2>3, <3>1
      <4>2. From(g, t)
        <5> SUFFICES ASSUME NEW i \in 1..Len(g)
                     PROVE  g[i] \in keep /\ \E j \in 1..Len(t) : t[j] = g[i]
          OBVIOUS
        <5>1. CASE i = Len(f) + 1
          BY <2>2, <3>1, <4>1, <5>1
        <5>2. CASE i \in 1..Len(f)
          <6>1. PICK j \in 1..Len(s) : s[j] = f[i]
            BY <2>1, <5>2
          <6>2. f[i] \in keep /\ g[i] = f[i] /\ t[j] = s[j] /\ j \in 1..Len(t)
            BY <2>1, <2>2, <4>1, <5>2
          <6>3. QED
            BY <6>1, <6>2
        <5>3. QED
          BY <4>1, <5>1, <5>2
      <4>3. All(g, t)
        <5> SUFFICES ASSUME NEW j \in 1..Len(t), t[j] \in keep
                     PROVE  \E i \in 1..Len(g) : g[i] = t[j]
          OBVIOUS
        <5>1. CASE j = Len(s) + 1
          <6>1. Len(f) + 1 \in 1..Len(g)
            BY <4>1
          <6>2. QED
            BY <2>2, <4>1, <5>1, <6>1
        <5>2. CASE j \in 1..Len(s)
          <6>1. PICK i \in 1..Len(f) : f[i] = s[j]
            BY <2>1, <2>2, <5>2
          <6>2. i \in 1..Len(g) /\ g[i] = f[i] /\ t[j] = s[j]
            BY <2>2, <4>1, <5>2
          <6>3. QED
            BY <6>1, <6>2
        <5>3. QED
          BY <2>2, <5>1, <5>2
      <4>4. QED
        BY <4>2, <4>3
    <3>2. CASE x \notin keep
      <4>1. g = f
        BY <2>3, <3>2
      <4>2. From(g, t)
        <5> SUFFICES ASSUME NEW i \in 1..Len(f)
                     PROVE  f[i] \in keep /\ \E j \in 1..Len(t) : t[j] = f[i]
          BY <4>1
        <5>1. PICK j \in 1..Len(s) : s[j] = f[i]
          BY <2>1
        <5>2. f[i] \in keep /\ t[j] = s[j] /\ j \in 1..Len(t)
          BY <2>1, <2>2
        <5>3. QED
          BY <5>1, <5>2
      <4>3. All(g, t)
        <5> SUFFICES ASSUME NEW j \in 1..Len(t), t[j] \in keep
                     PROVE  \E i \in 1..Len(f) : f[i] = t[j]
          BY <4>1
        <5>1. j \in 1..Len(s)
          BY <2>2, <3>2
        <5>2. QED
          BY <2>1, <2>2, <5>1
      <4>4. QED
        BY <4>2, <4>3
    <3>3. QED
      BY <3>1, <3>2
  <2>5. t \in P
    BY <2>2, <2>4 DEF g
  <2>6. QED
    BY <2>5 DEF t
<1>3. Seq(T) \subseteq P
  <2> HIDE DEF P
  <2> QED
    BY <1>1, <1>2, SequenceInduction
<1>4. QED
  BY <1>3

\* No element of s comes twice.
Once(s) == \A i \in 1..Len(s) : \A j \in 1..Len(s) : s[i] = s[j] => i = j

\* What is kept of a list without repetitions has none.
LEMMA FilteredOnce ==
    ASSUME NEW T, NEW keep
    PROVE  \A s \in Seq(T) : Once(s) => Once(Filtered(s, keep))
<1> DEFINE P == {s \in Seq(T) : Once(s) => Once(Filtered(s, keep))}
<1>1. <<>> \in P
  <2> DEFINE e == <<>>
  <2>1. e \in Seq(T) /\ Filtered(e, keep) = e
    BY FilteredOfNone
  <2> HIDE DEF e
  <2>2. e \in P
    BY <2>1
  <2>3. QED
    BY <2>2 DEF e
<1>2. ASSUME NEW s \in Seq(T), s \in P, NEW x \in T
      PROVE  Append(s, x) \in P
  <2> DEFINE f == Filtered(s, keep)
             t == Append(s, x)
             g == Filtered(t, keep)
  <2>1. f \in Seq(T) /\ (Once(s) => Once(f))
    BY <1>2, FilteredType
  <2>2. /\ t \in Seq(T) /\ Len(t) = Len(s) + 1 /\ t[Len(s) + 1] = x /\ Len(s) \in Nat
        /\ \A i \in 1..Len(s) : t[i] = s[i]
    OBVIOUS
  <2>3. g = IF x \in keep THEN Append(f, x) ELSE f
    BY FilteredOfAppend
  <2>4. \A i \in 1..Len(f) : \E j \in 1..Len(s) : s[j] = f[i]
    BY FilteredElements
  <2> HIDE DEF f, t, g
  <2>5. ASSUME Once(t)
        PROVE  Once(g)
    <3>1. Once(s)
      BY <2>2, <2>5 DEF Once
    <3>2. CASE x \in keep
      <4>1. /\ Len(g) = Len(f) + 1 /\ g[Len(f) + 1] = x /\ Len(f) \in Nat
            /\ \A i \in 1..Len(f) : g[i] = f[i]
        BY <2>1, <2>3, <3>2
      <4>2. \A i \in 1..Len(f) : f[i] # x
        <5> SUFFICES ASSUME NEW i \in 1..Len(f), f[i] = x PROVE FALSE
          OBVIOUS
        <5>1. PICK j \in 1..Len(s) : s[j] = x
          BY <2>4
        <5>2. j \in 1..Len(t) /\ Len(s) + 1 \in 1..Len(t) /\ t[j] = t[Len(s) + 1]
          BY <2>2, <5>1
        <5>3. j = Len(s) + 1
          BY <2>5, <5>2 DEF Once
        <5>4. QED
          BY <2>2, <5>3
      <4> SUFFICES ASSUME NEW i \in 1..Len(g), NEW j \in 1..Len(g), g[i] = g[j] PROVE i = j
        BY DEF Once
      <4>3. CASE i \in 1..Len(f) /\ j \in 1..Len(f)
        BY <2>1, <3>1, <4>1, <4>3 DEF Once
      <4>4. (i \in 1..Len(f) \/ i = Len(f) + 1) /\ (j \in 1..Len(f) \/ j = Len(f) + 1)
        BY <4>1
      <4>5. QED
        BY <4>1, <4>2, <4>3, <4>4
    <3>3. CASE x \notin keep
      BY <2>1, <2>3, <3>1, <3>3
    <3>4. QED
      BY <3>2, <3>3
  <2>6. t \in P
    BY <2>2, <2>5 DEF g
  <2>7. QED
    BY <2>6 DEF t
<1>3. Seq(T) \subseteq P
  <2> HIDE DEF P
  <2> QED
    BY <1>1, <1>2, SequenceInduction
<1>4. QED
  BY <1>3

\* How many are kept.
LEMMA FilteredCount ==
    ASSUME NEW T, NEW keep
    PROVE  \A s \in Seq(T) : LET kept == {j \in 1..Len(s) : s[j] \in keep}
                             IN  IsFiniteSet(kept) /\ Cardinality(kept) = Len(Filtered(s, keep))
<1> DEFINE Kept(s) == {j \in 1..Len(s) : s[j] \in keep}
           P == {s \in Seq(T) : IsFiniteSet(Kept(s)) /\ Cardinality(Kept(s)) = Len(Filtered(s, keep))}
<1>1. <<>> \in P
  <2> DEFINE e == <<>>
  <2>1. e \in Seq(T) /\ Filtered(e, keep) = e /\ Len(e) = 0
    BY FilteredOfNone
  <2> HIDE DEF e
  <2>2. Kept(e) = {}
    BY <2>1
  <2>3. e \in P
    BY <2>1, <2>2, FS_EmptySet
  <2>4. QED
    BY <2>3 DEF e
<1>2. ASSUME NEW s \in Seq(T), s \in P, NEW x \in T
      PROVE  Append(s, x) \in P
  <2> DEFINE f == Filtered(s, keep)
             t == Append(s, x)
             g == Filtered(t, keep)
  <2>1. f \in Seq(T) /\ IsFiniteSet(Kept(s)) /\ Cardinality(Kept(s)) = Len(f) /\ Len(f) \in Nat
    <3>1. f \in Seq(T)
      BY FilteredType
    <3> HIDE DEF Kept
    <3>2. QED
      BY <1>2, <3>1
  <2>2. /\ t \in Seq(T) /\ Len(t) = Len(s) + 1 /\ t[Len(s) + 1] = x /\ Len(s) \in Nat
        /\ \A i \in 1..Len(s) : t[i] = s[i]
    OBVIOUS
  <2>3. g = IF x \in keep THEN Append(f, x) ELSE f
    BY FilteredOfAppend
  <2> HIDE DEF f, t, g
  <2>4. IsFiniteSet(Kept(t)) /\ Cardinality(Kept(t)) = Len(g)
    <3>1. CASE x \in keep
      <4>1. Kept(t) = Kept(s) \cup {Len(s) + 1} /\ Len(s) + 1 \notin Kept(s)
        BY <2>2, <3>1
      <4>2. Len(g) = Len(f) + 1
        BY <2>1, <2>3, <3>1
      <4> DEFINE K == Kept(s)
                 l == Len(s) + 1
      <4>3. IsFiniteSet(K) /\ Cardinality(K) = Len(f) /\ Kept(t) = K \cup {l} /\ l \notin K
        BY <2>1, <4>1
      <4> HIDE DEF Kept, K, l
      <4>4. IsFiniteSet(K \cup {l}) /\ Cardinality(K \cup {l}) = Cardinality(K) + 1
        BY <4>3, FS_AddElement
      <4>5. QED
        BY <2>1, <4>2, <4>3, <4>4
    <3>2. CASE x \notin keep
      <4>1. Kept(t) = Kept(s) /\ g = f
        BY <2>2, <2>3, <3>2
      <4> HIDE DEF Kept
      <4>2. QED
        BY <2>1, <4>1
    <3>3. QED
      BY <3>1, <3>2
  <2>5. t \in P
    <3> HIDE DEF Kept
    <3>1. QED
      BY <2>2, <2>4 DEF g
  <2>6. QED
    BY <2>5 DEF t
<1>3. Seq(T) \subseteq P
  <2> HIDE DEF P
  <2> QED
    BY <1>1, <1>2, SequenceInduction
<1>4. QED
  BY <1>3

\* The places of a list are places in it, each once, and no more of them than it is long.
LEMMA PlacesFacts ==
    ASSUME NEW T, NEW s \in Seq(T), NEW in
    PROVE  /\ Places(s, in) \in Seq(1..Len(s)) /\ Once(Places(s, in))
           /\ Len(Places(s, in)) \in Nat /\ Len(Places(s, in)) <= Len(s)
           /\ \A k \in 1..Len(Places(s, in)) : Places(s, in)[k] \in in /\ Places(s, in)[k] \in 1..Len(s)
           /\ \A i \in 1..Len(s) : i \in in => \E k \in 1..Len(Places(s, in)) : Places(s, in)[k] = i
<1> DEFINE n == Len(s)
           I == 1..n
           r == [i \in 1..n |-> i]
           p == Filtered(r, in)
<1>1. n \in Nat /\ DOMAIN s = 1..n
  OBVIOUS
<1>2. Places(s, in) = p
  BY <1>1 DEF Places
<1>3. r \in Seq(I) /\ Len(r) = n /\ \A i \in 1..n : r[i] = i
  <2> HIDE DEF n
  <2>1. r \in [1..n -> I]
    OBVIOUS
  <2> HIDE DEF I
  <2>2. QED
    BY <1>1, <2>1
<1> HIDE DEF r, n
<1>4. Once(r)
  BY <1>3 DEF Once
<1>5. p \in Seq(I) /\ Len(p) <= n /\ Once(p)
  <2> HIDE DEF I
  <2> QED
    BY <1>3, <1>4, FilteredType, FilteredOnce
<1>6. /\ \A k \in 1..Len(p) : p[k] \in in /\ \E j \in 1..Len(r) : r[j] = p[k]
      /\ \A j \in 1..Len(r) : r[j] \in in => \E k \in 1..Len(p) : p[k] = r[j]
  <2> HIDE DEF I
  <2>1. \A q \in Seq(I) :
           /\ \A k \in 1..Len(Filtered(q, in)) :
                 Filtered(q, in)[k] \in in /\ \E j \in 1..Len(q) : q[j] = Filtered(q, in)[k]
           /\ \A j \in 1..Len(q) :
                 q[j] \in in => \E k \in 1..Len(Filtered(q, in)) : Filtered(q, in)[k] = q[j]
    BY FilteredElements
  <2>2. QED
    BY <1>3, <2>1
<1>7. Len(p) \in Nat
  <2> HIDE DEF I, p
  <2> QED
    BY <1>5
<1> HIDE DEF p
<1>8. \A k \in 1..Len(p) : p[k] \in in /\ p[k] \in 1..n
  BY <1>3, <1>6
<1>9. \A i \in 1..n : i \in in => \E k \in 1..Len(p) : p[k] = i
  BY <1>3, <1>6
<1>10. QED
  BY <1>2, <1>5, <1>7, <1>8, <1>9 DEF n

\* Distinct has what the list has, each once.
LEMMA DistinctFacts ==
    ASSUME NEW T, NEW s \in Seq(T)
    PROVE  /\ Distinct(s) \in Seq(T) /\ Len(Distinct(s)) \in Nat /\ Len(Distinct(s)) <= Len(s)
           /\ Once(Distinct(s))
           /\ \A j \in 1..Len(s) : \E k \in 1..Len(Distinct(s)) : Distinct(s)[k] = s[j]
<1> DEFINE in == {i \in 1..Len(s) : \A j \in 1..(i - 1) : s[j] # s[i]}
           p == Places(s, in)
           m == Len(p)
           t == [k \in 1..m |-> s[p[k]]]
<1>1. Len(s) \in Nat /\ DOMAIN s = 1..Len(s) /\ \A i \in 1..Len(s) : s[i] \in T
  OBVIOUS
<1>2. /\ p \in Seq(1..Len(s)) /\ Once(p) /\ m \in Nat /\ m <= Len(s)
      /\ \A k \in 1..m : p[k] \in in /\ p[k] \in 1..Len(s)
      /\ \A i \in 1..Len(s) : i \in in => \E k \in 1..m : p[k] = i
  <2> HIDE DEF in
  <2> QED
    BY PlacesFacts
<1>3. Distinct(s) = t
  <2>1. DOMAIN s = 1..Len(s) /\ DOMAIN p = 1..m
    <3> HIDE DEF p
    <3> QED
      BY <1>1, <1>2
  <2>2. p = Places(s, {i \in DOMAIN s : \A j \in 1..(i - 1) : s[j] # s[i]})
    BY <2>1
  <2> HIDE DEF p
  <2>3. QED
    BY <2>1, <2>2 DEF Distinct
<1> HIDE DEF p, m
<1>4. t \in [1..m -> T]
  BY <1>1, <1>2
<1>5. t \in Seq(T) /\ Len(t) = m /\ \A k \in 1..m : t[k] = s[p[k]]
  <2> HIDE DEF t
  <2>1. t \in Seq(T) /\ Len(t) = m
    BY <1>2, <1>4
  <2>2. QED
    BY <2>1 DEF t
<1> HIDE DEF t
<1>6. Once(t)
  <2> SUFFICES ASSUME NEW k \in 1..m, NEW l \in 1..m, s[p[k]] = s[p[l]] PROVE k = l
    BY <1>5 DEF Once
  <2>1. PICK i \in 1..Len(s), j \in 1..Len(s) : i = p[k] /\ j = p[l] /\ i \in in /\ j \in in
    BY <1>2
  <2>2. s[i] = s[j]
    BY <2>1
  <2>3. ~ (i < j) /\ ~ (j < i)
    BY <1>1, <2>1, <2>2
  <2>4. i = j
    BY <1>1, <2>3
  <2>5. p[k] = p[l] /\ k \in 1..Len(p) /\ l \in 1..Len(p)
    BY <2>1, <2>4 DEF m
  <2>6. QED
    BY <1>2, <2>5 DEF Once
<1>7. ASSUME NEW j \in 1..Len(s)
      PROVE  \E k \in 1..m : t[k] = s[j]
  <2> DEFINE B == {i \in 1..Len(s) : s[i] = s[j]}
  <2>1. B \subseteq Nat /\ B # {}
    OBVIOUS
  <2>2. PICK i \in B : \A l \in B : i <= l
    <3> HIDE DEF B
    <3> QED
      BY <2>1, LeastNumber
  <2>3. i \in in
    BY <1>1, <2>2
  <2>4. PICK k \in 1..m : p[k] = i
    BY <1>2, <2>2, <2>3
  <2>5. QED
    BY <1>5, <2>2, <2>4
<1>8. QED
  BY <1>2, <1>3, <1>5, <1>6, <1>7

\* u is a, and then b.
Joined(u, a, b) == /\ Len(u) = Len(a) + Len(b) /\ Len(u) \in Nat /\ Len(a) \in Nat /\ Len(b) \in Nat
                   /\ \A i \in 1..Len(a) : u[i] = a[i]
                   /\ \A i \in 1..Len(b) : u[Len(a) + i] = b[i]

\* Concatenation joins.
LEMMA ConcatJoins ==
    ASSUME NEW T, NEW a \in Seq(T), NEW b \in Seq(T)
    PROVE  a \o b \in Seq(T) /\ Joined(a \o b, a, b)
BY DEF Joined

\* Where an element that is kept lands: after what is kept before it.
LEMMA FilteredAt ==
    ASSUME NEW T, NEW keep, NEW s \in Seq(T), NEW i \in 1..Len(s), s[i] \in keep
    PROVE  \E n \in Nat :
              /\ n = Cardinality({j \in 1..(i - 1) : s[j] \in keep})
              /\ n + 1 \in 1..Len(Filtered(s, keep))
              /\ Filtered(s, keep)[n + 1] = s[i]
<1> DEFINE pre == SubSeq(s, 1, i - 1)
           mid == <<s[i]>>
           post == SubSeq(s, i + 1, Len(s))
           a == Filtered(pre, keep)
           b == Filtered(post, keep)
<1>1. Len(s) \in Nat /\ \A j \in 1..Len(s) : s[j] \in T
  OBVIOUS
<1>2. /\ pre \in Seq(T) /\ Len(pre) = i - 1 /\ \A j \in 1..(i - 1) : pre[j] = s[j]
      /\ mid \in Seq(T) /\ Len(mid) = 1 /\ mid[1] = s[i]
      /\ post \in Seq(T)
  BY <1>1
<1>3. s = (pre \o mid) \o post /\ pre \o mid \in Seq(T)
  <2>1. Len(post) = Len(s) - i /\ \A j \in 1..(Len(s) - i) : post[j] = s[i + j]
    BY <1>1
  <2> HIDE DEF pre, mid, post
  <2> DEFINE v == pre \o mid
             u == v \o post
  <2>2. v \in Seq(T) /\ Joined(v, pre, mid)
    BY <1>2, ConcatJoins
  <2>3. u \in Seq(T) /\ Joined(u, v, post)
    <3> HIDE DEF v
    <3> QED
      BY <1>2, <2>2, ConcatJoins
  <2> HIDE DEF u, v
  <2>4. Len(v) = i /\ Len(u) = Len(s)
    BY <1>1, <1>2, <2>1, <2>2, <2>3 DEF Joined
  <2>5. ASSUME NEW j \in 1..Len(s)
        PROVE  s[j] = u[j]
    <3>1. CASE j < i
      <4>1. j \in 1..Len(pre) /\ j \in 1..Len(v)
        BY <1>1, <1>2, <2>4, <3>1
      <4>2. u[j] = v[j] /\ v[j] = pre[j]
        BY <2>2, <2>3, <4>1 DEF Joined
      <4>3. QED
        BY <1>2, <3>1, <4>2
    <3>2. CASE j = i
      <4>1. 1 \in 1..Len(mid) /\ Len(pre) + 1 = i /\ i \in 1..Len(v)
        BY <1>1, <1>2, <2>4
      <4>2. u[i] = v[i] /\ v[Len(pre) + 1] = mid[1]
        BY <2>2, <2>3, <4>1 DEF Joined
      <4>3. QED
        BY <1>2, <3>2, <4>1, <4>2
    <3>3. CASE j > i
      <4>1. PICK k \in 1..(Len(s) - i) : j = i + k
        <5>1. j - i \in 1..(Len(s) - i) /\ j = i + (j - i)
          BY <1>1, <3>3
        <5>2. QED
          BY <5>1
      <4>2. u[Len(v) + k] = post[k] /\ Len(v) + k = j
        BY <1>1, <2>1, <2>3, <2>4, <4>1 DEF Joined
      <4>3. QED
        BY <2>1, <4>1, <4>2
    <3>4. QED
      BY <1>1, <3>1, <3>2, <3>3
  <2>6. s = u
    BY <2>3, <2>4, <2>5, SeqEqual
  <2>7. QED
    BY <2>2, <2>6 DEF u, v
<1>4. a \in Seq(T) /\ b \in Seq(T)
  <2> HIDE DEF pre, post
  <2> QED
    BY <1>2, FilteredType
<1>5. Filtered(mid, keep) = mid
  BY FilteredOfOne
<1> HIDE DEF pre, mid, post
<1>6. Filtered(s, keep) = (a \o mid) \o b
  <2>1. Filtered(pre \o mid, keep) = Filtered(pre, keep) \o Filtered(mid, keep)
    BY <1>2, FilteredOfConcat
  <2>2. Filtered((pre \o mid) \o post, keep) = Filtered(pre \o mid, keep) \o Filtered(post, keep)
    BY <1>2, <1>3, FilteredOfConcat
  <2>3. QED
    BY <1>3, <1>5, <2>1, <2>2
<1>7. Len(a) = Cardinality({j \in 1..(i - 1) : s[j] \in keep})
  <2>1. Cardinality({j \in 1..Len(pre) : pre[j] \in keep}) = Len(a)
    BY <1>2, FilteredCount
  <2>2. {j \in 1..Len(pre) : pre[j] \in keep} = {j \in 1..(i - 1) : s[j] \in keep}
    BY <1>2
  <2>3. QED
    BY <2>1, <2>2
<1> HIDE DEF a, b
<1>8. Len(a) \in Nat /\ Len(b) \in Nat /\ Len(Filtered(s, keep)) = Len(a) + 1 + Len(b)
      /\ Filtered(s, keep)[Len(a) + 1] = s[i]
  <2> DEFINE v == a \o mid
  <2>1. v \in Seq(T) /\ Joined(v, a, mid)
    BY <1>2, <1>4, ConcatJoins
  <2> HIDE DEF v
  <2>2. Joined(v \o b, v, b)
    BY <1>4, <2>1, ConcatJoins
  <2>3. Filtered(s, keep) = v \o b
    BY <1>6 DEF v
  <2>4. 1 \in 1..Len(mid) /\ Len(a) \in Nat /\ Len(b) \in Nat /\ Len(v) = Len(a) + 1
    BY <1>2, <2>1, <2>2 DEF Joined
  <2>5. PICK n \in Nat : n = Len(a)
    BY <2>4
  <2>6. v[n + 1] = mid[1] /\ n + 1 \in 1..Len(v)
    BY <2>1, <2>4, <2>5 DEF Joined
  <2>7. (v \o b)[n + 1] = v[n + 1] /\ Len(v \o b) = Len(v) + Len(b)
    BY <2>2, <2>6 DEF Joined
  <2>8. QED
    BY <1>2, <2>3, <2>4, <2>5, <2>6, <2>7
<1>9. PICK n \in Nat : n = Len(a)
  BY <1>8
<1>10. n + 1 \in 1..Len(Filtered(s, keep))
  BY <1>8, <1>9
<1>11. QED
  BY <1>7, <1>8, <1>9, <1>10

\* A bounded list is a list.
LEMMA BoundedIsSeq == \A S : \A n \in Nat : BoundedSeq(S, n) \subseteq Seq(S)
<1> SUFFICES ASSUME NEW S, NEW n \in Nat, NEW s \in BoundedSeq(S, n) PROVE s \in Seq(S)
  OBVIOUS
<1>1. PICK m \in 0..n : s \in [1..m -> S]
  BY DEF BoundedSeq, SeqOf
<1>2. QED
  BY <1>1

\* What is in two lists.
LEMMA RangeOfJoined ==
    ASSUME NEW T, NEW a \in Seq(T), NEW b \in Seq(T)
    PROVE  Range(a \o b) = Range(a) \cup Range(b)
<1> DEFINE u == a \o b
<1>1. u \in Seq(T) /\ Joined(u, a, b)
  BY ConcatJoins
<1> HIDE DEF u
<1>2. /\ Range(u) = {u[i] : i \in 1..Len(u)} /\ Range(a) = {a[i] : i \in 1..Len(a)}
      /\ Range(b) = {b[i] : i \in 1..Len(b)}
  BY <1>1, RangeEquality
<1>3. \A i \in 1..Len(a) : i \in 1..Len(u) /\ u[i] = a[i]
  BY <1>1 DEF Joined
<1>4. \A i \in 1..Len(b) : Len(a) + i \in 1..Len(u) /\ u[Len(a) + i] = b[i]
  BY <1>1 DEF Joined
<1>5. Range(a) \cup Range(b) \subseteq Range(u)
  BY <1>2, <1>3, <1>4
<1>6. ASSUME NEW i \in 1..Len(u)
      PROVE  u[i] \in Range(a) \cup Range(b)
  <2>1. CASE i \in 1..Len(a)
    BY <1>2, <1>3, <2>1
  <2>2. CASE i \notin 1..Len(a)
    <3>1. i - Len(a) \in 1..Len(b) /\ i = Len(a) + (i - Len(a))
      BY <1>1, <2>2 DEF Joined
    <3>2. PICK k \in 1..Len(b) : i = Len(a) + k
      BY <3>1
    <3>3. QED
      BY <1>2, <1>4, <3>2
  <2>3. QED
    BY <2>1, <2>2
<1>7. QED
  BY <1>2, <1>5, <1>6 DEF u
-----------------------------------------------------------------------------
\* s has its elements by falling weight, in any order where weights are equal.
Descends(s, w) == \A i \in 1..Len(s) : \A j \in 1..Len(s) : i < j => w[s[i]] >= w[s[j]]

\* s lists a set, every element once, by falling weight.
Lists(s, S, w) == /\ s \in Seq(S) /\ Once(s) /\ Descends(s, w)
                  /\ \A x \in S : \E i \in 1..Len(s) : s[i] = x

LEMMA ListingFacts ==
    ASSUME NEW S, NEW w, NEW s, Lists(s, S, w)
    PROVE  /\ s \in Seq(S) /\ Len(s) \in Nat /\ DOMAIN s = 1..Len(s)
           /\ \A i \in 1..Len(s) : s[i] \in S
           /\ \A x \in S : \E i \in 1..Len(s) : s[i] = x
           /\ Once(s) /\ Descends(s, w)
<1>1. s \in Seq(S) /\ Once(s) /\ Descends(s, w) /\ \A x \in S : \E i \in 1..Len(s) : s[i] = x
  BY DEF Lists
<1>2. Len(s) \in Nat /\ DOMAIN s = 1..Len(s) /\ \A i \in 1..Len(s) : s[i] \in S
  <2>1. s \in Seq(S)
    BY <1>1
  <2>2. QED
    BY ONLY <2>1
<1>3. QED
  BY <1>1, <1>2

\* A finite set can be listed: what is lightest comes last.
LEMMA ListingExists ==
    ASSUME NEW S, IsFiniteSet(S), NEW w, \A x \in S : w[x] \in Nat
    PROVE  \E s : Lists(s, S, w)
<1> DEFINE Has(U) == \E s : Lists(s, U, w)
           B == {U \in SUBSET S : ~ Has(U)}
<1> SUFFICES ASSUME B # {} PROVE FALSE
  <2>1. S \notin B => Has(S)
    OBVIOUS
  <2>2. QED
    BY <2>1
<1>1. PICK T \in B : \A U \in B : ~(U \subseteq T /\ U # T)
  <2>1. B \subseteq SUBSET S
    OBVIOUS
  <2> HIDE DEF B
  <2> QED
    BY <2>1, Minimal
<1>2. T \in SUBSET S /\ ~ Has(T) /\ \A U \in SUBSET T : U # T => Has(U)
  BY <1>1
<1>3. T # {}
  <2> DEFINE e == <<>>
  <2>1. e \in Seq({}) /\ Len(e) = 0
    OBVIOUS
  <2> HIDE DEF e
  <2>2. Lists(e, {}, w)
    BY <2>1 DEF Lists, Once, Descends
  <2>3. QED
    BY <1>2, <2>2
<1>4. PICK x \in T : \A y \in T : w[x] <= w[y]
  <2> DEFINE N == {w[y] : y \in T}
  <2>1. N \subseteq Nat /\ N # {}
    BY <1>2, <1>3
  <2>2. PICK n \in N : \A m \in N : n <= m
    <3> HIDE DEF N
    <3> QED
      BY <2>1, LeastNumber
  <2>3. QED
    BY <2>2
<1>5. PICK s : Lists(s, T \ {x}, w)
  <2>1. T \ {x} \in SUBSET T /\ T \ {x} # T
    BY <1>4
  <2> HIDE DEF B
  <2>2. Has(T \ {x})
    BY <1>2, <2>1
  <2>3. QED
    BY <2>2
<1> DEFINE t == Append(s, x)
<1>6. s \in Seq(T \ {x}) /\ s \in Seq(T)
  BY <1>5 DEF Lists
<1>7. /\ t \in Seq(T) /\ Len(t) = Len(s) + 1 /\ Len(s) \in Nat /\ t[Len(s) + 1] = x
      /\ \A i \in 1..Len(s) : t[i] = s[i] /\ s[i] \in T \ {x}
  BY <1>6
<1> HIDE DEF t, B, Has
<1>8. \A i \in 1..Len(t) : i \in 1..Len(s) \/ i = Len(s) + 1
  BY <1>7
<1>9. Once(t)
  <2> SUFFICES ASSUME NEW i \in 1..Len(t), NEW j \in 1..Len(t), t[i] = t[j]
               PROVE  i = j
    BY DEF Once
  <2>1. CASE i \in 1..Len(s) /\ j \in 1..Len(s)
    BY <1>5, <1>7, <2>1 DEF Lists, Once
  <2>2. QED
    BY <1>7, <1>8, <2>1
<1>10. Descends(t, w)
  <2> SUFFICES ASSUME NEW i \in 1..Len(t), NEW j \in 1..Len(t), i < j
               PROVE  w[t[i]] >= w[t[j]]
    BY DEF Descends
  <2>1. i \in 1..Len(s)
    BY <1>7
  <2>2. CASE j \in 1..Len(s)
    BY <1>5, <1>7, <2>1, <2>2 DEF Lists, Descends
  <2>3. CASE j = Len(s) + 1
    <3>1. w[x] \in Nat /\ w[s[i]] \in Nat /\ w[x] <= w[s[i]]
      BY <1>2, <1>4, <1>7, <2>1
    <3>2. t[i] = s[i] /\ t[j] = x
      BY <1>7, <2>1, <2>3
    <3>3. QED
      BY <3>1, <3>2
  <2>4. QED
    BY <1>8, <2>2, <2>3
<1>11. \A y \in T : \E i \in 1..Len(t) : t[i] = y
  <2> SUFFICES ASSUME NEW y \in T PROVE \E i \in 1..Len(t) : t[i] = y
    OBVIOUS
  <2>1. CASE y = x
    <3>1. Len(s) + 1 \in 1..Len(t)
      BY <1>7
    <3>2. QED
      BY <1>7, <2>1, <3>1
  <2>2. CASE y # x
    <3>1. PICK i \in 1..Len(s) : s[i] = y
      BY <1>5, <2>2 DEF Lists
    <3>2. i \in 1..Len(t)
      BY <1>7
    <3>3. QED
      BY <1>7, <3>1, <3>2
  <2>3. QED
    BY <2>1, <2>2
<1>12. Lists(t, T, w)
  BY <1>7, <1>9, <1>10, <1>11 DEF Lists
<1>13. QED
  BY <1>2, <1>12 DEF Has

\* Where no two elements weigh the same there is only one listing.
LEMMA ListingUnique ==
    ASSUME NEW S, NEW w, \A x \in S : w[x] \in Nat,
           \A x \in S : \A y \in S : w[x] = w[y] => x = y,
           NEW s, Lists(s, S, w), NEW t, Lists(t, S, w)
    PROVE  s = t
<1>1. /\ s \in Seq(S) /\ Len(s) \in Nat /\ (\A i \in 1..Len(s) : s[i] \in S)
      /\ t \in Seq(S) /\ Len(t) \in Nat /\ (\A i \in 1..Len(t) : t[i] \in S)
  BY ListingFacts
<1>2. /\ Once(s) /\ Descends(s, w) /\ (\A x \in S : \E i \in 1..Len(s) : s[i] = x)
      /\ Once(t) /\ Descends(t, w) /\ (\A x \in S : \E i \in 1..Len(t) : t[i] = x)
  BY ListingFacts
<1>3. \A n \in Nat : n \in 1..Len(s) /\ n \in 1..Len(t) => s[n] = t[n]
  <2> DEFINE B == {n \in Nat : n \in 1..Len(s) /\ n \in 1..Len(t) /\ s[n] # t[n]}
  <2> SUFFICES ASSUME B # {} PROVE FALSE
    OBVIOUS
  <2>1. PICK n \in B : \A m \in B : n <= m
    <3>1. B \subseteq Nat
      OBVIOUS
    <3> HIDE DEF B
    <3>2. QED
      BY <3>1, LeastNumber
  <2>2. n \in Nat /\ n \in 1..Len(s) /\ n \in 1..Len(t) /\ s[n] # t[n]
    BY <2>1
  <2>3. \A m \in 1..(n - 1) : s[m] = t[m]
    <3> SUFFICES ASSUME NEW m \in 1..(n - 1), s[m] # t[m] PROVE FALSE
      OBVIOUS
    <3>1. m \in B
      BY <1>1, <2>2
    <3> HIDE DEF B
    <3>2. QED
      BY <2>1, <2>2, <3>1
  <2> HIDE DEF B
  <2>4. PICK j \in 1..Len(t) : t[j] = s[n]
    BY <1>1, <1>2, <2>2
  <2>5. PICK i \in 1..Len(s) : s[i] = t[n]
    BY <1>1, <1>2, <2>2
  <2>6. j > n
    <3>1. j # n
      BY <2>2, <2>4
    <3>2. ASSUME j < n
          PROVE  FALSE
      <4>1. j \in 1..(n - 1)
        BY <2>2, <3>2
      <4>2. j \in 1..Len(s) /\ s[j] = s[n]
        BY <1>1, <2>2, <2>3, <2>4, <4>1
      <4>3. j = n
        BY <1>2, <2>2, <4>2 DEF Once
      <4>4. QED
        BY <3>1, <4>3
    <3>3. QED
      BY <2>2, <3>1, <3>2
  <2>7. i > n
    <3>1. i # n
      BY <2>2, <2>5
    <3>2. ASSUME i < n
          PROVE  FALSE
      <4>1. i \in 1..(n - 1)
        BY <2>2, <3>2
      <4>2. i \in 1..Len(t) /\ t[i] = t[n]
        BY <1>1, <2>2, <2>3, <2>5, <4>1
      <4>3. i = n
        BY <1>2, <2>2, <4>2 DEF Once
      <4>4. QED
        BY <3>1, <4>3
    <3>3. QED
      BY <2>2, <3>1, <3>2
  <2>8. w[t[n]] >= w[s[n]] /\ w[s[n]] >= w[t[n]]
    BY <1>2, <2>2, <2>4, <2>5, <2>6, <2>7 DEF Descends
  <2>9. s[n] \in S /\ t[n] \in S
    BY <1>1, <2>2
  <2>10. w[s[n]] = w[t[n]]
    BY <2>8, <2>9
  <2>11. QED
    BY <2>2, <2>9, <2>10
<1>4. ~ (Len(s) < Len(t))
  <2> SUFFICES ASSUME Len(s) < Len(t) PROVE FALSE
    OBVIOUS
  <2>1. Len(s) + 1 \in 1..Len(t)
    BY <1>1
  <2>2. PICK i \in 1..Len(s) : s[i] = t[Len(s) + 1]
    BY <1>1, <1>2, <2>1
  <2>3. i \in 1..Len(t) /\ t[i] = t[Len(s) + 1]
    BY <1>1, <1>3, <2>2
  <2>4. i = Len(s) + 1
    BY <1>2, <2>1, <2>3 DEF Once
  <2>5. QED
    BY <1>1, <2>2, <2>4
<1>5. ~ (Len(t) < Len(s))
  <2> SUFFICES ASSUME Len(t) < Len(s) PROVE FALSE
    OBVIOUS
  <2>1. Len(t) + 1 \in 1..Len(s)
    BY <1>1
  <2>2. PICK i \in 1..Len(t) : t[i] = s[Len(t) + 1]
    BY <1>1, <1>2, <2>1
  <2>3. i \in 1..Len(s) /\ s[i] = s[Len(t) + 1]
    BY <1>1, <1>3, <2>2
  <2>4. i = Len(t) + 1
    BY <1>2, <2>1, <2>3 DEF Once
  <2>5. QED
    BY <1>1, <2>2, <2>4
<1>6. Len(s) = Len(t) /\ \A i \in 1..Len(s) : s[i] = t[i]
  BY <1>1, <1>3, <1>4, <1>5
<1>7. QED
  BY <1>1, <1>6, SeqEqual

\* What is left of a descending list descends.
LEMMA FilteredDescends ==
    ASSUME NEW T, NEW keep, NEW w
    PROVE  \A s \in Seq(T) : Descends(s, w) => Descends(Filtered(s, keep), w)
<1> DEFINE P == {s \in Seq(T) : Descends(s, w) => Descends(Filtered(s, keep), w)}
<1>1. <<>> \in P
  <2> DEFINE e == <<>>
  <2>1. e \in Seq(T) /\ Filtered(e, keep) = e
    BY FilteredOfNone
  <2> HIDE DEF e
  <2>2. e \in P
    BY <2>1
  <2>3. QED
    BY <2>2 DEF e
<1>2. ASSUME NEW s \in Seq(T), s \in P, NEW x \in T
      PROVE  Append(s, x) \in P
  <2> DEFINE f == Filtered(s, keep)
             t == Append(s, x)
             g == Filtered(t, keep)
  <2>1. f \in Seq(T) /\ (Descends(s, w) => Descends(f, w))
    BY <1>2, FilteredType
  <2>2. /\ t \in Seq(T) /\ Len(t) = Len(s) + 1 /\ t[Len(s) + 1] = x /\ Len(s) \in Nat
        /\ \A i \in 1..Len(s) : t[i] = s[i]
    OBVIOUS
  <2>3. g = IF x \in keep THEN Append(f, x) ELSE f
    BY FilteredOfAppend
  <2>4. \A i \in 1..Len(f) : \E j \in 1..Len(s) : s[j] = f[i]
    BY FilteredElements
  <2> HIDE DEF f, t, g
  <2>5. ASSUME Descends(t, w)
        PROVE  Descends(g, w)
    <3>1. Descends(s, w)
      BY <2>2, <2>5 DEF Descends
    <3>2. CASE x \in keep
      <4>1. /\ Len(g) = Len(f) + 1 /\ g[Len(f) + 1] = x /\ Len(f) \in Nat
            /\ \A i \in 1..Len(f) : g[i] = f[i]
        BY <2>1, <2>3, <3>2
      <4>2. \A i \in 1..Len(f) : w[f[i]] >= w[x]
        <5> TAKE i \in 1..Len(f)
        <5>1. PICK j \in 1..Len(s) : s[j] = f[i]
          BY <2>4
        <5>2. j \in 1..Len(t) /\ Len(s) + 1 \in 1..Len(t) /\ j < Len(s) + 1
          BY <2>2
        <5>3. w[t[j]] >= w[t[Len(s) + 1]]
          BY <2>5, <5>2 DEF Descends
        <5>4. QED
          BY <2>2, <5>1, <5>3
      <4> SUFFICES ASSUME NEW i \in 1..Len(g), NEW j \in 1..Len(g), i < j PROVE w[g[i]] >= w[g[j]]
        BY DEF Descends
      <4>3. i \in 1..Len(f) /\ (j \in 1..Len(f) \/ j = Len(f) + 1)
        BY <4>1
      <4>4. CASE j \in 1..Len(f)
        BY <2>1, <3>1, <4>1, <4>3, <4>4 DEF Descends
      <4>5. CASE j = Len(f) + 1
        BY <4>1, <4>2, <4>3, <4>5
      <4>6. QED
        BY <4>3, <4>4, <4>5
    <3>3. CASE x \notin keep
      BY <2>1, <2>3, <3>1, <3>3
    <3>4. QED
      BY <3>2, <3>3
  <2>6. t \in P
    BY <2>2, <2>5 DEF g
  <2>7. QED
    BY <2>6 DEF t
<1>3. Seq(T) \subseteq P
  <2> HIDE DEF P
  <2> QED
    BY <1>1, <1>2, SequenceInduction
<1>4. QED
  BY <1>3

\* A part of a listing lists a part.
LEMMA ListingOfPart ==
    ASSUME NEW S, NEW w, NEW s, Lists(s, S, w), NEW P \in SUBSET S
    PROVE  Lists(Filtered(s, P), P, w)
<1>1. s \in Seq(S) /\ Once(s) /\ Descends(s, w) /\ \A x \in S : \E i \in 1..Len(s) : s[i] = x
  BY DEF Lists
<1> DEFINE f == Filtered(s, P)
<1>2. /\ f \in Seq(S) /\ Once(f) /\ Descends(f, w)
      /\ \A i \in 1..Len(f) : f[i] \in P
      /\ \A j \in 1..Len(s) : s[j] \in P => \E i \in 1..Len(f) : f[i] = s[j]
  BY <1>1, FilteredType, FilteredOnce, FilteredDescends, FilteredElements
<1> HIDE DEF f
<1>3. f \in Seq(P)
  BY <1>2
<1>4. \A x \in P : \E i \in 1..Len(f) : f[i] = x
  BY <1>1, <1>2
<1>5. Lists(f, P, w)
  BY <1>2, <1>3, <1>4 DEF Lists
<1>6. QED
  BY <1>5 DEF f
=============================================================================
