---------------------------- MODULE CountingLemmas ----------------------------
(***************************************************************************)
(* Facts about natural numbers, remainders, finite sets and sums over them *)
(* that the other proofs share.  The library's induction theorems take an  *)
(* operator; its theorem on minimal elements does not, so an induction is  *)
(* written here as the search for a least counterexample.                  *)
(***************************************************************************)
EXTENDS Integers, FiniteSets, FiniteSetTheorems, WellFoundedInduction, TLAPS

(* Every set of natural numbers that is not empty has a least element. *)
LEMMA LeastNat ==
    ASSUME NEW T, T \subseteq Nat, T # {}
    PROVE  \E m \in T : \A j \in T : m <= j
<1> DEFINE R == OpToRel(<, Nat)
<1>1. IsWellFoundedOn(R, Nat)
  BY NatLessThanWellFounded
<1>2. \A x, y \in Nat : x < y => <<x, y>> \in R
  BY DEF OpToRel
<1> HIDE DEF R
<1>3. PICK m \in T : \A y \in T : ~(<<y, m>> \in R)
  BY <1>1, WFMin
<1>4. \A j \in T : ~(j < m)
  BY <1>2, <1>3
<1>5. QED  BY <1>4

(* Induction up to n, for the set of the numbers that have the property. *)
LEMMA UpTo ==
    ASSUME NEW n \in Nat, NEW S, 0 \in S,
           \A k \in 1 .. n : k - 1 \in S => k \in S
    PROVE  \A k \in 0 .. n : k \in S
<1>1. SUFFICES ASSUME NEW c \in 0 .. n, c \notin S PROVE FALSE
  OBVIOUS
<1> DEFINE T == {k \in 0 .. n : k \notin S}
<1>2. T \subseteq Nat /\ T # {}
  BY <1>1
<1> HIDE DEF T
<1>3. PICK m \in T : \A j \in T : m <= j
  BY <1>2, LeastNat
<1>4. m \in 1 .. n /\ m \notin S
  BY <1>3 DEF T
<1>5. m - 1 \in 0 .. n /\ ~(m <= m - 1)
  BY <1>4
<1>6. m - 1 \in S
  BY <1>3, <1>5 DEF T
<1>7. QED  BY <1>4, <1>6

(* A loop: the values that n steps on S produce, one after the other. *)
IsLoop(n, S, a, step, g) ==
    /\ g \in [0 .. n -> S]
    /\ g[0] = a
    /\ \A k \in 1 .. n : g[k] = step[k][g[k - 1]]

LEMMA Iteration ==
    ASSUME NEW n \in Nat, NEW S, NEW a \in S, NEW step \in [1 .. n -> [S -> S]]
    PROVE  \E g : IsLoop(n, S, a, step, g)
<1> DEFINE Values(m) == {g \in [0 .. m -> S] :
                           g[0] = a /\ \A k \in 1 .. m : g[k] = step[k][g[k - 1]]}
           Done == {m \in Nat : Values(m) # {}}
<1>1. 0 \in Done
  <2>1. [k \in 0 .. 0 |-> a] \in Values(0)
    OBVIOUS
  <2>2. QED  BY <2>1
<1>2. ASSUME NEW m \in 1 .. n, m - 1 \in Done PROVE m \in Done
  <2>1. PICK g \in [0 .. m - 1 -> S] :
           g[0] = a /\ \A k \in 1 .. m - 1 : g[k] = step[k][g[k - 1]]
    BY <1>2
  <2> DEFINE h == [k \in 0 .. m |-> IF k = m THEN step[m][g[m - 1]] ELSE g[k]]
  <2>2. step[m] \in [S -> S] /\ g[m - 1] \in S
    BY <2>1
  <2>3. h \in [0 .. m -> S] /\ h[0] = a
    BY <2>1, <2>2
  <2>4. ASSUME NEW k \in 1 .. m PROVE h[k] = step[k][h[k - 1]]
    <3>1. CASE k = m
      BY <2>1, <3>1
    <3>2. CASE k # m
      BY <2>1, <3>2
    <3>3. QED  BY <3>1, <3>2
  <2>5. h \in Values(m)
    BY <2>3, <2>4
  <2>6. m \in Nat
    OBVIOUS
  <2> HIDE DEF Values, h
  <2>7. QED  BY <2>5, <2>6
<1>3. n \in Done
  <2>1. \A k \in 1 .. n : k - 1 \in Done => k \in Done
    BY <1>2
  <2>2. n \in 0 .. n
    OBVIOUS
  <2> HIDE DEF Values, Done
  <2>3. QED  BY <1>1, <2>1, <2>2, UpTo
<1>4. QED  BY <1>3 DEF IsLoop

(* Division with remainder. *)
LEMMA DivMod ==
    ASSUME NEW n \in Nat \ {0}, NEW a \in Nat
    PROVE  /\ a % n \in 0 .. n - 1
           /\ a \div n \in Nat
           /\ a = n * (a \div n) + (a % n)
OBVIOUS

(* A walk of n steps with wrap-around visits each of n slots. *)
LEMMA WalkCovers ==
    ASSUME NEW n \in Nat \ {0}, NEW a \in Nat, NEW i \in 0 .. n - 1
    PROVE  \E k \in 0 .. n - 1 : (a + k) % n = i
<1> DEFINE q == a \div n
           r == a % n
<1>1. r \in 0 .. n - 1 /\ q \in Nat /\ a = n * q + r
  BY DivMod
<1> HIDE DEF q, r
<1>2. CASE r <= i
  <2>1. i - r \in 0 .. n - 1 /\ a + (i - r) = n * q + i
    BY <1>1, <1>2
  <2>2. (a + (i - r)) % n = i
    BY <1>1, <2>1
  <2>3. QED  BY <2>1, <2>2
<1>3. CASE ~(r <= i)
  <2>1. i + n - r \in 0 .. n - 1 /\ a + (i + n - r) = n * (q + 1) + i /\ q + 1 \in Nat
    BY <1>1, <1>3
  <2>2. (a + (i + n - r)) % n = i
    BY <1>1, <2>1
  <2>3. QED  BY <2>1, <2>2
<1>4. QED  BY <1>2, <1>3

(* The values of a function on a finite set: at most as many as arguments, *)
(* and as many only if no value is taken twice.                            *)
LEMMA ValuesCounted ==
    ASSUME NEW S, IsFiniteSet(S), NEW f
    PROVE  LET V == {f[x] : x \in S}
           IN  /\ IsFiniteSet(V)
               /\ Cardinality(V) \in Nat /\ Cardinality(S) \in Nat
               /\ Cardinality(V) <= Cardinality(S)
               /\ Cardinality(V) = Cardinality(S)
                     <=> \A x, y \in S : f[x] = f[y] => x = y
<1> DEFINE V == {f[x] : x \in S}
           g == [x \in S |-> f[x]]
<1>1. g \in Surjection(S, V)
  BY DEF Surjection
<1>2. g \in Injection(S, V) <=> \A x, y \in S : f[x] = f[y] => x = y
  BY DEF Injection, IsInjective
<1> HIDE DEF V, g
<1>3. IsFiniteSet(V) /\ Cardinality(V) <= Cardinality(S)
  BY <1>1, FS_Surjection
<1>4. Cardinality(V) = Cardinality(S) <=> g \in Injection(S, V)
  BY <1>1, FS_Surjection
<1>5. Cardinality(V) \in Nat /\ Cardinality(S) \in Nat
  BY <1>3, FS_CardinalityType
<1>6. QED  BY <1>2, <1>3, <1>4, <1>5 DEF V

-----------------------------------------------------------------------------
(* Sums, as numbers of units *)

Units(size) == UNION {{x} \X (1 .. size[x]) : x \in DOMAIN size}
SumOf(size) == Cardinality(Units(size))

LEMMA InUnits ==
    ASSUME NEW size, NEW u
    PROVE  u \in Units(size)
             <=> \E x \in DOMAIN size : \E k \in 1 .. size[x] : u = <<x, k>>
BY DEF Units

(* The units of one thing more *)
LEMMA UnitsAdded ==
    ASSUME NEW R, IsFiniteSet(R), NEW x, NEW n \in Nat, \A k \in 1 .. n : <<x, k>> \notin R
    PROVE  /\ IsFiniteSet(R \cup ({x} \X (1 .. n)))
           /\ Cardinality(R \cup ({x} \X (1 .. n))) = Cardinality(R) + n
<1> DEFINE A == {x} \X (1 .. n)
           f == [k \in 1 .. n |-> <<x, k>>]
<1>1. IsFiniteSet(1 .. n) /\ Cardinality(1 .. n) = n
  BY FS_Interval
<1>2. f \in Bijection(1 .. n, A)
  <2>1. f \in [1 .. n -> A]
    OBVIOUS
  <2>2. \A k, l \in 1 .. n : f[k] = f[l] => k = l
    OBVIOUS
  <2>3. \A a \in A : \E k \in 1 .. n : f[k] = a
    OBVIOUS
  <2> HIDE DEF f, A
  <2>4. QED  BY <2>1, <2>2, <2>3 DEF Bijection, Injection, Surjection, IsInjective
<1> HIDE DEF f
<1>3. IsFiniteSet(A) /\ Cardinality(A) = n
  BY <1>1, <1>2, FS_Bijection DEF ExistsBijection
<1>4. R \cap A = {}
  OBVIOUS
<1> HIDE DEF A
<1>5. /\ IsFiniteSet(R \cup A)
      /\ Cardinality(R \cup A) = Cardinality(R) + Cardinality(A) - Cardinality(R \cap A)
  BY <1>3, FS_Union
<1>6. Cardinality(R \cap A) = 0
  BY <1>4, FS_EmptySet
<1>7. Cardinality(R) \in Nat
  BY FS_CardinalityType
<1>8. QED  BY <1>3, <1>5, <1>6, <1>7 DEF A

LEMMA UnitsFinite ==
    ASSUME NEW D, IsFiniteSet(D), NEW f \in [D -> Nat]
    PROVE  IsFiniteSet(Units(f)) /\ SumOf(f) \in Nat
<1> DEFINE part == [x \in D |-> {x} \X (1 .. f[x])]
           T == {part[x] : x \in D}
<1>1. IsFiniteSet(T)
  <2> HIDE DEF part
  <2>1. QED  BY ValuesCounted
<1>2. ASSUME NEW x \in D PROVE IsFiniteSet(part[x])
  <2> DEFINE n == f[x]
             R == {}
  <2>1. n \in Nat /\ IsFiniteSet(R) /\ \A k \in 1 .. n : <<x, k>> \notin R
    BY FS_EmptySet
  <2> HIDE DEF n, R
  <2>2. IsFiniteSet(R \cup ({x} \X (1 .. n)))
    BY <2>1, UnitsAdded
  <2>3. R \cup ({x} \X (1 .. n)) = part[x]
    BY DEF n, R
  <2>4. QED  BY <2>2, <2>3
<1>3. Units(f) = UNION T
  BY DEF Units
<1> HIDE DEF part
<1>4. \A t \in T : IsFiniteSet(t)
  BY <1>2
<1> HIDE DEF T
<1>5. IsFiniteSet(UNION T)
  BY <1>1, <1>4, FS_UNION
<1>6. QED  BY <1>3, <1>5, FS_CardinalityType DEF SumOf

(* One thing more to sum up *)
LEMMA SumAdded ==
    ASSUME NEW D, IsFiniteSet(D), NEW f \in [D -> Nat], NEW y, y \notin D,
           NEW g \in [D \cup {y} -> Nat], \A x \in D : g[x] = f[x]
    PROVE  SumOf(g) = SumOf(f) + g[y]
<1> DEFINE n == g[y]
<1>1. Units(g) = Units(f) \cup ({y} \X (1 .. n))
  <2>1. ASSUME NEW u PROVE u \in Units(g) <=> u \in Units(f) \/ \E k \in 1 .. n : u = <<y, k>>
    <3>1. u \in Units(g) <=> \E x \in D \cup {y} : \E k \in 1 .. g[x] : u = <<x, k>>
      BY InUnits
    <3>2. u \in Units(f) <=> \E x \in D : \E k \in 1 .. f[x] : u = <<x, k>>
      BY InUnits
    <3>3. QED  BY <3>1, <3>2
  <2>2. \A u : u \in {y} \X (1 .. n) <=> \E k \in 1 .. n : u = <<y, k>>
    OBVIOUS
  <2> HIDE DEF n
  <2>3. QED  BY <2>1, <2>2, Zenon
<1>2. \A k \in 1 .. n : <<y, k>> \notin Units(f)
  <2>1. ASSUME NEW k \in 1 .. n, <<y, k>> \in Units(f) PROVE FALSE
    <3>1. PICK x \in D : \E l \in 1 .. f[x] : <<y, k>> = <<x, l>>
      BY <2>1, InUnits
    <3>2. QED  BY <3>1
  <2>2. QED  BY <2>1
<1>3. n \in Nat /\ IsFiniteSet(Units(f))
  BY UnitsFinite
<1> HIDE DEF n
<1>4. Cardinality(Units(f) \cup ({y} \X (1 .. n))) = Cardinality(Units(f)) + n
  BY <1>2, <1>3, UnitsAdded
<1>5. QED  BY <1>1, <1>4 DEF n, SumOf

LEMMA SumWithout ==
    ASSUME NEW D, IsFiniteSet(D), NEW g \in [D -> Nat], NEW y \in D
    PROVE  SumOf(g) = SumOf([x \in D \ {y} |-> g[x]]) + g[y]
<1> DEFINE E == D \ {y}
           r == [x \in E |-> g[x]]
<1>1. IsFiniteSet(E) /\ y \notin E /\ D = E \cup {y}
  BY FS_RemoveElement
<1>2. r \in [E -> Nat] /\ \A x \in E : g[x] = r[x]
  OBVIOUS
<1> HIDE DEF E, r
<1>3. g \in [E \cup {y} -> Nat]
  BY <1>1
<1>4. SumOf(g) = SumOf(r) + g[y]
  BY <1>1, <1>2, <1>3, SumAdded
<1>5. QED  BY <1>4 DEF E, r

(* One of the things changes. *)
OneChanges(D, f, g, y) ==
    /\ f \in [D -> Nat] /\ g \in [D -> Nat]
    /\ y \in D /\ \A x \in D \ {y} : g[x] = f[x]

LEMMA SumChanged ==
    ASSUME NEW D, IsFiniteSet(D), NEW f, NEW g, NEW y, OneChanges(D, f, g, y)
    PROVE  SumOf(g) + f[y] = SumOf(f) + g[y]
<1> USE DEF OneChanges
<1> DEFINE E == D \ {y}
           r == [x \in E |-> f[x]]
<1>1. IsFiniteSet(E) /\ y \notin E /\ D = E \cup {y}
  BY FS_RemoveElement
<1>2. r \in [E -> Nat] /\ \A x \in E : f[x] = r[x] /\ g[x] = r[x]
  OBVIOUS
<1> HIDE DEF E, r
<1>3. f \in [E \cup {y} -> Nat] /\ g \in [E \cup {y} -> Nat]
  BY <1>1
<1>4. SumOf(f) = SumOf(r) + f[y] /\ SumOf(g) = SumOf(r) + g[y]
  <2>1. /\ IsFiniteSet(E) /\ r \in [E -> Nat] /\ y \notin E
        /\ \A x \in E : f[x] = r[x]
        /\ \A x \in E : g[x] = r[x]
    BY <1>1, <1>2, Zenon
  <2>2. SumOf(f) = SumOf(r) + f[y]
    BY <1>3, <2>1, SumAdded
  <2>3. SumOf(g) = SumOf(r) + g[y]
    BY <1>3, <2>1, SumAdded
  <2>4. QED  BY <2>2, <2>3
<1>5. SumOf(r) \in Nat /\ f[y] \in Nat /\ g[y] \in Nat
  BY <1>1, <1>2, UnitsFinite
<1>6. QED  BY <1>4, <1>5

(* Things that count nothing *)
LEMMA SumOfMore ==
    ASSUME NEW D, NEW E, D \subseteq E, NEW f \in [D -> Nat], NEW g \in [E -> Nat],
           \A x \in D : g[x] = f[x], \A x \in E \ D : g[x] = 0
    PROVE  SumOf(g) = SumOf(f)
<1>1. ASSUME NEW u PROVE u \in Units(g) <=> u \in Units(f)
  <2>1. u \in Units(g) <=> \E x \in E : \E k \in 1 .. g[x] : u = <<x, k>>
    BY InUnits
  <2>2. u \in Units(f) <=> \E x \in D : \E k \in 1 .. f[x] : u = <<x, k>>
    BY InUnits
  <2>3. \A x \in E \ D : 1 .. g[x] = {}
    OBVIOUS
  <2>4. QED  BY <2>1, <2>2, <2>3
<1>2. Units(g) = Units(f)
  BY <1>1
<1>3. QED  BY <1>2 DEF SumOf

LEMMA SumOfNothing ==
    ASSUME NEW D, NEW f \in [D -> Nat], \A x \in D : f[x] = 0
    PROVE  SumOf(f) = 0
<1>1. \A x \in D : 1 .. f[x] = {}
  OBVIOUS
<1>2. Units(f) = {}
  BY <1>1 DEF Units
<1>3. QED  BY <1>2, FS_EmptySet DEF SumOf

(* A sum that takes one thing after the other, as the folds over sets do *)
IsSum(it, D, f) ==
    \A s \in SUBSET D :
        it[s] = IF s = {} THEN 0 ELSE f[CHOOSE x \in s : TRUE] + it[s \ {CHOOSE x \in s : TRUE}]

SumsOf(D, f) == [s \in SUBSET D |-> SumOf([x \in s |-> f[x]])]

LEMMA SumExists ==
    ASSUME NEW D, IsFiniteSet(D), NEW f \in [D -> Nat]
    PROVE  IsSum(SumsOf(D, f), D, f)
<1> DEFINE it == SumsOf(D, f)
           part == [s \in SUBSET D |-> [x \in s |-> f[x]]]
<1>1. \A s \in SUBSET D : it[s] = SumOf(part[s])
  BY DEF SumsOf
<1> HIDE DEF it
<1>2. \A s \in SUBSET D : part[s] \in [s -> Nat]
  OBVIOUS
<1>3. ASSUME NEW s \in SUBSET D, s = {} PROVE it[s] = 0
  <2> HIDE DEF part
  <2>1. part[s] \in [s -> Nat] /\ \A x \in s : part[s][x] = 0
    BY <1>2, <1>3
  <2>2. QED  BY <1>1, <2>1, SumOfNothing
<1>4. ASSUME NEW s \in SUBSET D, s # {}
      PROVE  it[s] = f[CHOOSE x \in s : TRUE] + it[s \ {CHOOSE x \in s : TRUE}]
  <2> DEFINE c == CHOOSE x \in s : TRUE
             r == s \ {c}
  <2>1. c \in s
    BY <1>4
  <2> HIDE DEF c
  <2>2. r \in SUBSET D /\ IsFiniteSet(r) /\ c \notin r /\ s = r \cup {c}
    BY <2>1, FS_Subset
  <2>3. \A x \in r : part[s][x] = part[r][x]
    BY <2>2
  <2>4. part[s][c] = f[c] /\ f[c] \in Nat
    BY <2>1
  <2>5. part[r] \in [r -> Nat] /\ part[s] \in [r \cup {c} -> Nat]
    BY <1>2, <2>2
  <2> HIDE DEF r
  <2>6. SumOf(part[s]) = SumOf(part[r]) + f[c]
    <3>1. IsFiniteSet(s) /\ part[s] \in [s -> Nat]
      BY <1>2, FS_Subset
    <3>2. part[r] = [x \in s \ {c} |-> part[s][x]]
      BY <2>2 DEF part, r
    <3> HIDE DEF part
    <3>3. QED  BY <2>1, <2>4, <3>1, <3>2, SumWithout
  <2> HIDE DEF part
  <2>7. SumOf(part[r]) \in Nat
    BY <2>2, <2>5, UnitsFinite
  <2>8. it[s] = f[c] + it[r]
    BY <1>1, <2>2, <2>4, <2>6, <2>7
  <2>9. QED  BY <2>8 DEF c, r
<1>5. IsSum(it, D, f)
  BY <1>3, <1>4, Zenon DEF IsSum
<1>6. QED  BY <1>5 DEF it

LEMMA SumIsUnique ==
    ASSUME NEW D, IsFiniteSet(D), NEW f \in [D -> Nat], NEW it, IsSum(it, D, f)
    PROVE  it[D] = SumOf(f)
<1> DEFINE w == SumsOf(D, f)
           Bad == {s \in SUBSET D : it[s] # w[s]}
           T == {Cardinality(s) : s \in Bad}
<1>1. IsSum(w, D, f)
  BY SumExists
<1>2. w[D] = SumOf(f)
  <2>1. [x \in D |-> f[x]] = f
    OBVIOUS
  <2>2. D \in SUBSET D
    OBVIOUS
  <2>3. QED  BY <2>1, <2>2 DEF SumsOf
<1> HIDE DEF w
<1>3. \A s \in SUBSET D : IsFiniteSet(s) /\ Cardinality(s) \in Nat
  BY FS_Subset, FS_CardinalityType
<1>4. SUFFICES ASSUME it[D] # w[D] PROVE FALSE
  BY <1>2
<1>5. T \subseteq Nat /\ T # {}
  <2>1. D \in Bad
    BY <1>4
  <2>2. Bad \subseteq SUBSET D
    OBVIOUS
  <2> HIDE DEF Bad
  <2>3. QED  BY <1>3, <2>1, <2>2
<1> HIDE DEF T
<1>6. PICK m \in T : \A j \in T : m <= j
  BY <1>5, LeastNat
<1>7. PICK s \in Bad : m = Cardinality(s)
  BY DEF T
<1> DEFINE c == CHOOSE x \in s : TRUE
           r == s \ {c}
<1>8. s \in SUBSET D /\ it[s] # w[s]
  BY <1>7
<1>9. s # {}
  <2>1. SUFFICES ASSUME s = {} PROVE FALSE
    OBVIOUS
  <2>2. it[s] = 0 /\ w[s] = 0
    BY <1>1, <1>8, <2>1, Zenon DEF IsSum
  <2>3. QED  BY <1>8, <2>2
<1>10. c \in s
  BY <1>9
<1>11. it[s] = f[c] + it[r] /\ w[s] = f[c] + w[r]
  BY <1>1, <1>8, <1>9, Zenon DEF IsSum
<1> HIDE DEF c
<1>12. r \in SUBSET D /\ r \notin Bad
  <2>1. r \in SUBSET D
    BY <1>8
  <2>2. Cardinality(r) = Cardinality(s) - 1
    BY <1>3, <1>8, <1>10, FS_RemoveElement
  <2>3. Cardinality(s) \in Nat /\ Cardinality(r) \in Nat
    BY <1>3, <1>8, <2>1
  <2>4. ~(Cardinality(s) <= Cardinality(r))
    BY <2>2, <2>3
  <2> HIDE DEF Bad, r
  <2>5. r \in Bad => Cardinality(r) \in T
    BY DEF T
  <2>6. QED  BY <1>6, <1>7, <2>1, <2>4, <2>5
<1>13. it[r] = w[r]
  BY <1>12
<1>14. QED  BY <1>8, <1>11, <1>13

(* The form of such a fold *)
FoldOf(D, f) ==
    LET it == CHOOSE g : g = [s \in SUBSET D |->
                                IF s = {} THEN 0
                                ELSE f[CHOOSE x \in s : TRUE] + g[s \ {CHOOSE x \in s : TRUE}]]
    IN  it[D]

(* What such a fold computes *)
LEMMA FoldIsSum ==
    ASSUME NEW D, IsFiniteSet(D), NEW f \in [D -> Nat]
    PROVE  FoldOf(D, f) = SumOf(f)
<1> DEFINE one(s) == CHOOSE x \in s : TRUE
           Body(g) == [s \in SUBSET D |-> IF s = {} THEN 0 ELSE f[one(s)] + g[s \ {one(s)}]]
           it == CHOOSE g : g = Body(g)
           w == SumsOf(D, f)
<1>1. FoldOf(D, f) = it[D]
  BY Zenon DEF FoldOf
<1>2. IsSum(w, D, f)
  BY SumExists
<1>3. w = Body(w)
  <2>1. \A s \in SUBSET D : w[s] = Body(w)[s]
    BY <1>2 DEF IsSum
  <2> DEFINE b == Body(w)
  <2>2. w = [s \in SUBSET D |-> w[s]] /\ b = [s \in SUBSET D |-> b[s]]
    BY DEF SumsOf
  <2>3. \A s \in SUBSET D : w[s] = b[s]
    BY <2>1
  <2> HIDE DEF b, w
  <2>4. w = b
    BY <2>2, <2>3
  <2>5. QED  BY <2>4 DEF b
<1> HIDE DEF w
<1>4. it = Body(it)
  BY <1>3, Zenon
<1> HIDE DEF it
<1>5. \A s \in SUBSET D : it[s] = Body(it)[s]
  BY <1>4, Zenon
<1>6. IsSum(it, D, f)
  BY <1>5 DEF IsSum
<1>7. QED  BY <1>1, <1>6, SumIsUnique
=============================================================================
