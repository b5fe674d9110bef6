------------------------------ MODULE DebugProofs ------------------------------
(***************************************************************************)
(* Proofs about the two ways to watch the heap.  The memory monitor, for   *)
(* any pointers, hash values, sizes and initial table, and with any        *)
(* failures of malloc: its records are the allocations, its counters agree *)
(* with them, its final report counts what is left, and to its user it is  *)
(* a registry of pointers.  The debug allocator, for any addresses and     *)
(* sizes: it is a heap with guarded blocks.                                *)
(***************************************************************************)
EXTENDS Monitor, DebugAllocator, CountingLemmas, SequenceTheorems, TLAPS

-----------------------------------------------------------------------------
(* Folds over sequences, flattened sequences, and sums *)

IsFold(f, n, a, step) ==
    f = [s \in SUBSET (1 .. n) |-> IF s = {} THEN a ELSE step[Max(s)][f[s \ {Max(s)}]]]

LEMMA MaxIs ==
    ASSUME NEW n \in Nat, NEW s, s \subseteq 1 .. n, s # {}
    PROVE  Max(s) \in s /\ \A y \in s : y <= Max(s)
<1> DEFINE T == {n - y : y \in s}
<1>1. T \subseteq Nat /\ T # {}
  <2>1. \A y \in s : y \in Int /\ n - y \in Nat
    OBVIOUS
  <2>2. QED  BY <2>1
<1>2. PICK m \in T : \A j \in T : m <= j
  BY <1>1, LeastNat
<1>3. PICK x \in s : m = n - x
  BY <1>2
<1>4. ASSUME NEW y \in s PROVE x >= y
  <2>1. n - y \in T
    OBVIOUS
  <2>2. n - x <= n - y
    BY <1>2, <1>3, <2>1
  <2>3. x \in Int /\ y \in Int
    OBVIOUS
  <2>4. QED  BY <2>2, <2>3
<1> HIDE DEF T
<1>5. Max(s) \in s /\ \A y \in s : Max(s) >= y
  BY <1>4 DEF Max
<1>6. QED  BY <1>5

LEMMA FoldExists ==
    ASSUME NEW n \in Nat, NEW S, NEW a \in S, NEW step \in [1 .. n -> [S -> S]]
    PROVE  \E f \in [SUBSET (1 .. n) -> S] : IsFold(f, n, a, step)
<1> DEFINE P == SUBSET (1 .. n)
           T == [P -> S]
           next == [k \in 1 .. n |-> [F \in T |->
                     [s \in P |-> IF s # {} /\ Max(s) = k THEN step[k][F[s \ {k}]] ELSE F[s]]]]
           first == [s \in P |-> a]
<1>1. next \in [1 .. n -> [T -> T]] /\ first \in T
  <2>1. ASSUME NEW k \in 1 .. n, NEW F \in T, NEW s \in P
        PROVE  (IF s # {} /\ Max(s) = k THEN step[k][F[s \ {k}]] ELSE F[s]) \in S
    OBVIOUS
  <2>2. QED  BY <2>1
<1>2. PICK w : IsLoop(n, T, first, next, w)
  BY <1>1, Iteration
<1>3. /\ \A k \in 0 .. n : w[k] \in T
      /\ w[0] = first
      /\ \A k \in 1 .. n : w[k] = next[k][w[k - 1]]
  BY <1>2 DEF IsLoop
<1>4. ASSUME NEW k \in 1 .. n, NEW s \in P
      PROVE  w[k][s] = IF s # {} /\ Max(s) = k THEN step[k][w[k - 1][s \ {k}]] ELSE w[k - 1][s]
  <2> DEFINE F == w[k - 1]
  <2>1. F \in T
    <3> HIDE DEF T
    <3>1. k - 1 \in 0 .. n
      OBVIOUS
    <3>2. QED  BY <1>3, <3>1
  <2>2. w[k] = next[k][F]
    <3> HIDE DEF next, T
    <3>1. QED  BY <1>3
  <2> HIDE DEF F
  <2>3. next[k][F] = [r \in P |-> IF r # {} /\ Max(r) = k THEN step[k][F[r \ {k}]] ELSE F[r]]
    <3> HIDE DEF T, P
    <3>1. QED  BY <2>1
  <2>4. next[k][F][s] = IF s # {} /\ Max(s) = k THEN step[k][F[s \ {k}]] ELSE F[s]
    <3> HIDE DEF next, T
    <3>1. QED  BY <2>3, Zenon
  <2>5. QED  BY <2>2, <2>4, Zenon DEF F
<1> HIDE DEF next, T
<1> DEFINE K == {k \in 0 .. n : \A s \in P : (\A x \in s : x <= n - k) => w[n][s] = w[n - k][s]}
<1>5. 0 \in K
  OBVIOUS
<1>6. ASSUME NEW k \in 1 .. n, k - 1 \in K PROVE k \in K
  <2>1. SUFFICES \A s \in P : (\A x \in s : x <= n - k) => w[n][s] = w[n - k][s]
    <3> HIDE DEF P
    <3>1. k \in 0 .. n
      OBVIOUS
    <3>2. QED  BY <3>1
  <2>2. SUFFICES ASSUME NEW s \in P, \A x \in s : x <= n - k PROVE w[n][s] = w[n - k][s]
    BY Zenon
  <2>3. \A x \in s : x <= n - (k - 1) /\ x # n - k + 1
    <3>1. \A x \in s : x \in Int
      OBVIOUS
    <3>2. QED  BY <2>2, <3>1
  <2>4. w[n][s] = w[n - (k - 1)][s]
    <3>1. k - 1 \in 0 .. n
      OBVIOUS
    <3> HIDE DEF P
    <3>2. QED  BY <1>6, <2>3, <3>1
  <2>5. n - k + 1 \in 1 .. n /\ n - (k - 1) = n - k + 1 /\ (n - k + 1) - 1 = n - k
    OBVIOUS
  <2>6. s # {} => Max(s) # n - k + 1
    BY <2>3, MaxIs
  <2>7. w[n - k + 1][s] = w[n - k][s]
    <3> DEFINE m == n - k + 1
    <3> HIDE DEF P, m
    <3>1. m \in 1 .. n /\ m - 1 = n - k /\ (s # {} => Max(s) # m)
      BY <2>5, <2>6 DEF m
    <3>2. w[m][s] = w[m - 1][s]
      BY <1>4, <3>1
    <3>3. QED  BY <3>1, <3>2 DEF m
  <2>8. QED  BY <2>4, <2>5, <2>7
<1>7. \A k \in 0 .. n : k \in K
  <2> HIDE DEF K
  <2>1. QED  BY <1>5, <1>6, UpTo
<1>8. ASSUME NEW k \in 0 .. n, NEW s \in P, \A x \in s : x <= k PROVE w[n][s] = w[k][s]
  <2>1. n - k \in 0 .. n /\ n - (n - k) = k
    OBVIOUS
  <2>2. n - k \in K
    BY <1>7, <2>1
  <2>3. QED  BY <1>8, <2>1, <2>2 DEF K
<1>9. ASSUME NEW s \in P
      PROVE  w[n][s] = IF s = {} THEN a ELSE step[Max(s)][w[n][s \ {Max(s)}]]
  <2>1. CASE s = {}
    <3>1. w[n][s] = w[0][s]
      BY <1>8, <2>1
    <3>2. QED  BY <1>3, <2>1, <3>1
  <2>2. CASE s # {}
    <3>1. Max(s) \in s /\ \A y \in s : y <= Max(s)
      BY <2>2, MaxIs
    <3> DEFINE m == Max(s)
    <3>2. m \in 1 .. n /\ m \in 0 .. n /\ m - 1 \in 0 .. n /\ s \ {m} \in P
      <4>1. m \in s
        BY <3>1
      <4> HIDE DEF m
      <4>2. m \in 1 .. n
        BY <4>1
      <4>3. QED  BY <4>2
    <3>3. \A x \in s \ {m} : x <= m - 1
      <4>1. m \in s /\ \A y \in s : y <= m
        BY <3>1
      <4> HIDE DEF m
      <4>2. \A y \in s : y \in Int
        OBVIOUS
      <4>3. QED  BY <4>1, <4>2
    <3>4. w[n][s] = w[m][s]
      BY <1>8, <3>1, <3>2
    <3>5. w[n][s \ {m}] = w[m - 1][s \ {m}]
      BY <1>8, <3>2, <3>3
    <3>6. w[m][s] = step[m][w[m - 1][s \ {m}]]
      BY <1>4, <2>2, <3>2
    <3>7. QED  BY <2>2, <3>4, <3>5, <3>6
  <2>3. QED  BY <2>1, <2>2
<1>10. n \in 0 .. n
  OBVIOUS
<1>11. w[n] = [s \in P |-> w[n][s]]
  BY <1>3, <1>10 DEF T
<1>12. w[n] = [s \in P |-> IF s = {} THEN a ELSE step[Max(s)][w[n][s \ {Max(s)}]]]
  BY <1>9, <1>11, Zenon
<1>13. IsFold(w[n], n, a, step)
  BY <1>12, Zenon DEF IsFold
<1>14. w[n] \in [SUBSET (1 .. n) -> S]
  BY <1>3, <1>10 DEF T
<1>15. QED  BY <1>13, <1>14

(* A fold from the left is a loop over the sequence. *)
FoldsAs(it, n, S, a, step) ==
    /\ n \in Nat /\ it[{}] = a
    /\ \A k \in 1 .. n : it[1 .. k - 1] \in S => it[1 .. k] = step[k][it[1 .. k - 1]]

LEMMA FoldIsLoop ==
    ASSUME NEW n, NEW S, NEW a, NEW step, NEW g, IsLoop(n, S, a, step, g),
           NEW it, FoldsAs(it, n, S, a, step)
    PROVE  it[1 .. n] = g[n] /\ g[n] \in S
<1> USE DEF FoldsAs
<1> DEFINE K == {k \in 0 .. n : it[1 .. k] = g[k]}
<1>1. /\ \A k \in 0 .. n : g[k] \in S
      /\ g[0] = a /\ \A k \in 1 .. n : g[k] = step[k][g[k - 1]]
  BY DEF IsLoop
<1>2. 0 \in K
  <2>1. 1 .. 0 = {}
    OBVIOUS
  <2>2. QED  BY <1>1, <2>1
<1>3. ASSUME NEW k \in 1 .. n, k - 1 \in K PROVE k \in K
  <2>1. k - 1 \in 0 .. n /\ it[1 .. k - 1] = g[k - 1]
    BY <1>3
  <2>2. it[1 .. k] = g[k]
    BY <1>1, <2>1
  <2>3. QED  BY <2>2
<1>4. n \in K
  <2> HIDE DEF K
  <2>1. n \in 0 .. n
    OBVIOUS
  <2>2. \A k \in 0 .. n : k \in K
    BY <1>2, <1>3, UpTo
  <2>3. QED  BY <2>1, <2>2
<1>5. n \in 0 .. n
  OBVIOUS
<1>6. QED  BY <1>1, <1>4, <1>5

(* What the fold takes last of 1 .. k *)
LEMMA LastTaken ==
    ASSUME NEW k \in Nat \ {0}
    PROVE  /\ 1 .. k # {} /\ Max(1 .. k) = k
           /\ (1 .. k) \ {k} = 1 .. k - 1
<1>1. 1 .. k \subseteq 1 .. k /\ k \in 1 .. k
  OBVIOUS
<1>2. Max(1 .. k) \in 1 .. k /\ \A y \in 1 .. k : y <= Max(1 .. k)
  BY <1>1, MaxIs
<1>3. QED  BY <1>1, <1>2

(* Where the elements of flat come from: h[j] is the sequence and the place *)
IsPlacing(h, flat, seqs, n) ==
    /\ \A j \in 1 .. Len(flat) :
          /\ h[j] = <<h[j][1], h[j][2]>>
          /\ h[j][1] \in 1 .. n /\ h[j][2] \in 1 .. Len(seqs[h[j][1]])
          /\ flat[j] = seqs[h[j][1]][h[j][2]]
    /\ \A j, l \in 1 .. Len(flat) : h[j] = h[l] => j = l
    /\ \A i \in 1 .. n : \A k \in 1 .. Len(seqs[i]) :
          \E j \in 1 .. Len(flat) : h[j] = <<i, k>>

(* One more sequence *)
LEMMA PlacingExtended ==
    ASSUME NEW E, NEW n \in Nat \ {0}, NEW seqs, \A i \in 1 .. n : seqs[i] \in Seq(E),
           NEW flat \in Seq(E), NEW h, IsPlacing(h, flat, seqs, n - 1)
    PROVE  \E g : IsPlacing(g, flat \o seqs[n], seqs, n)
<1> DEFINE L == Len(flat)
           c == seqs[n]
           d == flat \o c
           g == [j \in 1 .. Len(d) |-> IF j <= L THEN h[j] ELSE <<n, j - L>>]
<1>1. c \in Seq(E) /\ L \in Nat /\ Len(c) \in Nat
  BY LenProperties
<1>2. /\ d \in Seq(E) /\ Len(d) = L + Len(c)
      /\ \A j \in 1 .. L : d[j] = flat[j]
      /\ \A j \in 1 .. Len(d) : j > L => d[j] = c[j - L]
  <2> HIDE DEF c
  <2>1. QED  BY <1>1
<1> HIDE DEF c, d, L
<1>3. \A j \in 1 .. L : g[j] = h[j] /\ j \in 1 .. Len(d)
  BY <1>1, <1>2
<1>4. \A j \in 1 .. Len(d) : j \notin 1 .. L => g[j] = <<n, j - L>> /\ j - L \in 1 .. Len(c)
  BY <1>1, <1>2
<1>5. /\ \A j \in 1 .. L :
            /\ h[j] = <<h[j][1], h[j][2]>>
            /\ h[j][1] \in 1 .. n - 1 /\ h[j][2] \in 1 .. Len(seqs[h[j][1]])
            /\ flat[j] = seqs[h[j][1]][h[j][2]]
      /\ \A j, l \in 1 .. L : h[j] = h[l] => j = l
      /\ \A i \in 1 .. n - 1 : \A k \in 1 .. Len(seqs[i]) : \E j \in 1 .. L : h[j] = <<i, k>>
  BY DEF IsPlacing, L
<1>6. n \in 1 .. n /\ n \notin 1 .. n - 1 /\ 1 .. n - 1 \subseteq 1 .. n
  OBVIOUS
<1> HIDE DEF g
<1>7. ASSUME NEW j \in 1 .. Len(d)
      PROVE  /\ g[j] = <<g[j][1], g[j][2]>>
             /\ g[j][1] \in 1 .. n /\ g[j][2] \in 1 .. Len(seqs[g[j][1]])
             /\ d[j] = seqs[g[j][1]][g[j][2]]
  <2>1. CASE j \in 1 .. L
    <3>1. g[j] = h[j] /\ d[j] = flat[j]
      BY <1>2, <1>3, <2>1
    <3>2. QED  BY <1>5, <1>6, <2>1, <3>1
  <2>2. CASE j \notin 1 .. L
    <3>1. g[j] = <<n, j - L>> /\ j - L \in 1 .. Len(c) /\ j > L
      BY <1>1, <1>4, <2>2
    <3>2. g[j][1] = n /\ g[j][2] = j - L
      BY <3>1
    <3>3. d[j] = c[j - L]
      BY <1>2, <3>1
    <3>4. QED  BY <1>6, <3>1, <3>2, <3>3 DEF c
  <2>3. QED  BY <2>1, <2>2
<1>8. ASSUME NEW j \in 1 .. Len(d), NEW l \in 1 .. Len(d), g[j] = g[l]
      PROVE  j = l
  <2>1. CASE j \in 1 .. L /\ l \in 1 .. L
    BY <1>3, <1>5, <1>8, <2>1
  <2>2. CASE j \notin 1 .. L /\ l \notin 1 .. L
    <3>1. <<n, j - L>> = <<n, l - L>>
      BY <1>4, <1>8, <2>2
    <3>2. j - L = l - L
      BY <3>1
    <3>3. j \in Int /\ l \in Int /\ L \in Int
      BY <1>1
    <3>4. QED  BY <3>2, <3>3
  <2>3. ASSUME NEW x \in 1 .. Len(d), NEW y \in 1 .. Len(d), x \in 1 .. L, y \notin 1 .. L
        PROVE  g[x] # g[y]
    <3>1. g[x][1] \in 1 .. n - 1
      BY <1>3, <1>5, <2>3
    <3>2. g[y][1] = n
      BY <1>4, <2>3
    <3>3. QED  BY <1>6, <3>1, <3>2
  <2>4. QED  BY <1>8, <2>1, <2>2, <2>3
<1>9. ASSUME NEW i \in 1 .. n, NEW k \in 1 .. Len(seqs[i])
      PROVE  \E j \in 1 .. Len(d) : g[j] = <<i, k>>
  <2>1. CASE i = n
    <3>1. k + L \in 1 .. Len(d) /\ k + L \notin 1 .. L /\ (k + L) - L = k
      BY <1>1, <1>2, <2>1 DEF c
    <3>2. g[k + L] = <<i, k>>
      BY <1>4, <2>1, <3>1
    <3>3. QED  BY <3>1, <3>2
  <2>2. CASE i # n
    <3>1. i \in 1 .. n - 1
      BY <2>2
    <3>2. PICK j \in 1 .. L : h[j] = <<i, k>>
      BY <1>5, <3>1
    <3>3. QED  BY <1>3, <3>2
  <2>3. QED  BY <2>1, <2>2
<1>10. IsPlacing(g, d, seqs, n)
  BY <1>7, <1>8, <1>9 DEF IsPlacing
<1>11. QED  BY <1>10 DEF d, c

LEMMA FlattenedPlaces ==
    ASSUME NEW E, NEW n \in Nat \ {0}, NEW seqs \in [1 .. n -> Seq(E)]
    PROVE  LET flat == FlattenSeq(seqs)
           IN  flat \in Seq(E) /\ \E h : IsPlacing(h, flat, seqs, n)
<1> DEFINE S == Seq(E)
           Body(f) == [i \in 1 .. Len(seqs) |-> IF i = 1 THEN seqs[i] ELSE f[i - 1] \o seqs[i]]
           it == CHOOSE f : f = Body(f)
           step == [k \in 1 .. n |-> [s \in S |-> s \o seqs[k]]]
<1>1. Len(seqs) = n
  <2>1. seqs \in Seq(S)
    BY SeqDef
  <2>2. QED  BY <2>1, LenProperties
<1>2. FlattenSeq(seqs) = it[n]
  <2> HIDE DEF S
  <2>1. Len(seqs) # 0
    BY <1>1
  <2>2. FlattenSeq(seqs) = it[Len(seqs)]
    BY <2>1, Zenon DEF FlattenSeq
  <2>3. QED  BY <1>1, <2>2
<1>3. <<>> \in S /\ \A k \in 1 .. n : \A s \in S : s \o seqs[k] \in S
  OBVIOUS
<1>4. step \in [1 .. n -> [S -> S]]
  <2> HIDE DEF S
  <2>1. QED  BY <1>3
<1>5. PICK g : IsLoop(n, S, <<>>, step, g)
  <2> HIDE DEF step, S
  <2>1. QED  BY <1>3, <1>4, Iteration
<1>6. /\ \A k \in 0 .. n : g[k] \in S
      /\ g[0] = <<>>
      /\ \A k \in 1 .. n : g[k] = g[k - 1] \o seqs[k]
  <2>1. g \in [0 .. n -> S] /\ g[0] = <<>> /\ \A k \in 1 .. n : g[k] = step[k][g[k - 1]]
    BY <1>5 DEF IsLoop
  <2> HIDE DEF S
  <2>2. \A k \in 1 .. n : k - 1 \in 0 .. n
    OBVIOUS
  <2>3. \A k \in 1 .. n : g[k] = g[k - 1] \o seqs[k]
    BY <2>1, <2>2
  <2>4. QED  BY <2>1, <2>3
<1>7. g[1] = seqs[1]
  <2>1. g[1] = <<>> \o seqs[1]
    <3>1. 1 \in 1 .. n /\ 1 - 1 = 0
      OBVIOUS
    <3> HIDE DEF S
    <3>2. g[1] = g[1 - 1] \o seqs[1]
      BY <1>6, <3>1
    <3>3. QED  BY <1>6, <3>1, <3>2
  <2>2. seqs[1] \in Seq(E)
    OBVIOUS
  <2>3. QED  BY <2>1, <2>2
<1> DEFINE G == [i \in 1 .. n |-> g[i]]
<1>8. G = Body(G)
  <2>1. ASSUME NEW i \in 1 .. n PROVE G[i] = IF i = 1 THEN seqs[i] ELSE G[i - 1] \o seqs[i]
    <3>1. CASE i = 1
      BY <1>7, <3>1
    <3>2. CASE i # 1
      <4>1. i - 1 \in 1 .. n
        BY <3>2
      <4> HIDE DEF S
      <4>2. QED  BY <1>6, <3>2, <4>1
    <3>3. QED  BY <3>1, <3>2
  <2>2. G = [i \in 1 .. n |-> G[i]]
    OBVIOUS
  <2> HIDE DEF G
  <2>3. G = [i \in 1 .. n |-> IF i = 1 THEN seqs[i] ELSE G[i - 1] \o seqs[i]]
    BY <2>1, <2>2, Zenon
  <2>4. QED  BY <1>1, <2>3
<1>9. it = Body(it)
  <2> HIDE DEF Body
  <2>1. \E f : f = Body(f)
    BY <1>8
  <2>2. QED  BY <2>1, Zenon
<1>10. ASSUME NEW i \in 1 .. n PROVE it[i] = IF i = 1 THEN seqs[i] ELSE it[i - 1] \o seqs[i]
  <2> HIDE DEF it
  <2>1. i \in 1 .. Len(seqs)
    BY <1>1
  <2>2. Body(it)[i] = IF i = 1 THEN seqs[i] ELSE it[i - 1] \o seqs[i]
    BY <2>1
  <2>3. QED  BY <1>9, <2>2, Zenon
<1> HIDE DEF it, Body, G, step
<1> DEFINE K == {k \in 0 .. n :
                   (k # 0 => it[k] = g[k]) /\ \E h : IsPlacing(h, g[k], seqs, k)}
<1>11. 0 \in K
  <2>1. Len(g[0]) = 0
    BY <1>6
  <2>2. IsPlacing(<<>>, g[0], seqs, 0)
    BY <2>1 DEF IsPlacing
  <2>3. QED  BY <2>2
<1>12. ASSUME NEW k \in 1 .. n, k - 1 \in K PROVE k \in K
  <2>1. it[k] = g[k]
    <3>1. CASE k = 1
      BY <1>7, <1>10, <3>1
    <3>2. CASE k # 1
      <4>1. it[k - 1] = g[k - 1]
        BY <1>12, <3>2
      <4> HIDE DEF K, S
      <4>2. QED  BY <1>6, <1>10, <3>2, <4>1
    <3>3. QED  BY <3>1, <3>2
  <2>2. PICK h : IsPlacing(h, g[k - 1], seqs, k - 1)
    BY <1>12
  <2>3. k \in Nat \ {0} /\ g[k - 1] \in Seq(E) /\ g[k] = g[k - 1] \o seqs[k]
    <3>1. k \in Nat \ {0} /\ k - 1 \in 0 .. n
      OBVIOUS
    <3> HIDE DEF K, S
    <3>2. g[k - 1] \in S /\ g[k] = g[k - 1] \o seqs[k]
      BY <1>6, <3>1
    <3>3. QED  BY <3>1, <3>2 DEF S
  <2>4. \A i \in 1 .. k : seqs[i] \in Seq(E)
    OBVIOUS
  <2> HIDE DEF K, S
  <2>5. \E h2 : IsPlacing(h2, g[k], seqs, k)
    BY <2>2, <2>3, <2>4, PlacingExtended
  <2>6. QED  BY <2>1, <2>5 DEF K
<1>13. n \in K
  <2> HIDE DEF K
  <2>1. n \in 0 .. n
    OBVIOUS
  <2>2. \A k \in 0 .. n : k \in K
    BY <1>11, <1>12, UpTo
  <2>3. QED  BY <2>1, <2>2
<1>14. it[n] = g[n] /\ g[n] \in Seq(E) /\ \E h : IsPlacing(h, g[n], seqs, n)
  BY <1>6, <1>13
<1>15. QED  BY <1>2, <1>14

(* g[k] is the sum of the first k. *)
IsSums(g, f, n) ==
    /\ g \in [0 .. n -> Nat] /\ g[0] = 0 /\ g[n] = SumOf(f)
    /\ \A k \in 1 .. n : g[k] = g[k - 1] + f[k]

AddsOne(D, u, v, k) ==
    /\ IsFiniteSet(D) /\ u \in [D -> Nat] /\ v \in [D \cup {k} -> Nat] /\ k \notin D
    /\ \A j \in D : v[j] = u[j]

LEMMA SumWithOne ==
    ASSUME NEW D, NEW u, NEW v, NEW k, AddsOne(D, u, v, k)
    PROVE  SumOf(v) = SumOf(u) + v[k]
BY SumAdded DEF AddsOne

LEMMA SumBySteps ==
    ASSUME NEW n \in Nat, NEW f \in [1 .. n -> Nat]
    PROVE  \E g : IsSums(g, f, n)
<1> DEFINE part(k) == [j \in 1 .. k |-> f[j]]
           g == [k \in 0 .. n |-> SumOf(part(k))]
<1> HIDE DEF g
<1>1. \A k \in 0 .. n : IsFiniteSet(1 .. k) /\ part(k) \in [1 .. k -> Nat]
  <2>1. TAKE k \in 0 .. n
  <2>2. IsFiniteSet(1 .. k)
    BY FS_Interval
  <2>3. \A j \in 1 .. k : f[j] \in Nat
    <3>1. \A j \in 1 .. k : j \in 1 .. n
      OBVIOUS
    <3>2. QED  BY <3>1
  <2>4. QED  BY <2>2, <2>3
<1>2. \A k \in 0 .. n : SumOf(part(k)) \in Nat /\ g[k] = SumOf(part(k))
  <2> HIDE DEF part
  <2>1. \A k \in 0 .. n : SumOf(part(k)) \in Nat
    BY <1>1, UnitsFinite
  <2>2. QED  BY <2>1 DEF g
<1>3. g[0] = 0
  <2>1. part(0) \in [{} -> Nat]
    OBVIOUS
  <2>2. SumOf(part(0)) = 0
    <3> HIDE DEF part
    <3>1. QED  BY <2>1, SumOfNothing
  <2>3. 0 \in 0 .. n
    OBVIOUS
  <2>4. QED  BY <1>2, <2>2, <2>3
<1>4. g[n] = SumOf(f)
  <2>1. part(n) = f /\ n \in 0 .. n
    OBVIOUS
  <2>2. QED  BY <1>2, <2>1
<1>5. ASSUME NEW k \in 1 .. n PROVE g[k] = g[k - 1] + f[k]
  <2>1. /\ k - 1 \in 0 .. n /\ k \in 0 .. n /\ k \notin 1 .. k - 1
        /\ 1 .. k = (1 .. k - 1) \cup {k}
    OBVIOUS
  <2>2. \A j \in 1 .. k - 1 : part(k)[j] = part(k - 1)[j]
    <3>1. \A j \in 1 .. k - 1 : j \in 1 .. k
      OBVIOUS
    <3>2. QED  BY <3>1
  <2>3. part(k)[k] = f[k]
    OBVIOUS
  <2>4. /\ IsFiniteSet(1 .. k - 1) /\ part(k - 1) \in [1 .. k - 1 -> Nat]
        /\ part(k) \in [1 .. k -> Nat]
    <3> HIDE DEF part
    <3>1. QED  BY <1>1, <2>1
  <2> HIDE DEF part
  <2> DEFINE D == 1 .. k - 1
             u == part(k - 1)
             v == part(k)
  <2>5. /\ IsFiniteSet(D) /\ u \in [D -> Nat] /\ v \in [D \cup {k} -> Nat] /\ k \notin D
        /\ \A j \in D : v[j] = u[j]
    BY <2>1, <2>2, <2>4
  <2> HIDE DEF D, u, v
  <2>6. AddsOne(D, u, v, k)
    BY <2>5 DEF AddsOne
  <2>7. SumOf(v) = SumOf(u) + v[k]
    BY <2>6, SumWithOne
  <2>8. SumOf(part(k)) = SumOf(part(k - 1)) + part(k)[k]
    BY <2>7 DEF u, v
  <2>9. QED  BY <1>2, <2>1, <2>3, <2>8
<1>6. g \in [0 .. n -> Nat]
  <2> HIDE DEF part
  <2>1. QED  BY <1>2 DEF g
<1>7. IsSums(g, f, n)
  BY <1>3, <1>4, <1>5, <1>6 DEF IsSums
<1>8. QED  BY <1>7

(* Adding up from the left computes the sum. *)
LEMMA FoldedSum ==
    ASSUME NEW n \in Nat, NEW f \in [1 .. n -> Nat]
    PROVE  LET it == CHOOSE F : F = [s \in SUBSET (1 .. n) |->
                                       IF s = {} THEN 0 ELSE F[s \ {Max(s)}] + f[Max(s)]]
           IN  it[1 .. n] = SumOf(f)
<1> DEFINE P == SUBSET (1 .. n)
           Body(F) == [s \in P |-> IF s = {} THEN 0 ELSE F[s \ {Max(s)}] + f[Max(s)]]
           it == CHOOSE F : F = Body(F)
           step == [k \in 1 .. n |-> [y \in Nat |-> y + f[k]]]
<1>1. PICK g : IsSums(g, f, n)
  BY SumBySteps
<1>2. step \in [1 .. n -> [Nat -> Nat]]
  OBVIOUS
<1>3. \A k \in 1 .. n : \A y \in Nat : step[k][y] = y + f[k]
  OBVIOUS
<1> HIDE DEF step
<1>4. PICK w \in [P -> Nat] : IsFold(w, n, 0, step)
  BY <1>2, FoldExists
<1>5. w = Body(w)
  <2>1. ASSUME NEW s \in P
        PROVE  (IF s = {} THEN 0 ELSE step[Max(s)][w[s \ {Max(s)}]])
                 = (IF s = {} THEN 0 ELSE w[s \ {Max(s)}] + f[Max(s)])
    <3>1. CASE s = {}
      BY <3>1
    <3>2. CASE s # {}
      <4>1. Max(s) \in s
        BY <3>2, MaxIs
      <4>2. Max(s) \in 1 .. n /\ s \ {Max(s)} \in P
        BY <4>1
      <4>3. w[s \ {Max(s)}] \in Nat
        BY <4>2
      <4>4. QED  BY <1>3, <3>2, <4>2, <4>3
    <3>3. QED  BY <3>1, <3>2
  <2>2. w = [s \in P |-> IF s = {} THEN 0 ELSE step[Max(s)][w[s \ {Max(s)}]]]
    BY <1>4, Zenon DEF IsFold
  <2>3. QED  BY <2>1, <2>2, Zenon
<1>6. it = Body(it)
  <2> HIDE DEF Body
  <2>1. \E F : F = Body(F)
    BY <1>5
  <2>2. QED  BY <2>1, Zenon
<1>7. ASSUME NEW s \in P PROVE it[s] = IF s = {} THEN 0 ELSE it[s \ {Max(s)}] + f[Max(s)]
  <2> HIDE DEF it
  <2>1. Body(it)[s] = IF s = {} THEN 0 ELSE it[s \ {Max(s)}] + f[Max(s)]
    OBVIOUS
  <2>2. QED  BY <1>6, <2>1, Zenon
<1> HIDE DEF it, Body
<1>8. it[{}] = 0
  <2>1. {} \in P
    OBVIOUS
  <2>2. QED  BY <1>7, <2>1
<1>9. \A k \in 1 .. n : it[1 .. k - 1] \in Nat => it[1 .. k] = step[k][it[1 .. k - 1]]
  <2>1. SUFFICES ASSUME NEW k \in 1 .. n, it[1 .. k - 1] \in Nat
                 PROVE  it[1 .. k] = step[k][it[1 .. k - 1]]
    OBVIOUS
  <2>2. 1 .. k \in P
    <3>1. \A j \in 1 .. k : j \in 1 .. n
      OBVIOUS
    <3>2. QED  BY <3>1
  <2>3. 1 .. k # {} /\ Max(1 .. k) = k /\ (1 .. k) \ {k} = 1 .. k - 1
    <3>1. k \in Nat \ {0}
      OBVIOUS
    <3>2. QED  BY <3>1, LastTaken
  <2>4. it[1 .. k] = it[1 .. k - 1] + f[k]
    BY <1>7, <2>2, <2>3
  <2>5. QED  BY <1>3, <2>1, <2>4
<1>10. /\ g \in [0 .. n -> Nat] /\ g[0] = 0 /\ g[n] = SumOf(f)
       /\ \A k \in 1 .. n : g[k] = g[k - 1] + f[k]
  BY <1>1 DEF IsSums
<1>11. IsLoop(n, Nat, 0, step, g)
  <2>1. \A k \in 1 .. n : g[k - 1] \in Nat
    <3>1. \A k \in 1 .. n : k - 1 \in 0 .. n
      OBVIOUS
    <3>2. QED  BY <1>10, <3>1
  <2>2. QED  BY <1>3, <1>10, <2>1 DEF IsLoop
<1>12. it[1 .. n] = g[n]
  <2>1. FoldsAs(it, n, Nat, 0, step)
    BY <1>8, <1>9 DEF FoldsAs
  <2>2. QED  BY <1>11, <2>1, FoldIsLoop
<1>13. QED  BY <1>10, <1>12 DEF it, Body

-----------------------------------------------------------------------------
(* The memory monitor *)

Record == [ptr : Ptrs, size : Int, pos : Positions \cup {NoPosition}]

(* The places of the records of p in a chain, of users or of allocations,  *)
(* and how many there are.                                                 *)
Kind(c, p, b) == {k \in DOMAIN c : c[k].ptr = p /\ OfUser(c[k]) = b}
Times(c, p, b) == Cardinality(Kind(c, p, b))

-----------------------------------------------------------------------------
(* Chains *)

LEMMA KindFinite ==
    ASSUME NEW c \in Seq(Record), NEW p, NEW b
    PROVE  IsFiniteSet(Kind(c, p, b)) /\ Times(c, p, b) \in Nat
<1>1. IsFiniteSet(1 .. Len(c))
  BY FS_Interval
<1>2. Kind(c, p, b) \in SUBSET (1 .. Len(c))
  BY DEF Kind
<1>3. IsFiniteSet(Kind(c, p, b))
  BY <1>1, <1>2, FS_Subset
<1>4. QED  BY <1>3, FS_CardinalityType DEF Times

(* Linking a record in front of a chain *)
LEMMA PushKeeps ==
    ASSUME NEW c \in Seq(Record), NEW r \in Record
    PROVE  LET d == <<r>> \o c
           IN  /\ d \in Seq(Record)
               /\ \A k \in DOMAIN d : d[k] = r \/ \E j \in DOMAIN c : d[k] = c[j]
               /\ \A p, b : Times(d, p, b) = IF r.ptr = p /\ OfUser(r) = b
                                             THEN Times(c, p, b) + 1 ELSE Times(c, p, b)
<1> DEFINE d == <<r>> \o c
<1>1. /\ d \in Seq(Record) /\ DOMAIN d = 1 .. Len(c) + 1
      /\ d[1] = r /\ \A j \in DOMAIN c : d[j + 1] = c[j]
  OBVIOUS
<1>2. DOMAIN c = 1 .. Len(c) /\ Len(c) \in Nat
  OBVIOUS
<1> HIDE DEF d
<1>3. ASSUME NEW k \in DOMAIN d PROVE d[k] = r \/ \E j \in DOMAIN c : d[k] = c[j]
  <2>1. CASE k = 1
    BY <1>1, <2>1
  <2>2. CASE k # 1
    <3>1. k - 1 \in DOMAIN c /\ (k - 1) + 1 = k
      BY <1>1, <1>2, <2>2
    <3>2. d[k] = c[k - 1]
      BY <1>1, <3>1
    <3>3. QED  BY <3>1, <3>2
  <2>3. QED  BY <2>1, <2>2
<1>4. ASSUME NEW p, NEW b
      PROVE  Times(d, p, b) = IF r.ptr = p /\ OfUser(r) = b
                              THEN Times(c, p, b) + 1 ELSE Times(c, p, b)
  <2> DEFINE S == Kind(c, p, b)
             U == {k \in Kind(d, p, b) : k # 1}
             f == [k \in S |-> k + 1]
  <2>1. S \subseteq 1 .. Len(c) /\ U \subseteq 2 .. Len(c) + 1
    BY <1>1, <1>2 DEF Kind
  <2>2. \A k \in 1 .. Len(c) : k \in S <=> k + 1 \in U
    BY <1>1, <1>2 DEF Kind
  <2> HIDE DEF S, U
  <2>3. f \in Bijection(S, U)
    <3>1. f \in [S -> U]
      BY <2>1, <2>2
    <3>2. \A x, y \in S : f[x] = f[y] => x = y
      BY <2>1
    <3>3. \A u \in U : u - 1 \in S /\ f[u - 1] = u
      BY <2>1, <2>2
    <3> HIDE DEF f
    <3>4. QED  BY <3>1, <3>2, <3>3 DEF Bijection, Injection, Surjection, IsInjective
  <2>4. IsFiniteSet(S) /\ Cardinality(S) = Times(c, p, b)
    BY KindFinite DEF S, Times
  <2>5. IsFiniteSet(U) /\ Cardinality(U) = Times(c, p, b)
    BY <2>3, <2>4, FS_Bijection DEF ExistsBijection
  <2>6. CASE r.ptr = p /\ OfUser(r) = b
    <3>1. Kind(d, p, b) = U \cup {1} /\ 1 \notin U
      BY <1>1, <1>2, <2>6 DEF Kind, U
    <3>2. QED  BY <2>5, <2>6, <3>1, FS_AddElement DEF Times
  <2>7. CASE ~(r.ptr = p /\ OfUser(r) = b)
    <3>1. Kind(d, p, b) = U
      BY <1>1, <2>7 DEF Kind, U
    <3>2. QED  BY <2>5, <2>7, <3>1 DEF Times
  <2>8. QED  BY <2>6, <2>7
<1>5. QED  BY <1>1, <1>3, <1>4 DEF d

(* Unlinking the k-th record *)
LEMMA RemoveAtIs ==
    ASSUME NEW E, NEW c \in Seq(E), NEW k \in DOMAIN c
    PROVE  LET d == RemoveAt(c, k)
           IN  /\ d \in Seq(E) /\ DOMAIN d = 1 .. Len(c) - 1
               /\ \A i \in 1 .. Len(c) - 1 : d[i] = c[IF i < k THEN i ELSE i + 1]
<1> DEFINE d == RemoveAt(c, k)
           l == Len(c)
           at(i) == IF i < k THEN i ELSE i + 1
<1>1. DOMAIN c = 1 .. l /\ l \in Nat /\ k \in 1 .. l
  OBVIOUS
<1>2. /\ d \in Seq(E) /\ DOMAIN d = 1 .. l - 1
      /\ \A i \in 1 .. l - 1 : d[i] = c[at(i)]
  <2>1. SubSeq(c, 1, k - 1) \in Seq(E) /\ Len(SubSeq(c, 1, k - 1)) = k - 1
    OBVIOUS
  <2>2. SubSeq(c, k + 1, l) \in Seq(E) /\ Len(SubSeq(c, k + 1, l)) = l - k
    OBVIOUS
  <2>3. \A i \in 1 .. k - 1 : SubSeq(c, 1, k - 1)[i] = c[i]
    OBVIOUS
  <2>4. \A i \in 1 .. l - k : SubSeq(c, k + 1, l)[i] = c[k + i]
    OBVIOUS
  <2>5. d = SubSeq(c, 1, k - 1) \o SubSeq(c, k + 1, l)
    BY DEF RemoveAt
  <2> HIDE DEF d, l
  <2>6. d \in Seq(E) /\ Len(d) = l - 1
    <3>1. d \in Seq(E)
      BY <2>1, <2>2, <2>5
    <3>2. Len(d) = (k - 1) + (l - k)
      BY <2>1, <2>2, <2>5, ConcatProperties
    <3>3. QED  BY <1>1, <3>1, <3>2
  <2>7. DOMAIN d = 1 .. l - 1
    BY <2>6
  <2>8. ASSUME NEW i \in 1 .. l - 1 PROVE d[i] = c[at(i)]
    <3>1. CASE i < k
      BY <1>1, <2>1, <2>2, <2>3, <2>5, <3>1
    <3>2. CASE ~(i < k)
      <4>1. i - (k - 1) \in 1 .. l - k /\ k + (i - (k - 1)) = i + 1
        BY <1>1, <3>2
      <4>2. d[i] = SubSeq(c, k + 1, l)[i - (k - 1)]
        <5> DEFINE A == SubSeq(c, 1, k - 1)
                   B == SubSeq(c, k + 1, l)
        <5>1. A \in Seq(E) /\ B \in Seq(E) /\ Len(A) = k - 1 /\ Len(B) = l - k
          BY <2>1, <2>2
        <5>2. d = A \o B
          BY <2>5
        <5>3. i > Len(A) /\ i <= Len(A) + Len(B) /\ i \in Nat
          BY <1>1, <3>2, <5>1
        <5> HIDE DEF A, B
        <5>4. d[i] = IF i <= Len(A) THEN A[i] ELSE B[i - Len(A)]
          <6>1. Len(A) \in Nat /\ Len(B) \in Nat
            BY <5>1, LenProperties
          <6>2. i \in 1 .. Len(A) + Len(B)
            BY <5>3, <6>1
          <6>3. \A j \in 1 .. Len(A) + Len(B) :
                   (A \o B)[j] = IF j <= Len(A) THEN A[j] ELSE B[j - Len(A)]
            BY <5>1, ConcatProperties
          <6>4. QED  BY <5>2, <6>2, <6>3
        <5>5. d[i] = B[i - (k - 1)]
          BY <1>1, <5>1, <5>3, <5>4
        <5>6. QED  BY <5>5 DEF B
      <4>3. SubSeq(c, k + 1, l)[i - (k - 1)] = c[i + 1]
        BY <2>4, <4>1
      <4>4. QED  BY <3>2, <4>2, <4>3
    <3>3. QED  BY <3>1, <3>2
  <2>9. QED  BY <2>6, <2>7, <2>8
<1>3. QED  BY <1>2

LEMMA RemoveKeeps ==
    ASSUME NEW c \in Seq(Record), NEW k \in DOMAIN c
    PROVE  LET d == RemoveAt(c, k)
           IN  /\ d \in Seq(Record)
               /\ \A i \in DOMAIN d : \E j \in DOMAIN c : d[i] = c[j]
               /\ \A p, b : Times(d, p, b) = IF c[k].ptr = p /\ OfUser(c[k]) = b
                                             THEN Times(c, p, b) - 1 ELSE Times(c, p, b)
<1> DEFINE d == RemoveAt(c, k)
           l == Len(c)
           at(i) == IF i < k THEN i ELSE i + 1
<1>1. DOMAIN c = 1 .. l /\ l \in Nat /\ k \in 1 .. l
  OBVIOUS
<1>2. /\ d \in Seq(Record) /\ DOMAIN d = 1 .. l - 1
      /\ \A i \in 1 .. l - 1 : d[i] = c[at(i)]
  BY RemoveAtIs
<1> HIDE DEF d, l
<1>3. \A i \in 1 .. l - 1 : at(i) \in 1 .. l /\ at(i) # k
  BY <1>1
<1>4. ASSUME NEW p, NEW b
      PROVE  Times(d, p, b) = IF c[k].ptr = p /\ OfUser(c[k]) = b
                              THEN Times(c, p, b) - 1 ELSE Times(c, p, b)
  <2> DEFINE S == Kind(d, p, b)
             U == Kind(c, p, b) \ {k}
             f == [i \in S |-> at(i)]
  <2>1. S \subseteq 1 .. l - 1 /\ U \subseteq 1 .. l /\ k \notin U
    BY <1>1, <1>2 DEF Kind
  <2>2. \A i \in 1 .. l - 1 : i \in S <=> at(i) \in U
    BY <1>1, <1>2, <1>3 DEF Kind
  <2> HIDE DEF S, U
  <2>3. f \in Bijection(S, U)
    <3>1. f \in [S -> U]
      BY <2>1, <2>2
    <3>2. \A x, y \in S : f[x] = f[y] => x = y
      BY <1>1, <2>1
    <3>3. ASSUME NEW u \in U PROVE \E x \in S : f[x] = u
      <4>1. CASE u < k
        <5>1. u \in 1 .. l - 1 /\ at(u) = u
          BY <1>1, <2>1, <4>1
        <5>2. QED  BY <2>2, <5>1
      <4>2. CASE ~(u < k)
        <5>1. u - 1 \in 1 .. l - 1 /\ at(u - 1) = u
          BY <1>1, <2>1, <4>2
        <5>2. QED  BY <2>2, <5>1
      <4>3. QED  BY <4>1, <4>2
    <3> HIDE DEF f
    <3>4. QED  BY <3>1, <3>2, <3>3 DEF Bijection, Injection, Surjection, IsInjective
  <2>4. IsFiniteSet(S) /\ Cardinality(S) = Times(d, p, b)
    BY <1>2, KindFinite DEF S, Times
  <2>5. Cardinality(U) = Times(d, p, b)
    BY <2>3, <2>4, FS_Bijection DEF ExistsBijection
  <2>6. IsFiniteSet(Kind(c, p, b)) /\ Cardinality(Kind(c, p, b)) = Times(c, p, b)
    BY KindFinite DEF Times
  <2>7. Cardinality(U) = IF k \in Kind(c, p, b) THEN Times(c, p, b) - 1 ELSE Times(c, p, b)
    BY <2>6, FS_RemoveElement DEF U
  <2>8. k \in Kind(c, p, b) <=> c[k].ptr = p /\ OfUser(c[k]) = b
    BY DEF Kind
  <2>9. QED  BY <2>5, <2>7, <2>8
<1>5. \A i \in DOMAIN d : \E j \in DOMAIN c : d[i] = c[j]
  BY <1>1, <1>2, <1>3
<1>6. QED  BY <1>2, <1>4, <1>5 DEF d

(* The loop that divides a chain, as a sequence of chains. *)
InHalf(r, n, half) == (Home[r.ptr] \div n) % 2 = half

DivideStep(c, n, half, k, d) == IF InHalf(c[k], n, half) THEN <<c[k]>> \o d ELSE d

IsDividing(g, c, n, half) ==
    /\ g \in [0 .. Len(c) -> Seq(Record)]
    /\ g[0] = <<>>
    /\ \A k \in 1 .. Len(c) : g[k] = DivideStep(c, n, half, k, g[k - 1])
    /\ Divided(c, n, half) = g[Len(c)]

LEMMA DividedByLoop ==
    ASSUME NEW c \in Seq(Record), NEW n \in Nat \ {0}, NEW half \in {0, 1}
    PROVE  \E g : IsDividing(g, c, n, half)
<1> DEFINE M == Seq(Record)
           l == Len(c)
           Step(k, d) == IF (Home[c[k].ptr] \div n) % 2 = half THEN <<c[k]>> \o d ELSE d
           step == [k \in 1 .. l |-> [d \in M |-> Step(k, d)]]
           Loop(g) == [k \in 0 .. l |-> IF k = 0 THEN <<>> ELSE Step(k, g[k - 1])]
           moved == CHOOSE g : g = Loop(g)
<1>1. l \in Nat /\ DOMAIN c = 1 .. l /\ \A k \in 1 .. l : c[k] \in Record
  OBVIOUS
<1>2. \A k \in 1 .. l : \A d \in M : Step(k, d) \in M
  BY <1>1
<1>3. Divided(c, n, half) = moved[l]
  BY Zenon DEF Divided
<1>4. \A k, d : Step(k, d) = DivideStep(c, n, half, k, d)
  BY DEF DivideStep, InHalf
<1>5. <<>> \in M
  OBVIOUS
<1> HIDE DEF M, Step
<1>6. step \in [1 .. l -> [M -> M]]
  BY <1>2
<1>7. \A k \in 1 .. l : \A d \in M : step[k][d] = Step(k, d)
  OBVIOUS
<1> HIDE DEF step, l
<1>8. PICK g : IsLoop(l, M, <<>>, step, g)
  BY <1>1, <1>5, <1>6, Iteration
<1>9. \A k \in 1 .. l : g[k] = Step(k, g[k - 1])
  <2>1. SUFFICES ASSUME NEW k \in 1 .. l PROVE g[k] = Step(k, g[k - 1])
    OBVIOUS
  <2>2. k - 1 \in 0 .. l
    BY <1>1
  <2>3. g[k - 1] \in M /\ g[k] = step[k][g[k - 1]]
    BY <1>8, <2>2 DEF IsLoop
  <2>4. QED  BY <1>7, <2>3
<1>10. g = Loop(g)
  <2>1. \A k \in 0 .. l : g[k] = IF k = 0 THEN <<>> ELSE Step(k, g[k - 1])
    BY <1>1, <1>8, <1>9 DEF IsLoop
  <2>2. QED  BY <1>8, <2>1 DEF IsLoop
<1> HIDE DEF Loop
<1>11. moved = Loop(moved)
  BY <1>10, Zenon
<1> HIDE DEF moved
<1>12. moved[0] = <<>> /\ \A k \in 1 .. l : moved[k] = Step(k, moved[k - 1])
  BY <1>1, <1>11 DEF Loop
<1>13. moved \in [0 .. l -> M]
  <2> DEFINE Good == {k \in 0 .. l : moved[k] \in M}
  <2>1. 0 \in Good
    BY <1>1, <1>5, <1>12
  <2>2. \A k \in 1 .. l : k - 1 \in Good => k \in Good
    BY <1>1, <1>2, <1>12
  <2> HIDE DEF Good
  <2>3. \A k \in 0 .. l : k \in Good
    BY <1>1, <2>1, <2>2, UpTo
  <2>4. \A k \in 0 .. l : moved[k] \in M
    BY <2>3 DEF Good
  <2>5. QED  BY <1>11, <2>4 DEF Loop
<1>14. IsDividing(moved, c, n, half)
  BY <1>3, <1>4, <1>12, <1>13 DEF IsDividing, l, M
<1>15. QED  BY <1>14

(* Both halves of a chain have all records whose hash selects them. *)
LEMMA DividedKeeps ==
    ASSUME NEW c \in Seq(Record), NEW n \in Nat \ {0}, NEW half \in {0, 1}
    PROVE  LET d == Divided(c, n, half)
           IN  /\ d \in Seq(Record)
               /\ \A i \in DOMAIN d : \E j \in DOMAIN c : d[i] = c[j] /\ InHalf(c[j], n, half)
               /\ \A p, b : (Home[p] \div n) % 2 = half => Times(d, p, b) = Times(c, p, b)
<1>1. PICK g : IsDividing(g, c, n, half)
  BY DividedByLoop
<1> DEFINE l == Len(c)
           Of(d, k) == \A i \in DOMAIN d : \E j \in 1 .. k : d[i] = c[j] /\ InHalf(c[j], n, half)
           First(p, b, k) == {j \in 1 .. k : c[j].ptr = p /\ OfUser(c[j]) = b}
           Same(d, k) == \A p, b : (Home[p] \div n) % 2 = half
                                     => Times(d, p, b) = Cardinality(First(p, b, k))
           Good == {k \in 0 .. l : Of(g[k], k) /\ Same(g[k], k)}
<1>2. l \in Nat /\ DOMAIN c = 1 .. l /\ \A k \in 1 .. l : c[k] \in Record
  OBVIOUS
<1>3. g \in [0 .. l -> Seq(Record)] /\ g[0] = <<>> /\ Divided(c, n, half) = g[l]
  BY <1>1 DEF IsDividing
<1>4. \A k \in 1 .. l : g[k] = DivideStep(c, n, half, k, g[k - 1])
  BY <1>1 DEF IsDividing
<1>5. \A p, b : \A k \in 0 .. l : IsFiniteSet(First(p, b, k))
  <2>1. SUFFICES ASSUME NEW p, NEW b, NEW k \in 0 .. l PROVE IsFiniteSet(First(p, b, k))
    OBVIOUS
  <2>2. IsFiniteSet(1 .. k)
    BY FS_Interval
  <2>3. First(p, b, k) \in SUBSET (1 .. k)
    OBVIOUS
  <2> HIDE DEF First
  <2>4. QED  BY <2>2, <2>3, FS_Subset
<1> HIDE DEF l
<1>6. 0 \in Good
  <2>1. Of(<<>>, 0)
    OBVIOUS
  <2>2. \A p, b : Kind(<<>>, p, b) = {} /\ First(p, b, 0) = {}
    BY DEF Kind
  <2>3. Same(<<>>, 0)
    BY <2>2 DEF Times
  <2>4. QED  BY <1>2, <1>3, <2>1, <2>3
<1>7. ASSUME NEW k \in 1 .. l, k - 1 \in Good PROVE k \in Good
  <2> DEFINE d == g[k - 1]
             e == g[k]
  <2>1. d \in Seq(Record) /\ k - 1 \in 0 .. l /\ k \in 0 .. l /\ c[k] \in Record
    BY <1>2, <1>3
  <2>2. Of(d, k - 1) /\ Same(d, k - 1)
    BY <1>7
  <2>3. e = DivideStep(c, n, half, k, d)
    BY <1>4
  <2>4. ASSUME NEW p, NEW b
        PROVE  First(p, b, k) = IF c[k].ptr = p /\ OfUser(c[k]) = b
                                THEN First(p, b, k - 1) \cup {k} ELSE First(p, b, k - 1)
    <3>1. 1 .. k = (1 .. k - 1) \cup {k}
      BY <1>2
    <3>2. QED  BY <3>1
  <2>5. ASSUME NEW p, NEW b
        PROVE  Cardinality(First(p, b, k)) =
                 IF c[k].ptr = p /\ OfUser(c[k]) = b
                 THEN Cardinality(First(p, b, k - 1)) + 1 ELSE Cardinality(First(p, b, k - 1))
    <3>1. k \notin First(p, b, k - 1)
      BY <1>2
    <3>2. IsFiniteSet(First(p, b, k - 1))
      BY <1>5, <2>1
    <3>3. First(p, b, k) = IF c[k].ptr = p /\ OfUser(c[k]) = b
                           THEN First(p, b, k - 1) \cup {k} ELSE First(p, b, k - 1)
      BY <2>4
    <3> HIDE DEF First
    <3>4. QED  BY <3>1, <3>2, <3>3, FS_AddElement
  <2> HIDE DEF First, d, e
  <2>6. CASE InHalf(c[k], n, half)
    <3>1. e = <<c[k]>> \o d
      BY <2>3, <2>6 DEF DivideStep
    <3>2. /\ \A i \in DOMAIN e : e[i] = c[k] \/ \E j \in DOMAIN d : e[i] = d[j]
          /\ \A p, b : Times(e, p, b) = IF c[k].ptr = p /\ OfUser(c[k]) = b
                                        THEN Times(d, p, b) + 1 ELSE Times(d, p, b)
      BY <2>1, <3>1, PushKeeps
    <3>3. Of(e, k)
      <4>1. SUFFICES ASSUME NEW i \in DOMAIN e
                     PROVE  \E j \in 1 .. k : e[i] = c[j] /\ InHalf(c[j], n, half)
        OBVIOUS
      <4>2. CASE e[i] = c[k]
        BY <1>2, <2>6, <4>2
      <4>3. CASE \E j \in DOMAIN d : e[i] = d[j]
        <5>1. PICK j \in DOMAIN d : e[i] = d[j]
          BY <4>3
        <5>2. PICK m \in 1 .. k - 1 : d[j] = c[m] /\ InHalf(c[m], n, half)
          BY <2>2
        <5>3. m \in 1 .. k
          BY <1>2
        <5>4. QED  BY <5>1, <5>2, <5>3
      <4>4. QED  BY <3>2, <4>2, <4>3
    <3>4. Same(e, k)
      BY <2>2, <2>5, <3>2
    <3>5. QED  BY <2>1, <3>3, <3>4 DEF e
  <2>7. CASE ~InHalf(c[k], n, half)
    <3>1. e = d
      BY <2>3, <2>7 DEF DivideStep
    <3>2. Of(e, k)
      <4>1. \A j \in 1 .. k - 1 : j \in 1 .. k
        BY <1>2
      <4>2. QED  BY <2>2, <3>1, <4>1
    <3>3. ASSUME NEW p, NEW b, (Home[p] \div n) % 2 = half
          PROVE  Times(e, p, b) = Cardinality(First(p, b, k))
      <4>1. c[k].ptr # p
        BY <2>7, <3>3 DEF InHalf
      <4>2. QED  BY <2>2, <2>5, <3>1, <3>3, <4>1
    <3>4. QED  BY <2>1, <3>2, <3>3 DEF e
  <2>8. QED  BY <2>6, <2>7
<1>8. l \in Good
  <2>1. \A k \in 1 .. l : k - 1 \in Good => k \in Good
    BY <1>7
  <2>2. l \in 0 .. l
    BY <1>2
  <2> HIDE DEF Good
  <2>3. QED  BY <1>2, <1>6, <2>1, <2>2, UpTo
<1>9. \A p, b : First(p, b, l) = Kind(c, p, b)
  BY <1>2 DEF Kind
<1>10. QED
  <2>1. Of(g[l], l) /\ Same(g[l], l) /\ g[l] \in Seq(Record)
    BY <1>2, <1>3, <1>8
  <2>2. \A p, b : (Home[p] \div n) % 2 = half
                  => Times(g[l], p, b) = Cardinality(First(p, b, l))
    BY <2>1
  <2>3. \A p, b : Cardinality(First(p, b, l)) = Times(c, p, b)
    BY <1>9, Zenon DEF Times
  <2>4. \A i \in DOMAIN g[l] : \E j \in DOMAIN c : g[l][i] = c[j] /\ InHalf(c[j], n, half)
    BY <1>2, <2>1
  <2> HIDE DEF First, Good
  <2>5. \A p, b : (Home[p] \div n) % 2 = half => Times(g[l], p, b) = Times(c, p, b)
    BY <2>2, <2>3, Zenon
  <2> DEFINE d == Divided(c, n, half)
  <2>6. d = g[l]
    BY <1>3
  <2> HIDE DEF d, Of, Same
  <2>7. /\ d \in Seq(Record)
        /\ \A i \in DOMAIN d : \E j \in DOMAIN c : d[i] = c[j] /\ InHalf(c[j], n, half)
        /\ \A p, b : (Home[p] \div n) % 2 = half => Times(d, p, b) = Times(c, p, b)
    BY <2>1, <2>4, <2>5, <2>6
  <2>8. QED  BY <2>7 DEF d

-----------------------------------------------------------------------------
(* Tables *)

(* Tables of n slots, with every record on the chain of its hash *)
Tables(n) ==
    {t \in [0 .. n - 1 -> Seq(Record)] :
        \A i \in 0 .. n - 1 : \A k \in DOMAIN t[i] : Home[t[i][k].ptr] % n = i}

(* What distinguishes a table with a record more, the same records, or a   *)
(* record of p less, for those who look for pointers.                      *)
Adds(t, u, r) ==
    \A p \in Ptrs :
        /\ \A k \in DOMAIN ChainOf(u, p) :
              \/ ChainOf(u, p)[k] = r
              \/ \E j \in DOMAIN ChainOf(t, p) : ChainOf(u, p)[k] = ChainOf(t, p)[j]
        /\ \A b : Times(ChainOf(u, p), p, b) = IF r.ptr = p /\ OfUser(r) = b
                                               THEN Times(ChainOf(t, p), p, b) + 1
                                               ELSE Times(ChainOf(t, p), p, b)

Keeps(t, u) ==
    \A p \in Ptrs :
        /\ \A k \in DOMAIN ChainOf(u, p) :
              \E j \in DOMAIN ChainOf(t, p) : ChainOf(u, p)[k] = ChainOf(t, p)[j]
        /\ \A b : Times(ChainOf(u, p), p, b) = Times(ChainOf(t, p), p, b)

Drops(t, u, q, kind) ==
    \A p \in Ptrs :
        /\ \A k \in DOMAIN ChainOf(u, p) :
              \E j \in DOMAIN ChainOf(t, p) : ChainOf(u, p)[k] = ChainOf(t, p)[j]
        /\ \A b : Times(ChainOf(u, p), p, b) = IF q = p /\ kind = b
                                               THEN Times(ChainOf(t, p), p, b) - 1
                                               ELSE Times(ChainOf(t, p), p, b)

LEMMA TableFacts ==
    ASSUME NEW n \in Nat \ {0}, NEW t \in Tables(n)
    PROVE  /\ TableSize(t) = n
           /\ \A p \in Ptrs : /\ Home[p] % n \in 0 .. n - 1
                              /\ ChainOf(t, p) = t[Home[p] % n]
                              /\ ChainOf(t, p) \in Seq(Record)
<1>1. DOMAIN t = 0 .. n - 1
  BY DEF Tables
<1>2. TableSize(t) = n
  BY <1>1, FS_Interval DEF TableSize
<1>3. ASSUME NEW p \in Ptrs PROVE Home[p] % n \in 0 .. n - 1
  <2>1. Home[p] \in Nat
    BY MonitorAssumption
  <2>2. QED  BY <2>1, DivMod
<1>4. \A p \in Ptrs : ChainOf(t, p) = t[Home[p] % n]
  BY <1>2 DEF ChainOf
<1>5. \A i \in 0 .. n - 1 : t[i] \in Seq(Record)
  BY DEF Tables
<1>6. QED  BY <1>2, <1>3, <1>4, <1>5

(* A table with one chain changed *)
OnSlot(c, i, n) == c \in Seq(Record) /\ \A k \in DOMAIN c : Home[c[k].ptr] % n = i

Changed(t, u, i, c, n) ==
    u \in [0 .. n - 1 -> Seq(Record)] /\ u[i] = c /\ \A j \in (0 .. n - 1) \ {i} : u[j] = t[j]

LEMMA ChainChanged ==
    ASSUME NEW n \in Nat \ {0}, NEW t \in Tables(n), NEW i \in 0 .. n - 1, NEW c, NEW u,
           OnSlot(c, i, n), Changed(t, u, i, c, n)
    PROVE  /\ u \in Tables(n)
           /\ \A p \in Ptrs : ChainOf(u, p) = IF Home[p] % n = i THEN c ELSE ChainOf(t, p)
<1>1. u[i] = c /\ \A j \in 0 .. n - 1 : j # i => u[j] = t[j]
  BY DEF Changed
<1>2. ASSUME NEW j \in 0 .. n - 1, NEW k \in DOMAIN u[j] PROVE Home[u[j][k].ptr] % n = j
  <2>1. CASE j = i
    BY <1>1, <2>1 DEF OnSlot
  <2>2. CASE j # i
    BY <1>1, <2>2 DEF Tables
  <2>3. QED  BY <2>1, <2>2
<1>3. u \in Tables(n)
  BY <1>2 DEF Tables, Changed
<1>4. ASSUME NEW p \in Ptrs
      PROVE  ChainOf(u, p) = IF Home[p] % n = i THEN c ELSE ChainOf(t, p)
  <2>1. ChainOf(u, p) = u[Home[p] % n] /\ ChainOf(t, p) = t[Home[p] % n]
        /\ Home[p] % n \in 0 .. n - 1
    BY <1>3, TableFacts
  <2>2. QED  BY <1>1, <2>1
<1>5. QED  BY <1>3, <1>4

LEMMA LinkedKeeps ==
    ASSUME NEW n \in Nat \ {0}, NEW t \in Tables(n), NEW q \in Ptrs,
           NEW r \in Record, r.ptr = q
    PROVE  LET u == [t EXCEPT ![Home[q] % TableSize(t)] = <<r>> \o @]
           IN  u \in Tables(n) /\ Adds(t, u, r)
<1> DEFINE i == Home[q] % n
           c == ChainOf(t, q)
           d == <<r>> \o c
           u == [t EXCEPT ![i] = d]
<1>1. r.ptr = q
  OBVIOUS
<1>2. TableSize(t) = n /\ i \in 0 .. n - 1 /\ c = t[i] /\ c \in Seq(Record)
  BY TableFacts
<1>3. /\ d \in Seq(Record)
      /\ \A k \in DOMAIN d : d[k] = r \/ \E j \in DOMAIN c : d[k] = c[j]
      /\ \A p, b : Times(d, p, b) = IF q = p /\ OfUser(r) = b
                                    THEN Times(c, p, b) + 1 ELSE Times(c, p, b)
  BY <1>1, <1>2, PushKeeps
<1>4. u = [t EXCEPT ![Home[q] % TableSize(t)] = <<r>> \o @]
  BY <1>2 DEF ChainOf
<1>5. \A p \in Ptrs : Home[p] % n = i => ChainOf(t, p) = c
  BY TableFacts
<1>6. OnSlot(c, i, n)
  BY <1>2 DEF Tables, OnSlot
<1>7. Changed(t, u, i, d, n)
  <2> HIDE DEF c, d, i
  <2>1. t \in [0 .. n - 1 -> Seq(Record)]
    BY DEF Tables
  <2>2. QED  BY <1>2, <1>3, <2>1 DEF Changed
<1> HIDE DEF c, d, u
<1>8. OnSlot(d, i, n)
  BY <1>1, <1>3, <1>6 DEF OnSlot
<1>9. u \in Tables(n) /\ \A p \in Ptrs : ChainOf(u, p) = IF Home[p] % n = i THEN d ELSE ChainOf(t, p)
  <2> HIDE DEF i
  <2>1. QED  BY <1>2, <1>7, <1>8, ChainChanged
<1>10. ASSUME NEW p \in Ptrs
       PROVE  /\ \A k \in DOMAIN ChainOf(u, p) :
                    \/ ChainOf(u, p)[k] = r
                    \/ \E j \in DOMAIN ChainOf(t, p) : ChainOf(u, p)[k] = ChainOf(t, p)[j]
              /\ \A b : Times(ChainOf(u, p), p, b) = IF r.ptr = p /\ OfUser(r) = b
                                                     THEN Times(ChainOf(t, p), p, b) + 1
                                                     ELSE Times(ChainOf(t, p), p, b)
  <2>1. CASE Home[p] % n = i
    <3>1. ChainOf(u, p) = d /\ ChainOf(t, p) = c
      BY <1>5, <1>9, <2>1
    <3>2. QED  BY <1>1, <1>3, <3>1
  <2>2. CASE Home[p] % n # i
    <3>1. ChainOf(u, p) = ChainOf(t, p) /\ q # p
      BY <1>9, <2>2
    <3>2. QED  BY <1>1, <3>1
  <2>3. QED  BY <2>1, <2>2
<1>11. Adds(t, u, r)
  BY <1>10 DEF Adds
<1>12. QED  BY <1>4, <1>9, <1>11

LEMMA RemovedKeeps ==
    ASSUME NEW n \in Nat \ {0}, NEW t \in Tables(n), NEW q \in Ptrs,
           NEW kind, NEW k \in Places(t, q, kind)
    PROVE  LET u == [t EXCEPT ![Home[q] % TableSize(t)] = RemoveAt(@, k)]
           IN  u \in Tables(n) /\ Drops(t, u, q, kind)
<1> DEFINE i == Home[q] % n
           c == ChainOf(t, q)
           d == RemoveAt(c, k)
           u == [t EXCEPT ![i] = d]
<1>1. k \in DOMAIN c /\ c[k].ptr = q /\ OfUser(c[k]) = kind
  BY DEF Places
<1>2. TableSize(t) = n /\ i \in 0 .. n - 1 /\ c = t[i] /\ c \in Seq(Record)
  BY TableFacts
<1>3. /\ d \in Seq(Record)
      /\ \A m \in DOMAIN d : \E j \in DOMAIN c : d[m] = c[j]
      /\ \A p, b : Times(d, p, b) = IF q = p /\ kind = b
                                    THEN Times(c, p, b) - 1 ELSE Times(c, p, b)
  BY <1>1, <1>2, RemoveKeeps
<1>4. u = [t EXCEPT ![Home[q] % TableSize(t)] = RemoveAt(@, k)]
  BY <1>2 DEF ChainOf
<1>5. \A p \in Ptrs : Home[p] % n = i => ChainOf(t, p) = c
  BY TableFacts
<1>6. OnSlot(c, i, n)
  BY <1>2 DEF Tables, OnSlot
<1>7. Changed(t, u, i, d, n)
  <2> HIDE DEF c, d, i
  <2>1. t \in [0 .. n - 1 -> Seq(Record)]
    BY DEF Tables
  <2>2. QED  BY <1>2, <1>3, <2>1 DEF Changed
<1> HIDE DEF c, d, u
<1>8. OnSlot(d, i, n)
  BY <1>1, <1>3, <1>6 DEF OnSlot
<1>9. u \in Tables(n) /\ \A p \in Ptrs : ChainOf(u, p) = IF Home[p] % n = i THEN d ELSE ChainOf(t, p)
  <2> HIDE DEF i
  <2>1. QED  BY <1>2, <1>7, <1>8, ChainChanged
<1>10. ASSUME NEW p \in Ptrs
       PROVE  /\ \A m \in DOMAIN ChainOf(u, p) :
                    \E j \in DOMAIN ChainOf(t, p) : ChainOf(u, p)[m] = ChainOf(t, p)[j]
              /\ \A b : Times(ChainOf(u, p), p, b) = IF q = p /\ kind = b
                                                     THEN Times(ChainOf(t, p), p, b) - 1
                                                     ELSE Times(ChainOf(t, p), p, b)
  <2>1. CASE Home[p] % n = i
    <3>1. ChainOf(u, p) = d /\ ChainOf(t, p) = c
      BY <1>5, <1>9, <2>1
    <3>2. QED  BY <1>1, <1>3, <3>1
  <2>2. CASE Home[p] % n # i
    <3>1. ChainOf(u, p) = ChainOf(t, p) /\ q # p
      BY <1>9, <2>2
    <3>2. QED  BY <1>1, <3>1
  <2>3. QED  BY <2>1, <2>2
<1>11. Drops(t, u, q, kind)
  BY <1>10 DEF Drops
<1>12. QED  BY <1>4, <1>9, <1>11

(* The slot in a table of twice the size, and the way back *)
LEMMA DoubledSlot ==
    ASSUME NEW n \in Nat \ {0}, NEW h \in Nat
    PROVE  LET half == (h \div n) % 2
           IN  /\ half \in {0, 1}
               /\ h % (2 * n) = (h % n) + n * half
               /\ (h % (2 * n)) % n = h % n
               /\ (h % (2 * n)) \div n = half
<1> DEFINE q == h \div n
           r == h % n
           half == q % 2
           e == q \div 2
           m == r + n * half
<1>1. q \in Nat /\ r \in 0 .. n - 1 /\ h = n * q + r
  BY DivMod
<1>2. half \in {0, 1} /\ e \in Nat /\ q = 2 * e + half
  BY <1>1
<1> HIDE DEF q, r, half, e
<1>3. m \in 0 .. 2 * n - 1
  BY <1>1, <1>2
<1>4. h = (2 * n) * e + m
  <2>1. n * q = n * (2 * e) + n * half
    BY <1>1, <1>2
  <2>2. n * (2 * e) = (2 * n) * e
    BY <1>2
  <2>3. QED  BY <1>1, <1>2, <2>1, <2>2
<1>5. h % (2 * n) = m
  BY <1>2, <1>3, <1>4
<1>6. m = n * half + r
  BY <1>1, <1>2
<1>7. m % n = r /\ m \div n = half
  BY <1>1, <1>2, <1>6
<1>8. QED  BY <1>2, <1>5, <1>7 DEF half, q, r

(* A rehash keeps all records and puts each on the chain of its hash. *)
LEMMA RehashedKeeps ==
    ASSUME NEW n \in Nat \ {0}, NEW t \in Tables(n)
    PROVE  Rehashed(t) \in Tables(2 * n) /\ Keeps(t, Rehashed(t))
<1> DEFINE N == 2 * n
           u == Rehashed(t)
           half(j) == j \div n
<1>1. N \in Nat \ {0} /\ TableSize(t) = n
  BY TableFacts
<1>2. u = [j \in 0 .. N - 1 |-> Divided(t[j % n], n, half(j))]
  BY <1>1 DEF Rehashed
<1>3. \A j \in 0 .. N - 1 : half(j) \in {0, 1} /\ j % n \in 0 .. n - 1
  OBVIOUS
<1>4. \A j \in 0 .. n - 1 : t[j] \in Seq(Record)
  BY DEF Tables
<1>5. ASSUME NEW r \in Record
      PROVE  /\ InHalf(r, n, half(Home[r.ptr] % N))
             /\ (Home[r.ptr] % N) % n = Home[r.ptr] % n
             /\ \A j \in 0 .. N - 1 :
                   Home[r.ptr] % n = j % n /\ InHalf(r, n, half(j)) => Home[r.ptr] % N = j
  <2>1. r.ptr \in Ptrs /\ Home[r.ptr] \in Nat
    BY MonitorAssumption DEF Record
  <2> DEFINE h == Home[r.ptr]
  <2>2. /\ h % N = (h % n) + n * ((h \div n) % 2)
        /\ (h % N) % n = h % n /\ half(h % N) = (h \div n) % 2
    BY <2>1, DoubledSlot
  <2>3. \A j \in 0 .. N - 1 : j = n * (j \div n) + (j % n)
    BY DivMod
  <2> HIDE DEF h, half, N
  <2>4. ASSUME NEW j \in 0 .. N - 1, h % n = j % n, (h \div n) % 2 = half(j)
        PROVE  h % N = j
    <3>1. n * ((h \div n) % 2) = n * (j \div n)
      BY <2>4 DEF half
    <3>2. j = n * (j \div n) + (j % n)
      BY <2>3
    <3>3. h % N = (j % n) + n * (j \div n)
      BY <2>2, <2>4, <3>1
    <3>4. j % n \in Int /\ n * (j \div n) \in Int
      BY <1>1 DEF N
    <3>5. QED  BY <3>2, <3>3, <3>4
  <2>5. QED  BY <2>2, <2>4 DEF InHalf, h
<1> HIDE DEF N, u, half
<1>6. ASSUME NEW j \in 0 .. N - 1
      PROVE  /\ u[j] \in Seq(Record)
             /\ \A i \in DOMAIN u[j] :
                   \E k \in DOMAIN t[j % n] : u[j][i] = t[j % n][k]
                                              /\ InHalf(t[j % n][k], n, half(j))
             /\ \A p, b : (Home[p] \div n) % 2 = half(j)
                            => Times(u[j], p, b) = Times(t[j % n], p, b)
  <2>1. u[j] = Divided(t[j % n], n, half(j))
    BY <1>2
  <2>2. t[j % n] \in Seq(Record) /\ half(j) \in {0, 1}
    BY <1>3, <1>4
  <2> DEFINE c == t[j % n]
             b == half(j)
             d == Divided(c, n, b)
  <2>3. u[j] = d /\ c \in Seq(Record) /\ b \in {0, 1}
    BY <2>1, <2>2
  <2> HIDE DEF c, b
  <2>4. /\ d \in Seq(Record)
        /\ \A i \in DOMAIN d : \E k \in DOMAIN c : d[i] = c[k] /\ InHalf(c[k], n, b)
        /\ \A p, x : (Home[p] \div n) % 2 = b => Times(d, p, x) = Times(c, p, x)
    BY <2>3, DividedKeeps
  <2> HIDE DEF d
  <2>5. QED  BY <2>3, <2>4 DEF c, b
<1>7. ASSUME NEW j \in 0 .. N - 1, NEW i \in DOMAIN u[j] PROVE Home[u[j][i].ptr] % N = j
  <2>1. PICK k \in DOMAIN t[j % n] : u[j][i] = t[j % n][k] /\ InHalf(t[j % n][k], n, half(j))
    BY <1>6
  <2> DEFINE r == t[j % n][k]
  <2>2. r \in Record /\ Home[r.ptr] % n = j % n
    BY <1>3, <1>4, <2>1 DEF Tables
  <2> HIDE DEF r
  <2>3. Home[r.ptr] % N = j
    BY <1>5, <2>1, <2>2 DEF r
  <2>4. QED  BY <2>1, <2>3 DEF r
<1>8. u \in Tables(N)
  BY <1>2, <1>6, <1>7 DEF Tables
<1>9. ASSUME NEW p \in Ptrs
      PROVE  /\ \A i \in DOMAIN ChainOf(u, p) :
                   \E k \in DOMAIN ChainOf(t, p) : ChainOf(u, p)[i] = ChainOf(t, p)[k]
             /\ \A b : Times(ChainOf(u, p), p, b) = Times(ChainOf(t, p), p, b)
  <2> DEFINE j == Home[p] % N
  <2>1. j \in 0 .. N - 1 /\ ChainOf(u, p) = u[j]
    BY <1>1, <1>8, TableFacts
  <2>2. Home[p] \in Nat
    BY MonitorAssumption
  <2>3. (Home[p] \div n) % 2 = half(j) /\ j % n = Home[p] % n
    BY <2>2, DoubledSlot DEF half, N
  <2>4. ChainOf(t, p) = t[j % n]
    BY <2>3, TableFacts
  <2> HIDE DEF j
  <2>5. \A i \in DOMAIN u[j] : \E k \in DOMAIN t[j % n] : u[j][i] = t[j % n][k]
    BY <1>6, <2>1
  <2>6. \A b : Times(u[j], p, b) = Times(t[j % n], p, b)
    BY <1>6, <2>1, <2>3
  <2>7. QED  BY <2>1, <2>4, <2>5, <2>6
<1>10. Keeps(t, u)
  BY <1>9 DEF Keeps
<1>11. QED  BY <1>8, <1>10 DEF u, N

(* Linking a record, with or without the rehash that may follow *)
LEMMA RememberKeeps ==
    ASSUME NEW n \in Nat \ {0}, NEW t \in Tables(n), NEW q \in Ptrs,
           NEW r \in Record, r.ptr = q, NEW m,
           NEW u \in AfterInc([t EXCEPT ![Home[q] % TableSize(t)] = <<r>> \o @], m)
    PROVE  (\E k \in Nat \ {0} : u \in Tables(k)) /\ Adds(t, u, r)
<1> DEFINE v == [t EXCEPT ![Home[q] % TableSize(t)] = <<r>> \o @]
<1>1. v \in Tables(n) /\ Adds(t, v, r)
  BY LinkedKeeps
<1>2. u = v \/ u = Rehashed(v)
  BY DEF AfterInc
<1> HIDE DEF v
<1>3. CASE u = v
  BY <1>1, <1>3
<1>4. CASE u = Rehashed(v)
  <2>1. u \in Tables(2 * n) /\ Keeps(v, u) /\ 2 * n \in Nat \ {0}
    BY <1>1, <1>4, RehashedKeeps
  <2>2. Adds(t, u, r)
    <3>1. SUFFICES ASSUME NEW p \in Ptrs
                   PROVE  /\ \A k \in DOMAIN ChainOf(u, p) :
                                \/ ChainOf(u, p)[k] = r
                                \/ \E j \in DOMAIN ChainOf(t, p) : ChainOf(u, p)[k] = ChainOf(t, p)[j]
                          /\ \A b : Times(ChainOf(u, p), p, b) = IF r.ptr = p /\ OfUser(r) = b
                                                                 THEN Times(ChainOf(t, p), p, b) + 1
                                                                 ELSE Times(ChainOf(t, p), p, b)
      BY DEF Adds
    <3>2. /\ \A k \in DOMAIN ChainOf(u, p) :
                \E j \in DOMAIN ChainOf(v, p) : ChainOf(u, p)[k] = ChainOf(v, p)[j]
          /\ \A b : Times(ChainOf(u, p), p, b) = Times(ChainOf(v, p), p, b)
      BY <2>1 DEF Keeps
    <3>3. /\ \A k \in DOMAIN ChainOf(v, p) :
                \/ ChainOf(v, p)[k] = r
                \/ \E j \in DOMAIN ChainOf(t, p) : ChainOf(v, p)[k] = ChainOf(t, p)[j]
          /\ \A b : Times(ChainOf(v, p), p, b) = IF r.ptr = p /\ OfUser(r) = b
                                                 THEN Times(ChainOf(t, p), p, b) + 1
                                                 ELSE Times(ChainOf(t, p), p, b)
      BY <1>1 DEF Adds
    <3>4. QED  BY <3>2, <3>3
  <2>3. QED  BY <2>1, <2>2
<1>5. QED  BY <1>2, <1>3, <1>4

-----------------------------------------------------------------------------
(* The inductive invariant *)

Well(t) == \E n \in Nat \ {0} : t \in Tables(n)

(* Each pointer the program holds has one record, of the right size. *)
Recorded(t, h) ==
    \A p \in Ptrs :
        /\ Times(ChainOf(t, p), p, FALSE) = IF h[p] = 0 THEN 0 ELSE 1
        /\ \A k \in Kind(ChainOf(t, p), p, FALSE) : BucketSize(ChainOf(t, p)[k]) = h[p]

MonInv ==
    /\ Well(table)
    /\ heap \in [Ptrs -> Sizes \cup {0}]
    /\ status \in {"on", "off", "crashed"}
    /\ status # "off" => Recorded(table, heap)

(* How often each pointer is remembered by hand *)
MarksIn(t) == [p \in Ptrs |-> Cardinality(Places(t, p, TRUE))]

LEMMA PlacesAreKind ==
    ASSUME NEW t, NEW p, NEW b
    PROVE  Places(t, p, b) = Kind(ChainOf(t, p), p, b)
BY DEF Places, Kind

LEMMA WellFacts ==
    ASSUME NEW t, Well(t), NEW p \in Ptrs, NEW b
    PROVE  /\ ChainOf(t, p) \in Seq(Record)
           /\ Times(ChainOf(t, p), p, b) \in Nat
           /\ Places(t, p, b) = {} <=> Times(ChainOf(t, p), p, b) = 0
<1>1. PICK n \in Nat \ {0} : t \in Tables(n)
  BY DEF Well
<1>2. ChainOf(t, p) \in Seq(Record)
  BY <1>1, TableFacts
<1>3. IsFiniteSet(Kind(ChainOf(t, p), p, b)) /\ Times(ChainOf(t, p), p, b) \in Nat
  BY <1>2, KindFinite
<1>4. Kind(ChainOf(t, p), p, b) = {} <=> Times(ChainOf(t, p), p, b) = 0
  BY <1>3, FS_EmptySet DEF Times
<1>5. QED  BY <1>2, <1>3, <1>4, PlacesAreKind

(* No record for what is not allocated, one for what is *)
LEMMA AddsRecord ==
    ASSUME NEW t, Well(t), NEW u, NEW h \in [Ptrs -> Nat], Recorded(t, h),
           NEW q \in Ptrs, NEW r, r.ptr = q, Adds(t, u, r),
           OfUser(r) = FALSE, h[q] = 0, BucketSize(r) # 0
    PROVE  /\ Recorded(u, [h EXCEPT ![q] = BucketSize(r)])
           /\ MarksIn(u) = MarksIn(t)
<1> DEFINE g == [h EXCEPT ![q] = BucketSize(r)]
<1>1. \A p \in Ptrs : g[p] = IF p = q THEN BucketSize(r) ELSE h[p]
  OBVIOUS
<1> HIDE DEF g
<1>2. ASSUME NEW p \in Ptrs
      PROVE  /\ Times(ChainOf(u, p), p, FALSE) = IF g[p] = 0 THEN 0 ELSE 1
             /\ \A k \in Kind(ChainOf(u, p), p, FALSE) : BucketSize(ChainOf(u, p)[k]) = g[p]
  <2>1. /\ Times(ChainOf(t, p), p, FALSE) = IF h[p] = 0 THEN 0 ELSE 1
        /\ \A j \in Kind(ChainOf(t, p), p, FALSE) : BucketSize(ChainOf(t, p)[j]) = h[p]
    BY DEF Recorded
  <2>2. Times(ChainOf(u, p), p, FALSE) = IF p = q THEN Times(ChainOf(t, p), p, FALSE) + 1
                                                 ELSE Times(ChainOf(t, p), p, FALSE)
    BY DEF Adds
  <2>3. Times(ChainOf(u, p), p, FALSE) = IF g[p] = 0 THEN 0 ELSE 1
    <3>1. CASE p = q
      <4>1. Times(ChainOf(t, p), p, FALSE) = 0
        BY <2>1, <3>1
      <4>2. g[p] # 0
        BY <1>1, <3>1
      <4>3. Times(ChainOf(u, p), p, FALSE) = Times(ChainOf(t, p), p, FALSE) + 1
        BY <2>2, <3>1
      <4>4. Times(ChainOf(u, p), p, FALSE) = 0 + 1
        BY <4>1, <4>3, Zenon
      <4>5. 0 + 1 = 1
        OBVIOUS
      <4>6. Times(ChainOf(u, p), p, FALSE) = 1
        BY <4>4, <4>5, Zenon
      <4>7. QED  BY <4>2, <4>6, Zenon
    <3>2. CASE p # q
      BY <1>1, <2>1, <2>2, <3>2
    <3>3. QED  BY <3>1, <3>2
  <2>4. ASSUME NEW k \in Kind(ChainOf(u, p), p, FALSE)
        PROVE  BucketSize(ChainOf(u, p)[k]) = g[p]
    <3>1. k \in DOMAIN ChainOf(u, p) /\ ChainOf(u, p)[k].ptr = p /\ OfUser(ChainOf(u, p)[k]) = FALSE
      BY DEF Kind
    <3>2. CASE ChainOf(u, p)[k] = r
      BY <1>1, <3>1, <3>2
    <3>3. CASE \E j \in DOMAIN ChainOf(t, p) : ChainOf(u, p)[k] = ChainOf(t, p)[j]
      <4>1. PICK j \in DOMAIN ChainOf(t, p) : ChainOf(u, p)[k] = ChainOf(t, p)[j]
        BY <3>3
      <4>2. j \in Kind(ChainOf(t, p), p, FALSE)
        BY <3>1, <4>1 DEF Kind
      <4>3. Times(ChainOf(t, p), p, FALSE) # 0
        BY <4>2, WellFacts, PlacesAreKind
      <4>4. p # q
        BY <2>1, <4>3
      <4>5. QED  BY <1>1, <2>1, <4>1, <4>2, <4>4
    <3>4. QED  BY <3>1, <3>2, <3>3 DEF Adds
  <2>5. QED  BY <2>3, <2>4
<1>3. ASSUME NEW p \in Ptrs PROVE Cardinality(Places(u, p, TRUE)) = Cardinality(Places(t, p, TRUE))
  <2>1. Times(ChainOf(u, p), p, TRUE) = Times(ChainOf(t, p), p, TRUE)
    BY DEF Adds
  <2>2. QED  BY <2>1, PlacesAreKind DEF Times
<1>4. MarksIn(u) = MarksIn(t)
  BY <1>3 DEF MarksIn
<1>5. Recorded(u, g)
  BY <1>2 DEF Recorded
<1>6. QED  BY <1>4, <1>5 DEF g

LEMMA AddsMark ==
    ASSUME NEW t, Well(t), NEW u, NEW h, Recorded(t, h),
           NEW q \in Ptrs, NEW r, r.ptr = q, Adds(t, u, r), OfUser(r) = TRUE
    PROVE  /\ Recorded(u, h)
           /\ MarksIn(u) = [MarksIn(t) EXCEPT ![q] = @ + 1]
<1>1. ASSUME NEW p \in Ptrs
      PROVE  /\ Times(ChainOf(u, p), p, FALSE) = IF h[p] = 0 THEN 0 ELSE 1
             /\ \A k \in Kind(ChainOf(u, p), p, FALSE) : BucketSize(ChainOf(u, p)[k]) = h[p]
  <2>1. /\ Times(ChainOf(t, p), p, FALSE) = IF h[p] = 0 THEN 0 ELSE 1
        /\ \A j \in Kind(ChainOf(t, p), p, FALSE) : BucketSize(ChainOf(t, p)[j]) = h[p]
    BY DEF Recorded
  <2>2. Times(ChainOf(u, p), p, FALSE) = Times(ChainOf(t, p), p, FALSE)
    BY DEF Adds
  <2>3. ASSUME NEW k \in Kind(ChainOf(u, p), p, FALSE)
        PROVE  BucketSize(ChainOf(u, p)[k]) = h[p]
    <3>1. /\ k \in DOMAIN ChainOf(u, p) /\ ChainOf(u, p)[k].ptr = p
          /\ ~OfUser(ChainOf(u, p)[k])
      BY DEF Kind
    <3>2. PICK j \in DOMAIN ChainOf(t, p) : ChainOf(u, p)[k] = ChainOf(t, p)[j]
      BY <3>1 DEF Adds
    <3>3. j \in Kind(ChainOf(t, p), p, FALSE)
      BY <3>1, <3>2 DEF Kind
    <3>4. QED  BY <2>1, <3>2, <3>3
  <2>4. QED  BY <2>1, <2>2, <2>3
<1>2. ASSUME NEW p \in Ptrs
      PROVE  Cardinality(Places(u, p, TRUE)) = IF p = q THEN Cardinality(Places(t, p, TRUE)) + 1
                                                      ELSE Cardinality(Places(t, p, TRUE))
  <2>1. Times(ChainOf(u, p), p, TRUE) = IF p = q THEN Times(ChainOf(t, p), p, TRUE) + 1
                                                ELSE Times(ChainOf(t, p), p, TRUE)
    BY DEF Adds
  <2>2. QED  BY <2>1, PlacesAreKind DEF Times
<1>3. MarksIn(u) = [MarksIn(t) EXCEPT ![q] = @ + 1]
  BY <1>2 DEF MarksIn
<1>4. QED  BY <1>1, <1>3 DEF Recorded

LEMMA DropsRecord ==
    ASSUME NEW t, Well(t), NEW u, Well(u), NEW h \in [Ptrs -> Nat], Recorded(t, h),
           NEW q \in Ptrs, Drops(t, u, q, FALSE), Places(t, q, FALSE) # {}
    PROVE  /\ h[q] # 0
           /\ Recorded(u, [h EXCEPT ![q] = 0])
           /\ MarksIn(u) = MarksIn(t)
<1> DEFINE g == [h EXCEPT ![q] = 0]
<1>1. \A p \in Ptrs : g[p] = IF p = q THEN 0 ELSE h[p]
  OBVIOUS
<1> HIDE DEF g
<1>2. Times(ChainOf(t, q), q, FALSE) # 0
  BY WellFacts
<1>3. Times(ChainOf(t, q), q, FALSE) = IF h[q] = 0 THEN 0 ELSE 1
  BY DEF Recorded
<1>4. h[q] # 0 /\ Times(ChainOf(t, q), q, FALSE) = 1
  BY <1>2, <1>3
<1>5. ASSUME NEW p \in Ptrs
      PROVE  /\ Times(ChainOf(u, p), p, FALSE) = IF g[p] = 0 THEN 0 ELSE 1
             /\ \A k \in Kind(ChainOf(u, p), p, FALSE) : BucketSize(ChainOf(u, p)[k]) = g[p]
  <2>1. CASE p = q
    <3>1. Times(ChainOf(u, q), q, FALSE) = Times(ChainOf(t, q), q, FALSE) - 1
      BY DEF Drops
    <3>2. Times(ChainOf(u, q), q, FALSE) = 1 - 1
      BY <1>4, <3>1, Zenon
    <3>3. 1 - 1 = 0
      OBVIOUS
    <3>4. Times(ChainOf(u, q), q, FALSE) = 0
      BY <3>2, <3>3, Zenon
    <3>5. Kind(ChainOf(u, q), q, FALSE) = {}
      BY <3>4, WellFacts, PlacesAreKind, Zenon
    <3>6. g[q] = 0
      BY <1>1
    <3>7. QED  BY <2>1, <3>4, <3>5, <3>6
  <2>2. CASE p # q
    <3>1. /\ Times(ChainOf(t, p), p, FALSE) = IF h[p] = 0 THEN 0 ELSE 1
          /\ \A j \in Kind(ChainOf(t, p), p, FALSE) : BucketSize(ChainOf(t, p)[j]) = h[p]
      BY DEF Recorded
    <3>2. Times(ChainOf(u, p), p, FALSE) = Times(ChainOf(t, p), p, FALSE)
      BY <2>2 DEF Drops
    <3>3. g[p] = h[p]
      BY <1>1, <2>2
    <3>4. ASSUME NEW k \in Kind(ChainOf(u, p), p, FALSE)
          PROVE  BucketSize(ChainOf(u, p)[k]) = h[p]
      <4>1. /\ k \in DOMAIN ChainOf(u, p) /\ ChainOf(u, p)[k].ptr = p
            /\ OfUser(ChainOf(u, p)[k]) = FALSE
        BY DEF Kind
      <4>2. PICK j \in DOMAIN ChainOf(t, p) : ChainOf(u, p)[k] = ChainOf(t, p)[j]
        BY <4>1 DEF Drops
      <4>3. j \in Kind(ChainOf(t, p), p, FALSE)
        BY <4>1, <4>2 DEF Kind
      <4>4. QED  BY <3>1, <4>2, <4>3
    <3>5. QED  BY <3>1, <3>2, <3>3, <3>4, Zenon
  <2>3. QED  BY <2>1, <2>2
<1>6. ASSUME NEW p \in Ptrs PROVE Cardinality(Places(u, p, TRUE)) = Cardinality(Places(t, p, TRUE))
  <2>1. Times(ChainOf(u, p), p, TRUE) = Times(ChainOf(t, p), p, TRUE)
    BY DEF Drops
  <2>2. QED  BY <2>1, PlacesAreKind DEF Times
<1>7. MarksIn(u) = MarksIn(t)
  BY <1>6 DEF MarksIn
<1>8. Recorded(u, g)
  BY <1>5 DEF Recorded
<1>9. QED  BY <1>4, <1>7, <1>8 DEF g

LEMMA DropsMark ==
    ASSUME NEW t, Well(t), NEW u, NEW h, Recorded(t, h),
           NEW q \in Ptrs, Drops(t, u, q, TRUE)
    PROVE  /\ Recorded(u, h)
           /\ MarksIn(u) = [MarksIn(t) EXCEPT ![q] = @ - 1]
<1>1. ASSUME NEW p \in Ptrs
      PROVE  /\ Times(ChainOf(u, p), p, FALSE) = IF h[p] = 0 THEN 0 ELSE 1
             /\ \A k \in Kind(ChainOf(u, p), p, FALSE) : BucketSize(ChainOf(u, p)[k]) = h[p]
  <2>1. /\ Times(ChainOf(t, p), p, FALSE) = IF h[p] = 0 THEN 0 ELSE 1
        /\ \A j \in Kind(ChainOf(t, p), p, FALSE) : BucketSize(ChainOf(t, p)[j]) = h[p]
    BY DEF Recorded
  <2>2. Times(ChainOf(u, p), p, FALSE) = Times(ChainOf(t, p), p, FALSE)
    BY DEF Drops
  <2>3. ASSUME NEW k \in Kind(ChainOf(u, p), p, FALSE)
        PROVE  BucketSize(ChainOf(u, p)[k]) = h[p]
    <3>1. /\ k \in DOMAIN ChainOf(u, p) /\ ChainOf(u, p)[k].ptr = p
          /\ OfUser(ChainOf(u, p)[k]) = FALSE
      BY DEF Kind
    <3>2. PICK j \in DOMAIN ChainOf(t, p) : ChainOf(u, p)[k] = ChainOf(t, p)[j]
      BY <3>1 DEF Drops
    <3>3. j \in Kind(ChainOf(t, p), p, FALSE)
      BY <3>1, <3>2 DEF Kind
    <3>4. QED  BY <2>1, <3>2, <3>3
  <2>4. QED  BY <2>1, <2>2, <2>3
<1>2. ASSUME NEW p \in Ptrs
      PROVE  Cardinality(Places(u, p, TRUE)) = IF p = q THEN Cardinality(Places(t, p, TRUE)) - 1
                                                      ELSE Cardinality(Places(t, p, TRUE))
  <2>1. Times(ChainOf(u, p), p, TRUE) = IF p = q THEN Times(ChainOf(t, p), p, TRUE) - 1
                                                ELSE Times(ChainOf(t, p), p, TRUE)
    BY DEF Drops
  <2>2. QED  BY <2>1, PlacesAreKind DEF Times
<1>3. MarksIn(u) = [MarksIn(t) EXCEPT ![q] = @ - 1]
  BY <1>2 DEF MarksIn
<1>4. QED  BY <1>1, <1>3 DEF Recorded

-----------------------------------------------------------------------------
(* What the calls do while the monitor is at work *)

LEMMA SizeFacts ==
    /\ NOSIZE \in Int /\ ExtensionBit \in Int
    /\ \A s \in Sizes : s \in Nat /\ s # 0 /\ s < NOSIZE
BY MonitorAssumption DEF NOSIZE

(* The record that remember() makes *)
LEMMA NewRecord ==
    ASSUME NEW p \in Ptrs, NEW s \in Sizes \cup {NOSIZE}, NEW where \in Positions \cup {NoPosition}
    PROVE  LET r == [ptr |-> p, pos |-> where,
                     size |-> IF where = NoPosition THEN s ELSE s + ExtensionBit]
           IN  /\ r \in Record /\ r.ptr = p
               /\ BucketSize(r) = s
               /\ OfUser(r) = (s = NOSIZE)
<1> DEFINE r == [ptr |-> p, pos |-> where,
                 size |-> IF where = NoPosition THEN s ELSE s + ExtensionBit]
<1>1. s \in Nat /\ s < ExtensionBit /\ ExtensionBit \in Nat
  BY MonitorAssumption DEF NOSIZE
<1>2. r \in Record /\ r.ptr = p
  BY <1>1 DEF Record
<1>3. BucketSize(r) = s
  <2>1. r.size = IF where = NoPosition THEN s ELSE s + ExtensionBit
    OBVIOUS
  <2> HIDE DEF r
  <2>2. CASE where = NoPosition
    BY <1>1, <2>1, <2>2 DEF BucketSize, IsExtended
  <2>3. CASE where # NoPosition
    BY <1>1, <2>1, <2>3 DEF BucketSize, IsExtended
  <2>4. QED  BY <2>2, <2>3
<1>4. QED  BY <1>2, <1>3 DEF OfUser

LEMMA RememberEffect ==
    ASSUME Well(table), NEW p \in Ptrs, NEW s \in Sizes \cup {NOSIZE},
           NEW where \in Positions \cup {NoPosition},
           status = "on", Remember(p, s, where), ~AlreadyRegistered(p, s)
    PROVE  /\ Well(table') /\ report' = Silent
           /\ \E r : /\ r.ptr = p /\ BucketSize(r) = s /\ OfUser(r) = (s = NOSIZE)
                     /\ Adds(table, table', r)
<1> DEFINE r == [ptr |-> p, pos |-> where,
                 size |-> IF where = NoPosition THEN s ELSE s + ExtensionBit]
           linked == [table EXCEPT ![Home[p] % TableSize(table)] = <<r>> \o @]
<1>1. r \in Record /\ r.ptr = p /\ BucketSize(r) = s /\ OfUser(r) = (s = NOSIZE)
  BY NewRecord
<1>2. table' \in AfterInc(linked, nbBuckets') /\ report' = Silent
  BY DEF Remember
<1>3. PICK n \in Nat \ {0} : table \in Tables(n)
  BY DEF Well
<1> HIDE DEF r
<1>4. (\E k \in Nat \ {0} : table' \in Tables(k)) /\ Adds(table, table', r)
  BY <1>1, <1>2, <1>3, RememberKeeps
<1>5. QED  BY <1>1, <1>2, <1>4 DEF Well

LEMMA ForgetEffect ==
    ASSUME Well(table), NEW p \in Ptrs, NEW nosize, NEW at, NEW own,
           status = "on", Forget(p, nosize, at, own)
    PROVE  IF Places(table, p, nosize) = {}
           THEN table' = table /\ report'.alarm = "unknown"
           ELSE Well(table') /\ Drops(table, table', p, nosize) /\ report' = Silent
<1>1. p # NULL
  BY MonitorAssumption
<1>2. CASE Places(table, p, nosize) = {}
  BY <1>1, <1>2 DEF Forget, Silent
<1>3. CASE Places(table, p, nosize) # {}
  <2> DEFINE k == Min(Places(table, p, nosize))
  <2>1. PICK n \in Nat \ {0} : table \in Tables(n)
    BY DEF Well
  <2>2. ChainOf(table, p) \in Seq(Record)
    BY <2>1, TableFacts
  <2>3. Places(table, p, nosize) \subseteq Nat
    BY <2>2 DEF Places
  <2>4. k \in Places(table, p, nosize)
    BY <1>3, <2>3, LeastNat DEF Min
  <2>5. /\ table' = [table EXCEPT ![Home[p] % TableSize(table)] = RemoveAt(@, k)]
        /\ report' = Silent
    BY <1>1, <1>3 DEF Forget
  <2> HIDE DEF k
  <2>6. table' \in Tables(n) /\ Drops(table, table', p, nosize)
    BY <2>1, <2>4, <2>5, RemovedKeeps
  <2>7. QED  BY <1>3, <2>1, <2>5, <2>6 DEF Well
<1>4. QED  BY <1>2, <1>3

LEMMA NewEffect ==
    ASSUME MonInv, status = "on", NEW p \in Ptrs, NEW s \in Sizes,
           NEW w \in Positions \cup {NoPosition}, New(p, s, w)
    PROVE  /\ heap[p] = 0 /\ heap' = [heap EXCEPT ![p] = s] /\ status' = status
           /\ Well(table') /\ Recorded(table', heap')
           /\ MarksIn(table') = MarksIn(table) /\ report' = Silent
<1>1. heap[p] = 0 /\ heap' = [heap EXCEPT ![p] = s] /\ status' = status /\ Remember(p, s, w)
  BY DEF New
<1>2. Well(table) /\ Recorded(table, heap) /\ heap \in [Ptrs -> Nat]
  BY SizeFacts DEF MonInv
<1>3. Times(ChainOf(table, p), p, FALSE) = 0
  BY <1>1, <1>2 DEF Recorded
<1>4. ~AlreadyRegistered(p, s)
  BY <1>2, <1>3, WellFacts DEF AlreadyRegistered
<1>5. s # NOSIZE /\ s # 0
  BY SizeFacts
<1>6. /\ Well(table') /\ report' = Silent
      /\ \E r : /\ r.ptr = p /\ BucketSize(r) = s /\ OfUser(r) = (s = NOSIZE)
                /\ Adds(table, table', r)
  BY <1>1, <1>2, <1>4, RememberEffect
<1>7. PICK r : r.ptr = p /\ BucketSize(r) = s /\ OfUser(r) = FALSE /\ Adds(table, table', r)
  BY <1>5, <1>6
<1>8. BucketSize(r) # 0
  BY <1>5, <1>7
<1>9. Recorded(table', [heap EXCEPT ![p] = BucketSize(r)]) /\ MarksIn(table') = MarksIn(table)
  BY <1>1, <1>2, <1>7, <1>8, AddsRecord
<1>10. QED  BY <1>1, <1>6, <1>7, <1>9

LEMMA RememberPointerEffect ==
    ASSUME MonInv, status = "on", NEW p \in Ptrs, NEW w \in Positions, RememberPointer(p, w)
    PROVE  /\ heap' = heap /\ status' = status
           /\ Well(table') /\ Recorded(table', heap')
           /\ MarksIn(table') = [MarksIn(table) EXCEPT ![p] = @ + 1] /\ report' = Silent
<1>1. heap' = heap /\ status' = status /\ Remember(p, NOSIZE, w)
  BY DEF RememberPointer
<1>2. Well(table) /\ Recorded(table, heap)
  BY DEF MonInv
<1>3. ~AlreadyRegistered(p, NOSIZE)
  BY DEF AlreadyRegistered
<1>4. /\ Well(table') /\ report' = Silent
      /\ \E r : /\ r.ptr = p /\ BucketSize(r) = NOSIZE /\ OfUser(r) = (NOSIZE = NOSIZE)
                /\ Adds(table, table', r)
  BY <1>1, <1>2, <1>3, RememberEffect
<1>5. PICK r : r.ptr = p /\ OfUser(r) = TRUE /\ Adds(table, table', r)
  BY <1>4
<1>6. Recorded(table', heap) /\ MarksIn(table') = [MarksIn(table) EXCEPT ![p] = @ + 1]
  BY <1>2, <1>5, AddsMark
<1>7. QED  BY <1>1, <1>4, <1>6

(* Freeing a pointer of the heap, or one the monitor has never heard of *)
LEMMA FreeEffect ==
    ASSUME MonInv, status = "on", NEW p \in Ptrs, NEW at, NEW own,
           Forget(p, FALSE, at, own), FreeAfterForget(p)
    PROVE  /\ heap' = [heap EXCEPT ![p] = 0] /\ status' \in {"on", "crashed"}
           /\ Well(table') /\ Recorded(table', heap')
           /\ MarksIn(table') = MarksIn(table)
           /\ report'.alarm = IF heap[p] = 0 THEN "unknown" ELSE "none"
<1>1. heap' = [heap EXCEPT ![p] = 0] /\ status' \in {"on", "crashed"}
  BY MonitorAssumption DEF FreeAfterForget
<1>2. Well(table) /\ Recorded(table, heap) /\ heap \in [Ptrs -> Nat]
  BY SizeFacts DEF MonInv
<1>3. CASE Places(table, p, FALSE) = {}
  <2>1. table' = table /\ report'.alarm = "unknown"
    BY <1>2, <1>3, ForgetEffect
  <2>2. Times(ChainOf(table, p), p, FALSE) = 0
    BY <1>2, <1>3, WellFacts
  <2>3. heap[p] = 0
    <3>1. Times(ChainOf(table, p), p, FALSE) = IF heap[p] = 0 THEN 0 ELSE 1
      BY <1>2 DEF Recorded
    <3>2. 0 # 1
      OBVIOUS
    <3>3. QED  BY <2>2, <3>1, <3>2, Zenon
  <2>4. heap' = heap
    BY <1>1, <1>2, <2>3
  <2>5. QED  BY <1>1, <1>2, <2>1, <2>3, <2>4
<1>4. CASE Places(table, p, FALSE) # {}
  <2>1. Well(table') /\ Drops(table, table', p, FALSE) /\ report' = Silent
    BY <1>2, <1>4, ForgetEffect
  <2>2. heap[p] # 0 /\ Recorded(table', [heap EXCEPT ![p] = 0]) /\ MarksIn(table') = MarksIn(table)
    BY <1>2, <1>4, <2>1, DropsRecord
  <2>3. report'.alarm = "none"
    BY <2>1 DEF Silent
  <2>4. QED  BY <1>1, <2>1, <2>2, <2>3
<1>5. QED  BY <1>3, <1>4

LEMMA UnmarkEffect ==
    ASSUME MonInv, status = "on", NEW p \in Ptrs, NEW at, NEW own,
           Forget(p, TRUE, at, own), heap' = heap
    PROVE  /\ Well(table') /\ Recorded(table', heap')
           /\ MarksIn(table') = [MarksIn(table) EXCEPT ![p] = IF @ = 0 THEN 0 ELSE @ - 1]
           /\ report'.alarm = IF MarksIn(table)[p] = 0 THEN "unknown" ELSE "none"
<1>1. Well(table) /\ Recorded(table, heap)
  BY DEF MonInv
<1>2. MarksIn(table)[p] = 0 <=> Places(table, p, TRUE) = {}
  BY <1>1, WellFacts, PlacesAreKind DEF MarksIn, Times
<1>3. CASE Places(table, p, TRUE) = {}
  <2>1. table' = table /\ report'.alarm = "unknown"
    BY <1>1, <1>3, ForgetEffect
  <2>2. MarksIn(table) = [MarksIn(table) EXCEPT ![p] = IF @ = 0 THEN 0 ELSE @ - 1]
    BY <1>2, <1>3 DEF MarksIn
  <2>3. QED  BY <1>1, <1>2, <1>3, <2>1, <2>2
<1>4. CASE Places(table, p, TRUE) # {}
  <2>1. Well(table') /\ Drops(table, table', p, TRUE) /\ report' = Silent
    BY <1>1, <1>4, ForgetEffect
  <2>2. Recorded(table', heap) /\ MarksIn(table') = [MarksIn(table) EXCEPT ![p] = @ - 1]
    BY <1>1, <2>1, DropsMark
  <2>3. MarksIn(table') = [MarksIn(table) EXCEPT ![p] = IF @ = 0 THEN 0 ELSE @ - 1]
    BY <1>2, <1>4, <2>2
  <2>4. report'.alarm = "none"
    BY <2>1 DEF Silent
  <2>5. QED  BY <1>2, <1>4, <2>1, <2>2, <2>3, <2>4
<1>5. QED  BY <1>3, <1>4

(* Calls that leave the records and the heap alone *)
Quiet == /\ table' = table /\ heap' = heap
         /\ report'.alarm = "none"
         /\ status' \in {status, "off"} \/ (status = "on" /\ status' = "crashed")
         /\ status' = "on" => UNCHANGED <<nbBuckets, totalAlloc, overhead>>

LEMMA NullEffect ==
    ASSUME NEW at, NEW own, NEW nosize, Forget(NULL, nosize, at, own), heap' = heap, status' = status
    PROVE  Quiet
BY DEF Forget, Silent, Quiet

(* After the destructor nothing is recorded, but memory is still used. *)
LEMMA OffEffect ==
    ASSUME MonInv, status = "off", Next
    PROVE  /\ table' = table /\ status' = "off" /\ report'.alarm = "none"
           /\ heap' \in [Ptrs -> Sizes \cup {0}]
<1>1. heap \in [Ptrs -> Sizes \cup {0}]
  BY DEF MonInv
<1>2. ASSUME NEW p \in Ptrs, NEW s \in Sizes, NEW w, New(p, s, w)
      PROVE  table' = table /\ status' = "off" /\ report' = Silent /\ heap' \in [Ptrs -> Sizes \cup {0}]
  BY <1>1, <1>2 DEF New, Remember
<1>3. ASSUME NEW p \in Ptrs \cup {NULL}, MayFree(p), FreeAfterForget(p)
      PROVE  status' = "off" /\ heap' \in [Ptrs -> Sizes \cup {0}]
  BY <1>1, <1>3 DEF MayFree, FreeAfterForget
<1>4. ASSUME NEW p, NEW nosize, NEW at, NEW own, Forget(p, nosize, at, own)
      PROVE  table' = table /\ report' = Silent
  BY <1>4 DEF Forget
<1>5. /\ \A p, s : ~RememberThrows(p, s)
      /\ ~Destroy
  BY DEF RememberThrows, Destroy
<1>6. ASSUME NEW p, NEW w, RememberPointer(p, w)
      PROVE  table' = table /\ status' = "off" /\ report' = Silent /\ heap' = heap
  BY <1>6 DEF RememberPointer, Remember
<1>7. table' = table /\ status' = "off" /\ report' = Silent /\ heap' \in [Ptrs -> Sizes \cup {0}]
  BY <1>1, <1>2, <1>3, <1>4, <1>5, <1>6
  DEF Next, NewThrows, NewTerminates, RememberPointerThrows, Delete, MonitoredFree, PrepareDelete, PushPosition,
      Pop, ForgetPointer, ForgetPtr
<1>8. QED  BY <1>7 DEF Silent

-----------------------------------------------------------------------------
(* Theorems *)

LEMMA InvInit == Init => MonInv
<1> SUFFICES ASSUME Init PROVE MonInv
  OBVIOUS
<1>1. InitSize \in Nat \ {0} /\ table = [i \in 0 .. InitSize - 1 |-> <<>>]
  BY MonitorAssumption DEF Init
<1>2. table \in Tables(InitSize)
  BY <1>1 DEF Tables
<1>3. Well(table)
  BY <1>1, <1>2 DEF Well
<1>4. ASSUME NEW p \in Ptrs
      PROVE  /\ Times(ChainOf(table, p), p, FALSE) = 0
             /\ Kind(ChainOf(table, p), p, FALSE) = {}
             /\ heap[p] = 0
  <2>1. ChainOf(table, p) = <<>>
    BY <1>1, <1>2, TableFacts
  <2>2. Kind(ChainOf(table, p), p, FALSE) = {}
    BY <2>1 DEF Kind
  <2>3. Times(ChainOf(table, p), p, FALSE) = 0
    BY <2>2, FS_EmptySet DEF Times
  <2>4. QED  BY <2>2, <2>3 DEF Init
<1>5. Recorded(table, heap)
  BY <1>4 DEF Recorded
<1>6. QED  BY <1>3, <1>5 DEF Init, MonInv

(* What a step from a monitor at work may be *)
LEMMA OnStep ==
    ASSUME MonInv, status = "on", Next
    PROVE  \/ Quiet
           \/ \E p \in Ptrs, s \in Sizes, w \in Positions \cup {NoPosition} : New(p, s, w)
           \/ \E p \in Ptrs, w \in Positions : RememberPointer(p, w)
           \/ \E p \in Ptrs : \E at, own : Forget(p, FALSE, at, own) /\ FreeAfterForget(p)
           \/ \E p \in Ptrs : \E at, own : Forget(p, TRUE, at, own) /\ heap' = heap /\ status' = status
<1>1. ASSUME NEW p \in Ptrs, NEW s \in Sizes, NewThrows(p, s) PROVE Quiet
  BY <1>1 DEF NewThrows, RememberThrows, Quiet, Silent
<1>2. ASSUME NEW p \in Ptrs, RememberPointerThrows(p) PROVE Quiet
  BY <1>2 DEF RememberPointerThrows, RememberThrows, Quiet, Silent
<1>3. ASSUME NEW p \in Ptrs, NEW s \in Sizes, NewTerminates(p, s) PROVE Quiet
  BY <1>3 DEF NewTerminates, RememberThrows, Quiet, Silent
<1>4. ASSUME NEW w, PrepareDelete(w) PROVE Quiet
  BY <1>4 DEF PrepareDelete, Quiet, Silent
<1>5. ASSUME NEW w, PushPosition(w) PROVE Quiet
  BY <1>5 DEF PushPosition, Quiet, Silent
<1>6. CASE Destroy
  <2>1. table' = table /\ heap' = heap /\ status' = "off"
    BY <1>6 DEF Destroy
  <2>2. \E leaks : report' = [Silent EXCEPT !.leaks = leaks]
    BY <1>6 DEF Destroy
  <2>3. report'.alarm = "none"
    BY <2>2 DEF Silent
  <2>4. QED  BY <2>1, <2>3 DEF Quiet
<1>7. ASSUME NEW p \in Ptrs \cup {NULL}, Delete(p)
      PROVE  Quiet \/ (p \in Ptrs /\ Forget(p, FALSE, pos, prepared) /\ FreeAfterForget(p))
  <2>1. CASE p = NULL
    BY <1>7, <2>1, NullEffect DEF Delete, FreeAfterForget
  <2>2. CASE p # NULL
    BY <1>7, <2>2 DEF Delete
  <2>3. QED  BY <2>1, <2>2
<1>8. ASSUME NEW p \in Ptrs \cup {NULL}, NEW w, MonitoredFree(p, w)
      PROVE  Quiet \/ (p \in Ptrs /\ Forget(p, FALSE, w, TRUE) /\ FreeAfterForget(p))
  <2>1. CASE p = NULL
    BY <1>8, <2>1, NullEffect DEF MonitoredFree, FreeAfterForget
  <2>2. CASE p # NULL
    BY <1>8, <2>2 DEF MonitoredFree
  <2>3. QED  BY <2>1, <2>2
<1>9. ASSUME NEW p, NEW w, ForgetPointer(p, w)
      PROVE  Forget(p, TRUE, w, TRUE) /\ heap' = heap /\ status' = status
  BY <1>9 DEF ForgetPointer
<1>10. ASSUME NEW p, ForgetPtr(p)
       PROVE  Forget(p, TRUE, pos, prepared) /\ heap' = heap /\ status' = status
  BY <1>10 DEF ForgetPtr
<1>11. QED  BY <1>1, <1>2, <1>3, <1>4, <1>5, <1>6, <1>7, <1>8, <1>9, <1>10 DEF Next, Pop

LEMMA InvNext ==
    ASSUME MonInv, [Next]_vars
    PROVE  MonInv'
<1>1. /\ Well(table) /\ heap \in [Ptrs -> Sizes \cup {0}]
      /\ status \in {"on", "off", "crashed"}
      /\ status # "off" => Recorded(table, heap)
  BY DEF MonInv
<1>2. SUFFICES /\ Well(table') /\ heap' \in [Ptrs -> Sizes \cup {0}]
               /\ status' \in {"on", "off", "crashed"}
               /\ status' # "off" => Recorded(table', heap')
  BY DEF MonInv
<1>3. CASE UNCHANGED vars
  BY <1>1, <1>3 DEF vars
<1>4. CASE Next /\ status = "off"
  BY <1>1, <1>4, OffEffect
<1>5. CASE Next /\ status = "on"
  <2>1. CASE Quiet
    BY <1>1, <1>5, <2>1 DEF Quiet
  <2>2. ASSUME NEW p \in Ptrs, NEW s \in Sizes, NEW w \in Positions \cup {NoPosition}, New(p, s, w)
        PROVE  /\ Well(table') /\ Recorded(table', heap')
               /\ heap' \in [Ptrs -> Sizes \cup {0}] /\ status' = "on"
    <3>1. /\ heap' = [heap EXCEPT ![p] = s] /\ status' = status
          /\ Well(table') /\ Recorded(table', heap')
      BY <1>5, <2>2, NewEffect
    <3>2. QED  BY <1>1, <1>5, <3>1
  <2>3. ASSUME NEW p \in Ptrs, NEW w \in Positions, RememberPointer(p, w)
        PROVE  Well(table') /\ Recorded(table', heap') /\ heap' = heap /\ status' = status
    BY <1>5, <2>3, RememberPointerEffect
  <2>4. ASSUME NEW p \in Ptrs, NEW at, NEW own, Forget(p, FALSE, at, own), FreeAfterForget(p)
        PROVE  /\ Well(table') /\ Recorded(table', heap')
               /\ heap' \in [Ptrs -> Sizes \cup {0}] /\ status' \in {"on", "crashed"}
    <3>1. /\ heap' = [heap EXCEPT ![p] = 0] /\ status' \in {"on", "crashed"}
          /\ Well(table') /\ Recorded(table', heap')
      BY <1>5, <2>4, FreeEffect
    <3>2. QED  BY <1>1, <3>1
  <2>5. ASSUME NEW p \in Ptrs, NEW at, NEW own, Forget(p, TRUE, at, own),
               heap' = heap, status' = status
        PROVE  Well(table') /\ Recorded(table', heap')
    BY <1>5, <2>5, UnmarkEffect
  <2>6. QED  BY <1>1, <1>5, <2>1, <2>2, <2>3, <2>4, <2>5, OnStep
<1>6. status # "crashed" \/ UNCHANGED vars
  BY DEF Next
<1>7. QED  BY <1>1, <1>3, <1>4, <1>5, <1>6

(* The inductive invariant: every record is on the chain of its hash, and  *)
(* until the destructor each pointer of the heap has one record.           *)
THEOREM MonInvHolds == Spec => []MonInv
BY InvInit, InvNext, PTL DEF Spec

(* forget() finds what operator new has remembered: one record for each    *)
(* pointer that is held, none for any other, after any rehashes, failed    *)
(* rehashes and marks of the user.                                         *)
THEOREM AllocationsAreRecordedHolds == Spec => []AllocationsAreRecorded
<1>1. MonInv => AllocationsAreRecorded
  <2> SUFFICES ASSUME MonInv, status = "on"
               PROVE  /\ \A i \in DOMAIN table : \A k \in DOMAIN table[i] :
                            Home[table[i][k].ptr] % TableSize(table) = i
                      /\ \A p \in Ptrs :
                            /\ Cardinality(Places(table, p, FALSE)) = IF heap[p] = 0 THEN 0 ELSE 1
                            /\ \A k \in Places(table, p, FALSE) :
                                  BucketSize(ChainOf(table, p)[k]) = heap[p]
    BY DEF AllocationsAreRecorded
  <2>1. PICK n \in Nat \ {0} : table \in Tables(n)
    BY DEF MonInv, Well
  <2>2. TableSize(table) = n /\ DOMAIN table = 0 .. n - 1
    BY <2>1, TableFacts DEF Tables
  <2>3. \A i \in 0 .. n - 1 : \A k \in DOMAIN table[i] : Home[table[i][k].ptr] % n = i
    BY <2>1 DEF Tables
  <2>4. Recorded(table, heap)
    BY DEF MonInv
  <2>5. ASSUME NEW p \in Ptrs
        PROVE  /\ Cardinality(Places(table, p, FALSE)) = IF heap[p] = 0 THEN 0 ELSE 1
               /\ \A k \in Places(table, p, FALSE) : BucketSize(ChainOf(table, p)[k]) = heap[p]
    BY <2>4, PlacesAreKind DEF Recorded, Times
  <2>6. QED  BY <2>2, <2>3, <2>5
<1>2. QED  BY <1>1, MonInvHolds, PTL

-----------------------------------------------------------------------------
(* Refinement of PointerRegistry *)

HeldIn(t) ==
    [p \in Ptrs |-> LET ks == Places(t, p, FALSE)
                    IN  IF ks = {} THEN 0 ELSE BucketSize(ChainOf(t, p)[Min(ks)])]

(* What the records say is what malloc has handed out. *)
LEMMA HeldIsHeap ==
    ASSUME NEW t, Well(t), NEW h \in [Ptrs -> Sizes \cup {0}], Recorded(t, h)
    PROVE  HeldIn(t) = h
<1>1. ASSUME NEW p \in Ptrs PROVE HeldIn(t)[p] = h[p]
  <2> DEFINE ks == Places(t, p, FALSE)
  <2>1. Times(ChainOf(t, p), p, FALSE) = IF h[p] = 0 THEN 0 ELSE 1
    BY DEF Recorded
  <2>2. ks = {} <=> Times(ChainOf(t, p), p, FALSE) = 0
    BY WellFacts
  <2>3. ks = {} <=> h[p] = 0
    <3>1. 0 # 1
      OBVIOUS
    <3> HIDE DEF ks
    <3>2. QED  BY <2>1, <2>2, <3>1, Zenon
  <2>4. ks \subseteq Nat
    BY WellFacts DEF Places
  <2>5. CASE ks = {}
    BY <2>3, <2>5 DEF HeldIn
  <2>6. CASE ks # {}
    <3>1. Min(ks) \in ks
      BY <2>4, <2>6, LeastNat DEF Min
    <3>2. BucketSize(ChainOf(t, p)[Min(ks)]) = h[p]
      BY <3>1, PlacesAreKind DEF Recorded
    <3>3. QED  BY <2>6, <3>2 DEF HeldIn
  <2>7. QED  BY <2>5, <2>6
<1>2. QED  BY <1>1 DEF HeldIn

LEMMA InitImplements == Init => Registry!Init
<1> SUFFICES ASSUME Init PROVE Registry!Init
  OBVIOUS
<1>1. MonInv /\ status = "on" /\ heap = [p \in Ptrs |-> 0] /\ report = Silent
  BY InvInit DEF Init
<1>2. HeldIn(table) = [p \in Ptrs |-> 0]
  BY <1>1, HeldIsHeap DEF MonInv
<1>3. ASSUME NEW p \in Ptrs PROVE Cardinality(Places(table, p, TRUE)) = 0
  <2>1. InitSize \in Nat \ {0} /\ table = [i \in 0 .. InitSize - 1 |-> <<>>]
    BY MonitorAssumption DEF Init
  <2>2. table \in Tables(InitSize)
    BY <2>1 DEF Tables
  <2>3. ChainOf(table, p) = <<>>
    BY <2>1, <2>2, TableFacts
  <2>4. Places(table, p, TRUE) = {}
    BY <2>3 DEF Places
  <2>5. QED  BY <2>4, FS_EmptySet
<1>4. MarksIn(table) = [p \in Ptrs |-> 0]
  BY <1>3 DEF MarksIn
<1>5. report.alarm = "none" /\ (status # "off") = TRUE
  BY <1>1 DEF Silent
<1>6. QED  BY <1>2, <1>4, <1>5 DEF Registry!Init, HeldIn, MarksIn

LEMMA QuietImplements ==
    ASSUME Quiet
    PROVE  Registry!Other
<1>1. HeldIn(table') = HeldIn(table) /\ MarksIn(table') = MarksIn(table)
  BY DEF Quiet
<1>2. report'.alarm = "none" /\ (status' # "off") \in {status # "off", FALSE}
  BY DEF Quiet
<1>3. QED  BY <1>1, <1>2 DEF Registry!Other, HeldIn, MarksIn

LEMMA NextImplements ==
    ASSUME MonInv, MonInv', [Next]_vars
    PROVE  [Registry!Next]_(Registry!regVars)
<1>1. CASE UNCHANGED vars
  BY <1>1 DEF vars, Registry!regVars, Places, ChainOf
<1>2. CASE Next /\ status = "off"
  <2>1. Quiet \/ (table' = table /\ status' = status /\ report'.alarm = "none")
    BY <1>2, OffEffect
  <2>2. HeldIn(table') = HeldIn(table) /\ MarksIn(table') = MarksIn(table)
    BY <2>1 DEF Quiet
  <2>3. report'.alarm = "none" /\ (status' # "off") \in {status # "off", FALSE}
    BY <2>1 DEF Quiet
  <2>4. Registry!Other
    BY <2>2, <2>3 DEF Registry!Other, HeldIn, MarksIn
  <2>5. QED  BY <2>4 DEF Registry!Next
<1>3. CASE Next /\ status = "on"
  <2>1. /\ Well(table) /\ Recorded(table, heap) /\ heap \in [Ptrs -> Sizes \cup {0}]
        /\ Well(table') /\ heap' \in [Ptrs -> Sizes \cup {0}]
        /\ status' # "off" => Recorded(table', heap')
    BY <1>3 DEF MonInv
  <2>2. HeldIn(table) = heap
    BY <2>1, HeldIsHeap
  <2>3. status' # "off" => HeldIn(table') = heap'
    BY <2>1, HeldIsHeap
  <2>4. CASE Quiet
    BY <2>4, QuietImplements DEF Registry!Next
  <2>5. ASSUME NEW p \in Ptrs, NEW s \in Sizes, NEW w \in Positions \cup {NoPosition}, New(p, s, w)
        PROVE  Registry!Allocate(p, s)
    <3>1. /\ heap[p] = 0 /\ heap' = [heap EXCEPT ![p] = s] /\ status' = status
          /\ MarksIn(table') = MarksIn(table) /\ report'.alarm = "none"
      BY <1>3, <2>5, NewEffect DEF Silent
    <3>2. HeldIn(table') = heap'
      BY <1>3, <2>3, <3>1
    <3>3. QED  BY <2>2, <3>1, <3>2 DEF Registry!Allocate, HeldIn, MarksIn
  <2>6. ASSUME NEW p \in Ptrs, NEW w \in Positions, RememberPointer(p, w)
        PROVE  Registry!Mark(p)
    <3>1. /\ heap' = heap /\ status' = status
          /\ MarksIn(table') = [MarksIn(table) EXCEPT ![p] = @ + 1] /\ report'.alarm = "none"
      BY <1>3, <2>6, RememberPointerEffect DEF Silent
    <3>2. HeldIn(table') = HeldIn(table)
      BY <1>3, <2>2, <2>3, <3>1
    <3>3. QED  BY <3>1, <3>2 DEF Registry!Mark, HeldIn, MarksIn
  <2>7. ASSUME NEW p \in Ptrs, NEW at, NEW own, Forget(p, FALSE, at, own), FreeAfterForget(p)
        PROVE  Registry!Free(p)
    <3>1. /\ heap' = [heap EXCEPT ![p] = 0] /\ status' \in {"on", "crashed"}
          /\ MarksIn(table') = MarksIn(table)
          /\ report'.alarm = IF heap[p] = 0 THEN "unknown" ELSE "none"
      BY <1>3, <2>7, FreeEffect
    <3>2. HeldIn(table') = heap' /\ (status' # "off") = (status # "off")
      BY <1>3, <2>3, <3>1
    <3>3. QED  BY <2>2, <3>1, <3>2 DEF Registry!Free, HeldIn, MarksIn
  <2>8. ASSUME NEW p \in Ptrs, NEW at, NEW own, Forget(p, TRUE, at, own),
               heap' = heap, status' = status
        PROVE  Registry!Unmark(p)
    <3>1. /\ MarksIn(table') = [MarksIn(table) EXCEPT ![p] = IF @ = 0 THEN 0 ELSE @ - 1]
          /\ report'.alarm = IF MarksIn(table)[p] = 0 THEN "unknown" ELSE "none"
      BY <1>3, <2>8, UnmarkEffect
    <3>2. HeldIn(table') = HeldIn(table)
      BY <1>3, <2>2, <2>3, <2>8
    <3>3. QED  BY <2>8, <3>1, <3>2 DEF Registry!Unmark, HeldIn, MarksIn
  <2>9. (status # "off") = TRUE
    BY <1>3
  <2>10. QED
    BY <1>3, <2>4, <2>5, <2>6, <2>7, <2>8, <2>9, OnStep DEF Registry!Next
<1>4. status # "crashed" \/ UNCHANGED vars
  BY DEF Next
<1>5. QED  BY <1>1, <1>2, <1>3, <1>4 DEF MonInv

(* To its user the monitor is a registry: it complains about a pointer     *)
(* exactly when the program does not hold it, and marks and allocations of *)
(* the same pointer do not disturb each other.                             *)
THEOREM Implements == Spec => ImplementsRegistry
<1>1. MonInv /\ MonInv' /\ [Next]_vars => [Registry!Next]_(Registry!regVars)
  BY NextImplements
<1>2. QED  BY <1>1, InitImplements, MonInvHolds, PTL DEF Spec, ImplementsRegistry, Registry!Spec

-----------------------------------------------------------------------------
(* Sums, as numbers of bytes *)

LEMMA TotalIsUnits == \A size : Total(size) = Cardinality(Units(size))
BY DEF Total, Units

(* A thing is added to those that are summed up. *)
LEMMA TotalExtended ==
    ASSUME NEW f, NEW g, NEW y, y \notin DOMAIN f, DOMAIN g = DOMAIN f \cup {y},
           \A x \in DOMAIN f : g[x] = f[x], g[y] \in Nat, IsFiniteSet(Units(f))
    PROVE  IsFiniteSet(Units(g)) /\ Total(g) = Total(f) + g[y]
<1> DEFINE n == g[y]
<1>1. Units(g) = Units(f) \cup ({y} \X (1 .. n))
  BY DEF Units
<1>2. \A k \in 1 .. n : <<y, k>> \notin Units(f)
  BY DEF Units
<1>3. n \in Nat
  OBVIOUS
<1> HIDE DEF n
<1>4. /\ IsFiniteSet(Units(f) \cup ({y} \X (1 .. n)))
      /\ Cardinality(Units(f) \cup ({y} \X (1 .. n))) = Cardinality(Units(f)) + n
  BY <1>2, <1>3, UnitsAdded
<1>5. QED  BY <1>1, <1>4, TotalIsUnits DEF n

(* A size that was 0 *)
LEMMA TotalRaised ==
    ASSUME NEW D, NEW f \in [D -> Nat], NEW g \in [D -> Nat], NEW y \in D, f[y] = 0,
           \A x \in D \ {y} : g[x] = f[x], IsFiniteSet(Units(f))
    PROVE  IsFiniteSet(Units(g)) /\ Total(g) = Total(f) + g[y]
<1> DEFINE n == g[y]
<1>1. Units(g) = Units(f) \cup ({y} \X (1 .. n))
  <2>1. ASSUME NEW u PROVE u \in Units(g) <=> u \in Units(f) \/ \E k \in 1 .. n : u = <<y, k>>
    <3>1. u \in Units(g) <=> \E x \in D : \E k \in 1 .. g[x] : u = <<x, k>>
      BY InUnits
    <3>2. u \in Units(f) <=> \E x \in D : \E k \in 1 .. f[x] : u = <<x, k>>
      BY InUnits
    <3>3. 1 .. f[y] = {}
      OBVIOUS
    <3>4. QED  BY <3>1, <3>2, <3>3
  <2>2. \A u : u \in {y} \X (1 .. n) <=> \E k \in 1 .. n : u = <<y, k>>
    OBVIOUS
  <2> HIDE DEF n
  <2>3. QED  BY <2>1, <2>2, Zenon
<1>2. ASSUME NEW k \in 1 .. n PROVE <<y, k>> \notin Units(f)
  <2>1. <<y, k>> \in Units(f) => k \in 1 .. f[y]
    BY InUnits
  <2>2. 1 .. f[y] = {}
    OBVIOUS
  <2>3. QED  BY <2>1, <2>2
<1>3. n \in Nat
  OBVIOUS
<1> HIDE DEF n
<1>4. /\ IsFiniteSet(Units(f) \cup ({y} \X (1 .. n)))
      /\ Cardinality(Units(f) \cup ({y} \X (1 .. n))) = Cardinality(Units(f)) + n
  BY <1>2, <1>3, UnitsAdded
<1>5. QED  BY <1>1, <1>4, TotalIsUnits DEF n

(* The same things under other names *)
LEMMA TotalRenamed ==
    ASSUME NEW f, NEW g, NEW h \in Bijection(DOMAIN f, DOMAIN g),
           \A x \in DOMAIN f : f[x] = g[h[x]],
           IsFiniteSet(Units(g)), IsFiniteSet(DOMAIN g)
    PROVE  /\ IsFiniteSet(DOMAIN f) /\ Cardinality(DOMAIN f) = Cardinality(DOMAIN g)
           /\ IsFiniteSet(Units(f)) /\ Total(f) = Total(g)
<1> DEFINE H == [u \in Units(f) |-> <<h[u[1]], u[2]>>]
<1>1. /\ h \in [DOMAIN f -> DOMAIN g]
      /\ \A x, y \in DOMAIN f : h[x] = h[y] => x = y
      /\ \A z \in DOMAIN g : \E x \in DOMAIN f : h[x] = z
  BY DEF Bijection, Injection, Surjection, IsInjective
<1>2. ASSUME NEW u \in Units(f)
      PROVE  u = <<u[1], u[2]>> /\ u[1] \in DOMAIN f /\ u[2] \in 1 .. f[u[1]]
  BY InUnits
<1>3. \A x \in DOMAIN f : \A k \in 1 .. f[x] : <<x, k>> \in Units(f)
  BY InUnits
<1>4. \A u \in Units(f) : H[u] \in Units(g)
  <2>1. SUFFICES ASSUME NEW u \in Units(f) PROVE <<h[u[1]], u[2]>> \in Units(g)
    OBVIOUS
  <2>2. h[u[1]] \in DOMAIN g /\ u[2] \in 1 .. g[h[u[1]]]
    BY <1>1, <1>2
  <2>3. QED  BY <2>2, InUnits
<1>5. ASSUME NEW u \in Units(f), NEW v \in Units(f), H[u] = H[v] PROVE u = v
  <2>1. h[u[1]] = h[v[1]] /\ u[2] = v[2]
    BY <1>5
  <2>2. u[1] = v[1]
    BY <1>1, <1>2, <2>1
  <2>3. QED  BY <1>2, <2>1, <2>2
<1>6. ASSUME NEW w \in Units(g) PROVE \E u \in Units(f) : H[u] = w
  <2>1. PICK z \in DOMAIN g : \E k \in 1 .. g[z] : w = <<z, k>>
    BY InUnits
  <2>2. PICK k \in 1 .. g[z] : w = <<z, k>>
    BY <2>1
  <2>3. PICK x \in DOMAIN f : h[x] = z
    BY <1>1
  <2>4. k \in 1 .. f[x]
    BY <2>3
  <2>5. <<x, k>> \in Units(f)
    BY <1>3, <2>4
  <2>6. H[<<x, k>>] = w
    BY <2>2, <2>3, <2>5
  <2>7. QED  BY <2>5, <2>6
<1>7. H \in [Units(f) -> Units(g)]
  BY <1>4
<1> HIDE DEF H
<1>8. H \in Injection(Units(f), Units(g)) /\ H \in Surjection(Units(f), Units(g))
  BY <1>5, <1>6, <1>7 DEF Injection, Surjection, IsInjective
<1>9. IsFiniteSet(Units(f)) /\ Cardinality(Units(f)) = Cardinality(Units(g))
  BY <1>8, FS_Injection
<1>10. h \in Injection(DOMAIN f, DOMAIN g) /\ h \in Surjection(DOMAIN f, DOMAIN g)
  BY DEF Bijection
<1>11. IsFiniteSet(DOMAIN f) /\ Cardinality(DOMAIN f) = Cardinality(DOMAIN g)
  BY <1>10, FS_Injection
<1>12. QED  BY <1>9, <1>11, TotalIsUnits

-----------------------------------------------------------------------------
(* The records of a table and their sizes *)

Weights(t) == [x \in RecordPlaces(t) |-> Bytes(t[x[1]][x[2]])]

IsCounted(t) == IsFiniteSet(RecordPlaces(t)) /\ IsFiniteSet(Units(Weights(t)))

LEMMA InPlaces ==
    ASSUME NEW n, NEW t, DOMAIN t = 0 .. n - 1
    PROVE  /\ \A i \in 0 .. n - 1 : \A k \in DOMAIN t[i] : <<i, k>> \in RecordPlaces(t)
           /\ \A x \in RecordPlaces(t) :
                 x = <<x[1], x[2]>> /\ x[1] \in 0 .. n - 1 /\ x[2] \in DOMAIN t[x[1]]
           /\ \A i, k : <<i, k>> \in RecordPlaces(t) => i \in 0 .. n - 1 /\ k \in DOMAIN t[i]
BY DEF RecordPlaces

LEMMA BytesNat == \A r : Bytes(r) \in Nat
BY MonitorAssumption DEF Bytes

(* Where a record of u was in t.  A record of u that was not in t, or one  *)
(* of t that is not in u, is left out.                                     *)
Moves(h, u, S, t, T) ==
    /\ h \in Bijection(S, T)
    /\ \A x \in S : u[x[1]][x[2]] = t[h[x][1]][h[x][2]]

LEMMA MovesCounted ==
    ASSUME NEW t, NEW u, NEW S, NEW T, NEW h, Moves(h, u, S, t, T)
    PROVE  LET f == [x \in S |-> Bytes(u[x[1]][x[2]])]
               g == [x \in T |-> Bytes(t[x[1]][x[2]])]
           IN  IsFiniteSet(T) /\ IsFiniteSet(Units(g))
                 => /\ IsFiniteSet(S) /\ Cardinality(S) = Cardinality(T)
                    /\ IsFiniteSet(Units(f)) /\ Total(f) = Total(g)
<1> DEFINE f == [x \in S |-> Bytes(u[x[1]][x[2]])]
           g == [x \in T |-> Bytes(t[x[1]][x[2]])]
<1>1. DOMAIN f = S /\ DOMAIN g = T
  OBVIOUS
<1>2. h \in Bijection(S, T) /\ \A x \in S : h[x] \in T
  BY DEF Moves, Bijection, Injection
<1>3. \A x \in S : f[x] = g[h[x]]
  BY <1>2 DEF Moves
<1> HIDE DEF f, g
<1>4. ASSUME IsFiniteSet(T), IsFiniteSet(Units(g))
      PROVE  /\ IsFiniteSet(S) /\ Cardinality(S) = Cardinality(T)
             /\ IsFiniteSet(Units(f)) /\ Total(f) = Total(g)
  BY <1>1, <1>2, <1>3, <1>4, TotalRenamed
<1>5. QED  BY <1>4 DEF f, g

(* One record is added. *)
LEMMA MoreCounted ==
    ASSUME NEW t, IsCounted(t), NEW u, NEW y \in RecordPlaces(u), NEW h,
           Moves(h, u, RecordPlaces(u) \ {y}, t, RecordPlaces(t))
    PROVE  /\ IsCounted(u)
           /\ Cardinality(RecordPlaces(u)) = Cardinality(RecordPlaces(t)) + 1
           /\ Total(Weights(u)) = Total(Weights(t)) + Bytes(u[y[1]][y[2]])
<1> DEFINE S == RecordPlaces(u) \ {y}
           f == [x \in S |-> Bytes(u[x[1]][x[2]])]
<1>1. /\ IsFiniteSet(S) /\ Cardinality(S) = Cardinality(RecordPlaces(t))
      /\ IsFiniteSet(Units(f)) /\ Total(f) = Total(Weights(t))
  BY MovesCounted DEF IsCounted, Weights
<1>2. RecordPlaces(u) = S \cup {y} /\ y \notin S
  OBVIOUS
<1>3. /\ DOMAIN f = S /\ DOMAIN Weights(u) = RecordPlaces(u)
      /\ \A x \in S : Weights(u)[x] = f[x]
      /\ Weights(u)[y] = Bytes(u[y[1]][y[2]])
  BY DEF Weights
<1>4. Weights(u)[y] \in Nat
  BY <1>3, BytesNat
<1> HIDE DEF S, f
<1>5. IsFiniteSet(Units(Weights(u))) /\ Total(Weights(u)) = Total(f) + Weights(u)[y]
  BY <1>1, <1>2, <1>3, <1>4, TotalExtended
<1>6. IsFiniteSet(RecordPlaces(u)) /\ Cardinality(RecordPlaces(u)) = Cardinality(S) + 1
  BY <1>1, <1>2, FS_AddElement
<1>7. QED  BY <1>1, <1>3, <1>5, <1>6 DEF IsCounted

(* One record is removed. *)
LEMMA FewerCounted ==
    ASSUME NEW t, IsCounted(t), NEW u, NEW y \in RecordPlaces(t), NEW h,
           Moves(h, u, RecordPlaces(u), t, RecordPlaces(t) \ {y})
    PROVE  /\ IsCounted(u)
           /\ Cardinality(RecordPlaces(u)) = Cardinality(RecordPlaces(t)) - 1
           /\ Total(Weights(u)) = Total(Weights(t)) - Bytes(t[y[1]][y[2]])
<1> DEFINE T == RecordPlaces(t) \ {y}
           g == [x \in T |-> Bytes(t[x[1]][x[2]])]
<1>1. RecordPlaces(t) = T \cup {y} /\ y \notin T
  OBVIOUS
<1>2. /\ DOMAIN g = T /\ DOMAIN Weights(t) = RecordPlaces(t)
      /\ \A x \in T : Weights(t)[x] = g[x]
      /\ Weights(t)[y] = Bytes(t[y[1]][y[2]])
  BY DEF Weights
<1>3. Weights(t)[y] \in Nat
  BY <1>2, BytesNat
<1>4. IsFiniteSet(T) /\ Cardinality(T) = Cardinality(RecordPlaces(t)) - 1
  BY FS_RemoveElement DEF IsCounted
<1> HIDE DEF T
<1>5. IsFiniteSet(Units(g))
  <2>1. Units(g) \in SUBSET Units(Weights(t))
    <3>1. SUFFICES ASSUME NEW x \in T, NEW k \in 1 .. g[x] PROVE <<x, k>> \in Units(Weights(t))
      BY <1>2 DEF Units
    <3>2. x \in DOMAIN Weights(t) /\ k \in 1 .. Weights(t)[x]
      BY <1>1, <1>2
    <3>3. QED  BY <3>2, InUnits
  <2>2. IsFiniteSet(Units(Weights(t)))
    BY DEF IsCounted
  <2>3. QED  BY <2>1, <2>2, FS_Subset
<1>6. IsFiniteSet(RecordPlaces(u)) /\ Cardinality(RecordPlaces(u)) = Cardinality(T)
      /\ IsFiniteSet(Units(Weights(u))) /\ Total(Weights(u)) = Total(g)
  <2>1. Moves(h, u, RecordPlaces(u), t, T)
    BY DEF T
  <2>2. IsFiniteSet(T)
    BY <1>1, FS_Subset DEF IsCounted
  <2>3. QED  BY <1>5, <2>1, <2>2, MovesCounted DEF Weights
<1> HIDE DEF g
<1>7. Total(Weights(t)) = Total(g) + Weights(t)[y]
  BY <1>1, <1>2, <1>3, <1>5, TotalExtended
<1>8. Total(g) \in Nat
  BY <1>5, FS_CardinalityType, TotalIsUnits
<1>9. QED  BY <1>2, <1>3, <1>4, <1>6, <1>7, <1>8 DEF IsCounted

-----------------------------------------------------------------------------
(* Where the records go *)

(* A record that is linked pushes those of its chain one place on. *)
LEMMA LinkedMoves ==
    ASSUME NEW n \in Nat \ {0}, NEW t \in Tables(n), NEW i \in 0 .. n - 1,
           NEW r \in Record, NEW u, Changed(t, u, i, <<r>> \o t[i], n)
    PROVE  /\ <<i, 1>> \in RecordPlaces(u) /\ u[i][1] = r
           /\ \E h : Moves(h, u, RecordPlaces(u) \ {<<i, 1>>}, t, RecordPlaces(t))
<1> DEFINE c == t[i]
           d == <<r>> \o c
           l == Len(c)
           S == RecordPlaces(u) \ {<<i, 1>>}
           h == [x \in S |-> IF x[1] = i THEN <<i, x[2] - 1>> ELSE x]
<1>1. c \in Seq(Record) /\ DOMAIN t = 0 .. n - 1
  BY DEF Tables
<1>2. l \in Nat /\ DOMAIN c = 1 .. l
  BY <1>1
<1>3. DOMAIN d = 1 .. l + 1 /\ d[1] = r /\ \A j \in 1 .. l : d[j + 1] = c[j]
  BY <1>1
<1>4. DOMAIN u = 0 .. n - 1 /\ u[i] = d /\ \A j \in 0 .. n - 1 : j # i => u[j] = t[j]
  BY DEF Changed
<1> HIDE DEF l, d, c
<1>5. 1 \in DOMAIN d
  BY <1>2, <1>3
<1>6. <<i, 1>> \in RecordPlaces(u) /\ u[i][1] = r
  BY <1>3, <1>4, <1>5, InPlaces
<1>7. ASSUME NEW x \in S
      PROVE  /\ x = <<x[1], x[2]>> /\ x[1] \in 0 .. n - 1
             /\ x[1] = i => x[2] \in 2 .. l + 1 /\ x[2] - 1 \in DOMAIN c
                            /\ d[x[2]] = c[x[2] - 1]
             /\ x[1] # i => x[2] \in DOMAIN t[x[1]]
  <2>1. x = <<x[1], x[2]>> /\ x[1] \in 0 .. n - 1 /\ x[2] \in DOMAIN u[x[1]]
    BY <1>4, InPlaces
  <2>2. ASSUME x[1] = i PROVE x[2] \in 2 .. l + 1 /\ x[2] - 1 \in DOMAIN c /\ d[x[2]] = c[x[2] - 1]
    <3>1. x[2] \in 1 .. l + 1
      BY <1>3, <1>4, <2>1, <2>2
    <3>2. x[2] # 1
      BY <2>1, <2>2
    <3>3. x[2] \in 2 .. l + 1
      BY <1>2, <3>1, <3>2
    <3>4. x[2] - 1 \in 1 .. l /\ (x[2] - 1) + 1 = x[2]
      BY <1>2, <3>3
    <3>5. QED  BY <1>2, <1>3, <3>3, <3>4
  <2>3. QED  BY <1>4, <2>1, <2>2
<1>8. \A x \in S : h[x] = IF x[1] = i THEN <<i, x[2] - 1>> ELSE x
  OBVIOUS
<1>9. ASSUME NEW x \in S PROVE h[x] \in RecordPlaces(t) /\ u[x[1]][x[2]] = t[h[x][1]][h[x][2]]
  <2>1. CASE x[1] = i
    <3>1. h[x] = <<i, x[2] - 1>> /\ x[2] - 1 \in DOMAIN c
      BY <1>7, <1>8, <2>1
    <3>2. h[x] \in RecordPlaces(t)
      BY <1>1, <3>1, InPlaces DEF c
    <3>3. u[x[1]][x[2]] = d[x[2]] /\ t[h[x][1]][h[x][2]] = c[x[2] - 1]
      BY <1>4, <2>1, <3>1 DEF c
    <3>4. QED  BY <1>7, <2>1, <3>2, <3>3
  <2>2. CASE x[1] # i
    <3>1. h[x] = x /\ x = <<x[1], x[2]>> /\ x[2] \in DOMAIN t[x[1]] /\ x[1] \in 0 .. n - 1
      BY <1>7, <1>8, <2>2
    <3>2. h[x] \in RecordPlaces(t)
      BY <1>1, <3>1, InPlaces
    <3>3. QED  BY <1>4, <2>2, <3>1, <3>2
  <2>3. QED  BY <2>1, <2>2
<1>10. ASSUME NEW x \in S, NEW y \in S, h[x] = h[y] PROVE x = y
  <2>1. h[x][1] = x[1] /\ h[y][1] = y[1]
    BY <1>8
  <2>2. x[1] = y[1]
    BY <1>10, <2>1
  <2>3. CASE x[1] = i
    <3>1. x[2] - 1 = y[2] - 1
      BY <1>8, <1>10, <2>2, <2>3
    <3>2. x[2] \in 2 .. l + 1 /\ y[2] \in 2 .. l + 1
      BY <1>7, <2>2, <2>3
    <3>3. x[2] = y[2]
      BY <1>2, <3>1, <3>2
    <3>4. x = <<x[1], x[2]>> /\ y = <<y[1], y[2]>>
      BY <1>7
    <3>5. QED  BY <2>2, <3>3, <3>4, Zenon
  <2>4. CASE x[1] # i
    BY <1>8, <1>10, <2>2, <2>4
  <2>5. QED  BY <2>3, <2>4
<1>11. ASSUME NEW z \in RecordPlaces(t) PROVE \E x \in S : h[x] = z
  <2>1. z = <<z[1], z[2]>> /\ z[1] \in 0 .. n - 1 /\ z[2] \in DOMAIN t[z[1]]
    BY <1>1, InPlaces
  <2>2. CASE z[1] = i
    <3>1. z[2] \in 1 .. l
      BY <1>2, <2>1, <2>2 DEF c
    <3>2. z[2] + 1 \in 1 .. l + 1 /\ z[2] + 1 # 1 /\ (z[2] + 1) - 1 = z[2]
      BY <1>2, <3>1
    <3>3. <<i, z[2] + 1>> \in RecordPlaces(u)
      BY <1>3, <1>4, <3>2, InPlaces
    <3>4. <<i, z[2] + 1>> \in S
      BY <3>2, <3>3
    <3>5. h[<<i, z[2] + 1>>] = <<i, z[2]>>
      BY <1>8, <3>2, <3>4
    <3>6. <<i, z[2]>> = z
      BY <2>1, <2>2
    <3>7. QED  BY <3>4, <3>5, <3>6, Zenon
  <2>3. CASE z[1] # i
    <3>1. z \in RecordPlaces(u)
      BY <1>4, <2>1, <2>3, InPlaces
    <3>2. z \in S
      BY <2>3, <3>1
    <3>3. QED  BY <1>8, <2>3, <3>2
  <2>4. QED  BY <2>2, <2>3
<1>12. h \in [S -> RecordPlaces(t)]
  BY <1>9
<1> HIDE DEF h, S
<1>13. h \in Bijection(S, RecordPlaces(t))
  BY <1>10, <1>11, <1>12 DEF Bijection, Injection, Surjection, IsInjective
<1>14. Moves(h, u, S, t, RecordPlaces(t))
  BY <1>9, <1>13 DEF Moves
<1>15. QED  BY <1>6, <1>14 DEF S

(* What RemoveAt leaves, and where it was *)
(* A record that is unlinked lets those behind it move up. *)
LEMMA RemovedMoves ==
    ASSUME NEW n \in Nat \ {0}, NEW t \in Tables(n), NEW i \in 0 .. n - 1,
           NEW k \in DOMAIN t[i], NEW u, Changed(t, u, i, RemoveAt(t[i], k), n)
    PROVE  /\ <<i, k>> \in RecordPlaces(t)
           /\ \E h : Moves(h, u, RecordPlaces(u), t, RecordPlaces(t) \ {<<i, k>>})
<1> DEFINE c == t[i]
           d == RemoveAt(c, k)
           l == Len(c)
           at(m) == IF m < k THEN m ELSE m + 1
           T == RecordPlaces(t) \ {<<i, k>>}
           h == [x \in RecordPlaces(u) |-> IF x[1] = i THEN <<i, at(x[2])>> ELSE x]
<1>1. c \in Seq(Record) /\ DOMAIN t = 0 .. n - 1
  BY DEF Tables
<1>2. l \in Nat /\ DOMAIN c = 1 .. l /\ k \in 1 .. l
  BY <1>1
<1>3. DOMAIN d = 1 .. l - 1 /\ \A m \in 1 .. l - 1 : d[m] = c[at(m)]
  BY <1>1, RemoveAtIs
<1>4. DOMAIN u = 0 .. n - 1 /\ u[i] = d /\ \A j \in 0 .. n - 1 : j # i => u[j] = t[j]
  BY DEF Changed
<1> HIDE DEF l, d, c
<1>5. /\ \A m \in 1 .. l - 1 : at(m) \in 1 .. l /\ at(m) # k
      /\ \A m, o \in 1 .. l - 1 : at(m) = at(o) => m = o
      /\ \A o \in 1 .. l : o # k => \E m \in 1 .. l - 1 : at(m) = o
  <2>1. ASSUME NEW o \in 1 .. l, o # k PROVE \E m \in 1 .. l - 1 : at(m) = o
    <3>1. CASE o < k
      <4>1. o \in 1 .. l - 1 /\ at(o) = o
        BY <1>2, <3>1
      <4>2. QED  BY <4>1
    <3>2. CASE ~(o < k)
      <4>1. o - 1 \in 1 .. l - 1 /\ at(o - 1) = o
        BY <1>2, <2>1, <3>2
      <4>2. QED  BY <4>1
    <3>3. QED  BY <3>1, <3>2
  <2>2. \A m \in 1 .. l - 1 : at(m) \in 1 .. l /\ at(m) # k
    BY <1>2
  <2>3. \A m, o \in 1 .. l - 1 : at(m) = at(o) => m = o
    BY <1>2
  <2>4. QED  BY <2>1, <2>2, <2>3
<1> HIDE DEF at
<1>6. <<i, k>> \in RecordPlaces(t)
  BY <1>1, InPlaces
<1>7. ASSUME NEW x \in RecordPlaces(u)
      PROVE  /\ x = <<x[1], x[2]>> /\ x[1] \in 0 .. n - 1
             /\ x[1] = i => x[2] \in 1 .. l - 1
             /\ x[1] # i => x[2] \in DOMAIN t[x[1]]
  <2>1. x = <<x[1], x[2]>> /\ x[1] \in 0 .. n - 1 /\ x[2] \in DOMAIN u[x[1]]
    BY <1>4, InPlaces
  <2>2. QED  BY <1>3, <1>4, <2>1
<1>8. \A x \in RecordPlaces(u) : h[x] = IF x[1] = i THEN <<i, at(x[2])>> ELSE x
  OBVIOUS
<1>9. ASSUME NEW x \in RecordPlaces(u)
      PROVE  h[x] \in T /\ u[x[1]][x[2]] = t[h[x][1]][h[x][2]]
  <2>1. CASE x[1] = i
    <3>1. h[x] = <<i, at(x[2])>> /\ x[2] \in 1 .. l - 1
      BY <1>7, <1>8, <2>1
    <3>2. at(x[2]) \in DOMAIN c /\ at(x[2]) # k
      BY <1>2, <1>5, <3>1
    <3>3. h[x] \in T
      BY <1>1, <3>1, <3>2, InPlaces DEF c
    <3>4. u[x[1]][x[2]] = d[x[2]] /\ t[h[x][1]][h[x][2]] = c[at(x[2])]
      BY <1>4, <2>1, <3>1 DEF c
    <3>5. QED  BY <1>3, <3>1, <3>3, <3>4
  <2>2. CASE x[1] # i
    <3>1. h[x] = x /\ x = <<x[1], x[2]>> /\ x[2] \in DOMAIN t[x[1]] /\ x[1] \in 0 .. n - 1
      BY <1>7, <1>8, <2>2
    <3>2. h[x] \in T
      BY <1>1, <2>2, <3>1, InPlaces
    <3>3. QED  BY <1>4, <2>2, <3>1, <3>2
  <2>3. QED  BY <2>1, <2>2
<1>10. ASSUME NEW x \in RecordPlaces(u), NEW y \in RecordPlaces(u), h[x] = h[y] PROVE x = y
  <2>1. h[x][1] = x[1] /\ h[y][1] = y[1]
    BY <1>8
  <2>2. x[1] = y[1]
    BY <1>10, <2>1
  <2>3. CASE x[1] = i
    <3>1. at(x[2]) = at(y[2])
      BY <1>8, <1>10, <2>2, <2>3
    <3>2. x[2] \in 1 .. l - 1 /\ y[2] \in 1 .. l - 1
      BY <1>7, <2>2, <2>3
    <3>3. x[2] = y[2]
      BY <1>5, <3>1, <3>2
    <3>4. x = <<x[1], x[2]>> /\ y = <<y[1], y[2]>>
      BY <1>7
    <3>5. QED  BY <2>2, <3>3, <3>4, Zenon
  <2>4. CASE x[1] # i
    BY <1>8, <1>10, <2>2, <2>4
  <2>5. QED  BY <2>3, <2>4
<1>11. ASSUME NEW z \in T PROVE \E x \in RecordPlaces(u) : h[x] = z
  <2>1. z = <<z[1], z[2]>> /\ z[1] \in 0 .. n - 1 /\ z[2] \in DOMAIN t[z[1]]
    BY <1>1, InPlaces
  <2>2. CASE z[1] = i
    <3>1. z[2] \in 1 .. l /\ z[2] # k
      BY <1>2, <2>1, <2>2 DEF c
    <3>2. PICK m \in 1 .. l - 1 : at(m) = z[2]
      BY <1>5, <3>1
    <3>3. <<i, m>> \in RecordPlaces(u)
      BY <1>3, <1>4, InPlaces
    <3>4. h[<<i, m>>] = <<i, z[2]>>
      BY <1>8, <3>2, <3>3
    <3>5. <<i, z[2]>> = z
      BY <2>1, <2>2
    <3>6. QED  BY <3>3, <3>4, <3>5, Zenon
  <2>3. CASE z[1] # i
    <3>1. z \in RecordPlaces(u)
      BY <1>4, <2>1, <2>3, InPlaces
    <3>2. QED  BY <1>8, <2>3, <3>1
  <2>4. QED  BY <2>2, <2>3
<1>12. h \in [RecordPlaces(u) -> T]
  BY <1>9
<1> HIDE DEF h, T
<1>13. h \in Bijection(RecordPlaces(u), T)
  BY <1>10, <1>11, <1>12 DEF Bijection, Injection, Surjection, IsInjective
<1>14. Moves(h, u, RecordPlaces(u), t, T)
  BY <1>9, <1>13 DEF Moves
<1>15. QED  BY <1>6, <1>14 DEF T

(* Where the records of one half of a chain were *)
Half(c, n, half, k) == {j \in 1 .. k : InHalf(c[j], n, half)}

Takes(F, d, c, n, half, k) ==
    /\ F \in Bijection(DOMAIN d, Half(c, n, half, k))
    /\ \A m \in DOMAIN d : d[m] = c[F[m]]

LEMMA DividedMoves ==
    ASSUME NEW c \in Seq(Record), NEW n \in Nat \ {0}, NEW half \in {0, 1}
    PROVE  \E F : Takes(F, Divided(c, n, half), c, n, half, Len(c))
<1>1. PICK g : IsDividing(g, c, n, half)
  BY DividedByLoop
<1> DEFINE l == Len(c)
           Good == {k \in 0 .. l : \E F : Takes(F, g[k], c, n, half, k)}
<1>2. l \in Nat
  OBVIOUS
<1>3. g \in [0 .. l -> Seq(Record)] /\ g[0] = <<>> /\ Divided(c, n, half) = g[l]
  BY <1>1 DEF IsDividing
<1>4. \A k \in 1 .. l : g[k] = DivideStep(c, n, half, k, g[k - 1])
  BY <1>1 DEF IsDividing
<1> HIDE DEF l
<1>5. 0 \in Good
  <2> DEFINE F == [m \in {} |-> 0]
  <2>1. DOMAIN <<>> = {} /\ Half(c, n, half, 0) = {}
    BY DEF Half
  <2>2. F \in Bijection({}, {})
    BY DEF Bijection, Injection, Surjection, IsInjective
  <2> HIDE DEF F
  <2>3. Takes(F, <<>>, c, n, half, 0)
    BY <2>1, <2>2 DEF Takes
  <2>4. QED  BY <1>2, <1>3, <2>3
<1>6. ASSUME NEW k \in 1 .. l, k - 1 \in Good PROVE k \in Good
  <2> DEFINE d == g[k - 1]
             e == g[k]
             A == Half(c, n, half, k - 1)
             B == Half(c, n, half, k)
  <2>1. d \in Seq(Record) /\ k - 1 \in 0 .. l /\ k \in 0 .. l
    BY <1>2, <1>3
  <2>2. PICK F : Takes(F, d, c, n, half, k - 1)
    BY <1>6
  <2>3. e = DivideStep(c, n, half, k, d)
    BY <1>4
  <2>4. A \subseteq 1 .. k - 1 /\ k \notin A
    BY <1>2 DEF Half
  <2>5. 1 .. k = (1 .. k - 1) \cup {k}
    BY <1>2
  <2>6. B = IF InHalf(c[k], n, half) THEN A \cup {k} ELSE A
    BY <2>5 DEF Half
  <2> HIDE DEF A, B, d, e
  <2>7. F \in Bijection(DOMAIN d, A) /\ \A m \in DOMAIN d : d[m] = c[F[m]]
    BY <2>2 DEF Takes, A
  <2>8. CASE InHalf(c[k], n, half)
    <3> DEFINE o == Len(d)
               G == [m \in 1 .. o + 1 |-> IF m = 1 THEN k ELSE F[m - 1]]
    <3>1. e = <<c[k]>> \o d
      BY <2>3, <2>8 DEF DivideStep
    <3>2. o \in Nat /\ DOMAIN d = 1 .. o
      BY <2>1
    <3>3. DOMAIN e = 1 .. o + 1 /\ e[1] = c[k] /\ \A j \in 1 .. o : e[j + 1] = d[j]
      BY <2>1, <3>1
    <3> HIDE DEF o
    <3>4. /\ F \in [1 .. o -> A] /\ \A x, y \in 1 .. o : F[x] = F[y] => x = y
          /\ \A z \in A : \E x \in 1 .. o : F[x] = z
      BY <2>7, <3>2 DEF Bijection, Injection, Surjection, IsInjective
    <3>5. \A m \in 1 .. o + 1 : m # 1 => m - 1 \in 1 .. o /\ (m - 1) + 1 = m
      BY <3>2
    <3>6. /\ \A m \in 1 .. o + 1 : G[m] = IF m = 1 THEN k ELSE F[m - 1]
          /\ 1 \in 1 .. o + 1
      BY <3>2
    <3>7. G \in [1 .. o + 1 -> B]
      BY <2>6, <2>8, <3>4, <3>5
    <3> HIDE DEF G
    <3>8. ASSUME NEW x \in 1 .. o + 1, NEW y \in 1 .. o + 1, G[x] = G[y] PROVE x = y
      <4>1. \A m \in 1 .. o + 1 : m = 1 <=> G[m] = k
        BY <2>4, <3>4, <3>5, <3>6
      <4>2. CASE x = 1
        BY <3>8, <4>1, <4>2
      <4>3. CASE x # 1
        <5>1. y # 1
          BY <3>8, <4>1, <4>3
        <5>2. F[x - 1] = F[y - 1]
          BY <3>6, <3>8, <4>3, <5>1
        <5>3. x - 1 = y - 1
          BY <3>4, <3>5, <4>3, <5>1, <5>2
        <5>4. (x - 1) + 1 = x /\ (y - 1) + 1 = y
          BY <3>5, <4>3, <5>1
        <5>5. QED  BY <5>3, <5>4, Zenon
      <4>4. QED  BY <4>2, <4>3
    <3>9. ASSUME NEW z \in B PROVE \E x \in 1 .. o + 1 : G[x] = z
      <4>1. CASE z = k
        BY <3>6, <4>1
      <4>2. CASE z # k
        <5>1. z \in A
          BY <2>6, <2>8, <4>2
        <5>2. PICK x \in 1 .. o : F[x] = z
          BY <3>4, <5>1
        <5>3. x + 1 \in 1 .. o + 1 /\ x + 1 # 1 /\ (x + 1) - 1 = x
          BY <3>2
        <5>4. G[x + 1] = z
          BY <3>6, <5>2, <5>3
        <5>5. QED  BY <5>3, <5>4
      <4>3. QED  BY <4>1, <4>2
    <3>10. G \in Bijection(DOMAIN e, B)
      BY <3>3, <3>7, <3>8, <3>9 DEF Bijection, Injection, Surjection, IsInjective
    <3>11. ASSUME NEW m \in DOMAIN e PROVE e[m] = c[G[m]]
      <4>1. CASE m = 1
        BY <3>3, <3>6, <4>1
      <4>2. CASE m # 1
        <5>1. m - 1 \in 1 .. o /\ (m - 1) + 1 = m
          BY <3>3, <3>5, <4>2
        <5>2. e[m] = d[m - 1]
          BY <3>3, <5>1
        <5>3. d[m - 1] = c[F[m - 1]]
          BY <2>7, <3>2, <5>1
        <5>4. QED  BY <3>3, <3>6, <4>2, <5>2, <5>3
      <4>3. QED  BY <4>1, <4>2
    <3>12. Takes(G, e, c, n, half, k)
      BY <3>10, <3>11 DEF Takes, B
    <3>13. QED  BY <2>1, <3>12 DEF e
  <2>9. CASE ~InHalf(c[k], n, half)
    <3>1. e = d /\ B = A
      BY <2>3, <2>6, <2>9 DEF DivideStep
    <3>2. Takes(F, e, c, n, half, k)
      BY <2>7, <3>1 DEF Takes, B
    <3>3. QED  BY <2>1, <3>2 DEF e
  <2>10. QED  BY <2>8, <2>9
<1>7. l \in Good
  <2>1. \A k \in 1 .. l : k - 1 \in Good => k \in Good
    BY <1>6
  <2>2. l \in 0 .. l
    BY <1>2
  <2> HIDE DEF Good
  <2>3. QED  BY <1>2, <1>5, <2>1, <2>2, UpTo
<1>8. QED  BY <1>3, <1>7 DEF l

(* A rehash takes every record to one place. *)
LEMMA RehashedMoves ==
    ASSUME NEW n \in Nat \ {0}, NEW t \in Tables(n)
    PROVE  \E h : Moves(h, Rehashed(t), RecordPlaces(Rehashed(t)), t, RecordPlaces(t))
<1> DEFINE N == 2 * n
           u == Rehashed(t)
           half(j) == j \div n
           Ways == [j \in 0 .. N - 1 |->
                      CHOOSE F : Takes(F, u[j], t[j % n], n, half(j), Len(t[j % n]))]
           h == [x \in RecordPlaces(u) |-> <<x[1] % n, Ways[x[1]][x[2]]>>]
<1>1. N \in Nat \ {0} /\ TableSize(t) = n /\ DOMAIN t = 0 .. n - 1
  BY TableFacts DEF Tables
<1>2. u = [j \in 0 .. N - 1 |-> Divided(t[j % n], n, half(j))]
  BY <1>1 DEF Rehashed
<1>3. \A j \in 0 .. N - 1 : half(j) \in {0, 1} /\ j % n \in 0 .. n - 1 /\ j = n * half(j) + (j % n)
  <2>1. \A j \in 0 .. N - 1 : half(j) \in {0, 1} /\ j % n \in 0 .. n - 1
    OBVIOUS
  <2>2. \A j \in 0 .. N - 1 : j = n * half(j) + (j % n)
    BY DivMod
  <2>3. QED  BY <2>1, <2>2
<1>4. \A i \in 0 .. n - 1 : t[i] \in Seq(Record) /\ DOMAIN t[i] = 1 .. Len(t[i])
  BY DEF Tables
<1>5. ASSUME NEW i \in 0 .. n - 1, NEW b \in {0, 1}
      PROVE  i + n * b \in 0 .. N - 1 /\ (i + n * b) % n = i /\ half(i + n * b) = b
  <2>1. CASE b = 0
    BY <2>1
  <2>2. CASE b = 1
    BY <2>2
  <2>3. QED  BY <2>1, <2>2
<1> HIDE DEF N, u, half
<1>6. DOMAIN u = 0 .. N - 1
  BY <1>2
<1>7. ASSUME NEW j \in 0 .. N - 1
      PROVE  Takes(Ways[j], u[j], t[j % n], n, half(j), Len(t[j % n]))
  <2> DEFINE c == t[j % n]
             b == half(j)
  <2>1. u[j] = Divided(c, n, b) /\ c \in Seq(Record) /\ b \in {0, 1}
    BY <1>2, <1>3, <1>4
  <2> HIDE DEF c, b
  <2>2. \E F : Takes(F, u[j], c, n, b, Len(c))
    BY <2>1, DividedMoves
  <2>3. Ways[j] = CHOOSE F : Takes(F, u[j], c, n, b, Len(c))
    BY DEF c, b
  <2> HIDE DEF Ways
  <2>4. Takes(Ways[j], u[j], c, n, b, Len(c))
    BY <2>2, <2>3, Zenon
  <2>5. QED  BY <2>4 DEF c, b
<1> HIDE DEF Ways
<1>8. ASSUME NEW j \in 0 .. N - 1
      PROVE  /\ \A m \in DOMAIN u[j] : /\ Ways[j][m] \in DOMAIN t[j % n]
                                       /\ InHalf(t[j % n][Ways[j][m]], n, half(j))
                                       /\ u[j][m] = t[j % n][Ways[j][m]]
             /\ \A m, o \in DOMAIN u[j] : Ways[j][m] = Ways[j][o] => m = o
             /\ \A k \in DOMAIN t[j % n] :
                   InHalf(t[j % n][k], n, half(j)) => \E m \in DOMAIN u[j] : Ways[j][m] = k
  <2> DEFINE c == t[j % n]
             b == half(j)
             F == Ways[j]
             d == u[j]
  <2>1. Takes(F, d, c, n, b, Len(c)) /\ DOMAIN c = 1 .. Len(c)
    BY <1>3, <1>4, <1>7
  <2> HIDE DEF c, b, F, d
  <2>2. /\ \A m \in DOMAIN d : F[m] \in DOMAIN c /\ InHalf(c[F[m]], n, b) /\ d[m] = c[F[m]]
        /\ \A m, o \in DOMAIN d : F[m] = F[o] => m = o
        /\ \A k \in DOMAIN c : InHalf(c[k], n, b) => \E m \in DOMAIN d : F[m] = k
    BY <2>1 DEF Takes, Half, Bijection, Injection, Surjection, IsInjective
  <2>3. QED  BY <2>2 DEF c, b, F, d
<1>9. ASSUME NEW x \in RecordPlaces(u)
      PROVE  x = <<x[1], x[2]>> /\ x[1] \in 0 .. N - 1 /\ x[2] \in DOMAIN u[x[1]]
  BY <1>6, InPlaces
<1>10. \A x \in RecordPlaces(u) : h[x] = <<x[1] % n, Ways[x[1]][x[2]]>>
  OBVIOUS
<1> HIDE DEF h
<1>11. ASSUME NEW x \in RecordPlaces(u)
       PROVE  h[x] \in RecordPlaces(t) /\ u[x[1]][x[2]] = t[h[x][1]][h[x][2]]
  <2>1. x[1] \in 0 .. N - 1 /\ x[2] \in DOMAIN u[x[1]] /\ x[1] % n \in 0 .. n - 1
    BY <1>3, <1>9
  <2>2. /\ Ways[x[1]][x[2]] \in DOMAIN t[x[1] % n]
        /\ u[x[1]][x[2]] = t[x[1] % n][Ways[x[1]][x[2]]]
    BY <1>8, <2>1
  <2>3. h[x][1] = x[1] % n /\ h[x][2] = Ways[x[1]][x[2]]
    BY <1>10
  <2>4. <<x[1] % n, Ways[x[1]][x[2]]>> \in RecordPlaces(t)
    BY <1>1, <2>1, <2>2, InPlaces
  <2>5. h[x] \in RecordPlaces(t)
    BY <1>10, <2>4
  <2>6. QED  BY <2>2, <2>3, <2>5
<1>12. ASSUME NEW x \in RecordPlaces(u), NEW y \in RecordPlaces(u), h[x] = h[y] PROVE x = y
  <2> DEFINE j == x[1]
             k == y[1]
             i == j % n
             p == Ways[j][x[2]]
  <2>1. /\ j \in 0 .. N - 1 /\ x[2] \in DOMAIN u[j] /\ x = <<j, x[2]>>
        /\ k \in 0 .. N - 1 /\ y[2] \in DOMAIN u[k] /\ y = <<k, y[2]>>
    BY <1>9
  <2>2. k % n = i /\ Ways[k][y[2]] = p
    BY <1>10, <1>12
  <2>3. InHalf(t[i][p], n, half(j)) /\ InHalf(t[i][p], n, half(k))
    <3>1. InHalf(t[j % n][Ways[j][x[2]]], n, half(j))
      BY <1>8, <2>1
    <3>2. InHalf(t[k % n][Ways[k][y[2]]], n, half(k))
      BY <1>8, <2>1
    <3>3. QED  BY <2>2, <3>1, <3>2
  <2>4. half(j) = half(k)
    BY <2>3 DEF InHalf
  <2>5. j = k
    <3>1. j = n * half(j) + (j % n) /\ k = n * half(k) + (k % n)
      BY <1>3, <2>1
    <3> HIDE DEF j, k
    <3>2. QED  BY <2>2, <2>4, <3>1
  <2>6. x[2] = y[2]
    BY <1>8, <2>1, <2>2, <2>5
  <2>7. QED  BY <2>1, <2>5, <2>6
<1>13. ASSUME NEW z \in RecordPlaces(t) PROVE \E x \in RecordPlaces(u) : h[x] = z
  <2> DEFINE i == z[1]
             k == z[2]
             b == (Home[t[i][k].ptr] \div n) % 2
             j == i + n * b
  <2>1. z = <<i, k>> /\ i \in 0 .. n - 1 /\ k \in DOMAIN t[i]
    BY <1>1, InPlaces
  <2>2. t[i][k] \in Record
    BY <1>4, <2>1
  <2>3. Home[t[i][k].ptr] \in Nat
    BY <2>2, MonitorAssumption DEF Record
  <2>4. b \in {0, 1} /\ InHalf(t[i][k], n, b)
    BY <2>3, DoubledSlot DEF InHalf
  <2> HIDE DEF i, k, b
  <2>5. j \in 0 .. N - 1 /\ j % n = i /\ half(j) = b
    BY <1>5, <2>1, <2>4
  <2> HIDE DEF j
  <2>6. PICK m \in DOMAIN u[j] : Ways[j][m] = k
    BY <1>8, <2>1, <2>4, <2>5
  <2>7. <<j, m>> \in RecordPlaces(u)
    BY <1>6, <2>5, InPlaces
  <2>8. h[<<j, m>>] = <<i, k>>
    BY <1>10, <2>5, <2>6, <2>7
  <2>9. QED  BY <2>1, <2>7, <2>8, Zenon
<1>14. h \in [RecordPlaces(u) -> RecordPlaces(t)]
  BY <1>11 DEF h
<1>15. h \in Bijection(RecordPlaces(u), RecordPlaces(t))
  BY <1>12, <1>13, <1>14 DEF Bijection, Injection, Surjection, IsInjective
<1>16. Moves(h, u, RecordPlaces(u), t, RecordPlaces(t))
  BY <1>11, <1>15 DEF Moves
<1>17. QED  BY <1>16 DEF u

-----------------------------------------------------------------------------
(* The counters *)

Overhead(t) == Total(Weights(t)) + SlotBytes * TableSize(t) + SelfBytes

(* What the counters count can be counted, and they agree with it. *)
CountInv ==
    /\ IsCounted(table) /\ nbBuckets = Cardinality(RecordPlaces(table))
    /\ IsFiniteSet(Units(heap)) /\ totalAlloc = Total(heap)
    /\ overhead = Overhead(table)

LEMMA OverheadTypes ==
    ASSUME NEW t, Well(t), IsCounted(t)
    PROVE  /\ Cardinality(RecordPlaces(t)) \in Nat
           /\ Total(Weights(t)) \in Nat
           /\ TableSize(t) \in Nat
           /\ SlotBytes \in Nat /\ SelfBytes \in Nat
           /\ Overhead(t) \in Nat
<1>1. Cardinality(RecordPlaces(t)) \in Nat /\ Total(Weights(t)) \in Nat
  BY FS_CardinalityType, TotalIsUnits DEF IsCounted
<1>2. PICK n \in Nat \ {0} : t \in Tables(n)
  BY DEF Well
<1>3. TableSize(t) \in Nat
  BY <1>2, TableFacts
<1>4. SlotBytes \in Nat /\ SelfBytes \in Nat
  BY MonitorAssumption
<1>5. SlotBytes * TableSize(t) \in Nat
  BY <1>3, <1>4
<1>6. QED  BY <1>1, <1>3, <1>4, <1>5 DEF Overhead

LEMMA SlotChanged ==
    ASSUME NEW n \in Nat \ {0}, NEW t \in Tables(n), NEW u \in Tables(n),
           NEW i \in 0 .. n - 1, NEW d, u = [t EXCEPT ![i] = d]
    PROVE  Changed(t, u, i, d, n)
<1>1. t \in [0 .. n - 1 -> Seq(Record)] /\ u \in [0 .. n - 1 -> Seq(Record)]
  BY DEF Tables
<1>2. u[i] = d /\ \A j \in (0 .. n - 1) \ {i} : u[j] = t[j]
  BY <1>1
<1>3. QED  BY <1>1, <1>2 DEF Changed

(* Linking a record counts it, whether a rehash follows or not. *)
LEMMA LinkedCounts ==
    ASSUME NEW t, Well(t), IsCounted(t), NEW q \in Ptrs, NEW r \in Record, r.ptr = q, NEW m,
           NEW u \in AfterInc([t EXCEPT ![Home[q] % TableSize(t)] = <<r>> \o @], m)
    PROVE  /\ IsCounted(u)
           /\ Cardinality(RecordPlaces(u)) = Cardinality(RecordPlaces(t)) + 1
           /\ Total(Weights(u)) = Total(Weights(t)) + Bytes(r)
<1> DEFINE i == Home[q] % TableSize(t)
           d == <<r>> \o t[i]
           v == [t EXCEPT ![i] = d]
<1>1. PICK n \in Nat \ {0} : t \in Tables(n)
  BY DEF Well
<1>2. TableSize(t) = n /\ i \in 0 .. n - 1
  BY <1>1, TableFacts
<1>3. v = [t EXCEPT ![Home[q] % TableSize(t)] = <<r>> \o @]
  OBVIOUS
<1>4. v \in Tables(n)
  BY <1>1, <1>3, LinkedKeeps
<1>5. Changed(t, v, i, d, n)
  BY <1>1, <1>2, <1>4, SlotChanged
<1>6. u = v \/ u = Rehashed(v)
  BY <1>3 DEF AfterInc
<1> HIDE DEF v, i
<1>7. /\ IsCounted(v)
      /\ Cardinality(RecordPlaces(v)) = Cardinality(RecordPlaces(t)) + 1
      /\ Total(Weights(v)) = Total(Weights(t)) + Bytes(r)
  <2>1. Changed(t, v, i, <<r>> \o t[i], n)
    BY <1>5
  <2>2. /\ <<i, 1>> \in RecordPlaces(v) /\ v[i][1] = r
        /\ \E h : Moves(h, v, RecordPlaces(v) \ {<<i, 1>>}, t, RecordPlaces(t))
    BY <1>1, <1>2, <2>1, LinkedMoves, Zenon
  <2>3. PICK h : Moves(h, v, RecordPlaces(v) \ {<<i, 1>>}, t, RecordPlaces(t))
    BY <2>2
  <2> DEFINE y == <<i, 1>>
  <2>4. v[y[1]][y[2]] = r /\ y \in RecordPlaces(v)
        /\ Moves(h, v, RecordPlaces(v) \ {y}, t, RecordPlaces(t))
    BY <2>2, <2>3
  <2> HIDE DEF y
  <2>5. /\ IsCounted(v)
        /\ Cardinality(RecordPlaces(v)) = Cardinality(RecordPlaces(t)) + 1
        /\ Total(Weights(v)) = Total(Weights(t)) + Bytes(v[y[1]][y[2]])
    BY <2>4, MoreCounted
  <2>6. QED  BY <2>4, <2>5
<1>8. CASE u = Rehashed(v)
  <2>1. PICK h : Moves(h, u, RecordPlaces(u), v, RecordPlaces(v))
    BY <1>4, <1>8, RehashedMoves
  <2>2. /\ IsCounted(u)
        /\ Cardinality(RecordPlaces(u)) = Cardinality(RecordPlaces(v))
        /\ Total(Weights(u)) = Total(Weights(v))
    BY <1>7, <2>1, MovesCounted DEF IsCounted, Weights
  <2>3. QED  BY <1>7, <2>2
<1>9. QED  BY <1>6, <1>7, <1>8

(* Unlinking a record, wherever it is *)
LEMMA UnlinkedCounts ==
    ASSUME NEW t, Well(t), IsCounted(t), NEW q \in Ptrs, NEW k \in DOMAIN ChainOf(t, q), NEW u,
           u = [t EXCEPT ![Home[q] % TableSize(t)] = RemoveAt(@, k)], Well(u)
    PROVE  /\ TableSize(u) = TableSize(t)
           /\ IsCounted(u)
           /\ Cardinality(RecordPlaces(u)) = Cardinality(RecordPlaces(t)) - 1
           /\ Total(Weights(u)) = Total(Weights(t)) - Bytes(ChainOf(t, q)[k])
<1> DEFINE i == Home[q] % TableSize(t)
           d == RemoveAt(t[i], k)
           y == <<i, k>>
<1>1. PICK n \in Nat \ {0} : t \in Tables(n)
  BY DEF Well
<1>2. TableSize(t) = n /\ i \in 0 .. n - 1 /\ ChainOf(t, q) = t[i]
  BY <1>1, TableFacts
<1>3. u = [t EXCEPT ![i] = d]
  OBVIOUS
<1>4. DOMAIN u = DOMAIN t
  BY <1>3
<1>5. t \in [0 .. n - 1 -> Seq(Record)] /\ u \in [0 .. n - 1 -> Seq(Record)]
  <2>1. PICK o \in Nat \ {0} : u \in Tables(o)
    BY DEF Well
  <2>2. DOMAIN t = 0 .. n - 1 /\ u \in [0 .. o - 1 -> Seq(Record)]
        /\ t \in [0 .. n - 1 -> Seq(Record)]
    BY <1>1, <2>1 DEF Tables
  <2>3. QED  BY <1>4, <2>2
<1> HIDE DEF i, d
<1>6. u[i] = d /\ \A j \in (0 .. n - 1) \ {i} : u[j] = t[j]
  BY <1>2, <1>3, <1>5
<1>7. Changed(t, u, i, RemoveAt(t[i], k), n)
  BY <1>5, <1>6 DEF Changed, d
<1>8. y \in RecordPlaces(t) /\ \E h : Moves(h, u, RecordPlaces(u), t, RecordPlaces(t) \ {y})
  BY <1>1, <1>2, <1>7, RemovedMoves
<1>9. t[y[1]][y[2]] = ChainOf(t, q)[k]
  BY <1>2
<1> HIDE DEF y
<1>10. PICK h : Moves(h, u, RecordPlaces(u), t, RecordPlaces(t) \ {y})
  BY <1>8
<1>11. /\ IsCounted(u)
       /\ Cardinality(RecordPlaces(u)) = Cardinality(RecordPlaces(t)) - 1
       /\ Total(Weights(u)) = Total(Weights(t)) - Bytes(t[y[1]][y[2]])
  BY <1>8, <1>10, FewerCounted
<1>12. TableSize(u) = TableSize(t)
  BY <1>4 DEF TableSize
<1>13. QED  BY <1>9, <1>11, <1>12

(* The calls *)

(* remember() with the counters it changes *)
LEMMA RememberCounts ==
    ASSUME Well(table), CountInv, NEW p \in Ptrs, NEW s \in Sizes \cup {NOSIZE},
           NEW where \in Positions \cup {NoPosition},
           status = "on", Remember(p, s, where), ~AlreadyRegistered(p, s)
    PROVE  /\ IsCounted(table') /\ nbBuckets' = Cardinality(RecordPlaces(table'))
           /\ overhead' = Overhead(table')
           /\ totalAlloc' = IF s = NOSIZE THEN totalAlloc ELSE totalAlloc + s
<1> DEFINE r == [ptr |-> p, pos |-> where,
                 size |-> IF where = NoPosition THEN s ELSE s + ExtensionBit]
           linked == [table EXCEPT ![Home[p] % TableSize(table)] = <<r>> \o @]
<1>1. r \in Record /\ r.ptr = p
  BY NewRecord
<1>2. /\ table' \in AfterInc(linked, nbBuckets') /\ nbBuckets' = nbBuckets + 1
      /\ totalAlloc' = IF s = NOSIZE THEN totalAlloc ELSE totalAlloc + s
      /\ overhead' = overhead + Bytes(r)
                       + SlotBytes * (TableSize(table') - TableSize(table))
  BY DEF Remember
<1>3. IsCounted(table) /\ nbBuckets = Cardinality(RecordPlaces(table)) /\ overhead = Overhead(table)
  BY DEF CountInv
<1>4. Well(table')
  BY RememberEffect
<1> HIDE DEF r
<1>5. /\ IsCounted(table')
      /\ Cardinality(RecordPlaces(table')) = Cardinality(RecordPlaces(table)) + 1
      /\ Total(Weights(table')) = Total(Weights(table)) + Bytes(r)
  BY <1>1, <1>2, <1>3, LinkedCounts
<1>6. overhead' = Overhead(table')
  <2> DEFINE a == TableSize(table)
             b == TableSize(table')
             w == Total(Weights(table))
  <2>1. a \in Nat /\ b \in Nat /\ w \in Nat /\ SlotBytes \in Nat /\ SelfBytes \in Nat
    BY <1>3, <1>4, <1>5, OverheadTypes
  <2>2. Bytes(r) \in Nat
    BY BytesNat
  <2>3. overhead = w + SlotBytes * a + SelfBytes
    BY <1>3 DEF Overhead
  <2>4. Overhead(table') = w + Bytes(r) + SlotBytes * b + SelfBytes
    BY <1>5 DEF Overhead
  <2>5. overhead' = overhead + Bytes(r) + SlotBytes * (b - a)
    BY <1>2
  <2> HIDE DEF a, b, w
  <2>6. SlotBytes * (b - a) = SlotBytes * b - SlotBytes * a
    BY <2>1
  <2>7. SlotBytes * a \in Nat /\ SlotBytes * b \in Nat
    BY <2>1
  <2>8. QED  BY <2>1, <2>2, <2>3, <2>4, <2>5, <2>6, <2>7
<1>7. QED  BY <1>2, <1>3, <1>5, <1>6

(* forget() of a pointer it finds *)
LEMMA ForgetCounts ==
    ASSUME Well(table), CountInv, NEW p \in Ptrs, NEW nosize, NEW at, NEW own,
           status = "on", Forget(p, nosize, at, own), Places(table, p, nosize) # {}
    PROVE  /\ IsCounted(table') /\ nbBuckets' = Cardinality(RecordPlaces(table'))
           /\ overhead' = Overhead(table')
           /\ \E k \in Places(table, p, nosize) : totalAlloc' = TotalAfter(ChainOf(table, p)[k])
<1>1. p # NULL
  BY MonitorAssumption
<1> DEFINE k == Min(Places(table, p, nosize))
           r == ChainOf(table, p)[k]
<1>2. Places(table, p, nosize) \subseteq Nat
  BY WellFacts DEF Places
<1>3. k \in Places(table, p, nosize)
  BY <1>2, LeastNat DEF Min
<1>4. /\ table' = [table EXCEPT ![Home[p] % TableSize(table)] = RemoveAt(@, k)]
      /\ nbBuckets' = nbBuckets - 1 /\ totalAlloc' = TotalAfter(r) /\ overhead' = overhead - Bytes(r)
  BY <1>1 DEF Forget
<1>5. Well(table')
  BY ForgetEffect
<1>6. IsCounted(table) /\ nbBuckets = Cardinality(RecordPlaces(table)) /\ overhead = Overhead(table)
  BY DEF CountInv
<1> HIDE DEF k
<1>7. k \in DOMAIN ChainOf(table, p)
  BY <1>3 DEF Places
<1>8. /\ TableSize(table') = TableSize(table)
      /\ IsCounted(table')
      /\ Cardinality(RecordPlaces(table')) = Cardinality(RecordPlaces(table)) - 1
      /\ Total(Weights(table')) = Total(Weights(table)) - Bytes(r)
  BY <1>4, <1>5, <1>6, <1>7, UnlinkedCounts
<1>9. overhead' = Overhead(table')
  <2> DEFINE w == Total(Weights(table))
             a == SlotBytes * TableSize(table)
  <2>1. w \in Nat /\ TableSize(table) \in Nat /\ SlotBytes \in Nat /\ SelfBytes \in Nat
    BY <1>6, OverheadTypes
  <2>2. a \in Nat /\ Bytes(r) \in Nat
    BY <2>1, BytesNat
  <2>3. overhead = w + a + SelfBytes /\ Overhead(table') = w - Bytes(r) + a + SelfBytes
    BY <1>6, <1>8 DEF Overhead
  <2> HIDE DEF w, a
  <2>4. QED  BY <1>4, <2>1, <2>2, <2>3
<1>10. QED  BY <1>3, <1>4, <1>6, <1>8, <1>9

-----------------------------------------------------------------------------
(* The counters after each call *)

(* The heap's bytes after an allocation, and after the pointer is freed *)
LEMMA HeapCounts ==
    ASSUME NEW h \in [Ptrs -> Nat], IsFiniteSet(Units(h)), NEW p \in Ptrs, NEW s \in Nat,
           NEW h2 \in [Ptrs -> Nat], h2[p] = s, \A q \in Ptrs \ {p} : h2[q] = h[q]
    PROVE  /\ h[p] = 0 => IsFiniteSet(Units(h2)) /\ Total(h2) = Total(h) + s
           /\ s = 0 => IsFiniteSet(Units(h2)) /\ Total(h2) = Total(h) - h[p]
<1>1. DOMAIN h2 = Ptrs /\ DOMAIN h = Ptrs
  OBVIOUS
<1>2. CASE h[p] = 0
  <2>1. IsFiniteSet(Units(h2)) /\ Total(h2) = Total(h) + s
    BY <1>2, TotalRaised
  <2>2. Total(h) \in Nat
    BY FS_CardinalityType, TotalIsUnits
  <2>3. QED  BY <1>2, <2>1, <2>2
<1>3. CASE h[p] # 0
  <2>1. SUFFICES ASSUME s = 0
                 PROVE  IsFiniteSet(Units(h2)) /\ Total(h2) = Total(h) - h[p]
    BY <1>3
  <2>2. Units(h2) \in SUBSET Units(h)
    <3>1. ASSUME NEW u \in Units(h2) PROVE u \in Units(h)
      <4>1. PICK x \in Ptrs : \E k \in 1 .. h2[x] : u = <<x, k>>
        BY <1>1, InUnits
      <4>2. 1 .. h2[p] = {}
        BY <2>1
      <4>3. x # p
        BY <4>1, <4>2
      <4>4. h2[x] = h[x]
        BY <4>3
      <4>5. \E k \in 1 .. h[x] : u = <<x, k>>
        BY <4>1, <4>4
      <4>6. QED  BY <1>1, <4>5, InUnits
    <3>2. QED  BY <3>1
  <2>3. IsFiniteSet(Units(h2))
    BY <2>2, FS_Subset
  <2>4. Total(h) = Total(h2) + h[p]
    BY <2>1, <2>3, TotalRaised
  <2>5. Total(h2) \in Nat /\ h[p] \in Nat
    BY <2>3, FS_CardinalityType, TotalIsUnits
  <2>6. QED  BY <2>3, <2>4, <2>5
<1>4. QED  BY <1>2, <1>3

LEMMA NewCounts ==
    ASSUME MonInv, CountInv, status = "on", NEW p \in Ptrs, NEW s \in Sizes,
           NEW w \in Positions \cup {NoPosition}, New(p, s, w)
    PROVE  CountInv'
<1>1. heap[p] = 0 /\ heap' = [heap EXCEPT ![p] = s] /\ Remember(p, s, w)
  BY DEF New
<1>2. Well(table) /\ Recorded(table, heap) /\ heap \in [Ptrs -> Nat]
  BY SizeFacts DEF MonInv
<1>3. Times(ChainOf(table, p), p, FALSE) = 0
  BY <1>1, <1>2 DEF Recorded
<1>4. ~AlreadyRegistered(p, s)
  BY <1>2, <1>3, WellFacts DEF AlreadyRegistered
<1>5. s \in Nat /\ s # NOSIZE
  BY SizeFacts
<1>6. /\ IsCounted(table') /\ nbBuckets' = Cardinality(RecordPlaces(table'))
      /\ overhead' = Overhead(table') /\ totalAlloc' = totalAlloc + s
  BY <1>1, <1>2, <1>4, <1>5, RememberCounts
<1>7. IsFiniteSet(Units(heap)) /\ totalAlloc = Total(heap)
  BY DEF CountInv
<1>8. IsFiniteSet(Units(heap')) /\ Total(heap') = Total(heap) + s
  <2>1. heap' \in [Ptrs -> Nat] /\ heap'[p] = s /\ \A q \in Ptrs \ {p} : heap'[q] = heap[q]
    BY <1>1, <1>2, <1>5
  <2>2. heap[p] = 0
    BY <1>1
  <2>3. QED  BY <1>2, <1>5, <1>7, <2>1, <2>2, HeapCounts
<1>9. QED  BY <1>6, <1>7, <1>8 DEF CountInv

LEMMA RememberPointerCounts ==
    ASSUME MonInv, CountInv, status = "on", NEW p \in Ptrs, NEW w \in Positions,
           RememberPointer(p, w)
    PROVE  CountInv'
<1>1. heap' = heap /\ Remember(p, NOSIZE, w)
  BY DEF RememberPointer
<1>2. Well(table)
  BY DEF MonInv
<1>3. ~AlreadyRegistered(p, NOSIZE)
  BY DEF AlreadyRegistered
<1>4. /\ IsCounted(table') /\ nbBuckets' = Cardinality(RecordPlaces(table'))
      /\ overhead' = Overhead(table') /\ totalAlloc' = totalAlloc
  BY <1>1, <1>2, <1>3, RememberCounts
<1>5. QED  BY <1>1, <1>4 DEF CountInv

(* A forget() that finds nothing *)
LEMMA UnknownCounts ==
    ASSUME NEW p \in Ptrs, NEW nosize, NEW at, NEW own, status = "on",
           Forget(p, nosize, at, own), Places(table, p, nosize) = {}
    PROVE  UNCHANGED <<table, nbBuckets, totalAlloc, overhead>>
<1>1. p # NULL
  BY MonitorAssumption
<1>2. QED  BY <1>1 DEF Forget

LEMMA FreeCounts ==
    ASSUME MonInv, CountInv, status = "on", NEW p \in Ptrs, NEW at, NEW own,
           Forget(p, FALSE, at, own), FreeAfterForget(p)
    PROVE  CountInv'
<1>1. heap' = [heap EXCEPT ![p] = 0]
  BY MonitorAssumption DEF FreeAfterForget
<1>2. Well(table) /\ Recorded(table, heap) /\ heap \in [Ptrs -> Nat]
  BY SizeFacts DEF MonInv
<1>3. IsFiniteSet(Units(heap)) /\ totalAlloc = Total(heap)
  BY DEF CountInv
<1>4. /\ Times(ChainOf(table, p), p, FALSE) = IF heap[p] = 0 THEN 0 ELSE 1
      /\ \A k \in Places(table, p, FALSE) : BucketSize(ChainOf(table, p)[k]) = heap[p]
  BY <1>2, PlacesAreKind DEF Recorded
<1>5. IsFiniteSet(Units(heap')) /\ Total(heap') = Total(heap) - heap[p]
  <2>1. heap' \in [Ptrs -> Nat] /\ heap'[p] = 0 /\ \A q \in Ptrs \ {p} : heap'[q] = heap[q]
    BY <1>1, <1>2
  <2>2. QED  BY <1>2, <1>3, <2>1, HeapCounts
<1>6. CASE Places(table, p, FALSE) = {}
  <2>1. UNCHANGED <<table, nbBuckets, totalAlloc, overhead>>
    BY <1>6, UnknownCounts
  <2>2. Times(ChainOf(table, p), p, FALSE) = 0
    BY <1>2, <1>6, WellFacts
  <2>3. heap[p] = 0
    <3>1. Times(ChainOf(table, p), p, FALSE) = IF heap[p] = 0 THEN 0 ELSE 1
      BY <1>4
    <3>2. 0 # 1
      OBVIOUS
    <3>3. QED  BY <2>2, <3>1, <3>2, Zenon
  <2>4. heap' = heap
    BY <1>1, <1>2, <2>3
  <2>5. QED  BY <2>1, <2>4 DEF CountInv
<1>7. CASE Places(table, p, FALSE) # {}
  <2>1. /\ IsCounted(table') /\ nbBuckets' = Cardinality(RecordPlaces(table'))
        /\ overhead' = Overhead(table')
        /\ \E k \in Places(table, p, FALSE) : totalAlloc' = TotalAfter(ChainOf(table, p)[k])
    BY <1>2, <1>7, ForgetCounts
  <2>2. PICK k \in Places(table, p, FALSE) : totalAlloc' = TotalAfter(ChainOf(table, p)[k])
    BY <2>1
  <2>3. ~OfUser(ChainOf(table, p)[k])
    BY DEF Places
  <2>4. totalAlloc' = totalAlloc - heap[p]
    BY <1>4, <2>2, <2>3 DEF TotalAfter
  <2>5. QED  BY <1>3, <1>5, <2>1, <2>4 DEF CountInv
<1>8. QED  BY <1>6, <1>7

LEMMA UnmarkCounts ==
    ASSUME MonInv, CountInv, status = "on", NEW p \in Ptrs, NEW at, NEW own,
           Forget(p, TRUE, at, own), heap' = heap
    PROVE  CountInv'
<1>1. Well(table)
  BY DEF MonInv
<1>2. CASE Places(table, p, TRUE) = {}
  <2>1. UNCHANGED <<table, nbBuckets, totalAlloc, overhead>>
    BY <1>2, UnknownCounts
  <2>2. QED  BY <2>1 DEF CountInv
<1>3. CASE Places(table, p, TRUE) # {}
  <2>1. /\ IsCounted(table') /\ nbBuckets' = Cardinality(RecordPlaces(table'))
        /\ overhead' = Overhead(table')
        /\ \E k \in Places(table, p, TRUE) : totalAlloc' = TotalAfter(ChainOf(table, p)[k])
    BY <1>1, <1>3, ForgetCounts
  <2>2. \A k \in Places(table, p, TRUE) : OfUser(ChainOf(table, p)[k])
    BY DEF Places
  <2>3. totalAlloc' = totalAlloc
    BY <2>1, <2>2 DEF TotalAfter
  <2>4. QED  BY <2>1, <2>3 DEF CountInv
<1>4. QED  BY <1>2, <1>3

LEMMA InitCounts == Init => CountInv
<1> SUFFICES ASSUME Init PROVE CountInv
  OBVIOUS
<1>1. InitSize \in Nat \ {0} /\ table = [i \in 0 .. InitSize - 1 |-> <<>>]
  BY MonitorAssumption DEF Init
<1>2. table \in Tables(InitSize)
  BY <1>1 DEF Tables
<1>3. TableSize(table) = InitSize
  BY <1>1, <1>2, TableFacts
<1>4. RecordPlaces(table) = {}
  BY <1>1 DEF RecordPlaces
<1>5. Units(Weights(table)) = {}
  BY <1>4 DEF Units, Weights
<1>6. Units(heap) = {}
  <2>1. heap = [p \in Ptrs |-> 0]
    BY DEF Init
  <2>2. \A p \in Ptrs : 1 .. heap[p] = {}
    BY <2>1
  <2>3. QED  BY <2>1, <2>2 DEF Units
<1>7. IsFiniteSet({}) /\ Cardinality({}) = 0
  BY FS_EmptySet
<1>8. nbBuckets = 0 /\ totalAlloc = 0 /\ overhead = InitSize * SlotBytes + SelfBytes
  BY DEF Init
<1>9. Total(heap) = 0 /\ Total(Weights(table)) = 0
  BY <1>5, <1>6, <1>7, TotalIsUnits
<1>10. overhead = Overhead(table)
  <2>1. InitSize \in Nat /\ SlotBytes \in Nat /\ SelfBytes \in Nat
    BY MonitorAssumption
  <2>2. Overhead(table) = 0 + SlotBytes * InitSize + SelfBytes
    BY <1>3, <1>9 DEF Overhead
  <2>3. QED  BY <1>8, <2>1, <2>2
<1>11. QED  BY <1>4, <1>5, <1>6, <1>7, <1>8, <1>9, <1>10 DEF CountInv, IsCounted

LEMMA NextCounts ==
    ASSUME MonInv, status = "on" => CountInv, [Next]_vars
    PROVE  status' = "on" => CountInv'
<1>1. CASE UNCHANGED vars
  BY <1>1 DEF vars, CountInv
<1>2. CASE Next /\ status = "off"
  BY <1>2, OffEffect
<1>3. CASE Next /\ status = "on"
  <2>1. SUFFICES ASSUME status' = "on" PROVE CountInv'
    OBVIOUS
  <2>2. CountInv
    BY <1>3
  <2>3. CASE Quiet
    BY <2>1, <2>2, <2>3 DEF Quiet, CountInv
  <2>4. QED
    BY <1>3, <2>2, <2>3, OnStep, NewCounts, RememberPointerCounts, FreeCounts, UnmarkCounts
<1>4. status \in {"on", "off", "crashed"} /\ (status # "crashed" \/ UNCHANGED vars)
  BY DEF Next, MonInv
<1>5. QED  BY <1>1, <1>2, <1>3, <1>4

(* The counters, which are only ever changed by differences, agree with    *)
(* what there is, however often the table was rehashed, could not be, or   *)
(* a call of malloc or of forget() failed.                                 *)
THEOREM CountersAreExactHolds == Spec => []CountersAreExact
<1> DEFINE Counted == status = "on" => CountInv
<1>1. Init => Counted
  BY InitCounts
<1>2. MonInv /\ Counted /\ [Next]_vars => Counted'
  BY NextCounts
<1>3. Counted => CountersAreExact
  BY DEF CountInv, CountersAreExact, Overhead, Weights
<1> HIDE DEF Counted
<1>4. QED  BY <1>1, <1>2, <1>3, MonInvHolds, PTL DEF Spec

-----------------------------------------------------------------------------
(* The report at the end *)

Leak == [size : Int, where : Positions \cup {NoPosition}, nb : Nat]

(* How many leaks of size s each line of a report counts *)
LinesOf(l, s) == [k \in DOMAIN l |-> IF l[k].size = s THEN l[k].nb ELSE 0]

DistinctLines(l) ==
    \A j, k \in DOMAIN l : j # k => <<l[j].size, l[j].where>> # <<l[k].size, l[k].where>>

LEMMA LinesType ==
    ASSUME NEW l \in Seq(Leak), NEW s
    PROVE  /\ DOMAIN l = 1 .. Len(l) /\ Len(l) \in Nat
           /\ LinesOf(l, s) \in [1 .. Len(l) -> Nat]
           /\ IsFiniteSet(1 .. Len(l))
           /\ IsFiniteSet(Units(LinesOf(l, s))) /\ SumOf(LinesOf(l, s)) \in Nat
<1>1. DOMAIN l = 1 .. Len(l) /\ Len(l) \in Nat /\ \A k \in 1 .. Len(l) : l[k].nb \in Nat
  <2>1. DOMAIN l = 1 .. Len(l) /\ Len(l) \in Nat /\ \A k \in 1 .. Len(l) : l[k] \in Leak
    OBVIOUS
  <2>2. QED  BY <2>1 DEF Leak
<1>2. LinesOf(l, s) \in [1 .. Len(l) -> Nat]
  BY <1>1 DEF LinesOf
<1>3. IsFiniteSet(1 .. Len(l))
  BY <1>1, FS_Interval
<1>4. IsFiniteSet(Units(LinesOf(l, s))) /\ SumOf(LinesOf(l, s)) \in Nat
  <2> DEFINE D == 1 .. Len(l)
             f == LinesOf(l, s)
  <2>1. IsFiniteSet(D) /\ f \in [D -> Nat]
    BY <1>2, <1>3
  <2> HIDE DEF D, f
  <2>2. IsFiniteSet(Units(f)) /\ SumOf(f) \in Nat
    BY <2>1, UnitsFinite
  <2>3. QED  BY <2>2 DEF f
<1>5. QED  BY <1>1, <1>2, <1>3, <1>4

(* A line in front of the others *)
LEMMA LineLinked ==
    ASSUME NEW l \in Seq(Leak), NEW e \in Leak, NEW s
    PROVE  LET m == <<e>> \o l
           IN  /\ m \in Seq(Leak)
               /\ SumOf(LinesOf(m, s)) = SumOf(LinesOf(l, s)) + (IF e.size = s THEN e.nb ELSE 0)
<1> DEFINE m == <<e>> \o l
           n == Len(l)
           f == LinesOf(l, s)
           g == LinesOf(m, s)
           E == 2 .. n + 1
           rest == [k \in E |-> g[k]]
           h == [k \in 1 .. n |-> k + 1]
<1>1. n \in Nat /\ DOMAIN l = 1 .. n /\ f \in [1 .. n -> Nat]
  BY LinesType
<1>2. /\ m \in Seq(Leak) /\ Len(m) = n + 1
      /\ m[1] = e /\ \A k \in 1 .. n : m[k + 1] = l[k]
  BY <1>1
<1>3. g \in [1 .. n + 1 -> Nat] /\ DOMAIN m = 1 .. n + 1
  <2> HIDE DEF m
  <2>1. QED  BY <1>2, LinesType
<1>4. /\ g[1] = (IF e.size = s THEN e.nb ELSE 0)
      /\ \A k \in 1 .. n : g[k + 1] = f[k]
  <2>1. 1 \in 1 .. n + 1 /\ \A k \in 1 .. n : k + 1 \in 1 .. n + 1
    BY <1>1
  <2> HIDE DEF m, n
  <2>2. QED  BY <1>1, <1>2, <1>3, <2>1 DEF LinesOf
<1> HIDE DEF f, g, m, n
<1>5. IsFiniteSet(E)
  BY <1>1, FS_Interval
<1>6. /\ \A k \in E : k \in 1 .. n + 1 /\ k - 1 \in 1 .. n /\ (k - 1) + 1 = k
      /\ \A k \in 1 .. n : k + 1 \in E
      /\ 1 \notin E /\ 1 .. n + 1 = E \cup {1}
  BY <1>1
<1>7. rest \in [E -> Nat] /\ \A k \in E : g[k] = rest[k]
  BY <1>3, <1>6
<1>8. h \in [1 .. n -> E] /\ \A k \in 1 .. n : h[k] = k + 1
  BY <1>6
<1>9. h \in Bijection(1 .. n, E)
  <2> HIDE DEF h
  <2>1. \A j, k \in 1 .. n : h[j] = h[k] => j = k
    BY <1>1, <1>8
  <2>2. \A k \in E : \E j \in 1 .. n : h[j] = k
    BY <1>6, <1>8
  <2> HIDE DEF E
  <2>3. QED  BY <1>8, <2>1, <2>2 DEF Bijection, Injection, Surjection, IsInjective
<1>10. \A k \in 1 .. n : f[k] = rest[h[k]]
  BY <1>4, <1>6, <1>7, <1>8
<1> HIDE DEF h, rest, E
<1>11. IsFiniteSet(Units(rest))
  BY <1>5, <1>7, UnitsFinite
<1>12. SumOf(f) = SumOf(rest)
  <2>1. DOMAIN f = 1 .. n /\ DOMAIN rest = E
    BY <1>1, <1>7
  <2>2. Total(f) = Total(rest)
    <3>1. /\ h \in Bijection(DOMAIN f, DOMAIN rest)
          /\ \A k \in DOMAIN f : f[k] = rest[h[k]]
          /\ IsFiniteSet(DOMAIN rest)
      BY <1>5, <1>9, <1>10, <2>1
    <3>2. QED  BY <1>11, <3>1, TotalRenamed
  <2>3. QED  BY <2>2, TotalIsUnits DEF SumOf
<1>13. SumOf(g) = SumOf(rest) + g[1]
  <2>1. AddsOne(E, rest, g, 1)
    BY <1>3, <1>5, <1>6, <1>7 DEF AddsOne
  <2>2. QED  BY <2>1, SumWithOne
<1>14. QED  BY <1>2, <1>4, <1>12, <1>13 DEF m, f, g

(* addLeak() leaves a report. *)
LEMMA AddLeakType ==
    ASSUME NEW l \in Seq(Leak), NEW r \in Record, BucketSize(r) \in Int
    PROVE  AddLeak(l, r) \in Seq(Leak)
<1> DEFINE same == {k \in DOMAIN l : l[k].size = BucketSize(r) /\ l[k].where = r.pos}
           k == Min(same)
<1>1. DOMAIN l = 1 .. Len(l) /\ Len(l) \in Nat
  BY LinesType
<1>2. CASE same = {}
  <2> DEFINE e == [size |-> BucketSize(r), where |-> r.pos, nb |-> 1]
  <2>1. AddLeak(l, r) = <<e>> \o l
    BY <1>2 DEF AddLeak
  <2>2. e \in Leak
    BY DEF Leak, Record
  <2> HIDE DEF e
  <2>3. QED  BY <2>1, <2>2
<1>3. CASE same # {}
  <2>1. k \in same
    <3> DEFINE T == same
    <3>1. T \subseteq Nat /\ T # {}
      BY <1>1, <1>3
    <3> HIDE DEF same
    <3>2. \E x \in T : \A y \in T : x <= y
      <4> HIDE DEF T
      <4>1. QED  BY <3>1, LeastNat
    <3>3. QED  BY <3>2 DEF Min
  <2> DEFINE e == [l[k] EXCEPT !.nb = @ + 1]
  <2>2. AddLeak(l, r) = [l EXCEPT ![k] = e]
    BY <1>3 DEF AddLeak
  <2> HIDE DEF k
  <2>3. k \in 1 .. Len(l) /\ l[k] \in Leak
    BY <1>1, <2>1
  <2>4. e \in Leak
    <3> DEFINE x == l[k]
    <3>1. x \in Leak /\ e = [x EXCEPT !.nb = @ + 1]
      BY <2>3
    <3> HIDE DEF x, e
    <3>2. x.nb + 1 \in Nat
      BY <3>1 DEF Leak
    <3>3. QED  BY <3>1, <3>2 DEF Leak
  <2> HIDE DEF e
  <2>5. QED  BY <2>2, <2>3, <2>4, ExceptSeq
<1>4. QED  BY <1>2, <1>3

(* What addLeak() makes of a report *)
LEMMA LeakCounted ==
    ASSUME NEW l \in Seq(Leak), DistinctLines(l), NEW r \in Record, BucketSize(r) \in Int
    PROVE  LET m == AddLeak(l, r)
           IN  /\ m \in Seq(Leak) /\ DistinctLines(m)
               /\ \A s : SumOf(LinesOf(m, s))
                           = SumOf(LinesOf(l, s)) + (IF BucketSize(r) = s THEN 1 ELSE 0)
<1> DEFINE m == AddLeak(l, r)
           b == BucketSize(r)
           n == Len(l)
           same == {k \in DOMAIN l : l[k].size = b /\ l[k].where = r.pos}
<1>1. n \in Nat /\ DOMAIN l = 1 .. n /\ \A k \in 1 .. n : l[k] \in Leak
  BY LinesType
<1>2. CASE same = {}
  <2> DEFINE e == [size |-> b, where |-> r.pos, nb |-> 1]
  <2>1. m = <<e>> \o l
    BY <1>2 DEF AddLeak
  <2>2. e \in Leak /\ e.size = b /\ e.where = r.pos /\ e.nb = 1
    BY DEF Leak, Record
  <2> HIDE DEF e, m
  <2>3. /\ m \in Seq(Leak)
        /\ \A s : SumOf(LinesOf(m, s)) = SumOf(LinesOf(l, s)) + (IF e.size = s THEN e.nb ELSE 0)
    BY <2>1, <2>2, LineLinked
  <2>4. \A k \in DOMAIN m : 
          /\ k \in Int
          /\ (k = 1 /\ m[k] = e) \/ (k - 1 \in 1 .. n /\ m[k] = l[k - 1])
    BY <1>1, <2>1, <2>2
  <2>5. \A k \in 1 .. n : ~(l[k].size = e.size /\ l[k].where = e.where)
    BY <1>1, <1>2, <2>2
  <2>6. ASSUME NEW j \in DOMAIN m, NEW k \in DOMAIN m, j # k,
               m[j].size = m[k].size, m[j].where = m[k].where
        PROVE  FALSE
    <3>1. CASE j = 1
      BY <2>4, <2>5, <2>6, <3>1
    <3>2. CASE k = 1
      BY <2>4, <2>5, <2>6, <3>2
    <3>3. CASE j # 1 /\ k # 1
      <4>1. /\ j - 1 \in DOMAIN l /\ k - 1 \in DOMAIN l /\ j - 1 # k - 1
            /\ m[j] = l[j - 1] /\ m[k] = l[k - 1]
        BY <1>1, <2>4, <2>6, <3>3
      <4>2. QED  BY <2>6, <4>1 DEF DistinctLines
    <3>4. QED  BY <3>1, <3>2, <3>3
  <2>7. DistinctLines(m)
    BY <2>6 DEF DistinctLines
  <2>8. QED  BY <2>2, <2>3, <2>7 DEF m
<1>3. CASE same # {}
  <2> DEFINE k == Min(same)
  <2>1. k \in same
    <3> DEFINE T == same
    <3>1. T \subseteq Nat /\ T # {}
      BY <1>1, <1>3
    <3> HIDE DEF same
    <3>2. \E x \in T : \A y \in T : x <= y
      <4> HIDE DEF T
      <4>1. QED  BY <3>1, LeastNat
    <3>3. QED  BY <3>2 DEF Min
  <2> HIDE DEF k
  <2>2. k \in 1 .. n /\ l[k].size = b /\ l[k].where = r.pos
    BY <1>1, <2>1
  <2> DEFINE e == [l[k] EXCEPT !.nb = @ + 1]
  <2>3. m = [l EXCEPT ![k] = e]
    BY <1>3 DEF AddLeak, k
  <2>4. e \in Leak /\ e.size = b /\ e.where = r.pos /\ e.nb = l[k].nb + 1 /\ l[k].nb \in Nat
    BY <1>1, <2>2 DEF Leak
  <2> HIDE DEF e, m, same
  <2>5. /\ m \in Seq(Leak) /\ DOMAIN m = 1 .. n /\ Len(m) = n
        /\ m[k] = e /\ \A j \in 1 .. n : j # k => m[j] = l[j]
    <3>1. m \in Seq(Leak) /\ Len(m) = n
      BY <2>2, <2>3, <2>4, ExceptSeq
    <3>2. QED  BY <1>1, <2>2, <2>3, <3>1
  <2>6. \A j \in 1 .. n : m[j].size = l[j].size /\ m[j].where = l[j].where
    BY <2>2, <2>4, <2>5
  <2>7. DistinctLines(m)
    BY <1>1, <2>5, <2>6 DEF DistinctLines
  <2>8. ASSUME NEW s
        PROVE  SumOf(LinesOf(m, s)) = SumOf(LinesOf(l, s)) + (IF b = s THEN 1 ELSE 0)
    <3> DEFINE D == 1 .. n
               f == LinesOf(l, s)
               g == LinesOf(m, s)
    <3>1. /\ f \in [D -> Nat] /\ g \in [D -> Nat] /\ IsFiniteSet(D)
          /\ SumOf(f) \in Nat /\ SumOf(g) \in Nat
      BY <2>5, LinesType
    <3>2. \A j \in D : j # k => g[j] = f[j]
      BY <1>1, <2>5 DEF LinesOf
    <3>3. g[k] = f[k] + (IF b = s THEN 1 ELSE 0) /\ f[k] \in Nat
      BY <1>1, <2>2, <2>4, <2>5 DEF LinesOf
    <3>4. k \in D
      BY <2>2
    <3> HIDE DEF D, f, g
    <3>5. OneChanges(D, f, g, k)
      BY <3>1, <3>2, <3>4 DEF OneChanges
    <3>6. SumOf(g) + f[k] = SumOf(f) + g[k]
      BY <3>1, <3>5, SumChanged
    <3>7. SumOf(g) = SumOf(f) + (IF b = s THEN 1 ELSE 0)
      BY <3>1, <3>3, <3>6
    <3>8. QED  BY <3>7 DEF f, g
  <2>9. QED  BY <2>5, <2>7, <2>8 DEF m
<1>4. QED  BY <1>2, <1>3

(* After k records the report counts those. *)
CountsFirst(l, records, k) ==
    /\ DistinctLines(l)
    /\ \A s : /\ IsFiniteSet({j \in 1 .. k : BucketSize(records[j]) = s})
              /\ SumOf(LinesOf(l, s)) = Cardinality({j \in 1 .. k : BucketSize(records[j]) = s})

LEMMA BucketSizeType ==
    ASSUME NEW r \in Record
    PROVE  BucketSize(r) \in Int
<1>1. r.size \in Int /\ ExtensionBit \in Int
  BY SizeFacts DEF Record
<1>2. QED  BY <1>1 DEF BucketSize

LEMMA LeakCountedNext ==
    ASSUME NEW n \in Nat, NEW records \in [1 .. n -> Record], NEW k \in 1 .. n,
           NEW l \in Seq(Leak), CountsFirst(l, records, k - 1)
    PROVE  CountsFirst(AddLeak(l, records[k]), records, k)
<1> DEFINE r == records[k]
           m == AddLeak(l, r)
           First(s, i) == {j \in 1 .. i : BucketSize(records[j]) = s}
<1>1. r \in Record /\ BucketSize(r) \in Int
  BY BucketSizeType
<1>2. /\ m \in Seq(Leak) /\ DistinctLines(m)
      /\ \A s : SumOf(LinesOf(m, s)) = SumOf(LinesOf(l, s)) + (IF BucketSize(r) = s THEN 1 ELSE 0)
  BY <1>1, LeakCounted DEF CountsFirst
<1>3. ASSUME NEW s
      PROVE  /\ IsFiniteSet(First(s, k))
             /\ SumOf(LinesOf(m, s)) = Cardinality(First(s, k))
  <2>1. /\ IsFiniteSet(First(s, k - 1))
        /\ SumOf(LinesOf(l, s)) = Cardinality(First(s, k - 1))
    BY DEF CountsFirst
  <2>2. 1 .. k = (1 .. k - 1) \cup {k} /\ k \notin 1 .. k - 1
    OBVIOUS
  <2>3. CASE BucketSize(r) = s
    <3>1. First(s, k) = First(s, k - 1) \cup {k} /\ k \notin First(s, k - 1)
      BY <2>2, <2>3
    <3> HIDE DEF First
    <3>2. /\ IsFiniteSet(First(s, k))
          /\ Cardinality(First(s, k)) = Cardinality(First(s, k - 1)) + 1
      BY <2>1, <3>1, FS_AddElement
    <3>3. QED  BY <1>2, <2>1, <2>3, <3>2
  <2>4. CASE BucketSize(r) # s
    <3>1. First(s, k) = First(s, k - 1)
      BY <2>2, <2>4
    <3> HIDE DEF First
    <3>2. Cardinality(First(s, k - 1)) \in Nat
      BY <2>1, FS_CardinalityType
    <3>3. QED  BY <1>2, <2>1, <2>4, <3>1, <3>2
  <2>5. QED  BY <2>3, <2>4
<1>4. QED  BY <1>2, <1>3 DEF CountsFirst

(* Adding all records, one after the other *)
LEMMA LeaksByLoop ==
    ASSUME NEW n \in Nat, NEW records \in [1 .. n -> Record],
           NEW g, g \in [0 .. n -> Seq(Leak)], g[0] = <<>>,
           \A k \in 1 .. n : g[k] = AddLeak(g[k - 1], records[k])
    PROVE  g[n] \in Seq(Leak) /\ CountsFirst(g[n], records, n)
<1> DEFINE K == {k \in 0 .. n : CountsFirst(g[k], records, k)}
<1>1. 0 \in K
  <2>1. DistinctLines(g[0])
    BY DEF DistinctLines
  <2>2. ASSUME NEW s
        PROVE  /\ IsFiniteSet({j \in 1 .. 0 : BucketSize(records[j]) = s})
               /\ SumOf(LinesOf(g[0], s)) = Cardinality({j \in 1 .. 0 : BucketSize(records[j]) = s})
    <3>1. {j \in 1 .. 0 : BucketSize(records[j]) = s} = {}
      OBVIOUS
    <3>2. LinesOf(g[0], s) \in [{} -> Nat]
      BY DEF LinesOf
    <3>3. SumOf(LinesOf(g[0], s)) = 0
      BY <3>2, SumOfNothing
    <3>4. QED  BY <3>1, <3>3, FS_EmptySet
  <2>3. CountsFirst(g[0], records, 0)
    BY <2>1, <2>2 DEF CountsFirst
  <2>4. QED  BY <2>3
<1>2. ASSUME NEW k \in 1 .. n, k - 1 \in K PROVE k \in K
  <2>1. k - 1 \in 0 .. n /\ g[k - 1] \in Seq(Leak) /\ CountsFirst(g[k - 1], records, k - 1)
    BY <1>2
  <2>2. CountsFirst(AddLeak(g[k - 1], records[k]), records, k)
    BY <2>1, LeakCountedNext
  <2>3. QED  BY <2>2
<1>3. n \in 0 .. n
  OBVIOUS
<1>4. n \in K
  <2> HIDE DEF K
  <2>1. QED  BY <1>1, <1>2, <1>3, UpTo
<1>5. QED  BY <1>3, <1>4

(* The report on a sequence of records *)
LEMMA LeaksFolded ==
    ASSUME NEW n \in Nat, NEW records \in Seq(Record), Len(records) = n
    PROVE  LET l == FoldLeft(AddLeak, <<>>, records)
           IN  l \in Seq(Leak) /\ CountsFirst(l, records, n)
<1> DEFINE D == DOMAIN records
           S == Seq(Leak)
           P == SUBSET (1 .. n)
           Left(F) == [s \in SUBSET D |-> IF s = {} THEN <<>>
                                          ELSE AddLeak(F[s \ {Max(s)}], records[Max(s)])]
           Body(F) == [s \in P |-> IF s = {} THEN <<>>
                                   ELSE AddLeak(F[s \ {Max(s)}], records[Max(s)])]
           it == CHOOSE F : F = Body(F)
           step == [k \in 1 .. n |-> [l \in S |-> AddLeak(l, records[k])]]
<1>1. FoldLeft(AddLeak, <<>>, records) = (CHOOSE F : F = Left(F))[D]
  BY Zenon DEF FoldLeft, MapThenFoldSet
<1>2. D = 1 .. n /\ records \in [1 .. n -> Record]
  BY LenProperties
<1>3. FoldLeft(AddLeak, <<>>, records) = it[1 .. n]
  BY <1>1, <1>2
<1>4. ASSUME NEW k \in 1 .. n, NEW l \in S PROVE AddLeak(l, records[k]) \in S
  BY <1>2, BucketSizeType, AddLeakType
<1>5. /\ step \in [1 .. n -> [S -> S]] /\ <<>> \in S
      /\ \A k \in 1 .. n : \A l \in S : step[k][l] = AddLeak(l, records[k])
  <2> HIDE DEF S
  <2>1. /\ step \in [1 .. n -> [S -> S]]
        /\ \A k \in 1 .. n : \A l \in S : step[k][l] = AddLeak(l, records[k])
    BY <1>4
  <2>2. <<>> \in S
    BY DEF S
  <2>3. QED  BY <2>1, <2>2
<1> HIDE DEF step, S
<1>6. PICK w \in [P -> S] : IsFold(w, n, <<>>, step)
  BY <1>5, FoldExists
<1>7. w = Body(w)
  <2>1. ASSUME NEW s \in P
        PROVE  (IF s = {} THEN <<>> ELSE step[Max(s)][w[s \ {Max(s)}]])
                 = (IF s = {} THEN <<>> ELSE AddLeak(w[s \ {Max(s)}], records[Max(s)]))
    <3>1. CASE s = {}
      BY <3>1
    <3>2. CASE s # {}
      <4>1. Max(s) \in s
        BY <3>2, MaxIs
      <4>2. Max(s) \in 1 .. n /\ s \ {Max(s)} \in P
        BY <4>1
      <4>3. w[s \ {Max(s)}] \in S
        BY <4>2
      <4>4. QED  BY <1>5, <3>2, <4>2, <4>3
    <3>3. QED  BY <3>1, <3>2
  <2>2. w = [s \in P |-> IF s = {} THEN <<>> ELSE step[Max(s)][w[s \ {Max(s)}]]]
    BY <1>6, Zenon DEF IsFold
  <2>3. QED  BY <2>1, <2>2, Zenon
<1>8. it = Body(it)
  <2> HIDE DEF Body
  <2>1. \E F : F = Body(F)
    BY <1>7
  <2>2. QED  BY <2>1, Zenon
<1>9. ASSUME NEW s \in P
      PROVE  it[s] = IF s = {} THEN <<>> ELSE AddLeak(it[s \ {Max(s)}], records[Max(s)])
  <2> HIDE DEF it
  <2>1. Body(it)[s] = IF s = {} THEN <<>> ELSE AddLeak(it[s \ {Max(s)}], records[Max(s)])
    BY Zenon
  <2>2. QED  BY <1>8, <2>1, Zenon
<1> HIDE DEF it, Body
<1>10. it[{}] = <<>>
  <2>1. {} \in P
    OBVIOUS
  <2>2. QED  BY <1>9, <2>1
<1>11. \A k \in 1 .. n : it[1 .. k - 1] \in S => it[1 .. k] = step[k][it[1 .. k - 1]]
  <2>1. SUFFICES ASSUME NEW k \in 1 .. n, it[1 .. k - 1] \in S
                 PROVE  it[1 .. k] = step[k][it[1 .. k - 1]]
    OBVIOUS
  <2>2. 1 .. k \in P
    <3>1. \A j \in 1 .. k : j \in 1 .. n
      OBVIOUS
    <3>2. QED  BY <3>1
  <2>3. 1 .. k # {} /\ Max(1 .. k) = k /\ (1 .. k) \ {k} = 1 .. k - 1
    <3>1. k \in Nat \ {0}
      OBVIOUS
    <3>2. QED  BY <3>1, LastTaken
  <2>4. it[1 .. k] = AddLeak(it[1 .. k - 1], records[k])
    BY <1>9, <2>2, <2>3
  <2>5. QED  BY <1>5, <2>1, <2>4
<1>12. PICK g : IsLoop(n, S, <<>>, step, g)
  BY <1>5, Iteration
<1>13. it[1 .. n] = g[n]
  <2>1. FoldsAs(it, n, S, <<>>, step)
    BY <1>10, <1>11 DEF FoldsAs
  <2>2. QED  BY <1>12, <2>1, FoldIsLoop
<1>14. /\ g \in [0 .. n -> S] /\ g[0] = <<>>
       /\ \A k \in 1 .. n : g[k] = AddLeak(g[k - 1], records[k])
  <2>1. g \in [0 .. n -> S] /\ g[0] = <<>> /\ \A k \in 1 .. n : g[k] = step[k][g[k - 1]]
    BY <1>12 DEF IsLoop
  <2>2. \A k \in 1 .. n : k - 1 \in 0 .. n
    OBVIOUS
  <2>3. QED  BY <1>5, <2>1, <2>2
<1>15. g[n] \in Seq(Leak) /\ CountsFirst(g[n], records, n)
  BY <1>2, <1>14, LeaksByLoop DEF S
<1>16. QED  BY <1>3, <1>13, <1>15

RecordsIn(t) == FlattenSeq([i \in 1 .. TableSize(t) |-> t[i - 1]])

(* The records of a table, flattened: each comes from a place on the chain *)
(* of its hash, and each place gives one record.                           *)
LEMMA RecordsPlaced ==
    ASSUME NEW n \in Nat \ {0}, NEW t \in Tables(n)
    PROVE  /\ RecordsIn(t) \in Seq(Record)
           /\ \E h : /\ \A j \in 1 .. Len(RecordsIn(t)) :
                           LET r == RecordsIn(t)[j]
                           IN  /\ r \in Record
                               /\ h[j] \in DOMAIN ChainOf(t, r.ptr)
                               /\ ChainOf(t, r.ptr)[h[j]] = r
                     /\ \A j, l \in 1 .. Len(RecordsIn(t)) :
                           RecordsIn(t)[j].ptr = RecordsIn(t)[l].ptr /\ h[j] = h[l] => j = l
                     /\ \A p \in Ptrs : \A k \in DOMAIN ChainOf(t, p) :
                           \E j \in 1 .. Len(RecordsIn(t)) : RecordsIn(t)[j] = ChainOf(t, p)[k]
<1> DEFINE seqs == [i \in 1 .. n |-> t[i - 1]]
           R == RecordsIn(t)
           N == Len(R)
<1>1. /\ TableSize(t) = n
      /\ \A p \in Ptrs : /\ Home[p] % n \in 0 .. n - 1
                         /\ ChainOf(t, p) = t[Home[p] % n]
                         /\ ChainOf(t, p) \in Seq(Record)
  BY TableFacts
<1>2. /\ \A i \in 0 .. n - 1 : t[i] \in Seq(Record)
      /\ \A i \in 0 .. n - 1 : \A k \in DOMAIN t[i] : Home[t[i][k].ptr] % n = i
  BY DEF Tables
<1>3. \A i \in 1 .. n : i - 1 \in 0 .. n - 1 /\ seqs[i] = t[i - 1] /\ seqs[i] \in Seq(Record)
  BY <1>2
<1>4. seqs \in [1 .. n -> Seq(Record)] /\ R = FlattenSeq(seqs)
  BY <1>1, <1>3 DEF RecordsIn
<1> HIDE DEF seqs, R
<1>5. R \in Seq(Record) /\ \E g : IsPlacing(g, R, seqs, n)
  BY <1>4, FlattenedPlaces
<1>6. PICK g : IsPlacing(g, R, seqs, n)
  BY <1>5
<1> DEFINE h == [j \in 1 .. N |-> g[j][2]]
<1>7. N \in Nat /\ \A j \in 1 .. N : R[j] \in Record /\ R[j].ptr \in Ptrs
  <2>1. N \in Nat /\ \A j \in 1 .. N : R[j] \in Record
    BY <1>5
  <2>2. QED  BY <2>1 DEF Record
<1>8. ASSUME NEW j \in 1 .. N
      PROVE  /\ g[j] = <<(Home[R[j].ptr] % n) + 1, h[j]>>
             /\ h[j] \in DOMAIN ChainOf(t, R[j].ptr)
             /\ ChainOf(t, R[j].ptr)[h[j]] = R[j]
  <2> DEFINE i == g[j][1]
             k == g[j][2]
  <2>1. g[j] = <<i, k>> /\ i \in 1 .. n /\ k \in 1 .. Len(seqs[i]) /\ R[j] = seqs[i][k]
    BY <1>6 DEF IsPlacing
  <2>2. h[j] = k
    OBVIOUS
  <2> HIDE DEF i, k, h
  <2>3. i - 1 \in 0 .. n - 1 /\ t[i - 1] \in Seq(Record) /\ seqs[i] = t[i - 1]
    BY <1>3, <2>1
  <2>4. k \in DOMAIN t[i - 1] /\ R[j] = t[i - 1][k]
    BY <2>1, <2>3, LenProperties
  <2>5. Home[R[j].ptr] % n = i - 1
    BY <1>2, <2>3, <2>4
  <2>6. ChainOf(t, R[j].ptr) = t[i - 1]
    BY <1>1, <1>7, <2>5
  <2>7. i = (Home[R[j].ptr] % n) + 1
    BY <2>1, <2>5
  <2>8. QED  BY <2>1, <2>2, <2>4, <2>6, <2>7
<1> HIDE DEF h, N
<1>9. ASSUME NEW j \in 1 .. N, NEW l \in 1 .. N, R[j].ptr = R[l].ptr, h[j] = h[l]
      PROVE  j = l
  <2>1. g[j] = g[l]
    BY <1>8, <1>9
  <2>2. QED  BY <1>6, <2>1 DEF IsPlacing, N
<1>10. ASSUME NEW p \in Ptrs, NEW k \in DOMAIN ChainOf(t, p)
       PROVE  \E j \in 1 .. N : R[j] = ChainOf(t, p)[k]
  <2> DEFINE i == (Home[p] % n) + 1
  <2>1. i \in 1 .. n /\ seqs[i] = ChainOf(t, p)
    <3>1. i - 1 = Home[p] % n /\ Home[p] % n \in 0 .. n - 1 /\ i \in 1 .. n
      BY <1>1
    <3>2. QED  BY <1>1, <1>3, <3>1
  <2> HIDE DEF i
  <2>2. k \in 1 .. Len(seqs[i])
    BY <1>3, <2>1, LenProperties
  <2>3. PICK j \in 1 .. N : g[j] = <<i, k>>
    BY <1>6, <2>1, <2>2 DEF IsPlacing, N
  <2>4. R[j] = seqs[g[j][1]][g[j][2]]
    BY <1>6 DEF IsPlacing, N
  <2>5. R[j] = ChainOf(t, p)[k]
    BY <2>1, <2>3, <2>4
  <2>6. QED  BY <2>5
<1>11. QED  BY <1>5, <1>7, <1>8, <1>9, <1>10 DEF R, N

(* As many records of size s as pointers of that size *)
LEMMA RecordsAreHeap ==
    ASSUME NEW n \in Nat \ {0}, NEW t \in Tables(n), NEW hp \in [Ptrs -> Sizes \cup {0}],
           Recorded(t, hp), NEW s \in Sizes
    PROVE  LET R == RecordsIn(t)
               J == {j \in 1 .. Len(R) : BucketSize(R[j]) = s}
           IN  IsFiniteSet(J) => Cardinality(J) = Cardinality({p \in Ptrs : hp[p] = s})
<1> DEFINE R == RecordsIn(t)
           J == {j \in 1 .. Len(R) : BucketSize(R[j]) = s}
           Q == {p \in Ptrs : hp[p] = s}
           b == [j \in J |-> R[j].ptr]
<1>1. PICK h : /\ \A j \in 1 .. Len(R) : /\ R[j] \in Record
                                         /\ h[j] \in DOMAIN ChainOf(t, R[j].ptr)
                                         /\ ChainOf(t, R[j].ptr)[h[j]] = R[j]
               /\ \A j, l \in 1 .. Len(R) : R[j].ptr = R[l].ptr /\ h[j] = h[l] => j = l
               /\ \A p \in Ptrs : \A k \in DOMAIN ChainOf(t, p) :
                     \E j \in 1 .. Len(R) : R[j] = ChainOf(t, p)[k]
  BY RecordsPlaced
<1> HIDE DEF R
<1>2. s \in Nat /\ s # 0 /\ s # NOSIZE
  BY SizeFacts
<1>3. \A p \in Ptrs :
        /\ Times(ChainOf(t, p), p, FALSE) = IF hp[p] = 0 THEN 0 ELSE 1
        /\ \A k \in Kind(ChainOf(t, p), p, FALSE) : BucketSize(ChainOf(t, p)[k]) = hp[p]
        /\ IsFiniteSet(Kind(ChainOf(t, p), p, FALSE))
  BY TableFacts, KindFinite DEF Recorded
<1>4. ASSUME NEW j \in J
      PROVE  /\ b[j] = R[j].ptr /\ R[j].ptr \in Ptrs
             /\ h[j] \in Kind(ChainOf(t, R[j].ptr), R[j].ptr, FALSE)
             /\ hp[R[j].ptr] = s
  <2> DEFINE p == R[j].ptr
             c == ChainOf(t, p)
  <2>1. p \in Ptrs /\ h[j] \in DOMAIN c /\ c[h[j]] = R[j]
    BY <1>1 DEF Record
  <2>2. BucketSize(R[j]) = s /\ OfUser(R[j]) = FALSE
    BY <1>2 DEF OfUser
  <2>3. c[h[j]].ptr = p
    BY <2>1
  <2> HIDE DEF p, c
  <2>4. h[j] \in Kind(c, p, FALSE)
    BY <2>1, <2>2, <2>3 DEF Kind
  <2>5. BucketSize(c[h[j]]) = hp[p]
    BY <1>3, <2>1, <2>4 DEF c
  <2>6. b[j] = p
    BY DEF p
  <2>7. QED  BY <2>1, <2>2, <2>4, <2>5, <2>6 DEF p, c
<1> HIDE DEF b
<1>5. ASSUME NEW j \in J, NEW l \in J, b[j] = b[l] PROVE j = l
  <2> DEFINE p == R[j].ptr
             K == Kind(ChainOf(t, p), p, FALSE)
  <2>1. p \in Ptrs /\ R[l].ptr = p /\ h[j] \in K /\ h[l] \in K /\ hp[p] = s
    BY <1>4, <1>5
  <2>2. Cardinality(K) = 1 /\ IsFiniteSet(K)
    BY <1>2, <1>3, <2>1 DEF Times
  <2> HIDE DEF K
  <2>3. \E x : K = {x}
    BY <2>2, FS_Singleton
  <2>4. h[j] = h[l]
    BY <2>1, <2>3
  <2>5. QED  BY <1>1, <2>1, <2>4
<1>6. ASSUME NEW p \in Q PROVE \E j \in J : b[j] = p
  <2> DEFINE c == ChainOf(t, p)
             K == Kind(c, p, FALSE)
  <2>1. p \in Ptrs /\ hp[p] = s
    OBVIOUS
  <2>2. Cardinality(K) = 1 /\ IsFiniteSet(K)
    BY <1>2, <1>3, <2>1 DEF Times
  <2>3. K # {}
    <3> HIDE DEF K
    <3>1. QED  BY <2>2, FS_EmptySet
  <2>4. PICK k \in K : TRUE
    BY <2>3
  <2>5. k \in DOMAIN c /\ c[k].ptr = p
    BY <2>4 DEF Kind
  <2>6. BucketSize(c[k]) = s
    BY <1>3, <2>1, <2>4
  <2> HIDE DEF c, K
  <2>7. PICK j \in 1 .. Len(R) : R[j] = c[k]
    BY <1>1, <2>1, <2>5 DEF c
  <2>8. j \in J
    BY <2>6, <2>7
  <2>9. b[j] = p
    BY <1>4, <2>5, <2>7, <2>8
  <2>10. QED  BY <2>8, <2>9
<1>7. b \in [J -> Q] /\ DOMAIN b = J
  <2>1. b = [j \in J |-> b[j]] /\ DOMAIN b = J
    BY DEF b
  <2>2. \A j \in J : b[j] \in Q
    BY <1>4
  <2> HIDE DEF J, Q
  <2>3. QED  BY <2>1, <2>2
<1> HIDE DEF J, Q
<1>8. b \in Injection(J, Q) /\ b \in Surjection(J, Q)
  BY <1>5, <1>6, <1>7 DEF Injection, Surjection, IsInjective
<1>9. IsFiniteSet(J) => Cardinality(J) = Cardinality(Q)
  <2>1. SUFFICES ASSUME IsFiniteSet(J) PROVE Cardinality(J) = Cardinality(Q)
    OBVIOUS
  <2>2. b \in Bijection(J, Q)
    BY <1>8 DEF Bijection
  <2>3. QED  BY <2>1, <2>2, FS_Bijection DEF ExistsBijection
<1>10. QED  BY <1>9 DEF J, Q, R

(* The report at the end lists each size and position once, and for every  *)
(* size as many leaks as there are pointers of that size, after any calls, *)
(* rehashes and failures.                                                  *)
THEOREM LeakReportIsExactHolds == Spec => LeakReportIsExact
<1> DEFINE Exact(leaks) ==
             /\ DistinctLines(leaks)
             /\ \A s \in Sizes : SumOf(LinesOf(leaks, s)) = Cardinality({p \in Ptrs : heap[p] = s})
<1>1. ASSUME MonInv, Destroy PROVE Exact(report'.leaks)
  <2> DEFINE R == RecordsIn(table)
             n == Len(R)
             l == FoldLeft(AddLeak, <<>>, R)
  <2>1. status = "on" /\ report'.leaks = l
    BY <1>1 DEF Destroy, RecordsIn, Silent
  <2>2. PICK m \in Nat \ {0} : table \in Tables(m)
    BY <1>1 DEF MonInv, Well
  <2>3. heap \in [Ptrs -> Sizes \cup {0}] /\ Recorded(table, heap)
    BY <1>1, <2>1 DEF MonInv
  <2>4. R \in Seq(Record) /\ n \in Nat
    <3>1. R \in Seq(Record)
      BY <2>2, RecordsPlaced
    <3> HIDE DEF R
    <3>2. QED  BY <3>1, LenProperties
  <2>5. CountsFirst(l, R, n)
    <3> HIDE DEF R
    <3>1. QED  BY <2>4, LeaksFolded
  <2>6. ASSUME NEW s \in Sizes
        PROVE  SumOf(LinesOf(l, s)) = Cardinality({p \in Ptrs : heap[p] = s})
    <3> DEFINE J == {j \in 1 .. n : BucketSize(R[j]) = s}
    <3>1. IsFiniteSet(J) /\ SumOf(LinesOf(l, s)) = Cardinality(J)
      BY <2>5 DEF CountsFirst
    <3>2. IsFiniteSet(J) => Cardinality(J) = Cardinality({p \in Ptrs : heap[p] = s})
      BY <2>2, <2>3, RecordsAreHeap
    <3>3. QED  BY <3>1, <3>2
  <2> HIDE DEF l
  <2>7. Exact(l)
    BY <2>5, <2>6 DEF CountsFirst
  <2>8. QED  BY <2>1, <2>7
<1>2. ASSUME MonInv, Destroy
      PROVE  LET leaks == report'.leaks
             IN  /\ \A j, k \in DOMAIN leaks :
                       j # k => <<leaks[j].size, leaks[j].where>> # <<leaks[k].size, leaks[k].where>>
                 /\ \A s \in Sizes :
                       Total([k \in DOMAIN leaks |-> IF leaks[k].size = s THEN leaks[k].nb ELSE 0])
                         = Cardinality({p \in Ptrs : heap[p] = s})
  <2>1. Exact(report'.leaks)
    BY <1>1, <1>2
  <2>2. QED  BY <2>1, TotalIsUnits DEF DistinctLines, LinesOf, SumOf
<1>3. MonInv /\ [Next]_vars
        => [Destroy =>
             LET leaks == report'.leaks
             IN  /\ \A j, k \in DOMAIN leaks :
                       j # k => <<leaks[j].size, leaks[j].where>> # <<leaks[k].size, leaks[k].where>>
                 /\ \A s \in Sizes :
                       Total([k \in DOMAIN leaks |-> IF leaks[k].size = s THEN leaks[k].nb ELSE 0])
                         = Cardinality({p \in Ptrs : heap[p] = s})]_vars
  BY <1>2
<1>4. QED  BY <1>3, MonInvHolds, PTL DEF Spec, LeakReportIsExact

-----------------------------------------------------------------------------
(* The debug allocator *)

Entry == [ptr : Addresses, size : IntSizes]

EntriesOf(t, i) == 1 .. Len(t[i])

IsTable(t) ==
    /\ t \in [0 .. AllocationTable - 1 -> Seq(Entry)]
    /\ \A i \in 0 .. AllocationTable - 1 : \A k \in EntriesOf(t, i) : HASH(t[i][k].ptr) = i
    /\ \A i \in 0 .. AllocationTable - 1 : \A k, l \in EntriesOf(t, i) :
          t[i][k].ptr = t[i][l].ptr => k = l

(* The block p has an entry with the size s. *)
Has(t, p, s) == \E k \in EntriesOf(t, HASH(p)) : t[HASH(p)][k] = [ptr |-> p, size |-> s]

DebugInv ==
    /\ IsTable(allocations)
    /\ initialised \in BOOLEAN /\ (~initialised => allocations = EmptyTable)
    /\ InHeap \subseteq Addresses
    /\ data = [p \in InHeap |-> data[p]]
    /\ \A p \in InHeap : data[p] \in Seq(Addresses \cup {Overwritten}) /\ Len(data[p]) >= 2
    /\ \A p \in Addresses, s \in IntSizes :
          Has(allocations, p, s) => p \in InHeap /\ Len(data[p]) = s + 2

LEMMA HashType ==
    ASSUME NEW p \in Addresses
    PROVE  HASH(p) \in 0 .. AllocationTable - 1
<1>1. p \in Nat /\ AllocationTable \in Nat \ {0}
  BY DebugAllocatorAssumption
<1>2. p \div 4 \in Nat
  BY <1>1
<1>3. QED  BY <1>1, <1>2, DivMod DEF HASH

LEMMA EntryIs ==
    ASSUME NEW t, IsTable(t), NEW i \in 0 .. AllocationTable - 1, NEW k \in EntriesOf(t, i)
    PROVE  LET e == t[i][k]
           IN  /\ e \in Entry /\ e.ptr \in Addresses /\ e.size \in IntSizes
               /\ e = [ptr |-> e.ptr, size |-> e.size]
               /\ HASH(e.ptr) = i /\ Has(t, e.ptr, e.size)
<1>1. t[i] \in Seq(Entry) /\ t[i][k] \in Entry
  BY DEF IsTable, EntriesOf
<1>2. HASH(t[i][k].ptr) = i
  BY DEF IsTable
<1> DEFINE e == t[i][k]
<1>3. e.ptr \in Addresses /\ e.size \in IntSizes /\ e = [ptr |-> e.ptr, size |-> e.size]
  BY <1>1 DEF Entry
<1>4. Has(t, e.ptr, e.size)
  BY <1>2, <1>3 DEF Has
<1>5. QED  BY <1>1, <1>2, <1>3, <1>4

(* A new entry in front of its chain *)
LEMMA EntryAdded ==
    ASSUME NEW t, IsTable(t), NEW p \in Addresses, NEW size \in IntSizes,
           \A s \in IntSizes : ~Has(t, p, s)
    PROVE  LET u == [t EXCEPT ![HASH(p)] = <<[ptr |-> p, size |-> size]>> \o @]
           IN  /\ IsTable(u)
               /\ \A q \in Addresses, s \in IntSizes :
                     Has(u, q, s) <=> Has(t, q, s) \/ (q = p /\ s = size)
<1> DEFINE e == [ptr |-> p, size |-> size]
           h == HASH(p)
           c == t[h]
           d == <<e>> \o c
           u == [t EXCEPT ![h] = d]
<1>1. h \in 0 .. AllocationTable - 1 /\ e \in Entry /\ e.ptr = p
  BY HashType DEF Entry
<1>2. c \in Seq(Entry) /\ Len(c) \in Nat
  BY <1>1, LenProperties DEF IsTable
<1>3. /\ d \in Seq(Entry) /\ Len(d) = Len(c) + 1 /\ d[1] = e
      /\ \A k \in 1 .. Len(c) : d[k + 1] = c[k]
  <2> HIDE DEF c, e
  <2>1. QED  BY <1>1, <1>2
<1>4. /\ u \in [0 .. AllocationTable - 1 -> Seq(Entry)]
      /\ u[h] = d /\ \A i \in 0 .. AllocationTable - 1 : i # h => u[i] = t[i]
  <2> HIDE DEF d, h
  <2>1. QED  BY <1>1, <1>3 DEF IsTable
<1> HIDE DEF u, d, c, h, e
<1>5. /\ 1 \in EntriesOf(u, h) /\ u[h][1] = e
      /\ \A k \in EntriesOf(t, h) : k + 1 \in EntriesOf(u, h) /\ u[h][k + 1] = t[h][k]
      /\ \A k \in EntriesOf(u, h) :
            k # 1 => k - 1 \in EntriesOf(t, h) /\ u[h][k] = t[h][k - 1]
  <2>1. EntriesOf(u, h) = 1 .. Len(c) + 1 /\ EntriesOf(t, h) = 1 .. Len(c)
    BY <1>3, <1>4 DEF EntriesOf, c
  <2>2. \A k \in 1 .. Len(c) + 1 : k # 1 => k - 1 \in 1 .. Len(c) /\ (k - 1) + 1 = k
    BY <1>2
  <2>3. QED  BY <1>2, <1>3, <1>4, <2>1, <2>2 DEF c
<1>6. \A i \in 0 .. AllocationTable - 1 : i # h => EntriesOf(u, i) = EntriesOf(t, i) /\ u[i] = t[i]
  BY <1>4 DEF EntriesOf
<1>7. \A k \in EntriesOf(t, h) : t[h][k].ptr # p
  <2>1. ASSUME NEW k \in EntriesOf(t, h), t[h][k].ptr = p PROVE FALSE
    <3>1. /\ t[h][k].ptr \in Addresses /\ t[h][k].size \in IntSizes
          /\ Has(t, t[h][k].ptr, t[h][k].size)
      BY <1>1, EntryIs
    <3>2. Has(t, p, t[h][k].size)
      BY <2>1, <3>1, Zenon
    <3>3. QED  BY <3>1, <3>2
  <2>2. QED  BY <2>1
<1>8. ASSUME NEW i \in 0 .. AllocationTable - 1, NEW k \in EntriesOf(u, i)
      PROVE  HASH(u[i][k].ptr) = i
  <2>1. CASE i # h
    BY <1>6, <2>1 DEF IsTable
  <2>2. CASE i = h
    BY <1>1, <1>5, <2>2 DEF IsTable, h
  <2>3. QED  BY <2>1, <2>2
<1>9. ASSUME NEW i \in 0 .. AllocationTable - 1, NEW k \in EntriesOf(u, i),
             NEW l \in EntriesOf(u, i), u[i][k].ptr = u[i][l].ptr
      PROVE  k = l
  <2>1. CASE i # h
    BY <1>6, <1>9, <2>1 DEF IsTable
  <2>2. CASE i = h
    <3>1. k \in Int /\ l \in Int
      BY DEF EntriesOf
    <3>2. CASE k = 1 \/ l = 1
      BY <1>1, <1>5, <1>7, <1>9, <2>2, <3>2
    <3>3. CASE k # 1 /\ l # 1
      <4>1. k - 1 \in EntriesOf(t, h) /\ l - 1 \in EntriesOf(t, h)
            /\ t[h][k - 1].ptr = t[h][l - 1].ptr
        BY <1>5, <1>9, <2>2, <3>3
      <4>2. k - 1 = l - 1
        BY <1>1, <4>1 DEF IsTable
      <4>3. QED  BY <3>1, <4>2
    <3>4. QED  BY <3>2, <3>3
  <2>3. QED  BY <2>1, <2>2
<1>10. IsTable(u)
  BY <1>4, <1>8, <1>9 DEF IsTable
<1>11. ASSUME NEW q \in Addresses, NEW s \in IntSizes
       PROVE  Has(u, q, s) <=> Has(t, q, s) \/ (q = p /\ s = size)
  <2> DEFINE r == [ptr |-> q, size |-> s]
  <2>1. r = e <=> q = p /\ s = size
    BY DEF e
  <2>2. HASH(q) \in 0 .. AllocationTable - 1 /\ (q = p => HASH(q) = h)
    BY HashType DEF h
  <2>3. Has(u, q, s) <=> \E k \in EntriesOf(u, HASH(q)) : u[HASH(q)][k] = r
    BY DEF Has
  <2>4. Has(t, q, s) <=> \E k \in EntriesOf(t, HASH(q)) : t[HASH(q)][k] = r
    BY DEF Has
  <2> HIDE DEF r
  <2>5. CASE HASH(q) # h
    BY <1>6, <2>1, <2>2, <2>3, <2>4, <2>5
  <2>6. CASE HASH(q) = h
    <3>1. (\E k \in EntriesOf(u, h) : u[h][k] = r) <=> r = e \/ \E k \in EntriesOf(t, h) : t[h][k] = r
      BY <1>5
    <3>2. QED  BY <2>1, <2>3, <2>4, <2>6, <3>1
  <2>7. QED  BY <2>5, <2>6
<1>12. QED  BY <1>10, <1>11 DEF u, d, c, h, e

LEMMA LengthIs ==
    ASSUME NEW m \in Nat, NEW n \in Nat, 1 .. m = 1 .. n
    PROVE  m = n
<1>1. m # 0 => m \in 1 .. n
  OBVIOUS
<1>2. n # 0 => n \in 1 .. m
  OBVIOUS
<1>3. QED  BY <1>1, <1>2

(* The entry of p is unlinked. *)
LEMMA EntryRemoved ==
    ASSUME NEW t, IsTable(t), NEW p \in Addresses, NEW k \in EntriesOf(t, HASH(p)),
           t[HASH(p)][k].ptr = p
    PROVE  LET u == [t EXCEPT ![HASH(p)] = RemoveAt(@, k)]
           IN  /\ IsTable(u)
               /\ \A q \in Addresses, s \in IntSizes :
                     Has(u, q, s) <=> Has(t, q, s) /\ q # p
<1> DEFINE h == HASH(p)
           c == t[h]
           d == RemoveAt(c, k)
           u == [t EXCEPT ![h] = d]
           was(i) == IF i < k THEN i ELSE i + 1
<1>1. h \in 0 .. AllocationTable - 1
  BY HashType
<1>2. c \in Seq(Entry) /\ Len(c) \in Nat /\ DOMAIN c = 1 .. Len(c) /\ k \in 1 .. Len(c)
  BY <1>1, LenProperties DEF IsTable, EntriesOf
<1>3. /\ d \in Seq(Entry) /\ DOMAIN d = 1 .. Len(c) - 1
      /\ \A i \in 1 .. Len(c) - 1 : d[i] = c[was(i)]
  <2> HIDE DEF c
  <2>1. QED  BY <1>2, RemoveAtIs
<1>4. Len(d) = Len(c) - 1
  <2>1. Len(d) \in Nat /\ DOMAIN d = 1 .. Len(d)
    BY <1>3, LenProperties
  <2> HIDE DEF d
  <2>2. Len(c) - 1 \in Nat
    BY <1>2
  <2> HIDE DEF c
  <2>3. 1 .. Len(d) = 1 .. Len(c) - 1
    BY <1>3, <2>1
  <2>4. QED  BY <2>1, <2>2, <2>3, LengthIs
<1>5. /\ u \in [0 .. AllocationTable - 1 -> Seq(Entry)]
      /\ u[h] = d /\ \A i \in 0 .. AllocationTable - 1 : i # h => u[i] = t[i]
  <2> HIDE DEF d, h
  <2>1. QED  BY <1>1, <1>3 DEF IsTable
<1> HIDE DEF u, d, c, h
<1>6. EntriesOf(u, h) = 1 .. Len(c) - 1 /\ EntriesOf(t, h) = 1 .. Len(c)
  BY <1>4, <1>5 DEF EntriesOf, c
<1>7. \A i \in EntriesOf(u, h) :
         was(i) \in EntriesOf(t, h) /\ was(i) # k /\ u[h][i] = t[h][was(i)]
  <2>1. \A i \in 1 .. Len(c) - 1 : was(i) \in 1 .. Len(c) /\ was(i) # k
    BY <1>2
  <2> HIDE DEF was
  <2>2. QED  BY <1>3, <1>5, <1>6, <2>1 DEF c
<1>8. \A i, j \in EntriesOf(u, h) : was(i) = was(j) => i = j
  BY <1>2, <1>6
<1>9. \A j \in EntriesOf(t, h) : j # k => \E i \in EntriesOf(u, h) : was(i) = j
  <2>1. SUFFICES ASSUME NEW j \in 1 .. Len(c), j # k PROVE \E i \in 1 .. Len(c) - 1 : was(i) = j
    BY <1>6
  <2>2. CASE j < k
    <3>1. j \in 1 .. Len(c) - 1 /\ was(j) = j
      BY <1>2, <2>2
    <3>2. QED  BY <3>1
  <2>3. CASE j > k
    <3>1. j - 1 \in 1 .. Len(c) - 1 /\ was(j - 1) = j
      BY <1>2, <2>3
    <3>2. QED  BY <3>1
  <2>4. QED  BY <1>2, <2>1, <2>2, <2>3
<1> HIDE DEF was
<1>10. \A i \in 0 .. AllocationTable - 1 : i # h => EntriesOf(u, i) = EntriesOf(t, i) /\ u[i] = t[i]
  BY <1>5 DEF EntriesOf
<1>11. ASSUME NEW i \in 0 .. AllocationTable - 1, NEW j \in EntriesOf(u, i)
       PROVE  HASH(u[i][j].ptr) = i
  <2>1. CASE i # h
    BY <1>10, <2>1 DEF IsTable
  <2>2. CASE i = h
    BY <1>1, <1>7, <2>2 DEF IsTable
  <2>3. QED  BY <2>1, <2>2
<1>12. ASSUME NEW i \in 0 .. AllocationTable - 1, NEW j \in EntriesOf(u, i),
              NEW l \in EntriesOf(u, i), u[i][j].ptr = u[i][l].ptr
       PROVE  j = l
  <2>1. CASE i # h
    BY <1>10, <1>12, <2>1 DEF IsTable
  <2>2. CASE i = h
    <3>1. was(j) \in EntriesOf(t, h) /\ was(l) \in EntriesOf(t, h)
          /\ t[h][was(j)].ptr = t[h][was(l)].ptr
      BY <1>7, <1>12, <2>2
    <3>2. was(j) = was(l)
      BY <1>1, <3>1 DEF IsTable
    <3>3. QED  BY <1>8, <2>2, <3>2
  <2>3. QED  BY <2>1, <2>2
<1>13. IsTable(u)
  BY <1>5, <1>11, <1>12 DEF IsTable
<1>14. \A j \in EntriesOf(t, h) : t[h][j].ptr = p <=> j = k
  BY <1>1 DEF IsTable, h
<1>15. ASSUME NEW q \in Addresses, NEW s \in IntSizes
       PROVE  Has(u, q, s) <=> Has(t, q, s) /\ q # p
  <2> DEFINE r == [ptr |-> q, size |-> s]
  <2>1. r.ptr = q
    OBVIOUS
  <2>2. HASH(q) \in 0 .. AllocationTable - 1 /\ (q = p => HASH(q) = h)
    BY HashType DEF h
  <2>3. Has(u, q, s) <=> \E j \in EntriesOf(u, HASH(q)) : u[HASH(q)][j] = r
    BY DEF Has
  <2>4. Has(t, q, s) <=> \E j \in EntriesOf(t, HASH(q)) : t[HASH(q)][j] = r
    BY DEF Has
  <2> HIDE DEF r
  <2>5. CASE HASH(q) # h
    BY <1>10, <2>2, <2>3, <2>4, <2>5
  <2>6. CASE HASH(q) = h
    <3>1. ASSUME NEW i \in EntriesOf(u, h), u[h][i] = r
          PROVE  q # p /\ \E j \in EntriesOf(t, h) : t[h][j] = r
      BY <1>7, <1>14, <2>1, <3>1
    <3>2. ASSUME NEW j \in EntriesOf(t, h), t[h][j] = r, q # p
          PROVE  \E i \in EntriesOf(u, h) : u[h][i] = r
      <4>1. j # k
        BY <1>14, <2>1, <3>2
      <4>2. PICK i \in EntriesOf(u, h) : was(i) = j
        BY <1>9, <4>1
      <4>3. QED  BY <1>7, <3>2, <4>2
    <3>3. QED  BY <2>3, <2>4, <2>6, <3>1, <3>2
  <2>7. QED  BY <2>5, <2>6
<1>16. QED  BY <1>13, <1>15 DEF u, d, c, h

(* What the program's calls see of a table that is in order *)
HeapFacts ==
    /\ Registered \subseteq Addresses
    /\ \A p \in Addresses : p \in Registered <=> \E s \in IntSizes : Has(allocations, p, s)
    /\ \A p \in Addresses, s \in IntSizes : Has(allocations, p, s) => SizeOf(p) = s
    /\ \A p \in Addresses : EntryAt(p) # 0 <=> p \in Registered
    /\ \A p \in Registered :
          /\ EntryAt(p) \in EntriesOf(allocations, HASH(p))
          /\ allocations[HASH(p)][EntryAt(p)] = [ptr |-> p, size |-> SizeOf(p)]
          /\ SizeOf(p) \in IntSizes /\ Has(allocations, p, SizeOf(p))
          /\ p \in InHeap /\ Len(data[p]) = SizeOf(p) + 2

LEMMA HeapFactsHold == DebugInv => HeapFacts
<1> SUFFICES ASSUME DebugInv PROVE HeapFacts
  OBVIOUS
<1> DEFINE t == allocations
<1>1. IsTable(t) /\ DOMAIN t = 0 .. AllocationTable - 1
  BY DEF DebugInv, IsTable
<1>2. ASSUME NEW p
      PROVE  p \in Registered <=> \E i \in 0 .. AllocationTable - 1 :
                                     \E k \in EntriesOf(t, i) : p = t[i][k].ptr
  <2>1. \A i \in 0 .. AllocationTable - 1 : DOMAIN t[i] = EntriesOf(t, i)
    BY <1>1, LenProperties DEF IsTable, EntriesOf
  <2>2. p \in Registered <=> \E i \in DOMAIN t : \E k \in DOMAIN t[i] : p = t[i][k].ptr
    BY DEF Registered, ToSet
  <2>3. QED  BY <1>1, <2>1, <2>2
<1>3. Registered \subseteq Addresses
  <2>1. ASSUME NEW p \in Registered PROVE p \in Addresses
    <3>1. PICK i \in 0 .. AllocationTable - 1 : \E k \in EntriesOf(t, i) : p = t[i][k].ptr
      BY <1>2
    <3>2. PICK k \in EntriesOf(t, i) : p = t[i][k].ptr
      BY <3>1
    <3>3. t[i][k].ptr \in Addresses
      BY <1>1, EntryIs
    <3>4. QED  BY <3>2, <3>3
  <2>2. QED  BY <2>1
<1>4. ASSUME NEW p \in Addresses
      PROVE  p \in Registered <=> \E s \in IntSizes : Has(t, p, s)
  <2>1. ASSUME p \in Registered PROVE \E s \in IntSizes : Has(t, p, s)
    <3>1. PICK i \in 0 .. AllocationTable - 1 : \E k \in EntriesOf(t, i) : p = t[i][k].ptr
      BY <1>2, <2>1
    <3>2. PICK k \in EntriesOf(t, i) : p = t[i][k].ptr
      BY <3>1
    <3>3. t[i][k].size \in IntSizes /\ Has(t, t[i][k].ptr, t[i][k].size)
      BY <1>1, EntryIs
    <3>4. Has(t, p, t[i][k].size)
      BY <3>2, <3>3, Zenon
    <3>5. QED  BY <3>3, <3>4
  <2>2. ASSUME NEW s \in IntSizes, Has(t, p, s) PROVE p \in Registered
    <3>1. PICK k \in EntriesOf(t, HASH(p)) : t[HASH(p)][k] = [ptr |-> p, size |-> s]
      BY <2>2 DEF Has
    <3>2. p = t[HASH(p)][k].ptr /\ HASH(p) \in 0 .. AllocationTable - 1
      BY <3>1, HashType
    <3>3. QED  BY <1>2, <3>2
  <2>3. QED  BY <2>1, <2>2
<1>5. ASSUME NEW p \in Addresses
      PROVE  /\ EntryAt(p) # 0 => /\ EntryAt(p) \in EntriesOf(t, HASH(p))
                                  /\ t[HASH(p)][EntryAt(p)].ptr = p
             /\ EntryAt(p) = 0 => \A k \in EntriesOf(t, HASH(p)) : t[HASH(p)][k].ptr # p
  <2> DEFINE c == t[HASH(p)]
             I == {k \in 1 .. Len(c) : c[k].ptr = p}
  <2>1. EntryAt(p) = IF I # {} THEN Min(I) ELSE 0
    BY Zenon DEF EntryAt, SelectInSeq
  <2>2. Len(c) \in Nat
    BY <1>1, HashType, LenProperties DEF IsTable
  <2> HIDE DEF c
  <2>3. I # {} => Min(I) \in I /\ Min(I) # 0
    <3>1. SUFFICES ASSUME I # {} PROVE Min(I) \in I /\ Min(I) # 0
      OBVIOUS
    <3>2. I \subseteq Nat /\ 0 \notin I
      BY <2>2
    <3> HIDE DEF I
    <3>3. PICK x \in I : \A y \in I : x <= y
      BY <3>1, <3>2, LeastNat
    <3>4. Min(I) \in I
      BY <3>3 DEF Min
    <3>5. QED  BY <3>2, <3>4
  <2>4. CASE I = {}
    BY <2>1, <2>4 DEF EntriesOf, c
  <2>5. CASE I # {}
    BY <2>1, <2>3, <2>5 DEF EntriesOf, c
  <2>6. QED  BY <2>4, <2>5
<1>6. ASSUME NEW p \in Addresses, NEW s \in IntSizes, Has(t, p, s)
      PROVE  /\ EntryAt(p) # 0 /\ t[HASH(p)][EntryAt(p)] = [ptr |-> p, size |-> s]
             /\ SizeOf(p) = s
  <2>1. PICK k \in EntriesOf(t, HASH(p)) : t[HASH(p)][k] = [ptr |-> p, size |-> s]
    BY <1>6 DEF Has
  <2>2. t[HASH(p)][k].ptr = p
    BY <2>1
  <2>3. EntryAt(p) # 0
    BY <1>5, <2>2
  <2>4. t[HASH(p)][EntryAt(p)] = [ptr |-> p, size |-> s]
    <3> DEFINE k2 == EntryAt(p)
    <3>1. k2 \in EntriesOf(t, HASH(p)) /\ t[HASH(p)][k2].ptr = p
      BY <1>5, <2>3
    <3> HIDE DEF k2
    <3>2. HASH(p) \in 0 .. AllocationTable - 1
      BY HashType
    <3>3. k2 = k
      BY <1>1, <2>2, <3>1, <3>2 DEF IsTable
    <3>4. t[HASH(p)][k2] = [ptr |-> p, size |-> s]
      BY <2>1, <3>3
    <3>5. QED  BY <3>4 DEF k2
  <2>5. SizeOf(p) = s
    BY <2>4 DEF SizeOf
  <2>6. QED  BY <2>3, <2>4, <2>5
<1>7. ASSUME NEW p \in Addresses PROVE EntryAt(p) # 0 <=> p \in Registered
  <2>1. ASSUME EntryAt(p) # 0 PROVE p \in Registered
    <3>1. /\ EntryAt(p) \in EntriesOf(t, HASH(p)) /\ HASH(p) \in 0 .. AllocationTable - 1
          /\ t[HASH(p)][EntryAt(p)].ptr = p
      BY <1>5, <2>1, HashType
    <3>2. QED  BY <1>2, <3>1
  <2>2. ASSUME p \in Registered PROVE EntryAt(p) # 0
    BY <1>4, <1>6, <2>2
  <2>3. QED  BY <2>1, <2>2
<1>8. ASSUME NEW p \in Registered
      PROVE  /\ EntryAt(p) \in EntriesOf(t, HASH(p))
             /\ t[HASH(p)][EntryAt(p)] = [ptr |-> p, size |-> SizeOf(p)]
             /\ SizeOf(p) \in IntSizes /\ Has(t, p, SizeOf(p))
             /\ p \in InHeap /\ Len(data[p]) = SizeOf(p) + 2
  <2>1. p \in Addresses
    BY <1>3
  <2>2. PICK s \in IntSizes : Has(t, p, s)
    BY <1>4, <2>1
  <2>3. /\ EntryAt(p) # 0 /\ t[HASH(p)][EntryAt(p)] = [ptr |-> p, size |-> s]
        /\ SizeOf(p) = s
    BY <1>6, <2>1, <2>2
  <2>4. EntryAt(p) \in EntriesOf(t, HASH(p))
    BY <1>5, <2>1, <2>3
  <2>5. p \in InHeap /\ Len(data[p]) = s + 2
    BY <2>1, <2>2 DEF DebugInv
  <2>6. QED  BY <2>2, <2>3, <2>4, <2>5
<1>9. \A p \in Addresses, s \in IntSizes : Has(t, p, s) => SizeOf(p) = s
  BY <1>6
<1>10. QED  BY <1>3, <1>4, <1>7, <1>8, <1>9 DEF HeapFacts

Ints == Addresses \cup {Overwritten}

LEMMA EmptyTableIs ==
    /\ IsTable(EmptyTable)
    /\ \A p \in Addresses : \A s : ~Has(EmptyTable, p, s)
<1>1. \A i \in 0 .. AllocationTable - 1 : EmptyTable[i] = <<>> /\ EntriesOf(EmptyTable, i) = {}
  BY DEF EmptyTable, EntriesOf
<1>2. EmptyTable \in [0 .. AllocationTable - 1 -> Seq(Entry)]
  BY DEF EmptyTable
<1>3. QED  BY <1>1, <1>2, HashType DEF IsTable, Has

LEMMA GuardedIs ==
    ASSUME NEW p \in Addresses, NEW size \in IntSizes
    PROVE  LET d == Guarded(p, size)
           IN  /\ d \in Seq(Ints) /\ Len(d) = size + 2 /\ Len(d) >= 2
               /\ d[1] = p /\ d[Len(d)] = p
<1> DEFINE d == Guarded(p, size)
           n == size + 2
<1>1. size \in Nat /\ n \in Nat /\ 1 \in 1 .. n /\ n \in 1 .. n
  BY DebugAllocatorAssumption
<1>2. d = [i \in 1 .. n |-> IF i \in {1, n} THEN p ELSE Overwritten]
  BY DEF Guarded
<1> HIDE DEF n, d
<1>3. d \in [1 .. n -> Ints]
  BY <1>2 DEF Ints
<1>4. d \in Seq(Ints) /\ Len(d) = n
  <2>1. d \in Seq(Ints)
    BY <1>1, <1>3, SeqDef
  <2>2. DOMAIN d = 1 .. n /\ DOMAIN d = 1 .. Len(d) /\ Len(d) \in Nat
    BY <1>3, <2>1, LenProperties
  <2>3. QED  BY <1>1, <2>1, <2>2, LengthIs
<1>5. d[1] = p /\ d[n] = p
  BY <1>1, <1>2
<1>6. QED  BY <1>1, <1>4, <1>5 DEF n, d

LEMMA OverwrittenIs ==
    ASSUME NEW c \in Seq(Ints), NEW i \in {1, Len(c)}, Len(c) >= 2
    PROVE  LET d == [c EXCEPT ![i] = Overwritten]
           IN  /\ d \in Seq(Ints) /\ Len(d) = Len(c)
               /\ d[i] = Overwritten /\ \A j \in 1 .. Len(c) : j # i => d[j] = c[j]
<1> DEFINE n == Len(c)
           d == [c EXCEPT ![i] = Overwritten]
<1>1. n \in Nat /\ c \in [1 .. n -> Ints] /\ i \in 1 .. n
  BY LenProperties
<1>2. d \in [1 .. n -> Ints] /\ d[i] = Overwritten /\ \A j \in 1 .. n : j # i => d[j] = c[j]
  <2> HIDE DEF n
  <2>1. QED  BY <1>1 DEF Ints
<1> HIDE DEF n, d
<1>3. d \in Seq(Ints) /\ Len(d) = n
  <2>1. d \in Seq(Ints)
    BY <1>1, <1>2, SeqDef
  <2>2. DOMAIN d = 1 .. n /\ DOMAIN d = 1 .. Len(d) /\ Len(d) \in Nat
    BY <1>2, <2>1, LenProperties
  <2>3. QED  BY <1>1, <2>1, <2>2, LengthIs
<1>4. QED  BY <1>2, <1>3 DEF n, d

-----------------------------------------------------------------------------
(* The effect of the calls *)

LEMMA InitDebugInv == InitDebugAllocator => DebugInv
<1> SUFFICES ASSUME InitDebugAllocator PROVE DebugInv
  OBVIOUS
<1>1. /\ allocations = EmptyTable /\ initialised = TRUE /\ data = [p \in {} |-> <<>>]
      /\ InHeap = {}
  BY DEF InitDebugAllocator, InHeap
<1>2. data = [p \in InHeap |-> data[p]]
  BY <1>1
<1>3. QED  BY <1>1, <1>2, EmptyTableIs DEF DebugInv

LEMMA MallocEffect ==
    ASSUME DebugInv, DebugMalloc
    PROVE  /\ DebugInv'
           /\ \E p \in Addresses \ InHeap, size \in IntSizes :
                 /\ InHeap' = InHeap \cup {p}
                 /\ data'[p] = Guarded(p, size) /\ \A q \in InHeap : data'[q] = data[q]
                 /\ \A q \in Addresses, s \in IntSizes :
                       Has(allocations', q, s) <=> Has(allocations, q, s) \/ (q = p /\ s = size)
<1>1. PICK p \in Addresses \ InHeap :
        \E size \in IntSizes :
          /\ data' = [q \in InHeap \cup {p} |-> IF q = p THEN Guarded(p, size) ELSE data[q]]
          /\ allocations' = [allocations EXCEPT ![HASH(p)] = <<[ptr |-> p, size |-> size]>> \o @]
  BY DEF DebugMalloc
<1>2. PICK size \in IntSizes :
          /\ data' = [q \in InHeap \cup {p} |-> IF q = p THEN Guarded(p, size) ELSE data[q]]
          /\ allocations' = [allocations EXCEPT ![HASH(p)] = <<[ptr |-> p, size |-> size]>> \o @]
  BY <1>1
<1>3. \A s \in IntSizes : ~Has(allocations, p, s)
  BY DEF DebugInv
<1>4. /\ IsTable(allocations')
      /\ \A q \in Addresses, s \in IntSizes :
            Has(allocations', q, s) <=> Has(allocations, q, s) \/ (q = p /\ s = size)
  BY <1>2, <1>3, EntryAdded DEF DebugInv
<1> DEFINE d == Guarded(p, size)
<1>5. d \in Seq(Ints) /\ Len(d) = size + 2 /\ Len(d) >= 2
  BY GuardedIs
<1> HIDE DEF d
<1>6. /\ InHeap' = InHeap \cup {p} /\ data'[p] = d /\ \A q \in InHeap : data'[q] = data[q]
      /\ data' = [q \in InHeap' |-> data'[q]]
  <2>1. data' = [q \in InHeap \cup {p} |-> IF q = p THEN d ELSE data[q]]
    BY <1>2 DEF d
  <2>2. InHeap' = InHeap \cup {p}
    <3>1. DOMAIN data' = InHeap \cup {p}
      BY <2>1
    <3>2. QED  BY <3>1 DEF InHeap
  <2>3. data'[p] = d /\ \A q \in InHeap : data'[q] = data[q]
    BY <2>1
  <2>4. data' = [q \in InHeap' |-> data'[q]]
    BY <2>1, <2>2
  <2>5. QED  BY <2>2, <2>3, <2>4
<1>7. /\ initialised' = TRUE /\ InHeap \subseteq Addresses
      /\ \A q \in InHeap : data[q] \in Seq(Ints) /\ Len(data[q]) >= 2
      /\ \A q \in Addresses, s \in IntSizes :
            Has(allocations, q, s) => q \in InHeap /\ Len(data[q]) = s + 2
  BY DEF DebugInv, DebugMalloc, Ints
<1>8. \A q \in InHeap' : data'[q] \in Seq(Ints) /\ Len(data'[q]) >= 2
  BY <1>5, <1>6, <1>7
<1>9. \A q \in Addresses, s \in IntSizes :
         Has(allocations', q, s) => q \in InHeap' /\ Len(data'[q]) = s + 2
  BY <1>4, <1>5, <1>6, <1>7
<1>10. InHeap' \subseteq Addresses
  BY <1>6, <1>7
<1>11. DebugInv'
  BY <1>4, <1>6, <1>7, <1>8, <1>9, <1>10 DEF DebugInv, Ints
<1>12. QED  BY <1>4, <1>6, <1>11 DEF d

LEMMA OverrunEffect ==
    ASSUME DebugInv, Overrun
    PROVE  /\ DebugInv'
           /\ \E p \in InHeap :
                 /\ InHeap' = InHeap
                 /\ data'[p][1] = Overwritten \/ data'[p][Len(data'[p])] = Overwritten
                 /\ \A q \in InHeap : q # p => data'[q] = data[q]
<1>1. PICK p \in InHeap : \E i \in {1, Len(data[p])} : data' = [data EXCEPT ![p][i] = Overwritten]
  BY DEF Overrun
<1>2. PICK i \in {1, Len(data[p])} : data' = [data EXCEPT ![p][i] = Overwritten]
  BY <1>1
<1> DEFINE c == data[p]
           d == [c EXCEPT ![i] = Overwritten]
<1>3. c \in Seq(Ints) /\ Len(c) >= 2
  BY DEF DebugInv, Ints
<1>4. d \in Seq(Ints) /\ Len(d) = Len(c) /\ d[i] = Overwritten
  <2> HIDE DEF c
  <2>1. i \in {1, Len(c)}
    BY DEF c
  <2>2. QED  BY <1>3, <2>1, OverwrittenIs
<1>5. /\ InHeap' = InHeap /\ data'[p] = d /\ \A q \in InHeap : q # p => data'[q] = data[q]
      /\ data' = [q \in InHeap' |-> data'[q]]
  <2>1. data' = [data EXCEPT ![p] = d]
    BY <1>2
  <2>2. data = [q \in InHeap |-> data[q]]
    BY DEF DebugInv
  <2> HIDE DEF d
  <2>3. data' = [q \in InHeap |-> IF q = p THEN d ELSE data[q]]
    BY <2>1, <2>2
  <2>4. InHeap' = InHeap
    <3>1. DOMAIN data' = InHeap
      BY <2>3
    <3>2. QED  BY <3>1 DEF InHeap
  <2>5. QED  BY <2>3, <2>4
<1> HIDE DEF d
<1>6. /\ allocations' = allocations /\ initialised' = initialised
      /\ IsTable(allocations) /\ initialised \in BOOLEAN
      /\ (~initialised => allocations = EmptyTable) /\ InHeap \subseteq Addresses
      /\ \A q \in InHeap : data[q] \in Seq(Ints) /\ Len(data[q]) >= 2
      /\ \A q \in Addresses, s \in IntSizes :
            Has(allocations, q, s) => q \in InHeap /\ Len(data[q]) = s + 2
  BY DEF DebugInv, Overrun, Ints
<1>7. \A q \in InHeap' :
         data'[q] \in Seq(Ints) /\ Len(data'[q]) >= 2 /\ Len(data'[q]) = Len(data[q])
  BY <1>3, <1>4, <1>5, <1>6
<1>8. \A q \in Addresses, s \in IntSizes :
         Has(allocations', q, s) => q \in InHeap' /\ Len(data'[q]) = s + 2
  BY <1>5, <1>6, <1>7
<1>9. DebugInv'
  BY <1>5, <1>6, <1>7, <1>8 DEF DebugInv, Ints
<1>10. data'[p][1] = Overwritten \/ data'[p][Len(data'[p])] = Overwritten
  BY <1>4, <1>5
<1>11. QED  BY <1>5, <1>9, <1>10

LEMMA FreeEffectOf ==
    ASSUME DebugInv, DebugFree
    PROVE  /\ DebugInv'
           /\ \E p \in Registered, intSize \in IntSizes :
                 /\ complaint' = Complaining(<<p, intSize>>,
                      (IF Corrupted(p, SizeOf(p)) THEN {"corrupted"} ELSE {})
                      \cup (IF intSize # SizeOf(p) THEN {"size"} ELSE {}))
                 /\ InHeap' = InHeap \ {p} /\ \A q \in InHeap \ {p} : data'[q] = data[q]
                 /\ \A q \in Addresses, s \in IntSizes :
                       Has(allocations', q, s) <=> Has(allocations, q, s) /\ q # p
<1>1. PICK p \in Addresses :
        \E intSize \in IntSizes :
          /\ EntryAt(p) # 0
          /\ complaint' = Complaining(<<p, intSize>>,
               (IF Corrupted(p, SizeOf(p)) THEN {"corrupted"} ELSE {})
               \cup (IF intSize # SizeOf(p) THEN {"size"} ELSE {}))
          /\ allocations' = [allocations EXCEPT ![HASH(p)] = RemoveAt(@, EntryAt(p))]
          /\ data' = [q \in InHeap \ {p} |-> data[q]]
  BY DEF DebugFree, SizeOf
<1>2. PICK intSize \in IntSizes :
          /\ EntryAt(p) # 0
          /\ complaint' = Complaining(<<p, intSize>>,
               (IF Corrupted(p, SizeOf(p)) THEN {"corrupted"} ELSE {})
               \cup (IF intSize # SizeOf(p) THEN {"size"} ELSE {}))
          /\ allocations' = [allocations EXCEPT ![HASH(p)] = RemoveAt(@, EntryAt(p))]
          /\ data' = [q \in InHeap \ {p} |-> data[q]]
  BY <1>1
<1> DEFINE k == EntryAt(p)
<1>3. /\ p \in Registered /\ k \in EntriesOf(allocations, HASH(p))
      /\ allocations[HASH(p)][k].ptr = p
  <2>1. HeapFacts
    BY HeapFactsHold
  <2>2. p \in Registered
    BY <1>2, <2>1, Zenon DEF HeapFacts
  <2>3. /\ EntryAt(p) \in EntriesOf(allocations, HASH(p))
        /\ allocations[HASH(p)][EntryAt(p)] = [ptr |-> p, size |-> SizeOf(p)]
    BY <2>1, <2>2, Zenon DEF HeapFacts
  <2>4. allocations[HASH(p)][EntryAt(p)].ptr = p
    BY <2>3
  <2>5. QED  BY <2>2, <2>3, <2>4
<1>4. allocations' = [allocations EXCEPT ![HASH(p)] = RemoveAt(@, k)]
  BY <1>2
<1> HIDE DEF k
<1>5. /\ IsTable(allocations')
      /\ \A q \in Addresses, s \in IntSizes :
            Has(allocations', q, s) <=> Has(allocations, q, s) /\ q # p
  BY <1>3, <1>4, EntryRemoved DEF DebugInv
<1>6. /\ InHeap' = InHeap \ {p} /\ \A q \in InHeap \ {p} : data'[q] = data[q]
      /\ data' = [q \in InHeap' |-> data'[q]]
  <2>1. data' = [q \in InHeap \ {p} |-> data[q]]
    BY <1>2
  <2>2. InHeap' = InHeap \ {p}
    <3>1. DOMAIN data' = InHeap \ {p}
      BY <2>1
    <3>2. QED  BY <3>1 DEF InHeap
  <2>3. QED  BY <2>1, <2>2
<1>7. /\ initialised' = TRUE /\ InHeap \subseteq Addresses
      /\ \A q \in InHeap : data[q] \in Seq(Ints) /\ Len(data[q]) >= 2
      /\ \A q \in Addresses, s \in IntSizes :
            Has(allocations, q, s) => q \in InHeap /\ Len(data[q]) = s + 2
  BY DEF DebugInv, DebugFree, Ints
<1>8. /\ \A q \in InHeap' : data'[q] \in Seq(Ints) /\ Len(data'[q]) >= 2
      /\ InHeap' \subseteq Addresses
  BY <1>6, <1>7
<1>9. \A q \in Addresses, s \in IntSizes :
         Has(allocations', q, s) => q \in InHeap' /\ Len(data'[q]) = s + 2
  BY <1>5, <1>6, <1>7
<1>10. DebugInv'
  BY <1>5, <1>6, <1>7, <1>8, <1>9 DEF DebugInv, Ints
<1>11. QED  BY <1>2, <1>3, <1>5, <1>6, <1>10

LEMMA NextDebugInv ==
    ASSUME DebugInv, [NextDebugAllocator]_debugAllocVars
    PROVE  DebugInv'
<1>1. CASE DebugMalloc
  BY <1>1, MallocEffect
<1>2. CASE Overrun
  BY <1>2, OverrunEffect
<1>3. CASE DebugFree
  BY <1>3, FreeEffectOf
<1>4. CASE UNCHANGED <<allocations, initialised, data>>
  BY <1>4 DEF DebugInv, InHeap
<1>5. CASE DebugDestroy
  BY <1>5, EmptyTableIs DEF DebugInv, DebugDestroy, InHeap
<1>6. CASE DebugInit
  BY <1>6 DEF DebugInv, DebugInit, InHeap
<1>7. QED
  BY <1>1, <1>2, <1>3, <1>4, <1>5, <1>6
     DEF NextDebugAllocator, DebugFreeRejected, debugAllocVars

LEMMA DebugInvHolds == SpecDebugAllocator => []DebugInv
BY InitDebugInv, NextDebugInv, PTL DEF SpecDebugAllocator

(* The heap as its user sees it *)
HeldBlocks == [p \in Registered |-> SizeOf(p)]
IsSpoilt(p) == data[p][1] # p \/ data[p][Len(data[p])] # p
SpoiltBlocks == {p \in Registered : IsSpoilt(p)}

LEMMA HeapActions ==
    /\ Heap!InitHeap <=> HeldBlocks = [p \in {} |-> 0] /\ SpoiltBlocks = {} /\ complaint = NoComplaint
    /\ Heap!AllocateBlock
         <=> /\ \E p \in DOMAIN HeldBlocks' \ DOMAIN HeldBlocks :
                   /\ DOMAIN HeldBlocks' = DOMAIN HeldBlocks \cup {p}
                   /\ [q \in DOMAIN HeldBlocks |-> HeldBlocks'[q]] = HeldBlocks
             /\ SpoiltBlocks' = SpoiltBlocks /\ complaint' = NoComplaint
    /\ Heap!SpoilBlock
         <=> /\ \E p \in DOMAIN HeldBlocks : SpoiltBlocks' = SpoiltBlocks \cup {p}
             /\ UNCHANGED <<HeldBlocks, complaint>>
    /\ Heap!ReturnBlock
         <=> LET p == complaint'.given[1]
                 size == complaint'.given[2]
             IN  /\ Len(complaint'.given) = 2 /\ p \in DOMAIN HeldBlocks
                 /\ HeldBlocks' = [q \in DOMAIN HeldBlocks \ {p} |-> HeldBlocks[q]]
                 /\ SpoiltBlocks' = SpoiltBlocks \ {p}
                 /\ complaint' = Complaining(<<p, size>>,
                      (IF p \in SpoiltBlocks THEN {"corrupted"} ELSE {})
                      \cup (IF size = HeldBlocks[p] THEN {} ELSE {"size"}))
    /\ Heap!RejectBlock
         <=> /\ \/ complaint' = Complaining(<<>>, {"null"})
                \/ /\ Len(complaint'.given) = 1 /\ complaint'.given[1] \notin DOMAIN HeldBlocks
                   /\ complaint' = Complaining(complaint'.given, {"unknown"})
             /\ UNCHANGED <<HeldBlocks, SpoiltBlocks>>
    /\ Heap!CloseHeap
         <=> /\ complaint' = [NoComplaint EXCEPT
                                !.leaks = Heap!Cardinality(DOMAIN HeldBlocks),
                                !.leakSize = Heap!MapThenSumSet(LAMBDA p : 4 * HeldBlocks[p],
                                                                DOMAIN HeldBlocks)]
             /\ HeldBlocks' = [p \in {} |-> 0] /\ SpoiltBlocks' = {}
    /\ Heap!OpenHeap <=> /\ HeldBlocks' = [p \in {} |-> 0] /\ SpoiltBlocks' = {}
                         /\ complaint' = NoComplaint
    /\ Heap!heapVars = <<HeldBlocks, SpoiltBlocks, complaint>>
<1> USE DEF HeldBlocks, SpoiltBlocks, IsSpoilt, NoComplaint, Complaining,
            Heap!Quiet, Heap!Alarms, Heap!Restrict
<1>1. Heap!InitHeap <=> HeldBlocks = [p \in {} |-> 0] /\ SpoiltBlocks = {} /\ complaint = NoComplaint
  BY Zenon DEF Heap!InitHeap
<1>2. Heap!AllocateBlock
         <=> /\ \E p \in DOMAIN HeldBlocks' \ DOMAIN HeldBlocks :
                   /\ DOMAIN HeldBlocks' = DOMAIN HeldBlocks \cup {p}
                   /\ [q \in DOMAIN HeldBlocks |-> HeldBlocks'[q]] = HeldBlocks
             /\ SpoiltBlocks' = SpoiltBlocks /\ complaint' = NoComplaint
  BY Zenon DEF Heap!AllocateBlock
<1>3. Heap!SpoilBlock
         <=> /\ \E p \in DOMAIN HeldBlocks : SpoiltBlocks' = SpoiltBlocks \cup {p}
             /\ UNCHANGED <<HeldBlocks, complaint>>
  BY Zenon DEF Heap!SpoilBlock
<1>4. Heap!ReturnBlock
         <=> LET p == complaint'.given[1]
                 size == complaint'.given[2]
             IN  /\ Len(complaint'.given) = 2 /\ p \in DOMAIN HeldBlocks
                 /\ HeldBlocks' = [q \in DOMAIN HeldBlocks \ {p} |-> HeldBlocks[q]]
                 /\ SpoiltBlocks' = SpoiltBlocks \ {p}
                 /\ complaint' = Complaining(<<p, size>>,
                      (IF p \in SpoiltBlocks THEN {"corrupted"} ELSE {})
                      \cup (IF size = HeldBlocks[p] THEN {} ELSE {"size"}))
  BY Zenon DEF Heap!ReturnBlock
<1>5. Heap!RejectBlock
         <=> /\ \/ complaint' = Complaining(<<>>, {"null"})
                \/ /\ Len(complaint'.given) = 1 /\ complaint'.given[1] \notin DOMAIN HeldBlocks
                   /\ complaint' = Complaining(complaint'.given, {"unknown"})
             /\ UNCHANGED <<HeldBlocks, SpoiltBlocks>>
  BY Zenon DEF Heap!RejectBlock
<1>6. Heap!CloseHeap
         <=> /\ complaint' = [NoComplaint EXCEPT
                                !.leaks = Heap!Cardinality(DOMAIN HeldBlocks),
                                !.leakSize = Heap!MapThenSumSet(LAMBDA p : 4 * HeldBlocks[p],
                                                                DOMAIN HeldBlocks)]
             /\ HeldBlocks' = [p \in {} |-> 0] /\ SpoiltBlocks' = {}
  BY Zenon DEF Heap!CloseHeap
<1>7. Heap!OpenHeap <=> /\ HeldBlocks' = [p \in {} |-> 0] /\ SpoiltBlocks' = {}
                         /\ complaint' = NoComplaint
  BY Zenon DEF Heap!OpenHeap, Heap!InitHeap
<1>8. Heap!heapVars = <<HeldBlocks, SpoiltBlocks, complaint>>
  BY Zenon DEF Heap!heapVars
<1> HIDE DEF HeldBlocks, SpoiltBlocks, IsSpoilt, NoComplaint, Complaining,
             Heap!Quiet, Heap!Alarms, Heap!Restrict
<1>9. QED  BY <1>1, <1>2, <1>3, <1>4, <1>5, <1>6, <1>7, <1>8, Zenon

LEMMA HeapInitStep == InitDebugAllocator => Heap!InitHeap
<1> SUFFICES ASSUME InitDebugAllocator PROVE Heap!InitHeap
  OBVIOUS
<1>1. allocations = EmptyTable /\ complaint = NoComplaint
  BY DEF InitDebugAllocator
<1>2. Registered = {}
  BY <1>1 DEF Registered, EmptyTable, ToSet
<1>3. HeldBlocks = [p \in {} |-> 0] /\ SpoiltBlocks = {}
  BY <1>2 DEF HeldBlocks, SpoiltBlocks
<1>4. QED  BY <1>1, <1>3, HeapActions

LEMMA FactsNext ==
    ASSUME DebugInv, DebugInv'
    PROVE  HeapFacts /\ HeapFacts'
<1>1. DebugInv' => HeapFacts'
  BY HeapFactsHold, PTL
<1>2. QED  BY <1>1, HeapFactsHold

LEMMA MallocImplements ==
    ASSUME DebugInv, DebugInv', DebugMalloc
    PROVE  Heap!AllocateBlock
<1>1. PICK p \in Addresses \ InHeap :
        \E size \in IntSizes :
                 /\ InHeap' = InHeap \cup {p}
                 /\ data'[p] = Guarded(p, size) /\ \A q \in InHeap : data'[q] = data[q]
                 /\ \A q \in Addresses, s \in IntSizes :
                       Has(allocations', q, s) <=> Has(allocations, q, s) \/ (q = p /\ s = size)
  BY MallocEffect
<1>2. PICK size \in IntSizes :
                 /\ data'[p] = Guarded(p, size) /\ \A q \in InHeap : data'[q] = data[q]
                 /\ \A q \in Addresses, s \in IntSizes :
                       Has(allocations', q, s) <=> Has(allocations, q, s) \/ (q = p /\ s = size)
  BY <1>1
<1>3. HeapFacts /\ HeapFacts'
  BY FactsNext
<1>4. /\ Registered \subseteq Addresses /\ Registered' \subseteq Addresses
      /\ \A q \in Addresses : q \in Registered <=> \E s \in IntSizes : Has(allocations, q, s)
      /\ \A q \in Addresses : q \in Registered' <=> \E s \in IntSizes : Has(allocations', q, s)
      /\ \A q \in Addresses, s \in IntSizes : Has(allocations, q, s) => SizeOf(q) = s
      /\ \A q \in Addresses, s \in IntSizes : Has(allocations', q, s) => SizeOf(q)' = s
      /\ \A q \in Registered : q \in InHeap
  BY <1>3 DEF HeapFacts
<1>5. Registered' = Registered \cup {p} /\ p \notin Registered
  BY <1>2, <1>4
<1>6. \A q \in Registered : SizeOf(q)' = SizeOf(q)
  BY <1>2, <1>4
<1>7. /\ DOMAIN HeldBlocks = Registered /\ DOMAIN HeldBlocks' = Registered'
      /\ \A q \in Registered : HeldBlocks'[q] = HeldBlocks[q]
      /\ HeldBlocks = [q \in Registered |-> HeldBlocks[q]]
  BY <1>5, <1>6 DEF HeldBlocks
<1>8. SpoiltBlocks' = SpoiltBlocks
  <2>1. ~IsSpoilt(p)'
    BY <1>2, GuardedIs DEF IsSpoilt
  <2>2. \A q \in Registered : IsSpoilt(q)' <=> IsSpoilt(q)
    BY <1>2, <1>4 DEF IsSpoilt
  <2>3. SpoiltBlocks' = {q \in Registered' : IsSpoilt(q)'}
    BY DEF SpoiltBlocks
  <2>4. SpoiltBlocks = {q \in Registered : IsSpoilt(q)}
    BY DEF SpoiltBlocks
  <2>5. QED  BY <1>5, <2>1, <2>2, <2>3, <2>4
<1>9. [q \in DOMAIN HeldBlocks |-> HeldBlocks'[q]] = HeldBlocks
  BY <1>7
<1>10. complaint' = NoComplaint
  BY DEF DebugMalloc
<1>11. /\ p \in DOMAIN HeldBlocks' \ DOMAIN HeldBlocks
       /\ DOMAIN HeldBlocks' = DOMAIN HeldBlocks \cup {p}
  BY <1>5, <1>7
<1>12. QED  BY <1>8, <1>9, <1>10, <1>11, HeapActions

LEMMA TableUnchanged ==
    ASSUME allocations' = allocations
    PROVE  Registered' = Registered /\ HeldBlocks' = HeldBlocks /\ DOMAIN HeldBlocks = Registered
<1>1. Registered' = Registered
  BY DEF Registered
<1>2. ASSUME NEW q PROVE SizeOf(q)' = SizeOf(q)
  <2>1. EntryAt(q)' = EntryAt(q)
    BY Zenon DEF EntryAt, SelectInSeq
  <2>2. QED  BY <2>1, Zenon DEF SizeOf
<1>3. QED  BY <1>1, <1>2 DEF HeldBlocks

(* An overrun of a block that was leaked by an earlier test shows nowhere. *)
LEMMA OverrunImplements ==
    ASSUME DebugInv, DebugInv', Overrun
    PROVE  Heap!SpoilBlock \/ UNCHANGED Heap!heapVars
<1>1. PICK p \in InHeap :
                 /\ data'[p][1] = Overwritten \/ data'[p][Len(data'[p])] = Overwritten
                 /\ \A q \in InHeap : q # p => data'[q] = data[q]
  BY OverrunEffect
<1>2. HeapFacts
  BY HeapFactsHold
<1>3. allocations' = allocations /\ complaint' = complaint
  BY DEF Overrun
<1>4. Registered' = Registered /\ HeldBlocks' = HeldBlocks /\ DOMAIN HeldBlocks = Registered
  BY <1>3, TableUnchanged
<1>5. Overwritten # p
  BY DebugAllocatorAssumption DEF DebugInv
<1>6. IsSpoilt(p)'
  BY <1>1, <1>5 DEF IsSpoilt
<1>7. \A q \in Registered : q # p => (IsSpoilt(q)' <=> IsSpoilt(q))
  BY <1>1, <1>2 DEF IsSpoilt, HeapFacts
<1>8. /\ SpoiltBlocks' = {q \in Registered : IsSpoilt(q)'}
      /\ SpoiltBlocks = {q \in Registered : IsSpoilt(q)}
  BY <1>4 DEF SpoiltBlocks
<1>9. CASE p \in Registered
  <2>1. SpoiltBlocks' = SpoiltBlocks \cup {p}
    BY <1>6, <1>7, <1>8, <1>9
  <2>2. /\ \E q \in DOMAIN HeldBlocks : SpoiltBlocks' = SpoiltBlocks \cup {q}
        /\ UNCHANGED <<HeldBlocks, complaint>>
    BY <1>3, <1>4, <1>9, <2>1
  <2>3. QED  BY <2>2, HeapActions, Zenon
<1>10. CASE p \notin Registered
  <2>1. SpoiltBlocks' = SpoiltBlocks
    BY <1>7, <1>8, <1>10
  <2>2. <<HeldBlocks, SpoiltBlocks, complaint>>' = <<HeldBlocks, SpoiltBlocks, complaint>>
    BY <1>3, <1>4, <2>1
  <2>3. Heap!heapVars = <<HeldBlocks, SpoiltBlocks, complaint>>
        /\ (Heap!heapVars)' = <<HeldBlocks, SpoiltBlocks, complaint>>'
    <3>1. Heap!heapVars = <<HeldBlocks, SpoiltBlocks, complaint>>
      BY HeapActions
    <3>2. QED  BY <3>1, Zenon DEF Heap!heapVars, HeldBlocks, SpoiltBlocks, IsSpoilt
  <2>4. QED  BY <2>2, <2>3
<1>11. QED  BY <1>9, <1>10

LEMMA FreeImplements ==
    ASSUME DebugInv, DebugInv', DebugFree
    PROVE  Heap!ReturnBlock
<1>1. PICK p \in Registered :
        \E intSize \in IntSizes :
                 /\ complaint' = Complaining(<<p, intSize>>,
                      (IF Corrupted(p, SizeOf(p)) THEN {"corrupted"} ELSE {})
                      \cup (IF intSize # SizeOf(p) THEN {"size"} ELSE {}))
                 /\ \A q \in InHeap \ {p} : data'[q] = data[q]
                 /\ \A q \in Addresses, s \in IntSizes :
                       Has(allocations', q, s) <=> Has(allocations, q, s) /\ q # p
  BY FreeEffectOf
<1>2. PICK intSize \in IntSizes :
                 /\ complaint' = Complaining(<<p, intSize>>,
                      (IF Corrupted(p, SizeOf(p)) THEN {"corrupted"} ELSE {})
                      \cup (IF intSize # SizeOf(p) THEN {"size"} ELSE {}))
                 /\ \A q \in InHeap \ {p} : data'[q] = data[q]
                 /\ \A q \in Addresses, s \in IntSizes :
                       Has(allocations', q, s) <=> Has(allocations, q, s) /\ q # p
  BY <1>1
<1>3. HeapFacts /\ HeapFacts'
  BY FactsNext
<1>4. /\ Registered \subseteq Addresses /\ Registered' \subseteq Addresses
      /\ \A q \in Addresses : q \in Registered <=> \E s \in IntSizes : Has(allocations, q, s)
      /\ \A q \in Addresses : q \in Registered' <=> \E s \in IntSizes : Has(allocations', q, s)
      /\ \A q \in Addresses, s \in IntSizes : Has(allocations, q, s) => SizeOf(q) = s
      /\ \A q \in Addresses, s \in IntSizes : Has(allocations', q, s) => SizeOf(q)' = s
      /\ \A q \in Registered : q \in InHeap /\ Len(data[q]) = SizeOf(q) + 2
  BY <1>3 DEF HeapFacts
<1>5. Registered' = Registered \ {p}
  BY <1>2, <1>4
<1>6. \A q \in Registered' : SizeOf(q)' = SizeOf(q)
  BY <1>2, <1>4
<1>7. /\ DOMAIN HeldBlocks = Registered /\ HeldBlocks[p] = SizeOf(p)
      /\ HeldBlocks' = [q \in DOMAIN HeldBlocks \ {p} |-> HeldBlocks[q]]
  BY <1>5, <1>6 DEF HeldBlocks
<1>8. SpoiltBlocks' = SpoiltBlocks \ {p}
  <2>1. \A q \in Registered' : IsSpoilt(q)' <=> IsSpoilt(q)
    BY <1>2, <1>4, <1>5 DEF IsSpoilt
  <2>2. SpoiltBlocks' = {q \in Registered' : IsSpoilt(q)'}
    BY DEF SpoiltBlocks
  <2>3. SpoiltBlocks = {q \in Registered : IsSpoilt(q)}
    BY DEF SpoiltBlocks
  <2>4. QED  BY <1>5, <2>1, <2>2, <2>3
<1>9. Corrupted(p, SizeOf(p)) <=> p \in SpoiltBlocks
  BY <1>4 DEF Corrupted, SpoiltBlocks, IsSpoilt
<1> DEFINE as == (IF p \in SpoiltBlocks THEN {"corrupted"} ELSE {})
                 \cup (IF intSize = HeldBlocks[p] THEN {} ELSE {"size"})
<1>10. complaint' = Complaining(<<p, intSize>>, as)
  <2>1. (IF Corrupted(p, SizeOf(p)) THEN {"corrupted"} ELSE {})
          = (IF p \in SpoiltBlocks THEN {"corrupted"} ELSE {})
    BY <1>9
  <2>2. (IF intSize # SizeOf(p) THEN {"size"} ELSE {})
          = (IF intSize = HeldBlocks[p] THEN {} ELSE {"size"})
    BY <1>7
  <2>3. QED  BY <1>2, <2>1, <2>2, Zenon
<1> HIDE DEF as
<1>11. complaint'.given = <<p, intSize>>
  BY <1>10 DEF Complaining, NoComplaint
<1>12. complaint'.given[1] = p /\ complaint'.given[2] = intSize /\ Len(complaint'.given) = 2
  BY <1>11
<1>13. complaint' = Complaining(<<complaint'.given[1], complaint'.given[2]>>,
                      (IF complaint'.given[1] \in SpoiltBlocks THEN {"corrupted"} ELSE {})
                      \cup (IF complaint'.given[2] = HeldBlocks[complaint'.given[1]]
                            THEN {} ELSE {"size"}))
  BY <1>10, <1>12, Zenon DEF as
<1>14. /\ complaint'.given[1] \in DOMAIN HeldBlocks
       /\ HeldBlocks' = [q \in DOMAIN HeldBlocks \ {complaint'.given[1]} |-> HeldBlocks[q]]
       /\ SpoiltBlocks' = SpoiltBlocks \ {complaint'.given[1]}
  BY <1>7, <1>8, <1>12
<1>15. QED  BY <1>12, <1>13, <1>14, HeapActions, Zenon

LEMMA RejectImplements ==
    ASSUME DebugInv, DebugFreeRejected
    PROVE  Heap!RejectBlock
<1>1. allocations' = allocations /\ data' = data
  BY DEF DebugFreeRejected
<1>2. HeapFacts
  BY HeapFactsHold
<1>3. HeldBlocks' = HeldBlocks /\ SpoiltBlocks' = SpoiltBlocks /\ DOMAIN HeldBlocks = Registered
  BY <1>1, TableUnchanged DEF SpoiltBlocks, IsSpoilt
<1>4. CASE complaint' = Complaining(<<>>, {"null"})
  BY <1>3, <1>4, HeapActions
<1>5. ASSUME NEW p \in Addresses, EntryAt(p) = 0, complaint' = Complaining(<<p>>, {"unknown"})
      PROVE  Heap!RejectBlock
  <2>1. p \notin Registered
    BY <1>2, <1>5, Zenon DEF HeapFacts
  <2>2. complaint'.given = <<p>>
    BY <1>5 DEF Complaining, NoComplaint
  <2>3. Len(complaint'.given) = 1 /\ complaint'.given[1] = p
    BY <2>2
  <2>4. complaint'.given[1] \notin DOMAIN HeldBlocks
    BY <1>3, <2>1, <2>3
  <2>5. complaint' = Complaining(complaint'.given, {"unknown"})
    BY <1>5, <2>2, Zenon
  <2>6. QED  BY <1>3, <2>3, <2>4, <2>5, HeapActions
<1>6. QED  BY <1>4, <1>5 DEF DebugFreeRejected

(* Every block that was not given back is among the leaks, once and with   *)
(* its size.                                                               *)
LEMMA LeakedIs ==
    ASSUME DebugInv
    PROVE  LET n == Len(Leaked)
               b == [j \in 1 .. n |-> Leaked[j].ptr]
           IN  /\ n \in Nat /\ DOMAIN Leaked = 1 .. n
               /\ b \in Bijection(1 .. n, Registered)
               /\ \A j \in 1 .. n : Leaked[j].size \in IntSizes /\ SizeOf(b[j]) = Leaked[j].size
<1> DEFINE N == AllocationTable
           t == allocations
           seqs == [i \in 1 .. N |-> t[i - 1]]
           n == Len(Leaked)
           b == [j \in 1 .. n |-> Leaked[j].ptr]
<1>1. HeapFacts /\ IsTable(t) /\ N \in Nat \ {0}
  BY HeapFactsHold, DebugAllocatorAssumption DEF DebugInv
<1>2. \A i \in 1 .. N : i - 1 \in 0 .. N - 1 /\ seqs[i] = t[i - 1] /\ seqs[i] \in Seq(Entry)
  BY <1>1 DEF IsTable
<1>3. seqs \in [1 .. N -> Seq(Entry)] /\ Leaked = FlattenSeq(seqs)
  BY <1>2 DEF Leaked
<1> HIDE DEF seqs, N
<1>4. Leaked \in Seq(Entry) /\ \E h : IsPlacing(h, Leaked, seqs, N)
  BY <1>1, <1>3, FlattenedPlaces
<1>5. PICK h : IsPlacing(h, Leaked, seqs, N)
  BY <1>4
<1>6. n \in Nat /\ DOMAIN Leaked = 1 .. n
  BY <1>4, LenProperties
<1>7. ASSUME NEW j \in 1 .. n
      PROVE  /\ h[j] = <<h[j][1], h[j][2]>>
             /\ h[j][1] \in Int /\ h[j][1] - 1 \in 0 .. N - 1
             /\ h[j][2] \in EntriesOf(t, h[j][1] - 1)
             /\ Leaked[j] = t[h[j][1] - 1][h[j][2]]
             /\ HASH(Leaked[j].ptr) = h[j][1] - 1
             /\ Leaked[j].ptr \in Addresses /\ Leaked[j].size \in IntSizes
             /\ Has(t, Leaked[j].ptr, Leaked[j].size)
  <2> DEFINE i == h[j][1]
             k == h[j][2]
  <2>1. /\ h[j] = <<i, k>> /\ i \in 1 .. N /\ k \in 1 .. Len(seqs[i]) /\ Leaked[j] = seqs[i][k]
    BY <1>5 DEF IsPlacing
  <2> HIDE DEF i, k
  <2>2. i - 1 \in 0 .. N - 1 /\ i \in Int /\ k \in EntriesOf(t, i - 1) /\ Leaked[j] = t[i - 1][k]
    BY <1>1, <1>2, <2>1 DEF EntriesOf
  <2>3. LET e == t[i - 1][k] IN /\ e.ptr \in Addresses /\ e.size \in IntSizes
                                /\ HASH(e.ptr) = i - 1 /\ Has(t, e.ptr, e.size)
    BY <1>1, <2>2, EntryIs DEF N
  <2>4. QED  BY <2>1, <2>2, <2>3 DEF i, k
<1>8. \A j \in 1 .. n : b[j] = Leaked[j].ptr /\ b[j] \in Registered /\ SizeOf(b[j]) = Leaked[j].size
  BY <1>1, <1>7 DEF HeapFacts
<1>9. ASSUME NEW j \in 1 .. n, NEW l \in 1 .. n, Leaked[j].ptr = Leaked[l].ptr
      PROVE  j = l
  <2>1. h[j][1] - 1 = h[l][1] - 1
    BY <1>7, <1>9
  <2>2. h[j][1] = h[l][1]
    BY <1>7, <2>1
  <2>3. h[j][2] = h[l][2]
    <3> DEFINE i == h[j][1] - 1
    <3>1. /\ i \in 0 .. AllocationTable - 1
          /\ h[j][2] \in EntriesOf(t, i) /\ h[l][2] \in EntriesOf(t, i)
          /\ t[i][h[j][2]].ptr = t[i][h[l][2]].ptr
      BY <1>7, <1>9, <2>2 DEF N
    <3> HIDE DEF i
    <3>2. QED  BY <1>1, <3>1 DEF IsTable
  <2>4. h[j] = h[l]
    BY <1>7, <2>2, <2>3
  <2>5. QED  BY <1>5, <2>4 DEF IsPlacing
<1>10. ASSUME NEW p \in Registered PROVE \E j \in 1 .. n : Leaked[j].ptr = p
  <2> DEFINE i == HASH(p)
             k == EntryAt(p)
  <2>1. /\ p \in Addresses /\ k \in EntriesOf(t, i)
        /\ t[i][k] = [ptr |-> p, size |-> SizeOf(p)]
    BY <1>1, Zenon DEF HeapFacts
  <2>2. i \in 0 .. N - 1
    BY <2>1, HashType DEF N
  <2> HIDE DEF i, k
  <2>3. i + 1 \in 1 .. N /\ (i + 1) - 1 = i
    BY <1>1, <2>2
  <2>4. seqs[i + 1] = t[i]
    BY <1>2, <2>3
  <2>5. k \in 1 .. Len(seqs[i + 1])
    BY <2>1, <2>4 DEF EntriesOf
  <2>6. PICK j \in 1 .. n : h[j] = <<i + 1, k>>
    BY <1>5, <2>3, <2>5 DEF IsPlacing
  <2>7. h[j][1] = i + 1 /\ h[j][2] = k
    BY <2>6
  <2>8. Leaked[j] = t[i][k]
    BY <1>7, <2>3, <2>7
  <2>9. Leaked[j].ptr = p
    BY <2>1, <2>8
  <2>10. QED  BY <2>9
<1>11. b \in [1 .. n -> Registered] /\ DOMAIN b = 1 .. n
  BY <1>8
<1> HIDE DEF b, n
<1>12. b \in Bijection(1 .. n, Registered)
  BY <1>8, <1>9, <1>10, <1>11 DEF Bijection, Injection, Surjection, IsInjective
<1>13. QED  BY <1>6, <1>7, <1>8, <1>12 DEF b, n

LeakSizes == [j \in 1 .. Len(Leaked) |-> 4 * Leaked[j].size]
HeldSizes == [p \in Registered |-> 4 * SizeOf(p)]

LEMMA SizesType ==
    ASSUME DebugInv
    PROVE  LET n == Len(Leaked)
           IN  /\ n \in Nat /\ DOMAIN Leaked = 1 .. n
               /\ LeakSizes \in [1 .. n -> Nat] /\ HeldSizes \in [Registered -> Nat]
               /\ IsFiniteSet(Registered) /\ Cardinality(Registered) = n
               /\ SumOf(LeakSizes) = SumOf(HeldSizes)
<1> DEFINE n == Len(Leaked)
           b == [j \in 1 .. n |-> Leaked[j].ptr]
<1>1. /\ n \in Nat /\ DOMAIN Leaked = 1 .. n
      /\ b \in Bijection(1 .. n, Registered)
      /\ \A j \in 1 .. n : Leaked[j].size \in IntSizes /\ SizeOf(b[j]) = Leaked[j].size
  BY LeakedIs
<1> HIDE DEF b, n
<1>2. \A s \in IntSizes : 4 * s \in Nat
  BY DebugAllocatorAssumption
<1>3. \A p \in Registered : SizeOf(p) \in IntSizes
  BY HeapFactsHold DEF HeapFacts
<1>4. LeakSizes \in [1 .. n -> Nat] /\ \A j \in 1 .. n : LeakSizes[j] = 4 * Leaked[j].size
  BY <1>1, <1>2 DEF LeakSizes, n
<1>5. HeldSizes \in [Registered -> Nat] /\ \A p \in Registered : HeldSizes[p] = 4 * SizeOf(p)
  BY <1>2, <1>3 DEF HeldSizes
<1>6. /\ b \in Surjection(1 .. n, Registered) /\ b \in Injection(1 .. n, Registered)
      /\ \A j \in 1 .. n : b[j] \in Registered
  BY <1>1 DEF Bijection, Injection
<1>7. IsFiniteSet(1 .. n) /\ Cardinality(1 .. n) = n
  BY <1>1, FS_Interval
<1>8. IsFiniteSet(Registered) /\ Cardinality(Registered) = n
  BY <1>6, <1>7, FS_Surjection, FS_Injection
<1>9. IsFiniteSet(Units(HeldSizes))
  BY <1>5, <1>8, UnitsFinite
<1>10. \A j \in 1 .. n : LeakSizes[j] = HeldSizes[b[j]]
  BY <1>1, <1>4, <1>5, <1>6
<1>11. DOMAIN LeakSizes = 1 .. n /\ DOMAIN HeldSizes = Registered
  BY <1>4, <1>5
<1>12. Total(LeakSizes) = Total(HeldSizes)
  BY <1>1, <1>8, <1>9, <1>10, <1>11, TotalRenamed
<1>13. SumOf(LeakSizes) = SumOf(HeldSizes)
  BY <1>12, TotalIsUnits DEF SumOf
<1>14. QED  BY <1>1, <1>4, <1>5, <1>8, <1>13 DEF n

LEMMA LeakSizeIsSum ==
    ASSUME DebugInv
    PROVE  FoldLeft(LAMBDA sum, e : sum + 4 * e.size, 0, Leaked) = SumOf(LeakSizes)
<1> DEFINE n == Len(Leaked)
           D == DOMAIN Leaked
           f == LeakSizes
           Folded(F) == [s \in SUBSET (1 .. n) |-> IF s = {} THEN 0
                                                   ELSE F[s \ {Max(s)}] + f[Max(s)]]
           Left(F) == [s \in SUBSET D |-> IF s = {} THEN 0
                                          ELSE F[s \ {Max(s)}] + 4 * Leaked[Max(s)].size]
<1>1. FoldLeft(LAMBDA sum, e : sum + 4 * e.size, 0, Leaked) = (CHOOSE F : F = Left(F))[D]
  BY Zenon DEF FoldLeft, MapThenFoldSet
<1>2. n \in Nat /\ D = 1 .. n /\ f \in [1 .. n -> Nat]
  BY SizesType
<1>3. \A F : Left(F) = Folded(F)
  <2>1. \A s \in SUBSET (1 .. n) : s # {} => f[Max(s)] = 4 * Leaked[Max(s)].size
    <3>1. TAKE s \in SUBSET (1 .. n)
    <3>2. s # {} => Max(s) \in 1 .. n
      BY <1>2, MaxIs
    <3>3. QED  BY <3>2 DEF LeakSizes
  <2> HIDE DEF n, f, D
  <2>2. QED  BY <1>2, <2>1
<1>4. (CHOOSE F : F = Left(F)) = (CHOOSE F : F = Folded(F))
  <2> HIDE DEF Left, Folded
  <2>1. QED  BY <1>3, Zenon
<1>5. (CHOOSE F : F = Folded(F))[1 .. n] = SumOf(f)
  <2> HIDE DEF n, f
  <2>1. QED  BY <1>2, FoldedSum, Zenon
<1>6. QED  BY <1>1, <1>2, <1>4, <1>5

LEMMA HeldSizeIsSum ==
    ASSUME DebugInv
    PROVE  Heap!MapThenSumSet(LAMBDA p : 4 * HeldBlocks[p], DOMAIN HeldBlocks) = SumOf(HeldSizes)
<1> DEFINE D == Registered
           F == HeldSizes
           one(s) == CHOOSE x \in s : TRUE
           Folded(g) == [s \in SUBSET D |-> IF s = {} THEN 0 ELSE F[one(s)] + g[s \ {one(s)}]]
           Mapped(g) == [s \in SUBSET D |-> IF s = {} THEN 0
                                            ELSE 4 * HeldBlocks[one(s)] + g[s \ {one(s)}]]
<1>1. DOMAIN HeldBlocks = D
  BY DEF HeldBlocks
<1>2. Heap!MapThenSumSet(LAMBDA p : 4 * HeldBlocks[p], DOMAIN HeldBlocks)
        = (CHOOSE g : g = Mapped(g))[D]
  <2>1. Heap!MapThenSumSet(LAMBDA p : 4 * HeldBlocks[p], D) = (CHOOSE g : g = Mapped(g))[D]
    BY Zenon DEF Heap!MapThenSumSet, Heap!MapThenFoldSet
  <2>2. QED  BY <1>1, <2>1, Zenon
<1>3. FoldOf(D, F) = (CHOOSE g : g = Folded(g))[D]
  BY Zenon DEF FoldOf
<1>4. \A g : Mapped(g) = Folded(g)
  <2>1. \A s \in SUBSET D : s # {} => F[one(s)] = 4 * HeldBlocks[one(s)]
    BY DEF HeldSizes, HeldBlocks
  <2> HIDE DEF one, F, D
  <2>2. QED  BY <2>1
<1> HIDE DEF Mapped, Folded
<1>5. (CHOOSE g : g = Mapped(g)) = (CHOOSE g : g = Folded(g))
  BY <1>4, Zenon
<1>6. FoldOf(D, F) = SumOf(F)
  <2>1. IsFiniteSet(D) /\ F \in [D -> Nat]
    BY SizesType
  <2> HIDE DEF F, D
  <2>2. QED  BY <2>1, FoldIsSum
<1>7. QED  BY <1>2, <1>3, <1>5, <1>6

LEMMA DestroyImplements ==
    ASSUME DebugInv, DebugDestroy
    PROVE  Heap!CloseHeap
<1>1. /\ complaint' = [NoComplaint EXCEPT
                       !.leaks = Len(Leaked),
                       !.leakSize = FoldLeft(LAMBDA sum, e : sum + 4 * e.size, 0, Leaked)]
      /\ allocations' = EmptyTable
  BY Zenon DEF DebugDestroy
<1>2. Registered' = {}
  <2>1. allocations' = EmptyTable
    BY DEF DebugDestroy
  <2>2. QED  BY <2>1 DEF Registered, EmptyTable, ToSet
<1>3. HeldBlocks' = [p \in {} |-> 0] /\ SpoiltBlocks' = {}
  BY <1>2 DEF HeldBlocks, SpoiltBlocks
<1>4. DOMAIN HeldBlocks = Registered
  BY DEF HeldBlocks
<1>5. Len(Leaked) = Heap!Cardinality(DOMAIN HeldBlocks)
  <2>1. Heap!Cardinality(Registered) = Cardinality(Registered)
    BY Zenon DEF Heap!Cardinality, Cardinality
  <2>2. Len(Leaked) = Cardinality(Registered)
    BY SizesType
  <2>3. QED  BY <1>4, <2>1, <2>2
<1>6. FoldLeft(LAMBDA sum, e : sum + 4 * e.size, 0, Leaked)
        = Heap!MapThenSumSet(LAMBDA p : 4 * HeldBlocks[p], DOMAIN HeldBlocks)
  <2>1. FoldLeft(LAMBDA sum, e : sum + 4 * e.size, 0, Leaked) = SumOf(LeakSizes)
    BY LeakSizeIsSum
  <2>2. Heap!MapThenSumSet(LAMBDA p : 4 * HeldBlocks[p], DOMAIN HeldBlocks) = SumOf(HeldSizes)
    BY HeldSizeIsSum
  <2>3. SumOf(LeakSizes) = SumOf(HeldSizes)
    BY SizesType
  <2>4. QED  BY <2>1, <2>2, <2>3, Zenon
<1>7. complaint' = [NoComplaint EXCEPT
                      !.leaks = Heap!Cardinality(DOMAIN HeldBlocks),
                      !.leakSize = Heap!MapThenSumSet(LAMBDA p : 4 * HeldBlocks[p],
                                                      DOMAIN HeldBlocks)]
  BY <1>1, <1>5, <1>6, Zenon
<1>8. QED  BY <1>3, <1>7, HeapActions, Zenon

LEMMA ReopenImplements ==
    ASSUME DebugInv, DebugInit
    PROVE  Heap!OpenHeap
<1>1. allocations' = EmptyTable /\ complaint' = NoComplaint
  BY DEF DebugInv, DebugInit
<1>2. Registered' = {}
  BY <1>1 DEF Registered, EmptyTable, ToSet
<1>3. HeldBlocks' = [p \in {} |-> 0] /\ SpoiltBlocks' = {}
  BY <1>2 DEF HeldBlocks, SpoiltBlocks
<1>4. QED  BY <1>1, <1>3, HeapActions

LEMMA HeapNextStep ==
    ASSUME DebugInv, DebugInv', [NextDebugAllocator]_debugAllocVars
    PROVE  [Heap!NextHeap]_(Heap!heapVars)
<1>1. CASE DebugMalloc
  BY <1>1, MallocImplements DEF Heap!NextHeap
<1>2. CASE Overrun
  BY <1>2, OverrunImplements DEF Heap!NextHeap
<1>3. CASE DebugFree
  BY <1>3, FreeImplements DEF Heap!NextHeap
<1>4. CASE DebugFreeRejected
  BY <1>4, RejectImplements DEF Heap!NextHeap
<1>5. CASE DebugDestroy
  BY <1>5, DestroyImplements DEF Heap!NextHeap
<1>6. CASE DebugInit
  BY <1>6, ReopenImplements DEF Heap!NextHeap
<1>7. CASE UNCHANGED debugAllocVars
  <2>1. allocations' = allocations /\ data' = data /\ complaint' = complaint
    BY <1>7 DEF debugAllocVars
  <2>2. HeldBlocks' = HeldBlocks /\ SpoiltBlocks' = SpoiltBlocks
    BY <2>1, TableUnchanged DEF SpoiltBlocks, IsSpoilt
  <2>3. Heap!heapVars = <<HeldBlocks, SpoiltBlocks, complaint>>
        /\ (Heap!heapVars)' = <<HeldBlocks, SpoiltBlocks, complaint>>'
    <3>1. Heap!heapVars = <<HeldBlocks, SpoiltBlocks, complaint>>
      BY HeapActions
    <3>2. QED  BY <3>1, Zenon DEF Heap!heapVars, HeldBlocks, SpoiltBlocks, IsSpoilt
  <2>4. QED  BY <2>1, <2>2, <2>3
<1>8. QED
  BY <1>1, <1>2, <1>3, <1>4, <1>5, <1>6, <1>7 DEF NextDebugAllocator

(* For any addresses, sizes and number of chains, the debug allocator is   *)
(* to its user a heap that knows which blocks are held and how large they  *)
(* are: whatever was freed around it a block has one entry that free()     *)
(* finds, the complaints are exactly the misuses there were, and the leaks *)
(* reported at the end are the blocks still held, with their sizes.        *)
THEOREM ImplementsGuardedHeapHolds == SpecDebugAllocator => ImplementsGuardedHeap
<1>1. DebugInv /\ DebugInv' /\ [NextDebugAllocator]_debugAllocVars => [Heap!NextHeap]_(Heap!heapVars)
  BY HeapNextStep
<1>2. QED
  BY <1>1, HeapInitStep, DebugInvHolds, PTL
     DEF SpecDebugAllocator, ImplementsGuardedHeap, Heap!SpecHeap
=============================================================================
