-------------------------- MODULE PointerTableProofs --------------------------
(***************************************************************************)
(* Proofs about PointerTable, for any set of pointers with any home slots, *)
(* any mixture of additions, deletions and rehashes, and any table size.   *)
(***************************************************************************)
EXTENDS PointerTable, CountingLemmas

-----------------------------------------------------------------------------
(* The parts of the invariant, for any table t of n slots *)

IsTable(t, n) ==
    /\ n \in Nat \ {0}
    /\ t \in [0 .. n - 1 -> Ptrs \cup {NULL, TOMBSTONE}]

ContentsOf(t, n) == {t[i] : i \in Occupied(t, n)}

Reachable(t, n) ==
    \A i \in Occupied(t, n) :
        \E k \in 0 .. n - 1 :
            /\ Index(t[i], k, n) = i
            /\ \A j \in 0 .. k : t[Index(t[i], j, n)] # NULL

-----------------------------------------------------------------------------
(* Probes *)

LEMMA IndexRange ==
    ASSUME NEW n \in Nat \ {0}, NEW p \in Ptrs, NEW k \in Nat
    PROVE  Index(p, k, n) \in 0 .. n - 1
<1>1. Home[p] + k \in Nat
  BY PointerAssumption
<1>2. QED  BY <1>1, DivMod DEF Index

LEMMA ProbesCover ==
    ASSUME NEW n \in Nat \ {0}, NEW p \in Ptrs, NEW i \in 0 .. n - 1
    PROVE  \E k \in 0 .. n - 1 : Index(p, k, n) = i
<1>1. Home[p] \in Nat
  BY PointerAssumption
<1>2. QED  BY <1>1, WalkCovers DEF Index

(* A probe that can stop does stop, at the first such slot. *)
LEMMA ProbeStops ==
    ASSUME NEW t, NEW n \in Nat \ {0}, NEW p \in Ptrs, NEW Stop,
           NEW k \in 0 .. n - 1, t[Index(p, k, n)] \in Stop
    PROVE  \E j \in 0 .. k : StopsAt(t, n, p, Stop, j)
<1> DEFINE T == {j \in 0 .. k : t[Index(p, j, n)] \in Stop}
<1>1. T \subseteq Nat /\ k \in T
  OBVIOUS
<1>2. PICK m \in T : \A j \in T : m <= j
  BY <1>1, LeastNat
<1>3. m \in 0 .. k /\ t[Index(p, m, n)] \in Stop
  BY <1>2
<1>4. ASSUME NEW j \in 0 .. m - 1 PROVE t[Index(p, j, n)] \notin Stop
  BY <1>2, <1>3
<1>5. QED  BY <1>3, <1>4 DEF StopsAt

(* has() finds exactly the pointers that are stored. *)
LEMMA FoundIsStored ==
    ASSUME NEW t, NEW n, IsTable(t, n), Reachable(t, n), NEW p \in Ptrs
    PROVE  Found(t, n, p) <=> p \in ContentsOf(t, n)
<1>1. n \in Nat \ {0} /\ p # NULL
  BY PointerAssumption DEF IsTable
<1>2. ASSUME Found(t, n, p) PROVE p \in ContentsOf(t, n)
  <2>1. PICK k \in 0 .. n - 1 : t[Index(p, k, n)] = p
    BY <1>2 DEF Found
  <2>2. Index(p, k, n) \in Occupied(t, n)
    BY <1>1, <2>1, IndexRange DEF Occupied
  <2>3. QED  BY <2>1, <2>2 DEF ContentsOf
<1>3. ASSUME p \in ContentsOf(t, n) PROVE Found(t, n, p)
  <2>1. PICK i \in Occupied(t, n) : t[i] = p
    BY <1>3 DEF ContentsOf
  <2>2. PICK k \in 0 .. n - 1 : /\ Index(p, k, n) = i
                                /\ \A j \in 0 .. k : t[Index(p, j, n)] # NULL
    BY <2>1 DEF Reachable
  <2>3. t[Index(p, k, n)] \in {NULL, p}
    BY <2>1, <2>2
  <2>4. PICK j \in 0 .. k : StopsAt(t, n, p, {NULL, p}, j)
    BY <1>1, <2>3, ProbeStops
  <2>5. j \in 0 .. n - 1 /\ t[Index(p, j, n)] = p
    BY <1>1, <2>2, <2>4 DEF StopsAt
  <2>6. QED  BY <2>4, <2>5 DEF Found
<1>4. QED  BY <1>2, <1>3

-----------------------------------------------------------------------------
(* One entry more *)

LEMMA OccupiedCounted ==
    ASSUME NEW t, NEW n \in Nat
    PROVE  /\ IsFiniteSet(Occupied(t, n))
           /\ Cardinality(Occupied(t, n)) \in Nat
           /\ Cardinality(Occupied(t, n)) <= n
<1>1. IsFiniteSet(0 .. n - 1) /\ Cardinality(0 .. n - 1) = n
  BY FS_Interval
<1>2. Occupied(t, n) \in SUBSET (0 .. n - 1)
  BY DEF Occupied
<1>3. IsFiniteSet(Occupied(t, n)) /\ Cardinality(Occupied(t, n)) <= n
  BY <1>1, <1>2, FS_Subset
<1>4. QED  BY <1>3, FS_CardinalityType

(* Storing p in a slot that holds no pointer. *)
LEMMA Stored ==
    ASSUME NEW t, NEW n, IsTable(t, n), NEW p \in Ptrs,
           NEW i \in 0 .. n - 1, t[i] \notin Ptrs
    PROVE  LET u == [t EXCEPT ![i] = p]
           IN  /\ IsTable(u, n)
               /\ u[i] = p
               /\ \A x \in 0 .. n - 1 : x # i => u[x] = t[x]
               /\ Occupied(u, n) = Occupied(t, n) \cup {i}
               /\ ContentsOf(u, n) = ContentsOf(t, n) \cup {p}
               /\ Cardinality(Occupied(u, n)) = Cardinality(Occupied(t, n)) + 1
<1> DEFINE u == [t EXCEPT ![i] = p]
<1>1. IsTable(u, n) /\ u[i] = p /\ \A x \in 0 .. n - 1 : x # i => u[x] = t[x]
  BY DEF IsTable
<1> HIDE DEF u
<1>2. Occupied(u, n) = Occupied(t, n) \cup {i} /\ i \notin Occupied(t, n)
  BY <1>1 DEF Occupied
<1>3. ContentsOf(u, n) = ContentsOf(t, n) \cup {p}
  <2>1. \A x \in Occupied(t, n) : x \in 0 .. n - 1 /\ x # i /\ u[x] = t[x]
    BY <1>1, <1>2 DEF Occupied
  <2>2. QED  BY <1>1, <1>2, <2>1 DEF ContentsOf
<1>4. Cardinality(Occupied(u, n)) = Cardinality(Occupied(t, n)) + 1
  <2>1. n \in Nat
    BY DEF IsTable
  <2>2. QED  BY <1>2, <2>1, OccupiedCounted, FS_AddElement
<1>5. QED  BY <1>1, <1>2, <1>3, <1>4 DEF u

(* It stays reachable when no slot that the probe passed was NULL. *)
LEMMA StoredReachable ==
    ASSUME NEW t, NEW n, IsTable(t, n), Reachable(t, n), NEW p \in Ptrs,
           NEW k \in 0 .. n - 1, t[Index(p, k, n)] \notin Ptrs,
           \A j \in 0 .. k - 1 : t[Index(p, j, n)] # NULL
    PROVE  Reachable([t EXCEPT ![Index(p, k, n)] = p], n)
<1> DEFINE i == Index(p, k, n)
           u == [t EXCEPT ![i] = p]
<1>1. n \in Nat \ {0} /\ i \in 0 .. n - 1 /\ p # NULL
  BY IndexRange, PointerAssumption DEF IsTable
<1>2. /\ u[i] = p
      /\ \A x \in 0 .. n - 1 : x # i => u[x] = t[x]
      /\ Occupied(u, n) = Occupied(t, n) \cup {i}
  BY <1>1, Stored
<1>3. \A x \in 0 .. n - 1 : t[x] # NULL => u[x] # NULL
  BY <1>1, <1>2
<1> HIDE DEF u
<1>4. ASSUME NEW x \in Occupied(t, n), x # i
      PROVE  \E m \in 0 .. n - 1 : /\ Index(u[x], m, n) = x
                                   /\ \A j \in 0 .. m : u[Index(u[x], j, n)] # NULL
  <2>1. PICK m \in 0 .. n - 1 : /\ Index(t[x], m, n) = x
                                /\ \A j \in 0 .. m : t[Index(t[x], j, n)] # NULL
    BY DEF Reachable
  <2>2. t[x] \in Ptrs /\ u[x] = t[x]
    BY <1>2, <1>4 DEF Occupied
  <2>3. \A j \in 0 .. m : Index(t[x], j, n) \in 0 .. n - 1
    BY <1>1, <2>2, IndexRange
  <2>4. QED  BY <1>3, <2>1, <2>2, <2>3
<1>5. \A j \in 0 .. k : u[Index(u[i], j, n)] # NULL
  <2>1. \A j \in 0 .. k : Index(p, j, n) \in 0 .. n - 1
    BY <1>1, IndexRange
  <2>2. \A j \in 0 .. k : j = k \/ j \in 0 .. k - 1
    OBVIOUS
  <2>3. QED  BY <1>1, <1>2, <1>3, <2>1, <2>2
<1>6. Index(u[i], k, n) = i
  BY <1>2
<1> HIDE DEF i
<1>7. Reachable(u, n)
  BY <1>2, <1>4, <1>5, <1>6 DEF Reachable
<1>8. QED  BY <1>7 DEF u, i

-----------------------------------------------------------------------------
(* rehash() *)

(* A table without tombstones: what rehash() builds. *)
IsFresh(u, m) ==
    /\ m \in Nat \ {0}
    /\ u \in [0 .. m - 1 -> Ptrs \cup {NULL}]

LEMMA FreshIsTable ==
    ASSUME NEW u, NEW m, IsFresh(u, m)
    PROVE  IsTable(u, m)
BY DEF IsFresh, IsTable

LEMMA EmptyTable ==
    ASSUME NEW n \in Nat \ {0}
    PROVE  /\ IsFresh(Empty(n), n)
           /\ Occupied(Empty(n), n) = {}
           /\ ContentsOf(Empty(n), n) = {}
           /\ Reachable(Empty(n), n)
           /\ Cardinality(Occupied(Empty(n), n)) = 0
<1>1. IsFresh(Empty(n), n) /\ \A i \in 0 .. n - 1 : Empty(n)[i] = NULL
  BY DEF IsFresh, Empty
<1>2. Occupied(Empty(n), n) = {}
  BY <1>1, PointerAssumption DEF Occupied
<1>3. QED  BY <1>1, <1>2, FS_EmptySet DEF ContentsOf, Reachable

(* Whatever the slot is, an insertion gives a table of the same kind. *)
LEMMA InsertGivesTable ==
    ASSUME NEW u, NEW m, IsFresh(u, m), NEW p \in Ptrs
    PROVE  IsFresh(Insert(u, m, p), m)
<1> DEFINE k == CHOOSE k \in 0 .. m - 1 : StopsAt(u, m, p, {NULL}, k)
           i == Index(p, k, m)
<1>1. Insert(u, m, p) = [u EXCEPT ![i] = p]
  BY DEF Insert
<1> HIDE DEF k, i
<1>2. QED  BY <1>1 DEF IsFresh

(* In a table that is not full, an insertion finds a free slot: one entry  *)
(* more, everything else as it was.                                        *)
LEMMA InsertWorks ==
    ASSUME NEW u, NEW m, IsFresh(u, m), Reachable(u, m), NEW p \in Ptrs,
           Cardinality(Occupied(u, m)) < m
    PROVE  LET v == Insert(u, m, p)
           IN  /\ IsFresh(v, m)
               /\ Reachable(v, m)
               /\ ContentsOf(v, m) = ContentsOf(u, m) \cup {p}
               /\ Cardinality(Occupied(v, m)) = Cardinality(Occupied(u, m)) + 1
<1>1. m \in Nat \ {0} /\ IsTable(u, m)
  BY FreshIsTable DEF IsFresh
<1>2. PICK f \in 0 .. m - 1 : u[f] = NULL
  <2>1. SUFFICES ASSUME \A f \in 0 .. m - 1 : u[f] # NULL PROVE FALSE
    OBVIOUS
  <2>2. Occupied(u, m) = 0 .. m - 1
    BY <2>1 DEF Occupied, IsFresh
  <2>3. Cardinality(0 .. m - 1) = m
    BY <1>1, FS_Interval
  <2>4. QED  BY <1>1, <2>2, <2>3
<1>3. PICK j \in 0 .. m - 1 : StopsAt(u, m, p, {NULL}, j)
  <2>1. PICK j \in 0 .. m - 1 : Index(p, j, m) = f
    BY <1>1, ProbesCover
  <2>2. PICK k \in 0 .. j : StopsAt(u, m, p, {NULL}, k)
    BY <1>1, <1>2, <2>1, ProbeStops
  <2>3. k \in 0 .. m - 1
    BY <1>1
  <2>4. QED  BY <2>2, <2>3
<1> DEFINE k == CHOOSE k \in 0 .. m - 1 : StopsAt(u, m, p, {NULL}, k)
           v == [u EXCEPT ![Index(p, k, m)] = p]
<1>4. k \in 0 .. m - 1 /\ StopsAt(u, m, p, {NULL}, k)
  BY <1>3
<1>5. Insert(u, m, p) = v
  BY DEF Insert
<1> HIDE DEF k, v
<1>6. /\ u[Index(p, k, m)] = NULL
      /\ \A x \in 0 .. k - 1 : u[Index(p, x, m)] # NULL
      /\ Index(p, k, m) \in 0 .. m - 1
  BY <1>1, <1>4, IndexRange DEF StopsAt
<1>7. Reachable(v, m)
  BY <1>1, <1>4, <1>6, StoredReachable, PointerAssumption DEF v
<1>8. /\ ContentsOf(v, m) = ContentsOf(u, m) \cup {p}
      /\ Cardinality(Occupied(v, m)) = Cardinality(Occupied(u, m)) + 1
  <2>1. u[Index(p, k, m)] \notin Ptrs /\ Index(p, k, m) \in 0 .. m - 1
    BY <1>6, PointerAssumption
  <2>2. QED  BY <1>1, <2>1, Stored DEF v
<1>9. IsFresh(v, m)
  BY <1>5, InsertGivesTable
<1>10. QED  BY <1>5, <1>7, <1>8, <1>9

(* The loop of rehash(), as the sequence of the tables it goes through. *)
IsRefilling(g, t, n, m) ==
    /\ g[0] = Empty(m)
    /\ \A k \in 1 .. n :
          g[k] = IF t[k - 1] \in Ptrs THEN Insert(g[k - 1], m, t[k - 1]) ELSE g[k - 1]
    /\ Refilled(t, n, m) = g[n]

LEMMA RefilledByLoop ==
    ASSUME NEW t, NEW n \in Nat \ {0}, NEW m \in Nat \ {0}
    PROVE  \E g : IsRefilling(g, t, n, m)
<1> DEFINE Fresh == [0 .. m - 1 -> Ptrs \cup {NULL}]
           Step(k, u) == IF t[k - 1] \in Ptrs THEN Insert(u, m, t[k - 1]) ELSE u
           step == [k \in 1 .. n |-> [u \in Fresh |-> Step(k, u)]]
           Loop(g) == [k \in 0 .. n |-> IF k = 0 THEN Empty(m) ELSE Step(k, g[k - 1])]
           new == CHOOSE g : g = Loop(g)
<1>1. Empty(m) \in Fresh
  BY EmptyTable DEF IsFresh
<1>2. \A k \in 1 .. n : \A u \in Fresh : Step(k, u) \in Fresh
  BY InsertGivesTable DEF IsFresh
<1>3. Refilled(t, n, m) = new[n]
  BY Zenon DEF Refilled
<1> HIDE DEF Fresh, Step
<1>4. step \in [1 .. n -> [Fresh -> Fresh]]
  BY <1>2
<1>5. \A k \in 1 .. n : \A u \in Fresh : step[k][u] = Step(k, u)
  OBVIOUS
<1> HIDE DEF step
<1>6. PICK g : IsLoop(n, Fresh, Empty(m), step, g)
  BY <1>1, <1>4, Iteration
<1>7. g = Loop(g)
  <2>1. \A k \in 1 .. n : g[k - 1] \in Fresh /\ g[k] = Step(k, g[k - 1])
    BY <1>5, <1>6 DEF IsLoop
  <2>2. \A k \in 0 .. n : g[k] = IF k = 0 THEN Empty(m) ELSE Step(k, g[k - 1])
    BY <1>6, <2>1 DEF IsLoop
  <2>3. QED  BY <1>6, <2>2 DEF IsLoop
<1> HIDE DEF Loop
<1>8. new = Loop(new)
  BY <1>7, Zenon
<1> HIDE DEF new
<1>9. /\ new[0] = Empty(m)
      /\ \A k \in 1 .. n : new[k] = Step(k, new[k - 1])
  BY <1>8 DEF Loop
<1>10. IsRefilling(new, t, n, m)
  BY <1>3, <1>9 DEF Step, IsRefilling
<1>11. QED  BY <1>10

(* What the new table holds after k turns of the loop. *)
Moved(t, k) == {x \in 0 .. k - 1 : t[x] \in Ptrs}

IsFilled(t, k, u, m) ==
    /\ IsFresh(u, m)
    /\ Reachable(u, m)
    /\ ContentsOf(u, m) = {t[x] : x \in Moved(t, k)}
    /\ Cardinality(Occupied(u, m)) = Cardinality(Moved(t, k))

LEMMA MovedCounted ==
    ASSUME NEW t, NEW k \in Nat
    PROVE  /\ IsFiniteSet(Moved(t, k))
           /\ Cardinality(Moved(t, k)) \in Nat
           /\ Cardinality(Moved(t, k)) <= k
<1>1. Moved(t, k) = Occupied(t, k)
  BY DEF Moved, Occupied
<1>2. QED  BY <1>1, OccupiedCounted

(* Refilling a table that has at least as many slots loses and adds        *)
(* nothing: each turn of the loop finds a free slot.                       *)
LEMMA RefilledKeeps ==
    ASSUME NEW t, NEW n \in Nat \ {0}, NEW m \in Nat \ {0}, n <= m
    PROVE  LET u == Refilled(t, n, m)
           IN  /\ IsFresh(u, m)
               /\ Reachable(u, m)
               /\ ContentsOf(u, m) = ContentsOf(t, n)
               /\ Cardinality(Occupied(u, m)) = Cardinality(Occupied(t, n))
<1> PICK g : IsRefilling(g, t, n, m)
  BY RefilledByLoop
<1>1. /\ g[0] = Empty(m)
      /\ \A k \in 1 .. n :
            g[k] = IF t[k - 1] \in Ptrs THEN Insert(g[k - 1], m, t[k - 1]) ELSE g[k - 1]
      /\ Refilled(t, n, m) = g[n]
  BY DEF IsRefilling
<1> DEFINE Done == {k \in 0 .. n : IsFilled(t, k, g[k], m)}
<1>2. 0 \in Done
  <2>1. Moved(t, 0) = {}
    BY DEF Moved
  <2>2. IsFilled(t, 0, g[0], m)
    BY <1>1, <2>1, EmptyTable, FS_EmptySet DEF IsFilled
  <2>3. QED  BY <2>2
<1>3. ASSUME NEW k \in 1 .. n, k - 1 \in Done PROVE k \in Done
  <2>1. IsFilled(t, k - 1, g[k - 1], m) /\ k \in 0 .. n /\ k - 1 \in Nat /\ k - 1 < m
    BY <1>3
  <2> HIDE DEF Done
  <2>2. CASE t[k - 1] \in Ptrs
    <3>1. g[k] = Insert(g[k - 1], m, t[k - 1])
      BY <1>1, <2>2
    <3>2. Moved(t, k) = Moved(t, k - 1) \cup {k - 1} /\ k - 1 \notin Moved(t, k - 1)
      BY <2>1, <2>2 DEF Moved
    <3>3. Cardinality(Moved(t, k)) = Cardinality(Moved(t, k - 1)) + 1
      BY <2>1, <3>2, MovedCounted, FS_AddElement
    <3>4. Cardinality(Occupied(g[k - 1], m)) < m
      BY <2>1, MovedCounted DEF IsFilled
    <3>5. /\ IsFresh(g[k], m)
          /\ Reachable(g[k], m)
          /\ ContentsOf(g[k], m) = ContentsOf(g[k - 1], m) \cup {t[k - 1]}
          /\ Cardinality(Occupied(g[k], m)) = Cardinality(Occupied(g[k - 1], m)) + 1
      BY <2>1, <2>2, <3>1, <3>4, InsertWorks DEF IsFilled
    <3>6. {t[x] : x \in Moved(t, k)} = {t[x] : x \in Moved(t, k - 1)} \cup {t[k - 1]}
      BY <3>2
    <3>7. IsFilled(t, k, g[k], m)
      BY <2>1, <3>3, <3>5, <3>6 DEF IsFilled
    <3>8. QED  BY <2>1, <3>7 DEF Done
  <2>3. CASE t[k - 1] \notin Ptrs
    <3>1. g[k] = g[k - 1]
      BY <1>1, <2>3
    <3>2. Moved(t, k) = Moved(t, k - 1)
      BY <2>1, <2>3 DEF Moved
    <3>3. IsFilled(t, k, g[k], m)
      BY <2>1, <3>1, <3>2 DEF IsFilled
    <3>4. QED  BY <2>1, <3>3 DEF Done
  <2>4. QED  BY <2>2, <2>3
<1>4. n \in Done
  <2>1. \A k \in 1 .. n : k - 1 \in Done => k \in Done
    BY <1>3
  <2>2. n \in 0 .. n /\ n \in Nat
    OBVIOUS
  <2> HIDE DEF Done
  <2>3. QED  BY <1>2, <2>1, <2>2, UpTo
<1>5. IsFilled(t, n, Refilled(t, n, m), m)
  BY <1>1, <1>4
<1>6. Moved(t, n) = Occupied(t, n)
  BY DEF Moved, Occupied
<1>7. QED  BY <1>5, <1>6 DEF IsFilled, ContentsOf

-----------------------------------------------------------------------------
(* The inductive invariant *)

(* The three invariants together, for any table: none of them is inductive *)
(* alone, because a probe ends only in a table that is not full, and a     *)
(* deletion counts right only if the entry is there.                       *)
IsSound(t, n, c) ==
    /\ n \in 2 .. MaxSize
    /\ IsTable(t, n)
    /\ c = Cardinality(Occupied(t, n))
    /\ 2 * c <= n
    /\ Reachable(t, n)

Inv == IsSound(table, tableSize, nbPointers)

LEMMA InvImplies ==
    ASSUME Inv
    PROVE  TypeOK /\ AtMostHalfFull /\ EveryEntryReachable
<1>1. tableSize \in Nat /\ IsTable(table, tableSize)
  BY DEF Inv, IsSound, IsTable
<1>2. TypeOK
  BY <1>1, OccupiedCounted DEF Inv, IsSound, IsTable, TypeOK
<1>3. AtMostHalfFull
  BY DEF Inv, IsSound, AtMostHalfFull
<1>4. EveryEntryReachable
  BY DEF Inv, IsSound, EveryEntryReachable, Reachable
<1>5. QED  BY <1>2, <1>3, <1>4

LEMMA InitInv == Init => Inv
<1>1. SUFFICES ASSUME Init PROVE Inv
  OBVIOUS
<1>2. tableSize = 2 /\ table = Empty(2) /\ nbPointers = 0 /\ 2 \in 2 .. MaxSize
  BY <1>1, PointerAssumption DEF Init
<1>3. 2 \in Nat \ {0}
  OBVIOUS
<1>4. QED  BY <1>2, <1>3, EmptyTable, FreshIsTable DEF Inv, IsSound

(* What the table is after an addition, before any rehash. *)
LEMMA AddPut ==
    ASSUME Inv, NEW p \in Ptrs, NEW k \in 0 .. tableSize - 1,
           StopsAt(table, tableSize, p, {NULL, TOMBSTONE, p}, k),
           table[Index(p, k, tableSize)] # p
    PROVE  LET t == [table EXCEPT ![Index(p, k, tableSize)] = p]
           IN  /\ IsTable(t, tableSize)
               /\ Reachable(t, tableSize)
               /\ ContentsOf(t, tableSize) = Contents \cup {p}
               /\ Cardinality(Occupied(t, tableSize)) = nbPointers + 1
<1> DEFINE i == Index(p, k, tableSize)
<1>1. /\ tableSize \in Nat \ {0} /\ IsTable(table, tableSize) /\ Reachable(table, tableSize)
      /\ nbPointers = Cardinality(Occupied(table, tableSize))
  BY DEF Inv, IsSound, IsTable
<1>2. i \in 0 .. tableSize - 1 /\ table[i] \notin Ptrs
  BY <1>1, IndexRange, PointerAssumption DEF StopsAt
<1>3. \A j \in 0 .. k - 1 : table[Index(p, j, tableSize)] # NULL
  BY DEF StopsAt
<1>4. ContentsOf(table, tableSize) = Contents
  BY DEF Contents, ContentsOf
<1>5. Reachable([table EXCEPT ![i] = p], tableSize)
  BY <1>1, <1>2, <1>3, StoredReachable
<1> HIDE DEF i
<1>6. /\ IsTable([table EXCEPT ![i] = p], tableSize)
      /\ ContentsOf([table EXCEPT ![i] = p], tableSize) = Contents \cup {p}
      /\ Cardinality(Occupied([table EXCEPT ![i] = p], tableSize)) = nbPointers + 1
  <2> DEFINE t == [table EXCEPT ![i] = p]
  <2>1. /\ IsTable(t, tableSize)
        /\ ContentsOf(t, tableSize) = ContentsOf(table, tableSize) \cup {p}
        /\ Cardinality(Occupied(t, tableSize)) = Cardinality(Occupied(table, tableSize)) + 1
    <3>1. IsTable(t, tableSize)
      BY <1>1, <1>2, Stored
    <3>2. ContentsOf(t, tableSize) = ContentsOf(table, tableSize) \cup {p}
      BY <1>1, <1>2, Stored
    <3>3. Cardinality(Occupied(t, tableSize)) = Cardinality(Occupied(table, tableSize)) + 1
      BY <1>1, <1>2, Stored
    <3>4. QED  BY <3>1, <3>2, <3>3
  <2> HIDE DEF t
  <2>2. /\ IsTable(t, tableSize)
        /\ ContentsOf(t, tableSize) = Contents \cup {p}
        /\ Cardinality(Occupied(t, tableSize)) = nbPointers + 1
    BY <1>1, <1>4, <2>1
  <2>3. QED  BY <2>2 DEF t
<1>7. QED  BY <1>5, <1>6 DEF i

(* add() keeps everything that is stored, and p is stored afterwards. *)
LEMMA AddStep ==
    ASSUME Inv, NEW p \in Ptrs, 2 * tableSize <= MaxSize, Add(p)
    PROVE  /\ Inv'
           /\ Contents' = Contents \cup {p}
           /\ IsFresh(table, tableSize) => IsFresh(table, tableSize)'
           /\ \/ /\ UNCHANGED <<table, tableSize, nbPointers>>
                 /\ p \in Contents
                 /\ last' = Call("add", p, FALSE)
              \/ /\ nbPointers' = nbPointers + 1
                 /\ last' = Call("add", p, TRUE)
<1>1. PICK k \in 0 .. tableSize - 1 :
         LET i == Index(p, k, tableSize)
             t == [table EXCEPT ![i] = p]
         IN  /\ StopsAt(table, tableSize, p, {NULL, TOMBSTONE, p}, k)
             /\ last' = Call("add", p, table[i] # p)
             /\ IF table[i] = p
                THEN UNCHANGED <<table, tableSize, nbPointers>>
                ELSE /\ nbPointers' = nbPointers + 1
                     /\ IF k > MaxRetries \/ nbPointers' > tableSize \div 2
                        THEN /\ table' = Rehashed(t, tableSize)
                             /\ tableSize' = 2 * tableSize
                        ELSE /\ table' = t
                             /\ UNCHANGED tableSize
  BY DEF Add
<1> DEFINE i == Index(p, k, tableSize)
           t == [table EXCEPT ![i] = p]
<1>2. /\ tableSize \in Nat \ {0} /\ tableSize \in 2 .. MaxSize /\ MaxSize \in Nat
      /\ nbPointers \in Nat
      /\ nbPointers = Cardinality(Occupied(table, tableSize))
      /\ 2 * nbPointers <= tableSize
  BY OccupiedCounted, PointerAssumption DEF Inv, IsSound, IsTable
<1>3. CASE table[i] = p
  <2>1. UNCHANGED <<table, tableSize, nbPointers>> /\ last' = Call("add", p, FALSE)
    BY <1>1, <1>3
  <2>2. i \in Occupied(table, tableSize)
    BY <1>2, <1>3, IndexRange DEF Occupied
  <2>3. p \in Contents
    BY <1>3, <2>2 DEF Contents
  <2>4. Inv' /\ Contents' = Contents /\ IsFresh(table, tableSize) = IsFresh(table, tableSize)'
    BY <2>1 DEF Inv, Contents
  <2>5. QED  BY <2>1, <2>3, <2>4
<1>4. CASE table[i] # p
  <2>1. /\ IsTable(t, tableSize)
        /\ Reachable(t, tableSize)
        /\ ContentsOf(t, tableSize) = Contents \cup {p}
        /\ Cardinality(Occupied(t, tableSize)) = nbPointers + 1
    BY <1>1, <1>4, AddPut
  <2>2. /\ nbPointers' = nbPointers + 1
        /\ last' = Call("add", p, TRUE)
        /\ IF k > MaxRetries \/ nbPointers' > tableSize \div 2
           THEN table' = Rehashed(t, tableSize) /\ tableSize' = 2 * tableSize
           ELSE table' = t /\ tableSize' = tableSize
    BY <1>1, <1>4
  <2> HIDE DEF t, i
  <2>3. CASE k > MaxRetries \/ nbPointers' > tableSize \div 2
    <3>1. table' = Refilled(t, tableSize, 2 * tableSize) /\ tableSize' = 2 * tableSize
      BY <2>2, <2>3 DEF Rehashed
    <3>2. 2 * tableSize \in Nat \ {0} /\ tableSize <= 2 * tableSize /\ tableSize' \in 2 .. MaxSize
      BY <1>2, <3>1
    <3>3. /\ IsFresh(table', tableSize')
          /\ Reachable(table', tableSize')
          /\ ContentsOf(table', tableSize') = ContentsOf(t, tableSize)
          /\ Cardinality(Occupied(table', tableSize')) = Cardinality(Occupied(t, tableSize))
      BY <1>2, <3>1, <3>2, RefilledKeeps
    <3>4. nbPointers' = Cardinality(Occupied(table', tableSize'))
      BY <2>1, <2>2, <3>3
    <3>5. 2 * nbPointers' <= tableSize'
      <4>1. Cardinality(Occupied(t, tableSize)) <= tableSize
        BY <1>2, OccupiedCounted
      <4>2. nbPointers' <= tableSize
        BY <2>1, <2>2, <4>1
      <4>3. QED  BY <1>2, <2>2, <3>1, <4>2
    <3>6. Inv'
      BY <3>2, <3>3, <3>4, <3>5, FreshIsTable DEF Inv, IsSound
    <3>7. Contents' = Contents \cup {p}
      BY <2>1, <3>3 DEF Contents, ContentsOf
    <3>8. QED  BY <2>2, <3>3, <3>6, <3>7
  <2>4. CASE ~(k > MaxRetries \/ nbPointers' > tableSize \div 2)
    <3>1. table' = t /\ tableSize' = tableSize
      BY <2>2, <2>4
    <3>2. 2 * nbPointers' <= tableSize'
      BY <1>2, <2>2, <2>4, <3>1
    <3>3. Inv'
      BY <1>2, <2>1, <2>2, <3>1, <3>2 DEF Inv, IsSound
    <3>4. Contents' = Contents \cup {p}
      BY <2>1, <3>1 DEF Contents, ContentsOf
    <3>5. IsFresh(table, tableSize) => IsFresh(table', tableSize')
      BY <3>1 DEF IsFresh, t
    <3>6. QED  BY <2>2, <3>3, <3>4, <3>5
  <2>5. QED  BY <2>3, <2>4
<1>5. QED  BY <1>3, <1>4

(* Deleting the pointer in slot i: the tombstone keeps every other entry   *)
(* reachable.                                                              *)
LEMMA Removed ==
    ASSUME NEW t, NEW n, IsTable(t, n), Reachable(t, n),
           NEW i \in 0 .. n - 1, t[i] \in Ptrs
    PROVE  LET u == [t EXCEPT ![i] = TOMBSTONE]
           IN  /\ IsTable(u, n)
               /\ Reachable(u, n)
               /\ Cardinality(Occupied(u, n)) = Cardinality(Occupied(t, n)) - 1
               /\ ContentsOf(u, n) \subseteq ContentsOf(t, n)
               /\ ContentsOf(t, n) \subseteq ContentsOf(u, n) \cup {t[i]}
<1> DEFINE u == [t EXCEPT ![i] = TOMBSTONE]
<1>1. n \in Nat \ {0} /\ TOMBSTONE # NULL /\ TOMBSTONE \notin Ptrs
  BY PointerAssumption DEF IsTable
<1>2. IsTable(u, n) /\ u[i] = TOMBSTONE /\ \A x \in 0 .. n - 1 : x # i => u[x] = t[x]
  BY DEF IsTable
<1> HIDE DEF u
<1>3. Occupied(u, n) = Occupied(t, n) \ {i} /\ i \in Occupied(t, n)
  BY <1>1, <1>2 DEF Occupied
<1>4. \A x \in Occupied(u, n) : x \in Occupied(t, n) /\ x \in 0 .. n - 1 /\ u[x] = t[x]
  BY <1>2, <1>3 DEF Occupied
<1>5. Cardinality(Occupied(u, n)) = Cardinality(Occupied(t, n)) - 1
  BY <1>1, <1>3, OccupiedCounted, FS_RemoveElement
<1>6. ContentsOf(u, n) \subseteq ContentsOf(t, n)
  BY <1>4 DEF ContentsOf
<1>7. ContentsOf(t, n) \subseteq ContentsOf(u, n) \cup {t[i]}
  BY <1>3, <1>4 DEF ContentsOf
<1>8. ASSUME NEW x \in Occupied(u, n)
      PROVE  \E k \in 0 .. n - 1 : /\ Index(u[x], k, n) = x
                                   /\ \A j \in 0 .. k : u[Index(u[x], j, n)] # NULL
  <2>1. PICK k \in 0 .. n - 1 : /\ Index(t[x], k, n) = x
                                /\ \A j \in 0 .. k : t[Index(t[x], j, n)] # NULL
    BY <1>4 DEF Reachable
  <2>2. t[x] \in Ptrs
    BY <1>4 DEF Occupied
  <2>3. \A j \in 0 .. k : Index(t[x], j, n) \in 0 .. n - 1
    BY <1>1, <2>2, IndexRange
  <2>4. \A y \in 0 .. n - 1 : t[y] # NULL => u[y] # NULL
    BY <1>1, <1>2
  <2>5. u[x] = t[x]
    BY <1>4
  <2>6. QED  BY <2>1, <2>3, <2>4, <2>5
<1>9. Reachable(u, n)
  BY <1>8 DEF Reachable
<1>10. QED  BY <1>2, <1>5, <1>6, <1>7, <1>9 DEF u

(* del() takes one copy of p away and nothing else. *)
LEMMA DelStep ==
    ASSUME Inv, NEW p \in Ptrs, Del(p)
    PROVE  /\ Inv'
           /\ Contents \ {p} \subseteq Contents'
           /\ Contents' \subseteq Contents
           /\ \/ /\ UNCHANGED <<table, tableSize, nbPointers>>
                 /\ p \notin Contents
                 /\ last' = Call("del", p, FALSE)
              \/ /\ p \in Contents
                 /\ nbPointers' = nbPointers - 1
                 /\ last' = Call("del", p, TRUE)
<1>1. /\ tableSize \in Nat \ {0} /\ IsTable(table, tableSize) /\ Reachable(table, tableSize)
      /\ nbPointers = Cardinality(Occupied(table, tableSize)) /\ nbPointers \in Nat
      /\ ContentsOf(table, tableSize) = Contents
  BY OccupiedCounted DEF Inv, IsSound, IsTable, Contents, ContentsOf
<1>2. Found(table, tableSize, p) <=> p \in Contents
  BY <1>1, FoundIsStored
<1>3. CASE ~Found(table, tableSize, p)
  <2>1. UNCHANGED <<table, tableSize, nbPointers>> /\ last' = Call("del", p, FALSE)
    BY <1>3 DEF Del
  <2>2. Inv' /\ Contents' = Contents
    BY <2>1 DEF Inv, Contents
  <2>3. QED  BY <1>2, <1>3, <2>1, <2>2
<1>4. CASE Found(table, tableSize, p)
  <2>1. PICK k \in 0 .. tableSize - 1 :
           /\ StopsAt(table, tableSize, p, {NULL, p}, k)
           /\ table' = [table EXCEPT ![Index(p, k, tableSize)] = TOMBSTONE]
           /\ nbPointers' = nbPointers - 1
           /\ last' = Call("del", p, TRUE)
           /\ UNCHANGED tableSize
    BY <1>4 DEF Del
  (* It is the step at which has() found p. *)
  <2>2. PICK f \in 0 .. tableSize - 1 :
           StopsAt(table, tableSize, p, {NULL, p}, f) /\ table[Index(p, f, tableSize)] = p
    BY <1>4 DEF Found
  <2>3. f = k
    <3>1. ~(f < k) /\ ~(k < f)
      BY <2>1, <2>2 DEF StopsAt
    <3>2. QED  BY <3>1
  <2> DEFINE i == Index(p, k, tableSize)
  <2>4. i \in 0 .. tableSize - 1 /\ table[i] = p
    BY <1>1, <2>2, <2>3, IndexRange
  <2>5. table' = [table EXCEPT ![i] = TOMBSTONE] /\ tableSize' = tableSize
    BY <2>1
  <2> HIDE DEF i
  <2>6. IsTable(table', tableSize) /\ Reachable(table', tableSize)
    BY <1>1, <2>4, <2>5, Removed
  <2>7. Cardinality(Occupied(table', tableSize)) = nbPointers - 1
    BY <1>1, <2>4, <2>5, Removed
  <2>8. /\ ContentsOf(table', tableSize) \subseteq Contents
        /\ Contents \subseteq ContentsOf(table', tableSize) \cup {p}
    BY <1>1, <2>4, <2>5, Removed
  <2>9. Inv'
    BY <1>1, <2>1, <2>5, <2>6, <2>7 DEF Inv, IsSound
  <2>10. Contents' = ContentsOf(table', tableSize)
    BY <2>5 DEF Contents, ContentsOf
  <2>11. QED  BY <1>2, <1>4, <2>1, <2>8, <2>9, <2>10
<1>5. QED  BY <1>3, <1>4

LEMMA HasStep ==
    ASSUME Inv, NEW p \in Ptrs, Has(p)
    PROVE  /\ Inv'
           /\ UNCHANGED <<table, tableSize, nbPointers>>
           /\ last' = Call("has", p, p \in Contents)
<1>1. UNCHANGED <<table, tableSize, nbPointers>>
      /\ last' = Call("has", p, Found(table, tableSize, p))
  BY DEF Has
<1>2. IsTable(table, tableSize) /\ Reachable(table, tableSize)
      /\ ContentsOf(table, tableSize) = Contents
  BY DEF Inv, IsSound, Contents, ContentsOf
<1>3. Found(table, tableSize, p) = (p \in Contents)
  <2>1. Found(table, tableSize, p) <=> p \in Contents
    BY <1>2, FoundIsStored
  <2>2. Found(table, tableSize, p) \in BOOLEAN
    BY DEF Found
  <2>3. QED  BY <2>1, <2>2
<1>4. Inv'
  BY <1>1 DEF Inv
<1>5. QED  BY <1>1, <1>3, <1>4

LEMMA ClearStep ==
    ASSUME Inv, Clear
    PROVE  /\ Inv'
           /\ Contents' = {}
           /\ IsFresh(table', tableSize')
           /\ nbPointers' = 0
           /\ last' = Call("clear", NULL, TRUE)
<1>1. /\ table' = Empty(tableSize) /\ tableSize' = tableSize /\ nbPointers' = 0
      /\ last' = Call("clear", NULL, TRUE)
  BY DEF Clear
<1>2. tableSize \in Nat \ {0} /\ tableSize \in 2 .. MaxSize
  BY DEF Inv, IsSound, IsTable
<1>3. /\ IsFresh(table', tableSize')
      /\ ContentsOf(table', tableSize') = {}
      /\ Reachable(table', tableSize')
      /\ Cardinality(Occupied(table', tableSize')) = 0
  BY <1>1, <1>2, EmptyTable
<1>4. Inv'
  BY <1>1, <1>2, <1>3, FreshIsTable DEF Inv, IsSound
<1>5. QED  BY <1>1, <1>3, <1>4 DEF Contents, ContentsOf

LEMMA NextInv == Inv /\ [Next]_vars => Inv'
<1>1. SUFFICES ASSUME Inv, [Next]_vars PROVE Inv'
  OBVIOUS
<1>2. ASSUME NEW p \in Ptrs, 2 * tableSize <= MaxSize, Add(p) PROVE Inv'
  BY <1>1, <1>2, AddStep
<1>3. ASSUME NEW p \in Deletable, Del(p) PROVE Inv'
  BY <1>1, <1>3, DelStep, PointerAssumption
<1>4. ASSUME NEW p \in Ptrs, Has(p) PROVE Inv'
  BY <1>1, <1>4, HasStep
<1>5. CASE Clear
  BY <1>1, <1>5, ClearStep
<1>6. CASE UNCHANGED vars
  BY <1>1, <1>6 DEF Inv, vars
<1>7. QED  BY <1>1, <1>2, <1>3, <1>4, <1>5, <1>6 DEF Next

-----------------------------------------------------------------------------
(* The theorems *)

(* The inductive invariant: the shape of the table, its count, and a probe *)
(* without gaps to every pointer.                                          *)
THEOREM InvariantHolds == Spec => []Inv
<1>1. QED  BY InitInv, NextInv, PTL DEF Spec

(* The table always has the shape the code assumes. *)
THEOREM TypeCorrect == Spec => []TypeOK
<1>1. QED  BY InvariantHolds, InvImplies, PTL

(* At most half of the slots hold a pointer and nbPointers counts them, so *)
(* the loops of add() and rehash() always end.                             *)
THEOREM AtMostHalfFullHolds == Spec => []AtMostHalfFull
<1>1. QED  BY InvariantHolds, InvImplies, PTL

(* has() and del() reach every copy that is stored: no deletion and no     *)
(* overwritten tombstone ever cuts a probe.                                *)
THEOREM EveryEntryReachableHolds == Spec => []EveryEntryReachable
<1>1. QED  BY InvariantHolds, InvImplies, PTL

(* Only del() of a pointer and clear() make it leave the table. *)
THEOREM OnlyDeletionRemovesHolds == Spec => OnlyDeletionRemoves
<1>1. ASSUME Inv, [Next]_vars
      PROVE  [\A p \in Contents \ Contents' :
                 last'.op = "clear" \/ last' = Call("del", p, TRUE)]_vars
  <2> DEFINE Kept == \A p \in Contents \ Contents' :
                        last'.op = "clear" \/ last' = Call("del", p, TRUE)
  <2>1. ASSUME NEW p \in Ptrs, 2 * tableSize <= MaxSize, Add(p) PROVE Kept
    BY <1>1, <2>1, AddStep
  <2>2. ASSUME NEW p \in Deletable, Del(p) PROVE Kept
    <3>1. Contents \ {p} \subseteq Contents'
      BY <1>1, <2>2, DelStep, PointerAssumption
    <3>2. \A q \in Contents \ Contents' : q = p
      BY <3>1
    <3>3. CASE Contents = Contents'
      BY <3>3
    <3>4. CASE last' = Call("del", p, TRUE)
      BY <3>2, <3>4
    <3>5. UNCHANGED <<table, tableSize, nbPointers>> => Contents = Contents'
      BY DEF Contents
    <3>6. QED  BY <1>1, <2>2, <3>3, <3>4, <3>5, DelStep, PointerAssumption
  <2>3. ASSUME NEW p \in Ptrs, Has(p) PROVE Kept
    BY <1>1, <2>3, HasStep DEF Contents
  <2>4. ASSUME Clear PROVE Kept
    BY <2>4 DEF Clear, Call
  <2>5. QED  BY <1>1, <2>1, <2>2, <2>3, <2>4 DEF Next
<1>2. QED  BY <1>1, InvariantHolds, PTL DEF Spec, OnlyDeletionRemoves

-----------------------------------------------------------------------------
(* The table as a set *)

(* A pointer is stored twice exactly when there are fewer pointers than    *)
(* nbPointers says.                                                        *)
LEMMA DistinctIsCounted ==
    ASSUME Inv
    PROVE  /\ IsFiniteSet(Contents) /\ Contents \subseteq Ptrs
           /\ nbPointers \in Nat
           /\ Distinct <=> nbPointers = Cardinality(Contents)
<1>1. /\ tableSize \in Nat
      /\ nbPointers = Cardinality(Occupied(table, tableSize))
  BY DEF Inv, IsSound, IsTable
<1>2. IsFiniteSet(Occupied(table, tableSize)) /\ nbPointers \in Nat
  BY <1>1, OccupiedCounted
<1>3. Contents \subseteq Ptrs
  BY DEF Contents, Occupied
<1>4. /\ IsFiniteSet(Contents)
      /\ Cardinality(Contents) = Cardinality(Occupied(table, tableSize))
            <=> \A x, y \in Occupied(table, tableSize) : table[x] = table[y] => x = y
  BY <1>2, ValuesCounted DEF Contents
<1>5. QED  BY <1>1, <1>2, <1>3, <1>4 DEF Distinct

LEMMA InitIsSet == Init => Set!Init
<1>1. SUFFICES ASSUME Init PROVE Set!Init
  OBVIOUS
<1>2. table = Empty(2) /\ tableSize = 2 /\ nbPointers = 0 /\ last.op = "none"
  BY <1>1 DEF Init, Call
<1>3. Occupied(Empty(2), 2) = {}
  BY EmptyTable
<1>4. QED  BY <1>2, <1>3 DEF Set!Init, Contents

(* A step between two tables without duplicates is a step of the set. *)
LEMMA DistinctStepIsSetStep ==
    ASSUME Inv, Next, Distinct, Distinct'
    PROVE  Set!Next
<1>1. Inv' /\ [Next]_vars
  BY NextInv
<1>2. /\ IsFiniteSet(Contents) /\ Contents \subseteq Ptrs
      /\ nbPointers \in Nat /\ nbPointers = Cardinality(Contents)
  BY DistinctIsCounted
<1>3. /\ IsFiniteSet(Contents') /\ nbPointers' \in Nat
      /\ nbPointers' = Cardinality(Contents')
  <2>1. (/\ IsFiniteSet(Contents) /\ nbPointers \in Nat
         /\ Distinct <=> nbPointers = Cardinality(Contents))'
    BY <1>1, DistinctIsCounted, PTL
  <2>2. QED  BY <2>1
<1>4. Contents' = Contents => nbPointers' = nbPointers
  <2>1. Contents' = Contents => Cardinality(Contents') = Cardinality(Contents)
    BY Zenon
  <2>2. QED  BY <1>2, <1>3, <2>1
<1>5. nbPointers' = Set!Cardinality(Contents')
  BY <1>3, Zenon DEF Cardinality, Set!Cardinality
<1>6. ASSUME NEW p \in Ptrs, 2 * tableSize <= MaxSize, Add(p) PROVE Set!Add(p)
  <2>1. Contents' = Contents \cup {p}
    BY <1>6, AddStep
  <2>2. CASE nbPointers' = nbPointers + 1 /\ last' = Call("add", p, TRUE)
    <3>1. p \notin Contents
      <4>1. Contents' # Contents
        BY <1>4, <2>2
      <4>2. QED  BY <2>1, <4>1
    <3>2. QED  BY <2>1, <2>2, <3>1 DEF Set!Add, Set!Call, Call
  <2>3. CASE p \in Contents /\ last' = Call("add", p, FALSE)
    BY <2>1, <2>3 DEF Set!Add, Set!Call, Call
  <2>4. QED  BY <1>6, <2>2, <2>3, AddStep
<1>7. ASSUME NEW p \in Ptrs, Del(p) PROVE Set!Del(p)
  <2>1. Contents \ {p} \subseteq Contents' /\ Contents' \subseteq Contents
    BY <1>7, DelStep
  <2>2. CASE p \in Contents /\ nbPointers' = nbPointers - 1 /\ last' = Call("del", p, TRUE)
    <3>1. p \notin Contents'
      <4>1. Contents' # Contents
        BY <1>4, <2>2
      <4>2. QED  BY <2>1, <4>1
    <3>2. Contents' = Contents \ {p}
      BY <2>1, <3>1
    <3>3. QED  BY <2>2, <3>2 DEF Set!Del, Set!Call, Call
  <2>3. CASE p \notin Contents /\ last' = Call("del", p, FALSE)
    <3>1. Contents' = Contents \ {p}
      BY <2>1, <2>3
    <3>2. (p \in Contents) = FALSE
      BY <2>3
    <3>3. QED  BY <2>3, <3>1, <3>2 DEF Set!Del, Set!Call, Call
  <2>4. QED  BY <1>7, <2>2, <2>3, DelStep
<1>8. ASSUME NEW p \in Ptrs, Has(p) PROVE Set!Has(p)
  <2>1. last' = Call("has", p, p \in Contents) /\ UNCHANGED <<table, tableSize, nbPointers>>
    BY <1>8, HasStep
  <2>2. Contents' = Contents
    BY <2>1 DEF Contents
  <2>3. QED  BY <2>1, <2>2 DEF Set!Has, Set!Call, Call
<1>9. ASSUME Clear PROVE Set!Clear
  <2>1. Contents' = {} /\ last' = Call("clear", NULL, TRUE)
    BY <1>9, ClearStep
  <2>2. QED  BY <2>1 DEF Set!Clear, Call
<1>10. QED  BY <1>5, <1>6, <1>7, <1>8, <1>9, PointerAssumption DEF Next, Set!Next

(* With deletions: as long as no pointer is stored twice, the table        *)
(* answers and changes as the set of its header does.                      *)
THEOREM SetWhileDistinctHolds == Spec => SetWhileDistinct
<1>1. ASSUME Inv, [Next]_vars PROVE [Distinct /\ Distinct' => Set!Next]_vars
  BY <1>1, DistinctStepIsSetStep
<1>2. QED  BY <1>1, InitIsSet, InvariantHolds, PTL DEF Spec, SetWhileDistinct

(* Callers that never delete see no tombstone, and then no duplicates. *)
SetInv == Inv /\ IsFresh(table, tableSize) /\ Distinct

LEMMA InitSetInv == Init => SetInv
<1>1. SUFFICES ASSUME Init PROVE SetInv
  OBVIOUS
<1>2. table = Empty(2) /\ tableSize = 2
  BY <1>1 DEF Init
<1>3. IsFresh(Empty(2), 2) /\ Occupied(Empty(2), 2) = {}
  BY EmptyTable
<1>4. QED  BY <1>1, <1>2, <1>3, InitInv DEF SetInv, Distinct

(* A probe that may not stop on a tombstone has passed every copy of p     *)
(* when it stops on NULL.                                                  *)
LEMMA FreshAddIsNew ==
    ASSUME SetInv, NEW p \in Ptrs, Add(p), last' = Call("add", p, TRUE)
    PROVE  p \notin Contents
<1>1. PICK k \in 0 .. tableSize - 1 :
         /\ StopsAt(table, tableSize, p, {NULL, TOMBSTONE, p}, k)
         /\ last' = Call("add", p, table[Index(p, k, tableSize)] # p)
  BY DEF Add
<1>2. /\ tableSize \in Nat \ {0} /\ table \in [0 .. tableSize - 1 -> Ptrs \cup {NULL}]
      /\ Reachable(table, tableSize)
  BY DEF SetInv, IsFresh, Inv, IsSound
<1>3. Index(p, k, tableSize) \in 0 .. tableSize - 1
  BY <1>2, IndexRange
<1>4. table[Index(p, k, tableSize)] = NULL
  <2>1. table[Index(p, k, tableSize)] # p
    <3>1. Call("add", p, TRUE).ret = Call("add", p, table[Index(p, k, tableSize)] # p).ret
      BY <1>1
    <3>2. TRUE = (table[Index(p, k, tableSize)] # p)
      BY <3>1 DEF Call
    <3>3. QED  BY <3>2
  <2>2. QED  BY <1>1, <1>2, <1>3, <2>1, PointerAssumption DEF StopsAt
<1>5. SUFFICES ASSUME p \in Contents PROVE FALSE
  OBVIOUS
<1>6. PICK x \in Occupied(table, tableSize) : table[x] = p
  BY <1>5 DEF Contents
<1>7. PICK m \in 0 .. tableSize - 1 :
         /\ Index(p, m, tableSize) = x
         /\ \A j \in 0 .. m : table[Index(p, j, tableSize)] # NULL
  BY <1>2, <1>6 DEF Reachable
<1>8. m < k
  BY <1>4, <1>7
<1>9. table[Index(p, m, tableSize)] # p
  BY <1>1, <1>8 DEF StopsAt
<1>10. QED  BY <1>6, <1>7, <1>9

LEMMA NextSetInv ==
    ASSUME Deletable = {}
    PROVE  SetInv /\ [Next]_vars => SetInv'
<1>1. SUFFICES ASSUME SetInv, [Next]_vars PROVE SetInv'
  OBVIOUS
<1>2. Inv /\ Inv' /\ Distinct
  BY <1>1, NextInv DEF SetInv
<1>3. (Distinct <=> nbPointers = Cardinality(Contents))'
  BY <1>2, DistinctIsCounted, PTL
<1>4. ASSUME NEW p \in Ptrs, 2 * tableSize <= MaxSize, Add(p) PROVE SetInv'
  <2>1. /\ Contents' = Contents \cup {p}
        /\ (IsFresh(table, tableSize))'
    BY <1>1, <1>2, <1>4, AddStep DEF SetInv
  <2>2. CASE UNCHANGED <<table, tableSize, nbPointers>>
    BY <1>2, <2>1, <2>2 DEF SetInv, Distinct
  <2>3. CASE nbPointers' = nbPointers + 1 /\ last' = Call("add", p, TRUE)
    <3>1. p \notin Contents
      BY <1>1, <1>4, <2>3, FreshAddIsNew
    <3>2. IsFiniteSet(Contents) /\ nbPointers \in Nat /\ nbPointers = Cardinality(Contents)
      BY <1>2, DistinctIsCounted
    <3>3. nbPointers' = Cardinality(Contents')
      BY <2>1, <2>3, <3>1, <3>2, FS_AddElement
    <3>4. QED  BY <1>2, <1>3, <2>1, <3>3 DEF SetInv
  <2>4. QED  BY <1>2, <1>4, <2>2, <2>3, AddStep
<1>5. ASSUME NEW p \in Ptrs, Has(p) PROVE SetInv'
  BY <1>1, <1>2, <1>5, HasStep DEF SetInv, Distinct
<1>6. CASE Clear
  <2>1. /\ Contents' = {} /\ nbPointers' = 0 /\ (IsFresh(table, tableSize))'
    BY <1>2, <1>6, ClearStep
  <2>2. nbPointers' = Cardinality(Contents')
    BY <2>1, FS_EmptySet
  <2>3. QED  BY <1>2, <1>3, <2>1, <2>2 DEF SetInv
<1>7. CASE UNCHANGED vars
  BY <1>1, <1>2, <1>7 DEF SetInv, Distinct, vars
<1>8. QED  BY <1>1, <1>4, <1>5, <1>6, <1>7 DEF Next

(* Refinement: callers that never delete use a set, the one the header     *)
(* promises.                                                               *)
THEOREM Implements ==
    ASSUME Deletable = {}
    PROVE  Spec => ImplementsSet
<1>1. SetInv /\ [Next]_vars => SetInv'
  BY NextSetInv
<1>2. ASSUME SetInv, SetInv', [Next]_vars PROVE [Set!Next]_(Set!setVars)
  <2>1. CASE Next
    BY <1>2, <2>1, DistinctStepIsSetStep DEF SetInv
  <2>2. CASE UNCHANGED vars
    BY <2>2 DEF vars, Set!setVars, Contents
  <2>3. QED  BY <1>2, <2>1, <2>2
<1>3. QED  BY <1>1, <1>2, InitSetInv, InitIsSet, PTL DEF Spec, ImplementsSet, Set!Spec

(* add() reports exactly the new pointers to callers that never delete;    *)
(* a run shows that a deletion breaks this promise of the header.          *)
THEOREM AddReportsNewPointersHolds ==
    ASSUME Deletable = {}
    PROVE  Spec => AddReportsNewPointers
<1>1. SetInv /\ [Next]_vars => SetInv'
  BY NextSetInv
<1>2. ASSUME SetInv, [Next]_vars
      PROVE  [\A p \in Ptrs :
                 (last'.op = "add" /\ last'.ptr = p /\ last'.ret) => p \notin Contents]_vars
  <2> DEFINE Reported == \A p \in Ptrs :
                (last'.op = "add" /\ last'.ptr = p /\ last'.ret) => p \notin Contents
  <2>1. ASSUME NEW p \in Ptrs, 2 * tableSize <= MaxSize, Add(p) PROVE Reported
    <3>1. Inv
      BY <1>2 DEF SetInv
    <3>2. last' = Call("add", p, FALSE) \/ last' = Call("add", p, TRUE)
      BY <2>1, <3>1, AddStep
    <3>3. last' = Call("add", p, TRUE) => p \notin Contents
      BY <1>2, <2>1, FreshAddIsNew
    <3>4. QED  BY <3>2, <3>3 DEF Call
  <2>2. ASSUME NEW p \in Ptrs, Has(p) PROVE Reported
    BY <2>2 DEF Has, Call
  <2>3. ASSUME Clear PROVE Reported
    BY <2>3 DEF Clear, Call
  <2>4. QED  BY <1>2, <2>1, <2>2, <2>3 DEF Next
<1>3. QED  BY <1>1, <1>2, InitSetInv, PTL DEF Spec, AddReportsNewPointers
=============================================================================
