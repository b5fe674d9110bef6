---------------------------- MODULE HashTableProofs ----------------------------
(***************************************************************************)
(* Proofs about HashTable, for any buckets and hash values, single or      *)
(* double linked, with or without aggressive rehashing.                    *)
(***************************************************************************)
EXTENDS HashEnumerator, CountingLemmas, SequenceTheorems

-----------------------------------------------------------------------------
(* Locations, and what a link or an unlink does to the targets of all of   *)
(* them                                                                    *)

Locs(n, S) == {Slot(i) : i \in 0 .. n - 1} \cup {AtNext(b) : b \in S}

Mem(n) == [slot : [0 .. n - 1 -> Buckets \cup {NULL}],
           next : [Buckets -> Buckets \cup {NULL}],
           previous : [Buckets -> Locs(n, Buckets) \cup {NULL}]]

LEMMA LocationsDiffer ==
    /\ \A i, j : Slot(i) = Slot(j) <=> i = j
    /\ \A b, c : AtNext(b) = AtNext(c) <=> b = c
    /\ \A i, b : Slot(i) # AtNext(b)
BY DEF Slot, AtNext

LEMMA Targets ==
    /\ \A m, i : Target(m, Slot(i)) = m.slot[i]
    /\ \A m, b : Target(m, AtNext(b)) = m.next[b]
BY DEF Target, Slot, AtNext

LEMMA LocsMonotonic ==
    ASSUME NEW n, NEW S, NEW T, S \subseteq T
    PROVE  Locs(n, S) \subseteq Locs(n, T)
BY DEF Locs

LEMMA AssignEffect ==
    ASSUME NEW n \in Nat, NEW m \in Mem(n), NEW loc \in Locs(n, Buckets),
           NEW x \in Buckets \cup {NULL}
    PROVE  /\ Assign(m, loc, x) \in Mem(n)
           /\ Assign(m, loc, x).previous = m.previous
           /\ \A l \in Locs(n, Buckets) :
                Target(Assign(m, loc, x), l) = IF l = loc THEN x ELSE Target(m, l)
<1> DEFINE v == Assign(m, loc, x)
<1>1. CASE \E i \in 0 .. n - 1 : loc = Slot(i)
  <2>1. PICK i \in 0 .. n - 1 : loc = Slot(i)
    BY <1>1
  <2>2. v = [m EXCEPT !.slot = [m.slot EXCEPT ![i] = x]]
    BY <2>1 DEF Assign, Slot
  <2> DEFINE slot == [m.slot EXCEPT ![i] = x]
  <2>3. slot \in [0 .. n - 1 -> Buckets \cup {NULL}]
    BY DEF Mem
  <2>4. \A j \in 0 .. n - 1 : slot[j] = IF j = i THEN x ELSE m.slot[j]
    BY DEF Mem
  <2> HIDE DEF slot, v
  <2>5. v \in Mem(n) /\ v.previous = m.previous /\ v.next = m.next /\ v.slot = slot
    BY <2>2, <2>3 DEF Mem, slot
  <2>6. \A l \in Locs(n, Buckets) : Target(v, l) = IF l = loc THEN x ELSE Target(m, l)
    BY <2>1, <2>4, <2>5, Targets, LocationsDiffer DEF Locs
  <2>7. QED  BY <2>5, <2>6 DEF v
<1>2. CASE \E b \in Buckets : loc = AtNext(b)
  <2>1. PICK b \in Buckets : loc = AtNext(b)
    BY <1>2
  <2> DEFINE next == [m.next EXCEPT ![b] = x]
  <2>2. v = [m EXCEPT !.next = next]
    BY <2>1 DEF Assign, AtNext
  <2>3. next \in [Buckets -> Buckets \cup {NULL}]
    BY DEF Mem
  <2>4. \A c \in Buckets : next[c] = IF c = b THEN x ELSE m.next[c]
    BY DEF Mem
  <2> HIDE DEF next, v
  <2>5. v \in Mem(n) /\ v.previous = m.previous /\ v.slot = m.slot /\ v.next = next
    BY <2>2, <2>3 DEF Mem
  <2>6. \A l \in Locs(n, Buckets) : Target(v, l) = IF l = loc THEN x ELSE Target(m, l)
    BY <2>1, <2>4, <2>5, Targets, LocationsDiffer DEF Locs
  <2>7. QED  BY <2>5, <2>6 DEF v
<1>3. QED  BY <1>1, <1>2 DEF Locs

LEMMA LinkEffect ==
    ASSUME NEW n \in Nat, NEW m \in Mem(n), NEW i \in 0 .. n - 1, NEW b \in Buckets
    PROVE  LET v == Link(m, b, Slot(i))
           IN  /\ v \in Mem(n)
               /\ \A l \in Locs(n, Buckets) :
                    Target(v, l) = IF l = Slot(i) THEN b
                                   ELSE IF l = AtNext(b) THEN m.slot[i] ELSE Target(m, l)
               /\ Doubly => \A c \in Buckets :
                    v.previous[c] = IF c = m.slot[i] THEN AtNext(b)
                                    ELSE IF c = b THEN Slot(i) ELSE m.previous[c]
<1> DEFINE first == m.slot[i]
           w == Assign(m, Slot(i), b)
           linked == [w EXCEPT !.next[b] = first]
           v == Link(m, b, Slot(i))
<1>1. Slot(i) \in Locs(n, Buckets) /\ AtNext(b) \in Locs(n, Buckets)
      /\ first \in Buckets \cup {NULL} /\ NULL \notin Buckets
  BY HashAssumption DEF Locs, Mem
<1>2. /\ w \in Mem(n)
      /\ w.previous = m.previous
      /\ \A l \in Locs(n, Buckets) : Target(w, l) = IF l = Slot(i) THEN b ELSE Target(m, l)
  BY <1>1, AssignEffect
<1> HIDE DEF w
<1>3. linked = Assign(w, AtNext(b), first)
  <2>1. AtNext(b)[1] # "slot" /\ AtNext(b)[2] = b
    BY DEF AtNext
  <2>2. QED  BY <2>1, Zenon DEF Assign
<1> HIDE DEF linked
<1>4. /\ linked \in Mem(n)
      /\ linked.previous = m.previous
      /\ \A l \in Locs(n, Buckets) :
           Target(linked, l) = IF l = AtNext(b) THEN first ELSE Target(w, l)
  <2> HIDE DEF first
  <2>1. /\ Assign(w, AtNext(b), first) \in Mem(n)
        /\ Assign(w, AtNext(b), first).previous = w.previous
        /\ \A l \in Locs(n, Buckets) :
             Target(Assign(w, AtNext(b), first), l)
                = IF l = AtNext(b) THEN first ELSE Target(w, l)
    BY <1>1, <1>2, AssignEffect
  <2>2. QED  BY <1>2, <1>3, <2>1, Zenon
<1>5. \A l \in Locs(n, Buckets) :
        Target(linked, l) = IF l = Slot(i) THEN b
                            ELSE IF l = AtNext(b) THEN first ELSE Target(m, l)
  BY <1>2, <1>4, LocationsDiffer
<1>6. CASE ~Doubly
  <2>1. v = linked
    BY <1>6, Targets DEF Link, linked, w
  <2>2. QED  BY <1>4, <1>5, <1>6, <2>1
<1>7. CASE Doubly
  <2> DEFINE back == [linked.previous EXCEPT ![b] = Slot(i)]
             prev == IF first = NULL THEN back ELSE [back EXCEPT ![first] = AtNext(b)]
  <2>1. v = [linked EXCEPT !.previous = prev]
    BY <1>7, Targets DEF Link, linked, w
  <2>2. prev \in [Buckets -> Locs(n, Buckets) \cup {NULL}]
    BY <1>1, <1>4 DEF Mem
  <2>3. \A c \in Buckets : prev[c] = IF c = first THEN AtNext(b)
                                     ELSE IF c = b THEN Slot(i) ELSE m.previous[c]
    BY <1>1, <1>2, <1>4 DEF Mem
  <2> HIDE DEF prev, v
  <2>4. v \in Mem(n) /\ v.previous = prev /\ v.slot = linked.slot /\ v.next = linked.next
    BY <1>4, <2>1, <2>2 DEF Mem
  <2>5. \A l \in Locs(n, Buckets) : Target(v, l) = Target(linked, l)
    BY <2>4, Targets DEF Locs
  <2>6. QED  BY <1>5, <2>3, <2>4, <2>5 DEF v
<1>8. QED  BY <1>6, <1>7

-----------------------------------------------------------------------------
(* Chains.  A chain is the sequence c of the l buckets met from slot i on; *)
(* Before is the location that its k-th element is pointed at from.        *)

Home(T, n, i) == {b \in T : LowBits(HashOf[b], n) = i}

Before(i, c, k) == IF k = 1 THEN Slot(i) ELSE AtNext(c[k - 1])

IsChain(m, i, l, c, H) ==
    /\ l \in Nat
    /\ c \in [1 .. l -> H]
    /\ \A b \in H : \E k \in 1 .. l : c[k] = b
    /\ \A j, k \in 1 .. l : c[j] = c[k] => j = k
    /\ \A k \in 1 .. l : Target(m, Before(i, c, k)) = c[k]
    /\ Target(m, Before(i, c, l + 1)) = NULL
    /\ Doubly => \A k \in 1 .. l : m.previous[c[k]] = Before(i, c, k)

HasChain(m, i, H) == \E l, c : IsChain(m, i, l, c, H)

(* The buckets of T are linked, each on the chain of its hash value. *)
Linked(m, n, T) ==
    /\ m \in Mem(n)
    /\ T \subseteq Buckets
    /\ \A i \in 0 .. n - 1 : HasChain(m, i, Home(T, n, i))

LEMMA BeforeIsLocation ==
    ASSUME NEW n \in Nat, NEW i \in 0 .. n - 1, NEW l \in Nat, NEW H,
           NEW c \in [1 .. l -> H], NEW k \in 1 .. l + 1
    PROVE  Before(i, c, k) \in Locs(n, H)
<1>1. CASE k = 1
  BY <1>1 DEF Before, Locs
<1>2. CASE k # 1
  <2>1. k - 1 \in 1 .. l
    BY <1>2
  <2>2. c[k - 1] \in H
    BY <2>1
  <2>3. QED  BY <1>2, <2>2 DEF Before, Locs
<1>3. QED  BY <1>1, <1>2

(* The first bucket of a chain. *)
LEMMA FirstOfChain ==
    ASSUME NEW m, NEW i, NEW H, HasChain(m, i, H)
    PROVE  m.slot[i] \in H \cup {NULL}
<1>1. PICK l, c : IsChain(m, i, l, c, H)
  BY DEF HasChain
<1>2. Target(m, Before(i, c, 1)) = m.slot[i]
  BY Targets DEF Before
<1>3. CASE l = 0
  BY <1>1, <1>2, <1>3 DEF IsChain
<1>4. CASE l # 0
  <2>1. 1 \in 1 .. l
    BY <1>1, <1>4 DEF IsChain
  <2>2. QED  BY <1>1, <1>2, <2>1 DEF IsChain
<1>5. QED  BY <1>3, <1>4

(* A chain whose locations are left alone stays. *)
LEMMA ChainStays ==
    ASSUME NEW m, NEW v, NEW n \in Nat, NEW i \in 0 .. n - 1, NEW H, HasChain(m, i, H),
           \A loc \in Locs(n, H) :
               loc \in {Slot(i)} \cup {AtNext(b) : b \in H} => Target(v, loc) = Target(m, loc),
           Doubly => \A b \in H : v.previous[b] = m.previous[b]
    PROVE  HasChain(v, i, H)
<1>1. PICK l, c : IsChain(m, i, l, c, H)
  BY DEF HasChain
<1>2. l \in Nat /\ c \in [1 .. l -> H]
  BY <1>1 DEF IsChain
<1>3. \A k \in 1 .. l + 1 : Before(i, c, k) \in Locs(n, H)
  BY <1>2, BeforeIsLocation
<1>4. \A k \in 1 .. l + 1 : Before(i, c, k) \in {Slot(i)} \cup {AtNext(b) : b \in H}
  <2>1. SUFFICES ASSUME NEW k \in 1 .. l + 1, k # 1
                 PROVE  Before(i, c, k) \in {AtNext(b) : b \in H}
    BY DEF Before
  <2>2. k - 1 \in 1 .. l
    BY <1>2, <2>1
  <2>3. c[k - 1] \in H
    BY <1>2, <2>2
  <2>4. QED  BY <2>1, <2>3 DEF Before
<1>5. \A k \in 1 .. l + 1 : Target(v, Before(i, c, k)) = Target(m, Before(i, c, k))
  BY <1>3, <1>4
<1>6. 1 .. l \subseteq 1 .. l + 1 /\ l + 1 \in 1 .. l + 1
  BY <1>2
<1>7. IsChain(v, i, l, c, H)
  BY <1>1, <1>2, <1>5, <1>6 DEF IsChain
<1>8. QED  BY <1>7 DEF HasChain

(* Linking a bucket in front of its chain. *)
LEMMA LinkKeeps ==
    ASSUME NEW n \in Nat \ {0}, NEW m, NEW T, Linked(m, n, T), NEW b \in Buckets \ T
    PROVE  Linked(Link(m, b, Slot(LowBits(HashOf[b], n))), n, T \cup {b})
<1> DEFINE i == LowBits(HashOf[b], n)
           v == Link(m, b, Slot(i))
<1>1. m \in Mem(n) /\ T \subseteq Buckets /\ \A j \in 0 .. n - 1 : HasChain(m, j, Home(T, n, j))
  BY DEF Linked
<1>2. i \in 0 .. n - 1
  BY HashAssumption, DivMod DEF LowBits
<1> HIDE DEF i
<1>3. /\ v \in Mem(n)
      /\ \A l \in Locs(n, Buckets) :
           Target(v, l) = IF l = Slot(i) THEN b
                          ELSE IF l = AtNext(b) THEN m.slot[i] ELSE Target(m, l)
      /\ Doubly => \A c \in Buckets :
           v.previous[c] = IF c = m.slot[i] THEN AtNext(b)
                           ELSE IF c = b THEN Slot(i) ELSE m.previous[c]
  BY <1>1, <1>2, LinkEffect
<1> HIDE DEF v
<1>4. m.slot[i] \in Home(T, n, i) \cup {NULL} /\ NULL \notin Buckets
  BY <1>1, <1>2, FirstOfChain, HashAssumption
<1>5. ASSUME NEW j \in 0 .. n - 1, j # i
      PROVE  HasChain(v, j, Home(T \cup {b}, n, j))
  <2>1. Home(T \cup {b}, n, j) = Home(T, n, j)
    BY <1>5 DEF Home, i
  <2>2. Home(T, n, j) \subseteq Buckets /\ b \notin Home(T, n, j)
        /\ m.slot[i] \notin Home(T, n, j)
    BY <1>1, <1>4, <1>5 DEF Home
  <2>3. Locs(n, Home(T, n, j)) \subseteq Locs(n, Buckets)
    BY <2>2, LocsMonotonic
  <2>4. \A l \in Locs(n, Home(T, n, j)) :
          l \in {Slot(j)} \cup {AtNext(c) : c \in Home(T, n, j)} => Target(v, l) = Target(m, l)
    BY <1>3, <1>5, <2>2, <2>3, LocationsDiffer
  <2>5. Doubly => \A c \in Home(T, n, j) : v.previous[c] = m.previous[c]
    BY <1>3, <2>2
  <2>6. QED  BY <1>1, <2>1, <2>4, <2>5, ChainStays
<1>6. HasChain(v, i, Home(T \cup {b}, n, i))
  <2> DEFINE H == Home(T, n, i)
             G == Home(T \cup {b}, n, i)
  <2>1. G = H \cup {b} /\ b \notin H /\ H \subseteq Buckets
    BY <1>1 DEF Home, i
  <2>2. PICK l, c : IsChain(m, i, l, c, H)
    BY <1>1, <1>2 DEF HasChain
  <2> HIDE DEF H, G
  <2>3. /\ l \in Nat
        /\ c \in [1 .. l -> H]
        /\ \A x \in H : \E k \in 1 .. l : c[k] = x
        /\ \A j, k \in 1 .. l : c[j] = c[k] => j = k
        /\ \A k \in 1 .. l : Target(m, Before(i, c, k)) = c[k]
        /\ Target(m, Before(i, c, l + 1)) = NULL
        /\ Doubly => \A k \in 1 .. l : m.previous[c[k]] = Before(i, c, k)
    BY <2>2 DEF IsChain
  <2> DEFINE d == [k \in 1 .. l + 1 |-> IF k = 1 THEN b ELSE c[k - 1]]
  <2>4. d \in [1 .. l + 1 -> G] /\ d[1] = b /\ \A k \in 1 .. l : d[k + 1] = c[k]
    BY <2>1, <2>3
  <2> HIDE DEF d
  <2>5. \A x \in G : \E k \in 1 .. l + 1 : d[k] = x
    <3>1. SUFFICES ASSUME NEW x \in H PROVE \E k \in 1 .. l + 1 : d[k] = x
      BY <2>1, <2>3, <2>4
    <3>2. PICK k \in 1 .. l : c[k] = x
      BY <2>3
    <3>3. k + 1 \in 1 .. l + 1 /\ d[k + 1] = x
      BY <2>3, <2>4, <3>2
    <3>4. QED  BY <3>3
  <2>6. \A j, k \in 1 .. l + 1 : d[j] = d[k] => j = k
    <3>1. \A k \in 2 .. l + 1 : k - 1 \in 1 .. l /\ d[k] = c[k - 1] /\ d[k] # b
      <4>1. SUFFICES ASSUME NEW k \in 2 .. l + 1
                     PROVE  k - 1 \in 1 .. l /\ d[k] = c[k - 1] /\ d[k] # b
        OBVIOUS
      <4>2. k - 1 \in 1 .. l /\ k = (k - 1) + 1
        BY <2>3
      <4>3. d[k] = c[k - 1] /\ c[k - 1] \in H
        BY <2>3, <2>4, <4>2
      <4>4. QED  BY <2>1, <4>2, <4>3
    <3>2. SUFFICES ASSUME NEW j \in 1 .. l + 1, NEW k \in 1 .. l + 1, d[j] = d[k]
                   PROVE  j = k
      OBVIOUS
    <3>3. CASE j = 1 \/ k = 1
      BY <2>3, <2>4, <3>1, <3>2, <3>3
    <3>4. CASE j # 1 /\ k # 1
      <4>1. j - 1 \in 1 .. l /\ k - 1 \in 1 .. l /\ c[j - 1] = c[k - 1]
        BY <2>3, <3>1, <3>2, <3>4
      <4>2. j - 1 = k - 1
        BY <2>3, <4>1
      <4>3. QED  BY <2>3, <4>2
    <3>5. QED  BY <3>3, <3>4
  <2>7. /\ Before(i, d, 1) = Slot(i)
        /\ Before(i, d, 2) = AtNext(b)
        /\ Before(i, c, 1) = Slot(i)
        /\ \A k \in 2 .. l + 1 : Before(i, d, k + 1) = Before(i, c, k)
    <3>1. \A k \in 2 .. l + 1 : d[(k + 1) - 1] = c[k - 1]
      <4>1. SUFFICES ASSUME NEW k \in 2 .. l + 1 PROVE d[(k + 1) - 1] = c[k - 1]
        OBVIOUS
      <4>2. k - 1 \in 1 .. l /\ (k + 1) - 1 = (k - 1) + 1
        BY <2>3
      <4>3. QED  BY <2>4, <4>2
    <3>2. \A k \in 2 .. l + 1 : k # 1 /\ k + 1 # 1
      BY <2>3
    <3>3. QED  BY <2>4, <3>1, <3>2 DEF Before
  <2>8. \A k \in 2 .. l + 1 : /\ Target(v, Before(i, c, k)) = Target(m, Before(i, c, k))
                              /\ Before(i, c, k) \in Locs(n, Buckets)
    <3>1. SUFFICES ASSUME NEW k \in 2 .. l + 1
                   PROVE  /\ Target(v, Before(i, c, k)) = Target(m, Before(i, c, k))
                          /\ Before(i, c, k) \in Locs(n, Buckets)
      OBVIOUS
    <3>2. k - 1 \in 1 .. l /\ k # 1 /\ k \in 1 .. l + 1
      BY <2>3
    <3>3. Before(i, c, k) = AtNext(c[k - 1]) /\ c[k - 1] \in H
      BY <2>3, <3>2 DEF Before
    <3>4. Before(i, c, k) \in Locs(n, Buckets)
      BY <2>1, <3>3 DEF Locs
    <3>5. QED  BY <1>3, <2>1, <3>3, <3>4, LocationsDiffer
  <2>9. Target(m, Slot(i)) = m.slot[i] /\ Slot(i) \in Locs(n, Buckets)
        /\ AtNext(b) \in Locs(n, Buckets)
    BY <1>2, Targets DEF Locs
  <2>10. Target(v, Before(i, d, 1)) = b /\ Target(v, Before(i, d, 2)) = m.slot[i]
    BY <1>3, <2>7, <2>9, LocationsDiffer
  <2>11. \A k \in 1 .. l + 1 : Target(v, Before(i, d, k)) = d[k]
    <3>1. SUFFICES ASSUME NEW k \in 1 .. l + 1 PROVE Target(v, Before(i, d, k)) = d[k]
      OBVIOUS
    <3>2. CASE k = 1
      BY <2>4, <2>10, <3>2
    <3>3. CASE k = 2
      <4>1. 1 \in 1 .. l /\ d[2] = c[1]
        BY <2>3, <2>4, <3>3
      <4>2. QED  BY <2>3, <2>7, <2>9, <2>10, <3>3, <4>1
    <3>4. CASE k > 2
      <4>1. k - 1 \in 1 .. l /\ k - 1 \in 2 .. l + 1 /\ k = (k - 1) + 1
        BY <2>3, <3>4
      <4>2. Before(i, d, k) = Before(i, c, k - 1) /\ d[k] = c[k - 1]
        BY <2>4, <2>7, <4>1
      <4>3. QED  BY <2>3, <2>8, <4>1, <4>2
    <3>5. QED  BY <2>3, <3>2, <3>3, <3>4
  <2>12. Target(v, Before(i, d, (l + 1) + 1)) = NULL
    <3>1. CASE l = 0
      BY <2>3, <2>7, <2>9, <2>10, <3>1
    <3>2. CASE l # 0
      <4>1. l + 1 \in 2 .. l + 1
        BY <2>3, <3>2
      <4>2. QED  BY <2>3, <2>7, <2>8, <4>1
    <3>3. QED  BY <3>1, <3>2
  <2>13. ASSUME Doubly, NEW k \in 1 .. l + 1
         PROVE  v.previous[d[k]] = Before(i, d, k)
    <3>1. m.slot[i] # b
      BY <1>1, <1>4 DEF Home
    <3>2. CASE k = 1
      BY <1>3, <2>4, <2>7, <2>13, <3>1, <3>2
    <3>3. CASE k = 2
      <4>1. 1 \in 1 .. l /\ d[2] = c[1] /\ c[1] = m.slot[i] /\ c[1] \in Buckets
        BY <2>1, <2>3, <2>4, <2>7, <2>9, <3>3
      <4>2. QED  BY <1>3, <2>7, <2>13, <3>3, <4>1
    <3>4. CASE k > 2
      <4>1. k - 1 \in 1 .. l /\ k - 1 \in 2 .. l + 1 /\ k = (k - 1) + 1 /\ 1 \in 1 .. l
        BY <2>3, <3>4
      <4>2. Before(i, d, k) = Before(i, c, k - 1) /\ d[k] = c[k - 1]
        BY <2>4, <2>7, <4>1
      <4>3. c[1] = m.slot[i] /\ c[k - 1] # c[1] /\ c[k - 1] \in H
        BY <2>3, <2>7, <2>9, <3>4, <4>1
      <4>4. QED  BY <1>3, <2>1, <2>3, <2>13, <4>1, <4>2, <4>3
    <3>5. QED  BY <2>3, <3>2, <3>3, <3>4
  <2>14. IsChain(v, i, l + 1, d, G)
    BY <2>3, <2>4, <2>5, <2>6, <2>11, <2>12, <2>13 DEF IsChain
  <2>15. QED  BY <2>14 DEF HasChain, G
<1>7. QED  BY <1>1, <1>2, <1>3, <1>5, <1>6 DEF Linked, v, i

(* The locations on a chain, and where they point. *)
LEMMA LocationOnChain ==
    ASSUME NEW m, NEW i, NEW l, NEW c, NEW H, IsChain(m, i, l, c, H), NULL \notin H,
           NEW p \in {Slot(i)} \cup {AtNext(b) : b \in H}, NEW q \in 1 .. l,
           Target(m, p) = c[q]
    PROVE  p = Before(i, c, q)
<1>1. l \in Nat /\ c \in [1 .. l -> H] /\ \A j, k \in 1 .. l : c[j] = c[k] => j = k
  BY DEF IsChain
<1>2. PICK k \in 1 .. l + 1 : p = Before(i, c, k)
  <2>1. CASE p = Slot(i)
    BY <1>1, <2>1 DEF Before
  <2>2. CASE \E b \in H : p = AtNext(b)
    <3>1. PICK b \in H : p = AtNext(b)
      BY <2>2
    <3>2. PICK k \in 1 .. l : c[k] = b
      BY DEF IsChain
    <3>3. k + 1 \in 1 .. l + 1 /\ k + 1 # 1 /\ (k + 1) - 1 = k
      BY <1>1
    <3>4. QED  BY <3>1, <3>2, <3>3 DEF Before
  <2>3. QED  BY <2>1, <2>2
<1>3. CASE k = l + 1
  <2>1. Target(m, p) = NULL /\ c[q] \in H
    BY <1>1, <1>2, <1>3 DEF IsChain
  <2>2. QED  BY <2>1
<1>4. CASE k \in 1 .. l
  BY <1>1, <1>2, <1>4 DEF IsChain
<1>5. QED  BY <1>1, <1>3, <1>4

(* Unlinking a bucket, through the location that points at it. *)
LEMMA UnlinkKeeps ==
    ASSUME NEW n \in Nat \ {0}, NEW m, NEW T, Linked(m, n, T), NEW b \in T,
           NEW i, i = LowBits(HashOf[b], n),
           NEW p \in {Slot(i)} \cup {AtNext(x) : x \in Home(T, n, i)}, Target(m, p) = b,
           NEW v \in Mem(n),
           \A loc \in Locs(n, Buckets) :
               Target(v, loc) = IF loc = p THEN m.next[b] ELSE Target(m, loc),
           Doubly => \A x \in Buckets :
               v.previous[x] = IF x = m.next[b] THEN m.previous[b] ELSE m.previous[x]
    PROVE  Linked(v, n, T \ {b})
<1>1. m \in Mem(n) /\ T \subseteq Buckets /\ \A j \in 0 .. n - 1 : HasChain(m, j, Home(T, n, j))
  BY DEF Linked
<1>2. i \in 0 .. n - 1 /\ NULL \notin Buckets
  BY <1>1, HashAssumption, DivMod DEF LowBits
<1> DEFINE H == Home(T, n, i)
           G == Home(T \ {b}, n, i)
<1>3. G = H \ {b} /\ b \in H /\ H \subseteq Buckets /\ NULL \notin H
  BY <1>1, <1>2 DEF Home
<1>4. PICK l, c : IsChain(m, i, l, c, H)
  BY <1>1, <1>2 DEF HasChain
<1>5. p \in {Slot(i)} \cup {AtNext(x) : x \in H}
  OBVIOUS
<1> HIDE DEF H, G
<1>6. /\ l \in Nat
      /\ c \in [1 .. l -> H]
      /\ \A x \in H : \E k \in 1 .. l : c[k] = x
      /\ \A j, k \in 1 .. l : c[j] = c[k] => j = k
      /\ \A k \in 1 .. l : Target(m, Before(i, c, k)) = c[k]
      /\ Target(m, Before(i, c, l + 1)) = NULL
      /\ Doubly => \A k \in 1 .. l : m.previous[c[k]] = Before(i, c, k)
  BY <1>4 DEF IsChain
<1>7. PICK q \in 1 .. l : c[q] = b
  BY <1>3, <1>6
<1>8. p = Before(i, c, q)
  BY <1>3, <1>4, <1>5, <1>7, LocationOnChain
<1>9. Target(m, Before(i, c, q + 1)) = m.next[b] /\ m.next[b] \in H \cup {NULL} /\ m.next[b] # b
  <2>1. q + 1 # 1 /\ (q + 1) - 1 = q
    BY <1>6
  <2>2. Target(m, Before(i, c, q + 1)) = m.next[b]
    BY <1>7, <2>1, Targets DEF Before
  <2>3. CASE q = l
    BY <1>3, <1>6, <2>2, <2>3
  <2>4. CASE q # l
    <3>1. q + 1 \in 1 .. l /\ q + 1 # q
      BY <1>6, <2>4
    <3>2. QED  BY <1>6, <1>7, <2>2, <3>1
  <2>5. QED  BY <2>3, <2>4
<1>10. ASSUME NEW j \in 0 .. n - 1, j # i
       PROVE  HasChain(v, j, Home(T \ {b}, n, j))
  <2>1. Home(T \ {b}, n, j) = Home(T, n, j)
    BY <1>10 DEF Home
  <2>2. Home(T, n, j) \subseteq Buckets /\ Home(T, n, j) \cap H = {}
    BY <1>1, <1>10 DEF Home, H
  <2>3. Locs(n, Home(T, n, j)) \subseteq Locs(n, Buckets)
    BY <2>2, LocsMonotonic
  <2>4. \A loc \in {Slot(j)} \cup {AtNext(x) : x \in Home(T, n, j)} : loc # p
    BY <1>5, <1>10, <2>2, LocationsDiffer
  <2>5. \A loc \in Locs(n, Home(T, n, j)) :
          loc \in {Slot(j)} \cup {AtNext(x) : x \in Home(T, n, j)}
             => Target(v, loc) = Target(m, loc)
    BY <2>3, <2>4
  <2>6. Doubly => \A x \in Home(T, n, j) : v.previous[x] = m.previous[x]
    BY <1>2, <1>9, <2>2
  <2> DEFINE K == Home(T, n, j)
  <2>7. HasChain(m, j, K) /\ n \in Nat
    BY <1>1
  <2> HIDE DEF K
  <2>8. HasChain(v, j, K)
    BY <2>5, <2>6, <2>7, ChainStays DEF K
  <2>9. QED  BY <2>1, <2>8 DEF K
<1>11. HasChain(v, i, G)
  <2> DEFINE d == [k \in 1 .. l - 1 |-> IF k < q THEN c[k] ELSE c[k + 1]]
  <2>1. /\ \A k \in 1 .. l : k < q => k \in 1 .. l - 1
        /\ \A k \in 1 .. l : k > q => k - 1 \in 1 .. l - 1 /\ ~(k - 1 < q) /\ (k - 1) + 1 = k
        /\ \A k \in 1 .. l - 1 : k \in 1 .. l /\ k + 1 \in 1 .. l
        /\ l - 1 \in Nat /\ (l - 1) + 1 = l
    BY <1>6
  <2>2. \A k \in 1 .. l - 1 : d[k] = IF k < q THEN c[k] ELSE c[k + 1]
    OBVIOUS
  <2>3. d \in [1 .. l - 1 -> G]
    <3>1. \A k \in 1 .. l - 1 : (IF k < q THEN c[k] ELSE c[k + 1]) \in G
      <4>1. SUFFICES ASSUME NEW k \in 1 .. l - 1
                     PROVE  (IF k < q THEN c[k] ELSE c[k + 1]) \in G
        OBVIOUS
      <4>2. CASE k < q
        BY <1>3, <1>6, <1>7, <2>1, <4>2
      <4>3. CASE ~(k < q)
        <5>1. k + 1 \in 1 .. l /\ k + 1 # q
          BY <1>6, <4>3
        <5>2. QED  BY <1>3, <1>6, <1>7, <4>3, <5>1
      <4>4. QED  BY <4>2, <4>3
    <3>2. QED  BY <3>1
  <2> HIDE DEF d
  <2>4. \A x \in G : \E k \in 1 .. l - 1 : d[k] = x
    <3>1. SUFFICES ASSUME NEW x \in G PROVE \E k \in 1 .. l - 1 : d[k] = x
      OBVIOUS
    <3>2. PICK k \in 1 .. l : c[k] = x
      BY <1>3, <1>6
    <3>3. k # q
      BY <1>3, <1>7, <3>2
    <3>4. CASE k < q
      BY <2>1, <2>2, <3>2, <3>4
    <3>5. CASE k > q
      BY <2>1, <2>2, <3>2, <3>5
    <3>6. QED  BY <1>6, <3>3, <3>4, <3>5
  <2>5. \A j, k \in 1 .. l - 1 : d[j] = d[k] => j = k
    <3>1. SUFFICES ASSUME NEW j \in 1 .. l - 1, NEW k \in 1 .. l - 1, d[j] = d[k]
                   PROVE  j = k
      OBVIOUS
    <3>2. (IF j < q THEN j ELSE j + 1) = (IF k < q THEN k ELSE k + 1)
      BY <1>6, <2>1, <2>2, <3>1
    <3>3. QED  BY <1>6, <3>2
  <2>6. /\ \A k \in 1 .. q : Before(i, d, k) = Before(i, c, k)
        /\ \A k \in q + 1 .. l : Before(i, d, k) = Before(i, c, k + 1)
    <3>1. ASSUME NEW k \in 1 .. q, k # 1
          PROVE  d[k - 1] = c[k - 1]
      <4>1. k - 1 \in 1 .. l - 1 /\ k - 1 < q
        BY <1>6, <3>1
      <4>2. QED  BY <2>2, <4>1
    <3>2. ASSUME NEW k \in q + 1 .. l
          PROVE  k # 1 /\ k + 1 # 1 /\ d[k - 1] = c[(k + 1) - 1]
      <4>1. k - 1 \in 1 .. l - 1 /\ ~(k - 1 < q) /\ (k - 1) + 1 = (k + 1) - 1
        BY <1>6, <3>2
      <4>2. k # 1 /\ k + 1 # 1
        BY <1>6, <3>2
      <4>3. QED  BY <2>2, <4>1, <4>2
    <3>3. QED  BY <3>1, <3>2 DEF Before
  <2>7. \A k \in 1 .. l + 1 : Before(i, c, k) \in Locs(n, Buckets)
    <3>1. Locs(n, H) \subseteq Locs(n, Buckets)
      BY <1>3, LocsMonotonic
    <3>2. QED  BY <1>2, <1>6, <3>1, BeforeIsLocation
  <2>8. \A k \in 1 .. l + 1 : k # q => Target(v, Before(i, c, k)) = Target(m, Before(i, c, k))
    <3>1. SUFFICES ASSUME NEW k \in 1 .. l + 1, k # q PROVE Before(i, c, k) # p
      BY <2>7
    <3>2. CASE k = l + 1
      BY <1>2, <1>3, <1>6, <3>2
    <3>3. CASE k \in 1 .. l
      BY <1>6, <1>7, <1>8, <3>1, <3>3
    <3>4. QED  BY <1>6, <3>2, <3>3
  <2>9. Target(v, Before(i, c, q)) = m.next[b]
    <3>1. q \in 1 .. l + 1
      BY <1>6
    <3>2. QED  BY <1>8, <2>7, <3>1
  <2>10. \A k \in 1 .. l - 1 : Target(v, Before(i, d, k)) = d[k]
    <3>1. SUFFICES ASSUME NEW k \in 1 .. l - 1 PROVE Target(v, Before(i, d, k)) = d[k]
      OBVIOUS
    <3>2. CASE k < q
      <4>1. k \in 1 .. q /\ k \in 1 .. l + 1 /\ k # q /\ k \in 1 .. l
        BY <1>6, <3>2
      <4>2. QED  BY <1>6, <2>2, <2>6, <2>8, <3>2, <4>1
    <3>3. CASE k = q
      <4>1. q + 1 \in 1 .. l /\ q \in 1 .. q /\ ~(q < q)
        BY <1>6, <3>3
      <4>2. d[q] = c[q + 1]
        BY <2>2, <3>3, <4>1
      <4>3. QED  BY <1>6, <1>9, <2>6, <2>9, <3>3, <4>1, <4>2
    <3>4. CASE k > q
      <4>1. k \in q + 1 .. l /\ k + 1 \in 1 .. l /\ k + 1 \in 1 .. l + 1 /\ k + 1 # q /\ ~(k < q)
        BY <1>6, <3>4
      <4>2. QED  BY <1>6, <2>2, <2>6, <2>8, <4>1
    <3>5. QED  BY <1>6, <3>2, <3>3, <3>4
  <2>11. Target(v, Before(i, d, (l - 1) + 1)) = NULL
    <3>1. CASE q = l
      <4>1. q \in 1 .. q /\ (l - 1) + 1 = q
        BY <1>6, <3>1
      <4>2. QED  BY <1>6, <1>9, <2>6, <2>9, <3>1, <4>1
    <3>2. CASE q # l
      <4>1. l \in q + 1 .. l /\ (l - 1) + 1 = l /\ l + 1 \in 1 .. l + 1 /\ l + 1 # q
        BY <1>6, <3>2
      <4>2. QED  BY <1>6, <2>6, <2>8, <4>1
    <3>3. QED  BY <3>1, <3>2
  <2>12. ASSUME Doubly, NEW k \in 1 .. l - 1
         PROVE  v.previous[d[k]] = Before(i, d, k)
    <3>1. m.next[b] = IF q = l THEN NULL ELSE c[q + 1]
      <4>1. CASE q = l
        BY <1>6, <1>9, <4>1
      <4>2. CASE q # l
        <5>1. q + 1 \in 1 .. l
          BY <1>6, <4>2
        <5>2. QED  BY <1>6, <1>9, <4>2, <5>1
      <4>3. QED  BY <4>1, <4>2
    <3>2. CASE k < q
      <4>1. k \in 1 .. q /\ k \in 1 .. l /\ (q # l => q + 1 \in 1 .. l /\ q + 1 # k)
        BY <1>6, <3>2
      <4>2. d[k] = c[k] /\ c[k] \in Buckets /\ c[k] # m.next[b]
        BY <1>2, <1>3, <1>6, <2>2, <3>1, <3>2, <4>1
      <4>3. v.previous[c[k]] = m.previous[c[k]]
        BY <2>12, <4>2
      <4>4. QED  BY <1>6, <2>6, <2>12, <4>1, <4>2, <4>3
    <3>3. CASE k = q
      <4>1. q + 1 \in 1 .. l /\ q \in 1 .. q /\ ~(q < q) /\ q # l
        BY <1>6, <3>3
      <4>2. d[q] = m.next[b] /\ d[q] \in Buckets
        BY <1>3, <1>6, <2>2, <3>1, <3>3, <4>1
      <4>3. v.previous[d[q]] = m.previous[b]
        BY <2>12, <4>2
      <4>4. QED  BY <1>6, <1>7, <2>6, <2>12, <3>3, <4>1, <4>3
    <3>4. CASE k > q
      <4>1. k \in q + 1 .. l /\ k + 1 \in 1 .. l /\ ~(k < q) /\ q + 1 \in 1 .. l /\ q # l
            /\ k + 1 # q + 1
        BY <1>6, <3>4
      <4>2. d[k] = c[k + 1] /\ c[k + 1] \in Buckets /\ c[k + 1] # m.next[b]
        BY <1>3, <1>6, <2>2, <3>1, <4>1
      <4>3. v.previous[c[k + 1]] = m.previous[c[k + 1]]
        BY <2>12, <4>2
      <4>4. QED  BY <1>6, <2>6, <2>12, <4>1, <4>2, <4>3
    <3>5. QED  BY <1>6, <3>2, <3>3, <3>4
  <2>13. IsChain(v, i, l - 1, d, G)
    BY <2>1, <2>3, <2>4, <2>5, <2>10, <2>11, <2>12 DEF IsChain
  <2>14. QED  BY <2>13 DEF HasChain
<1>12. QED  BY <1>1, <1>10, <1>11 DEF Linked, G

(* Following the pointers from a slot meets the chain, and then NULL. *)
LEMMA WalkMeets ==
    ASSUME NEW m, NEW i, NEW l, NEW c, NEW H, IsChain(m, i, l, c, H), NULL \notin H,
           l <= Cardinality(Buckets)
    PROVE  LET C == Cardinality(Buckets)
           IN  Walk(m, i) = [k \in 0 .. C |-> IF k < l THEN c[k + 1] ELSE NULL]
<1> DEFINE C == Cardinality(Buckets)
           Step(at, k) == IF k = 0 THEN m.slot[i]
                          ELSE IF at[k - 1] = NULL THEN NULL ELSE m.next[at[k - 1]]
           Steps(at) == [k \in 0 .. C |-> Step(at, k)]
           w == CHOOSE at : at = Steps(at)
           met == [k \in 0 .. C |-> IF k < l THEN c[k + 1] ELSE NULL]
<1>1. C \in Nat /\ l \in Nat /\ l <= C
  BY HashAssumption, FS_CardinalityType DEF IsChain
<1>2. Walk(m, i) = w
  BY Zenon DEF Walk
<1> HIDE DEF C
<1>3. \A k \in 0 .. C : met[k] = IF k < l THEN c[k + 1] ELSE NULL
  OBVIOUS
<1>4. met[0] = m.slot[i]
  <2>1. Before(i, c, 1) = Slot(i) /\ Target(m, Slot(i)) = m.slot[i]
    BY Targets DEF Before
  <2>2. CASE l = 0
    BY <1>1, <1>3, <2>1, <2>2 DEF IsChain
  <2>3. CASE l # 0
    <3>1. 1 \in 1 .. l /\ 0 \in 0 .. C /\ 0 < l /\ 0 + 1 = 1
      BY <1>1, <2>3
    <3>2. QED  BY <1>3, <2>1, <3>1 DEF IsChain
  <2>4. QED  BY <2>2, <2>3
<1>5. ASSUME NEW k \in 1 .. C
      PROVE  met[k] = IF met[k - 1] = NULL THEN NULL ELSE m.next[met[k - 1]]
  <2>1. k \in 0 .. C /\ k - 1 \in 0 .. C /\ (k - 1) + 1 = k
    BY <1>1
  <2>2. CASE k <= l
    <3>1. k \in 1 .. l /\ k + 1 # 1 /\ (k + 1) - 1 = k
      BY <1>1, <2>2
    <3>2. met[k - 1] = c[k] /\ c[k] \in H
      BY <1>1, <1>3, <2>1, <3>1 DEF IsChain
    <3>3. Target(m, Before(i, c, k + 1)) = m.next[c[k]]
      BY <3>1, Targets DEF Before
    <3>4. Target(m, Before(i, c, k + 1)) = met[k]
      <4>1. CASE k = l
        BY <1>1, <1>3, <2>1, <4>1 DEF IsChain
      <4>2. CASE k # l
        <5>1. k + 1 \in 1 .. l /\ k < l
          BY <1>1, <3>1, <4>2
        <5>2. QED  BY <1>3, <2>1, <5>1 DEF IsChain
      <4>3. QED  BY <4>1, <4>2
    <3>5. QED  BY <3>2, <3>3, <3>4
  <2>3. CASE k > l
    <3>1. ~(k < l) /\ ~(k - 1 < l)
      BY <1>1, <2>3
    <3>2. QED  BY <1>3, <2>1, <3>1
  <2>4. QED  BY <1>1, <2>2, <2>3
<1> HIDE DEF met
<1>6. met = Steps(met)
  <2>1. \A k \in 0 .. C : k # 0 => k \in 1 .. C
    BY <1>1
  <2>2. \A k \in 0 .. C : met[k] = Step(met, k)
    BY <1>4, <1>5, <2>1
  <2>3. met = [k \in 0 .. C |-> met[k]]
    BY DEF met
  <2> HIDE DEF Step
  <2>4. QED  BY <2>2, <2>3
<1> HIDE DEF Steps
<1>7. w = Steps(w)
  BY <1>6, Zenon
<1> HIDE DEF w
<1>8. \A k \in 0 .. C : w[k] = met[k]
  <2>1. \A k \in 0 .. C : w[k] = Step(w, k)
    <3> HIDE DEF Step
    <3>1. QED  BY <1>7 DEF Steps
  <2> DEFINE Same == {k \in 0 .. C : w[k] = met[k]}
  <2>2. 0 \in Same
    BY <1>1, <1>4, <2>1
  <2>3. \A k \in 1 .. C : k - 1 \in Same => k \in Same
    <3>1. SUFFICES ASSUME NEW k \in 1 .. C, k - 1 \in Same PROVE w[k] = met[k]
      BY <1>1
    <3>2. k \in 0 .. C /\ k # 0 /\ w[k - 1] = met[k - 1]
      BY <1>1, <3>1
    <3>3. QED  BY <1>5, <2>1, <3>2
  <2> HIDE DEF Same
  <2>4. \A k \in 0 .. C : k \in Same
    BY <1>1, <2>2, <2>3, UpTo
  <2>5. QED  BY <2>4 DEF Same
<1>9. w = met
  <2>1. w = [k \in 0 .. C |-> w[k]]
    BY <1>7 DEF Steps
  <2>2. met = [k \in 0 .. C |-> met[k]]
    BY DEF met
  <2>3. QED  BY <1>8, <2>1, <2>2
<1>10. QED  BY <1>2, <1>9 DEF met, C

(* So Chain is that chain: it is as long as there are buckets on it. *)
LEMMA ChainIsChain ==
    ASSUME NEW m, NEW i, NEW H, HasChain(m, i, H), H \subseteq Buckets
    PROVE  LET c == Chain(m, i)
           IN  /\ IsChain(m, i, Len(c), c, H)
               /\ OnChain(m, i) = H
               /\ Len(c) = Cardinality(H)
<1>1. PICK l, c : IsChain(m, i, l, c, H)
  BY DEF HasChain
<1>2. /\ l \in Nat
      /\ c \in [1 .. l -> H]
      /\ \A b \in H : \E k \in 1 .. l : c[k] = b
      /\ \A j, k \in 1 .. l : c[j] = c[k] => j = k
  BY <1>1 DEF IsChain
<1>3. NULL \notin H /\ IsFiniteSet(Buckets) /\ Cardinality(Buckets) \in Nat
  BY HashAssumption, FS_CardinalityType
<1>4. Cardinality(H) = l
  <2> DEFINE N == 1 .. l
             V == {c[k] : k \in N}
  <2>1. IsFiniteSet(N) /\ Cardinality(N) = l
    BY <1>2, FS_Interval
  <2>2. V = H
    BY <1>2
  <2> HIDE DEF V
  <2>3. \A j, k \in N : c[j] = c[k] => j = k
    BY <1>2
  <2> HIDE DEF N
  <2>4. Cardinality(V) = Cardinality(N)
    BY <2>1, <2>3, ValuesCounted DEF V
  <2>5. QED  BY <2>1, <2>2, <2>4
<1>5. Cardinality(H) <= Cardinality(Buckets)
  BY <1>3, FS_Subset
<1> DEFINE C == Cardinality(Buckets)
           at == Walk(m, i)
<1>6. at = [k \in 0 .. C |-> IF k < l THEN c[k + 1] ELSE NULL]
  BY <1>1, <1>3, <1>4, <1>5, WalkMeets
<1> HIDE DEF at, C
<1>7. DOMAIN at = 0 .. C /\ \A k \in 0 .. C : at[k] = IF k < l THEN c[k + 1] ELSE NULL
  BY <1>6
<1>8. C \in Nat /\ l <= C
  BY <1>3, <1>4, <1>5 DEF C
<1>9. {j \in DOMAIN at : at[j] # NULL} = 0 .. l - 1
  <2>1. ASSUME NEW j \in 0 .. C PROVE at[j] # NULL <=> j < l
    <3>1. CASE j < l
      <4>1. j + 1 \in 1 .. l
        BY <1>2, <3>1
      <4>2. QED  BY <1>2, <1>3, <1>7, <3>1, <4>1
    <3>2. CASE ~(j < l)
      BY <1>7, <3>2
    <3>3. QED  BY <3>1, <3>2
  <2>2. \A j \in 0 .. C : j < l <=> j \in 0 .. l - 1
    BY <1>2, <1>8
  <2>3. 0 .. l - 1 \subseteq 0 .. C
    BY <1>2, <1>8
  <2>4. QED  BY <1>7, <2>1, <2>2, <2>3
<1>10. Cardinality(0 .. l - 1) = l
  BY <1>2, FS_Interval
<1>11. Chain(m, i) = [k \in 1 .. l |-> at[k - 1]]
  BY <1>9, <1>10, Zenon DEF Chain, at
<1>12. Chain(m, i) = c
  <2>1. \A k \in 1 .. l : at[k - 1] = c[k]
    <3>1. SUFFICES ASSUME NEW k \in 1 .. l PROVE at[k - 1] = c[k]
      OBVIOUS
    <3>2. k - 1 \in 0 .. C /\ k - 1 < l /\ (k - 1) + 1 = k
      BY <1>2, <1>8
    <3>3. QED  BY <1>7, <3>2
  <2>2. QED  BY <1>2, <1>11, <2>1
<1>13. Len(c) = l
  BY <1>2, LenProperties, SeqDef
<1>14. OnChain(m, i) = H
  <2>1. OnChain(m, i) = {c[k] : k \in 1 .. l}
    BY <1>12, <1>13 DEF OnChain
  <2>2. QED  BY <1>2, <2>1
<1>15. QED  BY <1>1, <1>4, <1>12, <1>13, <1>14

-----------------------------------------------------------------------------
(* Rehashing *)

(* The hash of b, but for the bits that count references, is in x.         *)
KeepsHash(x, b) == x - LowBits(x, RefMask + 1) = HashOf[b] - LowBits(HashOf[b], RefMask + 1)

LEMMA Quotient ==
    ASSUME NEW n \in Nat \ {0}, NEW q \in Nat, NEW r \in 0 .. n - 1, NEW x, x = n * q + r
    PROVE  x \div n = q /\ x % n = r
OBVIOUS

(* A digit of the quotient is not changed by what lies below it.           *)
LEMMA QuotientKept ==
    ASSUME NEW d \in Nat \ {0}, NEW e \in Nat \ {0}, NEW a \in Nat, NEW r \in 0 .. d - 1
    PROVE  (d * a + r) \div (d * e) = a \div e
<1> DEFINE s == a \div e
           t == a % e
<1>1. s \in Nat /\ t \in 0 .. e - 1 /\ a = e * s + t
  BY DivMod
<1> HIDE DEF s, t
<1>2. d * a + r = d * e * s + (d * t + r)
  <2>1. d * a = d * (e * s) + d * t
    BY <1>1
  <2>2. d * (e * s) = (d * e) * s
    BY <1>1
  <2>3. d * a \in Nat /\ d * t \in Nat /\ (d * e) * s \in Nat
    BY <1>1
  <2>4. QED  BY <2>1, <2>2, <2>3
<1>3. d * t + r \in 0 .. d * e - 1
  <2>1. t + 1 <= e
    BY <1>1
  <2>2. d * (t + 1) <= d * e
    BY <1>1, <2>1
  <2>3. d * (t + 1) = d * t + d
    BY <1>1
  <2>4. d * t \in Nat /\ d * e \in Nat
    BY <1>1
  <2>5. QED  BY <2>2, <2>3, <2>4
<1>4. d * e \in Nat \ {0}
  OBVIOUS
<1> DEFINE de == d * e
           x == d * a + r
           y == d * t + r
<1>5. de \in Nat \ {0} /\ x = de * s + y /\ y \in 0 .. de - 1 /\ s \in Nat
  BY <1>1, <1>2, <1>3, <1>4
<1> HIDE DEF de, x, y
<1>6. x \div de = s
  BY <1>5, Quotient
<1>7. QED  BY <1>6 DEF s, x, de

LEMMA DoubledIndex ==
    ASSUME NEW n \in Nat \ {0}, NEW h \in Nat
    PROVE  LowBits(h, n) + Bit(h, n) = LowBits(h, 2 * n)
<1> DEFINE s == h \div n
           t == h % n
           u == s \div 2
           v == s % 2
<1>1. s \in Nat /\ t \in 0 .. n - 1 /\ h = n * s + t
  BY DivMod
<1> HIDE DEF s, t
<1>2. u \in Nat /\ v \in 0 .. 1 /\ s = 2 * u + v
  BY <1>1
<1> HIDE DEF u, v
<1>3. h = (2 * n) * u + (n * v + t)
  <2>1. n * s = n * (2 * u) + n * v
    BY <1>2
  <2>2. n * (2 * u) = (2 * n) * u
    BY <1>2
  <2>3. n * v \in Nat /\ n * s \in Nat /\ (2 * n) * u \in Nat
    BY <1>1, <1>2
  <2>4. QED  BY <1>1, <2>1, <2>2, <2>3
<1>4. n * v + t \in 0 .. 2 * n - 1 /\ 2 * n \in Nat \ {0}
  <2>1. v = 0 \/ v = 1
    BY <1>2
  <2>2. QED  BY <1>1, <2>1
<1>5. h % (2 * n) = n * v + t
  <2> DEFINE N == 2 * n
             r == n * v + t
  <2>1. N \in Nat \ {0} /\ r \in 0 .. N - 1 /\ h = N * u + r
    BY <1>3, <1>4
  <2> HIDE DEF N, r
  <2>2. h % N = r
    BY <1>2, <2>1, Quotient
  <2>3. QED  BY <2>2 DEF N, r
<1>6. LowBits(h, n) = t /\ Bit(h, n) = n * v
  BY DEF LowBits, Bit, s, t, v
<1>7. n * v \in Nat
  BY <1>2
<1>8. QED  BY <1>1, <1>5, <1>6, <1>7 DEF LowBits

(* The bit of info that a rehash of n slots looks at is that of the hash,  *)
(* when the reference counter lies below it.                               *)
LEMMA BitOfHash ==
    ASSUME NEW n \in Nat \ {0}, n % (RefMask + 1) = 0,
           NEW x \in Nat, NEW b \in Buckets, KeepsHash(x, b)
    PROVE  LowBits(HashOf[b], n) + Bit(x, n) = LowBits(HashOf[b], 2 * n)
<1> DEFINE d == RefMask + 1
           h == HashOf[b]
           e == n \div d
           a == h \div d
           r == x % d
           s == h % d
<1>1. d \in Nat \ {0} /\ h \in Nat
  BY HashAssumption
<1>2. n = d * e /\ e \in Nat
  <2>1. n = d * (n \div d) + (n % d) /\ n \div d \in Nat
    BY <1>1, DivMod
  <2>2. n % d = 0
    OBVIOUS
  <2>3. d * e \in Nat
    BY <1>1, <2>1
  <2>4. QED  BY <2>1, <2>2, <2>3
<1>3. e \in Nat \ {0}
  BY <1>1, <1>2
<1>4. x = d * (x \div d) + r /\ h = d * a + s /\ x \div d \in Nat /\ a \in Nat
      /\ r \in 0 .. d - 1 /\ s \in 0 .. d - 1
  BY <1>1, DivMod
<1>5. x - r = h - s
  BY DEF KeepsHash, LowBits
<1> HIDE DEF d, h, e, a, r, s
<1>6. d * (x \div d) = d * a
  <2>1. d * (x \div d) \in Nat /\ d * a \in Nat
    BY <1>1, <1>4
  <2>2. QED  BY <1>1, <1>4, <1>5, <2>1
<1>7. d \in Nat \ {0} /\ a \in Nat /\ r \in 0 .. d - 1 /\ s \in 0 .. d - 1
  BY <1>1, <1>4
<1>8. /\ (d * a + r) \div (d * e) = a \div e
      /\ (d * a + s) \div (d * e) = a \div e
  <2>1. (d * a + r) \div (d * e) = a \div e
    BY <1>3, <1>7, QuotientKept
  <2>2. (d * a + s) \div (d * e) = a \div e
    BY <1>3, <1>7, QuotientKept
  <2>3. QED  BY <2>1, <2>2
<1>9. x \div n = h \div n
  BY <1>2, <1>4, <1>6, <1>8
<1>10. Bit(x, n) = Bit(h, n)
  BY <1>9 DEF Bit
<1>11. QED  BY <1>1, <1>10, DoubledIndex DEF h

LEMMA SizeOfMem ==
    ASSUME NEW n \in Nat, NEW m \in Mem(n)
    PROVE  TableSize(m) = n
<1>1. DOMAIN m.slot = 0 .. n - 1
  BY DEF Mem
<1>2. Cardinality(0 .. n - 1) = n
  BY FS_Interval
<1>3. QED  BY <1>1, <1>2 DEF TableSize

(* The memory after each bucket of an old chain: the inner loop.           *)
IsRelinking(g, w, c, i, n, inf) ==
    /\ g[0] = w
    /\ \A k \in 1 .. Len(c) : g[k] = Link(g[k - 1], c[k], Slot(i + Bit(inf[c[k]], n)))
    /\ Relinked(w, c, i, n, inf) = g[Len(c)]

LEMMA BitBound ==
    ASSUME NEW n \in Nat \ {0}, NEW x \in Nat, NEW i \in 0 .. n - 1
    PROVE  i + Bit(x, n) \in 0 .. 2 * n - 1
<1>1. Bit(x, n) \in {0, n}
  <2>1. (x \div n) \in Nat
    BY DivMod
  <2>2. (x \div n) % 2 = 0 \/ (x \div n) % 2 = 1
    BY <2>1
  <2>3. QED  BY <2>2 DEF Bit
<1>2. QED  BY <1>1

LEMMA RelinkedByLoop ==
    ASSUME NEW n \in Nat \ {0}, NEW w \in Mem(2 * n), NEW c \in Seq(Buckets),
           NEW i \in 0 .. n - 1, NEW inf \in [Buckets -> Nat]
    PROVE  \E g \in [0 .. Len(c) -> Mem(2 * n)] : IsRelinking(g, w, c, i, n, inf)
<1> DEFINE M == Mem(2 * n)
           l == Len(c)
           Step(k, u) == Link(u, c[k], Slot(i + Bit(inf[c[k]], n)))
           step == [k \in 1 .. l |-> [u \in M |-> Step(k, u)]]
           Loop(g) == [k \in 0 .. l |-> IF k = 0 THEN w ELSE Step(k, g[k - 1])]
           at == CHOOSE g : g = Loop(g)
<1>1. l \in Nat /\ \A k \in 1 .. l : c[k] \in Buckets
  BY ElementOfSeq, LenProperties
<1>2. \A k \in 1 .. l : \A u \in M : Step(k, u) \in M
  <2>1. SUFFICES ASSUME NEW k \in 1 .. l, NEW u \in M PROVE Step(k, u) \in M
    OBVIOUS
  <2> DEFINE N == 2 * n
             j == i + Bit(inf[c[k]], n)
  <2>2. N \in Nat /\ j \in 0 .. N - 1 /\ c[k] \in Buckets
    <3>1. c[k] \in Buckets /\ inf[c[k]] \in Nat
      BY <1>1
    <3>2. N \in Nat
      OBVIOUS
    <3>3. j \in 0 .. N - 1
      BY <3>1, BitBound
    <3>4. QED  BY <3>1, <3>2, <3>3
  <2> HIDE DEF j, N
  <2>3. u \in Mem(N)
    BY <2>1 DEF N
  <2>4. Link(u, c[k], Slot(j)) \in Mem(N)
    BY <2>2, <2>3, LinkEffect
  <2>5. QED  BY <2>4 DEF j, N
<1>3. Relinked(w, c, i, n, inf) = at[l]
  BY Zenon DEF Relinked
<1> HIDE DEF M, Step
<1>4. step \in [1 .. l -> [M -> M]]
  BY <1>2
<1>5. \A k \in 1 .. l : \A u \in M : step[k][u] = Step(k, u)
  OBVIOUS
<1> HIDE DEF step
<1>6. w \in M
  BY DEF M
<1> HIDE DEF l
<1>7. PICK g : IsLoop(l, M, w, step, g)
  BY <1>1, <1>4, <1>6, Iteration
<1>8. g = Loop(g)
  <2>1. \A k \in 1 .. l : g[k - 1] \in M /\ g[k] = Step(k, g[k - 1])
    <3>1. SUFFICES ASSUME NEW k \in 1 .. l
                   PROVE  g[k - 1] \in M /\ g[k] = Step(k, g[k - 1])
      OBVIOUS
    <3>2. k - 1 \in 0 .. l
      BY <1>1
    <3>3. g[k - 1] \in M /\ g[k] = step[k][g[k - 1]]
      BY <1>7, <3>2 DEF IsLoop
    <3>4. QED  BY <1>5, <3>3
  <2>2. \A k \in 0 .. l : g[k] = IF k = 0 THEN w ELSE Step(k, g[k - 1])
    BY <1>1, <1>7, <2>1 DEF IsLoop
  <2>3. QED  BY <1>7, <2>2 DEF IsLoop
<1> HIDE DEF Loop
<1>9. at = Loop(at)
  BY <1>8, Zenon
<1> HIDE DEF at
<1>10. /\ at[0] = w
       /\ \A k \in 1 .. l : at[k] = Step(k, at[k - 1])
  BY <1>1, <1>9 DEF Loop
<1>11. at \in [0 .. l -> M]
  <2> DEFINE Good == {k \in 0 .. l : at[k] \in M}
  <2>1. 0 \in Good
    BY <1>1, <1>6, <1>10
  <2>2. \A k \in 1 .. l : k - 1 \in Good => k \in Good
    BY <1>1, <1>2, <1>10
  <2> HIDE DEF Good
  <2>3. \A k \in 0 .. l : k \in Good
    BY <1>1, <2>1, <2>2, UpTo
  <2>4. \A k \in 0 .. l : at[k] \in M
    BY <2>3 DEF Good
  <2>5. at = [k \in 0 .. l |-> at[k]]
    BY <1>9 DEF Loop
  <2>6. QED  BY <2>4, <2>5
<1>12. IsRelinking(at, w, c, i, n, inf)
  BY <1>3, <1>10 DEF Step, IsRelinking, l
<1>13. QED  BY <1>11, <1>12 DEF M, l

(* Every bucket of the old chain is linked to the chain it now belongs to. *)
LEMMA RelinkedKeeps ==
    ASSUME NEW n \in Nat \ {0}, n % (RefMask + 1) = 0,
           NEW w, NEW T, Linked(w, 2 * n, T),
           NEW H, H \subseteq Buckets, H \cap T = {},
           NEW i \in 0 .. n - 1, \A b \in H : LowBits(HashOf[b], n) = i,
           NEW inf \in [Buckets -> Nat], \A b \in H : KeepsHash(inf[b], b),
           NEW m, NEW c \in Seq(Buckets), IsChain(m, i, Len(c), c, H)
    PROVE  Linked(Relinked(w, c, i, n, inf), 2 * n, T \cup H)
<1> DEFINE N == 2 * n
           l == Len(c)
           At(k) == T \cup {c[j] : j \in 1 .. k}
<1>1. /\ l \in Nat
      /\ \A k \in 1 .. l : c[k] \in H
      /\ \A b \in H : \E k \in 1 .. l : c[k] = b
      /\ \A j, k \in 1 .. l : c[j] = c[k] => j = k
  BY DEF IsChain
<1>2. w \in Mem(N)
  BY DEF Linked
<1>3. PICK g \in [0 .. l -> Mem(N)] : IsRelinking(g, w, c, i, n, inf)
  BY <1>2, RelinkedByLoop
<1>4. /\ g[0] = w
      /\ \A k \in 1 .. l : g[k] = Link(g[k - 1], c[k], Slot(i + Bit(inf[c[k]], n)))
      /\ Relinked(w, c, i, n, inf) = g[l]
  BY <1>3 DEF IsRelinking
<1>5. N \in Nat \ {0} /\ Linked(w, N, T)
  OBVIOUS
<1> HIDE DEF l
<1> DEFINE Done == {k \in 0 .. l : Linked(g[k], N, At(k))}
<1>6. 0 \in Done
  <2>1. At(0) = T
    OBVIOUS
  <2>2. Linked(g[0], N, At(0))
    BY <1>4, <1>5, <2>1
  <2>3. QED  BY <1>1, <2>2
<1>7. ASSUME NEW k \in 1 .. l, k - 1 \in Done PROVE k \in Done
  <2>1. k \in 0 .. l /\ Linked(g[k - 1], N, At(k - 1))
    BY <1>1, <1>7
  <2>2. c[k] \in Buckets \ At(k - 1)
    <3>1. \A j \in 1 .. k - 1 : j \in 1 .. l /\ j # k
      BY <1>1
    <3>2. QED  BY <1>1, <3>1
  <2>3. At(k) = At(k - 1) \cup {c[k]}
    <3>1. \A j : j \in 1 .. k <=> (j \in 1 .. k - 1 \/ j = k)
      BY <1>1
    <3>2. QED  BY <3>1
  <2>4. i + Bit(inf[c[k]], n) = LowBits(HashOf[c[k]], N)
    <3>1. c[k] \in H /\ c[k] \in Buckets /\ inf[c[k]] \in Nat
      BY <1>1
    <3>2. KeepsHash(inf[c[k]], c[k]) /\ LowBits(HashOf[c[k]], n) = i
      BY <3>1
    <3>3. QED  BY <3>1, <3>2, BitOfHash
  <2> HIDE DEF At, N
  <2>5. Linked(Link(g[k - 1], c[k], Slot(LowBits(HashOf[c[k]], N))), N, At(k - 1) \cup {c[k]})
    BY <1>5, <2>1, <2>2, LinkKeeps
  <2>6. Linked(g[k], N, At(k))
    BY <1>4, <2>3, <2>4, <2>5
  <2>7. QED  BY <2>1, <2>6
<1> HIDE DEF Done, At, N
<1>8. \A k \in 0 .. l : k \in Done
  BY <1>1, <1>6, <1>7, UpTo
<1>9. Linked(g[l], N, At(l))
  BY <1>1, <1>8 DEF Done
<1>10. At(l) = T \cup H
  BY <1>1 DEF At
<1>11. QED  BY <1>4, <1>9, <1>10 DEF N

(* A table whose slots have just been cleared. *)
LEMMA ClearedIsLinked ==
    ASSUME NEW n \in Nat, NEW N \in Nat, n <= N, NEW m \in Mem(n)
    PROVE  Linked([m EXCEPT !.slot = NoSlots(N)], N, {})
<1> DEFINE v == [m EXCEPT !.slot = NoSlots(N)]
           none == [k \in 1 .. 0 |-> NULL]
<1>1. NoSlots(N) \in [0 .. N - 1 -> Buckets \cup {NULL}]
      /\ \A i \in 0 .. N - 1 : NoSlots(N)[i] = NULL
  BY DEF NoSlots
<1>2. Locs(n, Buckets) \subseteq Locs(N, Buckets)
  <2>1. 0 .. n - 1 \subseteq 0 .. N - 1
    OBVIOUS
  <2>2. QED  BY <2>1 DEF Locs
<1> DEFINE slots == NoSlots(N)
<1>3. v = [m EXCEPT !.slot = slots]
  OBVIOUS
<1> HIDE DEF v, slots
<1>4. v \in Mem(N) /\ v.slot = slots
  BY <1>1, <1>2, <1>3 DEF Mem, slots
<1>5. ASSUME NEW i \in 0 .. N - 1 PROVE HasChain(v, i, Home({}, N, i))
  <2>1. Home({}, N, i) = {}
    BY DEF Home
  <2>2. Before(i, none, 0 + 1) = Slot(i)
    BY DEF Before
  <2>3. Target(v, Slot(i)) = NULL
    BY <1>1, <1>4, Targets DEF slots
  <2>4. none \in [1 .. 0 -> {}] /\ 0 \in Nat /\ 1 .. 0 = {}
    OBVIOUS
  <2> HIDE DEF none
  <2>5. IsChain(v, i, 0, none, {})
    BY <2>2, <2>3, <2>4 DEF IsChain
  <2>6. QED  BY <2>1, <2>5 DEF HasChain
<1>6. QED  BY <1>4, <1>5 DEF Linked, v, slots

(* The memory after each slot of the old table: the outer loop.            *)
IsRehashing(g, m, n, inf) ==
    /\ g[0] = [m EXCEPT !.slot = NoSlots(2 * n)]
    /\ \A i \in 1 .. n : g[i] = Relinked(g[i - 1], Chain(m, i - 1), i - 1, n, inf)
    /\ Rehashed(m, inf) = g[n]

LEMMA RehashedByLoop ==
    ASSUME NEW n \in Nat \ {0}, NEW m \in Mem(n), NEW inf \in [Buckets -> Nat],
           \A i \in 0 .. n - 1 : Chain(m, i) \in Seq(Buckets)
    PROVE  \E g : IsRehashing(g, m, n, inf)
<1> DEFINE M == Mem(2 * n)
           cleared == [m EXCEPT !.slot = NoSlots(2 * n)]
           Step(i, u) == Relinked(u, Chain(m, i - 1), i - 1, n, inf)
           step == [i \in 1 .. n |-> [u \in M |-> Step(i, u)]]
           Loop(g) == [i \in 0 .. n |-> IF i = 0 THEN cleared ELSE Step(i, g[i - 1])]
           new == CHOOSE g : g = Loop(g)
<1>1. cleared \in M
  <2>1. 2 * n \in Nat /\ n <= 2 * n
    OBVIOUS
  <2> DEFINE N == 2 * n
  <2> HIDE DEF N
  <2>2. Linked([m EXCEPT !.slot = NoSlots(N)], N, {})
    BY <2>1, ClearedIsLinked DEF N
  <2>3. QED  BY <2>2 DEF Linked, N
<1>2. \A i \in 1 .. n : \A u \in M : Step(i, u) \in M
  <2>1. SUFFICES ASSUME NEW i \in 1 .. n, NEW u \in M PROVE Step(i, u) \in M
    OBVIOUS
  <2> DEFINE c == Chain(m, i - 1)
  <2>2. i - 1 \in 0 .. n - 1
    OBVIOUS
  <2>3. c \in Seq(Buckets)
    BY <2>2
  <2> HIDE DEF c
  <2>4. PICK g \in [0 .. Len(c) -> M] : IsRelinking(g, u, c, i - 1, n, inf)
    BY <2>2, <2>3, RelinkedByLoop
  <2>5. Relinked(u, c, i - 1, n, inf) = g[Len(c)] /\ Len(c) \in 0 .. Len(c)
    BY <2>3, <2>4, LenProperties DEF IsRelinking
  <2>6. QED  BY <2>4, <2>5 DEF c
<1>3. TableSize(m) = n
  BY SizeOfMem
<1>4. Rehashed(m, inf) = new[n]
  BY <1>3, Zenon DEF Rehashed
<1> HIDE DEF M, Step, cleared
<1>5. step \in [1 .. n -> [M -> M]]
  BY <1>2
<1>6. \A i \in 1 .. n : \A u \in M : step[i][u] = Step(i, u)
  OBVIOUS
<1> HIDE DEF step
<1>7. PICK g : IsLoop(n, M, cleared, step, g)
  BY <1>1, <1>5, Iteration
<1>8. g = Loop(g)
  <2>1. \A i \in 1 .. n : g[i] = Step(i, g[i - 1])
    <3>1. SUFFICES ASSUME NEW i \in 1 .. n PROVE g[i] = Step(i, g[i - 1])
      OBVIOUS
    <3>2. i - 1 \in 0 .. n
      OBVIOUS
    <3>3. g[i - 1] \in M /\ g[i] = step[i][g[i - 1]]
      BY <1>7, <3>2 DEF IsLoop
    <3>4. QED  BY <1>6, <3>3
  <2>2. \A i \in 0 .. n : g[i] = IF i = 0 THEN cleared ELSE Step(i, g[i - 1])
    BY <1>7, <2>1 DEF IsLoop
  <2>3. QED  BY <1>7, <2>2 DEF IsLoop
<1> HIDE DEF Loop
<1>9. new = Loop(new)
  BY <1>8, Zenon
<1> HIDE DEF new
<1>10. /\ new[0] = cleared
       /\ \A i \in 1 .. n : new[i] = Step(i, new[i - 1])
  BY <1>9 DEF Loop
<1>11. IsRehashing(new, m, n, inf)
  BY <1>4, <1>10 DEF Step, IsRehashing, cleared
<1>12. QED  BY <1>11

(* A rehash links every bucket to the chain of the doubled table that its  *)
(* hash selects.                                                           *)
LEMMA RehashKeeps ==
    ASSUME NEW n \in Nat \ {0}, n % (RefMask + 1) = 0,
           NEW m, NEW T, Linked(m, n, T),
           NEW inf \in [Buckets -> Nat], \A b \in T : KeepsHash(inf[b], b)
    PROVE  Linked(Rehashed(m, inf), 2 * n, T)
<1> DEFINE N == 2 * n
           Below(i) == {b \in T : LowBits(HashOf[b], n) < i}
<1>1. m \in Mem(n) /\ T \subseteq Buckets
  BY DEF Linked
<1>2. \A b \in T : LowBits(HashOf[b], n) \in 0 .. n - 1
  BY <1>1, HashAssumption, DivMod DEF LowBits
<1>3. \A i \in 0 .. n - 1 : /\ Chain(m, i) \in Seq(Buckets)
                            /\ IsChain(m, i, Len(Chain(m, i)), Chain(m, i), Home(T, n, i))
  <2>1. SUFFICES ASSUME NEW i \in 0 .. n - 1
                 PROVE  /\ Chain(m, i) \in Seq(Buckets)
                        /\ IsChain(m, i, Len(Chain(m, i)), Chain(m, i), Home(T, n, i))
    OBVIOUS
  <2> DEFINE H == Home(T, n, i)
             c == Chain(m, i)
  <2>2. HasChain(m, i, H) /\ H \subseteq Buckets
    BY <1>1 DEF Linked, Home
  <2> HIDE DEF H
  <2>3. IsChain(m, i, Len(c), c, H)
    BY <2>2, ChainIsChain
  <2> HIDE DEF c
  <2>4. Len(c) \in Nat /\ c \in [1 .. Len(c) -> Buckets]
    BY <2>2, <2>3 DEF IsChain
  <2>5. c \in Seq(Buckets)
    BY <2>4, SeqDef
  <2>6. QED  BY <2>3, <2>5 DEF H, c
<1>4. PICK g : IsRehashing(g, m, n, inf)
  BY <1>1, <1>3, RehashedByLoop
<1>5. /\ g[0] = [m EXCEPT !.slot = NoSlots(N)]
      /\ \A i \in 1 .. n : g[i] = Relinked(g[i - 1], Chain(m, i - 1), i - 1, n, inf)
      /\ Rehashed(m, inf) = g[n]
  BY <1>4 DEF IsRehashing
<1> DEFINE Done == {i \in 0 .. n : Linked(g[i], N, Below(i))}
<1>6. 0 \in Done
  <2>1. Below(0) = {}
    BY <1>2
  <2>2. N \in Nat /\ n <= N
    OBVIOUS
  <2> HIDE DEF N
  <2>3. Linked(g[0], N, {})
    BY <1>1, <1>5, <2>2, ClearedIsLinked
  <2>4. QED  BY <2>1, <2>3
<1>7. ASSUME NEW i \in 1 .. n, i - 1 \in Done PROVE i \in Done
  <2> DEFINE H == Home(T, n, i - 1)
             c == Chain(m, i - 1)
             B == Below(i - 1)
  <2>1. i \in 0 .. n /\ Linked(g[i - 1], N, B) /\ i - 1 \in 0 .. n - 1
    BY <1>7
  <2>2. H \subseteq Buckets /\ H \cap B = {} /\ \A b \in H : LowBits(HashOf[b], n) = i - 1
    BY <1>1, <1>2 DEF Home
  <2>3. \A b \in H : KeepsHash(inf[b], b)
    BY DEF Home
  <2>4. Below(i) = B \cup H
    BY <1>2 DEF Home
  <2>5. c \in Seq(Buckets) /\ IsChain(m, i - 1, Len(c), c, H)
    BY <1>3, <2>1
  <2>6. g[i] = Relinked(g[i - 1], c, i - 1, n, inf)
    BY <1>5
  <2> HIDE DEF H, c, B, Below
  <2>7. Linked(Relinked(g[i - 1], c, i - 1, n, inf), N, B \cup H)
    BY <2>1, <2>2, <2>3, <2>5, RelinkedKeeps
  <2>8. Linked(g[i], N, Below(i))
    BY <2>4, <2>6, <2>7
  <2>9. QED  BY <2>1, <2>8
<1>8. Below(n) = T
  BY <1>2
<1> HIDE DEF Done, N
<1>9. \A i \in 0 .. n : i \in Done
  BY <1>6, <1>7, UpTo
<1>10. Linked(g[n], N, Below(n))
  BY <1>9 DEF Done
<1>11. QED  BY <1>5, <1>8, <1>10 DEF N

-----------------------------------------------------------------------------
(* Reference counters *)

LEMMA Entering ==
    ASSUME NEW b \in Buckets
    PROVE  LET x == HashOf[b] - LowBits(HashOf[b], RefMask + 1)
           IN  x \in Nat /\ KeepsHash(x, b)
<1> DEFINE d == RefMask + 1
           h == HashOf[b]
           q == h \div d
           r == h % d
           x == h - r
<1>1. d \in Nat \ {0} /\ h \in Nat
  BY HashAssumption
<1>2. r \in 0 .. d - 1 /\ q \in Nat /\ h = d * q + r
  BY <1>1, DivMod
<1>3. d * q \in Nat
  BY <1>1, <1>2
<1> HIDE DEF r, q, h, d
<1>4. x = d * q + 0 /\ x \in Nat /\ 0 \in 0 .. d - 1
  BY <1>1, <1>2, <1>3
<1> HIDE DEF x
<1>5. x % d = 0
  BY <1>1, <1>2, <1>4, Quotient
<1>6. x - 0 = x
  BY <1>4
<1>7. QED  BY <1>4, <1>5, <1>6 DEF KeepsHash, LowBits, x, r, h, d

(* Counting up below the maximum, or down above zero, stays in the low bits. *)
LEMMA Counting ==
    ASSUME NEW d \in Nat \ {0}, NEW x \in Nat, NEW s \in {-1, 1},
           LowBits(x, d) + s \in 0 .. d - 1
    PROVE  x + s \in Nat /\ (x + s) - LowBits(x + s, d) = x - LowBits(x, d)
<1> DEFINE q == x \div d
           r == x % d
<1>1. r \in 0 .. d - 1 /\ q \in Nat /\ x = d * q + r /\ r + s \in 0 .. d - 1
  BY DivMod DEF LowBits
<1>2. d * q \in Nat
  BY <1>1
<1>3. LowBits(x, d) = r
  BY DEF LowBits
<1> HIDE DEF q, r
<1> DEFINE y == x + s
           t == r + s
<1>4. y = d * q + t /\ t \in 0 .. d - 1
  BY <1>1, <1>2
<1> HIDE DEF y, t
<1>5. y % d = t
  BY <1>1, <1>4, Quotient
<1>6. LowBits(y, d) = t
  BY <1>5 DEF LowBits
<1>7. y \in Nat /\ y - t = x - r
  BY <1>1, <1>2, <1>4 DEF y, t
<1>8. QED  BY <1>3, <1>6, <1>7 DEF y

-----------------------------------------------------------------------------
(* The hash bits of info, whatever the sizes *)

InfoInv ==
    /\ mask \in Nat
    /\ nbBuckets \in Int
    /\ stored \subseteq Buckets
    /\ info \in [Buckets -> Nat]
    /\ \A b \in stored : KeepsHash(info[b], b)

LEMMA InitInfo == Init => InfoInv
<1> SUFFICES ASSUME Init PROVE InfoInv
  OBVIOUS
<1> DEFINE n == 2 ^ SizePower2
<1>1. n \in Nat \ {0} /\ mask = n - 1
  BY HashAssumption DEF Init
<1> HIDE DEF n
<1>2. mask \in Nat
  BY <1>1
<1>3. QED  BY <1>2 DEF Init, InfoInv

LEMMA EnterInfo ==
    ASSUME InfoInv, NEW b \in Buckets, Insert(b) \/ InsertThrows(b)
    PROVE  InfoInv'
<1> DEFINE x == HashOf[b] - LowBits(HashOf[b], RefMask + 1)
<1>1. x \in Nat /\ KeepsHash(x, b)
  BY Entering
<1>2. /\ info' = [info EXCEPT ![b] = x]
      /\ stored' = stored \cup {b}
      /\ nbBuckets' = nbBuckets + 1
      /\ mask' \in {mask, 2 * (mask + 1) - 1}
  BY DEF Insert, InsertThrows, Enter, EnteredInfo
<1> HIDE DEF x
<1>3. mask' \in Nat /\ nbBuckets' \in Int
  BY <1>2 DEF InfoInv
<1>4. QED  BY <1>1, <1>2, <1>3 DEF InfoInv

LEMMA CountInfo ==
    ASSUME InfoInv, NEW b \in stored, IncRef(b) \/ DecRef(b)
    PROVE  InfoInv'
<1> DEFINE d == RefMask + 1
           x == info[b]
<1>1. d \in Nat \ {0} /\ x \in Nat /\ KeepsHash(x, b) /\ b \in Buckets
  BY HashAssumption DEF InfoInv
<1>2. References(b) = LowBits(x, d) /\ LowBits(x, d) \in 0 .. d - 1
  BY <1>1, DivMod DEF References, LowBits
<1>3. PICK s \in {-1, 1} : /\ info' = [info EXCEPT ![b] = x + s]
                           /\ LowBits(x, d) + s \in 0 .. d - 1
  <2>1. RefMask = d - 1
    BY HashAssumption
  <2>2. CASE IncRef(b)
    <3>1. info' = [info EXCEPT ![b] = x + 1] /\ LowBits(x, d) # d - 1
      BY <1>2, <2>1, <2>2 DEF IncRef
    <3> HIDE DEF x, d
    <3>2. LowBits(x, d) + 1 \in 0 .. d - 1
      BY <1>1, <1>2, <3>1
    <3>3. QED  BY <3>1, <3>2
  <2>3. CASE DecRef(b)
    <3>1. info' = [info EXCEPT ![b] = x - 1] /\ LowBits(x, d) # 0
      BY <1>2, <2>3 DEF DecRef
    <3> HIDE DEF x, d
    <3>2. LowBits(x, d) + (-1) \in 0 .. d - 1 /\ x - 1 = x + (-1)
      BY <1>1, <1>2, <3>1
    <3>3. QED  BY <3>1, <3>2
  <2>4. QED  BY <2>2, <2>3
<1> HIDE DEF x
<1>4. x + s \in Nat /\ (x + s) - LowBits(x + s, d) = x - LowBits(x, d)
  <2> HIDE DEF d
  <2>1. QED  BY <1>1, <1>3, Counting
<1>5. KeepsHash(x + s, b)
  BY <1>1, <1>4 DEF KeepsHash
<1>6. UNCHANGED <<stored, mask, nbBuckets>>
  BY DEF IncRef, DecRef
<1>7. QED  BY <1>1, <1>3, <1>4, <1>5, <1>6 DEF InfoInv

LEMMA NextInfo == InfoInv /\ [Next]_vars => InfoInv'
<1> SUFFICES ASSUME InfoInv, [Next]_vars PROVE InfoInv'
  OBVIOUS
<1>1. ASSUME NEW b \in Buckets, Insert(b) \/ InsertThrows(b) PROVE InfoInv'
  BY <1>1, EnterInfo
<1>2. ASSUME NEW b \in Buckets, RemoveBucket(b) PROVE InfoInv'
  BY <1>2 DEF RemoveBucket, InfoInv
<1>3. ASSUME NEW b \in Buckets, IncRef(b) \/ DecRef(b) PROVE InfoInv'
  <2>1. b \in stored
    BY <1>3 DEF IncRef, DecRef
  <2>2. QED  BY <1>3, <2>1, CountInfo
<1>4. CASE Reset \/ ResetDelete
  BY <1>4 DEF Reset, ResetDelete, InfoInv
<1>5. CASE DisableRehash \/ EnableRehash \/ UNCHANGED vars
  BY <1>5 DEF DisableRehash, EnableRehash, vars, InfoInv
<1>6. QED  BY <1>1, <1>2, <1>3, <1>4, <1>5 DEF Next

(* Counting references never reaches the hash bits of info that a later    *)
(* rehash looks at.                                                        *)
THEOREM HashBitsKeptHolds == Spec => []HashBitsKept
<1>1. Init => InfoInv
  BY InitInfo
<1>2. InfoInv => HashBitsKept
  BY DEF InfoInv, HashBitsKept, KeepsHash, References
<1>3. QED  BY <1>1, <1>2, NextInfo, PTL DEF Spec

-----------------------------------------------------------------------------
(* Removing a bucket *)

(* Only the location that points at the bucket is written.                 *)
SameNextBut(m, v, b) == \A y \in Buckets : m.next[y] # b => v.next[y] = m.next[y]

LEMMA SameNext ==
    ASSUME NEW n, NEW m, NEW v, NEW b, NEW p, Target(m, p) = b, NEW x,
           \A loc \in Locs(n, Buckets) : Target(v, loc) = IF loc = p THEN x ELSE Target(m, loc)
    PROVE  SameNextBut(m, v, b)
<1> SUFFICES ASSUME NEW y \in Buckets, m.next[y] # b PROVE v.next[y] = m.next[y]
  BY DEF SameNextBut
<1>1. AtNext(y) \in Locs(n, Buckets)
  BY DEF Locs
<1>2. Target(m, AtNext(y)) = m.next[y] /\ Target(v, AtNext(y)) = v.next[y]
  BY Targets
<1>3. QED  BY <1>1, <1>2

LEMMA UnlinkDouble ==
    ASSUME Doubly, NEW n \in Nat \ {0}, NEW m, NEW T, Linked(m, n, T), NEW b \in T
    PROVE  /\ Linked(Unlink(m, b), n, T \ {b})
           /\ SameNextBut(m, Unlink(m, b), b)
<1> DEFINE i == LowBits(HashOf[b], n)
           H == Home(T, n, i)
           p == m.previous[b]
           x == m.next[b]
           w == Assign(m, p, x)
           v == Unlink(m, b)
<1>1. m \in Mem(n) /\ T \subseteq Buckets /\ b \in Buckets /\ b \in H /\ H \subseteq Buckets
  BY DEF Linked, Home
<1>2. i \in 0 .. n - 1 /\ NULL \notin Buckets
  BY <1>1, HashAssumption, DivMod DEF LowBits
<1>3. HasChain(m, i, H)
  BY <1>2 DEF Linked
<1> HIDE DEF i, H
<1>4. PICK l, c : IsChain(m, i, l, c, H)
  BY <1>3 DEF HasChain
<1>5. /\ l \in Nat /\ c \in [1 .. l -> H]
      /\ \A k \in 1 .. l : Target(m, Before(i, c, k)) = c[k]
      /\ \A k \in 1 .. l : m.previous[c[k]] = Before(i, c, k)
  BY <1>4 DEF IsChain
<1>6. PICK q \in 1 .. l : c[q] = b
  BY <1>1, <1>4 DEF IsChain
<1>7. p = Before(i, c, q) /\ Target(m, p) = b
  BY <1>5, <1>6
<1>8. p \in {Slot(i)} \cup {AtNext(y) : y \in H}
  <2>1. CASE q = 1
    BY <1>7, <2>1 DEF Before
  <2>2. CASE q # 1
    <3>1. q - 1 \in 1 .. l
      BY <1>5, <2>2
    <3>2. c[q - 1] \in H
      BY <1>5, <3>1
    <3>3. QED  BY <1>7, <2>2, <3>2 DEF Before
  <2>3. QED  BY <2>1, <2>2
<1>9. p \in Locs(n, Buckets) /\ x \in Buckets \cup {NULL}
  <2>1. p \in Locs(n, Buckets)
    BY <1>1, <1>2, <1>8 DEF Locs
  <2>2. x \in Buckets \cup {NULL}
    BY <1>1 DEF Mem
  <2>3. QED  BY <2>1, <2>2
<1>10. /\ w \in Mem(n) /\ w.previous = m.previous
       /\ \A loc \in Locs(n, Buckets) : Target(w, loc) = IF loc = p THEN x ELSE Target(m, loc)
  <2> HIDE DEF p, x
  <2>1. QED  BY <1>1, <1>9, AssignEffect
<1>11. v = IF x = NULL THEN w ELSE [w EXCEPT !.previous[x] = p]
  BY DEF Unlink
<1> HIDE DEF w
<1> DEFINE prev == IF x = NULL THEN w.previous ELSE [w.previous EXCEPT ![x] = p]
<1>12. v = [w EXCEPT !.previous = prev]
  <2>1. w = [w EXCEPT !.previous = w.previous]
    BY <1>10 DEF Mem
  <2>2. CASE x = NULL
    BY <1>11, <2>1, <2>2
  <2>3. CASE x # NULL
    BY <1>11, <2>3
  <2>4. QED  BY <2>2, <2>3
<1>13. /\ prev \in [Buckets -> Locs(n, Buckets) \cup {NULL}]
       /\ \A y \in Buckets : prev[y] = IF y = x THEN p ELSE m.previous[y]
  BY <1>2, <1>9, <1>10 DEF Mem
<1> HIDE DEF v, prev
<1>14. v \in Mem(n) /\ v.slot = w.slot /\ v.next = w.next /\ v.previous = prev
  BY <1>10, <1>12, <1>13 DEF Mem
<1>15. \A loc \in Locs(n, Buckets) : Target(v, loc) = Target(w, loc)
  BY <1>14, Targets DEF Locs
<1> HIDE DEF p
<1>16. p \in {Slot(i)} \cup {AtNext(y) : y \in Home(T, n, i)} /\ i = LowBits(HashOf[b], n)
  BY <1>8 DEF H, i
<1>17. \A loc \in Locs(n, Buckets) :
         Target(v, loc) = IF loc = p THEN m.next[b] ELSE Target(m, loc)
  BY <1>10, <1>15
<1>18. \A y \in Buckets :
         v.previous[y] = IF y = m.next[b] THEN m.previous[b] ELSE m.previous[y]
  BY <1>13, <1>14 DEF p
<1> HIDE DEF x
<1>19. Linked(v, n, T \ {b})
  BY <1>7, <1>14, <1>16, <1>17, <1>18, UnlinkKeeps
<1>20. SameNextBut(m, v, b)
  <2> DEFINE y == m.next[b]
  <2>1. \A loc \in Locs(n, Buckets) : Target(v, loc) = IF loc = p THEN y ELSE Target(m, loc)
    BY <1>17
  <2> HIDE DEF y
  <2>2. QED  BY <1>7, <2>1, SameNext, Zenon
<1>21. QED  BY <1>19, <1>20 DEF v

(* The list of a single linked bucket is walked to find what points at it. *)
LEMMA UnlinkSingle ==
    ASSUME ~Doubly, NEW n \in Nat \ {0}, NEW m, NEW T, Linked(m, n, T), NEW b \in T,
           mask + 1 = n
    PROVE  LET v == Assign(m, Pointing(m, b, HashOf[b]), m.next[b])
           IN  Linked(v, n, T \ {b}) /\ SameNextBut(m, v, b)
<1> DEFINE i == LowBits(HashOf[b], n)
           H == Home(T, n, i)
           p == Pointing(m, b, HashOf[b])
           x == m.next[b]
           v == Assign(m, p, x)
<1>1. m \in Mem(n) /\ T \subseteq Buckets /\ b \in Buckets /\ b \in H /\ H \subseteq Buckets
  BY DEF Linked, Home
<1>2. i \in 0 .. n - 1
  BY <1>1, HashAssumption, DivMod DEF LowBits
<1>3. HasChain(m, i, H)
  BY <1>2 DEF Linked
<1> DEFINE L == {Slot(i)} \cup {AtNext(y) : y \in H}
<1> HIDE DEF H, i
<1>4. OnChain(m, i) = H
  BY <1>1, <1>3, ChainIsChain
<1>5. p = CHOOSE loc \in L : Target(m, loc) = b
  BY <1>4 DEF Pointing, i
<1>6. \E loc \in L : Target(m, loc) = b
  <2>1. PICK l, c : IsChain(m, i, l, c, H)
    BY <1>3 DEF HasChain
  <2>2. PICK q \in 1 .. l : c[q] = b
    BY <1>1, <2>1 DEF IsChain
  <2>3. Target(m, Before(i, c, q)) = b
    BY <2>1, <2>2 DEF IsChain
  <2>4. CASE q = 1
    BY <2>3, <2>4 DEF Before
  <2>5. CASE q # 1
    <3>1. q - 1 \in 1 .. l
      BY <2>1, <2>5 DEF IsChain
    <3>2. c[q - 1] \in H
      BY <2>1, <3>1 DEF IsChain
    <3>3. QED  BY <2>3, <2>5, <3>2 DEF Before
  <2>6. QED  BY <2>4, <2>5
<1> HIDE DEF p
<1>7. p \in L /\ Target(m, p) = b
  <2> HIDE DEF L
  <2>1. QED  BY <1>5, <1>6
<1>8. p \in Locs(n, Buckets) /\ x \in Buckets \cup {NULL}
  <2>1. p \in Locs(n, Buckets)
    BY <1>1, <1>2, <1>7 DEF Locs
  <2>2. x \in Buckets \cup {NULL}
    BY <1>1 DEF Mem
  <2>3. QED  BY <2>1, <2>2
<1> HIDE DEF x
<1>9. /\ v \in Mem(n)
      /\ \A loc \in Locs(n, Buckets) : Target(v, loc) = IF loc = p THEN x ELSE Target(m, loc)
  BY <1>1, <1>8, AssignEffect
<1> HIDE DEF v
<1>10. p \in {Slot(i)} \cup {AtNext(y) : y \in Home(T, n, i)} /\ i = LowBits(HashOf[b], n)
  BY <1>7 DEF H, i
<1>11. Linked(v, n, T \ {b})
  BY <1>7, <1>9, <1>10, UnlinkKeeps DEF x
<1>12. SameNextBut(m, v, b)
  BY <1>7, <1>9, SameNext
<1>13. QED  BY <1>11, <1>12 DEF v, p, x

-----------------------------------------------------------------------------
(* The table.  incRef(mask) and rehash share the word info, so the first   *)
(* table must have as many slots as there are reference counts, at least.  *)

CountersFit == (2 ^ SizePower2) % (RefMask + 1) = 0

TableInv ==
    LET n == TableSize(mem)
    IN  /\ n \in Nat \ {0}
        /\ n % (RefMask + 1) = 0
        /\ Linked(mem, n, stored)

CountInv == nbBuckets = Cardinality(stored)

(* n is the size of the table, whatever slots it has. *)
HasSize(n) == n \in Nat \ {0} /\ n % (RefMask + 1) = 0

LEMMA TableOfSize ==
    ASSUME NEW n, HasSize(n), NEW v, NEW T, Linked(v, n, T)
    PROVE  TableSize(v) = n
BY SizeOfMem DEF Linked, HasSize

LEMMA DoubleFits ==
    ASSUME NEW n, HasSize(n)
    PROVE  HasSize(2 * n)
<1> DEFINE d == RefMask + 1
           q == n \div d
<1>1. d \in Nat \ {0}
  BY HashAssumption
<1>2. n = d * q + (n % d) /\ q \in Nat /\ n % d = 0
  BY <1>1, DivMod DEF HasSize
<1> HIDE DEF d, q
<1>3. n = d * q
  <2>1. d * q \in Nat
    BY <1>1, <1>2
  <2>2. QED  BY <1>2, <2>1
<1>4. 2 * n = d * (2 * q) + 0 /\ 2 * q \in Nat /\ 0 \in 0 .. d - 1
  BY <1>1, <1>2, <1>3
<1> DEFINE N == 2 * n
           Q == 2 * q
<1>5. N = d * Q + 0 /\ Q \in Nat /\ 0 \in 0 .. d - 1
  BY <1>4
<1> HIDE DEF N, Q
<1>6. N % d = 0
  BY <1>1, <1>5, Quotient
<1>7. N \in Nat \ {0}
  BY DEF N, HasSize
<1>8. QED  BY <1>6, <1>7 DEF HasSize, N, d

(* Both invariants together, for a table of a given size. *)
LEMMA InvOfSize ==
    ASSUME NEW n, HasSize(n), Linked(mem', n, stored')
    PROVE  TableInv'
<1>1. TableSize(mem') = n
  BY TableOfSize
<1>2. QED  BY <1>1 DEF TableInv, HasSize

Inv == InfoInv /\ TableInv /\ CountInv

LEMMA InitInv == CountersFit /\ Init => Inv
<1> SUFFICES ASSUME CountersFit, Init PROVE Inv
  OBVIOUS
<1> DEFINE n == 2 ^ SizePower2
           m == [slot |-> NoSlots(n),
                 next |-> [b \in Buckets |-> NULL],
                 previous |-> [b \in Buckets |-> NULL]]
<1>1. n \in Nat \ {0} /\ HasSize(n)
  BY HashAssumption DEF CountersFit, HasSize
<1>2. mem = m
  <2> HIDE DEF n
  <2>1. (n - 1) + 1 = n
    BY <1>1
  <2>2. mask + 1 = n
    BY <2>1 DEF Init, n
  <2>3. QED  BY <2>2 DEF Init
<1> HIDE DEF n
<1>3. m \in Mem(n)
  BY <1>1 DEF Mem, NoSlots
<1>4. [m EXCEPT !.slot = NoSlots(n)] = m
  OBVIOUS
<1> HIDE DEF m
<1>5. Linked(m, n, {})
  BY <1>1, <1>3, <1>4, ClearedIsLinked
<1>6. stored = {} /\ nbBuckets = 0 /\ info = [b \in Buckets |-> 0]
  BY DEF Init
<1>7. TableInv
  BY <1>1, <1>2, <1>5, <1>6, TableOfSize DEF TableInv, HasSize
<1>8. CountInv
  BY <1>6, FS_EmptySet DEF CountInv
<1>9. InfoInv
  BY InitInfo
<1>10. QED  BY <1>7, <1>8, <1>9 DEF Inv

LEMMA EnteredIsLinked ==
    ASSUME Inv, mask + 1 = TableSize(mem), NEW b \in Buckets \ stored
    PROVE  Linked(Entered(b), TableSize(mem), stored \cup {b})
BY LinkKeeps DEF Inv, TableInv, Entered

LEMMA EnterCounts ==
    ASSUME Inv, NEW b \in Buckets \ stored, Enter(b)
    PROVE  CountInv'
<1>1. IsFiniteSet(stored)
  BY HashAssumption, FS_Subset DEF Inv, InfoInv
<1>2. Cardinality(stored \cup {b}) = Cardinality(stored) + 1
  BY <1>1, FS_AddElement
<1>3. QED  BY <1>2 DEF Enter, Inv, CountInv

(* An insertion without a rehash leaves the older buckets alone. *)
LEMMA EnteredKeepsNext ==
    ASSUME Inv, mask + 1 = TableSize(mem), NEW b \in Buckets \ stored
    PROVE  \A y \in Buckets \ {b} : Entered(b).next[y] = mem.next[y]
<1> DEFINE n == TableSize(mem)
           i == LowBits(HashOf[b], mask + 1)
           v == Link(mem, b, Slot(i))
<1>1. n \in Nat \ {0} /\ mem \in Mem(n) /\ mask + 1 = n
  BY DEF Inv, TableInv, Linked
<1>2. i \in 0 .. n - 1
  BY <1>1, HashAssumption, DivMod DEF LowBits
<1> HIDE DEF n, i
<1>3. \A l \in Locs(n, Buckets) :
        Target(v, l) = IF l = Slot(i) THEN b
                       ELSE IF l = AtNext(b) THEN mem.slot[i] ELSE Target(mem, l)
  BY <1>1, <1>2, LinkEffect
<1> HIDE DEF v
<1>4. ASSUME NEW y \in Buckets \ {b} PROVE v.next[y] = mem.next[y]
  <2>1. AtNext(y) \in Locs(n, Buckets)
    BY DEF Locs
  <2>2. Target(mem, AtNext(y)) = mem.next[y] /\ Target(v, AtNext(y)) = v.next[y]
    BY Targets
  <2>3. QED  BY <1>3, <1>4, <2>1, <2>2, LocationsDiffer
<1>5. QED  BY <1>4 DEF Entered, v, i

LEMMA InsertStep ==
    ASSUME Inv, mask + 1 = TableSize(mem), NEW b \in Buckets, Insert(b) \/ InsertThrows(b)
    PROVE  Inv'
<1> DEFINE n == TableSize(mem)
<1>1. b \in Buckets \ stored /\ Enter(b) /\ stored' = stored \cup {b}
  BY DEF Insert, InsertThrows, Enter
<1>2. InfoInv' /\ CountInv'
  BY <1>1, EnterCounts, EnterInfo DEF Inv
<1>3. Linked(Entered(b), n, stored \cup {b})
  BY <1>1, EnteredIsLinked
<1>4. HasSize(n)
  BY DEF Inv, TableInv, HasSize
<1> HIDE DEF n
<1>5. CASE mem' = Entered(b)
  BY <1>1, <1>2, <1>3, <1>4, <1>5, InvOfSize DEF Inv
<1>6. CASE mem' = Rehashed(Entered(b), info')
  <2>1. info' \in [Buckets -> Nat] /\ \A x \in stored \cup {b} : KeepsHash(info'[x], x)
    BY <1>1, <1>2 DEF InfoInv
  <2>2. Linked(Rehashed(Entered(b), info'), 2 * n, stored \cup {b})
    BY <1>3, <1>4, <2>1, RehashKeeps DEF HasSize
  <2>3. HasSize(2 * n)
    BY <1>4, DoubleFits
  <2> DEFINE N == 2 * n
  <2>4. HasSize(N) /\ Linked(mem', N, stored')
    BY <1>1, <1>6, <2>2, <2>3
  <2> HIDE DEF N
  <2>5. TableInv'
    BY <2>4, InvOfSize
  <2>6. QED  BY <1>2, <2>5 DEF Inv
<1>7. QED  BY <1>5, <1>6 DEF Insert, InsertThrows

LEMMA RemoveStep ==
    ASSUME Inv, mask + 1 = TableSize(mem), NEW b \in Buckets, RemoveBucket(b)
    PROVE  Inv' /\ TableSize(mem') = TableSize(mem) /\ SameNextBut(mem, mem', b)
<1> DEFINE n == TableSize(mem)
<1>1. b \in stored /\ stored' = stored \ {b} /\ nbBuckets' = nbBuckets - 1 /\ info' = info
  BY DEF RemoveBucket
<1>2. HasSize(n) /\ Linked(mem, n, stored) /\ n \in Nat \ {0} /\ mask + 1 = n
  BY DEF Inv, TableInv, HasSize
<1> HIDE DEF n
<1>3. Linked(mem', n, stored') /\ SameNextBut(mem, mem', b)
  <2>1. CASE Doubly
    <3>1. mem' = Unlink(mem, b)
      BY <2>1 DEF RemoveBucket, RemoveDouble
    <3>2. QED  BY <1>1, <1>2, <2>1, <3>1, UnlinkDouble
  <2>2. CASE ~Doubly
    <3>1. mem' = Assign(mem, Pointing(mem, b, HashOf[b]), mem.next[b])
      <4>1. RefMask = 0 => info[b] = HashOf[b]
        <5>1. \A x \in Nat : LowBits(x, 0 + 1) = 0
          BY DEF LowBits
        <5>2. b \in Buckets /\ info[b] \in Nat /\ HashOf[b] \in Nat /\ KeepsHash(info[b], b)
          BY <1>1, HashAssumption DEF Inv, InfoInv
        <5>3. QED  BY <5>1, <5>2 DEF KeepsHash
      <4>2. QED  BY <2>2, <4>1 DEF RemoveBucket, RemoveSingle
    <3>2. QED  BY <1>1, <1>2, <2>2, <3>1, UnlinkSingle
  <2>3. QED  BY <2>1, <2>2
<1>4. TableInv'
  BY <1>2, <1>3, InvOfSize
<1>5. CountInv'
  <2>1. IsFiniteSet(stored)
    BY HashAssumption, FS_Subset DEF Inv, InfoInv
  <2>2. Cardinality(stored \ {b}) = Cardinality(stored) - 1
    BY <1>1, <2>1, FS_RemoveElement
  <2>3. QED  BY <1>1, <2>2 DEF Inv, CountInv
<1>6. InfoInv'
  BY <1>1 DEF RemoveBucket, Inv, InfoInv
<1>7. TableSize(mem') = n
  BY <1>2, <1>3, TableOfSize
<1>8. QED  BY <1>3, <1>4, <1>5, <1>6, <1>7 DEF Inv, n

LEMMA OnChainsHolds ==
    ASSUME Inv
    PROVE  /\ BucketsOnTheirChains
           /\ stored = UNION {OnChain(mem, i) : i \in 0 .. TableSize(mem) - 1}
<1> DEFINE n == TableSize(mem)
<1>1. n \in Nat \ {0} /\ Linked(mem, n, stored)
  BY DEF Inv, TableInv
<1> HIDE DEF n
<1>2. ASSUME NEW i \in 0 .. n - 1
      PROVE  /\ OnChain(mem, i) = Home(stored, n, i)
             /\ Len(Chain(mem, i)) = Cardinality(Home(stored, n, i))
  <2>1. HasChain(mem, i, Home(stored, n, i)) /\ Home(stored, n, i) \subseteq Buckets
    BY <1>1 DEF Linked, Home
  <2>2. QED  BY <2>1, ChainIsChain
<1>3. \A b \in stored : LowBits(HashOf[b], n) \in 0 .. n - 1
  BY <1>1, HashAssumption, DivMod DEF Linked, LowBits
<1>4. stored = UNION {Home(stored, n, i) : i \in 0 .. n - 1}
  BY <1>3 DEF Home
<1>5. {Home(stored, n, i) : i \in 0 .. n - 1} = {OnChain(mem, i) : i \in 0 .. n - 1}
  BY <1>2
<1>6. BucketsOnTheirChains
  BY <1>2 DEF BucketsOnTheirChains, Home, n
<1>7. QED  BY <1>4, <1>5, <1>6 DEF n

LEMMA ResetStep ==
    ASSUME Inv, mask + 1 = TableSize(mem), Reset \/ ResetDelete
    PROVE  Inv'
<1> DEFINE n == TableSize(mem)
<1>1. HasSize(n) /\ mem \in Mem(n) /\ n \in Nat
  BY DEF Inv, TableInv, HasSize, Linked
<1>2. stored' = {}
  <2>1. CASE Reset
    BY <2>1 DEF Reset
  <2>2. CASE ResetDelete
    <3>1. mask = n - 1
      <4>1. mask \in Int
        BY DEF Inv, InfoInv
      <4>2. QED  BY <1>1, <4>1
    <3>2. stored' = stored \ UNION {OnChain(mem, i) : i \in 0 .. n - 1}
      BY <2>2, <3>1 DEF ResetDelete
    <3>3. QED  BY <3>2, OnChainsHolds
  <2>3. QED  BY <2>1, <2>2
<1>3. mem' = [mem EXCEPT !.slot = NoSlots(n)] /\ nbBuckets' = 0 /\ info' = info
  BY DEF Reset, ResetDelete, Emptied
<1> HIDE DEF n
<1>4. Linked(mem', n, stored')
  BY <1>1, <1>2, <1>3, ClearedIsLinked
<1>5. TableInv'
  BY <1>1, <1>4, InvOfSize
<1>6. CountInv'
  BY <1>2, <1>3, FS_EmptySet DEF CountInv
<1>7. InfoInv'
  BY <1>2, <1>3 DEF Reset, ResetDelete, Inv, InfoInv
<1>8. QED  BY <1>5, <1>6, <1>7 DEF Inv

LEMMA NextInv == Inv /\ [Next]_vars => Inv'
<1> SUFFICES ASSUME Inv, [Next]_vars PROVE Inv'
  OBVIOUS
<1>1. ASSUME Next PROVE mask + 1 = TableSize(mem)
  BY <1>1 DEF Next
<1>2. ASSUME Next, NEW b \in Buckets, Insert(b) \/ InsertThrows(b) PROVE Inv'
  BY <1>1, <1>2, InsertStep
<1>3. ASSUME Next, NEW b \in Buckets, RemoveBucket(b) PROVE Inv'
  BY <1>1, <1>3, RemoveStep
<1>4. ASSUME NEW b \in Buckets, IncRef(b) \/ DecRef(b) PROVE Inv'
  <2>1. b \in stored /\ UNCHANGED <<mem, stored, nbBuckets>>
    BY <1>4 DEF IncRef, DecRef
  <2>2. InfoInv'
    BY <1>4, <2>1, CountInfo DEF Inv
  <2>3. QED  BY <2>1, <2>2 DEF Inv, TableInv, CountInv
<1>5. ASSUME Next, Reset \/ ResetDelete PROVE Inv'
  BY <1>1, <1>5, ResetStep
<1>6. CASE DisableRehash \/ EnableRehash \/ UNCHANGED vars
  BY <1>6 DEF DisableRehash, EnableRehash, vars, Inv, InfoInv, TableInv, CountInv
<1>7. QED  BY <1>2, <1>3, <1>4, <1>5, <1>6 DEF Next

(* The inductive invariant: each slot starts a chain of exactly the stored *)
(* buckets whose hash selects it, and info keeps the hash that a rehash    *)
(* looks at.                                                               *)
THEOREM InvariantHolds == CountersFit => (Spec => []Inv)
BY InitInv, NextInv, PTL DEF Spec

(* Whatever is inserted, removed and rehashed, every stored bucket is met  *)
(* once, on the chain of its hash value, and nothing else is met there.    *)
THEOREM BucketsOnTheirChainsHolds == CountersFit => (Spec => []BucketsOnTheirChains)
BY InvariantHolds, OnChainsHolds, PTL

(* The back pointers of double linked buckets point back. *)
THEOREM PreviousPointsBackHolds == CountersFit => (Spec => []PreviousPointsBack)
<1>1. ASSUME Inv, Doubly, NEW b \in stored
      PROVE  mem.previous[b] \in Locations /\ Target(mem, mem.previous[b]) = b
  <2> DEFINE n == TableSize(mem)
             i == LowBits(HashOf[b], n)
             H == Home(stored, n, i)
  <2>1. n \in Nat \ {0} /\ Linked(mem, n, stored)
    BY <1>1 DEF Inv, TableInv
  <2>2. b \in H /\ i \in 0 .. n - 1 /\ H \subseteq Buckets
    BY <2>1, HashAssumption, DivMod DEF Linked, Home, LowBits
  <2>3. PICK l, c : IsChain(mem, i, l, c, H)
    BY <2>1, <2>2 DEF Linked, HasChain
  <2>4. DOMAIN mem.slot = 0 .. n - 1
    BY <2>1 DEF Linked, Mem
  <2> HIDE DEF n, i, H
  <2>5. PICK k \in 1 .. l : c[k] = b
    BY <2>2, <2>3 DEF IsChain
  <2>6. /\ l \in Nat /\ c \in [1 .. l -> H] /\ k \in 1 .. l + 1
        /\ mem.previous[b] = Before(i, c, k)
        /\ Target(mem, Before(i, c, k)) = b
    BY <1>1, <2>3, <2>5 DEF IsChain
  <2>7. Before(i, c, k) \in Locs(n, H)
    BY <2>1, <2>2, <2>6, BeforeIsLocation
  <2>8. Locs(n, H) \subseteq Locations
    BY <2>2, <2>4 DEF Locs, Locations
  <2>9. QED  BY <2>6, <2>7, <2>8
<1>2. Inv => PreviousPointsBack
  BY <1>1 DEF PreviousPointsBack
<1>3. QED  BY <1>2, InvariantHolds, PTL

(* getNbBuckets() is the number of buckets that are linked. *)
THEOREM CountIsExactHolds == CountersFit => (Spec => []CountIsExact)
<1>1. Inv => CountIsExact
  BY DEF Inv, CountInv, CountIsExact
<1>2. QED  BY <1>1, InvariantHolds, PTL

(* While rehashing is enabled, one doubling per insertion is enough: unless *)
(* an aggressive table starts with a single slot.                          *)
THEOREM LoadIsBoundedHolds ==
    (ShiftThreshold = 0 \/ 2 ^ SizePower2 > 1) => (Spec => LoadIsBounded)
<1> DEFINE Enough == ShiftThreshold = 0 \/ mask > 0
           LoadInv == InfoInv /\ Enough
<1>1. (ShiftThreshold = 0 \/ 2 ^ SizePower2 > 1) /\ Init => LoadInv
  <2> DEFINE n == 2 ^ SizePower2
  <2>1. n \in Nat \ {0} /\ (Init => mask = n - 1)
    BY HashAssumption DEF Init
  <2> HIDE DEF n
  <2>2. n > 1 /\ Init => mask > 0
    BY <2>1
  <2>3. QED  BY <2>2, InitInfo DEF n
<1>2. LoadInv /\ [Next]_vars => LoadInv'
  <2> SUFFICES ASSUME LoadInv, [Next]_vars PROVE Enough'
    BY NextInfo
  <2>1. mask' \in {mask, 2 * (mask + 1) - 1}
    BY DEF Next, vars, Insert, InsertThrows, RemoveBucket, IncRef, DecRef, Reset, ResetDelete,
           DisableRehash, EnableRehash
  <2>2. mask' >= mask
    BY <2>1 DEF InfoInv
  <2>3. QED  BY <2>1, <2>2 DEF InfoInv
<1>3. LoadInv /\ [Next]_vars
        => [(mayRehash /\ ~NeedsRehash(nbBuckets)) => ~NeedsRehash(nbBuckets)']_vars
  <2> SUFFICES ASSUME LoadInv, Next, mayRehash, ~NeedsRehash(nbBuckets)
               PROVE  ~NeedsRehash(nbBuckets)'
    OBVIOUS
  <2> DEFINE Limit(k) == IF ShiftThreshold = 1 THEN k \div 2 ELSE k
  <2>1. mask \in Nat /\ nbBuckets \in Int /\ ShiftThreshold \in {0, 1}
        /\ Limit(mask) \in Nat /\ nbBuckets <= Limit(mask)
    BY HashAssumption DEF InfoInv, NeedsRehash
  <2>2. ASSUME NEW b \in Buckets, Insert(b) \/ InsertThrows(b)
        PROVE  ~NeedsRehash(nbBuckets)'
    <3>1. nbBuckets' = nbBuckets + 1
      BY <2>2 DEF Insert, InsertThrows, Enter
    <3>2. CASE mask' = 2 * (mask + 1) - 1
      <4>1. Limit(mask') >= Limit(mask) + 1
        BY <2>1, <3>2
      <4>2. QED  BY <2>1, <3>1, <3>2, <4>1 DEF NeedsRehash
    <3>3. CASE mask' = mask /\ ~NeedsRehash(nbBuckets')
      BY <3>3 DEF NeedsRehash
    <3>4. QED  BY <2>2, <3>2, <3>3 DEF Insert, InsertThrows
  <2>3. ASSUME mask' = mask, nbBuckets' \in Int, nbBuckets' <= nbBuckets
        PROVE  ~NeedsRehash(nbBuckets)'
    BY <2>1, <2>3 DEF NeedsRehash
  <2>4. ASSUME NEW b \in Buckets, RemoveBucket(b) \/ IncRef(b) \/ DecRef(b)
        PROVE  ~NeedsRehash(nbBuckets)'
    <3>1. mask' = mask /\ nbBuckets' \in {nbBuckets, nbBuckets - 1}
      BY <2>4 DEF RemoveBucket, IncRef, DecRef
    <3>2. QED  BY <2>1, <2>3, <3>1
  <2>5. CASE DisableRehash \/ EnableRehash
    <3>1. mask' = mask /\ nbBuckets' = nbBuckets
      BY <2>5 DEF DisableRehash, EnableRehash
    <3>2. QED  BY <2>1, <2>3, <3>1
  <2>6. CASE Reset \/ ResetDelete
    <3>1. mask' = mask /\ nbBuckets' = 0
      BY <2>6 DEF Reset, ResetDelete
    <3>2. ~(0 > Limit(mask))
      <4> HIDE DEF Limit
      <4>1. QED  BY <2>1
    <3>3. QED  BY <3>1, <3>2 DEF NeedsRehash
  <2>7. QED  BY <2>2, <2>4, <2>5, <2>6 DEF Next
<1> HIDE DEF LoadInv
<1>4. QED  BY <1>1, <1>2, <1>3, PTL DEF Spec, LoadIsBounded

-----------------------------------------------------------------------------
(* The enumerator.  What it still has to return on its own chain is a path *)
(* d of r buckets from current on, the set A; a path depends on the next   *)
(* fields of its buckets alone.                                            *)

IsPath(m, x, r, d, A) ==
    /\ r \in Nat
    /\ d \in [1 .. r -> A]
    /\ \A b \in A : \E k \in 1 .. r : d[k] = b
    /\ \A j, k \in 1 .. r : d[j] = d[k] => j = k
    /\ x = IF r = 0 THEN NULL ELSE d[1]
    /\ \A k \in 1 .. r : m.next[d[k]] = IF k = r THEN NULL ELSE d[k + 1]

HasPath(m, x, A) == \E r, d : IsPath(m, x, r, d, A)

LEMMA PathStays ==
    ASSUME NEW m, NEW v, NEW x, NEW A, HasPath(m, x, A), \A y \in A : v.next[y] = m.next[y]
    PROVE  HasPath(v, x, A)
<1>1. PICK r, d : IsPath(m, x, r, d, A)
  BY DEF HasPath
<1>2. \A k \in 1 .. r : d[k] \in A
  BY <1>1 DEF IsPath
<1>3. IsPath(v, x, r, d, A)
  BY <1>1, <1>2 DEF IsPath
<1>4. QED  BY <1>3 DEF HasPath

LEMMA PathClosed ==
    ASSUME NEW m, NEW x, NEW A, HasPath(m, x, A), NEW y \in A
    PROVE  m.next[y] \in A \cup {NULL}
<1>1. PICK r, d : IsPath(m, x, r, d, A)
  BY DEF HasPath
<1>2. PICK k \in 1 .. r : d[k] = y
  BY <1>1 DEF IsPath
<1>3. CASE k = r
  BY <1>1, <1>2, <1>3 DEF IsPath
<1>4. CASE k # r
  <2>1. k + 1 \in 1 .. r
    BY <1>1, <1>4 DEF IsPath
  <2>2. QED  BY <1>1, <1>2, <1>4, <2>1 DEF IsPath
<1>5. QED  BY <1>3, <1>4

LEMMA PathEnds ==
    ASSUME NEW m, NEW A, HasPath(m, NULL, A), NULL \notin A
    PROVE  A = {}
<1>1. PICK r, d : IsPath(m, NULL, r, d, A)
  BY DEF HasPath
<1>2. r = 0
  <2>1. SUFFICES ASSUME r # 0 PROVE FALSE
    OBVIOUS
  <2>2. 1 \in 1 .. r
    BY <1>1, <2>1 DEF IsPath
  <2>3. QED  BY <1>1, <2>1, <2>2 DEF IsPath
<1>3. QED  BY <1>1, <1>2 DEF IsPath

LEMMA PathStep ==
    ASSUME NEW m, NEW x, NEW A, HasPath(m, x, A), x # NULL
    PROVE  x \in A /\ HasPath(m, m.next[x], A \ {x})
<1>1. PICK r, d : IsPath(m, x, r, d, A)
  BY DEF HasPath
<1>2. /\ r \in Nat /\ r # 0
      /\ d \in [1 .. r -> A]
      /\ \A b \in A : \E k \in 1 .. r : d[k] = b
      /\ \A j, k \in 1 .. r : d[j] = d[k] => j = k
      /\ x = d[1]
      /\ \A k \in 1 .. r : m.next[d[k]] = IF k = r THEN NULL ELSE d[k + 1]
  BY <1>1 DEF IsPath
<1>3. 1 \in 1 .. r /\ x \in A
  BY <1>2
<1> DEFINE e == [k \in 1 .. r - 1 |-> d[k + 1]]
<1>4. \A k \in 1 .. r - 1 : k + 1 \in 1 .. r /\ k + 1 # 1
  BY <1>2
<1>5. \A k \in 1 .. r - 1 : e[k] = d[k + 1]
  OBVIOUS
<1>6. e \in [1 .. r - 1 -> A \ {x}]
  <2>1. \A k \in 1 .. r - 1 : d[k + 1] \in A \ {x}
    BY <1>2, <1>3, <1>4
  <2>2. QED  BY <2>1
<1> HIDE DEF e
<1>7. \A b \in A \ {x} : \E k \in 1 .. r - 1 : e[k] = b
  <2>1. SUFFICES ASSUME NEW b \in A \ {x} PROVE \E k \in 1 .. r - 1 : e[k] = b
    OBVIOUS
  <2>2. PICK k \in 1 .. r : d[k] = b
    BY <1>2
  <2>3. k - 1 \in 1 .. r - 1 /\ (k - 1) + 1 = k
    <3>1. k # 1
      BY <1>2, <2>2
    <3>2. QED  BY <1>2, <3>1
  <2>4. QED  BY <1>5, <2>2, <2>3
<1>8. \A j, k \in 1 .. r - 1 : e[j] = e[k] => j = k
  <2>1. SUFFICES ASSUME NEW j \in 1 .. r - 1, NEW k \in 1 .. r - 1, e[j] = e[k] PROVE j = k
    OBVIOUS
  <2>2. j + 1 = k + 1
    BY <1>2, <1>4, <1>5, <2>1
  <2>3. QED  BY <2>2
<1>9. m.next[x] = IF r - 1 = 0 THEN NULL ELSE e[1]
  <2>1. CASE r = 1
    BY <1>2, <1>3, <2>1
  <2>2. CASE r # 1
    <3>1. 1 \in 1 .. r - 1 /\ 1 + 1 = 2 /\ r - 1 # 0
      BY <1>2, <2>2
    <3>2. QED  BY <1>2, <1>3, <1>5, <2>2, <3>1
  <2>3. QED  BY <2>1, <2>2
<1>10. \A k \in 1 .. r - 1 : m.next[e[k]] = IF k = r - 1 THEN NULL ELSE e[k + 1]
  <2>1. SUFFICES ASSUME NEW k \in 1 .. r - 1
                 PROVE  m.next[e[k]] = IF k = r - 1 THEN NULL ELSE e[k + 1]
    OBVIOUS
  <2>2. m.next[e[k]] = IF k + 1 = r THEN NULL ELSE d[(k + 1) + 1]
    BY <1>2, <1>4, <1>5
  <2>3. CASE k = r - 1
    BY <1>2, <2>2, <2>3
  <2>4. CASE k # r - 1
    <3>1. k + 1 \in 1 .. r - 1 /\ k + 1 # r
      BY <1>2, <2>4
    <3>2. QED  BY <1>5, <2>2, <2>4, <3>1
  <2>5. QED  BY <2>3, <2>4
<1>11. r - 1 \in Nat
  BY <1>2
<1>12. IsPath(m, m.next[x], r - 1, e, A \ {x})
  BY <1>6, <1>7, <1>8, <1>9, <1>10, <1>11 DEF IsPath
<1>13. QED  BY <1>3, <1>12 DEF HasPath

LEMMA ChainIsPath ==
    ASSUME NEW m, NEW i, NEW H, HasChain(m, i, H)
    PROVE  HasPath(m, m.slot[i], H)
<1>1. PICK l, c : IsChain(m, i, l, c, H)
  BY DEF HasChain
<1>2. l \in Nat
  BY <1>1 DEF IsChain
<1>3. m.slot[i] = IF l = 0 THEN NULL ELSE c[1]
  <2>1. Target(m, Before(i, c, 1)) = m.slot[i]
    BY Targets DEF Before
  <2>2. CASE l = 0
    BY <1>1, <2>1, <2>2 DEF IsChain
  <2>3. CASE l # 0
    <3>1. 1 \in 1 .. l
      BY <1>2, <2>3
    <3>2. QED  BY <1>1, <2>1, <2>3, <3>1 DEF IsChain
  <2>4. QED  BY <2>2, <2>3
<1>4. ASSUME NEW k \in 1 .. l
      PROVE  m.next[c[k]] = IF k = l THEN NULL ELSE c[k + 1]
  <2>1. k + 1 # 1 /\ (k + 1) - 1 = k
    BY <1>2
  <2>2. Target(m, Before(i, c, k + 1)) = m.next[c[k]]
    BY <2>1, Targets DEF Before
  <2>3. CASE k = l
    BY <1>1, <2>2, <2>3 DEF IsChain
  <2>4. CASE k # l
    <3>1. k + 1 \in 1 .. l
      BY <1>2, <2>4
    <3>2. QED  BY <1>1, <2>2, <2>4, <3>1 DEF IsChain
  <2>5. QED  BY <2>3, <2>4
<1>5. IsPath(m, m.slot[i], l, c, H)
  BY <1>1, <1>3, <1>4 DEF IsChain, IsPath
<1>6. QED  BY <1>5 DEF HasPath

(* What the enumerator may still return, from current x on slot t of n:    *)
(* the rest of its chain, and the chains of the slots behind.              *)
Later(T, n, t) == {b \in T : LowBits(HashOf[b], n) > t}

Ahead(m, T, x, A, pnd, sn, n, t) ==
    /\ A \subseteq Home(T, n, t)
    /\ HasPath(m, x, A)
    /\ pnd \subseteq Later(T, n, t) \cup A
    /\ sn \cap (Later(T, n, t) \cup A) = {}

IsAhead(m, T, x, pnd, sn, n, t) == \E A : Ahead(m, T, x, A, pnd, sn, n, t)

Enumerators == [live : BOOLEAN, size : Int, table : Int, current : Buckets \cup {NULL}]

EnumInv ==
    /\ enum \in Enumerators
    /\ seen \subseteq stored
    /\ enum.live => /\ enum.table \in 0 .. TableSize(mem)
                    /\ enum.size = TableSize(mem) - enum.table
                    /\ IsAhead(mem, stored, enum.current, pending, seen,
                               TableSize(mem), enum.table)

LEMMA SizeOfTable ==
    ASSUME Inv
    PROVE  LET n == TableSize(mem)
           IN  /\ n \in Nat \ {0} /\ mem \in Mem(n) /\ stored \subseteq Buckets
               /\ Linked(mem, n, stored) /\ NULL \notin stored
               /\ \A b \in stored : LowBits(HashOf[b], n) \in 0 .. n - 1
BY HashAssumption, DivMod DEF Inv, TableInv, Linked, LowBits

LEMMA NewEnumeratorStep ==
    ASSUME Inv, NewEnumerator
    PROVE  EnumInv'
<1> DEFINE n == TableSize(mem)
           H == Home(stored, n, 0)
<1>1. /\ n \in Nat \ {0} /\ Linked(mem, n, stored) /\ stored \subseteq Buckets
      /\ \A b \in stored : LowBits(HashOf[b], n) \in 0 .. n - 1
  BY SizeOfTable
<1>2. UNCHANGED <<mem, stored>>
  BY DEF NewEnumerator, vars
<1>3. /\ enum' = [live |-> TRUE, size |-> n, table |-> 0, current |-> mem.slot[0]]
      /\ pending' = stored
      /\ seen' = {}
  BY DEF NewEnumerator
<1>4. HasChain(mem, 0, H) /\ H \subseteq Buckets
  BY <1>1 DEF Linked, Home
<1>5. stored \subseteq Later(stored, n, 0) \cup H
  BY <1>1 DEF Later, Home
<1>6. HasPath(mem, mem.slot[0], H) /\ mem.slot[0] \in Buckets \cup {NULL}
  <2> HIDE DEF H
  <2>1. QED  BY <1>4, ChainIsPath, FirstOfChain
<1> HIDE DEF n
<1>7. Ahead(mem, stored, mem.slot[0], H, stored, {}, n, 0)
  BY <1>5, <1>6 DEF Ahead
<1>8. IsAhead(mem, stored, mem.slot[0], stored, {}, n, 0)
  BY <1>7 DEF IsAhead
<1>9. TableSize(mem') = n
  BY <1>2 DEF n
<1>10. /\ enum'.table = 0 /\ enum'.size = n /\ enum'.current = mem.slot[0]
       /\ 0 \in 0 .. n /\ n = n - 0
       /\ enum' \in Enumerators
  BY <1>1, <1>3, <1>6 DEF Enumerators
<1>11. QED  BY <1>2, <1>3, <1>8, <1>9, <1>10 DEF EnumInv

LEMMA NextOnChainStep ==
    ASSUME Inv, EnumInv, enum.live, NextOnChain, UNCHANGED vars
    PROVE  EnumInv' /\ item' \in stored \ seen
<1> DEFINE n == TableSize(mem)
           t == enum.table
           x == enum.current
<1>1. n \in Nat \ {0} /\ mem \in Mem(n) /\ stored \subseteq Buckets /\ NULL \notin stored
  BY SizeOfTable
<1>2. /\ enum \in Enumerators
      /\ t \in 0 .. n /\ enum.size = n - t
      /\ IsAhead(mem, stored, x, pending, seen, n, t)
  BY DEF EnumInv
<1>3. PICK A : Ahead(mem, stored, x, A, pending, seen, n, t)
  BY <1>2 DEF IsAhead
<1>4. /\ x # NULL /\ item' = x
      /\ pending' = pending \ {x}
      /\ seen' = (seen \cup {x}) \ {NULL}
      /\ enum' = [enum EXCEPT !.current = mem.next[x]]
      /\ UNCHANGED <<mem, stored>>
  BY DEF NextOnChain, Return, vars
<1>5. TableSize(mem') = n
  BY <1>4
<1> HIDE DEF n
<1>6. x \in A /\ HasPath(mem, mem.next[x], A \ {x})
  BY <1>3, <1>4, PathStep DEF Ahead
<1> DEFINE L == Later(stored, n, t)
<1>7. /\ A \subseteq Home(stored, n, t)
      /\ pending \subseteq L \cup A
      /\ seen \cap (L \cup A) = {}
  BY <1>3 DEF Ahead
<1>8. x \in stored /\ x \notin L /\ x \in Buckets /\ x \notin seen
  <2>1. x \in stored /\ LowBits(HashOf[x], n) = t
    BY <1>6, <1>7 DEF Home
  <2>2. ~(t > t)
    BY <1>2
  <2>3. QED  BY <1>1, <1>6, <1>7, <2>1, <2>2 DEF Later
<1>9. mem.next[x] \in Buckets \cup {NULL}
  BY <1>1, <1>8 DEF Mem
<1> HIDE DEF x, t
<1>10. /\ enum' \in Enumerators
       /\ enum'.current = mem.next[x] /\ enum'.table = enum.table /\ enum'.size = enum.size
  BY <1>2, <1>4, <1>9 DEF Enumerators
<1> HIDE DEF L
<1>11. A \ {x} \subseteq Home(stored, n, t)
  BY <1>7
<1>12. pending' \subseteq L \cup (A \ {x})
  BY <1>4, <1>7
<1>13. seen' \cap (L \cup (A \ {x})) = {}
  BY <1>4, <1>7, <1>8
<1>14. Ahead(mem, stored, mem.next[x], A \ {x}, pending', seen', n, t)
  BY <1>6, <1>11, <1>12, <1>13 DEF Ahead, L
<1>15. IsAhead(mem', stored', enum'.current, pending', seen', n, t)
  BY <1>4, <1>10, <1>14 DEF IsAhead
<1>16. EnumInv'
  <2>1. seen' \subseteq stored'
    BY <1>4, <1>8 DEF EnumInv
  <2>2. QED  BY <1>2, <1>5, <1>10, <1>15, <2>1 DEF EnumInv, t
<1>17. QED  BY <1>4, <1>8, <1>16

LEMMA NextSlotStep ==
    ASSUME Inv, EnumInv, enum.live, NextSlot, UNCHANGED vars
    PROVE  EnumInv' /\ (item' = NULL \/ item' \in stored \ seen)
<1> DEFINE n == TableSize(mem)
           t == enum.table
           L == Later(stored, n, t)
<1>1. /\ n \in Nat \ {0} /\ mem \in Mem(n) /\ stored \subseteq Buckets /\ NULL \notin stored
      /\ Linked(mem, n, stored)
      /\ \A b \in stored : LowBits(HashOf[b], n) \in 0 .. n - 1
  BY SizeOfTable
<1>2. /\ t \in 0 .. n /\ enum.size = n - t
      /\ IsAhead(mem, stored, NULL, pending, seen, n, t)
  BY DEF EnumInv, NextSlot
<1>3. UNCHANGED <<mem, stored>>
  BY DEF vars
<1>4. TableSize(mem') = n
  BY <1>3
<1>5. PICK k \in 1 .. n - t :
        /\ \A j \in 1 .. k - 1 : mem.slot[t + j] = NULL
        /\ k < n - t => mem.slot[t + k] # NULL
        /\ LET b == IF k < n - t THEN mem.slot[t + k] ELSE NULL
           IN  /\ Return(b)
               /\ enum' = [live |-> TRUE, size |-> n - t - k, table |-> t + k,
                           current |-> IF b = NULL THEN NULL ELSE mem.next[b]]
  <2> DEFINE s == enum.size
  <2>1. \E k \in 1 .. s :
          /\ \A j \in 1 .. k - 1 : mem.slot[t + j] = NULL
          /\ k < s => mem.slot[t + k] # NULL
          /\ LET b == IF k < s THEN mem.slot[t + k] ELSE NULL
             IN  /\ Return(b)
                 /\ enum' = [live |-> TRUE, size |-> s - k, table |-> t + k,
                             current |-> IF b = NULL THEN NULL ELSE mem.next[b]]
    BY DEF NextSlot
  <2>2. s = n - t
    BY <1>2
  <2> HIDE DEF s, n, t
  <2>3. QED  BY <2>1, <2>2
<1> HIDE DEF n, t
<1>6. pending \subseteq L /\ seen \cap L = {}
  <2>1. PICK A : Ahead(mem, stored, NULL, A, pending, seen, n, t)
    BY <1>2 DEF IsAhead
  <2>2. NULL \notin A /\ HasPath(mem, NULL, A)
    BY <1>1, <2>1 DEF Ahead, Home
  <2>3. A = {}
    BY <2>2, PathEnds
  <2>4. QED  BY <2>1, <2>3 DEF Ahead
<1>7. t \in Int /\ t + k \in 0 .. n /\ n - t - k = n - (t + k) /\ n - t - k \in Int /\ t + k \in Int
  BY <1>1, <1>2, <1>5
(* The slots in between are empty. *)
<1>8. ASSUME NEW x \in L
      PROVE  x \in stored /\ LowBits(HashOf[x], n) \in t + k .. n - 1
  <2>1. x \in stored /\ LowBits(HashOf[x], n) > t
    BY <1>8 DEF Later
  <2> DEFINE i == LowBits(HashOf[x], n)
             H == Home(stored, n, i)
  <2>2. i \in 0 .. n - 1 /\ x \in H /\ NULL \notin H /\ HasChain(mem, i, H)
    BY <1>1, <2>1 DEF Home, Linked
  <2> HIDE DEF i, H
  <2>3. mem.slot[i] # NULL
    BY <2>2, ChainIsPath, PathEnds
  <2>4. ASSUME i < t + k PROVE FALSE
    <3>1. i - t \in 1 .. k - 1 /\ t + (i - t) = i
      BY <1>2, <1>5, <2>1, <2>2, <2>4 DEF i
    <3>2. QED  BY <1>5, <2>3, <3>1
  <2>5. QED  BY <1>7, <2>1, <2>2, <2>4 DEF i
<1>9. CASE k < n - t
  <2> DEFINE b == mem.slot[t + k]
             H == Home(stored, n, t + k)
             M == Later(stored, n, t + k)
  <2>1. b # NULL /\ Return(b)
        /\ enum' = [live |-> TRUE, size |-> n - t - k, table |-> t + k, current |-> mem.next[b]]
    BY <1>5, <1>9
  <2>2. t + k \in 0 .. n - 1
    <3> HIDE DEF b
    <3>1. t \in 0 .. n /\ k \in 1 .. n - t /\ k < n - t /\ n \in Nat
      BY <1>1, <1>2, <1>9
    <3>2. QED  BY <3>1
  <2>3. HasChain(mem, t + k, H)
    BY <1>1, <2>2 DEF Linked
  <2> HIDE DEF H
  <2>4. HasPath(mem, b, H)
    BY <2>3, ChainIsPath
  <2> HIDE DEF b
  <2>5. b \in H /\ HasPath(mem, mem.next[b], H \ {b})
    BY <2>1, <2>4, PathStep
  <2>6. b \in stored /\ LowBits(HashOf[b], n) = t + k /\ b \in Buckets
    BY <1>1, <2>5 DEF H, Home
  <2>7. b \in L /\ b \notin M
    <3>1. t + k > t /\ ~(t + k > t + k)
      BY <1>2, <1>5, <1>7
    <3>2. QED  BY <2>6, <3>1 DEF Later
  <2>8. L = M \cup H
    <3>1. ASSUME NEW x \in L PROVE x \in M \cup H
      BY <1>7, <1>8, <3>1 DEF Later, H, Home
    <3>2. ASSUME NEW x \in M \cup H PROVE x \in L
      <4>1. x \in stored /\ (LowBits(HashOf[x], n) > t + k \/ LowBits(HashOf[x], n) = t + k)
        BY <3>2 DEF Later, H, Home
      <4>2. LowBits(HashOf[x], n) > t
        BY <1>1, <1>2, <1>5, <1>7, <4>1
      <4>3. QED  BY <4>1, <4>2 DEF Later
    <3>3. QED  BY <3>1, <3>2
  <2>9. /\ item' = b
        /\ pending' = pending \ {b}
        /\ seen' = (seen \cup {b}) \ {NULL}
    BY <2>1 DEF Return
  <2> HIDE DEF L, M
  <2>10. pending' \subseteq M \cup (H \ {b}) /\ seen' \cap (M \cup (H \ {b})) = {}
    BY <1>6, <2>7, <2>8, <2>9
  <2>11. H \ {b} \subseteq Home(stored, n, t + k)
    BY DEF H
  <2>12. Ahead(mem, stored, mem.next[b], H \ {b}, pending', seen', n, t + k)
    BY <2>5, <2>10, <2>11 DEF Ahead, M
  <2>13. IsAhead(mem', stored', mem.next[b], pending', seen', n, t + k)
    BY <1>3, <2>12 DEF IsAhead
  <2>14. mem.next[b] \in Buckets \cup {NULL}
    BY <1>1, <2>6 DEF Mem
  <2>15. /\ enum' \in Enumerators /\ enum'.table = t + k /\ enum'.size = n - (t + k)
         /\ enum'.current = mem.next[b]
    BY <1>7, <2>1, <2>14 DEF Enumerators
  <2>16. EnumInv'
    <3>1. seen' \subseteq stored'
      BY <1>3, <2>6, <2>9 DEF EnumInv
    <3>2. QED  BY <1>4, <1>7, <2>13, <2>15, <3>1 DEF EnumInv
  <2>17. b \notin seen
    BY <1>6, <2>7
  <2>18. QED  BY <2>6, <2>9, <2>16, <2>17
<1>10. CASE ~(k < n - t)
  <2>1. t + k = n
    BY <1>1, <1>2, <1>5, <1>7, <1>10
  <2>2. L = {}
    BY <1>1, <1>8, <2>1
  <2>3. Return(NULL)
        /\ enum' = [live |-> TRUE, size |-> n - t - k, table |-> t + k, current |-> NULL]
    BY <1>5, <1>10
  <2>4. pending' = {} /\ item' = NULL /\ seen' \subseteq seen
    BY <1>6, <2>2, <2>3 DEF Return
  <2>5. Home(stored, n, n) = {} /\ Later(stored, n, n) = {}
    BY <1>1 DEF Home, Later
  <2>6. HasPath(mem, NULL, {})
    <3> DEFINE none == [k1 \in 1 .. 0 |-> NULL]
    <3>1. none \in [1 .. 0 -> {}] /\ 1 .. 0 = {} /\ 0 \in Nat
      OBVIOUS
    <3> HIDE DEF none
    <3>2. IsPath(mem, NULL, 0, none, {})
      BY <3>1 DEF IsPath
    <3>3. QED  BY <3>2 DEF HasPath
  <2>7. Ahead(mem, stored, NULL, {}, pending', seen', n, n)
    BY <2>4, <2>5, <2>6 DEF Ahead
  <2>8. IsAhead(mem', stored', NULL, pending', seen', n, n)
    BY <1>3, <2>7 DEF IsAhead
  <2>9. /\ enum' \in Enumerators /\ enum'.table = n /\ enum'.size = n - n
        /\ enum'.current = NULL /\ n \in 0 .. n
    BY <1>1, <1>7, <2>1, <2>3 DEF Enumerators
  <2>10. EnumInv'
    <3>1. seen' \subseteq stored'
      BY <1>3, <2>4 DEF EnumInv
    <3>2. QED  BY <1>4, <2>8, <2>9, <3>1 DEF EnumInv
  <2>11. QED  BY <2>4, <2>10
<1>11. QED  BY <1>9, <1>10

(* The table changes: its size and the buckets ahead do not.               *)
LEMMA TableChanges ==
    ASSUME EnumInv, TableSize(mem') = TableSize(mem), UNCHANGED <<enum, pending>>,
           seen' \subseteq stored',
           enum.live => \A A : Ahead(mem, stored, enum.current, A, pending, seen,
                                     TableSize(mem), enum.table)
                           => Ahead(mem', stored', enum.current, A, pending, seen',
                                    TableSize(mem), enum.table)
    PROVE  EnumInv'
BY DEF EnumInv, IsAhead

LEMMA ChangeStep ==
    ASSUME Inv, EnumInv, mask + 1 = TableSize(mem), ChangeUnderEnumerator
    PROVE  EnumInv'
<1> DEFINE n == TableSize(mem)
           x == enum.current
           t == enum.table
<1>1. /\ n \in Nat \ {0} /\ stored \subseteq Buckets /\ NULL \notin stored
  BY SizeOfTable
<1>2. UNCHANGED <<enum, pending>> /\ mask' = mask /\ mask \in Nat
  BY DEF ChangeUnderEnumerator, Inv, InfoInv
<1>3. PICK b \in Buckets : \/ Insert(b) /\ UNCHANGED seen
                           \/ RemoveBucket(b) /\ (enum.live => b \in seen) /\ seen' = seen \ {b}
  BY DEF ChangeUnderEnumerator
<1>4. CASE Insert(b) /\ UNCHANGED seen
  <2>1. mem' = Entered(b) /\ stored' = stored \cup {b} /\ b \notin stored
    <3>1. mask' # 2 * (mask + 1) - 1
      BY <1>2
    <3>2. QED  BY <1>4, <3>1 DEF Insert, Enter
  <2>2. Linked(mem', n, stored')
    BY <2>1, EnteredIsLinked
  <2>3. TableSize(mem') = n
    <3>1. HasSize(n)
      BY DEF Inv, TableInv, HasSize
    <3>2. QED  BY <2>2, <3>1, TableOfSize
  <2>4. \A y \in Buckets \ {b} : mem'.next[y] = mem.next[y]
    BY <2>1, EnteredKeepsNext
  <2>5. ASSUME enum.live, NEW A, Ahead(mem, stored, x, A, pending, seen, n, t)
        PROVE  Ahead(mem', stored', x, A, pending, seen', n, t)
    <3>1. /\ A \subseteq Home(stored, n, t) /\ HasPath(mem, x, A)
          /\ pending \subseteq Later(stored, n, t) \cup A
          /\ seen \cap (Later(stored, n, t) \cup A) = {}
      BY <2>5 DEF Ahead
    <3>2. \A y \in A : mem'.next[y] = mem.next[y]
      BY <1>1, <2>1, <2>4, <3>1 DEF Home
    <3>3. HasPath(mem', x, A)
      BY <3>1, <3>2, PathStays
    <3>4. A \subseteq Home(stored', n, t)
      BY <2>1, <3>1 DEF Home
    <3>5. Later(stored', n, t) \subseteq Later(stored, n, t) \cup {b}
          /\ Later(stored, n, t) \subseteq Later(stored', n, t)
      BY <2>1 DEF Later
    <3>6. b \notin seen
      BY <2>1 DEF EnumInv
    <3>7. seen' \cap (Later(stored', n, t) \cup A) = {}
      BY <1>4, <3>1, <3>5, <3>6
    <3>8. QED  BY <3>1, <3>3, <3>4, <3>5, <3>7 DEF Ahead
  <2>6. seen' \subseteq stored'
    BY <1>4, <2>1 DEF EnumInv
  <2>7. QED  BY <1>2, <2>3, <2>5, <2>6, TableChanges
<1>5. CASE RemoveBucket(b) /\ (enum.live => b \in seen) /\ seen' = seen \ {b}
  <2>1. TableSize(mem') = n /\ SameNextBut(mem, mem', b)
    BY <1>5, RemoveStep
  <2>2. stored' = stored \ {b}
    BY <1>5 DEF RemoveBucket
  <2>3. ASSUME enum.live, NEW A, Ahead(mem, stored, x, A, pending, seen, n, t)
        PROVE  Ahead(mem', stored', x, A, pending, seen', n, t)
    <3>1. /\ A \subseteq Home(stored, n, t) /\ HasPath(mem, x, A)
          /\ pending \subseteq Later(stored, n, t) \cup A
          /\ seen \cap (Later(stored, n, t) \cup A) = {}
      BY <2>3 DEF Ahead
    <3>2. b \notin A /\ b \notin Later(stored, n, t) /\ A \subseteq Buckets
      BY <1>1, <1>5, <2>3, <3>1 DEF Home
    <3>3. \A y \in A : mem'.next[y] = mem.next[y]
      <4>1. SUFFICES ASSUME NEW y \in A PROVE mem.next[y] # b
        BY <2>1, <3>2 DEF SameNextBut
      <4>2. mem.next[y] \in A \cup {NULL}
        BY <3>1, PathClosed
      <4>3. QED  BY <3>2, <4>2, HashAssumption
    <3>4. HasPath(mem', x, A)
      BY <3>1, <3>3, PathStays
    <3>5. A \subseteq Home(stored', n, t) /\ Later(stored', n, t) = Later(stored, n, t)
      BY <2>2, <3>1, <3>2 DEF Home, Later
    <3>6. seen' \cap (Later(stored', n, t) \cup A) = {}
      BY <1>5, <3>1, <3>5
    <3>7. QED  BY <3>1, <3>4, <3>5, <3>6 DEF Ahead
  <2>4. seen' \subseteq stored'
    BY <1>5, <2>2 DEF EnumInv
  <2>5. QED  BY <1>2, <2>1, <2>3, <2>4, TableChanges
<1>6. QED  BY <1>3, <1>4, <1>5

(* Every step next to an enumerator is a step of the table or leaves it.   *)
LEMMA EnumSteps == NextEnum \/ UNCHANGED <<vars, enumVars>> => [Next]_vars
<1> SUFFICES ASSUME NextEnum \/ UNCHANGED <<vars, enumVars>>, ~UNCHANGED vars PROVE Next
  OBVIOUS
<1>1. mask + 1 = TableSize(mem)
  BY DEF NextEnum
<1>2. CASE ChangeUnderEnumerator \/ RehashDropsEnumerator
  BY <1>1, <1>2 DEF ChangeUnderEnumerator, RehashDropsEnumerator, Next
<1>3. CASE ResetDropsEnumerator \/ SwitchRehash
  BY <1>1, <1>3 DEF ResetDropsEnumerator, SwitchRehash, Next
<1>4. CASE NewEnumerator \/ GetNextLinkable
  BY <1>4 DEF NewEnumerator, GetNextLinkable
<1>5. QED  BY <1>2, <1>3, <1>4 DEF NextEnum

LEMMA DroppedStep ==
    ASSUME Dropped
    PROVE  EnumInv'
BY DEF Dropped, NoEnumerator, EnumInv, Enumerators

LEMMA NextEnumInv ==
    ASSUME Inv, EnumInv, NextEnum \/ UNCHANGED <<vars, enumVars>>
    PROVE  EnumInv'
<1>1. CASE NewEnumerator
  BY <1>1, NewEnumeratorStep
<1>2. CASE GetNextLinkable
  BY <1>2, NextOnChainStep, NextSlotStep DEF GetNextLinkable
<1>3. CASE NextEnum /\ ChangeUnderEnumerator
  BY <1>3, ChangeStep DEF NextEnum
<1>4. CASE RehashDropsEnumerator \/ ResetDropsEnumerator
  BY <1>4, DroppedStep DEF RehashDropsEnumerator, ResetDropsEnumerator
<1>5. CASE SwitchRehash \/ UNCHANGED <<vars, enumVars>>
  <2>1. UNCHANGED <<mem, stored, enum, pending, seen>>
    BY <1>5 DEF SwitchRehash, DisableRehash, EnableRehash, vars, enumVars
  <2>2. QED  BY <2>1 DEF EnumInv
<1>6. QED  BY <1>1, <1>2, <1>3, <1>4, <1>5 DEF NextEnum

LEMMA InitEnumInv == InitEnum => EnumInv
BY DEF InitEnum, NoEnumerator, EnumInv, Enumerators

(* With its enumerators the table is still the table: what is proved of    *)
(* the one holds of the other.                                             *)
THEOREM EnumeratedTableIsTable == SpecEnum => Spec
<1>1. InitEnum => Init
  BY DEF InitEnum
<1>2. [NextEnum]_<<vars, enumVars>> => [Next]_vars
  BY EnumSteps
<1>3. QED  BY <1>1, <1>2, PTL DEF SpecEnum, Spec

(* The inductive invariant of an enumeration: what it has yet to return is *)
(* on the path in front of it, what it has returned is behind it.          *)
THEOREM EnumInvariantHolds == CountersFit => (SpecEnum => [](Inv /\ EnumInv))
<1>1. Inv /\ EnumInv /\ [NextEnum]_<<vars, enumVars>> => EnumInv'
  BY NextEnumInv
<1>2. QED  BY <1>1, InitEnumInv, EnumeratedTableIsTable, InvariantHolds, PTL DEF SpecEnum

(* When an enumeration ends, no bucket that was there all the time is      *)
(* missing.                                                                *)
THEOREM EnumeratesAllHolds == CountersFit => (SpecEnum => []EnumeratesAll)
<1>1. Inv /\ EnumInv => EnumeratesAll
  <2> SUFFICES ASSUME Inv, EnumInv, Finished PROVE pending = {}
    BY DEF EnumeratesAll
  <2> DEFINE n == TableSize(mem)
             t == enum.table
  <2>1. /\ n \in Nat \ {0} /\ NULL \notin stored
        /\ \A b \in stored : LowBits(HashOf[b], n) \in 0 .. n - 1
    BY SizeOfTable
  <2>2. t \in 0 .. n /\ 0 = n - t /\ IsAhead(mem, stored, NULL, pending, seen, n, t)
    BY DEF EnumInv, Finished
  <2> HIDE DEF n, t
  <2>3. t = n
    BY <2>1, <2>2
  <2>4. PICK A : Ahead(mem, stored, NULL, A, pending, seen, n, n)
    BY <2>2, <2>3 DEF IsAhead
  <2>5. A \subseteq Home(stored, n, n) /\ pending \subseteq Later(stored, n, n) \cup A
    BY <2>4 DEF Ahead
  <2>6. Home(stored, n, n) = {} /\ Later(stored, n, n) = {}
    BY <2>1 DEF Home, Later
  <2>7. QED  BY <2>5, <2>6
<1>2. QED  BY <1>1, EnumInvariantHolds, PTL

(* No bucket is returned twice, and none that is not in the table.         *)
THEOREM EnumeratesOnceHolds == CountersFit => (SpecEnum => EnumeratesOnce)
<1>1. Inv /\ EnumInv /\ GetNextLinkable => item' = NULL \/ item' \in stored \ seen
  BY NextOnChainStep, NextSlotStep DEF GetNextLinkable
<1>2. Inv /\ EnumInv /\ [NextEnum]_<<vars, enumVars>>
        => [GetNextLinkable => item' = NULL \/ item' \in stored \ seen]_<<vars, enumVars>>
  BY <1>1
<1>3. QED  BY <1>2, EnumInvariantHolds, PTL DEF SpecEnum, EnumeratesOnce
=============================================================================
