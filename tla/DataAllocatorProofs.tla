------------------------- MODULE DataAllocatorProofs -------------------------
(***************************************************************************)
(* Proofs about DataAllocator, for any number of pools of any size, any    *)
(* request sizes, with growing free list tables and with failing news, and *)
(* about the words that printStats() counts.                               *)
(***************************************************************************)
EXTENDS DataAllocatorStats, CountingLemmas

-----------------------------------------------------------------------------
(* Arithmetic of block sizes *)

(* A request of at least one integer occupies at least one word. *)
LEMMA ArchSize ==
    ASSUME NEW n \in Nat
    PROVE  arch_size(n) \in Nat /\ arch_size(n) <= n /\ (n # 0 => arch_size(n) # 0)
BY SizesAssumption DEF arch_size

LEMMA BlockWordsPositive ==
    ASSUME NEW n \in Sizes \ {0}
    PROVE  BlockWords(n) \in Nat \ {0}
BY ArchSize, SizesAssumption DEF BlockWords

(* A block apart from a range is apart from every part of the range. *)
LEMMA ApartWithin ==
    ASSUME NEW e \in Nat, NEW v \in Nat, NEW a \in Nat, NEW m \in Int,
           NEW b \in Nat, NEW k \in Int,
           a <= b, b + k <= a + m, Apart(e, v, a, m)
    PROVE  Apart(e, v, b, k)
BY DEF Apart

-----------------------------------------------------------------------------
(* The table of free lists *)

(* A new or reset table is an array of empty lists. *)
LEMMA EmptyArrays ==
    /\ IsArray(Lists!NewArray(FreeLists))
    /\ \A v \in 0 .. Lists!NewArray(FreeLists).capa - 1 :
          Lists!NewArray(FreeLists).data[v] = <<>>
    /\ \A f : IsArray(f) =>
          /\ IsArray(Lists!Cleared(f))
          /\ \A v \in 0 .. Lists!Cleared(f).capa - 1 : Lists!Cleared(f).data[v] = <<>>
BY SizesAssumption DEF IsArray, Lists!NewArray, Lists!Cleared

(* ensurePos keeps every old list; the lists it adds hold nothing but *)
(* possibly an uninitialised pointer.                                 *)
LEMMA GrownArray ==
    ASSUME NEW f, IsArray(f), NEW i \in Nat, NEW g \in Lists!Grown(f, i)
    PROVE  /\ IsArray(g)
           /\ i < g.capa
           /\ f.capa <= g.capa
           /\ \A v \in 0 .. f.capa - 1 : g.data[v] = f.data[v]
           /\ \A v \in f.capa .. g.capa - 1 : g.data[v] \in {<<>>, <<Wild>>}
<1>1. CASE i < f.capa
  BY <1>1 DEF Lists!Grown, IsArray
<1>2. CASE ~(i < f.capa)
  <2>1. PICK tail \in [f.capa .. i + INC - 1 -> {<<>>, <<Wild>>}] :
           g = Lists!Enlarged(f, i + INC, tail)
    BY <1>2 DEF Lists!Grown
  <2>2. g.capa = i + INC /\ f.capa \in Nat /\ INC \in Nat \ {0}
    BY <2>1, SizesAssumption DEF IsArray, Lists!Enlarged
  <2>3. ASSUME NEW k \in 0 .. g.capa - 1
        PROVE  /\ k < f.capa => g.data[k] = f.data[k]
               /\ ~(k < f.capa) => g.data[k] \in {<<>>, <<Wild>>}
    BY <2>1, <2>2 DEF Lists!Enlarged
  <2>4. ASSUME NEW k \in 0 .. g.capa - 1
        PROVE  g.data[k] \in Seq(Nat \cup {Wild})
    <3>1. CASE k < f.capa
      <4>1. k \in 0 .. f.capa - 1 /\ g.data[k] = f.data[k]
        BY <3>1, <2>2, <2>3
      <4>2. QED  BY <4>1 DEF IsArray
    <3>2. CASE ~(k < f.capa)
      <4>1. g.data[k] \in {<<>>, <<Wild>>}
        BY <3>2, <2>3
      <4>2. <<>> \in Seq(Nat \cup {Wild}) /\ <<Wild>> \in Seq(Nat \cup {Wild})
        OBVIOUS
      <4>3. QED  BY <4>1, <4>2
    <3>3. QED  BY <3>1, <3>2
  <2>5. g.data \in [0 .. g.capa - 1 -> Seq(Nat \cup {Wild})]
    BY <2>1, <2>2, <2>4 DEF Lists!Enlarged
  <2>6. \A v \in 0 .. f.capa - 1 : v \in 0 .. g.capa - 1
    BY <1>2, <2>2
  <2>7. \A v \in f.capa .. g.capa - 1 : v \in 0 .. g.capa - 1 /\ ~(v < f.capa)
    BY <2>2
  <2>8. QED
    BY <1>2, <2>2, <2>3, <2>5, <2>6, <2>7 DEF IsArray
<1>3. QED  BY <1>1, <1>2

(* Where element j of list v was before list i lost (gained) its head. *)
Before(i, v, j) == IF v = i THEN j - 1 ELSE j
After(i, v, j) == IF v = i THEN j + 1 ELSE j

(* An element of h is the block d, at the head of list i, or was in f. *)
Shifted(f, i, d, h) ==
    \A v \in 0 .. h.capa - 1 : \A j \in 1 .. Len(h.data[v]) :
        h.data[v][j] # Wild =>
            \/ v = i /\ j = 1 /\ h.data[v][j] = d
            \/ /\ v \in 0 .. f.capa - 1
               /\ Before(i, v, j) \in 1 .. Len(f.data[v])
               /\ h.data[v][j] = f.data[v][Before(i, v, j)]

(* Every element of h was in f. *)
ShiftedBack(f, i, h) ==
    \A v \in 0 .. h.capa - 1 : \A j \in 1 .. Len(h.data[v]) :
        /\ After(i, v, j) \in 1 .. Len(f.data[v])
        /\ h.data[v][j] = f.data[v][After(i, v, j)]

(* After a push onto list i, an element is either the pushed block, at the *)
(* head of list i, or an element of the old table at its old place, one    *)
(* position further down in list i.                                        *)
LEMMA PushedArray ==
    ASSUME NEW f, IsArray(f), NEW i \in Nat, NEW d \in Nat, NEW h \in Pushed(f, i, d)
    PROVE  /\ IsArray(h)
           /\ i # 0 => h.data[0] = f.data[0]
           /\ Shifted(f, i, d, h)
<1>1. PICK g \in Lists!Grown(f, i) : h = Lists!Stored(g, i, <<d>> \o g.data[i])
  BY DEF Pushed
<1>2. /\ IsArray(g)
      /\ i < g.capa
      /\ f.capa <= g.capa
      /\ \A v \in 0 .. f.capa - 1 : g.data[v] = f.data[v]
      /\ \A v \in f.capa .. g.capa - 1 : g.data[v] \in {<<>>, <<Wild>>}
  BY GrownArray
<1>3. /\ f.capa \in Nat
      /\ g.capa \in Nat
      /\ i \in 0 .. g.capa - 1
      /\ \A v \in 0 .. g.capa - 1 : g.data[v] \in Seq(Nat \cup {Wild})
  BY <1>2 DEF IsArray
<1>4. /\ h.capa = g.capa
      /\ h.data = [g.data EXCEPT ![i] = <<d>> \o g.data[i]]
  BY <1>1 DEF Lists!Stored
<1>5. /\ h.data[i] = <<d>> \o g.data[i]
      /\ \A v \in 0 .. g.capa - 1 : v # i => h.data[v] = g.data[v]
  BY <1>2, <1>3, <1>4 DEF IsArray
<1>6. <<d>> \o g.data[i] \in Seq(Nat \cup {Wild})
  <2>1. <<d>> \in Seq(Nat \cup {Wild}) /\ g.data[i] \in Seq(Nat \cup {Wild})
    BY <1>3
  <2>2. QED  BY <2>1
<1>7. IsArray(h)
  BY <1>2, <1>4, <1>6 DEF IsArray
<1>8. ASSUME NEW v \in 0 .. h.capa - 1, NEW j \in 1 .. Len(h.data[v]),
             h.data[v][j] # Wild
      PROVE  \/ v = i /\ j = 1 /\ h.data[v][j] = d
             \/ /\ v \in 0 .. f.capa - 1
                /\ Before(i, v, j) \in 1 .. Len(f.data[v])
                /\ h.data[v][j] = f.data[v][Before(i, v, j)]
  <2>1. ASSUME v = i, j # 1
        PROVE  j - 1 \in 1 .. Len(g.data[v]) /\ h.data[v][j] = g.data[v][j - 1]
    <3>1. g.data[i] \in Seq(Nat \cup {Wild})
      BY <1>3
    <3>2. Len(<<d>> \o g.data[i]) = 1 + Len(g.data[i])
      BY <3>1
    <3>3. j \in 2 .. 1 + Len(g.data[i])
      BY <2>1, <3>1, <3>2, <1>5
    <3>4. (<<d>> \o g.data[i])[j] = g.data[i][j - 1]
      BY <3>1, <3>3
    <3>5. QED  BY <2>1, <3>1, <3>3, <3>4, <1>5
  <2>2. ASSUME v = i, j = 1 PROVE h.data[v][j] = d
    <3>1. (<<d>> \o g.data[i])[1] = d
      BY <1>3
    <3>2. QED  BY <3>1, <2>2, <1>5
  <2>3. ASSUME v # i PROVE j \in 1 .. Len(g.data[v]) /\ h.data[v][j] = g.data[v][j]
    BY <2>3, <1>4, <1>5
  <2>4. ASSUME NEW k \in 1 .. Len(g.data[v]), g.data[v][k] # Wild
        PROVE  v \in 0 .. f.capa - 1
    <3>1. SUFFICES ASSUME v \notin 0 .. f.capa - 1 PROVE FALSE
      OBVIOUS
    <3>2. g.data[v] \in {<<>>, <<Wild>>}
      BY <3>1, <1>2, <1>3, <1>4
    <3>3. Len(<<>>) = 0 /\ Len(<<Wild>>) = 1 /\ <<Wild>>[1] = Wild
      OBVIOUS
    <3>4. QED  BY <3>2, <3>3, <2>4
  <2>5. QED
    BY <2>1, <2>2, <2>3, <2>4, <1>2, <1>8 DEF Before
<1>9. ASSUME i # 0 PROVE h.data[0] = f.data[0]
  <2>1. 0 \in 0 .. f.capa - 1 /\ 0 \in 0 .. g.capa - 1
    BY <1>2, <1>3 DEF IsArray
  <2>2. QED  BY <2>1, <1>2, <1>5, <1>9
<1>10. QED  BY <1>7, <1>8, <1>9 DEF Shifted

(* Taking the head of list i leaves an array whose elements are elements   *)
(* of the old table, one position further down in list i.                  *)
LEMMA PoppedArray ==
    ASSUME NEW f, IsArray(f), NEW i \in 0 .. f.capa - 1, f.data[i] # <<>>,
           NEW h, h = Lists!Stored(f, i, Tail(f.data[i]))
    PROVE  /\ IsArray(h)
           /\ h.capa = f.capa
           /\ i # 0 => h.data[0] = f.data[0]
           /\ ShiftedBack(f, i, h)
<1>1. /\ f.capa \in Nat
      /\ f.data \in [0 .. f.capa - 1 -> Seq(Nat \cup {Wild})]
      /\ f.data[i] \in Seq(Nat \cup {Wild})
  BY DEF IsArray
<1>2. /\ Tail(f.data[i]) \in Seq(Nat \cup {Wild})
      /\ Len(Tail(f.data[i])) = Len(f.data[i]) - 1
      /\ \A j \in 1 .. Len(f.data[i]) - 1 : Tail(f.data[i])[j] = f.data[i][j + 1]
      /\ Len(f.data[i]) \in Nat \ {0}
  BY <1>1
<1>3. h.capa = f.capa /\ h.data = [f.data EXCEPT ![i] = Tail(f.data[i])]
  BY DEF Lists!Stored
<1>4. /\ h.data[i] = Tail(f.data[i])
      /\ \A v \in 0 .. f.capa - 1 : v # i => h.data[v] = f.data[v]
  BY <1>1, <1>3
<1>5. IsArray(h)
  BY <1>1, <1>2, <1>3 DEF IsArray
<1>6. ASSUME NEW v \in 0 .. h.capa - 1, NEW j \in 1 .. Len(h.data[v])
      PROVE  /\ After(i, v, j) \in 1 .. Len(f.data[v])
             /\ h.data[v][j] = f.data[v][After(i, v, j)]
  <2>1. CASE v = i
    <3>1. j \in 1 .. Len(f.data[i]) - 1
      BY <2>1, <1>2, <1>4
    <3>2. h.data[v][j] = f.data[v][j + 1]
      BY <2>1, <3>1, <1>2, <1>4
    <3>3. QED  BY <2>1, <3>1, <3>2, <1>2 DEF After
  <2>2. CASE v # i
    BY <2>2, <1>3, <1>4 DEF After
  <2>3. QED  BY <2>1, <2>2
<1>7. ASSUME i # 0 PROVE h.data[0] = f.data[0]
  BY <1>4, <1>7 DEF IsArray
<1>8. QED  BY <1>3, <1>5, <1>6, <1>7 DEF ShiftedBack

-----------------------------------------------------------------------------
(* What pushing and popping keep *)

(* A pushed block that was apart from the free blocks leaves them apart,   *)
(* from each other and from every block that was apart from both.          *)
LEMMA PushedApart ==
    ASSUME NEW f, IsArray(f), NEW i \in Nat, NEW d \in Nat, NEW h \in Pushed(f, i, d)
    PROVE  /\ (FreeApart(f) /\ ApartFromFree(f, d, i)) => FreeApart(h)
           /\ \A e, w : (ApartFromFree(f, e, w) /\ Apart(d, i, e, w))
                            => ApartFromFree(h, e, w)
           /\ \A ps : (FreeInPools(ps, f) /\ InPools(ps, d, i)) => FreeInPools(ps, h)
<1>1. /\ IsArray(h)
      /\ \A v \in 0 .. h.capa - 1 : \A j \in 1 .. Len(h.data[v]) :
            h.data[v][j] # Wild =>
                \/ v = i /\ j = 1 /\ h.data[v][j] = d
                \/ /\ v \in 0 .. f.capa - 1
                   /\ Before(i, v, j) \in 1 .. Len(f.data[v])
                   /\ h.data[v][j] = f.data[v][Before(i, v, j)]
  <2>1. IsArray(h) /\ Shifted(f, i, d, h)
    BY PushedArray
  <2>2. QED  BY <2>1 DEF Shifted
<1>2. ASSUME FreeApart(f), ApartFromFree(f, d, i),
             NEW v \in 0 .. h.capa - 1, NEW w \in 0 .. h.capa - 1,
             NEW j \in 1 .. Len(h.data[v]), NEW k \in 1 .. Len(h.data[w]),
             <<v, j>> # <<w, k>>, h.data[v][j] # Wild, h.data[w][k] # Wild
      PROVE  Apart(h.data[v][j], v, h.data[w][k], w)
  <2>1. CASE v = i /\ j = 1
    <3>1. ~(w = i /\ k = 1)
      BY <1>2, <2>1
    <3>2. /\ w \in 0 .. f.capa - 1 /\ Before(i, w, k) \in 1 .. Len(f.data[w])
          /\ h.data[w][k] = f.data[w][Before(i, w, k)]
      BY <1>1, <1>2, <3>1
    <3>3. h.data[v][j] = d
      BY <1>1, <1>2, <2>1 DEF Before
    <3>4. Apart(h.data[w][k], w, d, i)
      BY <1>2, <3>2 DEF ApartFromFree
    <3>5. QED  BY <2>1, <3>3, <3>4 DEF Apart
  <2>2. CASE w = i /\ k = 1
    <3>1. ~(v = i /\ j = 1)
      BY <1>2, <2>2
    <3>2. /\ v \in 0 .. f.capa - 1 /\ Before(i, v, j) \in 1 .. Len(f.data[v])
          /\ h.data[v][j] = f.data[v][Before(i, v, j)]
      BY <1>1, <1>2, <3>1
    <3>3. h.data[w][k] = d
      BY <1>1, <1>2, <2>2 DEF Before
    <3>4. Apart(h.data[v][j], v, d, i)
      BY <1>2, <3>2 DEF ApartFromFree
    <3>5. QED  BY <2>2, <3>3, <3>4
  <2>3. CASE ~(v = i /\ j = 1) /\ ~(w = i /\ k = 1)
    <3>1. <<v, Before(i, v, j)>> # <<w, Before(i, w, k)>>
      BY <1>2 DEF Before
    <3>2. /\ v \in 0 .. f.capa - 1 /\ w \in 0 .. f.capa - 1
          /\ Before(i, v, j) \in 1 .. Len(f.data[v]) /\ Before(i, w, k) \in 1 .. Len(f.data[w])
          /\ h.data[v][j] = f.data[v][Before(i, v, j)]
          /\ h.data[w][k] = f.data[w][Before(i, w, k)]
      BY <1>1, <1>2, <2>3
    <3>3. QED  BY <1>2, <3>1, <3>2 DEF FreeApart
  <2>4. QED  BY <2>1, <2>2, <2>3
<1>3. ASSUME NEW e, NEW w, ApartFromFree(f, e, w), Apart(d, i, e, w)
      PROVE  ApartFromFree(h, e, w)
  BY <1>1, <1>3 DEF ApartFromFree
<1>4. ASSUME NEW ps, FreeInPools(ps, f), InPools(ps, d, i)
      PROVE  FreeInPools(ps, h)
  BY <1>1, <1>4 DEF FreeInPools
<1>5. QED
  BY <1>2, <1>3, <1>4 DEF FreeApart

(* Popping a block keeps the others apart, and apart from the popped one. *)
LEMMA PoppedApart ==
    ASSUME NEW f, IsArray(f), NEW i \in 0 .. f.capa - 1, f.data[i] # <<>>,
           Head(f.data[i]) # Wild, NEW h, h = Lists!Stored(f, i, Tail(f.data[i]))
    PROVE  /\ FreeApart(f) => FreeApart(h) /\ ApartFromFree(h, Head(f.data[i]), i)
           /\ \A e, w : ApartFromFree(f, e, w) =>
                /\ ApartFromFree(h, e, w)
                /\ Apart(Head(f.data[i]), i, e, w)
           /\ \A ps : FreeInPools(ps, f) =>
                /\ FreeInPools(ps, h)
                /\ InPools(ps, Head(f.data[i]), i)
<1>1. /\ IsArray(h)
      /\ h.capa = f.capa
      /\ \A v \in 0 .. h.capa - 1 : \A j \in 1 .. Len(h.data[v]) :
            /\ After(i, v, j) \in 1 .. Len(f.data[v])
            /\ h.data[v][j] = f.data[v][After(i, v, j)]
  <2>1. IsArray(h) /\ h.capa = f.capa /\ ShiftedBack(f, i, h)
    BY PoppedArray
  <2>2. QED  BY <2>1 DEF ShiftedBack
<1>2. 1 \in 1 .. Len(f.data[i]) /\ Head(f.data[i]) = f.data[i][1]
  BY DEF IsArray
<1>3. ASSUME FreeApart(f)
      PROVE  FreeApart(h)
  <2>1. SUFFICES
          ASSUME NEW v \in 0 .. h.capa - 1, NEW w \in 0 .. h.capa - 1,
                 NEW j \in 1 .. Len(h.data[v]), NEW k \in 1 .. Len(h.data[w]),
                 <<v, j>> # <<w, k>>, h.data[v][j] # Wild, h.data[w][k] # Wild
          PROVE  Apart(h.data[v][j], v, h.data[w][k], w)
    BY DEF FreeApart
  <2>2. <<v, After(i, v, j)>> # <<w, After(i, w, k)>>
    BY <2>1 DEF After
  <2>3. /\ After(i, v, j) \in 1 .. Len(f.data[v]) /\ After(i, w, k) \in 1 .. Len(f.data[w])
        /\ h.data[v][j] = f.data[v][After(i, v, j)]
        /\ h.data[w][k] = f.data[w][After(i, w, k)]
    BY <1>1
  <2>4. QED  BY <1>1, <1>3, <2>1, <2>2, <2>3 DEF FreeApart
<1>4. ASSUME FreeApart(f)
      PROVE  ApartFromFree(h, Head(f.data[i]), i)
  <2>1. SUFFICES
          ASSUME NEW v \in 0 .. h.capa - 1, NEW j \in 1 .. Len(h.data[v]),
                 h.data[v][j] # Wild
          PROVE  Apart(h.data[v][j], v, Head(f.data[i]), i)
    BY DEF ApartFromFree
  <2>2. <<v, After(i, v, j)>> # <<i, 1>>
    BY <2>1 DEF After
  <2>3. After(i, v, j) \in 1 .. Len(f.data[v]) /\ h.data[v][j] = f.data[v][After(i, v, j)]
    BY <1>1
  <2>4. QED  BY <1>1, <1>2, <1>4, <2>1, <2>2, <2>3 DEF FreeApart
<1>5. ASSUME NEW e, NEW w, ApartFromFree(f, e, w)
      PROVE  ApartFromFree(h, e, w) /\ Apart(Head(f.data[i]), i, e, w)
  <2>1. Apart(Head(f.data[i]), i, e, w)
    BY <1>2, <1>5 DEF ApartFromFree
  <2>2. ASSUME NEW v \in 0 .. h.capa - 1, NEW j \in 1 .. Len(h.data[v]),
               h.data[v][j] # Wild
        PROVE  Apart(h.data[v][j], v, e, w)
    <3>1. After(i, v, j) \in 1 .. Len(f.data[v]) /\ h.data[v][j] = f.data[v][After(i, v, j)]
      BY <1>1
    <3>2. QED  BY <1>1, <1>5, <2>2, <3>1 DEF ApartFromFree
  <2>3. QED  BY <2>1, <2>2 DEF ApartFromFree
<1>6. ASSUME NEW ps, FreeInPools(ps, f)
      PROVE  FreeInPools(ps, h) /\ InPools(ps, Head(f.data[i]), i)
  <2>1. InPools(ps, Head(f.data[i]), i)
    BY <1>2, <1>6 DEF FreeInPools
  <2>2. ASSUME NEW v \in 0 .. h.capa - 1, NEW j \in 1 .. Len(h.data[v]),
               h.data[v][j] # Wild
        PROVE  InPools(ps, h.data[v][j], v)
    <3>1. After(i, v, j) \in 1 .. Len(f.data[v]) /\ h.data[v][j] = f.data[v][After(i, v, j)]
      BY <1>1
    <3>2. QED  BY <1>1, <1>6, <2>2, <3>1 DEF FreeInPools
  <2>3. QED  BY <2>1, <2>2 DEF FreeInPools
<1>7. QED  BY <1>3, <1>4, <1>5, <1>6

-----------------------------------------------------------------------------
(* Pools *)

LEMMA PoolFacts ==
    ASSUME AllocatorTypeOK, status # "destroyed"
    PROVE  /\ Len(pools) \in Nat \ {0}
           /\ Head(pools) = pools[1]
           /\ Head(pools) \in Pools
           /\ \A i \in 1 .. Len(pools) : pools[i] \in Pools
           /\ \A p \in Pools : Base[p] \in Nat /\ PoolEnd(p) \in Nat
           /\ ChunkSize \in Nat
BY PoolsAssumption DEF AllocatorTypeOK, PoolEnd

(* A block in a linked pool is apart from any block of a pool that is not. *)
LEMMA OtherPool ==
    ASSUME AllocatorTypeOK, NEW p \in Pools \ owned, NEW e \in Nat, NEW v \in Nat,
           InPools(pools, e, v), NEW a \in Nat, NEW u \in Int,
           Base[p] <= a, a + u <= PoolEnd(p)
    PROVE  Apart(e, v, a, u)
<1>1. PICK i \in 1 .. Len(pools) : Base[pools[i]] <= e /\ e + v <= PoolEnd(pools[i])
  BY DEF InPools
<1>2. pools[i] \in Pools /\ pools[i] # p
  BY DEF AllocatorTypeOK
<1>3. \/ Base[p] + ChunkSize < Base[pools[i]]
      \/ Base[pools[i]] + ChunkSize < Base[p]
  BY <1>2, PoolsAssumption
<1>4. /\ Base[p] \in Nat /\ Base[pools[i]] \in Nat /\ ChunkSize \in Nat
  BY <1>2, PoolsAssumption
<1>5. QED  BY <1>1, <1>3, <1>4 DEF Apart, PoolEnd

(* Linking a pool in front keeps every block in its pool. *)
LEMMA LinkedPools ==
    ASSUME NEW ps \in Seq(Pools), NEW p \in Pools
    PROVE  /\ \A e, v : InPools(ps, e, v) => InPools(<<p>> \o ps, e, v)
           /\ \A f : FreeInPools(ps, f) => FreeInPools(<<p>> \o ps, f)
           /\ \A e, v : (Base[p] <= e /\ e + v <= PoolEnd(p)) => InPools(<<p>> \o ps, e, v)
<1>1. /\ Len(<<p>> \o ps) = Len(ps) + 1
      /\ (<<p>> \o ps)[1] = p
      /\ \A i \in 1 .. Len(ps) : (<<p>> \o ps)[i + 1] = ps[i]
      /\ Len(ps) \in Nat
  OBVIOUS
<1>2. ASSUME NEW e, NEW v, InPools(ps, e, v)
      PROVE  InPools(<<p>> \o ps, e, v)
  <2>1. PICK i \in 1 .. Len(ps) : Base[ps[i]] <= e /\ e + v <= PoolEnd(ps[i])
    BY <1>2 DEF InPools
  <2>2. i + 1 \in 1 .. Len(<<p>> \o ps) /\ (<<p>> \o ps)[i + 1] = ps[i]
    BY <1>1
  <2>3. QED  BY <2>1, <2>2 DEF InPools
<1>3. ASSUME NEW f, FreeInPools(ps, f) PROVE FreeInPools(<<p>> \o ps, f)
  BY <1>2, <1>3 DEF FreeInPools
<1>4. ASSUME NEW e, NEW v, Base[p] <= e, e + v <= PoolEnd(p)
      PROVE  InPools(<<p>> \o ps, e, v)
  <2>1. 1 \in 1 .. Len(<<p>> \o ps)
    BY <1>1
  <2>2. QED  BY <1>1, <1>4, <2>1 DEF InPools
<1>5. QED  BY <1>2, <1>3, <1>4

(* The free blocks stay in linked pools, so they are apart from a new one. *)
LEMMA FreeApartFromOtherPool ==
    ASSUME AllocatorTypeOK, NEW f, IsArray(f), FreeInPools(pools, f),
           NEW p \in Pools \ owned, NEW a \in Nat, NEW u \in Int,
           Base[p] <= a, a + u <= PoolEnd(p)
    PROVE  ApartFromFree(f, a, u)
<1>1. SUFFICES
        ASSUME NEW v \in 0 .. f.capa - 1, NEW j \in 1 .. Len(f.data[v]),
               f.data[v][j] # Wild
        PROVE  Apart(f.data[v][j], v, a, u)
  BY DEF ApartFromFree
<1>2. InPools(pools, f.data[v][j], v)
  BY <1>1 DEF FreeInPools
<1>3. f.data[v][j] \in Nat /\ v \in Nat
  BY <1>1 DEF IsArray
<1>4. QED  BY <1>2, <1>3, OtherPool

-----------------------------------------------------------------------------
(* The parts of allocate *)

(* Two live blocks stay apart when a block that is apart from all is added. *)
LEMMA HandOutKeeps ==
    ASSUME AllocatorTypeOK, LiveApart, NEW d \in Nat, NEW n \in Sizes \ {0},
           \A b \in live : Apart(b.data, BlockWords(b.ints), d, BlockWords(n)),
           live' = live \cup {[data |-> d, ints |-> n]}
    PROVE  /\ LiveApart'
           /\ live' \subseteq [data : Nat, ints : Sizes \ {0}]
<1>1. live' \subseteq [data : Nat, ints : Sizes \ {0}]
  BY DEF AllocatorTypeOK
<1>2. ASSUME NEW b \in live', NEW c \in live', b # c
      PROVE  Apart(b.data, BlockWords(b.ints), c.data, BlockWords(c.ints))
  <2> DEFINE new == [data |-> d, ints |-> n]
  <2>1. new.data = d /\ new.ints = n
    OBVIOUS
  <2>2. CASE b \in live /\ c \in live
    BY <2>2, <1>2 DEF LiveApart
  <2>3. CASE b = new /\ c \in live
    BY <2>1, <2>3 DEF Apart
  <2>4. CASE b \in live /\ c = new
    BY <2>1, <2>4
  <2>5. QED  BY <1>2, <2>2, <2>3, <2>4
<1>3. QED  BY <1>1, <1>2 DEF LiveApart

(* Storing the leftover of a pool moves the unused end to a free list. *)
LEMMA LeftoverKeeps ==
    ASSUME Inv, status # "destroyed", freePtr <= endFree, StoreLeftover
    PROVE  /\ IsArray(freeMem')
           /\ FreeApart(freeMem')
           /\ \A b \in live : ApartFromFree(freeMem', b.data, BlockWords(b.ints))
           /\ FreeInPools(pools, freeMem')
           /\ freeMem'.data[0] = <<>>
<1> DEFINE memLeft == endFree - freePtr
           w == arch_size(memLeft)
<1>1. memLeft \in Nat /\ freePtr \in Nat /\ endFree \in Nat /\ IsArray(freeMem)
  BY DEF Inv, AllocatorTypeOK
<1>2. /\ FreeApart(freeMem)
      /\ \A b \in live : ApartFromFree(freeMem, b.data, BlockWords(b.ints))
      /\ FreeInPools(pools, freeMem)
      /\ freeMem.data[0] = <<>>
  BY DEF Inv, NoOverlap, LiveFreeApart, BlocksInPools, NoEmptyBlocks
<1>3. CASE memLeft = 0
  BY <1>1, <1>2, <1>3 DEF StoreLeftover
<1>4. CASE memLeft # 0
  <2>1. w \in Nat \ {0} /\ w <= memLeft
    BY <1>1, <1>4, ArchSize
  <2>2. freeMem' \in Pushed(freeMem, w, freePtr)
    BY <1>4 DEF StoreLeftover
  <2>3. IsArray(freeMem') /\ freeMem'.data[0] = freeMem.data[0]
    BY <1>1, <2>1, <2>2, PushedArray
  <2>4. ApartFromFree(freeMem, freePtr, w)
    <3>1. SUFFICES
            ASSUME NEW v \in 0 .. freeMem.capa - 1, NEW j \in 1 .. Len(freeMem.data[v]),
                   freeMem.data[v][j] # Wild
            PROVE  Apart(freeMem.data[v][j], v, freePtr, w)
      BY DEF ApartFromFree
    <3>2. Apart(freeMem.data[v][j], v, freePtr, memLeft)
      BY <3>1 DEF Inv, NoOverlap, UnusedApart, ApartFromFree
    <3>3. freeMem.data[v][j] \in Nat
      BY <1>1, <3>1 DEF IsArray
    <3>4. QED  BY <1>1, <2>1, <3>2, <3>3 DEF Apart
  <2>5. ASSUME NEW b \in live
        PROVE  Apart(freePtr, w, b.data, BlockWords(b.ints))
    <3>1. Apart(b.data, BlockWords(b.ints), freePtr, memLeft)
      BY DEF Inv, NoOverlap, UnusedApart
    <3>2. b.data \in Nat /\ BlockWords(b.ints) \in Nat \ {0}
      BY BlockWordsPositive DEF Inv, AllocatorTypeOK
    <3>3. QED  BY <1>1, <2>1, <3>1, <3>2 DEF Apart
  <2>6. InPools(pools, freePtr, w)
    <3>1. /\ endFree = PoolEnd(pools[1])
          /\ Base[pools[1]] <= freePtr
          /\ 1 \in 1 .. Len(pools)
      BY PoolFacts DEF Inv, UnusedInPool
    <3>2. freePtr + w <= PoolEnd(pools[1])
      BY <1>1, <2>1, <3>1
    <3>3. QED  BY <3>1, <3>2 DEF InPools
  <2>7. QED
    BY <1>1, <1>2, <2>1, <2>2, <2>3, <2>4, <2>5, <2>6, PushedApart
<1>5. QED  BY <1>3, <1>4

-----------------------------------------------------------------------------
(* One lemma per action: each keeps the invariant. *)

LEMMA FreeListStep ==
    ASSUME Inv, status = "ok", NEW n \in Sizes \ {0}, AllocateFromFreeList(n)
    PROVE  Inv'
<1> DEFINE w == BlockWords(n)
           d == Head(freeMem.data[w])
<1>1. w \in Nat \ {0}
  BY BlockWordsPositive
<1>2. /\ w \in 0 .. freeMem.capa - 1
      /\ FreeList(w) = freeMem.data[w]
      /\ IsArray(freeMem)
  BY <1>1 DEF AllocateFromFreeList, FreeList, Lists!ArrayGet, Inv, AllocatorTypeOK, IsArray
<1>3. /\ freeMem.data[w] # <<>>
      /\ d # Wild
      /\ freeMem' = Lists!Stored(freeMem, w, Tail(freeMem.data[w]))
      /\ live' = live \cup {[data |-> d, ints |-> n]}
      /\ UNCHANGED <<pools, owned, freePtr, endFree, status>>
  BY <1>2 DEF AllocateFromFreeList, HandOut
<1>4. d \in Nat
  BY <1>2, <1>3 DEF IsArray
<1>5. /\ IsArray(freeMem')
      /\ freeMem'.data[0] = <<>>
  BY <1>1, <1>2, <1>3, PoppedArray DEF Inv, NoEmptyBlocks
<1>6. /\ FreeApart(freeMem')
      /\ ApartFromFree(freeMem', d, w)
      /\ \A e, v : ApartFromFree(freeMem, e, v) =>
            ApartFromFree(freeMem', e, v) /\ Apart(d, w, e, v)
      /\ FreeInPools(pools, freeMem') /\ InPools(pools, d, w)
  BY <1>2, <1>3, PoppedApart DEF Inv, NoOverlap, BlocksInPools
<1>7. ASSUME NEW b \in live
      PROVE  /\ ApartFromFree(freeMem', b.data, BlockWords(b.ints))
             /\ Apart(b.data, BlockWords(b.ints), d, w)
  BY <1>6 DEF Inv, NoOverlap, LiveFreeApart, Apart
<1>8. LiveApart' /\ live' \subseteq [data : Nat, ints : Sizes \ {0}]
  BY <1>3, <1>4, <1>7, HandOutKeeps DEF Inv, NoOverlap
<1>9. AllocatorTypeOK'
  BY <1>3, <1>5, <1>8 DEF Inv, AllocatorTypeOK
<1>10. LiveFreeApart'
  BY <1>3, <1>6, <1>7 DEF LiveFreeApart
<1>11. UnusedApart'
  BY <1>3, <1>6 DEF UnusedApart, Inv, NoOverlap
<1>12. BlocksInPools'
  BY <1>3, <1>6 DEF BlocksInPools, Inv
<1>13. UnusedInPool' /\ NoEmptyBlocks'
  BY <1>3, <1>5 DEF UnusedInPool, NoEmptyBlocks, Inv
<1>14. QED
  BY <1>6, <1>8, <1>9, <1>10, <1>11, <1>12, <1>13 DEF Inv, NoOverlap

LEMMA PoolStep ==
    ASSUME Inv, status = "ok", NEW n \in Sizes \ {0}, AllocateFromPool(n)
    PROVE  Inv'
<1> DEFINE w == BlockWords(n)
<1>1. w \in Nat \ {0} /\ freePtr \in Nat /\ endFree \in Nat
  BY BlockWordsPositive DEF Inv, AllocatorTypeOK
<1>2. /\ freePtr + w <= endFree
      /\ freePtr' = freePtr + w
      /\ live' = live \cup {[data |-> freePtr, ints |-> n]}
      /\ UNCHANGED <<pools, owned, endFree, freeMem, status>>
  BY DEF AllocateFromPool, HandOut
<1>3. ASSUME NEW b \in live
      PROVE  /\ Apart(b.data, BlockWords(b.ints), freePtr, w)
             /\ Apart(b.data, BlockWords(b.ints), freePtr', endFree - freePtr')
  <2>1. Apart(b.data, BlockWords(b.ints), freePtr, endFree - freePtr)
    BY <1>1, <1>2 DEF Inv, NoOverlap, UnusedApart
  <2>2. b.data \in Nat /\ BlockWords(b.ints) \in Nat
    BY BlockWordsPositive DEF Inv, AllocatorTypeOK
  <2>3. QED  BY <1>1, <1>2, <2>1, <2>2 DEF Apart
<1>4. ApartFromFree(freeMem, freePtr, w) /\ ApartFromFree(freeMem, freePtr', endFree - freePtr')
  <2>1. SUFFICES
          ASSUME NEW v \in 0 .. freeMem.capa - 1, NEW j \in 1 .. Len(freeMem.data[v]),
                 freeMem.data[v][j] # Wild
          PROVE  /\ Apart(freeMem.data[v][j], v, freePtr, w)
                 /\ Apart(freeMem.data[v][j], v, freePtr', endFree - freePtr')
    BY DEF ApartFromFree
  <2>2. Apart(freeMem.data[v][j], v, freePtr, endFree - freePtr)
    BY <1>1, <1>2, <2>1 DEF Inv, NoOverlap, UnusedApart, ApartFromFree
  <2>3. freeMem.data[v][j] \in Nat /\ v \in Nat
    BY <2>1 DEF Inv, AllocatorTypeOK, IsArray
  <2>4. freePtr <= freePtr' /\ freePtr' \in Nat /\ endFree - freePtr' \in Int
        /\ freePtr + w <= freePtr + (endFree - freePtr)
        /\ freePtr' + (endFree - freePtr') <= freePtr + (endFree - freePtr)
    <3>1. freePtr' = freePtr + w /\ freePtr + w <= endFree
      BY <1>2
    <3> HIDE DEF w
    <3>2. QED  BY <1>1, <3>1
  <2>5. endFree - freePtr \in Int /\ w \in Int /\ freePtr <= freePtr
    BY <1>1
  <2>6. Apart(freeMem.data[v][j], v, freePtr, w)
    BY <1>1, <2>2, <2>3, <2>4, <2>5, ApartWithin
  <2>7. Apart(freeMem.data[v][j], v, freePtr', endFree - freePtr')
    BY <1>1, <2>2, <2>3, <2>4, <2>5, ApartWithin
  <2>8. QED  BY <2>6, <2>7
<1>5. LiveApart' /\ live' \subseteq [data : Nat, ints : Sizes \ {0}]
  BY <1>1, <1>2, <1>3, HandOutKeeps DEF Inv, NoOverlap
<1>6. AllocatorTypeOK'
  BY <1>1, <1>2, <1>5 DEF Inv, AllocatorTypeOK
<1>7. LiveFreeApart'
  BY <1>2, <1>4 DEF LiveFreeApart, Inv, NoOverlap
<1>8. UnusedApart'
  <2>1. Apart(freePtr, w, freePtr', endFree - freePtr')
    BY <1>1, <1>2 DEF Apart
  <2>2. QED  BY <1>2, <1>3, <1>4, <2>1 DEF UnusedApart
<1>9. UnusedInPool'
  BY <1>1, <1>2, PoolFacts DEF UnusedInPool, Inv
<1>10. BlocksInPools'
  <2>1. InPools(pools, freePtr, w)
    BY <1>2, PoolFacts DEF InPools, Inv, UnusedInPool
  <2>2. QED  BY <1>2, <2>1 DEF BlocksInPools, Inv
<1>11. QED
  BY <1>2, <1>5, <1>6, <1>7, <1>8, <1>9, <1>10 DEF Inv, NoOverlap, NoEmptyBlocks

LEMMA NewPoolStep ==
    ASSUME Inv, SizesFit, status = "ok", NEW n \in Sizes \ {0}, AllocateFromNewPool(n)
    PROVE  Inv'
<1> DEFINE w == BlockWords(n)
<1>1. w \in Nat \ {0} /\ w <= ChunkSize /\ ChunkSize \in Nat
  BY BlockWordsPositive, PoolsAssumption DEF SizesFit
<1>2. PICK p \in Pools \ owned :
        /\ pools' = <<p>> \o pools
        /\ owned' = owned \cup {p}
        /\ freePtr' = Base[p] + w
        /\ endFree' = PoolEnd(p)
        /\ live' = live \cup {[data |-> Base[p], ints |-> n]}
        /\ status' = status
  BY DEF AllocateFromNewPool, HandOut
<1>3. /\ IsArray(freeMem')
      /\ FreeApart(freeMem')
      /\ \A b \in live : ApartFromFree(freeMem', b.data, BlockWords(b.ints))
      /\ FreeInPools(pools, freeMem')
      /\ freeMem'.data[0] = <<>>
  BY LeftoverKeeps DEF AllocateFromNewPool
<1>4. /\ Base[p] \in Nat
      /\ freePtr' \in Nat /\ endFree' \in Nat
      /\ Base[p] <= Base[p] /\ Base[p] <= freePtr'
      /\ Base[p] + w <= PoolEnd(p)
      /\ endFree' - freePtr' \in Int
      /\ freePtr' + (endFree' - freePtr') <= PoolEnd(p)
      /\ PoolEnd(p) = Base[p] + ChunkSize
  <2>1. Base[p] \in Nat
    BY PoolsAssumption
  <2>2. PoolEnd(p) = Base[p] + ChunkSize
    BY DEF PoolEnd
  <2>3. freePtr' = Base[p] + w /\ endFree' = PoolEnd(p)
    BY <1>2
  <2> HIDE DEF w
  <2>4. QED  BY <1>1, <2>1, <2>2, <2>3
<1>5. /\ pools \in Seq(Pools)
      /\ AllocatorTypeOK
      /\ \A i \in 1 .. Len(pools) : pools[i] \in owned
  BY DEF Inv, AllocatorTypeOK
<1>6. ASSUME NEW b \in live
      PROVE  /\ Apart(b.data, BlockWords(b.ints), Base[p], w)
             /\ Apart(b.data, BlockWords(b.ints), freePtr', endFree' - freePtr')
             /\ InPools(pools', b.data, BlockWords(b.ints))
  <2>1. InPools(pools, b.data, BlockWords(b.ints))
    BY DEF Inv, BlocksInPools
  <2>2. b.data \in Nat /\ BlockWords(b.ints) \in Nat
    BY BlockWordsPositive DEF Inv, AllocatorTypeOK
  <2>3. Apart(b.data, BlockWords(b.ints), Base[p], w)
    <3>1. w \in Int
      BY <1>1
    <3> HIDE DEF w
    <3>2. QED  BY <3>1, <1>4, <1>5, <2>1, <2>2, OtherPool
  <2>4. Apart(b.data, BlockWords(b.ints), freePtr', endFree' - freePtr')
    BY <1>4, <1>5, <2>1, <2>2, OtherPool
  <2>5. InPools(pools', b.data, BlockWords(b.ints))
    BY <1>2, <1>5, <2>1, LinkedPools
  <2>6. QED  BY <2>3, <2>4, <2>5
<1>7. /\ ApartFromFree(freeMem', Base[p], w)
      /\ ApartFromFree(freeMem', freePtr', endFree' - freePtr')
  <2>1. w \in Int
    BY <1>1
  <2>2. ApartFromFree(freeMem', freePtr', endFree' - freePtr')
    BY <1>3, <1>4, <1>5, FreeApartFromOtherPool
  <2> HIDE DEF w
  <2>3. ApartFromFree(freeMem', Base[p], w)
    BY <1>3, <1>4, <1>5, <2>1, FreeApartFromOtherPool
  <2>4. QED  BY <2>2, <2>3
<1>8. LiveApart' /\ live' \subseteq [data : Nat, ints : Sizes \ {0}]
  BY <1>2, <1>4, <1>6, HandOutKeeps DEF Inv, NoOverlap
<1>9. AllocatorTypeOK'
  <2>1. /\ pools' \in Seq(Pools)
        /\ pools' # <<>>
        /\ \A i \in 1 .. Len(pools') :
              \/ i = 1 /\ pools'[i] = p
              \/ i - 1 \in 1 .. Len(pools) /\ pools'[i] = pools[i - 1]
    BY <1>2, <1>5
  <2>2. \A i, j \in 1 .. Len(pools') : i # j => pools'[i] # pools'[j]
    <3>1. TAKE i, j \in 1 .. Len(pools')
    <3>2. HAVE i # j
    <3>3. CASE i = 1
      BY <2>1, <3>2, <3>3, <1>5
    <3>4. CASE j = 1
      BY <2>1, <3>2, <3>4, <1>5
    <3>5. CASE i # 1 /\ j # 1
      BY <2>1, <3>2, <3>5 DEF Inv, AllocatorTypeOK
    <3>6. QED  BY <3>3, <3>4, <3>5
  <2>3. \A i \in 1 .. Len(pools') : pools'[i] \in owned'
    BY <2>1, <1>2, <1>5
  <2>4. owned' \subseteq Pools
    BY <1>2 DEF Inv, AllocatorTypeOK
  <2>5. QED
    BY <1>2, <1>3, <1>4, <1>8, <2>1, <2>2, <2>3, <2>4 DEF Inv, AllocatorTypeOK
<1>10. LiveFreeApart'
  BY <1>2, <1>3, <1>7 DEF LiveFreeApart
<1>11. UnusedApart'
  <2>1. Apart(Base[p], w, freePtr', endFree' - freePtr')
    BY <1>1, <1>2, <1>4 DEF Apart
  <2>2. QED  BY <1>2, <1>6, <1>7, <2>1 DEF UnusedApart
<1>12. UnusedInPool'
  <2>1. Head(pools') = p
    BY <1>2, <1>5
  <2>2. QED  BY <2>1, <1>2, <1>4 DEF UnusedInPool, PoolEnd
<1>13. BlocksInPools'
  <2>1. InPools(pools', Base[p], w) /\ FreeInPools(pools', freeMem')
    BY <1>2, <1>3, <1>4, <1>5, LinkedPools
  <2>2. QED  BY <1>2, <1>6, <2>1 DEF BlocksInPools
<1>14. QED
  BY <1>3, <1>8, <1>9, <1>10, <1>11, <1>12, <1>13 DEF Inv, NoOverlap, NoEmptyBlocks

(* A failing new leaves freePtr beyond the pool, so nothing is unused. *)
LEMMA ThrowStep ==
    ASSUME Inv, status = "ok", NEW n \in Sizes \ {0}, AllocateThrows(n)
    PROVE  Inv'
<1>1. /\ freePtr' = freePtr + BlockWords(n)
      /\ freePtr + BlockWords(n) > endFree
      /\ UNCHANGED <<pools, owned, endFree, live, status>>
      /\ \/ freePtr <= endFree /\ StoreLeftover
         \/ UNCHANGED freeMem
  BY DEF AllocateThrows, PoolExhausted
<1>2. /\ IsArray(freeMem')
      /\ FreeApart(freeMem')
      /\ \A b \in live : ApartFromFree(freeMem', b.data, BlockWords(b.ints))
      /\ FreeInPools(pools, freeMem')
      /\ freeMem'.data[0] = <<>>
  <2>1. CASE freePtr <= endFree /\ StoreLeftover
    BY <2>1, LeftoverKeeps
  <2>2. CASE UNCHANGED freeMem
    BY <2>2 DEF Inv, AllocatorTypeOK, NoOverlap, LiveFreeApart, BlocksInPools, NoEmptyBlocks
  <2>3. QED  BY <1>1, <2>1, <2>2
<1>3. freePtr \in Nat /\ endFree \in Nat /\ BlockWords(n) \in Nat \ {0}
  BY BlockWordsPositive DEF Inv, AllocatorTypeOK
<1>4. freePtr' \in Nat /\ ~(freePtr' <= endFree')
  BY <1>1, <1>3
<1>5. AllocatorTypeOK'
  BY <1>1, <1>2, <1>4 DEF Inv, AllocatorTypeOK
<1>6. LiveApart' /\ LiveFreeApart' /\ UnusedApart'
  BY <1>1, <1>2, <1>4 DEF Inv, NoOverlap, LiveApart, LiveFreeApart, UnusedApart
<1>7. BlocksInPools'
  BY <1>1, <1>2 DEF BlocksInPools, Inv
<1>8. UnusedInPool'
  BY <1>1, <1>3, PoolFacts DEF UnusedInPool, Inv
<1>9. QED
  BY <1>2, <1>5, <1>6, <1>7, <1>8 DEF Inv, NoOverlap, NoEmptyBlocks

(* A live block that ends where the unused end starts is in the current    *)
(* pool, unless a failing new has left nothing unused.                     *)
LEMMA MergedBlock ==
    ASSUME Inv, status = "ok", NEW b \in live, b.data + BlockWords(b.ints) = freePtr
    PROVE  /\ Base[Head(pools)] <= b.data
           /\ b.data <= endFree => freePtr <= endFree
<1> DEFINE w == BlockWords(b.ints)
           q == Head(pools)
<1>1. /\ b.data \in Nat /\ w \in Nat \ {0}
      /\ freePtr \in Nat /\ endFree \in Nat
  BY BlockWordsPositive DEF Inv, AllocatorTypeOK
<1>2. PICK i \in 1 .. Len(pools) : Base[pools[i]] <= b.data /\ b.data + w <= PoolEnd(pools[i])
  BY DEF Inv, BlocksInPools, InPools
<1>3. /\ q \in Pools /\ pools[i] \in Pools
      /\ Base[q] \in Nat /\ Base[pools[i]] \in Nat /\ ChunkSize \in Nat
      /\ endFree = Base[q] + ChunkSize
      /\ Base[q] <= freePtr
      /\ PoolEnd(pools[i]) = Base[pools[i]] + ChunkSize
  BY PoolFacts DEF Inv, UnusedInPool, PoolEnd
<1>4. CASE pools[i] = q
  BY <1>1, <1>2, <1>3, <1>4
<1>5. CASE pools[i] # q
  <2>1. \/ Base[pools[i]] + ChunkSize < Base[q]
        \/ Base[q] + ChunkSize < Base[pools[i]]
    BY <1>3, <1>5, PoolsAssumption
  <2>2. b.data + w = freePtr
    OBVIOUS
  <2> DEFINE r == Base[pools[i]]
             e == b.data
  <2>3. /\ e \in Nat /\ w \in Nat /\ r \in Nat /\ Base[q] \in Nat /\ ChunkSize \in Nat
        /\ r <= e /\ e + w <= r + ChunkSize /\ e + w = freePtr
        /\ Base[q] <= freePtr /\ endFree = Base[q] + ChunkSize
        /\ r + ChunkSize < Base[q] \/ Base[q] + ChunkSize < r
    BY <1>1, <1>2, <1>3, <2>1, <2>2
  <2> HIDE DEF w, q, r, e
  <2>4. Base[q] <= e /\ (e <= endFree => freePtr <= endFree)
    BY <2>3
  <2>5. QED  BY <2>4 DEF q, e
<1>6. QED  BY <1>4, <1>5

LEMMA DeallocateStep ==
    ASSUME Inv, status = "ok", NEW b \in live, Deallocate(b)
    PROVE  Inv'
<1> DEFINE w == BlockWords(b.ints)
<1>1. /\ b.data \in Nat /\ w \in Nat \ {0}
      /\ freePtr \in Nat /\ endFree \in Nat /\ IsArray(freeMem)
      /\ \A c \in live : c.data \in Nat /\ BlockWords(c.ints) \in Nat \ {0}
  BY BlockWordsPositive DEF Inv, AllocatorTypeOK
<1>2. /\ live' = live \ {b}
      /\ UNCHANGED <<pools, owned, endFree, status>>
  BY DEF Deallocate
<1>3. ASSUME NEW c \in live'
      PROVE  /\ c \in live
             /\ Apart(c.data, BlockWords(c.ints), b.data, w)
             /\ Apart(b.data, w, c.data, BlockWords(c.ints))
  BY <1>2 DEF Inv, NoOverlap, LiveApart
<1>4. LiveApart'
  BY <1>2 DEF Inv, NoOverlap, LiveApart
<1>5. ApartFromFree(freeMem, b.data, w) /\ InPools(pools, b.data, w)
  BY DEF Inv, NoOverlap, LiveFreeApart, BlocksInPools
<1>6. CASE b.data + w = freePtr
  <2>1. freePtr' = b.data /\ freeMem' = freeMem
    BY <1>6 DEF Deallocate
  <2>2. /\ Base[Head(pools)] <= b.data
        /\ b.data <= endFree => freePtr <= endFree
    BY <1>6, MergedBlock
  <2>3. AllocatorTypeOK'
    BY <1>1, <1>2, <2>1 DEF Inv, AllocatorTypeOK
  <2>4. LiveFreeApart' /\ FreeApart(freeMem') /\ NoEmptyBlocks'
    BY <1>2, <2>1 DEF Inv, NoOverlap, LiveFreeApart, NoEmptyBlocks
  <2>5. UnusedApart'
    <3>1. SUFFICES ASSUME b.data <= endFree
                   PROVE  /\ \A c \in live' : Apart(c.data, BlockWords(c.ints),
                                                    b.data, endFree - b.data)
                          /\ ApartFromFree(freeMem, b.data, endFree - b.data)
      BY <1>2, <2>1 DEF UnusedApart
    <3>2. freePtr <= endFree
      BY <2>2, <3>1
    <3>3. ASSUME NEW c \in live'
          PROVE  Apart(c.data, BlockWords(c.ints), b.data, endFree - b.data)
      <4>1. /\ Apart(c.data, BlockWords(c.ints), b.data, w)
            /\ Apart(c.data, BlockWords(c.ints), freePtr, endFree - freePtr)
        BY <1>3, <3>2 DEF Inv, NoOverlap, UnusedApart
      <4>2. c.data \in Nat /\ BlockWords(c.ints) \in Nat \ {0}
        BY <1>1, <1>3
      <4> HIDE DEF w
      <4>3. QED  BY <1>1, <1>6, <3>1, <3>2, <4>1, <4>2 DEF Apart
    <3>4. ASSUME NEW v \in 0 .. freeMem.capa - 1, NEW j \in 1 .. Len(freeMem.data[v]),
                 freeMem.data[v][j] # Wild
          PROVE  Apart(freeMem.data[v][j], v, b.data, endFree - b.data)
      <4> DEFINE e == freeMem.data[v][j]
      <4>1. /\ Apart(e, v, b.data, w)
            /\ Apart(e, v, freePtr, endFree - freePtr)
        BY <1>5, <3>2, <3>4 DEF Inv, NoOverlap, UnusedApart, ApartFromFree
      <4>2. e \in Nat /\ v \in Nat
        <5>1. freeMem.data \in [0 .. freeMem.capa - 1 -> Seq(Nat \cup {Wild})]
          BY <1>1, Zenon DEF IsArray
        <5>2. freeMem.data[v] \in Seq(Nat \cup {Wild})
          BY <5>1, Zenon
        <5>3. e \in Nat \cup {Wild}
          BY <5>2
        <5>4. QED  BY <1>1, <3>4, <5>3 DEF IsArray
      <4>3. v # 0
        <5>1. Len(<<>>) = 0
          OBVIOUS
        <5>2. QED  BY <3>4, <5>1 DEF Inv, NoEmptyBlocks
      <4> HIDE DEF w, e
      <4>4. Apart(e, v, b.data, endFree - b.data)
        BY <1>1, <1>6, <3>1, <3>2, <4>1, <4>2, <4>3 DEF Apart
      <4>5. QED  BY <4>4 DEF e
    <3>5. QED  BY <3>3, <3>4 DEF ApartFromFree
  <2>6. BlocksInPools' /\ UnusedInPool'
    BY <1>2, <2>1, <2>2 DEF BlocksInPools, UnusedInPool, Inv
  <2>7. QED  BY <1>4, <2>3, <2>4, <2>5, <2>6 DEF Inv, NoOverlap
<1>7. CASE b.data + w # freePtr
  <2>1. freeMem' \in Pushed(freeMem, w, b.data) /\ freePtr' = freePtr
    BY <1>7 DEF Deallocate
  <2>2. IsArray(freeMem') /\ freeMem'.data[0] = <<>>
    BY <1>1, <2>1, PushedArray DEF Inv, NoEmptyBlocks
  <2>3. /\ FreeApart(freeMem) /\ FreeInPools(pools, freeMem)
        /\ \A c \in live : ApartFromFree(freeMem, c.data, BlockWords(c.ints))
    BY DEF Inv, NoOverlap, BlocksInPools, LiveFreeApart
  <2>4. /\ FreeApart(freeMem')
        /\ FreeInPools(pools, freeMem')
        /\ \A e, v : (ApartFromFree(freeMem, e, v) /\ Apart(b.data, w, e, v))
                        => ApartFromFree(freeMem', e, v)
    BY <1>1, <1>5, <2>1, <2>3, PushedApart
  <2>5. AllocatorTypeOK'
    BY <1>1, <1>2, <2>1, <2>2 DEF Inv, AllocatorTypeOK
  <2>6. LiveFreeApart'
    BY <1>3, <2>3, <2>4 DEF LiveFreeApart
  <2>7. UnusedApart'
    BY <1>2, <1>3, <2>1, <2>4 DEF UnusedApart, Inv, NoOverlap
  <2>8. BlocksInPools' /\ UnusedInPool'
    BY <1>2, <2>1, <2>4 DEF BlocksInPools, UnusedInPool, Inv
  <2>9. QED
    BY <1>4, <2>2, <2>4, <2>5, <2>6, <2>7, <2>8 DEF Inv, NoOverlap, NoEmptyBlocks
<1>8. QED  BY <1>6, <1>7

(* With every list empty and no block live, nothing can overlap. *)
LEMMA NothingInUse ==
    ASSUME NEW f, \A v \in 0 .. f.capa - 1 : f.data[v] = <<>>
    PROVE  /\ FreeApart(f)
           /\ \A d, w : ApartFromFree(f, d, w)
           /\ \A ps : FreeInPools(ps, f)
BY DEF FreeApart, ApartFromFree, FreeInPools

LEMMA ResetStep ==
    ASSUME Inv, status = "ok", ResetAllocator
    PROVE  Inv'
<1>1. /\ pools' = <<Head(pools)>>
      /\ freePtr' = Base[Head(pools)]
      /\ endFree' = PoolEnd(Head(pools))
      /\ freeMem' = Lists!Cleared(freeMem)
      /\ live' = {}
      /\ UNCHANGED <<owned, status>>
  BY DEF ResetAllocator, StartOf
<1>2. /\ IsArray(freeMem')
      /\ \A v \in 0 .. freeMem'.capa - 1 : freeMem'.data[v] = <<>>
  BY <1>1, EmptyArrays DEF Inv, AllocatorTypeOK
<1>3. freeMem'.data[0] = <<>>
  BY <1>2 DEF IsArray
<1>4. /\ Head(pools) \in Pools /\ Head(pools) \in owned
      /\ Base[Head(pools)] \in Nat /\ PoolEnd(Head(pools)) \in Nat
  BY PoolFacts DEF Inv, AllocatorTypeOK
<1>5. AllocatorTypeOK'
  BY <1>1, <1>2, <1>4 DEF Inv, AllocatorTypeOK
<1>6. NoOverlap'
  BY <1>1, <1>2, NothingInUse
     DEF NoOverlap, LiveApart, LiveFreeApart, UnusedApart
<1>7. BlocksInPools'
  BY <1>1, <1>2, NothingInUse DEF BlocksInPools
<1>8. UnusedInPool'
  BY <1>1, <1>4 DEF UnusedInPool
<1>9. QED  BY <1>3, <1>5, <1>6, <1>7, <1>8 DEF Inv, NoEmptyBlocks

LEMMA DestroyStep ==
    ASSUME Inv, status = "ok", Destroy
    PROVE  Inv'
<1>1. /\ pools' = <<>> /\ live' = {} /\ status' = "destroyed"
      /\ owned' \subseteq owned
      /\ UNCHANGED <<freePtr, endFree, freeMem>>
  BY DEF Destroy
<1>2. AllocatorTypeOK'
  BY <1>1 DEF Inv, AllocatorTypeOK
<1>3. NoOverlap'
  BY <1>1 DEF Inv, NoOverlap, LiveApart, LiveFreeApart, UnusedApart
<1>4. QED
  BY <1>1, <1>2, <1>3 DEF Inv, BlocksInPools, UnusedInPool, NoEmptyBlocks

(* Once an uninitialised pointer was used nothing else is claimed. *)
LEMMA WildStep ==
    ASSUME Inv, status = "ok", status' = "wild",
           UNCHANGED <<pools, owned, freePtr, endFree, freeMem, live>>
    PROVE  Inv'
BY DEF Inv, AllocatorTypeOK, NoOverlap, LiveApart, LiveFreeApart, UnusedApart,
       BlocksInPools, UnusedInPool, NoEmptyBlocks

-----------------------------------------------------------------------------
(* The invariant *)

LEMMA InitInv == InitAllocator => Inv
<1>1. SUFFICES ASSUME InitAllocator PROVE Inv
  OBVIOUS
<1>2. PICK p \in Pools : pools = <<p>> /\ owned = {p} /\ freePtr = Base[p] /\ endFree = PoolEnd(p)
  BY <1>1 DEF InitAllocator
<1>3. freeMem = Lists!NewArray(FreeLists) /\ live = {} /\ status = "ok"
  BY <1>1 DEF InitAllocator
<1>4. /\ IsArray(freeMem)
      /\ \A v \in 0 .. freeMem.capa - 1 : freeMem.data[v] = <<>>
      /\ freeMem.data[0] = <<>>
  BY <1>3, EmptyArrays DEF IsArray
<1>5. Base[p] \in Nat /\ PoolEnd(p) \in Nat
  BY PoolsAssumption DEF PoolEnd
<1>6. AllocatorTypeOK
  BY <1>2, <1>3, <1>4, <1>5 DEF AllocatorTypeOK
<1>7. NoOverlap /\ BlocksInPools
  BY <1>3, <1>4, NothingInUse
     DEF NoOverlap, LiveApart, LiveFreeApart, UnusedApart, BlocksInPools
<1>8. UnusedInPool
  BY <1>2, <1>5 DEF UnusedInPool
<1>9. QED  BY <1>4, <1>6, <1>7, <1>8 DEF Inv, NoEmptyBlocks

LEMMA NextInv ==
    ASSUME SizesFit, Inv, [NextAllocator]_allocatorVars
    PROVE  Inv'
<1>1. CASE UNCHANGED allocatorVars
  BY <1>1 DEF allocatorVars, Inv, AllocatorTypeOK, NoOverlap, LiveApart, LiveFreeApart, UnusedApart,
              BlocksInPools, UnusedInPool, NoEmptyBlocks
<1>2. CASE NextAllocator
  <2>1. status = "ok"
    BY <1>2 DEF NextAllocator
  <2>2. ASSUME NEW n \in Sizes \ {0}, Allocate(n) PROVE Inv'
    <3>1. CASE AllocateFollowsGarbage(n) \/ AllocateStoresBeyondPool(n)
      BY <2>1, <3>1, WildStep DEF AllocateFollowsGarbage, AllocateStoresBeyondPool
    <3>2. QED  BY <2>1, <2>2, <3>1, FreeListStep, PoolStep, NewPoolStep, ThrowStep DEF Allocate
  <2>3. ASSUME NEW b \in live, Deallocate(b) \/ DeallocateFollowsGarbage(b) PROVE Inv'
    <3>1. CASE DeallocateFollowsGarbage(b)
      BY <2>1, <3>1, WildStep DEF DeallocateFollowsGarbage
    <3>2. QED  BY <2>1, <2>3, <3>1, DeallocateStep
  <2>4. QED
    BY <1>2, <2>1, <2>2, <2>3, ResetStep, DestroyStep DEF NextAllocator
<1>3. QED  BY <1>1, <1>2

(* DataAllocator's memory safety, for requests the precondition admits: in *)
(* every history of allocations (from a list, a pool, a new pool or        *)
(* failing), deallocations and resets, every block handed out or free is   *)
(* inside one linked pool and no word has two owners.                      *)
THEOREM InvariantHolds ==
    ASSUME SizesFit
    PROVE  SpecAllocator => []Inv
<1>1. InitAllocator => Inv
  BY InitInv
<1>2. Inv /\ [NextAllocator]_allocatorVars => Inv'
  BY NextInv
<1>3. QED  BY <1>1, <1>2, PTL DEF SpecAllocator

(* The type invariant. *)
THEOREM TypeCorrect ==
    ASSUME SizesFit
    PROVE  SpecAllocator => []AllocatorTypeOK
<1>1. Inv => AllocatorTypeOK
  BY DEF Inv
<1>2. QED  BY <1>1, InvariantHolds, PTL

(* No word ever has two owners. *)
THEOREM NoOverlapHolds ==
    ASSUME SizesFit
    PROVE  SpecAllocator => []NoOverlap
<1>1. Inv => NoOverlap
  BY DEF Inv
<1>2. QED  BY <1>1, InvariantHolds, PTL

(* Every block lies inside a linked pool. *)
THEOREM BlocksInPoolsHolds ==
    ASSUME SizesFit
    PROVE  SpecAllocator => []BlocksInPools
<1>1. Inv => BlocksInPools
  BY DEF Inv
<1>2. QED  BY <1>1, InvariantHolds, PTL

-----------------------------------------------------------------------------
(* What the assertions of deallocate say, and where garbage can be *)

(* Three more facts about every state: nothing is held once the destructor *)
(* ran; the lists below the initial capacity hold blocks only; freePtr can *)
(* be beyond its pool only when a new may throw.                           *)
NothingHeldAfterwards == status = "destroyed" => live = {}

NoGarbageBelow(f) ==
    /\ FreeLists <= f.capa
    /\ \A v \in 0 .. FreeLists - 1 :
          \A j \in 1 .. Len(f.data[v]) : f.data[v][j] # Wild

PointerWithinPool == ~CanThrow => freePtr <= endFree

HistoryInv ==
    /\ Inv
    /\ NothingHeldAfterwards
    /\ NoGarbageBelow(freeMem)
    /\ PointerWithinPool

LEMMA ElementsOfSeq ==
    ASSUME NEW S, NEW s \in Seq(S)
    PROVE  /\ \A d : \A j \in 1 .. Len(<<d>> \o s) :
                 (<<d>> \o s)[j] = d \/ \E k \in 1 .. Len(s) : (<<d>> \o s)[j] = s[k]
           /\ \A d : 1 \in 1 .. Len(<<d>> \o s) /\ (<<d>> \o s)[1] = d
           /\ s # <<>> => \A j \in 1 .. Len(Tail(s)) :
                 \E k \in 1 .. Len(s) : Tail(s)[j] = s[k]
<1>1. ASSUME NEW d, NEW j \in 1 .. Len(<<d>> \o s)
      PROVE  (<<d>> \o s)[j] = d \/ \E k \in 1 .. Len(s) : (<<d>> \o s)[j] = s[k]
  <2>1. CASE j = 1
    BY <2>1
  <2>2. CASE j # 1
    <3>1. j - 1 \in 1 .. Len(s) /\ (<<d>> \o s)[j] = s[j - 1]
      BY <2>2
    <3>2. QED  BY <3>1
  <2>3. QED  BY <2>1, <2>2
<1>2. ASSUME s # <<>>, NEW j \in 1 .. Len(Tail(s))
      PROVE  \E k \in 1 .. Len(s) : Tail(s)[j] = s[k]
  <2>1. j + 1 \in 1 .. Len(s) /\ Tail(s)[j] = s[j + 1]
    BY <1>2
  <2>2. QED  BY <2>1
<1>3. \A d : 1 \in 1 .. Len(<<d>> \o s) /\ (<<d>> \o s)[1] = d
  OBVIOUS
<1>4. QED  BY <1>1, <1>2, <1>3

(* Pushing a block and popping a list bring no garbage below the initial   *)
(* capacity: a growth adds lists at the end only.                          *)
LEMMA PushedNoGarbage ==
    ASSUME NEW f, IsArray(f), NoGarbageBelow(f), NEW i \in Nat, NEW d \in Nat,
           NEW h \in Pushed(f, i, d)
    PROVE  NoGarbageBelow(h)
<1>1. PICK g \in Lists!Grown(f, i) : h = Lists!Stored(g, i, <<d>> \o g.data[i])
  BY DEF Pushed
<1>2. /\ IsArray(g) /\ f.capa <= g.capa /\ i < g.capa
      /\ \A v \in 0 .. f.capa - 1 : g.data[v] = f.data[v]
  BY <1>1, GrownArray
<1>3. /\ f.capa \in Nat /\ g.capa \in Nat /\ FreeLists \in Nat
      /\ h.capa = g.capa
      /\ h.data = [g.data EXCEPT ![i] = <<d>> \o g.data[i]]
      /\ DOMAIN g.data = 0 .. g.capa - 1
  BY <1>1, <1>2, SizesAssumption DEF IsArray, Lists!Stored
<1>4. FreeLists <= h.capa
  BY <1>2, <1>3 DEF NoGarbageBelow
<1>5. ASSUME NEW v \in 0 .. FreeLists - 1, NEW j \in 1 .. Len(h.data[v])
      PROVE  h.data[v][j] # Wild
  <2>1. v \in 0 .. f.capa - 1 /\ v \in 0 .. g.capa - 1
    BY <1>2, <1>3 DEF NoGarbageBelow
  <2>2. g.data[v] = f.data[v] /\ g.data[v] \in Seq(Nat \cup {Wild})
    BY <1>2, <2>1 DEF IsArray
  <2>3. \A k \in 1 .. Len(g.data[v]) : g.data[v][k] # Wild
    BY <2>2 DEF NoGarbageBelow
  <2>4. CASE v = i
    <3>1. h.data[v] = <<d>> \o g.data[v]
      BY <1>3, <2>1, <2>4
    <3>2. d # Wild
      BY SizesAssumption
    <3>3. QED  BY <1>5, <2>2, <2>3, <3>1, <3>2, ElementsOfSeq
  <2>5. CASE v # i
    <3>1. h.data[v] = g.data[v]
      BY <1>3, <2>1, <2>5
    <3>2. QED  BY <1>5, <2>3, <3>1
  <2>6. QED  BY <2>4, <2>5
<1>6. QED  BY <1>4, <1>5 DEF NoGarbageBelow

LEMMA PoppedNoGarbage ==
    ASSUME NEW f, IsArray(f), NoGarbageBelow(f), NEW i \in 0 .. f.capa - 1,
           f.data[i] # <<>>
    PROVE  NoGarbageBelow(Lists!Stored(f, i, Tail(f.data[i])))
<1> DEFINE h == Lists!Stored(f, i, Tail(f.data[i]))
<1>1. /\ h.capa = f.capa /\ f.capa \in Nat /\ FreeLists \in Nat
      /\ h.data = [f.data EXCEPT ![i] = Tail(f.data[i])]
      /\ DOMAIN f.data = 0 .. f.capa - 1
      /\ FreeLists <= f.capa
  BY SizesAssumption DEF IsArray, Lists!Stored, NoGarbageBelow
<1> HIDE DEF h
<1>2. ASSUME NEW v \in 0 .. FreeLists - 1, NEW j \in 1 .. Len(h.data[v])
      PROVE  h.data[v][j] # Wild
  <2>1. v \in 0 .. f.capa - 1
    BY <1>1
  <2>2. f.data[v] \in Seq(Nat \cup {Wild})
    BY <2>1 DEF IsArray
  <2>0. \A k \in 1 .. Len(f.data[v]) : f.data[v][k] # Wild
    BY DEF NoGarbageBelow
  <2>3. CASE v = i
    <3>1. h.data[v] = Tail(f.data[v]) /\ f.data[v] # <<>>
      BY <1>1, <2>1, <2>3
    <3>2. \A k \in 1 .. Len(Tail(f.data[v])) : \E m \in 1 .. Len(f.data[v]) :
             Tail(f.data[v])[k] = f.data[v][m]
      BY <2>2, <3>1, ElementsOfSeq
    <3>3. QED  BY <1>2, <2>0, <3>1, <3>2
  <2>4. CASE v # i
    <3>1. h.data[v] = f.data[v]
      BY <1>1, <2>1, <2>4
    <3>2. QED  BY <1>2, <2>0, <3>1
  <2>5. QED  BY <2>3, <2>4
<1>3. NoGarbageBelow(h)
  BY <1>1, <1>2 DEF NoGarbageBelow
<1>4. QED  BY <1>3 DEF h

LEMMA LeftoverNoGarbage ==
    ASSUME Inv, NoGarbageBelow(freeMem), freePtr <= endFree, StoreLeftover
    PROVE  NoGarbageBelow(freeMem')
<1>1. freePtr \in Nat /\ endFree - freePtr \in Nat /\ IsArray(freeMem)
  BY DEF Inv, AllocatorTypeOK
<1>2. arch_size(endFree - freePtr) \in Nat
  BY <1>1, ArchSize
<1>3. freeMem' = freeMem \/ freeMem' \in Pushed(freeMem, arch_size(endFree - freePtr), freePtr)
  BY DEF StoreLeftover
<1>4. QED  BY <1>1, <1>2, <1>3, PushedNoGarbage

LEMMA EmptyNoGarbage ==
    ASSUME NEW f, FreeLists <= f.capa, f.capa \in Nat,
           \A v \in 0 .. f.capa - 1 : f.data[v] = <<>>
    PROVE  NoGarbageBelow(f)
<1>1. FreeLists \in Nat
  BY SizesAssumption
<1>2. ASSUME NEW v \in 0 .. FreeLists - 1 PROVE f.data[v] = <<>>
  <2>1. v \in 0 .. f.capa - 1
    BY <1>1
  <2>2. QED  BY <2>1
<1>3. QED  BY <1>2 DEF NoGarbageBelow

LEMMA HistoryInit == InitAllocator => HistoryInv
<1>1. SUFFICES ASSUME InitAllocator PROVE HistoryInv
  OBVIOUS
<1>2. PICK p \in Pools : freePtr = Base[p] /\ endFree = PoolEnd(p)
  BY <1>1 DEF InitAllocator
<1>3. freeMem = Lists!NewArray(FreeLists) /\ live = {}
  BY <1>1 DEF InitAllocator
<1>4. freePtr <= endFree
  <2>1. Base[p] \in Nat /\ ChunkSize \in Nat
    BY PoolsAssumption
  <2>2. QED  BY <1>2, <2>1 DEF PoolEnd
<1>5. NoGarbageBelow(freeMem)
  <2>1. freeMem.capa = FreeLists /\ FreeLists \in Nat
    BY <1>3, SizesAssumption DEF Lists!NewArray
  <2>2. QED  BY <1>3, <2>1, EmptyArrays, EmptyNoGarbage
<1>6. QED
  BY <1>1, <1>3, <1>4, <1>5, InitInv DEF HistoryInv, NothingHeldAfterwards, PointerWithinPool

LEMMA HistoryAllocate ==
    ASSUME SizesFit, HistoryInv, status = "ok", NEW n \in Sizes \ {0}, Allocate(n)
    PROVE  /\ status' # "destroyed"
           /\ NoGarbageBelow(freeMem')
           /\ PointerWithinPool'
<1>1. Inv /\ IsArray(freeMem) /\ NoGarbageBelow(freeMem)
  BY DEF HistoryInv, Inv, AllocatorTypeOK
<1>2. CASE AllocateFromFreeList(n)
  <2> DEFINE w == BlockWords(n)
  <2>1. w \in 0 .. freeMem.capa - 1 /\ FreeList(w) = freeMem.data[w]
    BY <1>1, <1>2, BlockWordsPositive DEF AllocateFromFreeList, FreeList, Lists!ArrayGet, IsArray
  <2>2. /\ freeMem.data[w] # <<>>
        /\ freeMem' = Lists!Stored(freeMem, w, Tail(freeMem.data[w]))
        /\ UNCHANGED <<freePtr, endFree, status>>
    BY <1>2, <2>1 DEF AllocateFromFreeList
  <2>3. NoGarbageBelow(freeMem')
    BY <1>1, <2>1, <2>2, PoppedNoGarbage
  <2>4. QED  BY <2>2, <2>3 DEF HistoryInv, PointerWithinPool
<1>3. CASE AllocateFollowsGarbage(n) \/ AllocateStoresBeyondPool(n)
  BY <1>1, <1>3 DEF AllocateFollowsGarbage, AllocateStoresBeyondPool, HistoryInv, PointerWithinPool
<1>4. CASE AllocateFromPool(n)
  BY <1>1, <1>4 DEF AllocateFromPool, PointerWithinPool
<1>5. CASE AllocateFromNewPool(n)
  <2>1. PICK p \in Pools : /\ freePtr' = Base[p] + BlockWords(n)
                           /\ endFree' = PoolEnd(p)
    BY <1>5 DEF AllocateFromNewPool
  <2>2. Base[p] \in Nat /\ ChunkSize \in Nat /\ BlockWords(n) \in Nat
    BY PoolsAssumption, BlockWordsPositive
  <2>3. BlockWords(n) <= ChunkSize
    BY DEF SizesFit
  <2>4. freePtr' <= endFree'
    BY <2>1, <2>2, <2>3 DEF PoolEnd
  <2>5. NoGarbageBelow(freeMem')
    BY <1>1, <1>5, LeftoverNoGarbage DEF AllocateFromNewPool
  <2>6. QED  BY <1>5, <2>4, <2>5 DEF AllocateFromNewPool, PointerWithinPool
<1>6. CASE AllocateThrows(n)
  <2>1. CanThrow /\ status' = status
    BY <1>6 DEF AllocateThrows
  <2>2. NoGarbageBelow(freeMem')
    BY <1>1, <1>6, LeftoverNoGarbage DEF AllocateThrows
  <2>3. QED  BY <2>1, <2>2 DEF PointerWithinPool
<1>7. QED  BY <1>2, <1>3, <1>4, <1>5, <1>6 DEF Allocate

LEMMA HistoryNext ==
    ASSUME SizesFit, HistoryInv, [NextAllocator]_allocatorVars
    PROVE  HistoryInv'
<1>1. Inv'
  BY NextInv DEF HistoryInv
<1>2. CASE UNCHANGED allocatorVars
  BY <1>1, <1>2 DEF allocatorVars, HistoryInv, NothingHeldAfterwards, NoGarbageBelow, PointerWithinPool
<1>3. CASE NextAllocator
  <2>1. status = "ok" /\ IsArray(freeMem) /\ NoGarbageBelow(freeMem) /\ Inv
    BY <1>3 DEF NextAllocator, HistoryInv, Inv, AllocatorTypeOK
  <2>2. ASSUME NEW n \in Sizes \ {0}, Allocate(n) PROVE HistoryInv'
    BY <1>1, <2>1, <2>2, HistoryAllocate DEF HistoryInv, NothingHeldAfterwards
  <2>3. ASSUME NEW b \in live, Deallocate(b) PROVE HistoryInv'
    <3>1. b.data \in Nat /\ BlockWords(b.ints) \in Nat /\ freePtr \in Nat /\ endFree \in Nat
      BY <2>1, BlockWordsPositive DEF Inv, AllocatorTypeOK
    <3>2. NoGarbageBelow(freeMem')
      BY <2>1, <2>3, <3>1, PushedNoGarbage DEF Deallocate
    <3>3. endFree' = endFree /\ status' = status /\ freePtr' <= freePtr
      <4>1. CASE b.data + BlockWords(b.ints) = freePtr
        <5>1. freePtr' = b.data
          BY <2>3, <4>1 DEF Deallocate
        <5>2. QED  BY <2>3, <3>1, <4>1, <5>1 DEF Deallocate
      <4>2. CASE b.data + BlockWords(b.ints) # freePtr
        BY <2>3, <3>1, <4>2 DEF Deallocate
      <4>3. QED  BY <4>1, <4>2
    <3>4. freePtr' \in Nat
      BY <1>1 DEF Inv, AllocatorTypeOK
    <3>5. PointerWithinPool'
      BY <3>1, <3>3, <3>4 DEF HistoryInv, PointerWithinPool
    <3>6. QED  BY <1>1, <2>1, <3>2, <3>3, <3>5 DEF HistoryInv, NothingHeldAfterwards
  <2>4. ASSUME ResetAllocator PROVE HistoryInv'
    <3>1. freePtr' = Base[Head(pools)] /\ endFree' = PoolEnd(Head(pools)) /\ live' = {}
      BY <2>4 DEF ResetAllocator, StartOf
    <3>2. Base[Head(pools)] \in Nat /\ ChunkSize \in Nat
      BY <2>1, PoolFacts DEF Inv
    <3>3. freePtr' <= endFree'
      BY <3>1, <3>2 DEF PoolEnd
    <3>4. NoGarbageBelow(freeMem')
      <4>1. freeMem' = Lists!Cleared(freeMem)
        BY <2>4 DEF ResetAllocator
      <4>2. freeMem'.capa = freeMem.capa /\ freeMem.capa \in Nat
        BY <2>1, <4>1 DEF Lists!Cleared, IsArray
      <4>3. FreeLists <= freeMem.capa
        BY <2>1 DEF NoGarbageBelow
      <4>4. QED  BY <2>1, <4>1, <4>2, <4>3, EmptyArrays, EmptyNoGarbage
    <3>5. QED
      BY <1>1, <3>1, <3>3, <3>4 DEF HistoryInv, NothingHeldAfterwards, PointerWithinPool
  <2>5. ASSUME Destroy PROVE HistoryInv'
    BY <1>1, <2>5 DEF Destroy, HistoryInv, NothingHeldAfterwards, NoGarbageBelow, PointerWithinPool
  <2>6. ASSUME NEW b \in live, DeallocateFollowsGarbage(b) PROVE HistoryInv'
    BY <1>1, <2>6 DEF DeallocateFollowsGarbage, HistoryInv, NothingHeldAfterwards, NoGarbageBelow,
                      PointerWithinPool
  <2>7. QED  BY <1>3, <2>2, <2>3, <2>4, <2>5, <2>6 DEF NextAllocator
<1>4. QED  BY <1>2, <1>3

(* In every history: nothing is held after the destructor, the lists of    *)
(* the initial table hold only blocks, and without failing news freePtr    *)
(* never leaves its pool.                                                  *)
THEOREM HistoryInvariantHolds ==
    ASSUME SizesFit
    PROVE  SpecAllocator => []HistoryInv
<1>1. InitAllocator => HistoryInv
  BY HistoryInit
<1>2. HistoryInv /\ [NextAllocator]_allocatorVars => HistoryInv'
  BY HistoryNext
<1>3. QED  BY <1>1, <1>2, PTL DEF SpecAllocator

(* A caller whose blocks fit the initial table of free lists never follows *)
(* an uninitialised pointer, however often the table grew for leftovers.   *)
THEOREM GarbageOnlyInGrownListsHolds ==
    ASSUME SizesFit
    PROVE  SpecAllocator => []GarbageOnlyInGrownLists
<1>1. HistoryInv => GarbageOnlyInGrownLists
  <2>1. ASSUME HistoryInv, NEW w \in 0 .. FreeLists - 1, w \in ListIndices,
               NEW j \in 1 .. Len(FreeList(w))
        PROVE  FreeList(w)[j] # Wild
    <3>1. freeMem.capa \in Nat
      BY <2>1 DEF HistoryInv, Inv, AllocatorTypeOK, IsArray
    <3>2. FreeList(w) = freeMem.data[w]
      BY <2>1, <3>1 DEF ListIndices, FreeList, Lists!ArrayGet
    <3>3. QED  BY <2>1, <3>2 DEF HistoryInv, NoGarbageBelow
  <2>2. QED  BY <2>1 DEF GarbageOnlyInGrownLists
<1>2. QED  BY <1>1, HistoryInvariantHolds, PTL

(* A block found on a free list of its own size would overlap itself. *)
LEMMA NotOnItsList ==
    ASSUME Inv, NEW d \in Nat, NEW w \in Nat \ {0}, ApartFromFree(freeMem, d, w)
    PROVE  ~OnList(d, w)
<1>1. SUFFICES ASSUME NEW j \in 1 .. Len(FreeList(w)), FreeList(w)[j] = d
               PROVE  FALSE
  BY DEF OnList
<1>2. freeMem.capa \in Nat
  BY DEF Inv, AllocatorTypeOK, IsArray
<1>3. w < freeMem.capa
  <2>1. Len(<<>>) = 0
    OBVIOUS
  <2>2. QED  BY <1>1, <2>1 DEF FreeList, Lists!ArrayGet
<1>4. w \in 0 .. freeMem.capa - 1 /\ FreeList(w) = freeMem.data[w]
  BY <1>2, <1>3 DEF FreeList, Lists!ArrayGet
<1>5. d # Wild
  BY SizesAssumption
<1>6. Apart(d, w, d, w)
  BY <1>1, <1>4, <1>5 DEF ApartFromFree
<1>7. QED  BY <1>6 DEF Apart

(* deallocate's first assertion, in every history: a block that is held    *)
(* was cut from a linked pool, in front of freePtr when it is the current  *)
(* one, and is not on the list of its size, so the assertion is true if    *)
(* the search of that list ends; it does end, without reading memory that  *)
(* nobody initialised, if the list is one of the initial table.            *)
THEOREM LiveBlocksAreInPoolsHolds ==
    ASSUME SizesFit
    PROVE  SpecAllocator => []LiveBlocksAreInPools
<1>1. ASSUME HistoryInv, NEW b \in live
      PROVE  HasInPools(b.data, BlockWords(b.ints))
  <2> DEFINE d == b.data
             w == BlockWords(b.ints)
  <2>1. /\ Inv /\ AllocatorTypeOK /\ status # "destroyed"
        /\ d \in Nat /\ w \in Nat \ {0}
        /\ freePtr \in Nat /\ endFree \in Nat
    BY <1>1, BlockWordsPositive DEF HistoryInv, NothingHeldAfterwards, Inv, AllocatorTypeOK
  <2>2. PICK i \in 1 .. Len(pools) : Base[pools[i]] <= d /\ d + w <= PoolEnd(pools[i])
    BY <2>1 DEF Inv, BlocksInPools, InPools
  <2>3. /\ pools[i] \in Pools /\ PoolEnd(pools[i]) \in Nat
        /\ Head(pools) = pools[1] /\ endFree = PoolEnd(Head(pools))
    BY <2>1, PoolFacts DEF Inv, UnusedInPool
  <2>4. ~OnList(d, w)
    BY <2>1, NotOnItsList DEF Inv, NoOverlap, LiveFreeApart
  <2>5. freePtr <= endFree => Apart(d, w, freePtr, endFree - freePtr)
    BY <2>1 DEF Inv, NoOverlap, UnusedApart
  <2> HIDE DEF d, w
  <2>6. d < PoolEnd(pools[i])
    BY <2>1, <2>2, <2>3
  <2>7. CASE i = 1
    <3>1. Base[Head(pools)] <= d /\ d + w <= endFree
      BY <2>2, <2>3, <2>7
    <3>2. d < freePtr
      BY <2>1, <2>5, <3>1 DEF Apart
    <3>3. HasInPools(d, w)
      BY <2>4, <3>1, <3>2 DEF HasInPools, InLinkedPool
    <3>4. QED  BY <3>3 DEF d, w
  <2>8. CASE i # 1
    <3>1. i \in 2 .. Len(pools)
      BY <2>8
    <3>2. HasInPools(d, w)
      BY <2>2, <2>4, <2>6, <3>1 DEF HasInPools, InLinkedPool
    <3>3. QED  BY <3>2 DEF d, w
  <2>9. QED  BY <2>7, <2>8
<1>2. ASSUME HistoryInv, NEW w \in Nat, w < FreeLists
      PROVE  ~OnList(Wild, w)
  <2>1. w \in 0 .. FreeLists - 1 /\ IsArray(freeMem) /\ NoGarbageBelow(freeMem)
    BY <1>2, SizesAssumption DEF HistoryInv, Inv, AllocatorTypeOK
  <2>2. FreeList(w) = freeMem.data[w]
    <3>1. freeMem.capa \in Nat /\ FreeLists <= freeMem.capa /\ FreeLists \in Nat
      BY <2>1, SizesAssumption DEF NoGarbageBelow, IsArray
    <3>2. w < freeMem.capa
      BY <1>2, <3>1
    <3>3. QED  BY <3>2 DEF FreeList, Lists!ArrayGet
  <2>3. QED  BY <2>1, <2>2 DEF OnList, NoGarbageBelow
<1>3. ASSUME HistoryInv, NEW b \in live PROVE BlockWords(b.ints) \in Nat
  BY <1>3, BlockWordsPositive DEF HistoryInv, Inv, AllocatorTypeOK
<1>4. ASSUME HistoryInv, NEW b \in live
      PROVE  LET w == BlockWords(b.ints)
             IN  /\ w < FreeLists => ~SearchReadsGarbage(b.data, w)
                 /\ ~SearchReadsGarbage(b.data, w) => HasInPools(b.data, w)
  <2>1. HasInPools(b.data, BlockWords(b.ints)) /\ BlockWords(b.ints) \in Nat
    BY <1>1, <1>3, <1>4
  <2>2. BlockWords(b.ints) < FreeLists => ~OnList(Wild, BlockWords(b.ints))
    BY <1>2, <1>4, <2>1
  <2>3. QED  BY <2>1, <2>2 DEF SearchReadsGarbage
<1>5. HistoryInv => LiveBlocksAreInPools
  BY <1>4 DEF LiveBlocksAreInPools
<1>6. QED  BY <1>5, HistoryInvariantHolds, PTL

(* Without failing news, a block that is merged with the unused end lies   *)
(* in the current pool, so it is in front of freePtr no longer and in no   *)
(* other pool.                                                             *)
LEMMA MergedBlockLeaves ==
    ASSUME Inv, status = "ok", freePtr <= endFree,
           NEW b \in live, b.data + BlockWords(b.ints) = freePtr,
           NEW j \in 2 .. Len(pools)
    PROVE  ~(Base[pools[j]] <= b.data /\ b.data < PoolEnd(pools[j]))
<1> DEFINE d == b.data
           w == BlockWords(b.ints)
<1>1. /\ d \in Nat /\ w \in Nat \ {0} /\ freePtr \in Nat /\ endFree \in Nat
      /\ d + w = freePtr
  BY BlockWordsPositive DEF Inv, AllocatorTypeOK
<1>2. PICK i \in 1 .. Len(pools) : Base[pools[i]] <= d /\ d + w <= PoolEnd(pools[i])
  BY DEF Inv, BlocksInPools, InPools
<1>3. /\ Head(pools) = pools[1] /\ 1 \in 1 .. Len(pools)
      /\ endFree = PoolEnd(pools[1]) /\ Base[pools[1]] <= freePtr
  BY PoolFacts DEF Inv, UnusedInPool
<1>4. /\ pools[1] \in Pools /\ pools[i] \in Pools /\ pools[j] \in Pools
      /\ j \in 1 .. Len(pools) /\ pools[j] # pools[1]
  BY <1>3 DEF Inv, AllocatorTypeOK
<1>5. \A p \in Pools : Base[p] \in Nat /\ ChunkSize \in Nat /\ PoolEnd(p) = Base[p] + ChunkSize
  BY PoolsAssumption DEF PoolEnd
<1> HIDE DEF d, w
<1>6. pools[i] = pools[1]
  <2>1. SUFFICES ASSUME pools[i] # pools[1] PROVE FALSE
    OBVIOUS
  <2>2. \/ Base[pools[i]] + ChunkSize < Base[pools[1]]
        \/ Base[pools[1]] + ChunkSize < Base[pools[i]]
    BY <1>4, <2>1, PoolsAssumption
  <2> DEFINE x == Base[pools[i]]
             y == Base[pools[1]]
  <2>3. /\ x \in Nat /\ y \in Nat /\ ChunkSize \in Nat
        /\ d + w <= x + ChunkSize /\ x <= d
        /\ endFree = y + ChunkSize /\ y <= freePtr
    BY <1>2, <1>3, <1>4, <1>5
  <2>4. x + ChunkSize < y \/ y + ChunkSize < x
    BY <2>2
  <2> HIDE DEF x, y
  <2>5. QED  BY <1>1, <2>3, <2>4
<1>7. \/ Base[pools[j]] + ChunkSize < Base[pools[1]]
      \/ Base[pools[1]] + ChunkSize < Base[pools[j]]
  BY <1>4, PoolsAssumption
<1>8. ~(Base[pools[j]] <= d /\ d < PoolEnd(pools[j]))
  BY <1>1, <1>2, <1>4, <1>5, <1>6, <1>7
<1>9. QED  BY <1>8 DEF d

(* deallocate's second assertion.  It needs that no new fails: afterwards  *)
(* freePtr can be beyond its pool, and a block of another pool that ends   *)
(* there is merged, which is a state the assertion calls impossible.       *)
THEOREM FreedBlocksAreNotInPoolsHolds ==
    ASSUME SizesFit, ~CanThrow
    PROVE  SpecAllocator => FreedBlocksAreNotInPools
<1>1. ASSUME HistoryInv, status = "ok", NEW b \in live, Deallocate(b)
      PROVE  ~HasInPools(b.data, BlockWords(b.ints))'
  <2> DEFINE d == b.data
             w == BlockWords(b.ints)
  <2>1. /\ Inv /\ freePtr <= endFree
        /\ d \in Nat /\ w \in Nat \ {0} /\ IsArray(freeMem)
        /\ pools' = pools
    BY <1>1, BlockWordsPositive DEF HistoryInv, PointerWithinPool, Inv, AllocatorTypeOK, Deallocate
  <2>2. CASE d + w = freePtr
    <3>1. freePtr' = d
      BY <1>1, <2>2 DEF Deallocate
    <3>2. \A j \in 2 .. Len(pools) : ~(Base[pools[j]] <= d /\ d < PoolEnd(pools[j]))
      BY <1>1, <2>1, <2>2, MergedBlockLeaves
    <3>3. ~(d < freePtr')
      BY <2>1, <3>1
    <3>4. QED  BY <2>1, <3>2, <3>3 DEF HasInPools, InLinkedPool
  <2>3. CASE d + w # freePtr
    <3>1. freeMem' \in Pushed(freeMem, w, d)
      BY <1>1, <2>3 DEF Deallocate
    <3>2. PICK g \in Lists!Grown(freeMem, w) : freeMem' = Lists!Stored(g, w, <<d>> \o g.data[w])
      BY <3>1 DEF Pushed
    <3>3. IsArray(g) /\ w \in 0 .. g.capa - 1
      BY <2>1, <3>2, GrownArray DEF IsArray
    <3>4. g.data[w] \in Seq(Nat \cup {Wild})
      BY <3>3 DEF IsArray
    <3>5. FreeList(w)' = <<d>> \o g.data[w]
      BY <3>2, <3>3 DEF FreeList, Lists!ArrayGet, Lists!Stored, IsArray
    <3>6. 1 \in 1 .. Len(FreeList(w)') /\ FreeList(w)'[1] = d
      BY <3>4, <3>5, ElementsOfSeq
    <3>7. QED  BY <3>6 DEF HasInPools, OnList
  <2>4. QED  BY <2>2, <2>3
<1>2. ASSUME HistoryInv, [NextAllocator]_allocatorVars
      PROVE  [\A b \in live : Deallocate(b) => ~HasInPools(b.data, BlockWords(b.ints))']_allocatorVars
  <2>1. CASE UNCHANGED allocatorVars
    BY <2>1
  <2>2. CASE NextAllocator
    <3>1. status = "ok"
      BY <2>2 DEF NextAllocator
    <3>2. QED  BY <1>1, <1>2, <3>1
  <2>3. QED  BY <1>2, <2>1, <2>2
<1>3. QED  BY <1>2, HistoryInvariantHolds, PTL DEF SpecAllocator, FreedBlocksAreNotInPools

-----------------------------------------------------------------------------
(* Refinement of Allocator *)

Block(b) == [data |-> b.data, words |-> BlockWords(b.ints)]
LiveBlocks == {Block(b) : b \in live}

(* Two blocks that are held differ as blocks: they are apart. *)
LEMMA LiveBlocksDiffer ==
    ASSUME Inv, NEW b \in live, NEW c \in live, b # c
    PROVE  /\ Block(b) # Block(c)
           /\ Blocks!Cells(Block(b)) \cap Blocks!Cells(Block(c)) = {}
<1>1. /\ b.data \in Nat /\ BlockWords(b.ints) \in Nat \ {0}
      /\ c.data \in Nat /\ BlockWords(c.ints) \in Nat \ {0}
  BY BlockWordsPositive DEF Inv, AllocatorTypeOK
<1>2. Apart(b.data, BlockWords(b.ints), c.data, BlockWords(c.ints))
  BY DEF Inv, NoOverlap, LiveApart
<1>3. /\ Block(b).data = b.data /\ Block(b).words = BlockWords(b.ints)
      /\ Block(c).data = c.data /\ Block(c).words = BlockWords(c.ints)
  BY DEF Block
<1>4. Block(b) # Block(c)
  BY <1>1, <1>2, <1>3 DEF Apart
<1>5. Blocks!Cells(Block(b)) \cap Blocks!Cells(Block(c)) = {}
  BY <1>1, <1>2, <1>3 DEF Blocks!Cells, Apart
<1>6. QED  BY <1>4, <1>5

(* Handing out a block that was not held is an Allocate of the abstract    *)
(* allocator: the invariant of the new state says the block fits.          *)
LEMMA AllocateImplements ==
    ASSUME Inv, Inv', status' # "destroyed", PoolCells \subseteq PoolCells',
           NEW b, b \notin live, live' = live \cup {b}
    PROVE  Blocks!Allocate
<1>1. b.data \in Nat /\ BlockWords(b.ints) \in Nat \ {0} /\ b \in live'
  BY BlockWordsPositive DEF Inv, AllocatorTypeOK
<1>2. \A c \in live : /\ Block(b) # Block(c)
                      /\ Blocks!Cells(Block(b)) \cap Blocks!Cells(Block(c)) = {}
  <2>1. ASSUME NEW c \in live
        PROVE  /\ Block(b) # Block(c)
               /\ Blocks!Cells(Block(b)) \cap Blocks!Cells(Block(c)) = {}
    <3>1. c \in live' /\ c # b
      OBVIOUS
    <3>2. /\ b.data \in Nat /\ BlockWords(b.ints) \in Nat \ {0}
          /\ c.data \in Nat /\ BlockWords(c.ints) \in Nat \ {0}
      BY <1>1, BlockWordsPositive DEF Inv, AllocatorTypeOK
    <3>3. Apart(b.data, BlockWords(b.ints), c.data, BlockWords(c.ints))
      BY <1>1, <3>1 DEF Inv, NoOverlap, LiveApart
    <3>4. /\ Block(b).data = b.data /\ Block(b).words = BlockWords(b.ints)
          /\ Block(c).data = c.data /\ Block(c).words = BlockWords(c.ints)
      BY DEF Block
    <3>5. Block(b) # Block(c)
      BY <3>2, <3>3, <3>4 DEF Apart
    <3>6. Blocks!Cells(Block(b)) \cap Blocks!Cells(Block(c)) = {}
      BY <3>2, <3>3, <3>4 DEF Blocks!Cells, Apart
    <3>7. QED  BY <3>5, <3>6
  <2>2. QED  BY <2>1
<1>3. LiveBlocks' = LiveBlocks \cup {Block(b)}
  BY DEF LiveBlocks
<1>4. Block(b) \in LiveBlocks' \ LiveBlocks
  BY <1>2, <1>3 DEF LiveBlocks
<1>5. Blocks!Cells(Block(b)) \subseteq PoolCells'
  <2>1. InPools(pools', b.data, BlockWords(b.ints))
    BY <1>1 DEF Inv, BlocksInPools
  <2>2. PICK i \in 1 .. Len(pools') : /\ Base[pools'[i]] <= b.data
                                      /\ b.data + BlockWords(b.ints) <= PoolEnd(pools'[i])
    BY <2>1 DEF InPools
  <2>3. Base[pools'[i]] \in Nat /\ PoolEnd(pools'[i]) \in Nat
    BY PoolsAssumption DEF Inv, AllocatorTypeOK, PoolEnd
  <2>4. Blocks!Cells(Block(b)) \subseteq Base[pools'[i]] .. (PoolEnd(pools'[i]) - 1)
    BY <1>1, <2>2, <2>3 DEF Blocks!Cells, Block
  <2>5. QED  BY <2>4 DEF PoolCells
<1>6. Block(b).words > 0
  BY <1>1 DEF Block
<1>7. \A c \in LiveBlocks : Blocks!Cells(Block(b)) \cap Blocks!Cells(c) = {}
  BY <1>2 DEF LiveBlocks
<1>8. QED
  BY <1>3, <1>4, <1>5, <1>6, <1>7 DEF Blocks!Allocate, LiveBlocks, Block

(* No way of handing out a block hands out one that is held already. *)
LEMMA FreshFromList ==
    ASSUME Inv, NEW n \in Sizes \ {0}, AllocateFromFreeList(n)
    PROVE  \E b : b \notin live /\ live' = live \cup {b}
<1> DEFINE w == BlockWords(n)
           d == Head(freeMem.data[w])
           b == [data |-> d, ints |-> n]
<1>1. w \in Nat \ {0}
  BY BlockWordsPositive
<1>2. w \in 0 .. freeMem.capa - 1 /\ FreeList(w) = freeMem.data[w] /\ IsArray(freeMem)
  BY <1>1 DEF AllocateFromFreeList, FreeList, Lists!ArrayGet, Inv, AllocatorTypeOK, IsArray
<1>3. freeMem.data[w] # <<>> /\ d # Wild /\ live' = live \cup {b}
  BY <1>2 DEF AllocateFromFreeList, HandOut
<1>4. /\ d \in Nat /\ 1 \in 1 .. Len(freeMem.data[w])
      /\ freeMem.data[w][1] = d
  BY <1>2, <1>3 DEF IsArray
<1>5. ASSUME b \in live PROVE FALSE
  <2>1. ApartFromFree(freeMem, d, w)
    BY <1>5 DEF Inv, NoOverlap, LiveFreeApart
  <2>2. Apart(d, w, d, w)
    BY <1>2, <1>3, <1>4, <2>1 DEF ApartFromFree
  <2>3. QED  BY <1>1, <1>4, <2>2 DEF Apart
<1>6. QED  BY <1>3, <1>5

LEMMA FreshFromPool ==
    ASSUME Inv, NEW n \in Sizes \ {0}, AllocateFromPool(n)
    PROVE  \E b : b \notin live /\ live' = live \cup {b}
<1> DEFINE w == BlockWords(n)
           b == [data |-> freePtr, ints |-> n]
<1>1. w \in Nat \ {0} /\ freePtr \in Nat /\ endFree \in Nat
  BY BlockWordsPositive DEF Inv, AllocatorTypeOK
<1>2. freePtr + w <= endFree /\ live' = live \cup {b}
  BY DEF AllocateFromPool, HandOut
<1>3. ASSUME b \in live PROVE FALSE
  <2>1. freePtr <= endFree
    BY <1>1, <1>2
  <2>2. Apart(freePtr, w, freePtr, endFree - freePtr)
    BY <1>3, <2>1 DEF Inv, NoOverlap, UnusedApart
  <2> HIDE DEF w
  <2>3. QED  BY <1>1, <1>2, <2>2 DEF Apart
<1>4. QED  BY <1>2, <1>3

LEMMA FreshFromNewPool ==
    ASSUME Inv, status = "ok", SizesFit, NEW n \in Sizes \ {0}, AllocateFromNewPool(n)
    PROVE  \E b : b \notin live /\ live' = live \cup {b}
<1> DEFINE w == BlockWords(n)
<1>1. PICK p \in Pools \ owned : live' = live \cup {[data |-> Base[p], ints |-> n]}
  BY DEF AllocateFromNewPool, HandOut
<1> DEFINE b == [data |-> Base[p], ints |-> n]
<1>2. w \in Nat \ {0} /\ w <= ChunkSize /\ Base[p] \in Nat /\ PoolEnd(p) = Base[p] + ChunkSize
  BY BlockWordsPositive, PoolsAssumption DEF SizesFit, PoolEnd
<1>3. ASSUME b \in live PROVE FALSE
  <2>1. b.data = Base[p] /\ b.ints = n
    OBVIOUS
  <2>2. InPools(pools, Base[p], w) /\ AllocatorTypeOK
    BY <1>3, <2>1 DEF Inv, BlocksInPools
  <2> HIDE DEF w
  <2>3. Base[p] <= Base[p] /\ Base[p] + w <= PoolEnd(p) /\ w \in Int
    BY <1>2, PoolsAssumption
  <2>4. Apart(Base[p], w, Base[p], w)
    BY <1>2, <2>2, <2>3, OtherPool
  <2>5. QED  BY <1>2, <2>4 DEF Apart
<1>4. QED  BY <1>1, <1>3

LEMMA PoolCellsGrow ==
    ASSUME Inv, NEW n \in Sizes \ {0}, AllocateFromNewPool(n)
    PROVE  PoolCells \subseteq PoolCells'
<1>1. PICK p \in Pools : pools' = <<p>> \o pools
  BY DEF AllocateFromNewPool
<1>2. \A i \in 1 .. Len(pools) : i + 1 \in 1 .. Len(pools') /\ pools'[i + 1] = pools[i]
  BY <1>1 DEF Inv, AllocatorTypeOK
<1>3. QED  BY <1>2 DEF PoolCells

LEMMA DeallocateImplements ==
    ASSUME Inv, NEW b \in live, Deallocate(b)
    PROVE  Blocks!Deallocate
<1>1. live' = live \ {b} /\ pools' = pools
  BY DEF Deallocate
<1>2. LiveBlocks' = LiveBlocks \ {Block(b)} /\ Block(b) \in LiveBlocks
  BY <1>1, LiveBlocksDiffer DEF LiveBlocks
<1>3. PoolCells' = PoolCells
  BY <1>1 DEF PoolCells
<1>4. QED  BY <1>2, <1>3 DEF Blocks!Deallocate, LiveBlocks, Block

LEMMA ForfeitImplements ==
    ASSUME Inv, status = "ok", ResetAllocator \/ Destroy
    PROVE  Blocks!Reset
<1>1. live' = {}
  BY DEF ResetAllocator, Destroy
<1>2. PoolCells' \subseteq PoolCells
  <2>1. CASE ResetAllocator
    <3>1. pools' = <<pools[1]>> /\ 1 \in 1 .. Len(pools)
      BY <2>1, PoolFacts DEF Inv, ResetAllocator
    <3>2. \A i \in 1 .. Len(pools') : pools'[i] = pools[1]
      BY <3>1
    <3>3. ASSUME NEW c \in PoolCells' PROVE c \in PoolCells
      <4>1. PICK i \in 1 .. Len(pools') : c \in Base[pools'[i]] .. (PoolEnd(pools'[i]) - 1)
        BY <3>3 DEF PoolCells
      <4>2. c \in Base[pools[1]] .. (PoolEnd(pools[1]) - 1)
        BY <3>2, <4>1
      <4>3. QED  BY <3>1, <4>2 DEF PoolCells
    <3>4. QED  BY <3>3
  <2>2. CASE Destroy
    <3>1. pools' = <<>>
      BY <2>2 DEF Destroy
    <3>2. PoolCells' = {}
      BY <3>1 DEF PoolCells
    <3>3. QED  BY <3>2
  <2>3. QED  BY <2>1, <2>2
<1>3. QED  BY <1>1, <1>2 DEF Blocks!Reset

LEMMA StepImplements ==
    ASSUME SizesFit, Inv, Inv', [NextAllocator]_allocatorVars
    PROVE  [Blocks!Next]_(Blocks!absVars)
<1>1. CASE UNCHANGED allocatorVars
  BY <1>1 DEF allocatorVars, Blocks!absVars, PoolCells
<1>2. CASE NextAllocator
  <2>1. status = "ok"
    BY <1>2 DEF NextAllocator
  <2>2. ASSUME NEW n \in Sizes \ {0}, Allocate(n)
        PROVE  [Blocks!Next]_(Blocks!absVars)
    <3>1. CASE AllocateFromFreeList(n)
      <4>1. status' # "destroyed" /\ PoolCells' = PoolCells
        BY <2>1, <3>1 DEF AllocateFromFreeList, PoolCells
      <4>2. QED  BY <3>1, <4>1, FreshFromList, AllocateImplements DEF Blocks!Next
    <3>2. CASE AllocateFromPool(n)
      <4>1. status' # "destroyed" /\ PoolCells' = PoolCells
        BY <2>1, <3>2 DEF AllocateFromPool, PoolCells
      <4>2. QED  BY <3>2, <4>1, FreshFromPool, AllocateImplements DEF Blocks!Next
    <3>3. CASE AllocateFromNewPool(n)
      <4>1. status' # "destroyed"
        BY <2>1, <3>3 DEF AllocateFromNewPool
      <4>2. QED
        BY <2>1, <3>3, <4>1, PoolCellsGrow, FreshFromNewPool, AllocateImplements DEF Blocks!Next
    <3>4. CASE AllocateThrows(n) \/ AllocateFollowsGarbage(n) \/ AllocateStoresBeyondPool(n)
      <4>1. live' = live /\ pools' = pools
        BY <3>4 DEF AllocateThrows, AllocateFollowsGarbage, AllocateStoresBeyondPool
      <4>2. QED  BY <4>1 DEF Blocks!absVars, PoolCells
    <3>5. QED  BY <2>2, <3>1, <3>2, <3>3, <3>4 DEF Allocate
  <2>3. ASSUME NEW b \in live, Deallocate(b)
        PROVE  [Blocks!Next]_(Blocks!absVars)
    BY <2>3, DeallocateImplements DEF Blocks!Next
  <2>4. ASSUME ResetAllocator \/ Destroy
        PROVE  [Blocks!Next]_(Blocks!absVars)
    BY <2>1, <2>4, ForfeitImplements DEF Blocks!Next
  <2>5. ASSUME NEW b \in live, DeallocateFollowsGarbage(b)
        PROVE  [Blocks!Next]_(Blocks!absVars)
    <3>1. live' = live /\ pools' = pools
      BY <2>5 DEF DeallocateFollowsGarbage
    <3>2. QED  BY <3>1 DEF Blocks!absVars, PoolCells
  <2>6. QED  BY <1>2, <2>2, <2>3, <2>4, <2>5 DEF NextAllocator
<1>3. QED  BY <1>1, <1>2

(* DataAllocator implements the allocator its callers rely on, whatever    *)
(* the pools and sizes, with failing news and with the memory that goes    *)
(* wild after one: such a step is invisible to the callers.                *)
THEOREM Implements ==
    ASSUME SizesFit
    PROVE  SpecAllocator => ImplementsAllocator
<1>1. InitAllocator => Blocks!Init
  BY DEF InitAllocator, Blocks!Init
<1>2. Inv /\ Inv' /\ [NextAllocator]_allocatorVars => [Blocks!Next]_(Blocks!absVars)
  BY StepImplements
<1>3. QED  BY <1>1, <1>2, InvariantHolds, PTL DEF SpecAllocator, ImplementsAllocator, Blocks!Spec

-----------------------------------------------------------------------------
(* Conservation of words *)

(* The blocks of a free list, and the words of those of each list *)
Held(s) == Cardinality({j \in 1 .. Len(s) : s[j] # Wild})
ListWords(f) == [v \in 0 .. f.capa - 1 |-> v * Held(f.data[v])]
BlockSizes == [b \in live |-> BlockWords(b.ints)]

(* Words are in blocks that are held, in blocks that are listed, or unused. *)
WordsConserved ==
    status = "ok" =>
        SumOf(BlockSizes) + SumOf(ListWords(freeMem)) + (endFree - freePtr) = Len(pools) * ChunkSize

(* A table of c lists has one for every block that is asked for. *)
ListsFor(c) == \A n \in Sizes \ {0} : BlockWords(n) < c

WordsInv ==
    /\ HistoryInv
    /\ IsFiniteSet(live)
    /\ WordsConserved
    /\ ListsFor(FreeLists) => freeMem.capa = FreeLists

LEMMA HeldType ==
    ASSUME NEW s \in Seq(Nat \cup {Wild})
    PROVE  /\ IsFiniteSet({j \in 1 .. Len(s) : s[j] # Wild})
           /\ Held(s) \in Nat
           /\ (\A j \in 1 .. Len(s) : s[j] # Wild) => Held(s) = Len(s)
<1>1. Len(s) \in Nat
  OBVIOUS
<1>2. IsFiniteSet(1 .. Len(s)) /\ Cardinality(1 .. Len(s)) = Len(s)
  BY <1>1, FS_Interval
<1>3. IsFiniteSet({j \in 1 .. Len(s) : s[j] # Wild})
  BY <1>2, FS_Subset
<1>4. ASSUME \A j \in 1 .. Len(s) : s[j] # Wild PROVE Held(s) = Len(s)
  <2>1. {j \in 1 .. Len(s) : s[j] # Wild} = 1 .. Len(s)
    BY <1>4
  <2>2. QED  BY <1>2, <2>1 DEF Held
<1>5. QED  BY <1>3, <1>4, FS_CardinalityType DEF Held

LEMMA HeldNothing ==
    /\ \A s : s = <<>> => Held(s) = 0
    /\ \A s : s = <<Wild>> => Held(s) = 0
<1>1. ASSUME NEW s, s = <<>> PROVE {j \in 1 .. Len(s) : s[j] # Wild} = {}
  BY <1>1
<1>2. ASSUME NEW s, s = <<Wild>> PROVE {j \in 1 .. Len(s) : s[j] # Wild} = {}
  BY <1>2
<1>3. QED  BY <1>1, <1>2, FS_EmptySet DEF Held

LEMMA HeldMore ==
    ASSUME NEW s \in Seq(Nat \cup {Wild}), NEW d \in Nat
    PROVE  Held(<<d>> \o s) = Held(s) + 1
<1> DEFINE S == {j \in 1 .. Len(s) : s[j] # Wild}
           t == <<d>> \o s
           T == {k \in 1 .. Len(t) : t[k] # Wild}
           up == [j \in S |-> j + 1]
           U == {up[j] : j \in S}
<1>1. /\ Len(t) = Len(s) + 1 /\ Len(s) \in Nat
      /\ t[1] = d
      /\ \A j \in 1 .. Len(s) : t[j + 1] = s[j]
  OBVIOUS
<1>2. IsFiniteSet(S) /\ Cardinality(S) \in Nat
  BY HeldType DEF Held
<1>3. S \subseteq Nat /\ \A j \in S : up[j] = j + 1
  OBVIOUS
<1>4. T = U \cup {1} /\ 1 \notin U
  <2>1. ASSUME NEW k \in T PROVE k = 1 \/ k \in U
    <3>1. CASE k = 1
      BY <3>1
    <3>2. CASE k # 1
      <4>1. k - 1 \in 1 .. Len(s) /\ (k - 1) + 1 = k
        BY <1>1, <3>2
      <4>2. t[k] = s[k - 1]
        BY <1>1, <4>1
      <4>3. k - 1 \in S /\ up[k - 1] = k
        BY <4>1, <4>2
      <4>4. QED  BY <4>3
    <3>3. QED  BY <3>1, <3>2
  <2>2. ASSUME NEW j \in S PROVE up[j] \in T /\ up[j] # 1
    BY <1>1
  <2>3. 1 \in T
    BY <1>1, SizesAssumption
  <2> HIDE DEF T, up, S
  <2>4. QED  BY <2>1, <2>2, <2>3
<1>5. \A j, k \in S : up[j] = up[k] => j = k
  BY <1>3
<1> HIDE DEF S, T, up
<1>6. IsFiniteSet(U) /\ Cardinality(U) = Cardinality(S)
  BY <1>2, <1>5, ValuesCounted
<1> HIDE DEF U
<1>7. Cardinality(T) = Cardinality(S) + 1
  BY <1>2, <1>4, <1>6, FS_AddElement
<1>8. QED  BY <1>7 DEF Held, S, T

LEMMA HeldLess ==
    ASSUME NEW s \in Seq(Nat \cup {Wild}), s # <<>>, Head(s) # Wild
    PROVE  Held(s) = Held(Tail(s)) + 1
<1>1. Head(s) \in Nat /\ Tail(s) \in Seq(Nat \cup {Wild}) /\ s = <<Head(s)>> \o Tail(s)
  OBVIOUS
<1>2. Held(<<Head(s)>> \o Tail(s)) = Held(Tail(s)) + 1
  BY <1>1, HeldMore
<1>3. QED  BY <1>1, <1>2

LEMMA ListWordsType ==
    ASSUME NEW f, IsArray(f)
    PROVE  /\ IsFiniteSet(0 .. f.capa - 1)
           /\ ListWords(f) \in [0 .. f.capa - 1 -> Nat]
           /\ SumOf(ListWords(f)) \in Nat
<1>1. f.capa \in Nat
  BY DEF IsArray
<1>2. IsFiniteSet(0 .. f.capa - 1)
  BY <1>1, FS_Interval
<1>3. ASSUME NEW v \in 0 .. f.capa - 1 PROVE v * Held(f.data[v]) \in Nat
  <2>1. f.data[v] \in Seq(Nat \cup {Wild})
    BY DEF IsArray
  <2>2. Held(f.data[v]) \in Nat
    BY <2>1, HeldType
  <2>3. v \in Nat
    BY <1>1
  <2> DEFINE k == Held(f.data[v])
  <2>4. k \in Nat
    BY <2>2
  <2> HIDE DEF k
  <2>5. v * k \in Nat
    BY <2>3, <2>4
  <2>6. QED  BY <2>5 DEF k
<1>4. ListWords(f) \in [0 .. f.capa - 1 -> Nat]
  BY <1>3 DEF ListWords
<1>5. QED  BY <1>2, <1>4, UnitsFinite

(* One list changes. *)
LEMMA ListChanged ==
    ASSUME NEW f, IsArray(f), NEW h, IsArray(h), h.capa = f.capa, NEW i \in 0 .. f.capa - 1,
           \A v \in 0 .. f.capa - 1 : v # i => h.data[v] = f.data[v]
    PROVE  SumOf(ListWords(h)) + i * Held(f.data[i]) = SumOf(ListWords(f)) + i * Held(h.data[i])
<1> DEFINE D == 0 .. f.capa - 1
           F == ListWords(f)
           H == ListWords(h)
<1>1. IsFiniteSet(D) /\ F \in [D -> Nat] /\ H \in [D -> Nat] /\ i \in D
  BY ListWordsType
<1>2. F[i] = i * Held(f.data[i]) /\ H[i] = i * Held(h.data[i])
  BY DEF ListWords
<1>3. \A v \in D \ {i} : H[v] = F[v]
  <2>1. TAKE v \in D \ {i}
  <2>2. H[v] = v * Held(h.data[v]) /\ F[v] = v * Held(f.data[v]) /\ h.data[v] = f.data[v]
    BY DEF ListWords
  <2>3. QED  BY <2>2
<1> HIDE DEF D, F, H
<1>4. SumOf(H) + F[i] = SumOf(F) + H[i]
  <2>1. OneChanges(D, F, H, i)
    BY <1>1, <1>3 DEF OneChanges
  <2>2. QED  BY <1>1, <2>1, SumChanged
<1>5. QED  BY <1>2, <1>4 DEF F, H

LEMMA PopTakes ==
    ASSUME NEW f, IsArray(f), NEW i \in 0 .. f.capa - 1,
           f.data[i] # <<>>, Head(f.data[i]) # Wild,
           NEW h, h = Lists!Stored(f, i, Tail(f.data[i]))
    PROVE  SumOf(ListWords(h)) + i = SumOf(ListWords(f))
<1>1. IsArray(h) /\ h.capa = f.capa
  BY PoppedArray
<1>2. f.data[i] \in Seq(Nat \cup {Wild})
  BY DEF IsArray
<1>3. /\ h.data[i] = Tail(f.data[i])
      /\ \A v \in 0 .. f.capa - 1 : v # i => h.data[v] = f.data[v]
  BY DEF Lists!Stored, IsArray
<1>4. Held(f.data[i]) = Held(h.data[i]) + 1 /\ Held(h.data[i]) \in Nat
  <2>1. Tail(f.data[i]) \in Seq(Nat \cup {Wild})
    BY <1>2
  <2>2. Held(f.data[i]) = Held(Tail(f.data[i])) + 1
    BY <1>2, HeldLess
  <2>3. Held(Tail(f.data[i])) \in Nat
    BY <2>1, HeldType
  <2>4. QED  BY <1>3, <2>2, <2>3
<1>5. SumOf(ListWords(h)) + i * Held(f.data[i]) = SumOf(ListWords(f)) + i * Held(h.data[i])
  BY <1>1, <1>3, ListChanged
<1> DEFINE k == Held(h.data[i])
           a == SumOf(ListWords(h))
           b == SumOf(ListWords(f))
<1>6. a \in Nat /\ b \in Nat /\ k \in Nat /\ i \in Nat
  BY <1>1, <1>4, ListWordsType
<1>7. a + i * (k + 1) = b + i * k
  BY <1>4, <1>5
<1> HIDE DEF a, b, k
<1>8. i * (k + 1) = i * k + i /\ i * k \in Nat
  BY <1>6
<1>9. a + i = b
  BY <1>6, <1>7, <1>8
<1>10. QED  BY <1>9 DEF a, b

LEMMA PushAdds ==
    ASSUME NEW f, IsArray(f), NEW i \in Nat, NEW d \in Nat, NEW h \in Pushed(f, i, d)
    PROVE  SumOf(ListWords(h)) = SumOf(ListWords(f)) + i
<1>1. PICK g \in Lists!Grown(f, i) : h = Lists!Stored(g, i, <<d>> \o g.data[i])
  BY DEF Pushed
<1>2. /\ IsArray(g)
      /\ i < g.capa
      /\ f.capa <= g.capa
      /\ \A v \in 0 .. f.capa - 1 : g.data[v] = f.data[v]
      /\ \A v \in f.capa .. g.capa - 1 : g.data[v] \in {<<>>, <<Wild>>}
  BY <1>1, GrownArray
<1>3. SumOf(ListWords(g)) = SumOf(ListWords(f))
  <2> DEFINE D == 0 .. f.capa - 1
             E == 0 .. g.capa - 1
             F == ListWords(f)
             G == ListWords(g)
  <2>1. f.capa \in Nat /\ g.capa \in Nat
    BY <1>2 DEF IsArray
  <2>2. D \subseteq E /\ F \in [D -> Nat] /\ G \in [E -> Nat]
    BY <1>2, <2>1, ListWordsType
  <2>3. \A v \in D : G[v] = F[v]
    <3>1. TAKE v \in D
    <3>2. v \in E /\ g.data[v] = f.data[v]
      BY <1>2, <2>2
    <3>3. G[v] = v * Held(g.data[v]) /\ F[v] = v * Held(f.data[v])
      BY <3>2 DEF ListWords
    <3>4. QED  BY <3>2, <3>3
  <2>4. \A v \in E \ D : G[v] = 0
    <3>1. TAKE v \in E \ D
    <3>2. v \in f.capa .. g.capa - 1 /\ v \in E /\ v \in Nat
      BY <2>1
    <3>3. Held(g.data[v]) = 0
      BY <1>2, <3>2, HeldNothing
    <3>4. G[v] = v * Held(g.data[v])
      BY <3>2 DEF ListWords
    <3>5. v * 0 = 0
      BY <3>2
    <3>6. QED  BY <3>3, <3>4, <3>5
  <2> HIDE DEF D, E, F, G
  <2>5. SumOf(G) = SumOf(F)
    BY <2>2, <2>3, <2>4, SumOfMore
  <2>6. QED  BY <2>5 DEF F, G
<1>4. IsArray(h)
  BY PushedArray
<1>5. i \in 0 .. g.capa - 1 /\ h.capa = g.capa
  BY <1>1, <1>2 DEF IsArray, Lists!Stored
<1>6. g.data[i] \in Seq(Nat \cup {Wild})
  BY <1>2, <1>5 DEF IsArray
<1>7. /\ h.data[i] = <<d>> \o g.data[i]
      /\ \A v \in 0 .. g.capa - 1 : v # i => h.data[v] = g.data[v]
  BY <1>1, <1>2, <1>5 DEF Lists!Stored, IsArray
<1>8. Held(h.data[i]) = Held(g.data[i]) + 1 /\ Held(g.data[i]) \in Nat
  BY <1>6, <1>7, HeldMore, HeldType
<1>9. SumOf(ListWords(h)) + i * Held(g.data[i]) = SumOf(ListWords(g)) + i * Held(h.data[i])
  BY <1>2, <1>4, <1>5, <1>7, ListChanged
<1> DEFINE k == Held(g.data[i])
           a == SumOf(ListWords(h))
           b == SumOf(ListWords(g))
<1>10. a \in Nat /\ b \in Nat /\ k \in Nat
  BY <1>2, <1>4, <1>8, ListWordsType
<1>11. a + i * k = b + i * (k + 1)
  BY <1>8, <1>9
<1> HIDE DEF a, b, k
<1>12. i * (k + 1) = i * k + i /\ i * k \in Nat
  BY <1>10
<1>13. a = b + i
  BY <1>10, <1>11, <1>12
<1>14. QED  BY <1>3, <1>13 DEF a, b

(* The blocks that are held *)
LEMMA SizesType ==
    ASSUME Inv, IsFiniteSet(live)
    PROVE  BlockSizes \in [live -> Nat] /\ SumOf(BlockSizes) \in Nat
<1>1. \A b \in live : BlockWords(b.ints) \in Nat
  BY BlockWordsPositive DEF Inv, AllocatorTypeOK
<1>2. BlockSizes \in [live -> Nat]
  BY <1>1 DEF BlockSizes
<1>3. QED  BY <1>2, UnitsFinite

LEMMA OneMoreHeld ==
    ASSUME Inv, Inv', IsFiniteSet(live), NEW n \in Sizes \ {0}, NEW d,
           \E b : b \notin live /\ live' = live \cup {b}, HandOut(d, n)
    PROVE  IsFiniteSet(live') /\ SumOf(BlockSizes') = SumOf(BlockSizes) + BlockWords(n)
<1> DEFINE b == [data |-> d, ints |-> n]
<1>1. live' = live \cup {b} /\ b \notin live
  BY DEF HandOut
<1>2. IsFiniteSet(live')
  BY <1>1, FS_AddElement
<1>3. BlockSizes \in [live -> Nat] /\ BlockSizes' \in [live \cup {b} -> Nat]
  <2>1. \A c \in live' : BlockWords(c.ints) \in Nat
    BY BlockWordsPositive DEF Inv, AllocatorTypeOK
  <2>2. BlockSizes' \in [live' -> Nat]
    BY <2>1 DEF BlockSizes
  <2>3. QED  BY <1>1, <2>2, SizesType
<1>4. \A c \in live : BlockSizes'[c] = BlockSizes[c]
  BY <1>1 DEF BlockSizes
<1>5. BlockSizes'[b] = BlockWords(n)
  <2>1. b \in live' /\ b.ints = n
    BY <1>1
  <2>2. QED  BY <2>1 DEF BlockSizes
<1> HIDE DEF b
<1>6. SumOf(BlockSizes') = SumOf(BlockSizes) + BlockSizes'[b]
  <2> DEFINE g == BlockSizes'
             f == BlockSizes
  <2>1. IsFiniteSet(live) /\ f \in [live -> Nat] /\ b \notin live /\ g \in [live \cup {b} -> Nat]
        /\ \A c \in live : g[c] = f[c]
    BY <1>1, <1>3, <1>4
  <2> HIDE DEF f, g
  <2>2. SumOf(g) = SumOf(f) + g[b]
    BY <2>1, SumAdded
  <2>3. QED  BY <2>2 DEF f, g
<1>7. QED  BY <1>2, <1>5, <1>6

LEMMA OneLessHeld ==
    ASSUME Inv, IsFiniteSet(live), NEW b \in live, live' = live \ {b}
    PROVE  /\ IsFiniteSet(live') /\ SumOf(BlockSizes') \in Nat
           /\ SumOf(BlockSizes) = SumOf(BlockSizes') + BlockWords(b.ints)
<1>1. IsFiniteSet(live')
  BY FS_RemoveElement
<1>2. BlockSizes' = [c \in live \ {b} |-> BlockSizes[c]] /\ BlockSizes[b] = BlockWords(b.ints)
  BY DEF BlockSizes
<1>3. SumOf(BlockSizes) = SumOf([c \in live \ {b} |-> BlockSizes[c]]) + BlockSizes[b]
  BY SizesType, SumWithout
<1>4. SumOf(BlockSizes') \in Nat
  <2>1. BlockSizes' \in [live \ {b} -> Nat]
    BY <1>2, SizesType
  <2> DEFINE f == BlockSizes'
             D == live \ {b}
  <2>2. IsFiniteSet(D) /\ f \in [D -> Nat]
    BY <1>1, <2>1
  <2> HIDE DEF f, D
  <2>3. SumOf(f) \in Nat
    BY <2>2, UnitsFinite
  <2>4. QED  BY <2>3 DEF f
<1>5. QED  BY <1>1, <1>2, <1>3, <1>4

(* Empty lists hold nothing. *)
LEMMA NothingListed ==
    ASSUME NEW f, IsArray(f), \A v \in 0 .. f.capa - 1 : f.data[v] = <<>>
    PROVE  SumOf(ListWords(f)) = 0
<1>1. ASSUME NEW v \in 0 .. f.capa - 1 PROVE ListWords(f)[v] = 0
  <2>1. Held(f.data[v]) = 0
    BY HeldNothing
  <2>2. ListWords(f)[v] = v * Held(f.data[v])
    BY DEF ListWords
  <2>3. v \in Nat
    BY DEF IsArray
  <2>4. QED  BY <2>1, <2>2, <2>3
<1> DEFINE D == 0 .. f.capa - 1
           F == ListWords(f)
<1>2. F \in [D -> Nat] /\ \A v \in D : F[v] = 0
  BY <1>1, ListWordsType
<1> HIDE DEF D, F
<1>3. SumOf(F) = 0
  BY <1>2, SumOfNothing
<1>4. QED  BY <1>3 DEF F

LEMMA NothingHeld ==
    SumOf([b \in {} |-> BlockWords(b.ints)]) = 0
<1> DEFINE F == [b \in {} |-> BlockWords(b.ints)]
<1>1. F \in [{} -> Nat] /\ \A x \in {} : F[x] = 0
  OBVIOUS
<1> HIDE DEF F
<1>2. SumOf(F) = 0
  BY <1>1, SumOfNothing
<1>3. QED  BY <1>2 DEF F

LEMMA WordsInit == ASSUME InitAllocator PROVE WordsInv
<1>1. HistoryInv
  BY HistoryInit
<1>2. PICK p \in Pools : pools = <<p>> /\ freePtr = Base[p] /\ endFree = PoolEnd(p)
  BY DEF InitAllocator
<1>3. freeMem = Lists!NewArray(FreeLists) /\ live = {}
  BY DEF InitAllocator
<1>4. SumOf(BlockSizes) = 0 /\ SumOf(ListWords(freeMem)) = 0
  BY <1>3, NothingHeld, NothingListed, EmptyArrays DEF BlockSizes
<1>5. Len(pools) = 1 /\ endFree - freePtr = ChunkSize /\ ChunkSize \in Nat
  BY <1>2, PoolsAssumption DEF PoolEnd
<1>6. WordsConserved
  BY <1>4, <1>5 DEF WordsConserved
<1>7. freeMem.capa = FreeLists
  BY <1>3, SizesAssumption DEF Lists!NewArray
<1>8. QED  BY <1>1, <1>3, <1>6, <1>7, FS_EmptySet DEF WordsInv

(* A list below the capacity is there already. *)
LEMMA NoGrowth ==
    ASSUME NEW f, NEW i \in Nat, i < f.capa, NEW d, NEW h \in Pushed(f, i, d)
    PROVE  h.capa = f.capa
BY DEF Pushed, Lists!Grown, Lists!Stored

LEMMA FreeListWords ==
    ASSUME WordsInv, Inv', status = "ok", NEW n \in Sizes \ {0}, AllocateFromFreeList(n)
    PROVE  WordsConserved' /\ IsFiniteSet(live') /\ freeMem'.capa = freeMem.capa
<1> DEFINE w == BlockWords(n)
           d == Head(freeMem.data[w])
<1>1. Inv /\ IsArray(freeMem) /\ w \in Nat \ {0} /\ IsFiniteSet(live)
  BY BlockWordsPositive DEF WordsInv, HistoryInv, Inv, AllocatorTypeOK
<1>2. w \in 0 .. freeMem.capa - 1 /\ FreeList(w) = freeMem.data[w]
  BY <1>1 DEF AllocateFromFreeList, FreeList, Lists!ArrayGet, IsArray
<1>3. /\ freeMem.data[w] # <<>> /\ d # Wild
      /\ freeMem' = Lists!Stored(freeMem, w, Tail(freeMem.data[w]))
      /\ HandOut(d, n)
      /\ UNCHANGED <<pools, freePtr, endFree, status>>
  BY <1>2 DEF AllocateFromFreeList
<1>4. \E b : b \notin live /\ live' = live \cup {b}
  BY <1>1, FreshFromList
<1> HIDE DEF w, d
<1>5. SumOf(ListWords(freeMem')) + w = SumOf(ListWords(freeMem)) /\ freeMem'.capa = freeMem.capa
  BY <1>1, <1>2, <1>3, PopTakes, PoppedArray DEF d
<1>6. IsFiniteSet(live') /\ SumOf(BlockSizes') = SumOf(BlockSizes) + w
  BY <1>1, <1>3, <1>4, OneMoreHeld DEF w
<1>7. SumOf(ListWords(freeMem)) \in Nat /\ SumOf(BlockSizes) \in Nat
      /\ SumOf(ListWords(freeMem')) \in Nat
  BY <1>1, ListWordsType, SizesType DEF Inv, AllocatorTypeOK
<1>8. WordsConserved'
  <2> DEFINE room == endFree - freePtr
             all == Len(pools) * ChunkSize
  <2>1. SumOf(BlockSizes) + SumOf(ListWords(freeMem)) + room = all /\ room \in Int
    BY <1>1 DEF WordsInv, WordsConserved, Inv, AllocatorTypeOK
  <2>2. room' = room /\ all' = all
    BY <1>3
  <2> HIDE DEF room, all
  <2>3. SumOf(BlockSizes') + SumOf(ListWords(freeMem')) + room = all
    BY <1>1, <1>5, <1>6, <1>7, <2>1
  <2>4. QED  BY <2>2, <2>3 DEF WordsConserved, room, all
<1>9. QED  BY <1>5, <1>6, <1>8

LEMMA PoolWords ==
    ASSUME WordsInv, Inv', status = "ok", NEW n \in Sizes \ {0}, AllocateFromPool(n)
    PROVE  WordsConserved' /\ IsFiniteSet(live') /\ freeMem'.capa = freeMem.capa
<1> DEFINE w == BlockWords(n)
<1>1. /\ Inv /\ IsFiniteSet(live)
      /\ w \in Nat \ {0} /\ freePtr \in Nat /\ endFree \in Nat
  BY BlockWordsPositive DEF WordsInv, HistoryInv, Inv, AllocatorTypeOK
<1>2. /\ freePtr' = freePtr + w
      /\ HandOut(freePtr, n)
      /\ UNCHANGED <<pools, endFree, freeMem, status>>
  BY DEF AllocateFromPool
<1>3. \E b : b \notin live /\ live' = live \cup {b}
  BY <1>1, FreshFromPool
<1>4. IsFiniteSet(live') /\ SumOf(BlockSizes') = SumOf(BlockSizes) + w
  BY <1>1, <1>2, <1>3, OneMoreHeld
<1>5. SumOf(ListWords(freeMem)) \in Nat /\ SumOf(BlockSizes) \in Nat
  BY <1>1, ListWordsType, SizesType DEF Inv, AllocatorTypeOK
<1> HIDE DEF w
<1>6. WordsConserved'
  <2> DEFINE all == Len(pools) * ChunkSize
             lists == SumOf(ListWords(freeMem))
  <2>1. SumOf(BlockSizes) + lists + (endFree - freePtr) = all
    BY <1>1 DEF WordsInv, WordsConserved
  <2>2. lists' = lists /\ all' = all /\ endFree' = endFree
    BY <1>2
  <2>3. lists \in Nat
    BY <1>5
  <2> HIDE DEF lists, all
  <2>4. SumOf(BlockSizes') + lists + (endFree - freePtr') = all
    BY <1>1, <1>2, <1>4, <1>5, <2>1, <2>3
  <2>5. QED  BY <2>2, <2>4 DEF WordsConserved, lists, all
<1>7. QED  BY <1>2, <1>4, <1>6

(* On 32 bits a leftover is stored on the list of its own size. *)
LEMMA LeftoverWords ==
    ASSUME Inv, WordInts = 1, freePtr <= endFree, StoreLeftover,
           NEW n \in Sizes \ {0}, PoolExhausted(n)
    PROVE  /\ SumOf(ListWords(freeMem')) = SumOf(ListWords(freeMem)) + (endFree - freePtr)
           /\ ListsFor(freeMem.capa) => freeMem'.capa = freeMem.capa
<1> DEFINE left == endFree - freePtr
<1>1. /\ IsArray(freeMem) /\ freePtr \in Nat /\ endFree \in Nat /\ left \in Nat
      /\ arch_size(left) = left
  BY DEF Inv, AllocatorTypeOK, arch_size
<1>2. BlockWords(n) \in Nat /\ left < BlockWords(n) /\ freeMem.capa \in Nat
  BY <1>1, BlockWordsPositive DEF PoolExhausted, IsArray
<1>3. CASE left = 0
  <2>1. freeMem' = freeMem
    BY <1>3 DEF StoreLeftover
  <2>2. SumOf(ListWords(freeMem)) \in Nat
    BY <1>1, ListWordsType
  <2>3. QED  BY <1>3, <2>1, <2>2
<1>4. CASE left # 0
  <2>1. freeMem' \in Pushed(freeMem, left, freePtr)
    BY <1>1, <1>4 DEF StoreLeftover
  <2> HIDE DEF left
  <2>2. SumOf(ListWords(freeMem')) = SumOf(ListWords(freeMem)) + left
    BY <1>1, <2>1, PushAdds
  <2>3. ListsFor(freeMem.capa) => freeMem'.capa = freeMem.capa
    BY <1>1, <1>2, <2>1, NoGrowth DEF ListsFor
  <2>4. QED  BY <2>2, <2>3 DEF left
<1>5. QED  BY <1>3, <1>4

LEMMA NewPoolWords ==
    ASSUME SizesFit, WordInts = 1, WordsInv, Inv', status = "ok",
           NEW n \in Sizes \ {0}, AllocateFromNewPool(n)
    PROVE  /\ WordsConserved' /\ IsFiniteSet(live')
           /\ ListsFor(freeMem.capa) => freeMem'.capa = freeMem.capa
<1> DEFINE w == BlockWords(n)
<1>1. /\ Inv /\ IsFiniteSet(live)
      /\ w \in Nat \ {0} /\ freePtr \in Nat /\ endFree \in Nat
  BY BlockWordsPositive DEF WordsInv, HistoryInv, Inv, AllocatorTypeOK
<1>2. PICK p \in Pools \ owned : /\ pools' = <<p>> \o pools
                                 /\ freePtr' = Base[p] + w
                                 /\ endFree' = PoolEnd(p)
                                 /\ HandOut(Base[p], n)
  BY DEF AllocateFromNewPool
<1>3. freePtr <= endFree /\ StoreLeftover /\ PoolExhausted(n) /\ status' = status
  BY DEF AllocateFromNewPool
<1>4. /\ SumOf(ListWords(freeMem')) = SumOf(ListWords(freeMem)) + (endFree - freePtr)
      /\ ListsFor(freeMem.capa) => freeMem'.capa = freeMem.capa
  BY <1>1, <1>3, LeftoverWords
<1>5. \E b : b \notin live /\ live' = live \cup {b}
  BY <1>1, FreshFromNewPool
<1>6. IsFiniteSet(live') /\ SumOf(BlockSizes') = SumOf(BlockSizes) + w
  BY <1>1, <1>2, <1>5, OneMoreHeld
<1>7. SumOf(ListWords(freeMem)) \in Nat /\ SumOf(BlockSizes) \in Nat
  BY <1>1, ListWordsType, SizesType DEF Inv, AllocatorTypeOK
<1>8. Len(pools') = Len(pools) + 1 /\ Len(pools) \in Nat
  BY <1>1, <1>2 DEF Inv, AllocatorTypeOK
<1>9. Base[p] \in Nat /\ ChunkSize \in Nat /\ PoolEnd(p) = Base[p] + ChunkSize
  BY PoolsAssumption DEF PoolEnd
<1> DEFINE k == Len(pools)
<1>10. SumOf(BlockSizes) + SumOf(ListWords(freeMem)) + (endFree - freePtr) = k * ChunkSize
  BY DEF WordsInv, WordsConserved
<1> HIDE DEF w
<1>11. (k + 1) * ChunkSize = k * ChunkSize + ChunkSize
  BY <1>8, <1>9
<1> DEFINE all == k * ChunkSize
<1>12. all \in Nat
  BY <1>8, <1>9
<1>13. SumOf(BlockSizes) + SumOf(ListWords(freeMem)) + (endFree - freePtr) = all
  BY <1>10
<1> HIDE DEF all
<1>14. endFree' - freePtr' = ChunkSize - w
  BY <1>1, <1>2, <1>9
<1>15. SumOf(BlockSizes') + SumOf(ListWords(freeMem')) + (endFree' - freePtr') = all + ChunkSize
  BY <1>1, <1>4, <1>6, <1>7, <1>9, <1>12, <1>13, <1>14
<1>16. WordsConserved'
  BY <1>8, <1>11, <1>15 DEF WordsConserved, k, all
<1>17. QED  BY <1>4, <1>6, <1>16

LEMMA DeallocateWords ==
    ASSUME WordsInv, Inv', status = "ok", NEW b \in live, Deallocate(b)
    PROVE  /\ WordsConserved' /\ IsFiniteSet(live')
           /\ ListsFor(freeMem.capa) => freeMem'.capa = freeMem.capa
<1> DEFINE w == BlockWords(b.ints)
<1>1. /\ Inv /\ IsFiniteSet(live) /\ IsArray(freeMem)
      /\ w \in Nat \ {0} /\ freePtr \in Nat /\ endFree \in Nat /\ b.data \in Nat
      /\ b.ints \in Sizes \ {0}
  BY BlockWordsPositive DEF WordsInv, HistoryInv, Inv, AllocatorTypeOK
<1>2. live' = live \ {b} /\ UNCHANGED <<pools, endFree, status>>
  BY DEF Deallocate
<1>3. /\ b.data + w = freePtr => freePtr' = b.data /\ freeMem' = freeMem
      /\ b.data + w # freePtr => freeMem' \in Pushed(freeMem, w, b.data) /\ freePtr' = freePtr
  BY DEF Deallocate
<1>4. freeMem.capa \in Nat /\ (ListsFor(freeMem.capa) => w < freeMem.capa)
  BY <1>1 DEF ListsFor, IsArray
<1>5. /\ IsFiniteSet(live') /\ SumOf(BlockSizes') \in Nat
      /\ SumOf(BlockSizes) = SumOf(BlockSizes') + w
  BY <1>1, <1>2, OneLessHeld
<1> HIDE DEF w
<1>6. b.data + w # freePtr => SumOf(ListWords(freeMem')) = SumOf(ListWords(freeMem)) + w
  BY <1>1, <1>3, PushAdds
<1>7. ListsFor(freeMem.capa) => freeMem'.capa = freeMem.capa
  BY <1>1, <1>3, <1>4, NoGrowth
<1>8. SumOf(ListWords(freeMem)) \in Nat /\ SumOf(BlockSizes') \in Nat
  BY <1>1, <1>5, ListWordsType
<1>9. WordsConserved'
  <2> DEFINE all == Len(pools) * ChunkSize
  <2>1. SumOf(BlockSizes) + SumOf(ListWords(freeMem)) + (endFree - freePtr) = all
    BY DEF WordsInv, WordsConserved
  <2>2. all' = all /\ endFree' = endFree
    BY <1>2
  <2> HIDE DEF all
  <2>3. SumOf(BlockSizes') + SumOf(ListWords(freeMem')) + (endFree - freePtr') = all
    <3>1. CASE b.data + w = freePtr
      <4>1. freePtr' = b.data /\ ListWords(freeMem') = ListWords(freeMem)
        BY <1>3, <3>1
      <4>2. QED  BY <1>1, <1>5, <1>8, <2>1, <3>1, <4>1
    <3>2. CASE b.data + w # freePtr
      BY <1>1, <1>3, <1>5, <1>6, <1>8, <2>1, <3>2
    <3>3. QED  BY <3>1, <3>2
  <2>4. QED  BY <2>2, <2>3 DEF WordsConserved, all
<1>10. QED  BY <1>5, <1>7, <1>9

LEMMA ResetWords ==
    ASSUME WordsInv, status = "ok", ResetAllocator
    PROVE  WordsConserved' /\ IsFiniteSet(live') /\ freeMem'.capa = freeMem.capa
<1>1. Inv /\ IsArray(freeMem)
  BY DEF WordsInv, HistoryInv, Inv, AllocatorTypeOK
<1>2. /\ pools' = <<Head(pools)>>
      /\ freePtr' = Base[Head(pools)]
      /\ endFree' = PoolEnd(Head(pools))
      /\ freeMem' = Lists!Cleared(freeMem)
      /\ live' = {}
  BY DEF ResetAllocator, StartOf
<1>3. SumOf(BlockSizes') = 0
  BY <1>2, NothingHeld DEF BlockSizes
<1>4. SumOf(ListWords(freeMem')) = 0
  BY <1>1, <1>2, EmptyArrays, NothingListed
<1>5. Len(pools') = 1 /\ endFree' - freePtr' = ChunkSize /\ ChunkSize \in Nat
  BY <1>1, <1>2, PoolFacts, PoolsAssumption DEF Inv, PoolEnd
<1>6. WordsConserved'
  BY <1>3, <1>4, <1>5 DEF WordsConserved
<1>7. QED  BY <1>2, <1>6, FS_EmptySet DEF Lists!Cleared

LEMMA WordsNext ==
    ASSUME SizesFit, WordInts = 1, ~CanThrow, WordsInv, [NextAllocator]_allocatorVars
    PROVE  WordsInv'
<1>1. HistoryInv' /\ Inv'
  BY HistoryNext DEF WordsInv, HistoryInv
<1>2. CASE UNCHANGED allocatorVars
  <2>1. WordsConserved'
    BY <1>2 DEF allocatorVars, WordsInv, WordsConserved, BlockSizes
  <2>2. QED  BY <1>1, <1>2, <2>1 DEF allocatorVars, WordsInv
<1>3. CASE NextAllocator
  <2>1. status = "ok"
    BY <1>3 DEF NextAllocator
  <2>2. ASSUME NEW n \in Sizes \ {0}, Allocate(n) PROVE WordsInv'
    <3>1. CASE AllocateFromFreeList(n)
      BY <1>1, <2>1, <3>1, FreeListWords DEF WordsInv
    <3>2. CASE AllocateFromPool(n)
      BY <1>1, <2>1, <3>2, PoolWords DEF WordsInv
    <3>3. CASE AllocateFromNewPool(n)
      BY <1>1, <2>1, <3>3, NewPoolWords DEF WordsInv
    <3>4. CASE AllocateFollowsGarbage(n) \/ AllocateStoresBeyondPool(n)
      <4>1. status' = "wild" /\ live' = live /\ freeMem' = freeMem
        BY <3>4 DEF AllocateFollowsGarbage, AllocateStoresBeyondPool
      <4>2. WordsConserved'
        BY <4>1 DEF WordsConserved
      <4>3. QED  BY <1>1, <4>1, <4>2 DEF WordsInv
    <3>5. QED  BY <2>2, <3>1, <3>2, <3>3, <3>4 DEF Allocate, AllocateThrows
  <2>3. ASSUME NEW b \in live, Deallocate(b) PROVE WordsInv'
    BY <1>1, <2>1, <2>3, DeallocateWords DEF WordsInv
  <2>4. CASE ResetAllocator
    BY <1>1, <2>1, <2>4, ResetWords DEF WordsInv
  <2>5. CASE Destroy
    <3>1. status' = "destroyed" /\ live' = {} /\ freeMem' = freeMem
      BY <2>5 DEF Destroy
    <3>2. WordsConserved'
      BY <3>1 DEF WordsConserved
    <3>3. QED  BY <1>1, <3>1, <3>2, FS_EmptySet DEF WordsInv
  <2>6. ASSUME NEW b \in live, DeallocateFollowsGarbage(b) PROVE WordsInv'
    <3>1. status' = "wild" /\ live' = live /\ freeMem' = freeMem
      BY <2>6 DEF DeallocateFollowsGarbage
    <3>2. WordsConserved'
      BY <3>1 DEF WordsConserved
    <3>3. QED  BY <1>1, <3>1, <3>2 DEF WordsInv
  <2>7. QED  BY <1>3, <2>2, <2>3, <2>4, <2>5, <2>6 DEF NextAllocator
<1>4. QED  BY <1>2, <1>3

(* What printStats counts is these sums, where no list holds garbage. *)
NoGarbage ==
    \A v \in ListIndices : \A j \in 1 .. Len(FreeList(v)) : FreeList(v)[j] # Wild

LEMMA ListedIsCounted ==
    ASSUME Inv, NoGarbage
    PROVE  MemInFreeList = SumOf(ListWords(freeMem))
<1> DEFINE D == ListIndices
           F == ListWords(freeMem)
           one(s) == CHOOSE x \in s : TRUE
           Folded(g) == [s \in SUBSET D |-> IF s = {} THEN 0 ELSE F[one(s)] + g[s \ {one(s)}]]
           Mapped(g) == [s \in SUBSET D |-> IF s = {} THEN 0
                                            ELSE one(s) * Len(FreeList(one(s))) + g[s \ {one(s)}]]
<1>1. MemInFreeList = (CHOOSE g : g = Mapped(g))[D]
  BY Zenon DEF MemInFreeList, MapThenSumSet, MapThenFoldSet
<1>2. FoldOf(D, F) = (CHOOSE g : g = Folded(g))[D]
  BY Zenon DEF FoldOf
<1>3. IsFiniteSet(D) /\ F \in [D -> Nat]
  BY ListWordsType DEF Inv, AllocatorTypeOK, ListIndices
<1>4. \A v \in D : F[v] = v * Len(FreeList(v))
  <2>1. TAKE v \in D
  <2>2. FreeList(v) = freeMem.data[v] /\ freeMem.data[v] \in Seq(Nat \cup {Wild})
    BY DEF FreeList, Lists!ArrayGet, ListIndices, Inv, AllocatorTypeOK, IsArray
  <2>3. Held(freeMem.data[v]) = Len(FreeList(v))
    BY <2>2, HeldType DEF NoGarbage
  <2>4. F[v] = v * Held(freeMem.data[v])
    BY DEF ListWords, ListIndices
  <2>5. QED  BY <2>3, <2>4
<1> HIDE DEF F, D
<1>5. \A g : Mapped(g) = Folded(g)
  <2>1. \A s \in SUBSET D : s # {} => F[one(s)] = one(s) * Len(FreeList(one(s)))
    BY <1>4
  <2> HIDE DEF one
  <2>2. QED  BY <2>1
<1> HIDE DEF Mapped, Folded
<1>6. (CHOOSE g : g = Mapped(g)) = (CHOOSE g : g = Folded(g))
  BY <1>5, Zenon
<1>7. FoldOf(D, F) = SumOf(F)
  BY <1>3, FoldIsSum
<1>8. QED  BY <1>1, <1>2, <1>6, <1>7 DEF F

LEMMA LiveIsCounted ==
    ASSUME Inv, IsFiniteSet(live)
    PROVE  LiveWords = SumOf(BlockSizes)
<1> DEFINE F == BlockSizes
           one(s) == CHOOSE x \in s : TRUE
           Folded(g) == [s \in SUBSET live |-> IF s = {} THEN 0 ELSE F[one(s)] + g[s \ {one(s)}]]
           Mapped(g) == [s \in SUBSET live |-> IF s = {} THEN 0
                                               ELSE BlockWords(one(s).ints) + g[s \ {one(s)}]]
<1>1. LiveWords = (CHOOSE g : g = Mapped(g))[live]
  BY Zenon DEF LiveWords, MapThenSumSet, MapThenFoldSet
<1>2. FoldOf(live, F) = (CHOOSE g : g = Folded(g))[live]
  BY Zenon DEF FoldOf
<1>3. \A g : Mapped(g) = Folded(g)
  <2>1. \A s \in SUBSET live : s # {} => F[one(s)] = BlockWords(one(s).ints)
    BY DEF BlockSizes
  <2> HIDE DEF one, F
  <2>2. QED  BY <2>1
<1> HIDE DEF Mapped, Folded
<1>4. (CHOOSE g : g = Mapped(g)) = (CHOOSE g : g = Folded(g))
  BY <1>3, Zenon
<1>5. FoldOf(live, F) = SumOf(F)
  BY SizesType, FoldIsSum
<1>6. QED  BY <1>1, <1>2, <1>4, <1>5

LEMMA StatsOfState ==
    ASSUME WordsInv, NoGarbage
    PROVE  StatsMatchLive
<1>1. Inv /\ IsFiniteSet(live)
  BY DEF WordsInv, HistoryInv
<1>2. MemInFreeList = SumOf(ListWords(freeMem)) /\ LiveWords = SumOf(BlockSizes)
  BY <1>1, ListedIsCounted, LiveIsCounted
<1>3. /\ SumOf(ListWords(freeMem)) \in Nat /\ SumOf(BlockSizes) \in Nat
      /\ endFree \in Nat /\ freePtr \in Nat
  BY <1>1, ListWordsType, SizesType DEF Inv, AllocatorTypeOK
<1>4. status = "ok" =>
        SumOf(BlockSizes) + SumOf(ListWords(freeMem)) + (endFree - freePtr) = Len(pools) * ChunkSize
  BY DEF WordsInv, WordsConserved
<1> DEFINE all == Len(pools) * ChunkSize
<1>5. all = Len(pools) * ChunkSize
  OBVIOUS
<1> HIDE DEF all
<1>6. status = "ok" => all - (SumOf(ListWords(freeMem)) + endFree - freePtr) = SumOf(BlockSizes)
  BY <1>3, <1>4, <1>5
<1>7. QED  BY <1>2, <1>5, <1>6 DEF StatsMatchLive, MemAllocated

(* What printStats reports as allocated is what the callers hold, on 32    *)
(* bits, in every history without failing news, whenever no list holds an  *)
(* uninitialised pointer (which it would count as a block).                *)
THEOREM StatsMatchLiveWithoutGarbage ==
    ASSUME SizesFit, WordInts = 1, ~CanThrow
    PROVE  SpecAllocator => [](NoGarbage => StatsMatchLive)
<1>1. InitAllocator => WordsInv
  BY WordsInit
<1>2. WordsInv /\ [NextAllocator]_allocatorVars => WordsInv'
  BY WordsNext
<1>3. WordsInv => (NoGarbage => StatsMatchLive)
  BY StatsOfState
<1>4. QED  BY <1>1, <1>2, <1>3, PTL DEF SpecAllocator

(* When no request is larger than the initial table has lists for, the     *)
(* table never grows, no list holds garbage and the report is always right. *)
THEOREM StatsMatchLiveHolds ==
    ASSUME SizesFit, WordInts = 1, ~CanThrow, \A n \in Sizes : BlockWords(n) < FreeLists
    PROVE  SpecAllocator => []StatsMatchLive
<1>1. InitAllocator => WordsInv
  BY WordsInit
<1>2. WordsInv /\ [NextAllocator]_allocatorVars => WordsInv'
  BY WordsNext
<1>3. WordsInv => StatsMatchLive
  <2>1. ASSUME WordsInv PROVE NoGarbage
    <3>1. freeMem.capa = FreeLists /\ NoGarbageBelow(freeMem)
      BY <2>1 DEF WordsInv, HistoryInv, ListsFor
    <3>2. \A v \in ListIndices : FreeList(v) = freeMem.data[v]
      BY <3>1, SizesAssumption DEF ListIndices, FreeList, Lists!ArrayGet
    <3>3. QED  BY <3>1, <3>2 DEF NoGarbage, NoGarbageBelow, ListIndices
  <2>2. QED  BY <2>1, StatsOfState
<1>4. QED  BY <1>1, <1>2, <1>3, PTL DEF SpecAllocator
=============================================================================
