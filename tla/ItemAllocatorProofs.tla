------------------------- MODULE ItemAllocatorProofs -------------------------
(***************************************************************************)
(* Proofs about ItemAllocator, for any number of pools with any number of  *)
(* cells: no cell is lost or handed out twice, no pool is leaked, and the  *)
(* allocator implements what its callers rely on.                          *)
(***************************************************************************)
EXTENDS ItemAllocator, TLAPS

(* The three invariants need each other: a reset empties memory and live   *)
(* alike only because the owned pools are the linked ones.                 *)
Inv == ItemsTypeOK /\ EveryCellOnce /\ OwnedPoolsAreLinked

-----------------------------------------------------------------------------
(* Taking the head of the free list, and giving a cell back *)

LEMMA HeadTaken ==
    ASSUME NEW s \in Seq(Nat), s # <<>>
    PROVE  /\ Head(s) \in Nat
           /\ Tail(s) \in Seq(Nat)
           /\ Len(Tail(s)) = Len(s) - 1
           /\ \A i \in 1 .. Len(Tail(s)) : i + 1 \in 1 .. Len(s) /\ Tail(s)[i] = s[i + 1]
           /\ 1 \in 1 .. Len(s) /\ Head(s) = s[1]
OBVIOUS

LEMMA CellPut ==
    ASSUME NEW S, NEW s \in Seq(S), NEW x \in S
    PROVE  /\ <<x>> \o s \in Seq(S)
           /\ Len(<<x>> \o s) = Len(s) + 1
           /\ (<<x>> \o s)[1] = x
           /\ \A i \in 2 .. Len(s) + 1 : i - 1 \in 1 .. Len(s) /\ (<<x>> \o s)[i] = s[i - 1]
OBVIOUS

(* The elements of the list after each of the two. *)
LEMMA HeadTakenElements ==
    ASSUME NEW s \in Seq(Nat), s # <<>>,
           \A i, j \in 1 .. Len(s) : i # j => s[i] # s[j]
    PROVE  /\ {Tail(s)[i] : i \in 1 .. Len(Tail(s))} = {s[i] : i \in 1 .. Len(s)} \ {Head(s)}
           /\ Head(s) \in {s[i] : i \in 1 .. Len(s)}
           /\ \A i, j \in 1 .. Len(Tail(s)) : i # j => Tail(s)[i] # Tail(s)[j]
<1>1. \A i \in 1 .. Len(s) : i # 1 => i - 1 \in 1 .. Len(Tail(s)) /\ Tail(s)[i - 1] = s[i]
  BY HeadTaken
<1>2. \A i, j \in 1 .. Len(Tail(s)) : i # j => Tail(s)[i] # Tail(s)[j]
  <2> TAKE i, j \in 1 .. Len(Tail(s))
  <2>1. i \in Int /\ j \in Int
    OBVIOUS
  <2>2. QED  BY <2>1, HeadTaken
<1>3. ASSUME NEW i \in 1 .. Len(Tail(s))
      PROVE  Tail(s)[i] \in {s[k] : k \in 1 .. Len(s)} \ {Head(s)}
  <2>1. i + 1 # 1
    OBVIOUS
  <2>2. QED  BY <2>1, HeadTaken
<1>4. ASSUME NEW x \in {s[k] : k \in 1 .. Len(s)} \ {Head(s)}
      PROVE  x \in {Tail(s)[k] : k \in 1 .. Len(Tail(s))}
  <2>1. PICK k \in 1 .. Len(s) : x = s[k]
    OBVIOUS
  <2>2. k # 1
    BY <2>1, HeadTaken
  <2>3. QED  BY <1>1, <2>1, <2>2
<1>5. Head(s) \in {s[i] : i \in 1 .. Len(s)}
  BY HeadTaken
<1>6. {Tail(s)[i] : i \in 1 .. Len(Tail(s))} = {s[i] : i \in 1 .. Len(s)} \ {Head(s)}
  BY <1>3, <1>4, Zenon
<1>7. QED  BY <1>2, <1>5, <1>6, Zenon

LEMMA CellPutElements ==
    ASSUME NEW S, NEW s \in Seq(S), NEW x \in S
    PROVE  {(<<x>> \o s)[i] : i \in 1 .. Len(<<x>> \o s)} = {s[i] : i \in 1 .. Len(s)} \cup {x}
<1>1. ASSUME NEW i \in 1 .. Len(<<x>> \o s)
      PROVE  (<<x>> \o s)[i] \in {s[k] : k \in 1 .. Len(s)} \cup {x}
  <2>1. i = 1 \/ i \in 2 .. Len(s) + 1
    BY CellPut
  <2>2. QED  BY <2>1, CellPut
<1>2. ASSUME NEW k \in 1 .. Len(s)
      PROVE  s[k] \in {(<<x>> \o s)[i] : i \in 1 .. Len(<<x>> \o s)}
  <2>1. k + 1 \in 2 .. Len(s) + 1 /\ k + 1 \in 1 .. Len(<<x>> \o s) /\ (k + 1) - 1 = k
    BY CellPut
  <2>2. (<<x>> \o s)[k + 1] = s[k]
    BY <2>1, CellPut
  <2>3. QED  BY <2>1, <2>2
<1>3. x \in {(<<x>> \o s)[i] : i \in 1 .. Len(<<x>> \o s)}
  <2>1. 1 \in 1 .. Len(<<x>> \o s) /\ (<<x>> \o s)[1] = x
    BY CellPut
  <2>2. QED  BY <2>1
<1>4. QED  BY <1>1, <1>2, <1>3

-----------------------------------------------------------------------------
(* A new pool *)

(* The list of a pool holds each of its cells once. *)
LEMMA ListOfPool ==
    ASSUME NEW p \in Pools
    PROVE  /\ PoolList(p) \in Seq(Nat)
           /\ PoolList(p) # <<>>
           /\ {PoolList(p)[i] : i \in 1 .. Len(PoolList(p))} = CellsOf(p)
           /\ \A i, j \in 1 .. Len(PoolList(p)) : i # j => PoolList(p)[i] # PoolList(p)[j]
<1>1. First[p] \in Nat /\ NumberOfItems \in Nat \ {0}
  BY ItemAssumption
<1>2. PoolList(p) \in Seq(Nat) /\ Len(PoolList(p)) = NumberOfItems
  BY <1>1 DEF PoolList
<1>3. \A k \in 1 .. NumberOfItems : PoolList(p)[k] = First[p] + k - 1
  BY <1>1 DEF PoolList
<1>4. ASSUME NEW c \in CellsOf(p)
      PROVE  c \in {PoolList(p)[i] : i \in 1 .. Len(PoolList(p))}
  <2>1. c - First[p] + 1 \in 1 .. NumberOfItems /\ c = First[p] + (c - First[p] + 1) - 1
    BY <1>1 DEF CellsOf
  <2>2. QED  BY <1>2, <1>3, <2>1
<1>5. ASSUME NEW i \in 1 .. Len(PoolList(p))
      PROVE  PoolList(p)[i] \in CellsOf(p)
  BY <1>1, <1>2, <1>3 DEF CellsOf
<1>6. {PoolList(p)[i] : i \in 1 .. Len(PoolList(p))} = CellsOf(p)
  BY <1>4, <1>5, Zenon
<1>7. PoolList(p) # <<>>
  BY <1>1, <1>2
<1>8. \A i, j \in 1 .. Len(PoolList(p)) : i # j => PoolList(p)[i] # PoolList(p)[j]
  <2> TAKE i, j \in 1 .. Len(PoolList(p))
  <2>1. i \in 1 .. NumberOfItems /\ j \in 1 .. NumberOfItems
    BY <1>2
  <2>2. i \in Int /\ j \in Int /\ First[p] \in Int
    BY <1>1, <2>1
  <2>3. QED  BY <1>3, <2>1, <2>2
<1>9. QED  BY <1>2, <1>6, <1>7, <1>8

(* Pools do not share cells. *)
LEMMA PoolsApart ==
    ASSUME NEW p \in Pools, NEW q \in Pools, p # q
    PROVE  CellsOf(p) \cap CellsOf(q) = {}
<1>1. First[p] \in Nat /\ First[q] \in Nat /\ NumberOfItems \in Nat
  BY ItemAssumption
<1>2. First[p] + NumberOfItems <= First[q] \/ First[q] + NumberOfItems <= First[p]
  BY ItemAssumption
<1>3. QED  BY <1>1, <1>2 DEF CellsOf

-----------------------------------------------------------------------------
(* The steps *)

LEMMA InitInv == InitItems => Inv
BY DEF InitItems, Inv, ItemsTypeOK, EveryCellOnce, OwnedPoolsAreLinked, FreeCells, PoolCells

LEMMA AllocateFreeStep ==
    ASSUME Inv, AllocateFree
    PROVE  /\ Inv'
           /\ PoolCells' = PoolCells
           /\ Head(freeItem) \in PoolCells \ live
<1>1. freeItem \in Seq(Nat) /\ freeItem # <<>> /\ PoolCells' = PoolCells
  BY DEF Inv, ItemsTypeOK, AllocateFree, PoolCells
<1>2. /\ FreeCells' = FreeCells \ {Head(freeItem)}
      /\ Head(freeItem) \in FreeCells
      /\ \A i, j \in 1 .. Len(freeItem') : i # j => freeItem'[i] # freeItem'[j]
  BY <1>1, HeadTakenElements DEF Inv, EveryCellOnce, FreeCells, AllocateFree
<1>3. EveryCellOnce' /\ Head(freeItem) \in PoolCells \ live
  BY <1>1, <1>2 DEF Inv, EveryCellOnce, AllocateFree
<1>4. ItemsTypeOK'
  BY <1>1, HeadTaken DEF Inv, ItemsTypeOK, AllocateFree
<1>5. OwnedPoolsAreLinked'
  BY DEF Inv, OwnedPoolsAreLinked, AllocateFree
<1>6. QED  BY <1>1, <1>3, <1>4, <1>5 DEF Inv

LEMMA NewPoolStep ==
    ASSUME Inv, AllocateWithNewPool
    PROVE  /\ Inv'
           /\ PoolCells \subseteq PoolCells'
           /\ \E c \in PoolCells' \ live : live' = live \cup {c}
<1>1. PICK p \in Pools \ owned :
         /\ pool' = <<p>> \o pool
         /\ owned' = owned \cup {p}
         /\ freeItem' = Tail(PoolList(p))
         /\ live' = live \cup {Head(PoolList(p))}
  BY DEF AllocateWithNewPool
<1>2. FreeCells = {} /\ live = PoolCells
  <2>1. freeItem = <<>>
    BY DEF AllocateWithNewPool
  <2>2. FreeCells = {}
    BY <2>1 DEF FreeCells
  <2>3. QED  BY <2>2 DEF Inv, EveryCellOnce
<1>3. PoolCells' = PoolCells \cup CellsOf(p)
  BY <1>1 DEF PoolCells
<1>4. PoolCells \cap CellsOf(p) = {}
  BY <1>1, PoolsApart DEF PoolCells, Inv, ItemsTypeOK
<1>5. /\ FreeCells' = CellsOf(p) \ {Head(PoolList(p))}
      /\ Head(PoolList(p)) \in CellsOf(p)
      /\ \A i, j \in 1 .. Len(freeItem') : i # j => freeItem'[i] # freeItem'[j]
  <2>1. /\ {Tail(PoolList(p))[i] : i \in 1 .. Len(Tail(PoolList(p)))}
              = CellsOf(p) \ {Head(PoolList(p))}
        /\ Head(PoolList(p)) \in CellsOf(p)
        /\ \A i, j \in 1 .. Len(Tail(PoolList(p))) :
              i # j => Tail(PoolList(p))[i] # Tail(PoolList(p))[j]
    <3>1. p \in Pools
      OBVIOUS
    <3>2. QED  BY <3>1, ListOfPool, HeadTakenElements
  <2>2. QED  BY <1>1, <2>1 DEF FreeCells
<1>6. EveryCellOnce'
  BY <1>1, <1>2, <1>3, <1>4, <1>5 DEF EveryCellOnce
<1>7. ItemsTypeOK'
  <2>1. pool' \in Seq(Pools) /\ owned' \subseteq Pools
    BY <1>1 DEF Inv, ItemsTypeOK
  <2>2. freeItem' \in Seq(Nat) /\ live' \subseteq Nat
    BY <1>1, ListOfPool, HeadTaken DEF Inv, ItemsTypeOK
  <2>3. QED  BY <2>1, <2>2 DEF ItemsTypeOK
<1>8. OwnedPoolsAreLinked'
  BY <1>1, CellPutElements DEF Inv, ItemsTypeOK, OwnedPoolsAreLinked
<1>9. QED  BY <1>1, <1>2, <1>3, <1>4, <1>5, <1>6, <1>7, <1>8 DEF Inv

LEMMA DeallocateStep ==
    ASSUME Inv, NEW item \in live, Deallocate(item)
    PROVE  Inv' /\ PoolCells' = PoolCells
<1>1. freeItem \in Seq(Nat) /\ item \in Nat /\ item \notin FreeCells
  BY DEF Inv, ItemsTypeOK, EveryCellOnce
<1>2. FreeCells' = FreeCells \cup {item}
  BY <1>1, CellPutElements DEF FreeCells, Deallocate
<1>3. \A i, j \in 1 .. Len(freeItem') : i # j => freeItem'[i] # freeItem'[j]
  <2>1. SUFFICES ASSUME NEW i \in 1 .. Len(freeItem'), NEW j \in 1 .. Len(freeItem'), i < j
                 PROVE  freeItem'[i] # freeItem'[j]
    OBVIOUS
  <2>2. freeItem' = <<item>> \o freeItem
    BY DEF Deallocate
  <2>3. j \in 2 .. Len(freeItem) + 1 /\ j - 1 \in 1 .. Len(freeItem) /\ freeItem'[j] = freeItem[j - 1]
    BY <1>1, <2>1, <2>2, CellPut
  <2>4. CASE i = 1
    BY <1>1, <2>2, <2>3, <2>4, CellPut DEF FreeCells
  <2>5. CASE i # 1
    <3>1. i \in 2 .. Len(freeItem) + 1 /\ i - 1 \in 1 .. Len(freeItem) /\ freeItem'[i] = freeItem[i - 1]
      BY <1>1, <2>1, <2>2, <2>5, CellPut
    <3>2. i - 1 # j - 1
      BY <2>1
    <3>3. QED  BY <2>3, <3>1, <3>2 DEF Inv, EveryCellOnce
  <2>6. QED  BY <2>4, <2>5
<1>4. PoolCells' = PoolCells
  BY DEF PoolCells, Deallocate
<1>5. EveryCellOnce'
  BY <1>1, <1>2, <1>3, <1>4 DEF Inv, EveryCellOnce, Deallocate
<1>6. ItemsTypeOK'
  BY <1>1, CellPut DEF Inv, ItemsTypeOK, Deallocate
<1>7. OwnedPoolsAreLinked'
  BY DEF Inv, OwnedPoolsAreLinked, Deallocate
<1>8. QED  BY <1>4, <1>5, <1>6, <1>7 DEF Inv

(* reset() deletes every pool it owns, because it can reach them all. *)
LEMMA ResetStep ==
    ASSUME Inv, Reset
    PROVE  Inv' /\ PoolCells' = {}
<1>1. owned' = {}
  BY DEF Inv, OwnedPoolsAreLinked, Reset
<1>2. PoolCells' = {}
  BY <1>1 DEF PoolCells
<1>3. FreeCells' = {} /\ freeItem' = <<>> /\ pool' = <<>> /\ live' = {}
  BY DEF Reset, FreeCells
<1>4. ItemsTypeOK' /\ EveryCellOnce' /\ OwnedPoolsAreLinked'
  BY <1>1, <1>2, <1>3 DEF ItemsTypeOK, EveryCellOnce, OwnedPoolsAreLinked
<1>5. QED  BY <1>2, <1>4 DEF Inv

LEMMA NextInv ==
    ASSUME Inv, [NextItems]_itemVars
    PROVE  Inv'
<1>1. CASE UNCHANGED itemVars
  BY <1>1 DEF itemVars, Inv, ItemsTypeOK, EveryCellOnce, OwnedPoolsAreLinked, FreeCells, PoolCells
<1>2. QED
  BY <1>1, AllocateFreeStep, NewPoolStep, DeallocateStep, ResetStep DEF NextItems

-----------------------------------------------------------------------------
(* Theorems *)

(* No cell of any pool is lost or has two owners, and no pool is leaked. *)
THEOREM InvariantHolds == SpecItems => []Inv
<1>1. InitItems => Inv
  BY InitInv
<1>2. Inv /\ [NextItems]_itemVars => Inv'
  BY NextInv
<1>3. QED  BY <1>1, <1>2, PTL DEF SpecItems

(* Every cell is held by one caller or waits once on the free list. *)
THEOREM EveryCellOnceHolds == SpecItems => []EveryCellOnce
<1>1. Inv => EveryCellOnce
  BY DEF Inv
<1>2. QED  BY <1>1, InvariantHolds, PTL

(* The pools obtained from new are those the destructor reaches. *)
THEOREM OwnedPoolsAreLinkedHolds == SpecItems => []OwnedPoolsAreLinked
<1>1. Inv => OwnedPoolsAreLinked
  BY DEF Inv
<1>2. QED  BY <1>1, InvariantHolds, PTL

-----------------------------------------------------------------------------
(* Refinement of Allocator *)

Block(c) == [data |-> c, words |-> 1]
LiveBlocks == {Block(c) : c \in live}

LEMMA BlockCells ==
    ASSUME NEW c \in Nat
    PROVE  Cells!Cells(Block(c)) = {c}
BY DEF Cells!Cells, Block

LEMMA BlocksDiffer ==
    ASSUME NEW c, NEW d, c # d
    PROVE  Block(c) # Block(d)
BY DEF Block

(* Handing out a free cell is an Allocate of the abstract allocator. *)
LEMMA AllocateImplements ==
    ASSUME Inv, Inv', PoolCells \subseteq PoolCells',
           NEW c \in PoolCells' \ live, live' = live \cup {c}
    PROVE  Cells!Allocate
<1>1. live \subseteq Nat /\ c \in Nat
  BY DEF Inv, ItemsTypeOK
<1>2. LiveBlocks' = LiveBlocks \cup {Block(c)}
  BY DEF LiveBlocks
<1>3. Block(c) \in LiveBlocks' \ LiveBlocks
  BY <1>2, BlocksDiffer DEF LiveBlocks
<1>4. Block(c).words > 0
  BY DEF Block
<1>5. Cells!Cells(Block(c)) \subseteq PoolCells'
  BY <1>1, BlockCells
<1>6. \A b \in LiveBlocks : Cells!Cells(Block(c)) \cap Cells!Cells(b) = {}
  BY <1>1, BlockCells DEF LiveBlocks
<1>7. QED  BY <1>2, <1>3, <1>4, <1>5, <1>6 DEF Cells!Allocate, LiveBlocks, Block

LEMMA DeallocateImplements ==
    ASSUME Inv, NEW item \in live, Deallocate(item)
    PROVE  Cells!Deallocate
<1>1. live' = live \ {item}
  BY DEF Deallocate
<1>2. LiveBlocks' = LiveBlocks \ {Block(item)} /\ Block(item) \in LiveBlocks
  BY <1>1, BlocksDiffer DEF LiveBlocks
<1>3. PoolCells' = PoolCells
  BY DeallocateStep
<1>4. QED  BY <1>2, <1>3 DEF Cells!Deallocate, LiveBlocks, Block

LEMMA ResetImplements ==
    ASSUME Inv, Reset
    PROVE  Cells!Reset
<1>1. live' = {} /\ PoolCells' = {}
  BY ResetStep DEF Reset
<1>2. QED  BY <1>1 DEF Cells!Reset

LEMMA StepImplements ==
    ASSUME Inv, Inv', [NextItems]_itemVars
    PROVE  [Cells!Next]_(Cells!absVars)
<1>1. CASE AllocateFree
  <2>1. live' = live \cup {Head(freeItem)}
    BY <1>1 DEF AllocateFree
  <2>2. QED  BY <1>1, <2>1, AllocateFreeStep, AllocateImplements DEF Cells!Next
<1>2. CASE AllocateWithNewPool
  BY <1>2, NewPoolStep, AllocateImplements DEF Cells!Next
<1>3. CASE \E item \in live : Deallocate(item)
  BY <1>3, DeallocateImplements DEF Cells!Next
<1>4. CASE Reset
  BY <1>4, ResetImplements DEF Cells!Next
<1>5. CASE UNCHANGED itemVars
  BY <1>5 DEF itemVars, Cells!absVars, PoolCells
<1>6. QED  BY <1>1, <1>2, <1>3, <1>4, <1>5 DEF NextItems

(* Every step of ItemAllocator is one the callers' abstract allocator may  *)
(* take: cells handed out are fresh, inside the pools, and overlap no      *)
(* other cell that is held.                                                *)
THEOREM Implements == SpecItems => ImplementsAllocator
<1>1. InitItems => Cells!Init
  BY DEF InitItems, Cells!Init
<1>2. Inv /\ Inv' /\ [NextItems]_itemVars => [Cells!Next]_(Cells!absVars)
  BY StepImplements
<1>3. QED  BY <1>1, <1>2, InvariantHolds, PTL DEF SpecItems, ImplementsAllocator, Cells!Spec
=============================================================================
