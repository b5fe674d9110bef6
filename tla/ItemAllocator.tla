---------------------------- MODULE ItemAllocator ----------------------------
(***************************************************************************)
(* base::ItemAllocator (include/base/ItemAllocator.h): pools of            *)
(* numberOfItems cells of one size, all linked into one free list when the *)
(* pool is added.  An address is the number of a cell.  The list, chained  *)
(* through AllocCell_t::next in the code, is the sequence of its cells.    *)
(***************************************************************************)
EXTENDS Integers, Sequences

CONSTANTS
    Pools,          \* the pools the C++ heap can provide
    First,          \* First[p]: address of the first cell of pool p
    NumberOfItems   \* cells per pool

ASSUME ItemAssumption ==
    /\ NumberOfItems \in Nat \ {0, 1}   \* assert(nbItems > 1)
    /\ First \in [Pools -> Nat]
    /\ \A p, q \in Pools : p # q => \/ First[p] + NumberOfItems <= First[q]
                                    \/ First[q] + NumberOfItems <= First[p]

VARIABLES
    pool,      \* the linked pools, newest first
    owned,     \* pools obtained from new and not yet deleted
    freeItem,  \* the list of free cells
    live       \* cells the callers hold

itemVars == <<pool, owned, freeItem, live>>

CellsOf(p) == First[p] .. (First[p] + NumberOfItems - 1)

InitItems ==
    /\ pool = <<>>
    /\ owned = {}
    /\ freeItem = <<>>
    /\ live = {}

(* Mutant: the last cell is not linked. *)
PoolListShort(p) == [k \in 1 .. NumberOfItems - 1 |-> First[p] + k - 1]

(* The list addPool builds: cell k is linked to cell k + 1, the last to none. *)
PoolList(p) == [k \in 1 .. NumberOfItems |-> First[p] + k - 1]

AllocateFree ==
    /\ freeItem # <<>>
    /\ freeItem' = Tail(freeItem)
    /\ live' = live \cup {Head(freeItem)}
    /\ UNCHANGED <<pool, owned>>

(* Mutant: the new pool is not linked to the others. *)
AllocateUnlinkedPool ==
    /\ freeItem = <<>>
    /\ \E p \in Pools \ owned :
        /\ pool' = <<p>>
        /\ owned' = owned \cup {p}
        /\ freeItem' = Tail(PoolList(p))
        /\ live' = live \cup {Head(PoolList(p))}

(* A new that throws in addPool has changed nothing yet: no action. *)
AllocateWithNewPool ==
    /\ freeItem = <<>>
    /\ \E p \in Pools \ owned :
        /\ pool' = <<p>> \o pool
        /\ owned' = owned \cup {p}
        /\ freeItem' = Tail(PoolList(p))
        /\ live' = live \cup {Head(PoolList(p))}

Deallocate(item) ==
    /\ freeItem' = <<item>> \o freeItem
    /\ live' = live \ {item}
    /\ UNCHANGED <<pool, owned>>

(* Mutant: the free list keeps the cells of the deleted pools. *)
ResetKeepingList ==
    /\ pool' = <<>>
    /\ owned' = owned \ {pool[i] : i \in 1 .. Len(pool)}
    /\ live' = {}
    /\ UNCHANGED freeItem

(* reset() and the destructor: every linked pool is deleted. *)
Reset ==
    /\ pool' = <<>>
    /\ freeItem' = <<>>
    /\ owned' = owned \ {pool[i] : i \in 1 .. Len(pool)}
    /\ live' = {}

NextItems ==
    \/ AllocateFree
    \/ AllocateWithNewPool
    \/ \E item \in live : Deallocate(item)
    \/ Reset

SpecItems == InitItems /\ [][NextItems]_itemVars

-----------------------------------------------------------------------------
(* Properties *)

(* Type invariant. *)
ItemsTypeOK ==
    /\ pool \in Seq(Pools)
    /\ owned \subseteq Pools
    /\ freeItem \in Seq(Nat)
    /\ live \subseteq Nat

FreeCells == {freeItem[i] : i \in 1 .. Len(freeItem)}
PoolCells == UNION {CellsOf(p) : p \in owned}

(* Every cell of every pool is either held by a caller or exactly once on  *)
(* the free list: addPool links them all, none is linked twice, and no     *)
(* order of allocations, deallocations and resets loses one.               *)
EveryCellOnce ==
    /\ FreeCells \cup live = PoolCells
    /\ FreeCells \cap live = {}
    /\ \A i, j \in 1 .. Len(freeItem) : i # j => freeItem[i] # freeItem[j]

(* "free all pools": the pools obtained from new are those reset() will    *)
(* reach by walking the links, so none is leaked.                          *)
OwnedPoolsAreLinked == owned = {pool[i] : i \in 1 .. Len(pool)}

Cells == INSTANCE Allocator WITH
    memory <- PoolCells,
    live <- {[data |-> c, words |-> 1] : c \in live}

(* Refinement: ItemAllocator implements the allocator its callers rely on. *)
ImplementsAllocator == Cells!Spec
=============================================================================
