---------------------------- MODULE DataAllocator ----------------------------
(***************************************************************************)
(* base::DataAllocator (include/base/DataAllocator.h,                      *)
(* src/base/DataAllocator.cpp): blocks are cut from the front of a pool,   *)
(* deallocated blocks wait on one free list per size, and a new pool is    *)
(* linked when the current one is too short.                               *)
(*                                                                         *)
(* An address is the number of a machine word (uintptr_t).  A free list,   *)
(* chained through the first word of its blocks in the code, is the        *)
(* sequence of those blocks here, head first; the element Wild stands for  *)
(* a pointer read from a word nobody initialised.                          *)
(***************************************************************************)
EXTENDS Integers, Sequences, FiniteSets

CONSTANTS
    Pools,        \* the pools the C++ heap can provide
    Base,         \* Base[p]: address of the first word of mem[] in pool p
    ChunkSize,    \* CHUNK_SIZE: words in a pool
    WordInts,     \* 32 bit integers in a word: 2 or 1 (64 or 32 bit build)
    DebugOffset,  \* 1 without NDEBUG: the header that keeps the size
    FreeLists,    \* initial capacity of freeMem: 145
    INC,          \* array_t's increase step
    Sizes,        \* sizes the callers ask for, in integers
    CanThrow,     \* whether operator new may throw std::bad_alloc
    PtrLimit,     \* bound: no failing request once freePtr is beyond this
    Wild          \* an uninitialised pointer

ASSUME PoolsAssumption ==
    /\ Base \in [Pools -> Nat]
    /\ ChunkSize \in Nat \ {0}
    \* Pool_t holds its link in front of mem[], so pools never touch.
    /\ \A p, q \in Pools : p # q => \/ Base[p] + ChunkSize < Base[q]
                                    \/ Base[q] + ChunkSize < Base[p]

ASSUME SizesAssumption ==
    /\ WordInts \in {1, 2}
    /\ DebugOffset \in {0, 1}
    /\ FreeLists \in Nat \ {0}
    /\ INC \in Nat \ {0}
    /\ Sizes \subseteq Nat
    /\ CanThrow \in BOOLEAN
    /\ PtrLimit \in Nat
    /\ Wild \notin Nat

VARIABLES
    pools,    \* the linked pools, memPool first
    owned,    \* pools obtained from new and not yet deleted
    freePtr,  \* current free position
    endFree,  \* end of the current pool
    freeMem,  \* array_t of free lists
    live,     \* blocks the callers hold: address of the header, size asked for
    status    \* "ok", "wild" once an uninitialised pointer was used, "destroyed"

allocatorVars == <<pools, owned, freePtr, endFree, freeMem, live, status>>

Lists == INSTANCE ArrayT WITH Zero <- <<>>, Junk <- {<<>>, <<Wild>>}

(* Words for n integers; the size of a block with its debug header. *)
arch_size(n) == IF WordInts = 2 THEN (n + 1) \div 2 ELSE n
BlockWords(n) == arch_size(n) + DebugOffset

PoolEnd(p) == Base[p] + ChunkSize
FreeList(w) == Lists!ArrayGet(freeMem, w)

(* replace(i, d) on the array f, with the old head stored in the block at d. *)
Pushed(f, i, d) ==
    { Lists!Stored(g, i, <<d>> \o g.data[i]) : g \in Lists!Grown(f, i) }

StartOf(p) ==
    /\ freePtr' = Base[p]
    /\ endFree' = PoolEnd(p)

InitAllocator ==
    /\ \E p \in Pools :
        /\ pools = <<p>>
        /\ owned = {p}
        /\ freePtr = Base[p]
        /\ endFree = PoolEnd(p)
    /\ freeMem = Lists!NewArray(FreeLists)
    /\ live = {}
    /\ status = "ok"

-----------------------------------------------------------------------------
(* allocate(n) *)

HandOut(d, n) == live' = live \cup {[data |-> d, ints |-> n]}

(* Mutant: the block handed out stays on its list. *)
AllocateWithoutPop(n) ==
    /\ FreeList(BlockWords(n)) # <<>>
    /\ Head(FreeList(BlockWords(n))) # Wild
    /\ HandOut(Head(FreeList(BlockWords(n))), n)
    /\ UNCHANGED <<pools, owned, freePtr, endFree, freeMem, status>>

(* allocate(0) returns nullptr and changes nothing: no action. *)
AllocateFromFreeList(n) ==
    LET w == BlockWords(n)
    IN  /\ FreeList(w) # <<>>
        /\ Head(FreeList(w)) # Wild
        /\ freeMem' = Lists!Stored(freeMem, w, Tail(FreeList(w)))
        /\ HandOut(Head(FreeList(w)), n)
        /\ UNCHANGED <<pools, owned, freePtr, endFree, status>>

(* The head of the list is garbage: *data dereferences it. *)
AllocateFollowsGarbage(n) ==
    /\ FreeList(BlockWords(n)) # <<>>
    /\ Head(FreeList(BlockWords(n))) = Wild
    /\ status' = "wild"
    /\ UNCHANGED <<pools, owned, freePtr, endFree, freeMem, live>>

(* Mutant: the limit is off by one. *)
AllocateBeyondEnd(n) ==
    /\ FreeList(BlockWords(n)) = <<>>
    /\ freePtr + BlockWords(n) <= endFree + 1
    /\ freePtr' = freePtr + BlockWords(n)
    /\ HandOut(freePtr, n)
    /\ UNCHANGED <<pools, owned, endFree, freeMem, status>>

AllocateFromPool(n) ==
    LET w == BlockWords(n)
    IN  /\ FreeList(w) = <<>>
        /\ freePtr + w <= endFree
        /\ freePtr' = freePtr + w
        /\ HandOut(freePtr, n)
        /\ UNCHANGED <<pools, owned, endFree, freeMem, status>>

(* The pool is too short for n, and no free block fits. *)
PoolExhausted(n) ==
    /\ FreeList(BlockWords(n)) = <<>>
    /\ freePtr + BlockWords(n) > endFree

(* Mutant: the leftover is lost. *)
ForgetLeftover == UNCHANGED freeMem

(* Store memory left from the pool. *)
StoreLeftover ==
    LET memLeft == endFree - freePtr
    IN  IF memLeft = 0
        THEN UNCHANGED freeMem
        ELSE freeMem' \in Pushed(freeMem, arch_size(memLeft), freePtr)

AllocateFromNewPool(n) ==
    /\ PoolExhausted(n)
    /\ freePtr <= endFree
    /\ StoreLeftover
    /\ \E p \in Pools \ owned :
        /\ pools' = <<p>> \o pools
        /\ owned' = owned \cup {p}
        /\ freePtr' = Base[p] + BlockWords(n)
        /\ endFree' = PoolEnd(p)
        /\ HandOut(Base[p], n)
    /\ UNCHANGED status

(* A new throws: freePtr has been advanced already.  It is either the new  *)
(* of the pool, with the leftover stored, or the growth of freeMem, for an *)
(* index at or above its capacity.  Once freePtr is beyond endFree,        *)
(* memLeft wraps to about 2^32 and the growth asks for 2^31 pointers.      *)
AllocateThrows(n) ==
    /\ CanThrow
    /\ PoolExhausted(n)
    /\ freePtr <= PtrLimit
    /\ \/ freePtr <= endFree /\ StoreLeftover
       \/ /\ freePtr <= endFree => arch_size(endFree - freePtr) >= freeMem.capa
          /\ UNCHANGED freeMem
    /\ freePtr' = freePtr + BlockWords(n)
    /\ UNCHANGED <<pools, owned, endFree, live, status>>

(* That growth succeeds, and a word outside the pool is overwritten. *)
AllocateStoresBeyondPool(n) ==
    /\ PoolExhausted(n)
    /\ freePtr > endFree
    /\ status' = "wild"
    /\ UNCHANGED <<pools, owned, freePtr, endFree, freeMem, live>>

-----------------------------------------------------------------------------
(* Mutant: the first word of the current pool is excluded. *)
InLinkedPoolExclusive(d) ==
    \/ Base[Head(pools)] < d /\ d < freePtr
    \/ \E i \in 2 .. Len(pools) : Base[pools[i]] <= d /\ d < PoolEnd(pools[i])

InLinkedPool(d) ==
    \/ Base[Head(pools)] <= d /\ d < freePtr
    \/ \E i \in 2 .. Len(pools) : Base[pools[i]] <= d /\ d < PoolEnd(pools[i])

OnList(d, w) == \E j \in 1 .. Len(FreeList(w)) : FreeList(w)[j] = d

(* hasInPools(data, w), when its search of the list ends. *)
HasInPools(d, w) == InLinkedPool(d) /\ ~OnList(d, w)

(* It does not end, but dereferences an uninitialised pointer, unless it   *)
(* meets d first: Wild is the last element of a list.                      *)
SearchReadsGarbage(d, w) == InLinkedPool(d) /\ ~OnList(d, w) /\ OnList(Wild, w)

(* Mutants: a merged block is put on its list as well; neither is done. *)
DeallocateTwice(b) ==
    /\ freePtr' = IF b.data + BlockWords(b.ints) = freePtr THEN b.data ELSE freePtr
    /\ freeMem' \in Pushed(freeMem, BlockWords(b.ints), b.data)
    /\ live' = live \ {b}
    /\ UNCHANGED <<pools, owned, endFree, status>>

DeallocateNowhere(b) ==
    /\ live' = live \ {b}
    /\ UNCHANGED <<pools, owned, freePtr, endFree, freeMem, status>>

(* The first assertion of deallocate, in a debug build, calls hasInPools.  *)
(* The last one meets no garbage that the first has not met.               *)
DeallocateFollowsGarbage(b) ==
    /\ DebugOffset = 1 /\ SearchReadsGarbage(b.data, BlockWords(b.ints))
    /\ status' = "wild"
    /\ UNCHANGED <<pools, owned, freePtr, endFree, freeMem, live>>

(* deallocate(ptr, size) by a caller that holds the block and knows its size. *)
Deallocate(b) ==
    LET w == BlockWords(b.ints)
    IN  /\ DebugOffset = 1 => ~SearchReadsGarbage(b.data, w)
        /\ IF b.data + w = freePtr
           THEN freePtr' = b.data /\ UNCHANGED freeMem
           ELSE freeMem' \in Pushed(freeMem, w, b.data) /\ UNCHANGED freePtr
        /\ live' = live \ {b}
        /\ UNCHANGED <<pools, owned, endFree, status>>

(* Mutants: the base pool is dropped; the free lists are kept. *)
ResetDroppingBase ==
    /\ pools' = Tail(pools)
    /\ StartOf(Head(pools))
    /\ freeMem' = Lists!Cleared(freeMem)
    /\ live' = {}
    /\ UNCHANGED <<owned, status>>

ResetKeepingLists ==
    /\ pools' = <<Head(pools)>>
    /\ StartOf(Head(pools))
    /\ live' = {}
    /\ UNCHANGED <<owned, freeMem, status>>

(* reset(): memPool->next is cleared before the loop that would walk it, *)
(* so the loop deletes nothing.  The callers forfeit their blocks.       *)
ResetAllocator ==
    /\ pools' = <<Head(pools)>>
    /\ StartOf(Head(pools))
    /\ freeMem' = Lists!Cleared(freeMem)
    /\ live' = {}
    /\ UNCHANGED <<owned, status>>

(* ~DataAllocator(): the linked pools are deleted. *)
Destroy ==
    /\ status' = "destroyed"
    /\ owned' = owned \ {pools[i] : i \in 1 .. Len(pools)}
    /\ pools' = <<>>
    /\ live' = {}
    /\ UNCHANGED <<freePtr, endFree, freeMem>>

Allocate(n) ==
    \/ AllocateFromFreeList(n)
    \/ AllocateFollowsGarbage(n)
    \/ AllocateFromPool(n)
    \/ AllocateFromNewPool(n)
    \/ AllocateThrows(n)
    \/ AllocateStoresBeyondPool(n)

NextAllocator ==
    /\ status = "ok"
    /\ \/ \E n \in Sizes \ {0} : Allocate(n)
       \/ \E b \in live : Deallocate(b) \/ DeallocateFollowsGarbage(b)
       \/ ResetAllocator
       \/ Destroy

SpecAllocator == InitAllocator /\ [][NextAllocator]_allocatorVars

-----------------------------------------------------------------------------
(* Properties *)

ListIndices == 0 .. freeMem.capa - 1

IsArray(f) ==
    /\ f.capa \in Nat \ {0}
    /\ f.data \in [0 .. f.capa - 1 -> Seq(Nat \cup {Wild})]

(* Type invariant: every variable has its type, the pools are linked once. *)
AllocatorTypeOK ==
    /\ pools \in Seq(Pools)
    /\ \A i, j \in 1 .. Len(pools) : i # j => pools[i] # pools[j]
    /\ owned \subseteq Pools
    /\ \A i \in 1 .. Len(pools) : pools[i] \in owned
    /\ freePtr \in Nat
    /\ endFree \in Nat
    /\ IsArray(freeMem)
    /\ live \subseteq [data : Nat, ints : Sizes \ {0}]
    /\ status \in {"ok", "wild", "destroyed"}
    /\ status # "destroyed" => pools # <<>>

(* The callers' requests satisfy the precondition intSize <= CHUNK_SIZE as *)
(* the code needs it, with the debug header counted.                       *)
SizesFit == \A n \in Sizes : BlockWords(n) <= ChunkSize

Apart(d, w, e, v) == d + w <= e \/ e + v <= d

(* The block of w words at d overlaps no block of the free lists of f. *)
ApartFromFree(f, d, w) ==
    \A v \in 0 .. f.capa - 1 : \A j \in 1 .. Len(f.data[v]) :
        f.data[v][j] # Wild => Apart(f.data[v][j], v, d, w)

FreeApart(f) ==
    \A v, w \in 0 .. f.capa - 1 :
        \A i \in 1 .. Len(f.data[v]), j \in 1 .. Len(f.data[w]) :
            (<<v, i>> # <<w, j>> /\ f.data[v][i] # Wild /\ f.data[w][j] # Wild)
                => Apart(f.data[v][i], v, f.data[w][j], w)

LiveApart ==
    \A b, c \in live :
        b # c => Apart(b.data, BlockWords(b.ints), c.data, BlockWords(c.ints))

LiveFreeApart ==
    \A b \in live : ApartFromFree(freeMem, b.data, BlockWords(b.ints))

UnusedApart ==
    freePtr <= endFree =>
        /\ \A b \in live :
              Apart(b.data, BlockWords(b.ints), freePtr, endFree - freePtr)
        /\ ApartFromFree(freeMem, freePtr, endFree - freePtr)

(* No word has two owners: the blocks the callers hold, the blocks on the  *)
(* free lists and the unused end of the current pool never overlap,        *)
(* whatever mixture of merging, list reuse, leftovers and failing news     *)
(* produced them.                                                          *)
NoOverlap == LiveApart /\ LiveFreeApart /\ FreeApart(freeMem) /\ UnusedApart

InPools(ps, d, w) ==
    \E i \in 1 .. Len(ps) : Base[ps[i]] <= d /\ d + w <= PoolEnd(ps[i])

FreeInPools(ps, f) ==
    \A v \in 0 .. f.capa - 1 : \A j \in 1 .. Len(f.data[v]) :
        f.data[v][j] # Wild => InPools(ps, f.data[v][j], v)

(* Every block handed out or waiting on a free list lies inside one pool   *)
(* that is still linked: deallocated and leftover memory of a pool never   *)
(* outlives the pool, and no block straddles the end of one.               *)
BlocksInPools ==
    status # "destroyed" =>
        /\ \A b \in live : InPools(pools, b.data, BlockWords(b.ints))
        /\ FreeInPools(pools, freeMem)

(* The unused end of the current pool ends where the pool does, so that a  *)
(* request is refused exactly when it would leave the pool; after a        *)
(* failing new freePtr may be beyond it, and stays there.                  *)
UnusedInPool ==
    status # "destroyed" =>
        /\ endFree = PoolEnd(Head(pools))
        /\ Base[Head(pools)] <= freePtr

(* List 0 stays empty: every block has a word to hold its link. *)
NoEmptyBlocks == freeMem.data[0] = <<>>

(* The inductive invariant: what the parts above need of each other. *)
Inv == AllocatorTypeOK /\ NoOverlap /\ BlocksInPools /\ UnusedInPool /\ NoEmptyBlocks

(* assert(hasInPools(data, intSize)) of deallocate, for a caller that      *)
(* returns a block it holds with the size it asked for: evaluating it      *)
(* needs no uninitialised pointer while blocks are smaller than the        *)
(* initial capacity of freeMem, and whenever it needs none it is true.     *)
LiveBlocksAreInPools ==
    \A b \in live :
        LET w == BlockWords(b.ints)
        IN  /\ w < FreeLists => ~SearchReadsGarbage(b.data, w)
            /\ ~SearchReadsGarbage(b.data, w) => HasInPools(b.data, w)

(* assert(!hasInPools(data, intSize)) at the end of deallocate, whether    *)
(* the block was merged with the unused end or pushed on its list.         *)
FreedBlocksAreNotInPools ==
    [][\A b \in live :
         Deallocate(b) => ~HasInPools(b.data, BlockWords(b.ints))']_allocatorVars

(* Only the lists that a growth of freeMem added can hold garbage: a       *)
(* caller that stays below the initial capacity never meets it.            *)
GarbageOnlyInGrownLists ==
    \A w \in 0 .. FreeLists - 1 :
        w \in ListIndices => \A j \in 1 .. Len(FreeList(w)) : FreeList(w)[j] # Wild

(* "Deallocate all pools except the base": what reset() says it does. *)
ResetDeletesPools == [][ResetAllocator => owned' = {Head(pools)}]_allocatorVars

(* The allocator implements what its callers rely on. *)
PoolCells == UNION { Base[pools[i]] .. (PoolEnd(pools[i]) - 1) : i \in 1 .. Len(pools) }

Blocks == INSTANCE Allocator WITH
    memory <- PoolCells,
    live <- { [data |-> b.data, words |-> BlockWords(b.ints)] : b \in live }

(* Refinement: each step hands out one fresh block that overlaps no block  *)
(* in use, takes one back, forfeits all, or is invisible to the callers.   *)
ImplementsAllocator == Blocks!Spec
=============================================================================
