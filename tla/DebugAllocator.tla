---------------------------- MODULE DebugAllocator ----------------------------
(***************************************************************************)
(* The allocator of src/debug/c_allocator.c that tests run on: every block *)
(* has an entry in a table of chains and a guard word at either end that   *)
(* holds its address.  The words are those of a 32 bit build: the source   *)
(* says that writing the guards works only there.                          *)
(***************************************************************************)
EXTENDS Integers, Sequences, FiniteSets, SequencesExt

CONSTANTS
    Addresses,        \* the pointers debug_malloc() may return
    AllocationTable,  \* debug_ALLOCATION_TABLE
    IntSizes,         \* the sizes asked for, in ints
    Overwritten       \* an int its user wrote, which is no address of a block

ASSUME DebugAllocatorAssumption ==
    /\ Addresses \subseteq Nat \ {0}
    /\ AllocationTable \in Nat \ {0}
    /\ IntSizes \subseteq Nat
    /\ Overwritten \notin Addresses

VARIABLES
    allocations,  \* allocData: the entries of each slot, newest first
    initialised,  \* whether allocData exists
    data,         \* data[p]: the ints of block p between and with its guards
    complaint     \* what the last call wrote to stderr, and what it was given

debugAllocVars == <<allocations, initialised, data, complaint>>

HASH(p) == (p \div 4) % AllocationTable

NoComplaint == [given |-> <<>>, alarms |-> {}, leaks |-> 0, leakSize |-> 0]
Complaining(args, as) == [NoComplaint EXCEPT !.given = args, !.alarms = as]

EmptyTable == [i \in 0 .. AllocationTable - 1 |-> <<>>]

InitDebugAllocator ==
    /\ allocations = EmptyTable
    /\ initialised = TRUE
    /\ data = [p \in {} |-> <<>>]
    /\ complaint = NoComplaint

(* The blocks malloc() handed out and free() did not get back. *)
InHeap == DOMAIN data

(* The front guard, the block and the back guard. *)
Guarded(p, size) ==
    [i \in 1 .. size + 2 |-> IF i \in {1, size + 2} THEN p ELSE Overwritten]

(* debug_malloc().  Without memory it aborts the program. *)
DebugMalloc ==
    /\ initialised
    /\ \E p \in Addresses \ InHeap, size \in IntSizes :
        /\ data' = [q \in InHeap \cup {p} |-> IF q = p THEN Guarded(p, size) ELSE data[q]]
        /\ allocations' = [allocations EXCEPT
                             ![HASH(p)] = <<[ptr |-> p, size |-> size]>> \o @]
    /\ complaint' = NoComplaint
    /\ UNCHANGED initialised

(* The program writes the int in front of a block or behind it. *)
Overrun ==
    /\ \E p \in InHeap : \E i \in {1, Len(data[p])} : data' = [data EXCEPT ![p][i] = Overwritten]
    /\ UNCHANGED <<allocations, initialised, complaint>>

(* Where the entry of p is on its chain, 0 if it has none. *)
EntryAt(p) == SelectInSeq(allocations[HASH(p)], LAMBDA e : e.ptr = p)

(* Mutant: the word behind the block is not looked at. *)
CorruptedInFront(p, size) == data[p][1] # p
Corrupted(p, size) == data[p][1] # p \/ data[p][size + 2] # p

(* debug_free() of a block it finds.  What is wrong with it is reported,   *)
(* and the block freed all the same.                                       *)
DebugFree ==
    /\ initialised
    /\ \E p \in Addresses, intSize \in IntSizes :
        LET chain == allocations[HASH(p)]
            at == EntryAt(p)
        IN  /\ at # 0
            /\ complaint' = Complaining(<<p, intSize>>,
                 (IF Corrupted(p, chain[at].size) THEN {"corrupted"} ELSE {})
                 \cup (IF intSize # chain[at].size THEN {"size"} ELSE {}))
            /\ allocations' = [allocations EXCEPT ![HASH(p)] = RemoveAt(@, at)]
            /\ data' = [q \in InHeap \ {p} |-> data[q]]
    /\ UNCHANGED initialised

(* debug_free() of NULL, or of a pointer that has no entry. *)
DebugFreeRejected ==
    /\ initialised
    /\ \/ complaint' = Complaining(<<>>, {"null"})
       \/ \E p \in Addresses :
            EntryAt(p) = 0 /\ complaint' = Complaining(<<p>>, {"unknown"})
    /\ UNCHANGED <<allocations, initialised, data>>

(* The entries met by going through the table slot by slot. *)
Leaked == FlattenSeq([i \in 1 .. AllocationTable |-> allocations[i - 1]])

(* debug_destroyAllocator(): the entries left are leaks, which stay in the *)
(* heap.  Sizes are reported in bytes.                                     *)
DebugDestroy ==
    /\ initialised
    /\ complaint' = [NoComplaint EXCEPT
                       !.leaks = Len(Leaked),
                       !.leakSize = FoldLeft(LAMBDA sum, e : sum + 4 * e.size, 0, Leaked)]
    /\ initialised' = FALSE
    /\ allocations' = EmptyTable
    /\ UNCHANGED data

(* debug_initAllocator() for another test: the table starts empty. *)
DebugInit ==
    /\ ~initialised
    /\ initialised' = TRUE
    /\ complaint' = NoComplaint
    /\ UNCHANGED <<allocations, data>>

NextDebugAllocator ==
    \/ DebugMalloc \/ Overrun \/ DebugFree \/ DebugFreeRejected \/ DebugDestroy \/ DebugInit

SpecDebugAllocator == InitDebugAllocator /\ [][NextDebugAllocator]_debugAllocVars

Registered == {e.ptr : e \in UNION {ToSet(allocations[i]) : i \in DOMAIN allocations}}
SizeOf(p) == LET chain == allocations[HASH(p)] IN chain[EntryAt(p)].size

(* Refinement of GuardedHeap: a block has one entry, found on its chain    *)
(* whatever was freed around it, a block that was not overrun is never     *)
(* called corrupted and one that was always is, and the size is complained *)
(* about when it is not the one the block was allocated with.              *)
Heap == INSTANCE GuardedHeap WITH
          held <- [p \in Registered |-> SizeOf(p)],
          spoilt <- {p \in Registered : data[p][1] # p \/ data[p][Len(data[p])] # p},
          told <- complaint

ImplementsGuardedHeap == Heap!SpecHeap
=============================================================================
