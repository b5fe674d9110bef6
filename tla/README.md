# UUtils in TLA+

UUtils is the utility library of the UPPAAL model checker: memory allocators,
containers that are linked by hand, hash tables, and helpers for debugging,
timing and randomness. The library is sequential; what makes it hard is the
ownership of raw memory over long sequences of calls, caches of state that go
stale when a table grows, and operations that fail half-way. This directory
holds TLA+ specifications of it, the TLC configurations that check them on small
instances, and TLAPS proofs.

Paths below are relative to the repository.

## Inventory

| Component | State | Operations | Hard behaviour | Correct when |
|---|---|---|---|---|
| `DataAllocator` (`src/base/DataAllocator.cpp`) | linked pools, unused end of the current pool, one free list per block size in an `array_t` | allocate, deallocate, reset, destroy, printStats, hasInPools | merging, reuse, leftovers; a list array that grows; `new` that throws | no word has two owners, every block is in a linked pool, nothing is leaked |
| `array_t`, `pointer_t` (`include/base`) | data, capacity | get, set, replace, add, reset | growth on write | values survive growth, unwritten positions read 0 |
| `ItemAllocator` (`include/base`) | pools, one free list of cells | allocate, deallocate, reset | reset between allocations | every cell is free once or in use |
| `PointerTable` (`src/hash`) | slots with tombstones, size, count | add, del, has, clear, == | probing over tombstones, rehash | it is a set |
| `AbstractTable`, `TableSingle`, `TableDouble` (`include/hash/tables.h`, `src/hash/tables.cpp`), linkables (`include/base/linkable.h`) | slots, chains, mask, counters | link, remove, incBuckets, reset, references, switch rehashing | rehash by one bit of `info`; counters in the same word | each bucket is on the chain its hash selects |
| `LinkableEnumerator` (`src/base/Enumerator.cpp`) | slot, prefetched node | getNextLinkable | the table changes meanwhile | each node that stays is returned once |
| Memory monitor (`src/debug/new.cpp`) | table of live pointers, statistics, pending position | remember, forget, prepareDelete | user pointers registered twice, stale positions, size bits | reports exactly the leaks |
| Debug allocator (`src/debug/c_allocator.c`) | table of allocations with guard words | malloc, free, init, destroy | pointers truncated on 64 bits; the guard behind a block is found by its recorded size | a corruption is reported, a correct program is not |
| `Timer` (`src/base/Timer.cpp`) | accumulated time, start of the current interval | pause, start, getElapsed | a clock that is set | every call returns the time that ran |
| `time_monitor` (`include/base/time.hpp`) | events, threshold, last looks at the clock | has_passed, next, reset | rates that change, bursts | a period is noticed; a steady rate is measured precisely |
| `Stats` (`src/base/stats.cpp`) | counters with sub-counters | count | first use through a sub-counter | counters count |
| Tracing (`include/debug/tracing.h`) | actors, entries | add, show, log, dump | references into a growing vector | a dump shows what was logged |
| `RandomGenerator` (`src/base/random.cpp`) | generator, shared seed | constructor, set_seed, draws | threads | distinct seeds |
| Bit strings (`bitstring.h`, `bitstring.c`, `generateBits` and its like in `src/debug/utils.cpp`) | an array of ints, an index table | set, reset, toggle, clear, generate, fix, unpack, check | masks at word boundaries | they are sets of positions |
| Hash functions (`src/hash/compute.cpp`) | registers, position in the data | loop, tail | tails of every length | each unit is mixed once |
| Stateless helpers (sequence filter, relation, short names, quantities of memory, collision counts, comparisons of ints) | none | | boundaries | they compute their definition |

`DataAllocator` keeps its free lists in an `array_t`. The hash tables own chains
of linkables, `LinkableEnumerator` walks a table it does not own, and `Stats` and
the memory monitor are built on the same linkables. Everything else is
independent. Components that are not modelled are listed below and, with the
reason, in `PROJECT.json`.

## Modules

| Module | Models |
|---|---|
| `Allocator` | what a caller of an allocator relies on (abstract) |
| `ArrayT` | `array_t` as operators, used by `DataAllocator` |
| `DataAllocator`, `DataAllocatorStats` | `base::DataAllocator`; what `printStats` reports |
| `ItemAllocator` | `base::ItemAllocator` |
| `PointerSet` | what `PointerTable.h` promises (abstract) |
| `PointerTable`, `PointerTablePair` | `uhash::PointerTable`; a second table next to it and `operator==` |
| `HashTable` | hash tables with single or double linked buckets |
| `HashEnumerator` | a hash table with an enumerator over it |
| `PointerRegistry` | what `monitor.h` promises (abstract) |
| `Monitor` | the memory monitor of `src/debug/new.cpp` |
| `GuardedHeap`, `DebugAllocator` | what a test relies on (abstract); the debug allocator |
| `BitSet`, `BitString` | a set of positions (abstract); bit strings and what is done to them |
| `HashCompute` | how the hash functions go through their data |
| `Helpers` | the stateless functions, one call each |
| `Timer`, `TimeMonitor`, `Stats`, `Tracing` | the classes of these names |
| `MCUtilities` | a program that uses one of the parts that do not call each other: `ItemAllocator`, `Monitor`, `DebugAllocator`, or one of the seven in the four lines before this one |
| `MCThrow` | a program that uses a `DataAllocator` or an enumerated table, where `new` may throw |
| other `MC...` | constants for TLC |
| `CountingLemmas` | facts on numbers, loops, finite sets and sums that several proofs use |
| `DataAllocatorProofs`, `ItemAllocatorProofs`, `PointerTableProofs`, `PointerTablePairProofs`, `HashTableProofs`, `DebugProofs`, `UtilityProofs` | theorems about the modules of these names; `DataAllocatorProofs` also covers `DataAllocatorStats`, `HashTableProofs` covers `HashEnumerator`, `DebugProofs` is about `Monitor` and `DebugAllocator`, and `UtilityProofs` about `Timer`, `Tracing`, `TimeMonitor`, `HashCompute`, `Stats`, `BitString` and `Helpers` |

**DataAllocator.** An address is a word number. `pools` is the list that starts
at `memPool`; a free list, which the code chains through the first word of each
block, is the sequence of its blocks. `live` records what callers hold, so that
deallocation is only asked for what was allocated, as the header demands.
`allocate` is split by where the block comes from: a free list, the current pool,
a new pool. Two more outcomes are what happens when `new` throws or is asked for far
too much, and two are uses of memory nobody initialised: `allocate` takes the head of a
list that a growth added (`AllocateFollowsGarbage`), and the search in the first assertion of
`deallocate`, which debug builds evaluate, follows it (`DeallocateFollowsGarbage`). After
these `status` is `"wild"` and the program is not followed any further. `WordInts` and `DebugOffset` select the 32
or 64 bit build and the header of debug builds. Cells of `freeMem` that a growth
adds hold nothing or `Wild`: a nondeterministic choice of what `new T[n]` leaves.
The allocation of a block and the write of the debug header are one step.

**ItemAllocator.** The free list built by `addPool` is `PoolList`.

**PointerTable.** Tables are modelled slot by slot; `Refilled` is the loop of `rehash`. `StopsAt` is the common form of
the probing loops; `last` records the call and its result. `Distinct` says that no
pointer is stored twice, which a deletion followed by `add` can break.
`PointerTablePair` adds a second table from which nothing is ever deleted, an
instance of the same module: it has to implement `PointerSet` without reservation,
the first one as long as it is `Distinct`.

**HashTable.** Chains are pointers: `mem` holds the slots, `next` and `previous` of
every bucket, and `Link` and `Unlink` are those of `linkable.h`. `Relinked` is the inner
loop of a rehash, which relinks one chain in the order of the code, and `Rehashed` the
outer one. `stored` records which buckets a caller
entered. A caller enters a bucket as `test/hash/test_tables.cpp` does: link, set
`info`, `incBuckets()`.

**HashEnumerator** composes the table with an enumerator. The table is changed only
in ways the enumerator can survive: buckets are entered, and buckets it has
returned are removed. A rehash, a reset, or an insertion whose rehash throws makes
the user drop it. `RehashThrows` lets the `new` of a rehash fail. `swap()` of two tables
is left out. `MCThrow` has such a table next to a `DataAllocator`; `used` says which of them
the program uses.

**Monitor.** `table` maps a slot to the sequence of its records (`Divided` is the loop of a
rehash over one of them); `ptr`, `size` and
`pos` of a record are those of the code. A record with a position carries the
`ExtensionBit` in its size, and one that a user remembered has the size `NOSIZE`.
`heap`, `prepared` and the `own` field of `report` belong to the specification: what
malloc handed out, and whether a position was given for the call that reports it.
An action is a whole `operator new`, `operator delete`, or function of `monitor.h`
with the `remember` or `forget` it calls. `rehash` may get no memory and then gives
up silently; a record may get none, and then `remember` throws out of `operator new`,
so that nobody gets the block (`lost`); the versions of `operator new` with `std::nothrow` are
`noexcept`, so that there the exception ends the program (`NewTerminates`). After the destructor (`status` is `"off"`) static objects may still be
created and freed; freeing a pointer that malloc did not return ends the behaviour as well
(`"crashed"`). The high-water marks that are only printed are left out. `PointerRegistry` is what a user of the monitor sees.

**The utilities**, the monitor and `ItemAllocator` do not call each other. `MCUtilities` is their disjoint union: `used`
says which of them the program uses, and a step is a step of that one, so that one run
checks them all without multiplying their states.

- `DebugAllocator`: `allocations` are the chains of the table, `data` the ints of the
  blocks that malloc handed out, guards included; `Overrun` is the user who writes next
  to a block. `complaint` holds what the last call wrote to stderr, and what it was
  given, so that `GuardedHeap` can say which complaints are justified. A leaked block
  stays in the heap and its address is not handed out again.
- `BitString`: an int is the set of its bits that are 1. The loops over masks are
  modelled by which bits they leave (`CutTo`, `FillUp`, `Highest`). `request` is the
  last call with its arguments; `BitSet` states what each call owes for them.
- `HashCompute`: a call is a `CallHash`, a step `HashLoop` for each pass of the loop and
  one `HashTail` for the switch. Data and mixing are left out: a round is the set of
  reads made between two mixes. `TailRead` has, for each case of the switch of murmur, the bytes
  it reads and the bits its mask keeps. Murmur is what a build contains: `compute.h` line 21
  always defines `MURMUR2_HASH1`, and the other three functions wait for a build without it.
- `Helpers`: each action calls a function with any of a set of arguments, `call` keeps
  both and the result.
- `Timer` and `TimeMonitor` count clock ticks. The timer runs next to a clock that may be
  set (`SetClock`); `ran` and `shifted` record what really happened, `elapsed` is what the last
  call of `getElapsed()` returned and `read` what it should have measured. It is a wall clock,
  although the header speaks of CPU time. The monitor meets
  programs whose events come at a steady pace and one (`pace` 0) whose events come in
  bursts and pauses; time is counted from the end of its last period.
- `Stats`: a chain of entries for each hash value; `calls` counts what was called.
- `Tracing`: `buffer` numbers the memory the vector of actors is in, and an entry keeps the
  number it was logged with, as the reference it is in the code.

Operators called a mutant in their comment are wrong versions of the definition
that follows. They are used by no specification: exchanged for the right one,
they make TLC find the property that guards against that mistake.

## Runs

| Run | Question | Result |
|---|---|---|
| `alloc_32debug` | `DataAllocator`, 32 bit debug build: one owner for each word, a block that was deallocated is in no pool, statistics | holds |
| `new_throws` | what is left when `new` throws. `DataAllocator`, 64 bit debug build with growing lists: the inductive invariant, where garbage may be and who meets it, the first assertion of `deallocate`, the refinement of `Allocator`. Single linked table that grows, may fail to grow, and is enumerated meanwhile: each bucket is returned once, and the enumeration ends | holds |
| `ptable_pair` | a table with deletions next to one without: probes end and find everything, both are sets, `==` is set equality | holds, while no pointer is stored twice |
| `hash_double` | double linked table that is doubled twice, with a reference counter in `info`: chains, back pointers, hash bits | holds |
| `utilities` | one at a time: the item allocator has every cell free once or in use, loses no pool and implements `Allocator`; the memory monitor, which may get no memory itself, records every allocation, has exact counters and an exact leak report, and implements `PointerRegistry`; bit strings are sets, every unit of the data is hashed once, helpers compute what they say, the debug allocator complains exactly when it should, every call of `getElapsed()` returns the running time, a period is noticed and a steady rate measured, calls are counted, when a trace may be dumped | holds |
| `alloc_reset` | does `reset` delete the pools? | violated: the link is cleared before the loop |
| `alloc_merge` | is a block that `deallocate` puts on a list, or merges, outside the unused end, as it asserts? | violated after a `new` that failed: `freePtr` has left its pool, and a block of another pool is merged with it |
| `ptable_add` | does `add` say which pointers are new? | violated: a pointer is stored twice |
| `monitor_position` | is a prepared position gone after the call it was for? | violated: `forget` keeps it when it succeeds |
| `trace_hidden` | are hidden actors kept out of a dump? | violated: an entry refers to memory that the vector of actors has left |
| `memory_digit` | is one digit printed behind the point of a quantity of memory? | violated: 2000 bytes are printed as `1.10kB` |
| `timer_last_call` | does `getElapsed()` return the time since its last call, as `Timer.h` says? | violated: a second call returns the time before the first one again; the tests of the timer, and `ElapsedIsRunningTime`, expect that |

What else the code does differently from what one would expect was met while
modelling, and is described in the model, but has no run of its own:

- the debug header makes a block of `CHUNK_SIZE` ints longer than a pool; the proofs
  and the runs keep to requests that fit (`SizesFit`);
- on 64 bits the leftover of a pool is put on the list of half its size;
- a growth of an `array_t` does not free the old array, and does not initialise the
  cells it adds, although an
  unwritten position is meant to read 0: a list of `freeMem` that a growth added may
  start with garbage, and `GarbageOnlyInGrownLists` says that no other does. The assertions of
  `deallocate` dereference it, so `LiveBlocksAreInPools` promises them for blocks smaller than
  the initial capacity only (all that are shorter than 145 words in the code);
- the comment of `incRef` asks for a table of at most 2^n slots for a reference mask
  of n bits; a rehash of such a table takes a bit of the counter for one of the hash.
  The table must have at least 2^n slots, and does in `hash_double`;
- `PointerTable::size()` counts a pointer twice once `add` stored it over a
  tombstone, and `==` then compares bags; `EqualIsSetEquality` therefore holds under
  `Distinct` only;
- `AbstractTable::rehash` doubles the mask before the `new` that may throw, so that
  the mask no longer fits the table; `new_throws` stops following it there;
- sizes of 2^31 bytes and more reach the extension bit of the monitor's records;
  `MonitorAssumption` excludes them;
- a block for which the monitor finds no memory to record is lost, and no leak report
  names it, unless the program asked for it with `std::nothrow`, and is terminated; and `maxOverhead`, "maximal overhead ever used", leaves out the two tables
  that exist during a rehash;
- `Stats::count` names a sub-counter after its counter when it creates both at once;
  `CallsAreCounted` allows for that one call;
- the postfix `++` of `sequence_filter` returns an iterator that is one further and
  does not move its own;
- `debug_malloc` stores guards of 32 bits, which on 64 bits never equal a pointer: the
  source says so (`FIXME`), and the model has 32 bit words;
- the tail of murmur reads up to three bytes behind its data, within the word they are in.

**Bounds.** Pools have 3 to 6 words and there are two or three of them, so every
request size meets an exact fit, a merge, a leftover and a change of pool;
`Sizes` has odd and even numbers of ints. `FreeLists` and `INC` are small where a
growth is wanted (145 and 8 in the code). `PtrLimit` bounds how far failing
requests push `freePtr`. The pointer tables have four pointers, five in
`ptable_add`, some of which share a home slot, and grow up to `MaxSize`; the retries
that force a rehash are 1 instead of 7 so that the limit is met. The hash tables have
four buckets, two on one chain whatever the size or until it has eight slots, and
`MaxTableSize` 4 or 16 instead of 2^26; in `new_throws` the table grows from one slot to two and
to four, and then the limit stops a growth that its load asks for. In
`hash_double` the two buckets with the same hash value are symmetric. The monitor starts with two slots instead of `INIT_SIZE`,
its two pointers share a chain, and `MaxBuckets` of 3 records makes it rehash and
lets a user remember a pointer twice, or one that is allocated as well; with
`ExtensionBit` 4 for 2^31, `NOSIZE` is 3 and the two sizes are all there are.
In `utilities`, bit strings have three words of two bits, so that bits are moved past a
whole word; data to be hashed goes through the loop of each function twice and through
every tail, on words of 64 bits; arrays to compare have two ints, of which any number is looked at; paths have up to six parts and quantities of memory are those around every
change of unit below a gigabyte, above which TLC cannot count; the debug allocator has
two slots for three addresses; the clocks have three and nine ticks, two of which are a millisecond for the timer, a period four and at most
`MaxEvents` events, of which a monitor that works needs less than forty; the
paces are one event each tick, in three, and in more than a period; two counters share a
hash value; and three actors besides the one of the constructor make the vector move twice.

**Deadlock** is checked where the system may always go on (`ptable_pair`,
`ptable_add`, `hash_double`). It is switched off where it may really
stop: `DataAllocator` ends with its destructor or with undefined behaviour, the enumerated
table with a rehash that throws, the monitor with a crash, and the utilities at the
bounds on what they count.

**Fairness.** `PeriodIsNoticed` assumes that the clock goes on (`Tick`) and that the program
goes on accounting for its events (`HasPassed`): `time_monitor` looks at the clock in
`has_passed()` only, and `burst` bounds the events of a tick until the clock has reached
its bound, where it stands still and events go on. `EnumerationEnds` assumes that whoever
has begun an enumeration goes on calling `getNextLinkable()` until it returns NULL, as the
loops over an enumerator do; nothing is assumed of the changes made to the table
meanwhile, which are bounded by nothing. Elsewhere no liveness is claimed; that the probe
loops of `PointerTable` end is stated as the invariant that makes them end
(`AtMostHalfFull`).

## Proofs

All theorems hold for every value of the constants that satisfies the named assumption
of the module; the invariants, action properties and refinements that the passing runs
check are among them, and only liveness is not. Each rests on an inductive invariant, with one lemma for each action.

**DataAllocator**, under `SizesFit` (every request fits a pool once the debug header is
counted, which `intSize <= CHUNK_SIZE` alone does not give).
`NoOverlap` is not inductive. A block cut from the current pool avoids the other
blocks only because the unused end does not overlap them (`UnusedApart`) and they
lie in pools that do not overlap the new one (`BlocksInPools`); `UnusedInPool` ties
the unused end to the first pool; and `NoEmptyBlocks` keeps blocks of no words,
whose link would overwrite a neighbour, off the lists. `Inv` is the conjunction of
these; TLC checks it in `new_throws`, and its parts under their own names in
`alloc_32debug`. There are lemmas for the two things done to a free list, taking its
head and pushing a block on a list of an array that may have grown. A leftover is shown
to be pushed on a list of at most its own size, which is where `arch_size` matters.
`HistoryInvariantHolds` adds where garbage may be. On these rest
`GarbageOnlyInGrownListsHolds`, `Implements`, the refinement of `Allocator`, and
`LiveBlocksAreInPoolsHolds`: for a block smaller than the initial list array the search of
`deallocate` reads no garbage, and where it reads none its assertion holds. Of larger blocks
nothing better is true. `FreedBlocksAreNotInPoolsHolds` needs `~CanThrow`: with a `new`
that fails the property is false, as `alloc_merge` shows.
What `printStats` reports rests on the conservation of words (`WordsInv`): the words of the
blocks that are held, of those that are listed and of the unused end add up to the words of
the pools. Each action moves words from one of these sums to another; a leftover is where
some could be lost, and on 64 bits they are. `StatsMatchLiveWithoutGarbage` therefore
assumes 32 bits (`WordInts = 1`) and that no `new` fails, and speaks of the states in which no
list head is uninitialised, which `printStats` would count as a block. When the initial table,
which has 145 lists in the code, has one for every request, the table never grows and there are
no other states (`StatsMatchLiveHolds`): a leftover is shorter than the request it is too short for.

**ItemAllocator**: every cell of a linked pool is held or once on the free list
(`EveryCellOnceHolds`), the linked pools are those that are owned
(`OwnedPoolsAreLinkedHolds`), and the refinement of `Allocator` (`Implements`).

**PointerTable.** The invariant says that `nbPointers` counts the occupied slots, that
these are at most half of the table, and that no slot between the home of a stored pointer
and its place is NULL. The loop of `rehash` is followed slot by slot (`CountingLemmas`).
From it: `TypeCorrect`, `AtMostHalfFullHolds`, `EveryEntryReachableHolds`,
`OnlyDeletionRemovesHolds` and `SetWhileDistinctHolds`. That the table is the set its header
promises (`Implements`, `AddReportsNewPointersHolds`) holds when no pointer may be deleted
(`Deletable = {}`), as `ptable_add` shows. The two proofs on pairs of tables use the
theorems of the one table twice: `EqualIsSetEqualityHolds` and `OtherImplementsSetHolds`.

**HashTable.** The invariant says that from each slot there is a chain, a finite sequence of
distinct buckets joined by `next` and, in double linked tables, by `previous`, of
exactly the stored buckets whose hash selects the slot, and that `info` keeps every bit of
the hash which a rehash looks at. The chain exists but is not computed: `Chain`, which follows
the pointers, is shown to be it afterwards. The two loops of the rehash are followed
bucket by bucket, and arithmetic on remainders shows that the bit looked at tells the two
halves of a chain apart. `BucketsOnTheirChainsHolds`,
`PreviousPointsBackHolds` and `CountIsExactHolds` assume `CountersFit`: the table starts with
a multiple of as many slots as there are values of a reference counter, without which the
property fails (see the list above). `HashBitsKeptHolds` needs no such hypothesis, and
`LoadIsBoundedHolds` excludes the aggressive table that starts with a single slot: there one
doubling per insertion is not enough.
`EnumeratedTableIsTable` carries all this over to `HashEnumerator`, whose own invariant is a
path from the prefetched bucket through the slots that are left: what is still to be returned
is on it, what was returned is not. `EnumeratesAllHolds` and `EnumeratesOnceHolds` follow.

**Monitor.** The invariant `MonInv` says that each record is on the chain of its hash and
that, until the destructor, a pointer has one record that is not a user's, of its
size, if it is held, and none if it is not. Records are counted by pointer and kind
on the one chain where they may be, and `Divided` is shown to keep these counts bit by bit of
the hash. From it: `AllocationsAreRecordedHolds` and the refinement `Implements` of
`PointerRegistry`. `CountersAreExactHolds` has an invariant of its own, `CountInv`: what the
counters count is finite and they agree with it. Each call is a bijection between the places
of the records before and after it (`Moves`), all but the record that is linked or unlinked;
a rehash is one as well, put together from those of its slots. A bijection keeps the number
of records and the sum of their sizes, which is a number of bytes (`Units`).
`LeakReportIsExactHolds`: the report is a fold over the records of all slots in a row, shown
to count, for each size, those among the first `k` records that have it; the last of these
counts, by `MonInv`, the pointers of that size that are still held.

**DebugAllocator.** `ImplementsGuardedHeapHolds` is the refinement of `GuardedHeap`, for any
addresses, sizes and number of slots. The invariant (`DebugInv`) says that each entry is on the
chain of its pointer, that no pointer has two, and that its block is in the heap and as long
as the entry says, so that the guard behind it is looked up at the right place. The refinement
mapping takes what is held from the entries, and a guard that is not the address for a block
somebody wrote next to. The number and the sum at the end (`CloseHeap`) come from a loop over
slots and chains: the entries in a row are a bijection to the blocks that are held.

**Timer and Tracing**: `ElapsedIsRunningTimeHolds`, of what each call returned, from the
invariant that what was measured is what ran; `MovedWhenAddedToHolds`.

**TimeMonitor.** `SteadyRateIsPreciseHolds`, for any period and pace. The invariant (`PaceInv`)
ties the clock to the events and says how often the clock has been looked at: the threshold is
1 at first and then the number of events that a period has, rounded down, so that at most two
looks find a period that has not ended.

**HashCompute.** `EveryUnitIsMixedOnceHolds`, for data of any length. What has been read after some
passes covers the units up to `at`, each by one read (`Covers`), and each pass adds
what covers the next stride; the tails are covered for each length they are called with, that of
murmur by what its masks keep (`TailKept`).

**Stats.** `CallsAreCountedHolds`, for any hash values and a finite number of sub-counters that
share no name with a counter: with a shared name, the sub-counter cannot be told from the call that
was misnamed. The invariant (`StatsInv`) says that the sub-counters of a counter show what was counted,
or all but one call, which was the first and is shown under the name of the counter. What a search
finds in a list is followed through an insertion at the front and a change in place.

**BitString.** `ImplementsBitSetHolds` is the refinement of `BitSet`, for any number of words of
any width. A position is a word and a bit of it, by division; what masks cut off or fill up is
counted as the first `k` members of an ordered finite set, so that generating a string and
fixing one keep the number of bits, and the index that `Bits2IndexTable` gives a position is the
number of positions before it.

**Helpers.** `ResultsAreAsDefinedHolds`, with one lemma for each function: `ShortNameIs`,
`MemoryIs`, `CollisionsAre`, `FilterIs`, `SymRelationIs`, `ConversionsAre`, `ComparisonsAre`.
Collisions are counted by what the first `r` buckets add to the set of buckets with an earlier
twin, and the filter by where its iterator is after `k` steps. Quantities of memory are below
1000 terabytes (`HelpersAssumption`): `debug_cppPrintMemory` has no unit for more, and reads
beyond its table of units. Nothing is claimed of a decimal of 10, which `memory_digit` shows.

**Assumptions** on constants are those that the code makes: sizes and addresses are numbers,
sets of buckets are finite, powers of two are numbers of slots (the provers know nothing of
`^`), a table may have two slots at least, `ExtensionBit` is not 0, recording is on or off.
No proof needs the bounds; `MaxBuckets`, `PtrLimit` and `MaxTableSize` are any numbers.

**How loops are proved.** What a loop computes is written as a function on `0 .. n`
defined by recursion, and its properties are proved by induction on the passes. The induction
theorems of the library take an operator and are out of the provers' reach;
`CountingLemmas` derives induction up to `n` and the existence of recursively defined functions
from the fact that every set of numbers has a least element, with sets in the place of
operators. Sums over records are stated as cardinalities, of bytes or of places.

**Only model-checked**: the liveness properties `EnumerationEnds` and `PeriodIsNoticed`, which
are out of the provers' reach, and the properties of the runs that expect a violation.

## Not modelled

- `RandomGenerator`: a shared seed that each constructor increments, and calls of Boost's
  distributions on floating point numbers. Two threads that make generators at once would
  race for the seed, but nothing in the repository does.
- The C wrappers of `src/base/c_allocator.c`, the raw memory access and the
  metaprogramming headers, `base_fill` and the inline functions of `intutils.h` have no state
  and no algorithm of their own.
- `platform.c` reads `/proc` and calls the system; `exceptions.cpp`, `macros.h` and most of
  `debug/utils.cpp` format text; `doubles` and `floats` are floating point arithmetic,
  which TLC does not have.
- Of modelled components: `AbstractTable::swap`, the copying and the destructor of
  `array_t`, the high-water marks of the monitor, the arithmetic that mixes hash values,
  a `new` that fails in `PointerTable::rehash` (after which every call reads beyond the
  table), the 64 bit guards of the debug allocator.

Memory addresses are abstract and never wrap; sizes are small integers. The code
has no locks and the library's containers are used by one thread at a time, so
steps are whole calls. Destructors of a user's data, printing and C wrappers are
left out.

## Plan

1. Done: allocators, arrays, pointer tables, hash tables, enumerator, memory monitor;
   proof of the allocator's invariant.
2. Done: the debug allocator, bit strings, hash functions, helpers, `Timer`,
   `time_monitor`, `Stats` and tracing; liveness of the enumerator and of the time
   monitor; a monitor without memory for its records.
3. Done: theorems about every module above that has a specification of the code, with the
   refinements of their abstract ones.
4. Open: the failing `new` of `PointerTable::rehash`, whose consequences need a model of what lies
   behind the table, and a 64 bit version of the debug allocator, should its guards be repaired.

A run is kept for a question, not for a component: components that do not call each other share a
run, and disagreements that are described above but found nothing new have none.
