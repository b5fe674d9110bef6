------------------------------- MODULE HashTable -------------------------------
(***************************************************************************)
(* uhash::AbstractTable with TableSingle or TableDouble                    *)
(* (include/hash/tables.h, src/hash/tables.cpp) over the buckets of        *)
(* include/base/linkable.h.  The chains are pointers: a location is a slot *)
(* of the table or the next field of a bucket, and previous, which only    *)
(* double linked buckets have, holds the location that points at a bucket. *)
(***************************************************************************)
EXTENDS Integers, Sequences, FiniteSets

CONSTANTS
    Buckets,         \* the buckets the callers allocate
    HashOf,          \* HashOf[b]: hash value b is entered with
    SizePower2,      \* the table starts with 2 ^ SizePower2 slots
    ShiftThreshold,  \* 1 for aggressive rehashing, else 0
    MaxTableSize,    \* MAX_TABLE_SIZE
    RefMask,         \* the bits of info that count references: 2 ^ n - 1
    Doubly,          \* TableDouble, else TableSingle
    RehashThrows,    \* whether the new of a rehash may throw std::bad_alloc
    NULL

ASSUME HashAssumption ==
    /\ IsFiniteSet(Buckets)
    /\ HashOf \in [Buckets -> Nat]
    /\ SizePower2 \in Nat
    /\ 2 ^ SizePower2 \in Nat \ {0}   \* the provers know nothing of powers
    /\ ShiftThreshold \in {0, 1}
    /\ MaxTableSize \in Nat /\ 2 ^ SizePower2 <= MaxTableSize
    /\ RefMask \in Nat
    /\ Doubly \in BOOLEAN /\ RehashThrows \in BOOLEAN
    /\ NULL \notin Buckets

VARIABLES
    mem,        \* the slots of the table, next and previous of the buckets
    info,       \* hash value above RefMask, reference counter below
    mask,       \* index = hash & mask
    nbBuckets,
    mayRehash,
    stored      \* the buckets entered and not removed since

vars == <<mem, info, mask, nbBuckets, mayRehash, stored>>

Slot(i) == <<"slot", i>>
AtNext(b) == <<"next", b>>

TableSize(m) == Cardinality(DOMAIN m.slot)
NoSlots(n) == [i \in 0 .. n - 1 |-> NULL]

(* *loc, and *loc = b. *)
Target(m, loc) == IF loc[1] = "slot" THEN m.slot[loc[2]] ELSE m.next[loc[2]]
Assign(m, loc, b) ==
    IF loc[1] = "slot" THEN [m EXCEPT !.slot[loc[2]] = b] ELSE [m EXCEPT !.next[loc[2]] = b]

(* Mutant: the old first bucket goes on pointing back at the location. *)
LinkWithoutBackPointer(m, b, loc) ==
    LET linked == [Assign(m, loc, b) EXCEPT !.next[b] = Target(m, loc)]
    IN  IF Doubly THEN [linked EXCEPT !.previous[b] = loc] ELSE linked

(* b->link(loc) *)
Link(m, b, loc) ==
    LET n == Target(m, loc)
        linked == [Assign(m, loc, b) EXCEPT !.next[b] = n]
        back == [linked.previous EXCEPT ![b] = loc]
    IN  IF Doubly
        THEN [linked EXCEPT
                !.previous = IF n = NULL THEN back ELSE [back EXCEPT ![n] = AtNext(b)]]
        ELSE linked

(* b->unlink() of a double linked bucket *)
Unlink(m, b) ==
    LET n == m.next[b]
        unlinked == Assign(m, m.previous[b], n)
    IN  IF n = NULL THEN unlinked ELSE [unlinked EXCEPT !.previous[n] = m.previous[b]]

(* The walk from slot i along next: one step more than there are buckets,  *)
(* if the chain has a loop.                                                *)
Walk(m, i) ==
    LET at[k \in 0 .. Cardinality(Buckets)] ==
            IF k = 0 THEN m.slot[i]
            ELSE LET b == at[k - 1] IN IF b = NULL THEN NULL ELSE m.next[b]
    IN  at

(* The buckets it meets. *)
Chain(m, i) ==
    LET at == Walk(m, i)
    IN  [k \in 1 .. Cardinality({j \in DOMAIN at : at[j] # NULL}) |-> at[k - 1]]

OnChain(m, i) == {Chain(m, i)[k] : k \in 1 .. Len(Chain(m, i))}

(* Mutant: one bit too high. *)
BitAbove(x, n) == n * ((x \div (2 * n)) % 2)

(* n is a power of two: x & (n - 1), and x & n. *)
LowBits(x, n) == x % n
Bit(x, n) == n * ((x \div n) % 2)

Init ==
    /\ mask = 2 ^ SizePower2 - 1
    /\ mem = [slot |-> NoSlots(mask + 1),
              next |-> [b \in Buckets |-> NULL],
              previous |-> [b \in Buckets |-> NULL]]
    /\ info = [b \in Buckets |-> 0]
    /\ nbBuckets = 0
    /\ mayRehash = TRUE
    /\ stored = {}

-----------------------------------------------------------------------------
(* rehash: slot by slot, each bucket of the old chain is linked in front of *)
(* the chain that the next bit of its info selects.                         *)
Relinked(w, c, i, n, inf) ==
    LET at[k \in 0 .. Len(c)] ==
            IF k = 0 THEN w ELSE Link(at[k - 1], c[k], Slot(i + Bit(inf[c[k]], n)))
    IN  at[Len(c)]

Rehashed(m, inf) ==
    LET n == TableSize(m)
        new[i \in 0 .. n] ==
            IF i = 0 THEN [m EXCEPT !.slot = NoSlots(2 * n)]
            ELSE Relinked(new[i - 1], Chain(m, i - 1), i - 1, n, inf)
    IN  new[n]

NeedsRehash(nb) == nb > IF ShiftThreshold = 1 THEN mask \div 2 ELSE mask

(* What a caller writes to enter b: link, info, incBuckets(). *)
Entered(b) == Link(mem, b, Slot(LowBits(HashOf[b], mask + 1)))
EnteredInfo(b) == [info EXCEPT ![b] = HashOf[b] - LowBits(HashOf[b], RefMask + 1)]

Enter(b) ==
    /\ info' = EnteredInfo(b)
    /\ nbBuckets' = nbBuckets + 1
    /\ stored' = stored \cup {b}

(* Mutant: the load is looked at before the bucket is counted. *)
InsertLate(b) ==
    /\ b \notin stored
    /\ Enter(b)
    /\ LET grow == NeedsRehash(nbBuckets) /\ mayRehash
       IN  /\ mem' = IF grow THEN Rehashed(Entered(b), info') ELSE Entered(b)
           /\ mask' = IF grow THEN 2 * (mask + 1) - 1 ELSE mask
           /\ mayRehash' = IF grow THEN mask' < MaxTableSize - 1 ELSE mayRehash

Insert(b) ==
    /\ b \notin stored
    /\ Enter(b)
    /\ IF NeedsRehash(nbBuckets') /\ mayRehash
       THEN /\ mem' = Rehashed(Entered(b), info')
            /\ mask' = 2 * (mask + 1) - 1
            /\ mayRehash' = (mask' < MaxTableSize - 1)
       ELSE /\ mem' = Entered(b)
            /\ UNCHANGED <<mask, mayRehash>>

(* The new of rehash throws: the mask has been doubled already. *)
InsertThrows(b) ==
    /\ RehashThrows
    /\ b \notin stored
    /\ Enter(b)
    /\ NeedsRehash(nbBuckets') /\ mayRehash
    /\ mem' = Entered(b)
    /\ mask' = 2 * (mask + 1) - 1
    /\ UNCHANGED mayRehash

(* The location that TableSingle::remove finds from the hash it is given. *)
Pointing(m, b, hash) ==
    LET i == LowBits(hash, mask + 1)
    IN  CHOOSE loc \in {Slot(i)} \cup {AtNext(c) : c \in OnChain(m, i)} : Target(m, loc) = b

RemoveDouble(b) == mem' = Unlink(mem, b)

(* remove(b) passes info, so it needs a table that keeps nothing else there. *)
RemoveSingle(b, hash) == mem' = Assign(mem, Pointing(mem, b, hash), mem.next[b])

RemoveBucket(b) ==
    /\ b \in stored
    /\ IF Doubly
       THEN RemoveDouble(b)
       ELSE RemoveSingle(b, IF RefMask = 0 THEN info[b] ELSE HashOf[b])
    /\ nbBuckets' = nbBuckets - 1
    /\ stored' = stored \ {b}
    /\ UNCHANGED <<info, mask, mayRehash>>

References(b) == LowBits(info[b], RefMask + 1)

(* Mutant: the counter does not stick. *)
IncRefUnbounded(b) ==
    /\ b \in stored
    /\ info' = [info EXCEPT ![b] = @ + 1]
    /\ UNCHANGED <<mem, mask, nbBuckets, mayRehash, stored>>

(* incRef(RefMask): the counter sticks at its maximum. *)
IncRef(b) ==
    /\ b \in stored
    /\ References(b) # RefMask
    /\ info' = [info EXCEPT ![b] = @ + 1]
    /\ UNCHANGED <<mem, mask, nbBuckets, mayRehash, stored>>

(* decRef(RefMask), for a bucket that is referenced. *)
DecRef(b) ==
    /\ b \in stored
    /\ References(b) \notin {0, RefMask}
    /\ info' = [info EXCEPT ![b] = @ - 1]
    /\ UNCHANGED <<mem, mask, nbBuckets, mayRehash, stored>>

Emptied(m) == [m EXCEPT !.slot = NoSlots(TableSize(m))]

(* Mutant: the counter survives the reset. *)
ResetKeepingCount ==
    /\ mem' = Emptied(mem)
    /\ stored' = {}
    /\ UNCHANGED <<info, mask, nbBuckets, mayRehash>>

(* reset(): the buckets stay with the caller. *)
Reset ==
    /\ mem' = Emptied(mem)
    /\ nbBuckets' = 0
    /\ stored' = {}
    /\ UNCHANGED <<info, mask, mayRehash>>

(* resetDelete(): the buckets met on the chains are deleted. *)
ResetDelete ==
    /\ mem' = Emptied(mem)
    /\ nbBuckets' = 0
    /\ stored' = stored \ UNION {OnChain(mem, i) : i \in 0 .. mask}
    /\ UNCHANGED <<info, mask, mayRehash>>

DisableRehash ==
    /\ mayRehash' = FALSE
    /\ UNCHANGED <<mem, info, mask, nbBuckets, stored>>

EnableRehash ==
    /\ mayRehash' = (mask < MaxTableSize - 1)
    /\ UNCHANGED <<mem, info, mask, nbBuckets, stored>>

(* Once a rehash has thrown, later accesses leave the table: the model     *)
(* stops there.                                                            *)
Next ==
    /\ mask + 1 = TableSize(mem)
    /\ \/ \E b \in Buckets : \/ Insert(b)
                             \/ InsertThrows(b)
                             \/ RemoveBucket(b)
                             \/ IncRef(b)
                             \/ DecRef(b)
       \/ Reset
       \/ ResetDelete
       \/ DisableRehash
       \/ EnableRehash

Spec == Init /\ [][Next]_vars

-----------------------------------------------------------------------------
(* Properties *)

Locations == {Slot(i) : i \in DOMAIN mem.slot} \cup {AtNext(b) : b \in Buckets}

(* Type invariant: the table never outgrows MAX_TABLE_SIZE. *)
TypeOK ==
    /\ TableSize(mem) <= MaxTableSize
    /\ mem.slot \in [0 .. TableSize(mem) - 1 -> Buckets \cup {NULL}]
    /\ mem.next \in [Buckets -> Buckets \cup {NULL}]
    /\ mem.previous \in [Buckets -> Locations \cup {NULL}]
    /\ info \in [Buckets -> Nat]
    /\ mask \in Nat
    /\ nbBuckets \in 0 .. Cardinality(Buckets)
    /\ mayRehash \in BOOLEAN
    /\ stored \subseteq Buckets

(* Every bucket entered and not removed is met exactly once on the chain   *)
(* that its hash value selects under the current mask, and on no other, so *)
(* a lookup by hash finds it after any number of rehashes, which only look *)
(* at one bit of info and never at the hash.                               *)
BucketsOnTheirChains ==
    \A i \in 0 .. TableSize(mem) - 1 :
        /\ OnChain(mem, i) = {b \in stored : LowBits(HashOf[b], TableSize(mem)) = i}
        /\ Len(Chain(mem, i)) = Cardinality(OnChain(mem, i))

(* assert(previous && *previous == this) of unlink: the back pointers are  *)
(* right after a rehash too, which relinks buckets without unlinking them. *)
PreviousPointsBack ==
    Doubly => \A b \in stored : /\ mem.previous[b] \in Locations
                                /\ Target(mem, mem.previous[b]) = b

(* getNbBuckets() counts the buckets that are linked, so resetting, or     *)
(* removing buckets after a disabled rehash, cannot wrap the counter.      *)
CountIsExact == nbBuckets = Cardinality(stored)

(* While rehashing is enabled an insertion that starts within the load     *)
(* limit ends within it: one doubling is always enough, and only MAX_TABLE_*)
(* SIZE or disableRehash() lets chains grow.                               *)
LoadIsBounded ==
    [][(mayRehash /\ ~NeedsRehash(nbBuckets)) => ~NeedsRehash(nbBuckets)']_vars

(* References are only counted in the low bits: no sequence of incRef and  *)
(* decRef carries into the hash bits that a later rehash will look at.     *)
HashBitsKept ==
    \A b \in stored : info[b] - References(b) = HashOf[b] - LowBits(HashOf[b], RefMask + 1)
=============================================================================
