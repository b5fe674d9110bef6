----------------------------- MODULE PointerTable -----------------------------
(***************************************************************************)
(* uhash::PointerTable (include/hash/PointerTable.h,                       *)
(* src/hash/PointerTable.cpp): open addressing with linear probing.  A     *)
(* deleted entry becomes a TOMBSTONE that has() and del() step over and    *)
(* that add() takes at once.  A pointer is a model value; Home[p] is its   *)
(* address shifted right by 3.                                             *)
(***************************************************************************)
EXTENDS Integers, FiniteSets

CONSTANTS
    Ptrs,        \* pointers the callers store
    Home,        \* Home[p]: the address of p >> 3
    Deletable,   \* the pointers the callers delete again
    MaxRetries,  \* 7: a longer probe makes add rehash
    MaxSize,     \* bound: no add is tried that could grow the table beyond
    NULL, TOMBSTONE

ASSUME PointerAssumption ==
    /\ Home \in [Ptrs -> Nat]
    /\ Deletable \subseteq Ptrs
    /\ MaxRetries \in Nat
    /\ MaxSize \in Nat \ {0, 1}
    /\ NULL # TOMBSTONE
    /\ NULL \notin Ptrs /\ TOMBSTONE \notin Ptrs

VARIABLES
    table,       \* 0 .. tableSize - 1 -> pointer, NULL or TOMBSTONE
    tableSize,
    nbPointers,
    last         \* the last call and its result

vars == <<table, tableSize, nbPointers, last>>

Call(o, p, r) == [op |-> o, ptr |-> p, ret |-> r]

Empty(n) == [i \in 0 .. n - 1 |-> NULL]

Init ==
    /\ table = Empty(2)
    /\ tableSize = 2
    /\ nbPointers = 0
    /\ last = Call("none", NULL, FALSE)

(* getIndex(p) and the index k steps further, in a table of n slots.       *)
(* n is a power of two, so & (n - 1) is % n.                               *)
Index(p, k, n) == (Home[p] + k) % n

(* The first k at which a loop that starts at p's home slot and stops on   *)
(* a slot with contents in Stop does stop; the others are stepped over.    *)
StopsAt(t, n, p, Stop, k) ==
    /\ t[Index(p, k, n)] \in Stop
    /\ \A j \in 0 .. k - 1 : t[Index(p, j, n)] \notin Stop

(* Mutant: only the home slot is looked at. *)
FoundAtHome(t, n, p) == t[Index(p, 0, n)] = p

(* has and del give up when they are back at the home slot. *)
Found(t, n, p) ==
    \E k \in 0 .. n - 1 : StopsAt(t, n, p, {NULL, p}, k) /\ t[Index(p, k, n)] = p

Occupied(t, n) == {i \in 0 .. n - 1 : t[i] \in Ptrs}

(* Mutant: an entry overwrites what is in its home slot. *)
InsertAtHome(t, n, p) == [t EXCEPT ![Index(p, 0, n)] = p]

(* The first free slot from its home takes an entry that is put into a new *)
(* table, which holds no tombstones.                                       *)
Insert(t, n, p) ==
    LET k == CHOOSE k \in 0 .. n - 1 : StopsAt(t, n, p, {NULL}, k)
    IN  [t EXCEPT ![Index(p, k, n)] = p]

(* The new table of m slots after the loop over the n slots of the old one. *)
Refilled(t, n, m) ==
    LET new[k \in 0 .. n] ==
            IF k = 0 THEN Empty(m)
            ELSE IF t[k - 1] \in Ptrs THEN Insert(new[k - 1], m, t[k - 1])
                                      ELSE new[k - 1]
    IN  new[n]

(* Mutant: the new table is as small as the old one. *)
RehashedInPlace(t, n) == Refilled(t, n, n)

(* rehash() *)
Rehashed(t, n) == Refilled(t, n, 2 * n)

(* Mutant: the table is only rehashed when the probe is long. *)
AddWithoutThreshold(p) ==
    \E k \in 0 .. tableSize - 1 :
        LET i == Index(p, k, tableSize)
            t == [table EXCEPT ![i] = p]
        IN  /\ StopsAt(table, tableSize, p, {NULL, TOMBSTONE, p}, k)
            /\ last' = Call("add", p, table[i] # p)
            /\ nbPointers' = IF table[i] = p THEN nbPointers ELSE nbPointers + 1
            /\ table' = IF k > MaxRetries THEN Rehashed(t, tableSize) ELSE t
            /\ tableSize' = IF k > MaxRetries THEN 2 * tableSize ELSE tableSize

Add(p) ==
    \E k \in 0 .. tableSize - 1 :
        LET i == Index(p, k, tableSize)
            t == [table EXCEPT ![i] = p]
        IN  /\ StopsAt(table, tableSize, p, {NULL, TOMBSTONE, p}, k)
            /\ last' = Call("add", p, table[i] # p)
            /\ IF table[i] = p
               THEN UNCHANGED <<table, tableSize, nbPointers>>
               ELSE /\ nbPointers' = nbPointers + 1
                    /\ IF k > MaxRetries \/ nbPointers' > tableSize \div 2
                       THEN /\ table' = Rehashed(t, tableSize)
                            /\ tableSize' = 2 * tableSize
                       ELSE /\ table' = t
                            /\ UNCHANGED tableSize

(* Mutant: a deleted entry becomes empty, which cuts the probes behind it. *)
DelWithoutTombstone(p) ==
    /\ \E k \in 0 .. tableSize - 1 :
        /\ StopsAt(table, tableSize, p, {NULL, p}, k)
        /\ table[Index(p, k, tableSize)] = p
        /\ table' = [table EXCEPT ![Index(p, k, tableSize)] = NULL]
    /\ nbPointers' = nbPointers - 1
    /\ last' = Call("del", p, TRUE)
    /\ UNCHANGED tableSize

Del(p) ==
    IF Found(table, tableSize, p)
    THEN \E k \in 0 .. tableSize - 1 :
            /\ StopsAt(table, tableSize, p, {NULL, p}, k)
            /\ table' = [table EXCEPT ![Index(p, k, tableSize)] = TOMBSTONE]
            /\ nbPointers' = nbPointers - 1
            /\ last' = Call("del", p, TRUE)
            /\ UNCHANGED tableSize
    ELSE /\ last' = Call("del", p, FALSE)
         /\ UNCHANGED <<table, tableSize, nbPointers>>

Has(p) ==
    /\ last' = Call("has", p, Found(table, tableSize, p))
    /\ UNCHANGED <<table, tableSize, nbPointers>>

Clear ==
    /\ table' = Empty(tableSize)
    /\ nbPointers' = 0
    /\ last' = Call("clear", NULL, TRUE)
    /\ UNCHANGED tableSize

Next ==
    \/ \E p \in Ptrs : 2 * tableSize <= MaxSize /\ Add(p)
    \/ \E p \in Deletable : Del(p)
    \/ \E p \in Ptrs : Has(p)
    \/ Clear

Spec == Init /\ [][Next]_vars

(* Mutant: the sizes are not compared. *)
Included(t, n, c, u, m, d) == \A i \in Occupied(t, n) : Found(u, m, t[i])

(* operator==: the sizes agree and every entry of the first table (t, n, c *)
(* pointers) is found in the second.                                       *)
Equal(t, n, c, u, m, d) ==
    /\ c = d
    /\ \A i \in Occupied(t, n) : Found(u, m, t[i])

-----------------------------------------------------------------------------
(* Properties *)

Contents == {table[i] : i \in Occupied(table, tableSize)}

(* Type invariant. *)
TypeOK ==
    /\ tableSize \in 2 .. MaxSize
    /\ table \in [0 .. tableSize - 1 -> Ptrs \cup {NULL, TOMBSTONE}]
    /\ nbPointers \in Nat

(* At most half of the slots hold a pointer, and nbPointers counts them,   *)
(* even with duplicates and tombstones.  So the loops of add() and         *)
(* rehash(), which have no other way out, always find a slot.              *)
AtMostHalfFull ==
    /\ nbPointers = Cardinality(Occupied(table, tableSize))
    /\ 2 * nbPointers <= tableSize

(* No slot between a pointer's home and the pointer is NULL, so has() and  *)
(* del() reach every stored copy whatever was deleted or overwritten.      *)
EveryEntryReachable ==
    \A i \in Occupied(table, tableSize) :
        \E k \in 0 .. tableSize - 1 :
            /\ Index(table[i], k, tableSize) = i
            /\ \A j \in 0 .. k : table[Index(table[i], j, tableSize)] # NULL

(* A pointer leaves the table only when its own deletion, or clear(), is   *)
(* asked for: growing and reusing tombstones lose nothing.                 *)
OnlyDeletionRemoves ==
    [][\A p \in Contents \ Contents' : last'.op = "clear" \/ last' = Call("del", p, TRUE)]_vars

Distinct == \A i, j \in Occupied(table, tableSize) : table[i] = table[j] => i = j

(* Refinement: the table is the set its header promises.  It holds for     *)
(* callers that never delete.                                              *)
Set == INSTANCE PointerSet WITH set <- Contents, size <- nbPointers
ImplementsSet == Set!Spec

(* With deletions too, the table answers and changes as the set does as    *)
(* long as no pointer is stored twice: nothing else breaks the promise.    *)
SetWhileDistinct == Set!Init /\ [][Distinct /\ Distinct' => Set!Next]_vars

(* "@return true if the pointer is newly added in the table" *)
AddReportsNewPointers ==
    [][\A p \in Ptrs : (last'.op = "add" /\ last'.ptr = p /\ last'.ret) => p \notin Contents]_vars
=============================================================================
