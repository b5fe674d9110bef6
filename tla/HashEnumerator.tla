---------------------------- MODULE HashEnumerator ----------------------------
(***************************************************************************)
(* base::LinkableEnumerator (include/base/Enumerator.h,                    *)
(* src/base/Enumerator.cpp) over a hash table that its user goes on        *)
(* changing.  The enumerator keeps the node after the one it returned, and *)
(* a pointer into the table, which a rehash deletes: a user that sees the  *)
(* table rehashed or reset drops it.                                       *)
(***************************************************************************)
EXTENDS HashTable

VARIABLES
    enum,     \* size, table (as a slot number) and current; live: in use
    item,     \* what the last getNextLinkable() returned
    pending,  \* buckets stored since the enumerator was made, not returned
    seen      \* buckets returned and not removed since

enumVars == <<enum, item, pending, seen>>

NoEnumerator == [live |-> FALSE, size |-> 0, table |-> 0, current |-> NULL]

Dropped ==
    /\ enum' = NoEnumerator
    /\ item' = NULL
    /\ pending' = {}
    /\ seen' = {}

InitEnum == Init /\ enum = NoEnumerator /\ item = NULL /\ pending = {} /\ seen = {}

(* Mutant: the mask is taken for the size. *)
NewEnumeratorOfMask ==
    /\ enum' = [live |-> TRUE, size |-> mask, table |-> 0, current |-> mem.slot[0]]
    /\ item' = NULL
    /\ pending' = stored
    /\ seen' = {}
    /\ UNCHANGED vars

(* getEnumerator() *)
NewEnumerator ==
    /\ enum' = [live |-> TRUE, size |-> TableSize(mem), table |-> 0,
                current |-> mem.slot[0]]
    /\ item' = NULL
    /\ pending' = stored
    /\ seen' = {}
    /\ UNCHANGED vars

Return(b) ==
    /\ item' = b
    /\ pending' = pending \ {b}
    /\ seen' = (seen \cup {b}) \ {NULL}

(* Mutant: the enumerator does not step on. *)
SameOnChain ==
    /\ enum.current # NULL
    /\ Return(enum.current)
    /\ UNCHANGED enum

NextOnChain ==
    /\ enum.current # NULL
    /\ Return(enum.current)
    /\ enum' = [enum EXCEPT !.current = mem.next[enum.current]]

(* The first non-empty slot after table, or the end, k slots further. *)
NextSlot ==
    /\ enum.current = NULL
    /\ \E k \in 1 .. enum.size :
        /\ \A j \in 1 .. k - 1 : mem.slot[enum.table + j] = NULL
        /\ k < enum.size => mem.slot[enum.table + k] # NULL
        /\ LET b == IF k < enum.size THEN mem.slot[enum.table + k] ELSE NULL
           IN  /\ Return(b)
               /\ enum' = [live |-> TRUE, size |-> enum.size - k,
                           table |-> enum.table + k,
                           current |-> IF b = NULL THEN NULL ELSE mem.next[b]]

Finished == enum.live /\ enum.current = NULL /\ enum.size = 0

GetNextLinkable ==
    /\ enum.live
    /\ NextOnChain \/ NextSlot
    /\ UNCHANGED vars

(* The table is changed next to a live enumerator: buckets are entered     *)
(* without a rehash, and only buckets it has returned already are removed. *)
ChangeUnderEnumerator ==
    /\ \E b \in Buckets :
        \/ Insert(b) /\ UNCHANGED seen
        \/ RemoveBucket(b) /\ (enum.live => b \in seen) /\ seen' = seen \ {b}
    /\ mask' = mask
    /\ UNCHANGED <<enum, item, pending>>

(* A rehash replaces the table, or throws before it does. *)
RehashDropsEnumerator ==
    /\ \E b \in Buckets : Insert(b) \/ InsertThrows(b)
    /\ mask' # mask
    /\ Dropped

ResetDropsEnumerator == (Reset \/ ResetDelete) /\ Dropped

SwitchRehash == (DisableRehash \/ EnableRehash) /\ UNCHANGED enumVars

NextEnum ==
    /\ mask + 1 = TableSize(mem)
    /\ \/ NewEnumerator
       \/ GetNextLinkable
       \/ ChangeUnderEnumerator
       \/ RehashDropsEnumerator
       \/ ResetDropsEnumerator
       \/ SwitchRehash

(* Whoever has begun an enumeration goes on until getNextLinkable() has     *)
(* returned NULL, whatever else is done to the table meanwhile.            *)
GoesOn == mask + 1 = TableSize(mem) /\ GetNextLinkable

SpecEnum ==
    /\ InitEnum
    /\ [][NextEnum]_<<vars, enumVars>>
    /\ WF_<<vars, enumVars>>(GoesOn)

-----------------------------------------------------------------------------
(* Properties *)

(* An enumeration that has ended has returned every bucket that was in the *)
(* table when it began and stayed there, whatever was removed behind it or *)
(* entered anywhere meanwhile.                                             *)
EnumeratesAll == Finished => pending = {}

(* No bucket is returned twice unless it was removed and entered again,    *)
(* and none is returned that is not in the table.                          *)
EnumeratesOnce ==
    [][GetNextLinkable => item' = NULL \/ item' \in stored \ seen]_<<vars, enumVars>>

(* An enumeration ends: the loop of a caller that calls getNextLinkable()  *)
(* until it returns NULL is finite, although buckets go on being entered,  *)
(* and removed and entered again, on the chains it still has to visit.     *)
EnumerationEnds == []<>(item = NULL)
=============================================================================
