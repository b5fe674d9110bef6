------------------------------ MODULE Allocator ------------------------------
(***************************************************************************)
(* What a caller of DataAllocator or ItemAllocator relies on: a block that *)
(* was handed out keeps its words to itself, inside memory the allocator   *)
(* owns, until the caller gives it back or forfeits everything by a reset. *)
(* How the words are found (free lists, pools) is left to the modules that *)
(* implement this one.                                                     *)
(***************************************************************************)
EXTENDS Integers

VARIABLES
    memory,  \* the words of the pools the allocator can hand out
    live     \* the blocks the caller holds: first word and number of words

absVars == <<memory, live>>

Cells(b) == b.data .. (b.data + b.words - 1)

Init == live = {}

(* A fresh block overlaps no live one.  The memory may grow by a new pool. *)
Allocate ==
    /\ \E b \in live' \ live :
        /\ live' = live \cup {b}
        /\ b.words > 0
        /\ Cells(b) \subseteq memory'
        /\ \A c \in live : Cells(b) \cap Cells(c) = {}
    /\ memory \subseteq memory'

Deallocate ==
    /\ \E b \in live : live' = live \ {b}
    /\ UNCHANGED memory

(* Every block is forfeited at once; the memory may shrink. *)
Reset ==
    /\ live' = {}
    /\ memory' \subseteq memory

Next == Allocate \/ Deallocate \/ Reset

Spec == Init /\ [][Next]_absVars
=============================================================================
