------------------------------ MODULE GuardedHeap ------------------------------
(***************************************************************************)
(* What a test that runs on the debug allocator relies on: the allocator   *)
(* knows which blocks are held and how large they are, complains about     *)
(* exactly the misuses there were, and reports exactly what was never      *)
(* given back.                                                             *)
(***************************************************************************)
EXTENDS Integers, Sequences, FiniteSets, Functions, FiniteSetsExt

VARIABLES
    held,    \* held[p]: the size in ints of block p, for the blocks held
    spoilt,  \* the held blocks whose user wrote beyond an end
    told     \* what the last call was given, its complaints and the leaks it saw

heapVars == <<held, spoilt, told>>

Quiet == [given |-> <<>>, alarms |-> {}, leaks |-> 0, leakSize |-> 0]
Alarms(args, as) == [Quiet EXCEPT !.given = args, !.alarms = as]

InitHeap == /\ held = [p \in {} |-> 0]
            /\ spoilt = {}
            /\ told = Quiet

AllocateBlock ==
    /\ \E p \in DOMAIN held' \ DOMAIN held :
        /\ DOMAIN held' = DOMAIN held \cup {p}
        /\ Restrict(held', DOMAIN held) = held
    /\ spoilt' = spoilt
    /\ told' = Quiet

(* The user writes one int too many at either end of a block. *)
SpoilBlock ==
    /\ \E p \in DOMAIN held : spoilt' = spoilt \cup {p}
    /\ UNCHANGED <<held, told>>

(* A block is given back with a size: both are checked. *)
ReturnBlock ==
    LET p == told'.given[1]
        size == told'.given[2]
    IN  /\ Len(told'.given) = 2 /\ p \in DOMAIN held
        /\ held' = Restrict(held, DOMAIN held \ {p})
        /\ spoilt' = spoilt \ {p}
        /\ told' = Alarms(<<p, size>>,
                           (IF p \in spoilt THEN {"corrupted"} ELSE {})
                           \cup (IF size = held[p] THEN {} ELSE {"size"}))

(* NULL, or a block that is not held. *)
RejectBlock ==
    /\ \/ told' = Alarms(<<>>, {"null"})
       \/ /\ Len(told'.given) = 1 /\ told'.given[1] \notin DOMAIN held
          /\ told' = Alarms(told'.given, {"unknown"})
    /\ UNCHANGED <<held, spoilt>>

(* Sizes are reported in bytes. *)
CloseHeap ==
    /\ told' = [Quiet EXCEPT !.leaks = Cardinality(DOMAIN held),
                             !.leakSize = MapThenSumSet(LAMBDA p : 4 * held[p], DOMAIN held)]
    /\ held' = [p \in {} |-> 0]
    /\ spoilt' = {}

OpenHeap == InitHeap'

NextHeap == \/ AllocateBlock \/ SpoilBlock \/ ReturnBlock \/ RejectBlock
            \/ CloseHeap \/ OpenHeap

SpecHeap == InitHeap /\ [][NextHeap]_heapVars
=============================================================================
