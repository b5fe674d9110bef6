-------------------------------- MODULE MCThrow --------------------------------
(***************************************************************************)
(* A program that uses a DataAllocator, or a hash table that is enumerated *)
(* while it changes, where operator new may throw.                         *)
(***************************************************************************)
EXTENDS MCDataAllocator, HashEnumerator

CONSTANTS b1, b2, b3, b4

(* Two chains of two buckets, in a table of one slot, two or four. *)
Hashes == [x \in Buckets |-> CASE x = b1 -> 1
                               [] x = b2 -> 5
                               [] x = b3 -> 2
                               [] OTHER -> 6]

VARIABLE used  \* what the program uses

tableVars == <<vars, enumVars>>

(* What is not used stays in its initial state. *)
InitThrow ==
    /\ used \in {"allocator", "table"}
    /\ InitAllocator /\ InitEnum
    /\ used # "allocator" => \A p \in Pools : freePtr <= Base[p]

UseAllocator == used = "allocator" /\ NextAllocator /\ UNCHANGED <<used, tableVars>>
UseTable == used = "table" /\ NextEnum /\ UNCHANGED <<used, allocatorVars>>

(* Fairness is that of HashEnumerator, for the programs that use it. *)
SpecThrow ==
    /\ InitThrow /\ [][UseAllocator \/ UseTable]_<<used, allocatorVars, tableVars>>
    /\ WF_tableVars(used = "table" /\ GoesOn)
=============================================================================
