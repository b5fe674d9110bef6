------------------------------ MODULE PointerSet ------------------------------
(***************************************************************************)
(* What include/hash/PointerTable.h promises: a set of pointers whose      *)
(* operations report whether they changed it.                              *)
(***************************************************************************)
EXTENDS Integers, FiniteSets

CONSTANT Ptrs

VARIABLES
    set,   \* the pointers in the table
    size,  \* what size() returns
    last   \* the last call: operation, argument, result

setVars == <<set, size, last>>

Call(o, p, r) == [op |-> o, ptr |-> p, ret |-> r]

Init ==
    /\ set = {}
    /\ size = 0
    /\ last.op = "none"

Add(p) ==
    /\ set' = set \cup {p}
    /\ last' = Call("add", p, p \notin set)

Del(p) ==
    /\ set' = set \ {p}
    /\ last' = Call("del", p, p \in set)

Has(p) ==
    /\ set' = set
    /\ last' = Call("has", p, p \in set)

Clear ==
    /\ set' = {}
    /\ last'.op = "clear"

Next ==
    /\ Clear \/ \E p \in Ptrs : Add(p) \/ Del(p) \/ Has(p)
    /\ size' = Cardinality(set')

Spec == Init /\ [][Next]_setVars
=============================================================================
