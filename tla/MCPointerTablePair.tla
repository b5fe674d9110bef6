-------------------------- MODULE MCPointerTablePair --------------------------
(* Pointers a and b share a home slot in small tables, d and e do not. *)
EXTENDS PointerTablePair

CONSTANTS a, b, d, e

HomeSlots == [p \in Ptrs |-> CASE p = a -> 0
                               [] p = b -> 4
                               [] p = d -> 3
                               [] OTHER -> 1]
=============================================================================
