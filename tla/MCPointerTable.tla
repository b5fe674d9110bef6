---------------------------- MODULE MCPointerTable ----------------------------
(* Pointers a, b, c share a home slot in small tables, d and e do not. *)
EXTENDS PointerTable

CONSTANTS a, b, c, d, e

HomeSlots == [p \in Ptrs |-> CASE p = a -> 0
                               [] p = b -> 4
                               [] p = c -> 8
                               [] p = d -> 3
                               [] OTHER -> 1]
=============================================================================
