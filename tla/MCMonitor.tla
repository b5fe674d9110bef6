------------------------------- MODULE MCMonitor -------------------------------
(* Both pointers share a chain until the table has eight slots. *)
EXTENDS Monitor

CONSTANTS p1, p2, x

HomeSlots == [p \in Ptrs |-> IF p = p1 THEN 1 ELSE 5]
=============================================================================
