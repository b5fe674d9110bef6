------------------------------ MODULE MCHashTable ------------------------------
(* Hash values that collide in small tables: b2 and b4 always, b1 until 8     *)
(* slots.                                                                     *)
EXTENDS HashTable, TLC

CONSTANTS b1, b2, b3, b4

Hashes == [x \in Buckets |-> CASE x = b1 -> 1
                               [] x \in {b2, b4} -> 5
                               [] OTHER -> 6]

SameHash == Permutations({b2, b4})
=============================================================================
