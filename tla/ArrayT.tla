-------------------------------- MODULE ArrayT --------------------------------
(***************************************************************************)
(* base::array_t (include/base/array_t.h): an array that grows by itself   *)
(* when a position beyond its capacity is written.  The cells that a       *)
(* growth adds come from new T[n] for a scalar T: nothing initialises      *)
(* them, so each may hold any value of Junk.                               *)
(***************************************************************************)
EXTENDS Integers

CONSTANTS
    Zero,  \* the value T{} that reset() stores
    Junk,  \* what a word of fresh memory may hold, Zero among others
    INC    \* increase size step, at least 1

(* array_t(initSize): at least one element, all reset. *)
NewArray(n) ==
    LET size == IF n = 0 THEN 1 ELSE n
    IN  [capa |-> size, data |-> [i \in 0 .. size - 1 |-> Zero]]

(* get: positions outside the limits read as 0. *)
ArrayGet(a, at) == IF at < a.capa THEN a.data[at] ELSE Zero

(* Mutant: the last old cell is not copied. *)
EnlargedCopyingOneLess(a, size, tail) ==
    [capa |-> size,
     data |-> [i \in 0 .. size - 1 |->
                 IF i < a.capa - 1 THEN a.data[i]
                 ELSE IF i < a.capa THEN CHOOSE j \in Junk : j # Zero ELSE tail[i]]]

(* The reallocated array: old cells copied, the others as memory was. *)
Enlarged(a, size, tail) ==
    [capa |-> size,
     data |-> [i \in 0 .. size - 1 |-> IF i < a.capa THEN a.data[i] ELSE tail[i]]]

(* ensurePos: the arrays that making position at valid may produce. *)
Grown(a, at) ==
    IF at < a.capa
    THEN {a}
    ELSE {Enlarged(a, at + INC, tail) : tail \in [a.capa .. at + INC - 1 -> Junk]}

(* The write data[at] = v, once ensurePos(at) has returned. *)
Stored(a, at, v) == [capa |-> a.capa, data |-> [a.data EXCEPT ![at] = v]]

(* pointer_t::reset: every element of the current capacity. *)
Cleared(a) == [capa |-> a.capa, data |-> [i \in 0 .. a.capa - 1 |-> Zero]]
=============================================================================
