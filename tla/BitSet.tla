--------------------------------- MODULE BitSet ---------------------------------
(***************************************************************************)
(* What the callers of bitstring.h and of debug/utils.h take a bit string  *)
(* for: a set of positions, with an index table that numbers them.         *)
(***************************************************************************)
EXTENDS Integers, FiniteSets

CONSTANTS Positions,  \* 0 .. number of bits - 1
          Unwritten   \* what the table holds where nothing was written

VARIABLES
    set,      \* the positions that are set
    asked,    \* what the last call that changed them was asked for
    numbers,  \* the index table
    valid     \* the last verdict on the table

bitSetVars == <<set, asked, numbers, valid>>

Rank(i) == Cardinality({j \in set : j < i})

BlankTable == [i \in Positions |-> Unwritten]

InitBitSet == set = {} /\ asked = <<>> /\ numbers = BlankTable /\ valid = FALSE

(* Another set, with a table still to be written. *)
Becomes(s) == set' = s /\ numbers' = BlankTable /\ valid' = FALSE

Put == \E i \in Positions : asked' = <<"set", i>> /\ Becomes(set \cup {i})
Remove == \E i \in Positions : asked' = <<"reset", i>> /\ Becomes(set \ {i})
Exchange ==
    \E i \in Positions :
        asked' = <<"toggle", i>> /\ Becomes((set \ {i}) \cup ({i} \ set))

(* As many positions as asked for; the first one among them, if asked for. *)
Choose ==
    \E n \in 0 .. Cardinality(Positions), first \in BOOLEAN :
        /\ asked' = <<"generate", n, first>>
        /\ \E s \in SUBSET Positions :
              /\ Cardinality(s) = n
              /\ first /\ n > 0 => 0 \in s
              /\ Becomes(s)

(* Positions from size on are exchanged for others; nothing is lost. *)
Compress ==
    \E size \in Cardinality(set) .. Cardinality(Positions) :
        /\ asked' = <<"fix", size>>
        /\ \E s \in SUBSET (Positions \cap 0 .. size - 1) :
              /\ Cardinality(s) = Cardinality(set)
              /\ {i \in set : i < size} \subseteq s
              /\ Becomes(s)

ClearTo ==
    \E i \in 0 .. Cardinality(Positions) :
        asked' = <<"clear", i>> /\ Becomes({j \in set : j >= i})

(* The positions that are set are numbered in order. *)
Number ==
    /\ numbers' = [i \in Positions |-> IF i \in set THEN Rank(i) ELSE numbers[i]]
    /\ asked' = <<>> /\ valid' = FALSE
    /\ UNCHANGED set

(* The table may be wrong in a place, whether it matters or not. *)
Damage ==
    /\ \E i \in Positions : numbers' = [numbers EXCEPT ![i] = 0]
    /\ asked' = <<>> /\ valid' = FALSE
    /\ UNCHANGED set

(* A table is accepted if it numbers exactly the positions set. *)
Judge ==
    /\ \E total \in 0 .. Cardinality(Positions) :
        valid' = (total = Cardinality(set) /\ \A i \in set : numbers[i] = Rank(i))
    /\ asked' = <<>>
    /\ UNCHANGED <<set, numbers>>

NextBitSet == \/ Put \/ Remove \/ Exchange \/ Choose \/ Compress \/ ClearTo
              \/ Number \/ Damage \/ Judge

SpecBitSet == InitBitSet /\ [][NextBitSet]_bitSetVars
=============================================================================
