--------------------------- MODULE PointerTablePair ---------------------------
(***************************************************************************)
(* A PointerTable next to another one whose callers never delete, and      *)
(* PointerTable::operator== between them.  The two may have different      *)
(* sizes and histories and still hold the same pointers.                   *)
(***************************************************************************)
EXTENDS PointerTable

VARIABLES otherTable, otherSize, otherNb, otherLast

otherVars == <<otherTable, otherSize, otherNb, otherLast>>

Other == INSTANCE PointerTable WITH
            table <- otherTable, tableSize <- otherSize,
            nbPointers <- otherNb, last <- otherLast, Deletable <- {}

InitPair == Init /\ Other!Init

(* A call on one table leaves the other alone. *)
NextPair ==
    \/ Next /\ UNCHANGED otherVars
    \/ Other!Next /\ UNCHANGED vars

SpecPair == InitPair /\ [][NextPair]_<<vars, otherVars>>

(* operator== of each table, with the other as argument. *)
EqualOther == Equal(table, tableSize, nbPointers, otherTable, otherSize, otherNb)
OtherEqual == Equal(otherTable, otherSize, otherNb, table, tableSize, nbPointers)

(* Refinement: the table that nobody deletes from is a set, see PointerSet. *)
OtherImplementsSet == Other!ImplementsSet

(* "@return true if the tables contain the same set of pointers": equality *)
(* does not depend on how the tables were filled, on their sizes and their *)
(* tombstones, and is symmetric though it only looks the entries of one    *)
(* table up in the other.  A pointer stored twice breaks it.               *)
EqualIsSetEquality ==
    Distinct => /\ EqualOther <=> Contents = Other!Contents
                /\ OtherEqual <=> Contents = Other!Contents
=============================================================================
