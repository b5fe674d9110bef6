------------------------ MODULE PointerTablePairProofs ------------------------
(***************************************************************************)
(* Proofs about PointerTablePair: the theorems of PointerTableProofs, for  *)
(* each of the two tables, and operator== between them.                    *)
(***************************************************************************)
EXTENDS PointerTablePair, PointerTableProofs

(* The same proofs for the table whose callers never delete. *)
OtherProofs == INSTANCE PointerTableProofs WITH
                  table <- otherTable, tableSize <- otherSize,
                  nbPointers <- otherNb, last <- otherLast, Deletable <- {}

LEMMA OtherAssumption == OtherProofs!PointerAssumption
BY PointerAssumption DEF OtherProofs!PointerAssumption

(* The two instances of PointerTable for the other table are the same. *)
LEMMA OtherInit == Other!Init <=> OtherProofs!Init
BY DEF Other!Init, Other!Empty, Other!Call,
       OtherProofs!Init, OtherProofs!Empty, OtherProofs!Call

LEMMA OtherIndex ==
    \A p, k, n : Other!Index(p, k, n) = OtherProofs!Index(p, k, n)
BY DEF Other!Index, OtherProofs!Index

LEMMA OtherStopsAt ==
    \A t, n, p, S, k : Other!StopsAt(t, n, p, S, k) <=> OtherProofs!StopsAt(t, n, p, S, k)
BY OtherIndex DEF Other!StopsAt, OtherProofs!StopsAt

LEMMA OtherRehashed ==
    \A t, n : Other!Rehashed(t, n) = OtherProofs!Rehashed(t, n)
BY Zenon DEF Other!Insert, OtherProofs!Insert, Other!StopsAt, OtherProofs!StopsAt,
             Other!Index, OtherProofs!Index, Other!Empty, OtherProofs!Empty,
             Other!Refilled, OtherProofs!Refilled, Other!Rehashed, OtherProofs!Rehashed

LEMMA OtherFound ==
    /\ \A t, n, p : Other!Found(t, n, p) <=> OtherProofs!Found(t, n, p)
    /\ \A t, n : Other!Occupied(t, n) = OtherProofs!Occupied(t, n)
    /\ Other!Contents = OtherProofs!Contents
<1>1. \A t, n, p : Other!Found(t, n, p) <=> OtherProofs!Found(t, n, p)
  BY OtherIndex, OtherStopsAt DEF Other!Found, OtherProofs!Found
<1>2. \A t, n : Other!Occupied(t, n) = OtherProofs!Occupied(t, n)
  BY DEF Other!Occupied, OtherProofs!Occupied
<1>3. Other!Contents = OtherProofs!Contents
  BY <1>2 DEF Other!Contents, OtherProofs!Contents
<1>4. QED  BY <1>1, <1>2, <1>3

LEMMA OtherNext ==
    /\ Other!Next <=> OtherProofs!Next
    /\ Other!vars = OtherProofs!vars
<1>1. \A o, p, r : Other!Call(o, p, r) = OtherProofs!Call(o, p, r)
  BY DEF Other!Call, OtherProofs!Call
<1>2. \A p : Other!Add(p) <=> OtherProofs!Add(p)
  BY <1>1, OtherIndex, OtherStopsAt, OtherRehashed DEF Other!Add, OtherProofs!Add
<1>3. \A p : Other!Del(p) <=> OtherProofs!Del(p)
  BY <1>1, OtherIndex, OtherStopsAt, OtherFound DEF Other!Del, OtherProofs!Del
<1>4. \A p : Other!Has(p) <=> OtherProofs!Has(p)
  <2>1. \A p : Other!Found(otherTable, otherSize, p) = OtherProofs!Found(otherTable, otherSize, p)
    BY OtherFound DEF Other!Found, OtherProofs!Found
  <2>2. QED  BY <1>1, <2>1 DEF Other!Has, OtherProofs!Has
<1>5. Other!Clear <=> OtherProofs!Clear
  BY <1>1 DEF Other!Clear, OtherProofs!Clear, Other!Empty, OtherProofs!Empty
<1>6. Other!Next <=> OtherProofs!Next
  BY <1>2, <1>3, <1>4, <1>5 DEF Other!Next, OtherProofs!Next
<1>7. Other!vars = OtherProofs!vars
  BY DEF Other!vars, OtherProofs!vars
<1>8. QED  BY <1>6, <1>7

LEMMA OtherSet ==
    /\ Other!Set!Init <=> OtherProofs!Set!Init
    /\ Other!Set!Next <=> OtherProofs!Set!Next
    /\ Other!Set!setVars = OtherProofs!Set!setVars
<1>1. Other!Contents = OtherProofs!Contents
  BY OtherFound
<1>2. Other!Contents' = OtherProofs!Contents'
  <2>1. (Other!Contents = OtherProofs!Contents)'
    BY <1>1, PTL
  <2>2. QED  BY <2>1
<1>3. \A o, p, r : Other!Set!Call(o, p, r) = OtherProofs!Set!Call(o, p, r)
  BY DEF Other!Set!Call, OtherProofs!Set!Call
<1>4. \A p : Other!Set!Add(p) <=> OtherProofs!Set!Add(p)
  BY <1>1, <1>2, <1>3 DEF Other!Set!Add, OtherProofs!Set!Add
<1>5. \A p : Other!Set!Del(p) <=> OtherProofs!Set!Del(p)
  BY <1>1, <1>2, <1>3 DEF Other!Set!Del, OtherProofs!Set!Del
<1>6. \A p : Other!Set!Has(p) <=> OtherProofs!Set!Has(p)
  BY <1>1, <1>2, <1>3 DEF Other!Set!Has, OtherProofs!Set!Has
<1>7. Other!Set!Clear <=> OtherProofs!Set!Clear
  BY <1>2 DEF Other!Set!Clear, OtherProofs!Set!Clear
<1>8. Other!Set!Cardinality(Other!Contents') = OtherProofs!Set!Cardinality(Other!Contents')
  BY Zenon DEF Other!Set!Cardinality, OtherProofs!Set!Cardinality
<1>9. Other!Set!Next <=> OtherProofs!Set!Next
  BY <1>2, <1>4, <1>5, <1>6, <1>7, <1>8 DEF Other!Set!Next, OtherProofs!Set!Next
<1>10. QED  BY <1>1, <1>9 DEF Other!Set!Init, OtherProofs!Set!Init,
                              Other!Set!setVars, OtherProofs!Set!setVars

-----------------------------------------------------------------------------
(* The invariant of the pair: neither table disturbs the other. *)

PairInv == Inv /\ OtherProofs!SetInv

LEMMA InitPairInv == InitPair => PairInv
<1>1. Other!Init => OtherProofs!SetInv
  BY OtherInit, OtherProofs!InitSetInv, OtherAssumption
<1>2. QED  BY <1>1, InitInv DEF InitPair, PairInv

LEMMA NextPairInv == PairInv /\ [NextPair]_<<vars, otherVars>> => PairInv'
<1>1. SUFFICES ASSUME PairInv, [NextPair]_<<vars, otherVars>> PROVE PairInv'
  OBVIOUS
<1>2. [Next]_vars /\ [OtherProofs!Next]_(OtherProofs!vars)
  BY <1>1, OtherNext DEF NextPair, OtherProofs!vars, otherVars
<1>3. Inv'
  BY <1>1, <1>2, NextInv DEF PairInv
<1>4. OtherProofs!SetInv'
  BY <1>1, <1>2, OtherProofs!NextSetInv, OtherAssumption DEF PairInv
<1>5. QED  BY <1>3, <1>4 DEF PairInv

-----------------------------------------------------------------------------
(* The theorems *)

(* Both tables keep their invariants, and the second one has no duplicates *)
(* and no tombstones.                                                      *)
THEOREM PairInvariantHolds == SpecPair => []PairInv
<1>1. QED  BY InitPairInv, NextPairInv, PTL DEF SpecPair

(* The other table has the shape that the lemmas about probes ask for. *)
LEMMA OtherIsSound ==
    ASSUME PairInv
    PROVE  /\ IsTable(otherTable, otherSize)
           /\ Reachable(otherTable, otherSize)
           /\ Occupied(otherTable, otherSize) = Other!Occupied(otherTable, otherSize)
           /\ ContentsOf(otherTable, otherSize) = Other!Contents
<1>1. OtherProofs!IsSound(otherTable, otherSize, otherNb)
  BY DEF PairInv, OtherProofs!SetInv, OtherProofs!Inv
<1>2. IsTable(otherTable, otherSize)
  BY <1>1 DEF OtherProofs!IsSound, OtherProofs!IsTable, IsTable
<1>3. /\ Occupied(otherTable, otherSize) = OtherProofs!Occupied(otherTable, otherSize)
      /\ Occupied(otherTable, otherSize) = Other!Occupied(otherTable, otherSize)
  BY DEF Occupied, OtherProofs!Occupied, Other!Occupied
<1>4. \A p, k, n : Index(p, k, n) = OtherProofs!Index(p, k, n)
  BY DEF Index, OtherProofs!Index
<1>5. Reachable(otherTable, otherSize)
  BY <1>1, <1>3, <1>4 DEF OtherProofs!IsSound, OtherProofs!Reachable, Reachable
<1>6. QED  BY <1>2, <1>3, <1>5 DEF ContentsOf, Other!Contents

(* As many pointers as it counts. *)
LEMMA OtherCounted ==
    ASSUME PairInv
    PROVE  /\ otherNb \in Nat /\ otherNb = Cardinality(Other!Contents)
           /\ IsFiniteSet(Other!Contents) /\ Other!Contents \subseteq Ptrs
<1>1. OtherProofs!Inv /\ OtherProofs!Distinct
  BY DEF PairInv, OtherProofs!SetInv
<1>2. /\ OtherProofs!IsFiniteSet(OtherProofs!Contents)
      /\ OtherProofs!Contents \subseteq Ptrs
      /\ otherNb \in Nat
      /\ otherNb = OtherProofs!Cardinality(OtherProofs!Contents)
  BY <1>1, OtherProofs!DistinctIsCounted, OtherAssumption
<1>3. OtherProofs!Cardinality(Other!Contents) = Cardinality(Other!Contents)
  BY Zenon DEF OtherProofs!Cardinality, Cardinality
<1>4. OtherProofs!IsFiniteSet(Other!Contents) <=> IsFiniteSet(Other!Contents)
  BY Zenon DEF OtherProofs!IsFiniteSet, IsFiniteSet
<1>5. QED  BY <1>2, <1>3, <1>4, OtherFound

(* Two tables without duplicates, where has() is right: as many entries,   *)
(* all of them found, means the same set.                                  *)
LEMMA EqualIsEquality ==
    ASSUME NEW t, NEW n, NEW c, NEW u, NEW m, NEW d,
           IsTable(t, n), IsTable(u, m), Reachable(u, m),
           IsFiniteSet(ContentsOf(t, n)), c = Cardinality(ContentsOf(t, n)),
           IsFiniteSet(ContentsOf(u, m)), d = Cardinality(ContentsOf(u, m))
    PROVE  Equal(t, n, c, u, m, d) <=> ContentsOf(t, n) = ContentsOf(u, m)
<1>1. (\A i \in Occupied(t, n) : Found(u, m, t[i]))
         <=> ContentsOf(t, n) \subseteq ContentsOf(u, m)
  <2>1. \A i \in Occupied(t, n) : t[i] \in Ptrs
    BY DEF Occupied
  <2>2. \A p \in Ptrs : Found(u, m, p) <=> p \in ContentsOf(u, m)
    BY FoundIsStored
  <2>3. QED  BY <2>1, <2>2 DEF ContentsOf
<1> DEFINE A == ContentsOf(t, n)
           B == ContentsOf(u, m)
<1>2. A \subseteq B /\ Cardinality(A) = Cardinality(B) <=> A = B
  <2>1. IsFiniteSet(A) /\ IsFiniteSet(B)
    OBVIOUS
  <2> HIDE DEF A, B
  <2>2. A \subseteq B /\ Cardinality(A) = Cardinality(B) => A = B
    BY <2>1, FS_Subset
  <2>3. QED  BY <2>2
<1>3. QED  BY <1>1, <1>2 DEF Equal

(* operator== compares the sets that the tables hold, in both directions,  *)
(* whatever their sizes, tombstones and histories, as long as no pointer   *)
(* is stored twice.                                                        *)
THEOREM EqualIsSetEqualityHolds == SpecPair => []EqualIsSetEquality
<1>1. ASSUME PairInv, Distinct
      PROVE  /\ EqualOther <=> Contents = Other!Contents
             /\ OtherEqual <=> Contents = Other!Contents
  <2>1. /\ IsTable(table, tableSize) /\ Reachable(table, tableSize)
        /\ ContentsOf(table, tableSize) = Contents
    BY <1>1 DEF PairInv, Inv, IsSound, ContentsOf, Contents
  <2>2. IsFiniteSet(Contents) /\ nbPointers = Cardinality(Contents)
    BY <1>1, DistinctIsCounted DEF PairInv
  <2>3. /\ IsTable(otherTable, otherSize) /\ Reachable(otherTable, otherSize)
        /\ ContentsOf(otherTable, otherSize) = Other!Contents
        /\ IsFiniteSet(Other!Contents) /\ otherNb = Cardinality(Other!Contents)
    BY <1>1, OtherIsSound, OtherCounted
  <2>4. EqualOther <=> Contents = Other!Contents
    BY <2>1, <2>2, <2>3, EqualIsEquality DEF EqualOther
  <2>5. OtherEqual <=> Other!Contents = Contents
    BY <2>1, <2>2, <2>3, EqualIsEquality DEF OtherEqual
  <2>6. QED  BY <2>4, <2>5
<1>2. PairInv => EqualIsSetEquality
  BY <1>1 DEF EqualIsSetEquality
<1>3. QED  BY <1>2, PairInvariantHolds, PTL

(* Whatever happens to the first table, the one that nobody deletes from   *)
(* is a set.                                                               *)
THEOREM OtherImplementsSetHolds == SpecPair => OtherImplementsSet
<1>1. InitPair => Other!Set!Init
  BY OtherInit, OtherSet, OtherProofs!InitIsSet, OtherAssumption DEF InitPair
<1>2. ASSUME PairInv, PairInv', [NextPair]_<<vars, otherVars>>
      PROVE  [Other!Set!Next]_(Other!Set!setVars)
  <2>1. CASE OtherProofs!Next
    <3>1. OtherProofs!Inv /\ OtherProofs!Distinct /\ OtherProofs!Distinct'
      BY <1>2 DEF PairInv, OtherProofs!SetInv
    <3>2. OtherProofs!Set!Next
      BY <2>1, <3>1, OtherProofs!DistinctStepIsSetStep, OtherAssumption
    <3>3. QED  BY <3>2, OtherSet
  <2>2. CASE UNCHANGED otherVars
    BY <2>2 DEF otherVars, Other!Set!setVars, Other!Contents, Other!Occupied
  <2>3. QED  BY <1>2, <2>1, <2>2, OtherNext DEF NextPair, vars, otherVars
<1>3. QED  BY <1>1, <1>2, PairInvariantHolds, PTL
           DEF SpecPair, OtherImplementsSet, Other!ImplementsSet, Other!Set!Spec
=============================================================================
