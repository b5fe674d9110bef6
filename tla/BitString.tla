------------------------------- MODULE BitString -------------------------------
(***************************************************************************)
(* Bit strings in arrays of ints (include/base/bitstring.h,                *)
(* src/base/bitstring.c) and the functions of src/debug/utils.cpp that     *)
(* draw, fix and check random ones.  An int is the set of its bits that    *)
(* are 1; bit b of word w is position w * WordBits + b.                    *)
(***************************************************************************)
EXTENDS Integers, FiniteSets

CONSTANTS
    Words,     \* number of ints
    WordBits,  \* bits of an int, 32 in the code
    Undefined  \* what the index table holds before it is written

ASSUME BitStringAssumption ==
    /\ Words \in Nat \ {0} /\ WordBits \in Nat \ {0}
    /\ Undefined \notin Nat

VARIABLES
    bits,
    request,     \* the last call that wrote the bits, and its arguments
    indexTable,  \* a table for bits2indexTable()
    tableOK      \* what debug_bits2indexTableOK() returned

bitStringVars == <<bits, request, indexTable, tableOK>>

Bits == 0 .. WordBits - 1
AllBits == 0 .. Words * WordBits - 1

(* The numbers debug_printActiveSet() prints: it adds 32 for each word. *)
ActiveSet(x) == UNION {{w * WordBits + b : b \in x[w]} : w \in DOMAIN x}

(* base_countBits(), by what it does, and base_countBitsN() of the first n *)
countBits(word) == Cardinality(word)
countBitsN(x, n) ==
    LET sum[k \in 0 .. n] == IF k = 0 THEN 0 ELSE sum[k - 1] + countBits(x[k - 1]) IN sum[n]

NewTable == [i \in AllBits |-> Undefined]

(* A call has written the bit string: nothing is unpacked from it yet. *)
BitsBecome(x, asked) ==
    bits' = x /\ request' = asked /\ indexTable' = NewTable /\ tableOK' = FALSE

InitBitString ==
    /\ bits = [w \in 0 .. Words - 1 |-> {}]
    /\ request = <<>>
    /\ indexTable = NewTable
    /\ tableOK = FALSE

WordOf(i) == i \div WordBits
BitOf(i) == i % WordBits

SetOneBit ==
    \E i \in AllBits :
        BitsBecome([bits EXCEPT ![WordOf(i)] = @ \cup {BitOf(i)}], <<"set", i>>)
ResetOneBit ==
    \E i \in AllBits :
        BitsBecome([bits EXCEPT ![WordOf(i)] = @ \ {BitOf(i)}], <<"reset", i>>)

getOneBit(i) == BitOf(i) \in bits[WordOf(i)]
ToggleOneBit ==
    \E i \in AllBits :
        BitsBecome([bits EXCEPT ![WordOf(i)] =
                      IF getOneBit(i) THEN @ \ {BitOf(i)} ELSE @ \cup {BitOf(i)}],
                   <<"toggle", i>>)

(* base_resetBits() of the first n words *)
ResetBits ==
    \E n \in 0 .. Words :
        BitsBecome([w \in DOMAIN bits |-> IF w < n THEN {} ELSE bits[w]],
                   <<"clear", n * WordBits>>)

Lowest(s, k) == {i \in s : Cardinality({j \in s : j < i}) < k}
Highest(s, k) == {i \in s : Cardinality({j \in s : j > i}) < k}

(* The words drawn, cut so that they have at most nbits bits in all: what  *)
(* is too much in a word is taken off its upper end.                       *)
CutTo(draw, nbits) ==
    LET left[w \in 0 .. Words] ==
            IF w = 0 THEN nbits
            ELSE left[w - 1] - countBits(Lowest(draw[w - 1], left[w - 1]))
    IN  [w \in DOMAIN draw |-> Lowest(draw[w], left[w])]

(* k bits that are 0 are set, lowest first. *)
FillUp(x, k) ==
    LET added == Lowest(AllBits \ ActiveSet(x), k)
    IN  [w \in DOMAIN x |-> {b \in Bits : b \in x[w] \/ w * WordBits + b \in added}]

(* Words of any bits; with bit1 the lowest bit of each word is set. *)
Draws(bit1) ==
    {d \in [0 .. Words - 1 -> SUBSET Bits] : bit1 => \A w \in DOMAIN d : 0 \in d[w]}

(* The bit strings that debug_generateBits(x, n, nbits, bit1) may write,   *)
(* for each <<nbits, bit1>>                                                *)
Generated ==
    [asked \in (0 .. Words * WordBits) \X BOOLEAN |->
        {LET cut == CutTo(draw, asked[1])
         IN  FillUp(cut, asked[1] - countBitsN(cut, Words)) : draw \in Draws(asked[2])}]

GenerateBits ==
    \E nbits \in 0 .. Words * WordBits, bit1 \in BOOLEAN :
        \E x \in Generated[<<nbits, bit1>>] : BitsBecome(x, <<"generate", nbits, bit1>>)

(* Mutant: bit positions up to size itself are taken for allowed ones. *)
FreeUpTo(size) == 0 .. size \ ActiveSet(bits)
FreeBelow(size) == 0 .. size - 1 \ ActiveSet(bits)

(* debug_fixGeneratedBits(), when there are no more bits than may be kept: *)
(* the bits from size on are moved to the highest places free below it.    *)
FixGeneratedBits ==
    \E size \in countBitsN(bits, Words) .. Words * WordBits :
        LET beyond == {i \in ActiveSet(bits) : i >= size}
            moved == Highest(FreeBelow(size), Cardinality(beyond))
        IN  BitsBecome([w \in DOMAIN bits |->
              {b \in Bits : LET i == w * WordBits + b
                            IN  i \in moved \/ (b \in bits[w] /\ i \notin beyond)}],
                      <<"fix", size>>)

(* The index that base_bits2indexTable() has reached at bit b of word w. *)
IndexAt(w, b) == countBitsN(bits, w) + Cardinality({c \in bits[w] : c < b})

Bits2IndexTable ==
    /\ indexTable' = [i \in AllBits |->
                        IF getOneBit(i) THEN IndexAt(WordOf(i), BitOf(i)) ELSE indexTable[i]]
    /\ request' = <<>> /\ tableOK' = FALSE
    /\ UNCHANGED bits

(* The owner of a table just unpacked writes another number into it. *)
WriteTable ==
    /\ bits # [w \in DOMAIN bits |-> {}]
    /\ \A i \in AllBits :
          indexTable[i] = IF getOneBit(i) THEN IndexAt(WordOf(i), BitOf(i)) ELSE Undefined
    /\ \E i \in AllBits : indexTable' = [indexTable EXCEPT ![i] = 0]
    /\ request' = <<>> /\ tableOK' = FALSE
    /\ UNCHANGED bits

(* debug_bits2indexTableOK() *)
CheckTable ==
    /\ \E nbSet \in 0 .. Words * WordBits :
        tableOK' = /\ \A i \in AllBits :
                        getOneBit(i) => indexTable[i] = IndexAt(WordOf(i), BitOf(i))
                   /\ countBitsN(bits, Words) = nbSet
    /\ request' = <<>>
    /\ UNCHANGED <<bits, indexTable>>

NextBitString ==
    \/ SetOneBit \/ ResetOneBit \/ ToggleOneBit \/ ResetBits
    \/ GenerateBits \/ FixGeneratedBits
    \/ Bits2IndexTable \/ WriteTable \/ CheckTable

SpecBitString == InitBitString /\ [][NextBitString]_bitStringVars

(* Refinement of BitSet: generated strings have as many bits as asked for, *)
(* fixing moves exactly the bits that are beyond the limit, and keeps all  *)
(* others, and the index table numbers the bits in order and is accepted   *)
(* exactly then.                                                           *)
Members == INSTANCE BitSet WITH
             Positions <- AllBits, Unwritten <- Undefined,
             set <- ActiveSet(bits), asked <- request,
             numbers <- indexTable, valid <- tableOK

ImplementsBitSet == Members!SpecBitSet
=============================================================================
