------------------------------- MODULE HashCompute -------------------------------
(***************************************************************************)
(* The hash functions of src/hash/compute.cpp: how they go through their   *)
(* data.  Murmur is the one that is compiled: compute.h defines            *)
(* MURMUR2_HASH1, and the functions of U32, U16 and U8 are for a build     *)
(* that takes this line out.  What is added to a register and how          *)
(* registers are mixed is left out: a round is the set of the reads made   *)
(* before the registers are mixed again.                                   *)
(***************************************************************************)
EXTENDS Integers, Sequences, FiniteSets

CONSTANTS
    WordBytes,  \* sizeof(uintptr_t), 8 or 4
    MaxLength   \* of the data, in units of the function

ASSUME HashComputeAssumption == WordBytes \in {4, 8} /\ MaxLength \in Nat

VARIABLES
    function,
    length,   \* the argument, in units: bytes, or ints of 16 or 32 bits
    at,       \* units read by the loop so far
    rounds,   \* what was read between two mixes
    returned

hashVars == <<function, length, at, rounds, returned>>

HashFunctions == {"murmur2_U8", "computeU32", "computeU16", "computeU8"}

InitHash ==
    /\ function = "murmur2_U8"
    /\ length = 0 /\ at = 0 /\ rounds = <<>>
    /\ returned = TRUE

Register(k) == <<"a", "b", "c">>[k + 1]

(* n units from the k-th on are added to a register. *)
Read(register, k, n) == [register |-> register, units |-> k .. k + n - 1]

Stride(f) == CASE f = "murmur2_U8" -> WordBytes
             [] f = "computeU32" -> 9
             [] f = "computeU16" -> 6
             [] f = "computeU8" -> 12

(* data[3 * g] to data[3 * g + 2], up to len, each to its register *)
Row(g, len) == {Read(Register(k), 3 * g + k, 1) : k \in {i \in 0 .. 2 : 3 * g + i < len}}

(* n whole ints of w units, to the registers in turn *)
Ints(n, w) == {Read(Register(k), w * k, w) : k \in 0 .. n - 1}

(* One pass of the loop, relative to the data pointer. *)
LoopRounds(f) ==
    CASE f = "murmur2_U8" -> <<{Read("h", 0, WordBytes)}>>
      [] f = "computeU32" -> <<Row(0, 9), Row(1, 9), Row(2, 9)>>
      [] f = "computeU16" -> <<Ints(3, 2)>>
      [] f = "computeU8" -> <<Ints(3, 4)>>

(* The cases of the last switch fall through from the last row to the first. *)
Tail32(len) ==
    LET rows == (len + 2) \div 3
    IN  [r \in 1 .. rows |-> Row(rows - r, len)]

(* Two ints and a half at most, in one round *)
Tail16(len) ==
    LET ints == len \div 2
        half == IF len % 2 = 1 THEN {Read(Register(ints), len - 1, 1)} ELSE {}
    IN  IF len = 0 THEN <<>> ELSE <<Ints(ints, 2) \cup half>>

(* Two ints and three bytes at most: a pair of bytes and a byte go to the  *)
(* next registers.  Of 11 bytes the last has a round of its own.           *)
Tail8(len) ==
    LET ints == len \div 4
        pairs == IF len % 4 >= 2 THEN {Read(Register(ints), 4 * ints, 2)} ELSE {}
        single == IF len % 2 = 1
                  THEN {Read(Register(IF len % 4 = 3 THEN (ints + 1) % 3 ELSE ints), len - 1, 1)}
                  ELSE {}
    IN  CASE len = 0 -> <<>>
          [] len = 11 -> <<single, Ints(ints, 4) \cup pairs>>
          [] OTHER -> <<Ints(ints, 4) \cup pairs \cup single>>

(* Mutant: the mask of six bytes is that of five. *)
TailReadCutTooMuch(len) ==
    CASE len = 7 -> [bytes |-> 8, bits |-> 56]
      [] len \in {5, 6} -> [bytes |-> 8, bits |-> 40]
      [] len = 4 -> [bytes |-> 4, bits |-> 32]
      [] len = 3 -> [bytes |-> 4, bits |-> 24]
      [] OTHER -> [bytes |-> len, bits |-> 8 * len]

(* The switch after the loop of murmur2: the bytes a case reads, and the   *)
(* low bits its mask keeps of them; the first byte is the lowest.          *)
TailRead(len) ==
    CASE len = 7 -> [bytes |-> 8, bits |-> 56]
      [] len = 6 -> [bytes |-> 8, bits |-> 48]
      [] len = 5 -> [bytes |-> 8, bits |-> 40]
      [] len = 4 -> [bytes |-> 4, bits |-> 32]
      [] len = 3 -> [bytes |-> 4, bits |-> 24]
      [] OTHER -> [bytes |-> len, bits |-> 8 * len]

TailMurmur(len) ==
    IF len = 0 THEN <<>> ELSE <<{Read("h", 0, TailRead(len).bits \div 8)}>>

TailRounds(f, len) ==
    CASE f = "murmur2_U8" -> TailMurmur(len)
      [] f = "computeU32" -> Tail32(len)
      [] f = "computeU16" -> Tail16(len)
      [] f = "computeU8" -> Tail8(len)

Shifted(rs, by) ==
    [i \in DOMAIN rs |-> {[r EXCEPT !.units = {u + by : u \in @}] : r \in rs[i]}]

CallHash ==
    /\ returned
    /\ function' \in HashFunctions
    /\ length' \in 0 .. MaxLength
    /\ at' = 0 /\ rounds' = <<>> /\ returned' = FALSE

HashLoop ==
    /\ ~returned /\ length - at >= Stride(function)
    /\ rounds' = rounds \o Shifted(LoopRounds(function), at)
    /\ at' = at + Stride(function)
    /\ UNCHANGED <<function, length, returned>>

HashTail ==
    /\ ~returned /\ length - at < Stride(function)
    /\ rounds' = rounds \o Shifted(TailRounds(function, length - at), at)
    /\ returned' = TRUE
    /\ UNCHANGED <<function, length, at>>

NextHash == CallHash \/ HashLoop \/ HashTail

SpecHash == InitHash /\ [][NextHash]_hashVars

AllReads == UNION {{<<i, r>> : r \in rounds[i]} : i \in DOMAIN rounds}

(* Whatever the length, each unit of the data is read once and nothing     *)
(* else is, and no register takes two reads before the next mix, which     *)
(* could cancel out.  Murmur reads on behind its data, masks what it does  *)
(* not own, and does not read beyond the word the data ends in.                                                  *)
EveryUnitIsMixedOnce ==
    returned =>
        /\ \A u \in 0 .. length - 1 : Cardinality({x \in AllReads : u \in x[2].units}) = 1
        /\ \A x \in AllReads : x[2].units \subseteq 0 .. length - 1
        /\ \A x, y \in AllReads : x[1] = y[1] /\ x[2].register = y[2].register => x = y
        /\ function = "murmur2_U8" => TailRead(length - at).bytes \in length - at .. WordBytes
=============================================================================
