--------------------------------- MODULE Helpers ---------------------------------
(***************************************************************************)
(* Functions without state: each action calls one of them, and the         *)
(* property compares what it returned with what it is for.                 *)
(***************************************************************************)
EXTENDS Integers, Sequences, FiniteSets, SequencesExt

CONSTANTS
    PathLength,   \* longest path, in names and slashes
    MemorySizes,  \* arguments of debug_printMemory()
    ListLength,   \* longest chain or container
    Infos,        \* the values of info, or elements of a container
    Values        \* ints to compare, as sets of their bits that are 1

(* The units from bytes to terabytes, and i in whole units, as the shifts *)
(* give it                                                                *)
UnitBytes(u) == CASE u = 0 -> 1
                  [] u = 1 -> 1024
                  [] u = 2 -> 1024 * 1024
                  [] u = 3 -> 1024 * 1024 * 1024
                  [] u = 4 -> 1024 * 1024 * 1024 * 1024

WholeUnits(i, u) == i \div UnitBytes(u)

(* A quantity of memory is less than 1000 terabytes. *)
ASSUME HelpersAssumption ==
    /\ PathLength \in Nat /\ ListLength \in Nat
    /\ \A i \in MemorySizes : i \in Nat /\ \E u \in 0 .. 4 : WholeUnits(i, u) <= 999

VARIABLE call  \* the function called, its arguments and its results

helperVars == <<call>>

NoCall == <<"none", <<>>, <<>>>>

InitHelpers == call = NoCall

(* One call is enough. *)
Called(name, args, results) == call = NoCall /\ call' = <<name, args, results>>

(***************************************************************************)
(* debug_shortName(filename, "tests/").  A path is a sequence of names and *)
(* slashes; the result is the number of them that are skipped.             *)
(***************************************************************************)
Back(path, s) == CHOOSE i \in 0 .. s : /\ i = 0 \/ path[i] = "/"
                                       /\ \A j \in i + 1 .. s : path[j] # "/"

(* Mutant: a name is taken for the tests directory wherever it stands. *)
ShortNameOfTests(path) ==
    LET name == Back(path, Len(path))
        module == Back(path, name - 1)
    IN  IF name = 0 THEN 0
        ELSE IF module = 0 \/ "tests" \notin ToSet(path) THEN module
        ELSE Back(path, module - 1)

debug_shortName(path) ==
    LET name == Back(path, Len(path))
        module == Back(path, name - 1)
    IN  IF name = 0 THEN 0
        ELSE IF module = 0 \/ path[module + 1] # "tests" THEN module
        ELSE Back(path, module - 1)

Paths == UNION {[1 .. n -> {"/", "tests", "name"}] : n \in 1 .. PathLength}

(* Two names are never next to each other. *)
WellFormed(path) ==
    \A i \in 1 .. Len(path) - 1 : "/" \in {path[i], path[i + 1]}

CallShortName ==
    \E p \in Paths : WellFormed(p) /\ Called("shortName", p, <<debug_shortName(p)>>)

Slashes(path) == Cardinality({i \in DOMAIN path : path[i] = "/"})

(* The file and its module, which is before "tests" if that is where the   *)
(* file is: as many slashes, or the whole path.                            *)
IsShortName(path, skipped) ==
    LET rest == SubSeq(path, skipped + 1, Len(path))
        dir == SelectLastInSubSeq(path, 1, Len(path), LAMBDA t : t = "/")
        inTests == dir > 1 /\ path[dir - 1] = "tests"
        wanted == IF inTests THEN 2 ELSE 1
    IN  \/ skipped = 0 /\ Slashes(path) <= wanted
        \/ skipped > 0 /\ path[skipped] = "/" /\ Slashes(rest) = wanted

(***************************************************************************)
(* debug_printMemory(): the number, its first decimal and the unit.        *)
(***************************************************************************)
debug_printMemory(i) ==
    LET unit == CHOOSE u \in 0 .. 4 : WholeUnits(i, u) <= 999 /\ \A v \in 0 .. u - 1 : WholeUnits(i, v) > 999
        main == WholeUnits(i, unit)
        rest == IF unit = 0 THEN 0 ELSE (i - main * UnitBytes(unit)) \div UnitBytes(unit - 1)
    IN  <<main, (rest + 50) \div 100, unit>>

CallPrintMemory == \E i \in MemorySizes : Called("printMemory", <<i>>, debug_printMemory(i))

(* With one digit behind the point, what is printed is less than a tenth   *)
(* of the unit away from the truth.                                        *)
IsMemory(i, main, decimal, unit) ==
    LET u == UnitBytes(unit)
        error == 10 * (i - main * u) - decimal * u
    IN  main <= 999 /\ (decimal \in 0 .. 9 => -u < error /\ error < u)

(***************************************************************************)
(* hash_countCollisions() of a chain of buckets with these infos, and      *)
(* sequence_filter over a container of elements of which TRUE ones satisfy *)
(* the predicate.                                                          *)
(***************************************************************************)
Lists(s) == UNION {[1 .. n -> s] : n \in 0 .. ListLength}

Later(chain, r) == {n \in r + 1 .. Len(chain) : chain[n] = chain[r]}
NotCounted(chain, r) == \A check \in 1 .. r - 1 : chain[check] # chain[r]

countCollisions(chain) ==
    LET count[r \in 0 .. Len(chain)] ==
            IF r = 0 THEN 0
            ELSE count[r - 1] + (IF NotCounted(chain, r) THEN Cardinality(Later(chain, r)) ELSE 0)
    IN  count[Len(chain)]

CallCountCollisions == \E c \in Lists(Infos) : Called("collisions", c, <<countCollisions(c)>>)

(* _skip_to_next(): the next position that satisfies the predicate, or end *)
SkipToNext(container, i) ==
    CHOOSE j \in i + 1 .. Len(container) + 1 :
        /\ j = Len(container) + 1 \/ container[j]
        /\ \A k \in i + 1 .. j - 1 : ~container[k]

FilterBegin(container) ==
    IF container # <<>> /\ ~container[1] THEN SkipToNext(container, 1) ELSE 1

(* The positions that a loop from begin() by ++ comes to before end() *)
Visited(container) ==
    LET end == Len(container) + 1
        at[k \in 0 .. Len(container)] ==
            IF k = 0 THEN FilterBegin(container)
            ELSE IF at[k - 1] = end THEN end ELSE SkipToNext(container, at[k - 1])
        steps == CHOOSE n \in 0 .. Len(container) : at[n] = end /\ \A k \in 0 .. n - 1 : at[k] # end
    IN  [k \in 1 .. steps |-> at[k - 1]]

CallFilter == \E c \in Lists(BOOLEAN) : Called("filter", c, Visited(c))

(***************************************************************************)
(* The relations of relation.h, as numbers of two bits.                    *)
(***************************************************************************)
base_SUPERSET == 1
base_SUBSET == 2
RelationOf(s, t) == (IF t \subseteq s THEN base_SUPERSET ELSE 0) + (IF s \subseteq t THEN base_SUBSET ELSE 0)

base_symRelation(rel) == (rel \div 2) + 2 * (rel % 2)

CallSymRelation ==
    \E s, t \in SUBSET Infos : Called("symRelation", <<s, t>>, <<base_symRelation(RelationOf(s, t))>>)

(* Shifts, for relations that are not exact: superset or not, subset or not *)
base_sub2super(rel) == rel \div 2
base_super2sub(rel) == 2 * (rel % 2)

CallConversions ==
    \E s, t \in SUBSET Infos :
        LET rel == RelationOf(s, t)
        IN  Called("conversions", <<s, t>>, <<base_sub2super(rel), base_super2sub(rel)>>)

(***************************************************************************)
(* Comparisons of the first n ints of an array, which accumulate what is   *)
(* different in the bits of an int.  NULL is an array of no ints.          *)
(***************************************************************************)
NullArray == <<>>
IntArrays == [1 .. 2 -> Values]

Xor(x, y) == SymDiff(x, y)

Accumulated(diff, n) == UNION {diff[k] : k \in 1 .. n}

base_areBitsReset(bits1, n) == Accumulated(bits1, n) = {}
base_areBitsEqual(bits1, bits2, n) == Accumulated([k \in 1 .. n |-> Xor(bits1[k], bits2[k])], n) = {}
base_diff(mem, n, value) == Accumulated([k \in 1 .. n |-> Xor(mem[k], value)], n)

base_areEqual(data1, data2, n) ==
    \/ data1 = data2
    \/ /\ data1 # NullArray /\ data2 # NullArray
       /\ \A k \in 1 .. n : data1[k] = data2[k]

CallCompare ==
    \E x, y \in IntArrays, n \in 0 .. 2 :
        Called("compare", <<x, y, n>>,
               <<base_areBitsReset(x, n), base_areBitsEqual(x, y, n), base_areEqual(x, y, n)>>)

CallCompareNull ==
    \E x, y \in IntArrays \cup {NullArray}, n \in 0 .. 2 :
        /\ NullArray \in {x, y}
        /\ Called("compareNull", <<x, y>>, <<base_areEqual(x, y, n)>>)

CallDiff ==
    \E x \in IntArrays, v \in Values, n \in 0 .. 2 :
        Called("diff", <<x, v, n>>, <<base_diff(x, n, v)>>)

NextHelpers ==
    \/ CallShortName \/ CallPrintMemory \/ CallCountCollisions \/ CallFilter
    \/ CallSymRelation \/ CallConversions \/ CallCompare \/ CallCompareNull \/ CallDiff

SpecHelpers == InitHelpers /\ [][NextHelpers]_helperVars

(* Each function computes what its comment says: a file name with its      *)
(* module, a quantity that is nearly right where it has one decimal, the   *)
(* buckets of a chain that share their info with an earlier one, the       *)
(* elements that satisfy the predicate in their order, the relation with   *)
(* its arguments exchanged, the inclusion it states, and whether the ints  *)
(* asked for are the same or are what they are compared with, the last of  *)
(* them included.                                                          *)
ResultsAreAsDefined ==
    LET argument == call[2]
        result == call[3]
    IN  /\ call[1] = "shortName" => IsShortName(argument, result[1])
        /\ call[1] = "printMemory" => IsMemory(argument[1], result[1], result[2], result[3])
        /\ call[1] = "collisions" => result[1] = Len(argument) - Cardinality(ToSet(argument))
        /\ call[1] = "filter" =>
              /\ ToSet(result) = {i \in DOMAIN argument : argument[i]}
              /\ \A j, k \in DOMAIN result : j < k => result[j] < result[k]
        /\ call[1] = "symRelation" => result[1] = RelationOf(argument[2], argument[1])
        /\ call[1] = "conversions" =>
              /\ (result[1] = base_SUPERSET) = (argument[1] \subseteq argument[2])
              /\ (result[2] = base_SUBSET) = (argument[2] \subseteq argument[1])
        /\ call[1] = "compare" =>
              LET first(x) == SubSeq(x, 1, argument[3])
                  zeros == [k \in 1 .. argument[3] |-> {}]
              IN  /\ result[1] = (first(argument[1]) = zeros)
                  /\ \A i \in 2 .. 3 : result[i] = (first(argument[1]) = first(argument[2]))
        /\ call[1] = "compareNull" => result[1] = (argument[1] = argument[2])
        /\ call[1] = "diff" =>
              (result[1] = {}) = (ToSet(SubSeq(argument[1], 1, argument[3])) \subseteq {argument[2]})

(* "keep only highest digit": one digit is printed behind the point.       *)
DecimalIsADigit == call[1] = "printMemory" => call[3][2] \in 0 .. 9
=============================================================================
