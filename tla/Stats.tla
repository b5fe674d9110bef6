--------------------------------- MODULE Stats ---------------------------------
(***************************************************************************)
(* base::Stats (src/base/stats.cpp): counters that appear when they are    *)
(* first counted, each with a list of sub-counters.  The table they are    *)
(* kept in is that of module HashTable; here it is a chain per hash value. *)
(***************************************************************************)
EXTENDS Integers, Sequences, FiniteSets, SequencesExt

CONSTANTS
    StatNames,  \* names of counters
    SubNames,   \* names of sub-counters
    NameHash,   \* NameHash[n]: hash_computeStr(n, 0)
    NoSub,      \* subStat is NULL
    MaxCount    \* calls of count() for one counter or sub-counter

ASSUME StatsAssumption ==
    /\ NameHash \in [StatNames -> Nat]
    /\ NoSub \notin SubNames
    /\ MaxCount \in Nat

VARIABLES
    stats,  \* stats[h]: the entries with hash h, newest first
    calls   \* calls[<<n, s>>]: how often count(n, s) was called

statsVars == <<stats, calls>>

Hashes == {NameHash[n] : n \in StatNames}

InitStats ==
    /\ stats = [h \in Hashes |-> <<>>]
    /\ calls = [c \in StatNames \X (SubNames \cup {NoSub}) |-> 0]

(* stat_t(), which counts the call that creates it *)
NewStat(n) == [name |-> n, counter |-> 1]

(* The index of the counter of that name, 0 if there is none. *)
Position(list, n) == SelectInSeq(list, LAMBDA x : x.name = n)

(* Mutant: the first sub-counter is taken for the one that is counted. *)
SubCountedFirst(subs, s) ==
    IF subs = <<>> THEN <<NewStat(s)>> ELSE [subs EXCEPT ![1].counter = @ + 1]

(* count() of a sub-counter in the entry of its counter *)
SubCounted(subs, s) ==
    LET at == Position(subs, s)
    IN  IF at = 0 THEN <<NewStat(s)>> \o subs ELSE [subs EXCEPT ![at].counter = @ + 1]

Counted(entry, s) ==
    IF s = NoSub THEN [entry EXCEPT !.counter = @ + 1]
                 ELSE [entry EXCEPT !.subs = SubCounted(@, s)]

(* The entry made by the first count() of a name.  When that is one of a   *)
(* sub-counter, the sub-counter gets the name of the counter.              *)
NewEntry(n, s) ==
    [name |-> n, counter |-> 1, subs |-> IF s = NoSub THEN <<>> ELSE <<NewStat(n)>>]

Count(n, s) ==
    LET h == NameHash[n]
        at == Position(stats[h], n)
    IN  /\ calls[<<n, s>>] < MaxCount
        /\ stats' = IF at = 0 THEN [stats EXCEPT ![h] = <<NewEntry(n, s)>> \o @]
                              ELSE [stats EXCEPT ![h][at] = Counted(@, s)]
        /\ calls' = [calls EXCEPT ![<<n, s>>] = @ + 1]

(* RECORD_STAT() and RECORD_SUBSTAT() *)
NextStats == \E n \in StatNames, s \in SubNames \cup {NoSub} : Count(n, s)

SpecStats == InitStats /\ [][NextStats]_statsVars

(* What the destructor shows of a counter and of its sub-counters. *)
Shown(n) ==
    LET chain == stats[NameHash[n]]
        at == Position(chain, n)
    IN  IF at = 0 THEN [counter |-> 0, subs |-> <<>>]
        ELSE [counter |-> chain[at].counter, subs |-> chain[at].subs]

ShownSub(n, s) ==
    LET at == Position(Shown(n).subs, s) IN IF at = 0 THEN 0 ELSE Shown(n).subs[at].counter

(* Every call is counted once, where it belongs, however names share a     *)
(* hash value: except that the first call of a counter, if it is one of a  *)
(* sub-counter, counts for the counter instead.                            *)
CallsAreCounted ==
    \A n \in StatNames :
        LET subCalls == MapThenSumSet(LAMBDA s : calls[<<n, s>>], SubNames)
            subShown == MapThenSumSet(LAMBDA s : ShownSub(n, s), SubNames)
            misnamed == ShownSub(n, n)
        IN  /\ Shown(n).counter = calls[<<n, NoSub>>] + misnamed
            /\ subShown = subCalls - misnamed
            /\ \A s \in SubNames : /\ calls[<<n, s>>] - misnamed <= ShownSub(n, s)
                                    /\ ShownSub(n, s) <= calls[<<n, s>>]
            /\ misnamed \in {0, 1}
=============================================================================
