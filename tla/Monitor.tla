-------------------------------- MODULE Monitor --------------------------------
(***************************************************************************)
(* debug::NewPointerTable and the operators new and delete, the monitored  *)
(* malloc and free, and the functions of monitor.h that use its only       *)
(* instance (src/debug/new.cpp).  Every allocation has a record in a hash  *)
(* table of chains; a user may remember and forget pointers as well.       *)
(* Records of allocations and of users are told apart by their size.       *)
(***************************************************************************)
EXTENDS Integers, SequencesExt

CONSTANTS
    Ptrs,          \* addresses that malloc returns
    Home,          \* Home[p]: the address of p >> 2
    NULL,
    Sizes,         \* sizes the program asks for
    Positions,     \* source positions, as __FILE__ and __LINE__ give them
    NoPosition,
    ExtensionBit,  \* 2 ^ 31: marks a record with a position, in its size
    InitSize,      \* INIT_SIZE
    SlotBytes, RecordBytes, ExtRecordBytes, SelfBytes,  \* what the overhead counts
    MaxBuckets,    \* bound: records at a time
    CanFail        \* whether malloc may fail in rehash() or for a record

NOSIZE == ExtensionBit - 1

ASSUME MonitorAssumption ==
    /\ Home \in [Ptrs -> Nat] /\ NULL \notin Ptrs
    /\ NoPosition \notin Positions
    /\ ExtensionBit \in Nat \ {0} /\ Sizes \subseteq 1 .. NOSIZE - 1
    /\ InitSize \in Nat \ {0}
    /\ SlotBytes \in Nat /\ RecordBytes \in Nat /\ ExtRecordBytes \in Nat /\ SelfBytes \in Nat
    /\ MaxBuckets \in Nat
    /\ CanFail \in BOOLEAN

VARIABLES
    table,      \* 0 .. mask -> chain of records
    nbBuckets,
    totalAlloc, \* bytes allocated now; the high-water marks are left out
    overhead,   \* bytes the monitor itself uses
    pos,        \* position kept for the next delete
    pushed,     \* localPosition
    status,     \* "on", "off" after the destructor, "crashed": see free and new
    heap,       \* what malloc handed out: Ptrs -> size, 0 for nothing
    lost,       \* pointers malloc handed out that never reached the program
    prepared,   \* pos was given since the last call to forget()
    report      \* what the last call printed

vars == <<table, nbBuckets, totalAlloc, overhead, pos, pushed, status, heap, lost,
          prepared, report>>

Silent == [alarm |-> "none", pos |-> NoPosition, own |-> TRUE, leaks |-> <<>>]

Init ==
    /\ table = [i \in 0 .. InitSize - 1 |-> <<>>]
    /\ nbBuckets = 0
    /\ totalAlloc = 0
    /\ overhead = InitSize * SlotBytes + SelfBytes
    /\ pos = NoPosition
    /\ pushed = NoPosition
    /\ status = "on"
    /\ heap = [p \in Ptrs |-> 0]
    /\ lost = {}
    /\ prepared = FALSE
    /\ report = Silent

-----------------------------------------------------------------------------
(* The table *)

TableSize(t) == Cardinality(DOMAIN t)

ChainOf(t, p) == t[Home[p] % TableSize(t)]

IsExtended(r) == r.size >= ExtensionBit

(* BUCKETSIZE *)
BucketSize(r) == IF IsExtended(r) THEN r.size - ExtensionBit ELSE r.size

OfUser(r) == BucketSize(r) = NOSIZE

Bytes(r) == IF IsExtended(r) THEN ExtRecordBytes ELSE RecordBytes

(* Mutant: the walk does not tell users' records from allocations. *)
PlacesOfAnyKind(t, p, nosize) == {k \in DOMAIN ChainOf(t, p) : ChainOf(t, p)[k].ptr = p}

(* The records of p that forget(p, nosize) stops at. *)
Places(t, p, nosize) ==
    {k \in DOMAIN ChainOf(t, p) :
        ChainOf(t, p)[k].ptr = p /\ OfUser(ChainOf(t, p)[k]) = nosize}

(* The records of a chain whose hash, divided by n, is even or odd, linked *)
(* in front of each other.                                                 *)
Divided(chain, n, half) ==
    LET moved[k \in 0 .. Len(chain)] ==
            IF k = 0 THEN <<>>
            ELSE IF (Home[chain[k].ptr] \div n) % 2 = half
                 THEN <<chain[k]>> \o moved[k - 1]
                 ELSE moved[k - 1]
    IN  moved[Len(chain)]

(* Mutant: the bit looked at is that of the next rehash. *)
RehashedTooFar(t) ==
    LET n == TableSize(t)
    IN  [j \in 0 .. 2 * n - 1 |-> Divided(t[j % n], 2 * n, j \div n)]

(* rehash(): the chain of slot i is divided between i and i + oldSize, by  *)
(* the bit oldSize of the hash.                                            *)
Rehashed(t) ==
    LET n == TableSize(t)
    IN  [j \in 0 .. 2 * n - 1 |-> Divided(t[j % n], n, j \div n)]

(* inc(): the tables the call may leave.  A rehash that gets no memory     *)
(* gives up silently.                                                      *)
AfterInc(t, n) ==
    IF n > (TableSize(t) - 1) \div 2
    THEN {Rehashed(t)} \cup (IF CanFail THEN {t} ELSE {})
    ELSE {t}

-----------------------------------------------------------------------------
(* remember() and forget() *)

AlreadyRegistered(p, s) == s # NOSIZE /\ Places(table, p, FALSE) # {}

(* Both remember(): with a position the record is an extended one.  The    *)
(* overhead of rehash() is taken once the old table is freed, as it is.    *)
Remember(p, s, where) ==
    LET r == [ptr |-> p, pos |-> where,
              size |-> IF where = NoPosition THEN s ELSE s + ExtensionBit]
        linked == [table EXCEPT ![Home[p] % TableSize(table)] = <<r>> \o @]
    IN  IF status # "on"
        THEN /\ UNCHANGED <<table, nbBuckets, totalAlloc, overhead>>
             /\ report' = Silent
        ELSE IF AlreadyRegistered(p, s)
        THEN /\ UNCHANGED <<table, nbBuckets, totalAlloc, overhead>>
             /\ report' = [Silent EXCEPT !.alarm = "twice"]
        ELSE /\ nbBuckets' = nbBuckets + 1
             /\ table' \in AfterInc(linked, nbBuckets')
             /\ totalAlloc' = IF s = NOSIZE THEN totalAlloc ELSE totalAlloc + s
             /\ overhead' = overhead + Bytes(r)
                              + SlotBytes * (TableSize(table') - TableSize(table))
             /\ report' = Silent

(* remember() without memory for a record throws before it changes anything. *)
RememberThrows(p, s) ==
    /\ CanFail /\ status = "on" /\ ~AlreadyRegistered(p, s)
    /\ report' = Silent
    /\ UNCHANGED <<table, nbBuckets, totalAlloc, overhead>>

(* Mutant: users' records are subtracted as well. *)
TotalAfterAny(r) == totalAlloc - BucketSize(r)

TotalAfter(r) == IF OfUser(r) THEN totalAlloc ELSE totalAlloc - BucketSize(r)

(* forget(p, nosize) with the position at prepared for it: only a call     *)
(* that finds nothing invalidates the position.                            *)
Forget(p, nosize, at, own) ==
    /\ prepared' = FALSE
    /\ IF status # "on" \/ p = NULL
       THEN /\ pos' = NoPosition
            /\ report' = Silent
            /\ UNCHANGED <<table, nbBuckets, totalAlloc, overhead>>
       ELSE IF Places(table, p, nosize) = {}
       THEN /\ pos' = NoPosition
            /\ report' = [Silent EXCEPT !.alarm = "unknown", !.pos = at, !.own = own]
            /\ UNCHANGED <<table, nbBuckets, totalAlloc, overhead>>
       ELSE LET k == Min(Places(table, p, nosize))
                r == ChainOf(table, p)[k]
            IN  /\ table' = [table EXCEPT ![Home[p] % TableSize(table)] = RemoveAt(@, k)]
                /\ nbBuckets' = nbBuckets - 1
                /\ totalAlloc' = TotalAfter(r)
                /\ overhead' = overhead - Bytes(r)
                /\ pos' = at
                /\ report' = Silent

-----------------------------------------------------------------------------
(* The functions the program calls *)

(* operator new in all its versions, and monitoredMalloc: where is         *)
(* NoPosition for those of the standard.                                   *)
New(p, s, where) ==
    /\ heap[p] = 0 /\ p \notin lost
    /\ nbBuckets < MaxBuckets
    /\ Remember(p, s, where)
    /\ heap' = [heap EXCEPT ![p] = s]
    /\ UNCHANGED <<pos, pushed, status, lost, prepared>>

(* The exception leaves operator new or monitoredMalloc, which forgets     *)
(* what malloc gave it.                                                    *)
NewThrows(p, s) ==
    /\ heap[p] = 0 /\ p \notin lost
    /\ RememberThrows(p, s)
    /\ lost' = lost \cup {p}
    /\ UNCHANGED <<pos, pushed, status, heap, prepared>>

(* The versions of operator new with std::nothrow are noexcept: there the  *)
(* exception ends the program.                                             *)
NewTerminates(p, s) ==
    /\ heap[p] = 0 /\ p \notin lost
    /\ RememberThrows(p, s)
    /\ status' = "crashed"
    /\ UNCHANGED <<pos, pushed, heap, lost, prepared>>

(* What follows forget(p, false): free(p), which must not get a pointer    *)
(* that is not allocated.                                                  *)
FreeAfterForget(p) ==
    IF p = NULL THEN UNCHANGED <<heap, lost, status>>
    ELSE /\ heap' = [heap EXCEPT ![p] = 0]
         /\ lost' = lost \ {p}
         /\ status' = IF heap[p] = 0 /\ p \notin lost THEN "crashed" ELSE status

(* Objects that outlive the monitor only free what they hold. *)
MayFree(p) == status = "off" => p \in {NULL} \cup {q \in Ptrs : heap[q] # 0}

(* operator delete, with the position that was prepared for it, if any. *)
Delete(p) ==
    /\ MayFree(p)
    /\ Forget(p, FALSE, pos, prepared)
    /\ FreeAfterForget(p)
    /\ UNCHANGED pushed

MonitoredFree(p, at) ==
    /\ MayFree(p)
    /\ Forget(p, FALSE, at, TRUE)
    /\ FreeAfterForget(p)
    /\ UNCHANGED pushed

PrepareDelete(at) ==
    /\ pos' = at
    /\ prepared' = TRUE
    /\ report' = Silent
    /\ UNCHANGED <<table, nbBuckets, totalAlloc, overhead, pushed, status, heap, lost>>

PushPosition(at) ==
    /\ pushed' = at
    /\ report' = Silent
    /\ UNCHANGED <<table, nbBuckets, totalAlloc, overhead, pos, status, heap, lost, prepared>>

Pop == PrepareDelete(pushed)

RememberPointer(p, where) ==
    /\ nbBuckets < MaxBuckets
    /\ Remember(p, NOSIZE, where)
    /\ UNCHANGED <<pos, pushed, status, heap, lost, prepared>>

RememberPointerThrows(p) ==
    /\ RememberThrows(p, NOSIZE)
    /\ UNCHANGED <<pos, pushed, status, heap, lost, prepared>>

ForgetPointer(p, at) ==
    /\ Forget(p, TRUE, at, TRUE)
    /\ UNCHANGED <<pushed, status, heap, lost>>

ForgetPtr(p) ==
    /\ Forget(p, TRUE, pos, prepared)
    /\ UNCHANGED <<pushed, status, heap, lost>>

(* Mutant: a new kind of leak hides the others. *)
AddedAnew(leaks, r) == <<[size |-> BucketSize(r), where |-> r.pos, nb |-> 1]>>

(* StatsTable::addLeak: leaks of the same size and position are counted    *)
(* together.                                                               *)
AddLeak(leaks, r) ==
    LET same == {k \in DOMAIN leaks : leaks[k].size = BucketSize(r) /\ leaks[k].where = r.pos}
    IN  IF same = {}
        THEN <<[size |-> BucketSize(r), where |-> r.pos, nb |-> 1]>> \o leaks
        ELSE [leaks EXCEPT ![Min(same)].nb = @ + 1]

(* The destructor, when the program ends: it prints the leaks.  Static     *)
(* objects that are destroyed later still call new and delete.             *)
Destroy ==
    /\ status = "on"
    /\ status' = "off"
    /\ report' = LET n == TableSize(table)
                     records == FlattenSeq([i \in 1 .. n |-> table[i - 1]])
                 IN  [Silent EXCEPT !.leaks = FoldLeft(AddLeak, <<>>, records)]
    /\ overhead' = SelfBytes
    /\ UNCHANGED <<table, nbBuckets, totalAlloc, pos, pushed, heap, lost, prepared>>

Next ==
    /\ status # "crashed"
    /\ \/ \E p \in Ptrs, s \in Sizes, w \in Positions \cup {NoPosition} : New(p, s, w)
       \/ \E p \in Ptrs, s \in Sizes : NewThrows(p, s) \/ NewTerminates(p, s)
       \/ \E p \in Ptrs : RememberPointerThrows(p)
       \/ \E p \in Ptrs \cup {NULL} : Delete(p)
       \/ \E p \in Ptrs \cup {NULL}, w \in Positions : MonitoredFree(p, w)
       \/ \E w \in Positions : PrepareDelete(w) \/ PushPosition(w)
       \/ Pop
       \/ \E p \in Ptrs, w \in Positions : RememberPointer(p, w) \/ ForgetPointer(p, w)
       \/ \E p \in Ptrs : ForgetPtr(p)
       \/ Destroy

Spec == Init /\ [][Next]_vars

-----------------------------------------------------------------------------
(* Properties *)

(* Where the records are: slots, and places in their chains *)
RecordPlaces(t) == UNION {{i} \X DOMAIN t[i] : i \in DOMAIN t}

(* The sum of the sizes of things, as the number of their bytes *)
Total(size) == Cardinality(UNION {{x} \X (1 .. size[x]) : x \in DOMAIN size})

(* Type invariant. *)
TypeOK ==
    /\ \A i \in DOMAIN table : \A k \in DOMAIN table[i] :
         table[i][k] \in [ptr : Ptrs, size : 1 .. ExtensionBit + NOSIZE,
                          pos : Positions \cup {NoPosition}]
    /\ nbBuckets \in 0 .. MaxBuckets
    /\ totalAlloc \in Nat /\ overhead \in Nat
    /\ pos \in Positions \cup {NoPosition}
    /\ pushed \in Positions \cup {NoPosition}
    /\ status \in {"on", "off", "crashed"}
    /\ heap \in [Ptrs -> Sizes \cup {0}]
    /\ prepared \in BOOLEAN
    /\ report.alarm \in {"none", "unknown", "twice"}

(* Every pointer the program holds has one record, with its size, on the   *)
(* chain where forget() looks for it, and nothing else has one, whatever   *)
(* was rehashed, could not be rehashed, or is remembered by hand as well.  *)
(* So "already registered" is never printed for a working malloc.          *)
AllocationsAreRecorded ==
    status = "on" =>
        /\ \A i \in DOMAIN table : \A k \in DOMAIN table[i] :
              Home[table[i][k].ptr] % TableSize(table) = i
        /\ \A p \in Ptrs :
              /\ Cardinality(Places(table, p, FALSE)) = IF heap[p] = 0 THEN 0 ELSE 1
              /\ \A k \in Places(table, p, FALSE) : BucketSize(ChainOf(table, p)[k]) = heap[p]

(* The counters, which are only ever changed by differences, agree with    *)
(* what there is: records, bytes in use and bytes the monitor itself uses. *)
CountersAreExact ==
    status = "on" =>
        /\ nbBuckets = Cardinality(RecordPlaces(table))
        /\ totalAlloc = Total(heap)
        /\ overhead = Total([x \in RecordPlaces(table) |-> Bytes(table[x[1]][x[2]])])
                       + SlotBytes * TableSize(table) + SelfBytes

(* The report at the end lists each size and position once, and for every  *)
(* size as many leaks as pointers of that size are still held.             *)
LeakReportIsExact ==
    [][Destroy =>
         LET leaks == report'.leaks
         IN  /\ \A j, k \in DOMAIN leaks :
                   j # k => <<leaks[j].size, leaks[j].where>> # <<leaks[k].size, leaks[k].where>>
             /\ \A s \in Sizes :
                   Total([k \in DOMAIN leaks |-> IF leaks[k].size = s THEN leaks[k].nb ELSE 0])
                     = Cardinality({p \in Ptrs : heap[p] = s})]_vars

(* Refinement: seen from outside the monitor is a registry.  It complains  *)
(* about a pointer exactly when the program does not hold it, and users'   *)
(* marks and allocations of the same pointer do not disturb each other.    *)
Registry == INSTANCE PointerRegistry WITH
    held <- [p \in Ptrs |->
                LET ks == Places(table, p, FALSE)
                IN  IF ks = {} THEN 0 ELSE BucketSize(ChainOf(table, p)[Min(ks)])],
    marks <- [p \in Ptrs |-> Cardinality(Places(table, p, TRUE))],
    alarm <- report.alarm,
    open <- status # "off"
ImplementsRegistry == Registry!Spec

(* "The position will be gone after one call to forgetPtr": an error names *)
(* a position that was prepared for the call that failed.                  *)
ReportedPositionIsOwn == report.pos # NoPosition => report.own
=============================================================================
