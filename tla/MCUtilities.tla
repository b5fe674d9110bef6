------------------------------ MODULE MCUtilities ------------------------------
(***************************************************************************)
(* A program that uses one of the parts that do not interact with others:  *)
(* an ItemAllocator, the bit strings, the hash functions, the stateless    *)
(* helpers, the debug allocator, the memory monitor, the timer, the time   *)
(* monitor, the statistics or a trace.                                     *)
(***************************************************************************)
EXTENDS ItemAllocator, BitString, HashCompute, Helpers, DebugAllocator, Monitor, Timer,
        TimeMonitor, Stats, Tracing

CONSTANTS n1, n2, p1, p2, x  \* names of counters, pointers and a position

VARIABLE used  \* the utility the program uses

(* What is not used stays in one of its initial states. *)
InitUtilities ==
    /\ used \in {"items", "bits", "hash", "helpers", "heap", "watch", "timer", "period",
                "stats", "trace"}
    /\ InitItems /\ InitBitString /\ InitHash /\ InitHelpers /\ InitDebugAllocator /\ Init
    /\ InitTimer /\ InitTimeMonitor /\ InitStats /\ InitTrace
    /\ used # "timer" => clock = 0 /\ paused
    /\ used # "period" => pace = 0
    /\ used # "trace" => ~record

Uses(utility, others) == used = utility /\ UNCHANGED <<used, others>>

UseItems ==
    /\ Uses("items", <<bitStringVars, hashVars, helperVars, debugAllocVars, vars, timerVars,
                       timeVars, statsVars, traceVars>>)
    /\ NextItems
UseBitString ==
    /\ Uses("bits", <<itemVars, hashVars, helperVars, debugAllocVars, vars, timerVars,
                      timeVars, statsVars, traceVars>>)
    /\ NextBitString
UseHash ==
    /\ Uses("hash", <<itemVars, bitStringVars, helperVars, debugAllocVars, vars, timerVars,
                      timeVars, statsVars, traceVars>>)
    /\ NextHash
UseHelpers ==
    /\ Uses("helpers", <<itemVars, bitStringVars, hashVars, debugAllocVars, vars, timerVars,
                         timeVars, statsVars, traceVars>>)
    /\ NextHelpers
UseDebugAllocator ==
    /\ Uses("heap", <<itemVars, bitStringVars, hashVars, helperVars, vars, timerVars,
                      timeVars, statsVars, traceVars>>)
    /\ NextDebugAllocator
UseMonitor ==
    /\ Uses("watch", <<itemVars, bitStringVars, hashVars, helperVars, debugAllocVars,
                       timerVars, timeVars, statsVars, traceVars>>)
    /\ Next
UseTimer ==
    /\ Uses("timer", <<itemVars, bitStringVars, hashVars, helperVars, debugAllocVars, vars,
                       timeVars, statsVars, traceVars>>)
    /\ NextTimer
UseTimeMonitor ==
    /\ Uses("period", <<itemVars, bitStringVars, hashVars, helperVars, debugAllocVars, vars,
                        timerVars, statsVars, traceVars>>)
    /\ NextTimeMonitor
UseStats ==
    /\ Uses("stats", <<itemVars, bitStringVars, hashVars, helperVars, debugAllocVars, vars,
                       timerVars, timeVars, traceVars>>)
    /\ NextStats
UseTrace ==
    /\ Uses("trace", <<itemVars, bitStringVars, hashVars, helperVars, debugAllocVars, vars,
                       timerVars, timeVars, statsVars>>)
    /\ NextTrace

NextUtilities ==
    \/ UseItems \/ UseBitString \/ UseHash \/ UseHelpers \/ UseDebugAllocator
    \/ UseMonitor \/ UseTimer \/ UseTimeMonitor \/ UseStats \/ UseTrace

utilityVars == <<used, itemVars, bitStringVars, hashVars, helperVars, debugAllocVars, vars,
                 timerVars, timeVars, statsVars, traceVars>>

(* Fairness is that of TimeMonitor, for the programs that use it. *)
SpecUtilities ==
    /\ InitUtilities /\ [][NextUtilities]_utilityVars
    /\ WF_timeVars(used = "period" /\ Tick)
    /\ WF_timeVars(used = "period" /\ HasPassed)

(* Pools of cells laid out back to back. *)
PoolFirst == [p \in Pools |-> p * NumberOfItems]

(* The clock is set back by two ticks or forward by one. *)
Settings == {-2, 1}

(* Both counters have the same hash value. *)
SameHash == [n \in StatNames |-> 0]

(* Both pointers share a chain until the table has eight slots. *)
HomeSlots == [p \in Ptrs |-> IF p = p1 THEN 1 ELSE 5]

(* Around the steps from one unit to the next, and from one decimal to the *)
(* next, below a gigabyte, whose tenths TLC cannot count.                  *)
Quantities ==
    {q \in {k * 1024 ^ u + d * 100 * (1024 ^ u \div 1024) + e :
               k \in {0, 1, 17, 999, 1000, 1023}, u \in 0 .. 2, d \in {0, 5, 9}, e \in {0, 49, 50}} :
        q \div 1024 ^ 2 <= 999}
=============================================================================
