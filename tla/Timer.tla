--------------------------------- MODULE Timer ---------------------------------
(***************************************************************************)
(* base::Timer (src/base/Timer.cpp), a stopwatch on the system clock,      *)
(* which may be set while it runs.  Time is counted in clock ticks.        *)
(***************************************************************************)
EXTENDS Integers

CONSTANTS
    MaxClock,     \* the clock shows 0 .. MaxClock
    MaxRan,       \* the time the stopwatch runs altogether
    Adjustments,  \* by how much the clock is set forward or back
    MilliTicks    \* ticks in a millisecond

ASSUME TimerAssumption ==
    /\ MaxClock \in Nat /\ MaxRan \in Nat
    /\ Adjustments \subseteq Int
    /\ MilliTicks \in Nat \ {0}

VARIABLES
    clock,        \* std::chrono::system_clock::now()
    startedAt,    \* the member timer: the clock when it was started
    nanoseconds,  \* what was measured before the last start
    paused,
    ran,          \* how long it has really been running
    shifted,      \* by how much the clock was set meanwhile
    elapsed,      \* what the last getElapsed() returned
    read          \* ran + shifted when it did

stopwatchVars == <<startedAt, nanoseconds, paused>>
readingVars == <<elapsed, read>>
timerVars == <<clock, stopwatchVars, ran, shifted, readingVars>>

(* Timer(bool running) *)
InitTimer ==
    /\ clock \in 0 .. MaxClock
    /\ startedAt = clock
    /\ nanoseconds = 0
    /\ paused \in BOOLEAN
    /\ ran = 0 /\ shifted = 0
    /\ elapsed = 0 /\ read = 0

(* pause(), and the destructor of AutoStartStop, which assert ~paused *)
Pause ==
    /\ ~paused
    /\ paused' = TRUE
    /\ nanoseconds' = nanoseconds + (clock - startedAt)
    /\ UNCHANGED <<clock, startedAt, ran, shifted, readingVars>>

(* Mutant: what was measured before is forgotten. *)
StartAnew ==
    /\ paused
    /\ paused' = FALSE
    /\ startedAt' = clock
    /\ nanoseconds' = 0
    /\ UNCHANGED <<clock, ran, shifted, readingVars>>

(* start(), and the constructor of AutoStartStop, which assert paused *)
Start ==
    /\ paused
    /\ paused' = FALSE
    /\ startedAt' = clock
    /\ UNCHANGED <<clock, nanoseconds, ran, shifted, readingVars>>

ClockTick ==
    /\ clock < MaxClock
    /\ ~paused => ran < MaxRan
    /\ clock' = clock + 1
    /\ ran' = IF paused THEN ran ELSE ran + 1
    /\ UNCHANGED <<stopwatchVars, shifted, readingVars>>

SetClock ==
    /\ \E by \in Adjustments :
        /\ clock + by \in 0 .. MaxClock
        /\ ~paused => shifted + by \in -MaxRan .. MaxRan
        /\ clock' = clock + by
        /\ shifted' = IF paused THEN shifted ELSE shifted + by
    /\ UNCHANGED <<stopwatchVars, ran, readingVars>>

(* What getElapsed() converts: the end of the current run is now. *)
Measured == nanoseconds + (IF paused THEN 0 ELSE clock - startedAt)

(* Conversion to milliseconds, which rounds towards zero. *)
Millis(t) == IF t < 0 THEN -((-t) \div MilliTicks) ELSE t \div MilliTicks

(* getElapsed(), which operator<< calls too, changes nothing. *)
GetElapsed ==
    /\ elapsed' = Millis(Measured)
    /\ read' = ran + shifted
    /\ UNCHANGED <<clock, stopwatchVars, ran, shifted>>

NextTimer == Pause \/ Start \/ ClockTick \/ SetClock \/ GetElapsed

SpecTimer == InitTimer /\ [][NextTimer]_timerVars

-----------------------------------------------------------------------------
(* Properties *)

(* However often it is paused, started and read, getElapsed() returns the  *)
(* time it has been running since it was made, as the tests of the timer   *)
(* expect, wrong by what the clock was set meanwhile and by no setting     *)
(* while it was paused.                                                    *)
ElapsedIsRunningTime == elapsed = Millis(read)

(* "Returns the CPU time consumed since the last call of this method or    *)
(* since initialization of the object if the method has not been called    *)
(* before."                                                                *)
ElapsedSinceLastCall == [][GetElapsed => elapsed' = Millis(read' - read)]_timerVars
=============================================================================
