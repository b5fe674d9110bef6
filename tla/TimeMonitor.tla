------------------------------ MODULE TimeMonitor ------------------------------
(***************************************************************************)
(* base::time_monitor (include/base/time.hpp): it counts events to find    *)
(* out that a period has passed, and looks at the clock only when it has   *)
(* counted as many as the rate seen so far makes a period.  Time is        *)
(* counted in clock ticks, and from the end of the last period; no rate is *)
(* measured in less than a tick.                                           *)
(***************************************************************************)
EXTENDS Integers

CONSTANTS
    Period,    \* the period, in ticks
    Paces,     \* ticks between two events: 0 stands for any, varying number
    MaxDelay,  \* where the clock stops counting
    MaxBurst,  \* events within one tick, until the clock has stopped
    MaxEvents  \* events within one period

ASSUME TimeMonitorAssumption ==
    /\ Period \in Nat \ {0}
    /\ Paces \subseteq 0 .. MaxDelay - Period
    /\ MaxDelay \in Nat
    /\ MaxBurst \in Nat \ {0}
    /\ MaxEvents \in Nat /\ MaxEvents > MaxDelay

VARIABLES
    now,         \* the clock, since last_period
    delay,       \* what get_delay() returned last
    events,      \* counted in this period
    threshold,   \* events that make it look at the clock
    delay_rate,  \* looks at the clock in this period
    passed,      \* what has_passed() returned last
    pace,        \* how the program produces its events
    idle,        \* ticks since the last event
    burst        \* events since the last tick

timeVars == <<now, delay, events, threshold, delay_rate, passed, pace, idle, burst>>
programVars == <<pace, idle, burst>>

InitTimeMonitor ==
    /\ now = 0 /\ delay = 0
    /\ events = 0 /\ threshold = 1 /\ delay_rate = 0
    /\ passed = FALSE
    /\ pace \in Paces
    /\ idle = 0 /\ burst = 0

AtLeastOne(n) == IF n = 0 THEN 1 ELSE n

(* Events in a period, given that n took d ticks. *)
EventsPerPeriod(n, d) == AtLeastOne((Period * n) \div d)

(* The program has an event to account for.  MaxEvents is met by no        *)
(* program of steady pace, and if one of varying pace meets it, the clock  *)
(* goes on until MaxDelay unnoticed: PeriodIsNoticed holds if none does.   *)
EventDue ==
    /\ events < MaxEvents
    /\ IF pace = 0 THEN burst < MaxBurst \/ now = MaxDelay ELSE idle = pace

(* Mutant: the comparison only holds for the event that meets the threshold. *)
LooksAtThreshold == events' = threshold
LooksAtClock == events' >= threshold

(* has_passed() *)
HasPassed ==
    /\ ~passed /\ EventDue
    /\ events' = events + 1
    /\ IF LooksAtClock
       THEN /\ delay' = now
            /\ delay_rate' = delay_rate + 1
            /\ passed' = (now >= Period)
            /\ threshold' = CASE now >= Period -> threshold
                              [] now \in 1 .. Period - 1 -> EventsPerPeriod(events', now)
                              [] now = 0 -> 2 * threshold
       ELSE UNCHANGED <<delay, delay_rate, passed, threshold>>
    /\ idle' = 0
    /\ burst' = IF pace = 0 /\ now < MaxDelay THEN burst + 1 ELSE burst
    /\ UNCHANGED <<now, pace>>

(* Mutant: the new period goes on counting the events of the last one.     *)
NextPeriodKeepingEvents ==
    /\ passed
    /\ threshold' = EventsPerPeriod(events, delay)
    /\ now' = now - delay
    /\ delay_rate' = 0
    /\ passed' = FALSE
    /\ UNCHANGED <<delay, events, programVars>>

(* next(), called after has_passed() returned true.  The new period starts *)
(* where the clock was looked at, which may be some ticks ago.             *)
NextPeriod ==
    /\ passed
    /\ threshold' = EventsPerPeriod(events, delay)
    /\ events' = 0
    /\ now' = now - delay
    /\ delay_rate' = 0
    /\ passed' = FALSE
    /\ UNCHANGED <<delay, programVars>>

(* reset(), by a program of steady pace right after an event *)
ResetMonitor ==
    /\ idle = 0
    /\ events' = 0
    /\ threshold' = 1
    /\ delay' = now
    /\ now' = 0
    /\ delay_rate' = 0
    /\ passed' = FALSE
    /\ UNCHANGED programVars

(* The clock goes on.  A program of steady pace is never late with an      *)
(* event, and starts the next period at once.                              *)
Tick ==
    /\ now < MaxDelay
    /\ pace > 0 => idle < pace /\ ~passed
    /\ now' = now + 1
    /\ idle' = IF pace = 0 THEN 0 ELSE idle + 1
    /\ burst' = 0
    /\ UNCHANGED <<delay, events, threshold, delay_rate, passed, pace>>

NextTimeMonitor == HasPassed \/ NextPeriod \/ ResetMonitor \/ Tick

(* Time goes on, and so do the events the program accounts for. *)
FairTimeMonitor == WF_timeVars(Tick) /\ WF_timeVars(HasPassed)

SpecTimeMonitor == InitTimeMonitor /\ [][NextTimeMonitor]_timeVars /\ FairTimeMonitor

(* Liveness: a period that has passed is noticed, whatever bursts and      *)
(* pauses of events set the threshold, unless a reset makes it void.       *)
PeriodIsNoticed == (now >= Period) ~> (passed \/ now < Period)

(* What test/base/test_time.cpp expects and the comment of the class       *)
(* promises of a program with steady events: a period is noticed by the    *)
(* first event after its end, in at most three looks at the clock.         *)
SteadyRateIsPrecise ==
    pace > 0 =>
        /\ delay_rate <= 3
        /\ now < Period + pace
        /\ passed => delay \in Period .. Period + pace - 1
=============================================================================
