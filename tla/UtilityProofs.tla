---------------------------- MODULE UtilityProofs ----------------------------
(***************************************************************************)
(* Proofs about the stopwatch and the trace, for a clock that may be set   *)
(* by any amount and for any number of actors and entries; about the       *)
(* monitor of a period, for any pace and any period; about what the hash   *)
(* functions mix, for data of any length; about the counters of Stats, for *)
(* any names and any order of calls; about the bit strings, for any number *)
(* of words of any width; and about the functions without state, for paths *)
(* and lists of any length.                                                *)
(***************************************************************************)
EXTENDS Timer, Tracing, TimeMonitor, HashCompute, Stats,
        BitString, Helpers, CountingLemmas, SequenceTheorems, TLAPS

-----------------------------------------------------------------------------
(* The stopwatch *)

(* What has been measured is exact in ticks, before it is rounded. *)
TimerInv ==
    /\ clock \in Int /\ startedAt \in Int /\ nanoseconds \in Int
    /\ ran \in Int /\ shifted \in Int
    /\ paused \in BOOLEAN
    /\ Measured = ran + shifted

LEMMA TimerInit == InitTimer => TimerInv
BY TimerAssumption DEF InitTimer, TimerInv, Measured

LEMMA TimerNext ==
    ASSUME TimerInv, [NextTimer]_timerVars
    PROVE  TimerInv'
<1>1. CASE Pause
  BY <1>1 DEF TimerInv, Measured, Pause
<1>2. CASE Start
  <2>1. /\ clock \in Int /\ nanoseconds \in Int
        /\ startedAt' = clock /\ UNCHANGED <<clock, nanoseconds, ran, shifted>>
        /\ Measured = ran + shifted
    BY <1>2 DEF TimerInv, Start
  <2>2. Measured = nanoseconds + 0
    BY <1>2, Zenon DEF Start, Measured
  <2>3. Measured' = nanoseconds' + (clock' - startedAt') /\ paused' = FALSE
    BY <1>2, Zenon DEF Start, Measured
  <2>4. Measured' = ran' + shifted'
    BY <2>1, <2>2, <2>3
  <2>5. QED  BY <2>1, <2>3, <2>4 DEF TimerInv
<1>3. CASE ClockTick
  <2>1. CASE paused
    BY <1>3, <2>1 DEF TimerInv, Measured, ClockTick, stopwatchVars
  <2>2. CASE ~paused
    BY <1>3, <2>2 DEF TimerInv, Measured, ClockTick, stopwatchVars
  <2>3. QED  BY <2>1, <2>2
<1>4. CASE SetClock
  <2>1. PICK by \in Adjustments :
           /\ clock' = clock + by
           /\ shifted' = IF paused THEN shifted ELSE shifted + by
    BY <1>4 DEF SetClock
  <2>2. by \in Int /\ UNCHANGED <<startedAt, nanoseconds, paused, ran>>
    BY <1>4, TimerAssumption DEF SetClock, stopwatchVars
  <2>3. CASE paused
    BY <2>1, <2>2, <2>3 DEF TimerInv, Measured
  <2>4. CASE ~paused
    BY <2>1, <2>2, <2>4 DEF TimerInv, Measured
  <2>5. QED  BY <2>3, <2>4
<1>5. CASE GetElapsed \/ UNCHANGED timerVars
  BY <1>5 DEF TimerInv, Measured, GetElapsed, timerVars, stopwatchVars
<1>6. QED  BY <1>1, <1>2, <1>3, <1>4, <1>5 DEF NextTimer

(* getElapsed() returns the time the stopwatch has been running, wrong     *)
(* only by settings of the clock while it ran, for every sequence of       *)
(* pauses, starts and earlier calls of getElapsed().                       *)
THEOREM ElapsedIsRunningTimeHolds == SpecTimer => []ElapsedIsRunningTime
<1>1. InitTimer => TimerInv /\ ElapsedIsRunningTime
  <2>1. Millis(0) = 0
    BY TimerAssumption DEF Millis
  <2>2. QED  BY <2>1, TimerInit DEF InitTimer, ElapsedIsRunningTime
<1>2. ASSUME TimerInv, ElapsedIsRunningTime, [NextTimer]_timerVars
      PROVE  TimerInv' /\ ElapsedIsRunningTime'
  <2>1. CASE GetElapsed
    <3>1. elapsed' = Millis(Measured) /\ read' = Measured
      BY <1>2, <2>1 DEF GetElapsed, TimerInv
    <3>2. elapsed' = Millis(read')
      BY <3>1
    <3>3. QED  BY <1>2, <3>2, TimerNext DEF ElapsedIsRunningTime, Millis
  <2>2. CASE ~GetElapsed
    <3>1. UNCHANGED <<elapsed, read>>
      BY <1>2, <2>2 DEF NextTimer, Pause, Start, ClockTick, SetClock, timerVars, readingVars
    <3>2. QED  BY <1>2, <3>1, TimerNext DEF ElapsedIsRunningTime, Millis
  <2>3. QED  BY <2>1, <2>2
<1>3. QED  BY <1>1, <1>2, PTL DEF SpecTimer

-----------------------------------------------------------------------------
(* The trace *)

(* The vector moves with its second actor, and the entry of the            *)
(* constructor, which every recorded trace keeps, refers to the first      *)
(* memory; no entry refers to memory that is yet to come.                  *)
TraceInv ==
    /\ record \in BOOLEAN
    /\ visible \in Seq(BOOLEAN)
    /\ capacity \in Nat /\ buffer \in Nat \ {0}
    /\ 1 <= Len(visible)
    /\ Len(visible) = 1 => capacity = 1 /\ buffer = 1
    /\ Len(visible) > 1 => buffer > 1
    /\ entries \in Seq([actor : Nat, in : Nat])
    /\ \A i \in DOMAIN entries : entries[i].in \in 1 .. buffer
    /\ record => entries # <<>> /\ entries[1].in = 1
    /\ ~record => entries = <<>>

LEMMA TraceInit == InitTrace => TraceInv
<1>1. SUFFICES ASSUME InitTrace PROVE TraceInv
  OBVIOUS
<1>2. Entry(1, 1) \in [actor : Nat, in : Nat] /\ Entry(1, 1).in = 1
  BY DEF Entry
<1>3. record \in BOOLEAN /\ visible = <<FALSE>> /\ capacity = 1 /\ buffer = 1
  BY <1>1, TraceAssumption DEF InitTrace
<1>4. CASE record
  <2>1. entries = <<Entry(1, 1)>>
    BY <1>1, <1>4 DEF InitTrace
  <2>2. QED  BY <1>2, <1>3, <1>4, <2>1 DEF TraceInv
<1>5. CASE ~record
  <2>1. entries = <<>>
    BY <1>1, <1>5 DEF InitTrace
  <2>2. QED  BY <1>3, <1>5, <2>1 DEF TraceInv
<1>6. QED  BY <1>4, <1>5

LEMMA AddActorStep ==
    ASSUME TraceInv, AddActor
    PROVE  TraceInv'
<1>1. PICK v \in BOOLEAN : visible' = Append(visible, v)
  BY DEF AddActor
<1>2. /\ visible' \in Seq(BOOLEAN) /\ Len(visible') = Len(visible) + 1
      /\ Len(visible) \in Nat /\ 1 <= Len(visible)
  BY <1>1 DEF TraceInv
<1>3. UNCHANGED <<record, entries>>
  BY DEF AddActor
<1>4. /\ capacity \in Nat /\ buffer \in Nat \ {0}
      /\ Len(visible) = 1 => capacity = 1 /\ buffer = 1
      /\ Len(visible) > 1 => buffer > 1
  BY DEF TraceInv
<1>5. /\ capacity' \in Nat /\ buffer' \in Nat \ {0}
      /\ buffer <= buffer'
      /\ Len(visible') > 1 => buffer' > 1
  <2>1. CASE Len(visible) = capacity
    <3>1. capacity' = 2 * capacity /\ buffer' = buffer + 1
      BY <2>1 DEF AddActor
    <3>2. QED  BY <1>4, <1>2, <3>1
  <2>2. CASE Len(visible) # capacity
    <3>1. capacity' = capacity /\ buffer' = buffer
      BY <2>2 DEF AddActor
    <3>2. Len(visible) > 1
      BY <1>4, <1>2, <2>2
    <3>3. QED  BY <1>4, <3>1, <3>2
  <2>3. QED  BY <2>1, <2>2
<1>6. \A i \in DOMAIN entries' : entries'[i].in \in 1 .. buffer'
  BY <1>3, <1>4, <1>5 DEF TraceInv
<1>7. QED  BY <1>2, <1>3, <1>5, <1>6 DEF TraceInv

LEMMA LogMessageStep ==
    ASSUME TraceInv, LogMessage
    PROVE  TraceInv'
<1>1. UNCHANGED <<record, visible, capacity, buffer>>
  BY DEF LogMessage
<1>2. CASE record
  <2>1. PICK a \in DOMAIN visible : entries' = Append(entries, Entry(a, buffer))
    BY <1>2 DEF LogMessage
  <2>2. Entry(a, buffer) \in [actor : Nat, in : Nat] /\ Entry(a, buffer).in = buffer
    BY <2>1 DEF TraceInv, Entry
  <2>3. /\ entries' \in Seq([actor : Nat, in : Nat])
        /\ entries' # <<>>
        /\ \A i \in DOMAIN entries' :
              entries'[i] = Entry(a, buffer) \/ (i \in DOMAIN entries /\ entries'[i] = entries[i])
        /\ entries'[1] = entries[1]
    <3>1. entries \in Seq([actor : Nat, in : Nat]) /\ entries # <<>>
      BY <1>2 DEF TraceInv
    <3>2. QED  BY <2>1, <2>2, <3>1
  <2>4. \A i \in DOMAIN entries' : entries'[i].in \in 1 .. buffer'
    <3>1. buffer' = buffer /\ buffer \in Nat \ {0}
      BY <1>1 DEF TraceInv
    <3>2. buffer \in 1 .. buffer
      BY <3>1
    <3>3. \A i \in DOMAIN entries : entries[i].in \in 1 .. buffer
      BY DEF TraceInv
    <3>4. QED  BY <2>2, <2>3, <3>1, <3>2, <3>3
  <2>5. QED  BY <1>1, <1>2, <2>3, <2>4 DEF TraceInv
<1>3. CASE ~record
  <2>1. entries' = <<>>
    BY <1>3 DEF LogMessage
  <2>2. QED  BY <1>1, <1>3, <2>1 DEF TraceInv
<1>4. QED  BY <1>2, <1>3

LEMMA TraceNext ==
    ASSUME TraceInv, [NextTrace]_traceVars
    PROVE  TraceInv'
<1>1. CASE ShowActor
  <2>1. visible' \in Seq(BOOLEAN) /\ Len(visible') = Len(visible)
    BY <1>1 DEF TraceInv, ShowActor
  <2>2. QED  BY <1>1, <2>1 DEF TraceInv, ShowActor
<1>2. CASE Dump
  BY <1>2 DEF TraceInv, Dump
<1>3. CASE UNCHANGED traceVars
  BY <1>3 DEF TraceInv, traceVars
<1>4. QED  BY <1>1, <1>2, <1>3, AddActorStep, LogMessageStep DEF NextTrace

(* A dump reads memory that was freed exactly when the trace is recorded   *)
(* and an actor was added to it, whatever the vector's capacity is.        *)
THEOREM MovedWhenAddedToHolds == SpecTrace => []MovedWhenAddedTo
<1>1. InitTrace => TraceInv
  BY TraceInit
<1>2. TraceInv /\ [NextTrace]_traceVars => TraceInv'
  BY TraceNext
<1>3. TraceInv => MovedWhenAddedTo
  <2>1. ASSUME TraceInv, NEW i \in DOMAIN entries, Moved(entries[i])
        PROVE  record /\ Len(visible) > 1
    <3>1. record
      BY <2>1 DEF TraceInv
    <3>2. entries[i].in \in 1 .. buffer /\ entries[i].in # buffer
      BY <2>1 DEF TraceInv, Moved
    <3>3. buffer # 1
      BY <3>2
    <3>4. Len(visible) \in Nat
      BY <2>1 DEF TraceInv
    <3>5. Len(visible) # 1 /\ 1 <= Len(visible)
      BY <2>1, <3>3 DEF TraceInv
    <3>6. QED  BY <3>1, <3>4, <3>5
  <2>2. ASSUME TraceInv, record, Len(visible) > 1
        PROVE  \E i \in DOMAIN entries : Moved(entries[i])
    <3>1. 1 \in DOMAIN entries /\ entries[1].in = 1 /\ buffer > 1
      BY <2>2 DEF TraceInv
    <3>2. QED  BY <2>2, <3>1 DEF TraceInv, Moved
  <2>3. QED  BY <2>1, <2>2 DEF MovedWhenAddedTo
<1>4. QED  BY <1>1, <1>2, <1>3, PTL DEF SpecTrace

-----------------------------------------------------------------------------
(* The monitor of a period *)

(* Events in a period at a steady pace, the one that meets its end left out *)
PerPeriod == Period \div pace

(* A program of steady pace: events are pace ticks apart, so the rate seen *)
(* after any of them is the true one.  The clock is looked at by the first *)
(* event, by event PerPeriod and by the one after it, at most.             *)
PaceInv ==
    pace > 0 =>
        /\ idle \in 0 .. pace
        /\ now = pace * events + idle
        /\ threshold \in {1, AtLeastOne(PerPeriod)}
        /\ passed => /\ idle = 0 /\ delay = now /\ events > 0
                     /\ now >= Period /\ now < Period + pace
                     /\ delay_rate <= 3
        /\ ~passed => /\ pace * events < Period
                      /\ delay_rate \in 0 .. 2
                      /\ delay_rate > 0 => threshold = AtLeastOne(PerPeriod)
                      /\ delay_rate = 2 => events >= PerPeriod

TimeMonitorInv ==
    /\ pace \in Nat /\ now \in Nat /\ events \in Nat /\ idle \in Nat
    /\ delay \in Nat /\ (passed => delay <= now)
    /\ passed \in BOOLEAN
    /\ delay_rate \in Nat
    /\ PaceInv

LEMMA DivBounds ==
    ASSUME NEW a \in Nat, NEW b \in Nat \ {0}
    PROVE  /\ a \div b \in Nat
           /\ b * (a \div b) <= a
           /\ a < b * ((a \div b) + 1)
<1>1. a % b \in 0 .. b - 1 /\ a \div b \in Nat /\ a = b * (a \div b) + (a % b)
  BY DivMod
<1> DEFINE q == a \div b
<1>2. q \in Nat /\ b * q \in Nat /\ b * (q + 1) = b * q + b
  BY <1>1
<1>3. QED  BY <1>1, <1>2

(* A quotient lies between its bounds only. *)
LEMMA DivUnique ==
    ASSUME NEW a \in Nat, NEW b \in Nat \ {0}, NEW q \in Nat, b * q <= a, a < b * (q + 1)
    PROVE  a \div b = q
<1> DEFINE d == a \div b
<1>1. d \in Nat /\ b * d <= a /\ a < b * (d + 1)
  BY DivBounds
<1> HIDE DEF d
<1>2. CASE d < q
  <2>1. d + 1 <= q
    BY <1>1, <1>2
  <2>2. b * (d + 1) <= b * q
    BY <1>1, <2>1
  <2>3. b * (d + 1) \in Nat /\ b * q \in Nat
    BY <1>1
  <2>4. QED  BY <1>1, <2>2, <2>3
<1>3. CASE q < d
  <2>1. q + 1 <= d
    BY <1>1, <1>3
  <2>2. b * (q + 1) <= b * d
    BY <1>1, <2>1
  <2>3. b * (q + 1) \in Nat /\ b * d \in Nat
    BY <1>1
  <2>4. QED  BY <1>1, <2>2, <2>3
<1>4. d = q
  BY <1>1, <1>2, <1>3
<1>5. QED  BY <1>4 DEF d

(* The rate of n events in n * p ticks is that of one event in p ticks. *)
LEMMA SameRate ==
    ASSUME NEW n \in Nat \ {0}, NEW p \in Nat \ {0}
    PROVE  EventsPerPeriod(n, p * n) = AtLeastOne(Period \div p)
<1> DEFINE q == Period \div p
<1>1. Period \in Nat
  BY TimeMonitorAssumption
<1>2. q \in Nat /\ p * q <= Period /\ Period < p * (q + 1)
  BY <1>1, DivBounds
<1> HIDE DEF q
<1>3. (p * n) * q <= Period * n /\ Period * n < (p * n) * (q + 1)
  <2>1. \A x, y \in Nat : x <= y => x * n <= y * n
    OBVIOUS
  <2>2. \A x, y \in Nat : x < y => x * n < y * n
    OBVIOUS
  <2>3. p * q \in Nat /\ p * (q + 1) \in Nat
    BY <1>2
  <2>4. (p * q) * n <= Period * n /\ Period * n < (p * (q + 1)) * n
    BY <1>1, <1>2, <2>1, <2>2, <2>3
  <2>5. (p * q) * n = (p * n) * q /\ (p * (q + 1)) * n = (p * n) * (q + 1)
    BY <1>2
  <2>6. QED  BY <2>4, <2>5
<1>4. Period * n \in Nat /\ p * n \in Nat \ {0}
  BY <1>1
<1>5. (Period * n) \div (p * n) = q
  BY <1>2, <1>3, <1>4, DivUnique
<1>6. QED  BY <1>5 DEF EventsPerPeriod, q

(* A period of which nothing is known but where it starts *)
LEMMA FreshPeriod ==
    ASSUME pace \in Nat, Period \in Nat \ {0},
           now = 0, events = 0, idle = 0, delay_rate = 0, passed = FALSE,
           threshold \in {1, AtLeastOne(PerPeriod)}
    PROVE  PaceInv
<1>1. pace * events = 0
  OBVIOUS
<1>2. now = pace * events + idle /\ idle \in 0 .. pace
  BY <1>1
<1>3. pace * events < Period /\ delay_rate \in 0 .. 2
      /\ ~(delay_rate > 0) /\ delay_rate # 2
  BY <1>1
<1>4. QED  BY <1>2, <1>3, Zenon DEF PaceInv

LEMMA PaceInit == InitTimeMonitor => TimeMonitorInv
<1> SUFFICES ASSUME InitTimeMonitor PROVE TimeMonitorInv
  OBVIOUS
<1>1. pace \in Nat /\ Period \in Nat \ {0}
  BY TimeMonitorAssumption DEF InitTimeMonitor
<1>2. now = 0 /\ delay = 0 /\ events = 0 /\ threshold = 1 /\ delay_rate = 0
      /\ passed = FALSE /\ idle = 0
  BY DEF InitTimeMonitor
<1>3. PaceInv
  BY <1>1, <1>2, FreshPeriod
<1>4. /\ now \in Nat /\ events \in Nat /\ idle \in Nat
      /\ delay \in Nat /\ delay <= now /\ delay_rate \in Nat
  BY <1>2
<1>5. passed \in BOOLEAN
  BY <1>2, Zenon
<1>6. QED  BY <1>1, <1>3, <1>4, <1>5, Zenon DEF TimeMonitorInv

(* What a program of steady pace has seen when an event is due *)
LEMMA PaceEvent ==
    ASSUME TimeMonitorInv, pace > 0, HasPassed
    PROVE  PaceInv'
<1> DEFINE n == events + 1
           T == PerPeriod
<1>1. /\ pace \in Nat \ {0} /\ events \in Nat /\ Period \in Nat \ {0}
      /\ now = pace * events + pace /\ ~passed
      /\ threshold \in {1, AtLeastOne(T)}
      /\ pace * events < Period /\ delay_rate \in 0 .. 2
      /\ delay_rate > 0 => threshold = AtLeastOne(T)
      /\ delay_rate = 2 => events >= T
  BY TimeMonitorAssumption DEF TimeMonitorInv, PaceInv, HasPassed, EventDue
<1>2. T \in Nat /\ pace * T <= Period /\ Period < pace * (T + 1)
  BY <1>1, DivBounds DEF PerPeriod
<1>3. n \in Nat \ {0} /\ now = pace * n /\ now \in Nat \ {0} /\ now < Period + pace
  <2>1. pace * events \in Nat /\ pace * (events + 1) = pace * events + pace
    BY <1>1
  <2>2. QED  BY <1>1, <2>1
<1>4. T' = T
  BY DEF HasPassed, PerPeriod
<1>5. events' = n /\ idle' = 0 /\ now' = now /\ pace' = pace
  BY DEF HasPassed
<1> HIDE DEF T
(* An event that meets the end of the period has met the threshold. *)
<1>6. now >= Period => n >= T
  <2>1. SUFFICES ASSUME n < T, now >= Period PROVE FALSE
    BY <1>2, <1>3
  <2>2. n + 1 <= T
    BY <1>2, <1>3, <2>1
  <2>3. pace * (n + 1) <= pace * T
    BY <1>1, <1>2, <1>3, <2>2
  <2>4. pace * (n + 1) = pace * n + pace /\ pace * n \in Nat /\ pace * T \in Nat
    BY <1>1, <1>2, <1>3
  <2>5. QED  BY <1>1, <1>2, <1>3, <2>1, <2>3, <2>4
<1>7. now < Period => n <= T
  <2>1. SUFFICES ASSUME n >= T + 1, now < Period PROVE FALSE
    BY <1>2, <1>3
  <2>2. pace * (T + 1) <= pace * n
    BY <1>1, <1>2, <1>3, <2>1
  <2>3. pace * (T + 1) \in Nat /\ pace * n \in Nat
    BY <1>1, <1>2, <1>3
  <2>4. QED  BY <1>1, <1>2, <1>3, <2>1, <2>2, <2>3
<1>8. AtLeastOne(T) = IF T = 0 THEN 1 ELSE T
  BY DEF AtLeastOne
<1>9. ASSUME now < Period, passed' = FALSE, delay_rate' \in 0 .. 2,
             threshold' \in {1, AtLeastOne(T)},
             delay_rate' > 0 => threshold' = AtLeastOne(T),
             delay_rate' = 2 => n >= T
      PROVE  PaceInv'
  <2>1. now = pace * n + 0 /\ 0 \in 0 .. pace /\ pace * n < Period
    BY <1>1, <1>3, <1>9
  <2>2. now' = pace' * events' + idle' /\ idle' \in 0 .. pace' /\ pace' * events' < Period
    BY <1>5, <2>1, Zenon
  <2>3. QED  BY <1>4, <1>5, <1>9, <2>1, <2>2, Zenon DEF PaceInv, T
<1>10. ASSUME now >= Period, passed' = TRUE, delay' = now, delay_rate' <= 3,
              threshold' \in {1, AtLeastOne(T)}
       PROVE  PaceInv'
  <2>1. now = pace * n + 0 /\ 0 \in 0 .. pace /\ n > 0
    BY <1>1, <1>3
  <2>2. /\ now' = pace' * events' + idle' /\ idle' \in 0 .. pace' /\ events' > 0
        /\ now' >= Period /\ now' < Period + pace'
    BY <1>3, <1>5, <1>10, <2>1, Zenon
  <2>3. QED  BY <1>4, <1>5, <1>10, <2>1, <2>2, Zenon DEF PaceInv, T
<1>11. CASE ~LooksAtClock
  <2>1. n < threshold /\ UNCHANGED <<delay, delay_rate, passed, threshold>>
    BY <1>1, <1>2, <1>3, <1>5, <1>8, <1>11 DEF HasPassed, LooksAtClock
  <2>2. now < Period
    BY <1>1, <1>2, <1>3, <1>6, <1>8, <2>1
  <2>3. delay_rate' \in 0 .. 2 /\ threshold' \in {1, AtLeastOne(T)}
        /\ (delay_rate' > 0 => threshold' = AtLeastOne(T))
        /\ (delay_rate' = 2 => n >= T)
    BY <1>1, <1>2, <1>3, <2>1
  <2>4. passed' = FALSE
    BY <1>1, <2>1 DEF TimeMonitorInv
  <2>5. QED
    BY <1>9, <2>2, <2>3, <2>4
<1>12. CASE LooksAtClock
  <2>1. /\ n >= threshold /\ delay' = now /\ delay_rate' = delay_rate + 1
        /\ threshold' = CASE now >= Period -> threshold
                          [] now \in 1 .. Period - 1 -> EventsPerPeriod(n, now)
                          [] now = 0 -> 2 * threshold
    BY <1>5, <1>12 DEF HasPassed, LooksAtClock
  <2>2. passed' = (now >= Period)
    BY <1>12, Zenon DEF HasPassed
  <2>3. CASE now >= Period
    <3>1. threshold' = threshold /\ passed' = TRUE
      <4>1. threshold' = threshold
        BY <1>1, <1>3, <2>1, <2>3
      <4>2. (now >= Period) = TRUE
        BY <1>1, <1>3, <2>3
      <4>3. QED  BY <2>2, <4>1, <4>2, Zenon
    <3>2. delay_rate' <= 3 /\ threshold' \in {1, AtLeastOne(T)}
      BY <1>1, <2>1, <3>1
    <3>3. QED
      BY <1>10, <2>1, <2>3, <3>1, <3>2
  <2>4. CASE now < Period
    <3>1. threshold' = EventsPerPeriod(n, now) /\ passed' = FALSE
      <4>1. now \in 1 .. Period - 1 /\ (now >= Period) = FALSE
        BY <1>1, <1>3, <2>4
      <4>2. threshold' = EventsPerPeriod(n, now)
        BY <1>1, <1>3, <2>1, <2>4
      <4>3. QED  BY <2>2, <4>1, <4>2, Zenon
    <3>2. threshold' = AtLeastOne(T)
      BY <1>1, <1>3, <3>1, SameRate DEF T, PerPeriod
    <3>3. n <= T
      BY <1>7, <2>4
    <3>4. delay_rate # 2
      BY <1>1, <1>2, <1>3, <3>3
    <3>5. delay_rate = 1 => n >= T
      BY <1>1, <1>2, <1>3, <1>8, <2>1
    <3>6. delay_rate' \in 0 .. 2 /\ (delay_rate' = 2 => n >= T)
      BY <1>1, <2>1, <3>4, <3>5
    <3>7. QED
      BY <1>9, <2>4, <3>1, <3>2, <3>6
  <2>5. QED  BY <1>1, <1>3, <2>3, <2>4
<1>13. QED  BY <1>11, <1>12

(* The same of the period that a step starts *)
LEMMA FreshNext ==
    ASSUME pace' \in Nat, Period \in Nat \ {0},
           now' = 0, events' = 0, idle' = 0, delay_rate' = 0, passed' = FALSE,
           threshold' = 1 \/ threshold' = AtLeastOne(PerPeriod')
    PROVE  PaceInv'
<1>1. \A p \in Nat : 0 = p * 0 + 0 /\ 0 \in 0 .. p /\ p * 0 < Period
  OBVIOUS
<1>2. now' = pace' * events' + idle' /\ idle' \in 0 .. pace' /\ pace' * events' < Period
  BY <1>1, Zenon
<1>3. delay_rate' \in 0 .. 2 /\ ~(delay_rate' > 0) /\ delay_rate' # 2
  OBVIOUS
<1>4. QED  BY <1>2, <1>3, Zenon DEF PaceInv

LEMMA TimeMonitorNext ==
    ASSUME TimeMonitorInv, [NextTimeMonitor]_timeVars
    PROVE  TimeMonitorInv'
<1>1. /\ pace \in Nat /\ now \in Nat /\ events \in Nat /\ idle \in Nat
      /\ delay \in Nat /\ delay_rate \in Nat
      /\ Period \in Nat \ {0}
  BY TimeMonitorAssumption, Zenon DEF TimeMonitorInv
<1>2. PaceInv /\ passed \in BOOLEAN /\ (passed => delay <= now)
  BY Zenon DEF TimeMonitorInv
<1>3. CASE HasPassed
  <2>1. passed' \in BOOLEAN
    <3>1. CASE LooksAtClock
      <4>1. passed' = (now >= Period)
        BY <1>3, <3>1, Zenon DEF HasPassed
      <4>2. (now >= Period) \in BOOLEAN
        BY <1>1
      <4>3. QED  BY <4>1, <4>2, Zenon
    <3>2. CASE ~LooksAtClock
      BY <1>3, <1>2, <3>2, Zenon DEF HasPassed
    <3>3. QED  BY <3>1, <3>2
  <2>2. /\ pace' \in Nat /\ now' \in Nat /\ events' \in Nat /\ idle' \in Nat
        /\ delay' \in Nat /\ delay_rate' \in Nat
    <3>1. CASE LooksAtClock
      BY <1>1, <1>3, <3>1 DEF HasPassed
    <3>2. CASE ~LooksAtClock
      BY <1>1, <1>3, <3>2 DEF HasPassed
    <3>3. QED  BY <3>1, <3>2
  <2>3. pace' = pace
    BY <1>3 DEF HasPassed
  <2>4. PaceInv'
    <3>1. CASE pace > 0
      BY <1>3, <3>1, PaceEvent, Zenon
    <3>2. CASE ~(pace > 0)
      BY <2>3, <3>2, Zenon DEF PaceInv
    <3>3. QED  BY <3>1, <3>2
  <2>5. passed' => delay' <= now'
    <3>1. CASE LooksAtClock
      <4>1. delay' = now /\ now' = now
        BY <1>3, <3>1, Zenon DEF HasPassed
      <4>2. delay' <= now'
        BY <1>1, <4>1
      <4>3. QED  BY <4>2, Zenon
    <3>2. CASE ~LooksAtClock
      <4>1. delay' = delay /\ now' = now /\ passed' = passed
        BY <1>3, <3>2, Zenon DEF HasPassed
      <4>2. QED  BY <1>2, <4>1, Zenon
    <3>3. QED  BY <3>1, <3>2
  <2>6. QED  BY <2>2, <2>4, <2>1, <2>5, Zenon DEF TimeMonitorInv
<1>4. CASE NextPeriod
  <2>1. /\ passed /\ threshold' = EventsPerPeriod(events, delay) /\ events' = 0
        /\ now' = now - delay /\ delay_rate' = 0 /\ passed' = FALSE
        /\ delay' = delay /\ pace' = pace /\ idle' = idle
    BY <1>4, Zenon DEF NextPeriod, programVars
  <2>2. now - delay \in Nat
    <3>1. delay <= now
      BY <1>2, <2>1, Zenon
    <3>2. QED  BY <1>1, <3>1
  <2>3. PaceInv'
    <3>1. SUFFICES ASSUME pace > 0 PROVE PaceInv'
      BY <2>1, Zenon DEF PaceInv
    <3>2. idle = 0 /\ delay = now /\ events > 0 /\ now = pace * events + idle
      BY <1>2, <2>1, <3>1, Zenon DEF PaceInv
    <3>3. idle = 0 /\ delay = now /\ events > 0 /\ now = pace * events
      BY <1>1, <3>2
    <3>4. threshold' = AtLeastOne(PerPeriod)
      <4>1. events \in Nat \ {0} /\ pace \in Nat \ {0}
        BY <1>1, <3>1, <3>3
      <4>2. EventsPerPeriod(events, pace * events) = AtLeastOne(Period \div pace)
        BY <4>1, SameRate
      <4>3. QED  BY <2>1, <3>3, <4>2, Zenon DEF PerPeriod
    <3>5. PerPeriod' = PerPeriod
      BY <2>1 DEF PerPeriod
    <3>6. now' = 0 /\ idle' = 0 /\ pace' \in Nat
      BY <1>1, <2>1, <3>3
    <3>7. QED  BY <1>1, <2>1, <3>4, <3>5, <3>6, FreshNext
  <2>4. /\ pace' \in Nat /\ now' \in Nat /\ events' \in Nat /\ idle' \in Nat
        /\ delay' \in Nat /\ delay_rate' \in Nat
    <3>1. /\ pace' = pace /\ idle' = idle /\ delay' = delay /\ now' = now - delay
          /\ events' = 0 /\ delay_rate' = 0
      BY <2>1, Zenon
    <3>2. QED  BY <1>1, <2>2, <3>1
  <2>5. QED  BY <2>1, <2>3, <2>4, Zenon DEF TimeMonitorInv
<1>5. CASE ResetMonitor
  <2>1. /\ idle = 0 /\ events' = 0 /\ threshold' = 1 /\ delay' = now /\ now' = 0
        /\ delay_rate' = 0 /\ passed' = FALSE /\ UNCHANGED <<pace, idle, burst>>
    BY <1>5 DEF ResetMonitor, programVars
  <2>2. PaceInv'
    BY <1>1, <2>1, FreshNext
  <2>3. /\ pace' \in Nat /\ now' \in Nat /\ events' \in Nat /\ idle' \in Nat
        /\ delay' \in Nat /\ delay_rate' \in Nat
    <3>1. /\ pace' = pace /\ idle' = idle /\ delay' = now /\ now' = 0
          /\ events' = 0 /\ delay_rate' = 0
      BY <2>1, Zenon
    <3>2. QED  BY <1>1, <3>1
  <2>4. QED  BY <2>1, <2>2, <2>3, Zenon DEF TimeMonitorInv
<1>6. CASE Tick
  <2>1. /\ pace > 0 => idle < pace /\ ~passed
        /\ now' = now + 1 /\ idle' = (IF pace = 0 THEN 0 ELSE idle + 1)
        /\ UNCHANGED <<delay, events, threshold, delay_rate, passed, pace>>
    BY <1>6 DEF Tick
  <2>2. PerPeriod' = PerPeriod
    BY <2>1 DEF PerPeriod
  <2>3. pace * events \in Nat
    BY <1>1
  <2>4. PaceInv'
    <3>1. SUFFICES ASSUME pace > 0 PROVE PaceInv'
      BY <2>1 DEF PaceInv
    <3> DEFINE m == pace * events
    <3>2. idle < pace /\ ~passed
      BY <2>1, <3>1
    <3>3. now = m + idle /\ m < Period
      BY <1>2, <3>1, <3>2, Zenon DEF PaceInv
    <3>4. passed = FALSE
      BY <1>2, <3>2, Zenon
    <3>5. /\ idle < pace /\ passed = FALSE /\ idle' = idle + 1
          /\ now = m + idle /\ m < Period /\ m \in Nat
      <4>1. idle' = idle + 1
        BY <1>1, <2>1, <3>1
      <4>2. QED  BY <2>3, <3>2, <3>3, <3>4, <4>1, Zenon
    <3>6. pace' * events' = m
      BY <2>1, Zenon
    <3> HIDE DEF m
    <3>7. now + 1 = m + (idle + 1) /\ idle + 1 \in 0 .. pace
      BY <1>1, <3>1, <3>5
    <3>8. now' = pace' * events' + idle' /\ idle' \in 0 .. pace' /\ passed' = FALSE
          /\ pace' * events' < Period
      BY <2>1, <3>5, <3>6, <3>7, Zenon
    <3>9. /\ threshold \in {1, AtLeastOne(PerPeriod)} /\ delay_rate \in 0 .. 2
          /\ delay_rate > 0 => threshold = AtLeastOne(PerPeriod)
          /\ delay_rate = 2 => events >= PerPeriod
      BY <1>2, <3>1, <3>2, Zenon DEF PaceInv
    <3>10. QED  BY <2>1, <2>2, <3>8, <3>9, Zenon DEF PaceInv
  <2>5. /\ pace' \in Nat /\ now' \in Nat /\ events' \in Nat /\ idle' \in Nat
        /\ delay' \in Nat /\ delay_rate' \in Nat
    BY <1>1, <2>1
  <2>6. passed' => delay' <= now'
    <3>1. passed => delay <= now
      BY <1>2, Zenon
    <3>2. (delay <= now) => delay <= now + 1
      BY <1>1
    <3>3. QED  BY <2>1, <3>1, <3>2, Zenon
  <2>7. QED  BY <1>2, <2>1, <2>4, <2>5, <2>6, Zenon DEF TimeMonitorInv
<1>7. CASE UNCHANGED timeVars
  <2>1. UNCHANGED <<now, delay, events, threshold, delay_rate, passed, pace, idle>>
    BY <1>7, Zenon DEF timeVars
  <2>2. PerPeriod' = PerPeriod /\ PaceInv' = PaceInv
    BY <2>1, Zenon DEF PaceInv, PerPeriod
  <2>3. QED  BY <1>1, <1>2, <2>1, <2>2, Zenon DEF TimeMonitorInv
<1>8. QED  BY <1>3, <1>4, <1>5, <1>6, <1>7 DEF NextTimeMonitor

(* At any steady pace, and after any resets, the first event after the end *)
(* of a period finds it, in at most three looks at the clock.              *)
THEOREM SteadyRateIsPreciseHolds == SpecTimeMonitor => []SteadyRateIsPrecise
<1>1. InitTimeMonitor => TimeMonitorInv
  BY PaceInit
<1>2. TimeMonitorInv /\ [NextTimeMonitor]_timeVars => TimeMonitorInv'
  BY TimeMonitorNext
<1>3. TimeMonitorInv => SteadyRateIsPrecise
  <2>1. SUFFICES ASSUME TimeMonitorInv, pace > 0
                 PROVE  /\ delay_rate <= 3
                        /\ now < Period + pace
                        /\ passed => delay \in Period .. Period + pace - 1
    BY DEF SteadyRateIsPrecise
  <2>2. Period \in Nat /\ pace \in Nat /\ now \in Nat /\ events \in Nat
        /\ pace * events \in Nat
    <3>1. Period \in Nat /\ pace \in Nat /\ now \in Nat /\ events \in Nat
      BY <2>1, TimeMonitorAssumption, Zenon DEF TimeMonitorInv
    <3>2. QED  BY <3>1
  <2>3. CASE passed
    <3>1. /\ delay_rate <= 3 /\ delay = now
          /\ now >= Period /\ now < Period + pace
      BY <2>1, <2>3, Zenon DEF TimeMonitorInv, PaceInv
    <3>2. QED  BY <2>2, <3>1
  <2>4. CASE ~passed
    <3>1. /\ now = pace * events + idle /\ idle \in 0 .. pace
          /\ pace * events < Period /\ delay_rate \in 0 .. 2
      BY <2>1, <2>4, Zenon DEF TimeMonitorInv, PaceInv
    <3>2. QED  BY <2>2, <2>4, <3>1
  <2>5. QED  BY <2>3, <2>4
<1>4. QED  BY <1>1, <1>2, <1>3, PTL DEF SpecTimeMonitor

-----------------------------------------------------------------------------
(* The passes of the hash functions over their data *)

RegisterNames == {"a", "b", "c", "h"}

ReadSet == [register : RegisterNames, units : SUBSET Int]

(* The reads of a round are of the units U, of each one once, and go to as *)
(* many registers.                                                         *)
RoundCovers(R, U) ==
    /\ R \subseteq ReadSet
    /\ \A r \in R : r.units \subseteq U
    /\ \A u \in U : \E r \in R : u \in r.units
    /\ \A r, s \in R : \A u \in r.units : u \in s.units => r = s
    /\ \A r, s \in R : r.register = s.register => r = s

(* The same of a sequence of rounds, but that a register takes its next    *)
(* read in the next round.                                                 *)
Covers(rs, U) ==
    /\ rs \in Seq(SUBSET ReadSet)
    /\ \A i \in 1 .. Len(rs) : \A r \in rs[i] : r.units \subseteq U
    /\ \A u \in U : \E i \in 1 .. Len(rs) : \E r \in rs[i] : u \in r.units
    /\ \A i, j \in 1 .. Len(rs) : \A r \in rs[i], s \in rs[j] :
          \A u \in r.units : u \in s.units => i = j /\ r = s
    /\ \A i \in 1 .. Len(rs) : \A r, s \in rs[i] : r.register = s.register => r = s

LEMMA NoRounds == Covers(<<>>, {})
BY DEF Covers

LEMMA OneRound ==
    ASSUME NEW R, NEW U, RoundCovers(R, U)
    PROVE  Covers(<<R>>, U)
<1> DEFINE rs == <<R>>
<1>1. rs \in Seq(SUBSET ReadSet) /\ Len(rs) = 1 /\ rs[1] = R
  BY DEF RoundCovers
<1>2. \A i \in 1 .. Len(rs) : i = 1
  BY <1>1
<1> HIDE DEF rs
<1>3. Covers(rs, U)
  <2>1. \A i \in 1 .. Len(rs) : rs[i] = R
    BY <1>1, <1>2
  <2>2. 1 \in 1 .. Len(rs)
    BY <1>1
  <2>3. QED  BY <1>1, <1>2, <2>1, <2>2, Zenon DEF Covers, RoundCovers
<1>4. QED  BY <1>3 DEF rs

LEMMA Concatenation ==
    ASSUME NEW S, NEW p \in Seq(S), NEW q \in Seq(S)
    PROVE  /\ p \o q \in Seq(S) /\ Len(p) \in Nat /\ Len(q) \in Nat
           /\ Len(p \o q) = Len(p) + Len(q)
           /\ \A i \in 1 .. Len(p) : (p \o q)[i] = p[i]
           /\ \A i \in Len(p) + 1 .. Len(p \o q) : (p \o q)[i] = q[i - Len(p)]
OBVIOUS

LEMMA RoundsJoined ==
    ASSUME NEW p, NEW q, NEW U, NEW V, Covers(p, U), Covers(q, V), U \cap V = {}
    PROVE  Covers(p \o q, U \cup V)
<1> DEFINE rs == p \o q
<1>1. p \in Seq(SUBSET ReadSet) /\ q \in Seq(SUBSET ReadSet)
  BY DEF Covers
<1>2. /\ rs \in Seq(SUBSET ReadSet) /\ Len(p) \in Nat /\ Len(q) \in Nat
      /\ Len(rs) = Len(p) + Len(q)
      /\ \A i \in 1 .. Len(p) : rs[i] = p[i]
      /\ \A i \in Len(p) + 1 .. Len(rs) : rs[i] = q[i - Len(p)]
  BY <1>1, Concatenation
<1> HIDE DEF rs
<1>3. \A i \in 1 .. Len(rs) : \/ i \in 1 .. Len(p) /\ rs[i] = p[i]
                              \/ i - Len(p) \in 1 .. Len(q) /\ rs[i] = q[i - Len(p)]
  <2>1. TAKE i \in 1 .. Len(rs)
  <2>2. i \in 1 .. Len(p) \/ (i \in Len(p) + 1 .. Len(rs) /\ i - Len(p) \in 1 .. Len(q))
    BY <1>2
  <2>3. QED  BY <1>2, <2>2, Zenon
<1>4. ASSUME NEW i \in 1 .. Len(rs), NEW r \in rs[i]
      PROVE  \/ i \in 1 .. Len(p) /\ r \in p[i] /\ r.units \subseteq U
             \/ i - Len(p) \in 1 .. Len(q) /\ r \in q[i - Len(p)] /\ r.units \subseteq V
  BY <1>3, Zenon DEF Covers
<1>5. \A i \in 1 .. Len(rs) : \A r \in rs[i] : r.units \subseteq U \cup V
  BY <1>4
<1>6. ASSUME NEW u \in U \cup V
      PROVE  \E i \in 1 .. Len(rs) : \E r \in rs[i] : u \in r.units
  <2>1. CASE u \in U
    <3>1. PICK i \in 1 .. Len(p) : \E r \in p[i] : u \in r.units
      BY <2>1, Zenon DEF Covers
    <3>2. i \in 1 .. Len(rs) /\ rs[i] = p[i]
      BY <1>2
    <3>3. QED  BY <3>1, <3>2
  <2>2. CASE u \in V
    <3>1. PICK i \in 1 .. Len(q) : \E r \in q[i] : u \in r.units
      BY <2>2, Zenon DEF Covers
    <3>2. /\ i + Len(p) \in 1 .. Len(rs) /\ i + Len(p) \in Len(p) + 1 .. Len(rs)
          /\ (i + Len(p)) - Len(p) = i
      BY <1>2
    <3>3. rs[i + Len(p)] = q[i]
      BY <1>2, <3>2, Zenon
    <3>4. QED  BY <3>1, <3>2, <3>3
  <2>3. QED  BY <2>1, <2>2
<1>7. ASSUME NEW i \in 1 .. Len(rs), NEW j \in 1 .. Len(rs), NEW r \in rs[i], NEW s \in rs[j],
             NEW u \in r.units, u \in s.units
      PROVE  i = j /\ r = s
  <2>1. CASE /\ i \in 1 .. Len(p) /\ r \in p[i]
             /\ j \in 1 .. Len(p) /\ s \in p[j]
    BY <1>7, <2>1, Zenon DEF Covers
  <2>2. CASE /\ i - Len(p) \in 1 .. Len(q) /\ r \in q[i - Len(p)]
             /\ j - Len(p) \in 1 .. Len(q) /\ s \in q[j - Len(p)]
    <3>1. i - Len(p) = j - Len(p) /\ r = s
      BY <1>7, <2>2, Zenon DEF Covers
    <3>2. QED  BY <1>2, <3>1
  <2>3. QED  BY <1>4, <1>7, <2>1, <2>2
<1>8. ASSUME NEW i \in 1 .. Len(rs), NEW r \in rs[i], NEW s \in rs[i], r.register = s.register
      PROVE  r = s
  <2>1. CASE i \in 1 .. Len(p) /\ rs[i] = p[i]
    BY <1>8, <2>1, Zenon DEF Covers
  <2>2. CASE i - Len(p) \in 1 .. Len(q) /\ rs[i] = q[i - Len(p)]
    BY <1>8, <2>2, Zenon DEF Covers
  <2>3. QED  BY <1>3, <2>1, <2>2
<1>9. Covers(rs, U \cup V)
  BY <1>2, <1>5, <1>6, <1>7, <1>8, Zenon DEF Covers
<1>10. QED  BY <1>9 DEF rs

ShiftedRead(r, by) == [r EXCEPT !.units = {u + by : u \in @}]

LEMMA RoundsShifted ==
    ASSUME NEW q, NEW U, Covers(q, U), NEW by \in Int
    PROVE  Covers(Shifted(q, by), {u + by : u \in U})
<1> DEFINE rs == Shifted(q, by)
           W == {u + by : u \in U}
<1>1. q \in Seq(SUBSET ReadSet) /\ Len(q) \in Nat /\ DOMAIN q = 1 .. Len(q)
  BY DEF Covers
<1>2. \A r \in ReadSet : /\ ShiftedRead(r, by) \in ReadSet
                         /\ ShiftedRead(r, by).register = r.register
                         /\ ShiftedRead(r, by).units = {u + by : u \in r.units}
  BY DEF ReadSet, ShiftedRead
<1>3. rs = [i \in 1 .. Len(q) |-> {ShiftedRead(r, by) : r \in q[i]}]
  BY <1>1 DEF Shifted, ShiftedRead
<1> HIDE DEF rs
<1>4. \A i \in 1 .. Len(q) : q[i] \subseteq ReadSet
  BY <1>1
<1>5. rs \in Seq(SUBSET ReadSet) /\ Len(rs) = Len(q)
  <2>1. rs \in [1 .. Len(q) -> SUBSET ReadSet]
    BY <1>2, <1>3, <1>4
  <2>2. QED  BY <1>1, <1>3, <2>1
<1>6. ASSUME NEW i \in 1 .. Len(rs), NEW r \in rs[i]
      PROVE  \E s \in q[i] : /\ s \in ReadSet /\ r = ShiftedRead(s, by)
                             /\ r.register = s.register
                             /\ r.units = {u + by : u \in s.units}
  BY <1>2, <1>3, <1>4, <1>5
<1>7. \A i \in 1 .. Len(rs) : \A r \in rs[i] : r.units \subseteq W
  <2>1. TAKE i \in 1 .. Len(rs)
  <2>2. TAKE r \in rs[i]
  <2>3. PICK s \in q[i] : r.units = {u + by : u \in s.units}
    BY <1>6
  <2>4. s.units \subseteq U
    BY <1>5 DEF Covers
  <2>5. QED  BY <2>3, <2>4
<1>8. ASSUME NEW w \in W
      PROVE  \E i \in 1 .. Len(rs) : \E r \in rs[i] : w \in r.units
  <2>1. PICK u \in U : w = u + by
    OBVIOUS
  <2>2. PICK i \in 1 .. Len(q) : \E r \in q[i] : u \in r.units
    BY Zenon DEF Covers
  <2>3. PICK r \in q[i] : u \in r.units
    BY <2>2
  <2>4. ShiftedRead(r, by) \in rs[i] /\ w \in ShiftedRead(r, by).units
    BY <1>2, <1>3, <1>4, <2>1, <2>3
  <2>5. QED  BY <1>5, <2>4
<1>9. ASSUME NEW i \in 1 .. Len(rs), NEW j \in 1 .. Len(rs), NEW r \in rs[i], NEW s \in rs[j],
             NEW w \in r.units, w \in s.units
      PROVE  i = j /\ r = s
  <2>1. PICK r0 \in q[i] :
           /\ r0 \in ReadSet /\ r = ShiftedRead(r0, by)
           /\ r.units = {u + by : u \in r0.units}
    BY <1>6
  <2>2. PICK s0 \in q[j] :
           /\ s0 \in ReadSet /\ s = ShiftedRead(s0, by)
           /\ s.units = {u + by : u \in s0.units}
    BY <1>6
  <2>3. PICK u \in r0.units : w = u + by
    BY <2>1
  <2>4. PICK v \in s0.units : w = v + by
    BY <1>9, <2>2
  <2>5. u \in Int /\ v \in Int
    BY <2>1, <2>2 DEF ReadSet
  <2>6. u = v
    BY <2>3, <2>4, <2>5
  <2>7. i = j /\ r0 = s0
    BY <1>5, <2>6, Zenon DEF Covers
  <2>8. QED  BY <2>1, <2>2, <2>7
<1>10. ASSUME NEW i \in 1 .. Len(rs), NEW r \in rs[i], NEW s \in rs[i], r.register = s.register
       PROVE  r = s
  <2>1. PICK r0 \in q[i] : r = ShiftedRead(r0, by) /\ r.register = r0.register
    BY <1>6
  <2>2. PICK s0 \in q[i] : s = ShiftedRead(s0, by) /\ s.register = s0.register
    BY <1>6
  <2>3. r0 = s0
    BY <1>5, <1>10, <2>1, <2>2, Zenon DEF Covers
  <2>4. QED  BY <2>1, <2>2, <2>3
<1> HIDE DEF W
<1>11. Covers(rs, W)
  BY <1>5, <1>7, <1>8, <1>9, <1>10, Zenon DEF Covers
<1>12. QED  BY <1>11 DEF rs, W

-----------------------------------------------------------------------------
(* The rounds of one pass and of what is left after the last *)

LEMMA Registers ==
    /\ \A k \in 0 .. 2 : Register(k) \in RegisterNames
    /\ \A j, k \in 0 .. 2 : Register(j) = Register(k) => j = k
<1>1. Register(0) = "a" /\ Register(1) = "b" /\ Register(2) = "c"
  BY DEF Register
<1>2. "a" \in RegisterNames /\ "b" \in RegisterNames /\ "c" \in RegisterNames
  BY Zenon DEF RegisterNames
<1>3. "a" # "b" /\ "b" # "c" /\ "a" # "c"
  OBVIOUS
<1>4. \A k \in 0 .. 2 : k = 0 \/ k = 1 \/ k = 2
  OBVIOUS
<1>5. \A k \in 0 .. 2 : Register(k) \in RegisterNames
  BY <1>1, <1>2, <1>4, Zenon
<1>6. QED  BY <1>1, <1>3, <1>4, <1>5, Zenon

LEMMA ReadFacts ==
    ASSUME NEW register \in RegisterNames, NEW k \in Int, NEW n \in Int
    PROVE  /\ Read(register, k, n) \in ReadSet
           /\ Read(register, k, n).register = register
           /\ Read(register, k, n).units = k .. k + n - 1
BY DEF Read, ReadSet

(* A round takes one more read, to a register that is not used yet. *)
LEMMA ReadAdded ==
    ASSUME NEW R, NEW U, RoundCovers(R, U),
           NEW x \in ReadSet, U \cap x.units = {},
           \A r \in R : r.register # x.register
    PROVE  RoundCovers(R \cup {x}, U \cup x.units)
<1> DEFINE S == R \cup {x}
           V == U \cup x.units
<1>1. S \subseteq ReadSet
  BY DEF RoundCovers
<1>2. \A r \in S : r.units \subseteq V
  BY DEF RoundCovers
<1>3. \A u \in V : \E r \in S : u \in r.units
  BY DEF RoundCovers
<1>4. \A r, s \in S : \A u \in r.units : u \in s.units => r = s
  BY DEF RoundCovers
<1>5. \A r, s \in S : r.register = s.register => r = s
  BY DEF RoundCovers
<1> HIDE DEF S, V
<1>6. RoundCovers(S, V)
  BY <1>1, <1>2, <1>3, <1>4, <1>5, Zenon DEF RoundCovers
<1>7. QED  BY <1>6 DEF S, V

LEMMA OneRead ==
    ASSUME NEW x \in ReadSet
    PROVE  RoundCovers({x}, x.units)
BY DEF RoundCovers

LEMMA IntsCover ==
    ASSUME NEW n \in 0 .. 3, NEW w \in {2, 4}
    PROVE  /\ RoundCovers(Ints(n, w), 0 .. w * n - 1)
           /\ \A r \in Ints(n, w) : \E k \in 0 .. n - 1 : r.register = Register(k)
<1> DEFINE x(k) == Read(Register(k), w * k, w)
<1>1. \A k \in 0 .. 2 : /\ x(k) \in ReadSet
                        /\ x(k).register = Register(k)
                        /\ x(k).units = w * k .. w * k + w - 1
  <2>1. TAKE k \in 0 .. 2
  <2>2. w * k \in Int /\ w \in Int
    <3>1. CASE w = 2
      BY <3>1
    <3>2. CASE w = 4
      BY <3>2
    <3>3. QED  BY <3>1, <3>2
  <2>3. Register(k) \in RegisterNames
    BY Registers
  <2> DEFINE e == w * k
             y == Read(Register(k), e, w)
  <2>4. y \in ReadSet /\ y.register = Register(k) /\ y.units = e .. e + w - 1
    <3> HIDE DEF e
    <3>1. e \in Int
      BY <2>2 DEF e
    <3> DEFINE g == Register(k)
    <3>2. g \in RegisterNames /\ w \in Int
      BY <2>2, <2>3
    <3> HIDE DEF g
    <3>3. /\ Read(g, e, w) \in ReadSet /\ Read(g, e, w).register = g
          /\ Read(g, e, w).units = e .. e + w - 1
      BY <3>1, <3>2, ReadFacts
    <3>4. QED  BY <3>3 DEF g
  <2>5. QED  BY <2>4
<1>2. Ints(n, w) = {x(k) : k \in 0 .. n - 1}
  BY DEF Ints
<1> HIDE DEF x
<1>3. \A k \in 0 .. n - 1 : k \in 0 .. 2
  OBVIOUS
<1>4. Ints(n, w) \subseteq ReadSet
  BY <1>1, <1>2, <1>3
<1>5. \A r \in Ints(n, w) : \E k \in 0 .. n - 1 : r = x(k) /\ r.register = Register(k)
  BY <1>1, <1>2, <1>3
<1>6. \A k \in 0 .. n - 1 : w * k .. w * k + w - 1 \subseteq 0 .. w * n - 1
  <2>1. CASE w = 2
    BY <2>1
  <2>2. CASE w = 4
    BY <2>2
  <2>3. QED  BY <2>1, <2>2
<1>7. \A u \in 0 .. w * n - 1 : \E k \in 0 .. n - 1 : u \in w * k .. w * k + w - 1
  <2>1. CASE w = 2
    <3>1. \A u \in 0 .. 2 * n - 1 :
             u \div 2 \in 0 .. n - 1 /\ u \in 2 * (u \div 2) .. 2 * (u \div 2) + 2 - 1
      OBVIOUS
    <3>2. QED  BY <2>1, <3>1
  <2>2. CASE w = 4
    <3>1. \A u \in 0 .. 4 * n - 1 :
             u \div 4 \in 0 .. n - 1 /\ u \in 4 * (u \div 4) .. 4 * (u \div 4) + 4 - 1
      OBVIOUS
    <3>2. QED  BY <2>2, <3>1
  <2>3. QED  BY <2>1, <2>2
<1>8. \A j, k \in 0 .. n - 1 : \A u \in w * j .. w * j + w - 1 :
         u \in w * k .. w * k + w - 1 => j = k
  <2>1. CASE w = 2
    BY <2>1
  <2>2. CASE w = 4
    BY <2>2
  <2>3. QED  BY <2>1, <2>2
<1>9. \A u \in 0 .. w * n - 1 : \E r \in Ints(n, w) : u \in r.units
  <2>1. TAKE u \in 0 .. w * n - 1
  <2>2. PICK k \in 0 .. n - 1 : u \in w * k .. w * k + w - 1
    BY <1>7
  <2>3. QED  BY <1>1, <1>2, <1>3, <2>2
<1>10. \A r \in Ints(n, w) : r.units \subseteq 0 .. w * n - 1
  <2>1. TAKE r \in Ints(n, w)
  <2>2. PICK k \in 0 .. n - 1 : r = x(k)
    BY <1>5
  <2>3. QED  BY <1>1, <1>3, <1>6, <2>2
<1>11. ASSUME NEW r \in Ints(n, w), NEW s \in Ints(n, w), NEW u \in r.units, u \in s.units
       PROVE  r = s
  <2>1. PICK j \in 0 .. n - 1 : r = x(j)
    BY <1>5
  <2>2. PICK k \in 0 .. n - 1 : s = x(k)
    BY <1>5
  <2>3. u \in w * j .. w * j + w - 1 /\ u \in w * k .. w * k + w - 1
    BY <1>1, <1>3, <1>11, <2>1, <2>2
  <2>4. j = k
    BY <1>8, <2>3, Zenon
  <2>5. QED  BY <2>1, <2>2, <2>4
<1>12. \A r, s \in Ints(n, w) : r.register = s.register => r = s
  <2>1. TAKE r, s \in Ints(n, w)
  <2>2. PICK j \in 0 .. n - 1 : r = x(j) /\ r.register = Register(j)
    BY <1>5
  <2>3. PICK k \in 0 .. n - 1 : s = x(k) /\ s.register = Register(k)
    BY <1>5
  <2>4. QED  BY <1>3, <2>2, <2>3, Registers
<1>13. RoundCovers(Ints(n, w), 0 .. w * n - 1)
  BY <1>4, <1>9, <1>10, <1>11, <1>12, Zenon DEF RoundCovers
<1>14. QED  BY <1>5, <1>13

LEMMA RowsApart ==
    ASSUME NEW a \in Nat, NEW b \in Nat, NEW k \in 0 .. 2, NEW l \in 0 .. 2,
           3 * a + k = 3 * b + l
    PROVE  a = b /\ k = l
OBVIOUS

(* The rows 0 to m - 1 in an order *)
RowOrders(m) ==
    {g \in [1 .. m -> 0 .. m - 1] :
        /\ \A k \in 0 .. m - 1 : \E i \in 1 .. m : g[i] = k
        /\ \A i, j \in 1 .. m : g[i] = g[j] => i = j}

(* Rows in any order, each one in a round of its own. *)
LEMMA RowsCover ==
    ASSUME NEW len \in Nat, NEW m \in Nat, len <= 3 * m,
           NEW g \in RowOrders(m)
    PROVE  Covers([i \in 1 .. m |-> Row(g[i], len)], 0 .. len - 1)
<1> DEFINE rs == [i \in 1 .. m |-> Row(g[i], len)]
<1> DEFINE x(h, k) == Read(Register(k), 3 * h + k, 1)
<1>1. \A h \in Nat, k \in 0 .. 2 : /\ x(h, k) \in ReadSet
                                   /\ x(h, k).register = Register(k)
                                   /\ x(h, k).units = {3 * h + k}
  <2>1. TAKE h \in Nat, k \in 0 .. 2
  <2>2. 3 * h + k \in Int /\ 3 * h + k .. 3 * h + k + 1 - 1 = {3 * h + k}
    OBVIOUS
  <2>3. Register(k) \in RegisterNames
    BY Registers
  <2>4. 1 \in Int
    OBVIOUS
  <2> DEFINE e == 3 * h + k
  <2>5. e \in Int /\ e .. e + 1 - 1 = {e}
    BY <2>2
  <2> HIDE DEF e
  <2> DEFINE y == Read(Register(k), e, 1)
  <2>6. y \in ReadSet /\ y.register = Register(k) /\ y.units = e .. e + 1 - 1
    BY <2>3, <2>4, <2>5, ReadFacts
  <2>7. QED  BY <2>5, <2>6 DEF e
<1>2. \A h \in Nat : Row(h, len) = {x(h, k) : k \in {i \in 0 .. 2 : 3 * h + i < len}}
  BY DEF Row
<1> HIDE DEF x
<1>3. \A i \in 1 .. m : g[i] \in Nat /\ rs[i] = Row(g[i], len)
  BY DEF RowOrders
<1> HIDE DEF rs
<1>4. ASSUME NEW i \in 1 .. m, NEW r \in rs[i]
      PROVE  \E k \in 0 .. 2 : /\ r = x(g[i], k) /\ 3 * g[i] + k < len /\ r \in ReadSet
                               /\ r.register = Register(k) /\ r.units = {3 * g[i] + k}
  BY <1>1, <1>2, <1>3
<1>5. rs \in Seq(SUBSET ReadSet) /\ Len(rs) = m
  <2>1. \A i \in 1 .. m : rs[i] \in SUBSET ReadSet
    BY <1>4
  <2>2. rs \in [1 .. m -> SUBSET ReadSet]
    BY <2>1 DEF rs
  <2>3. QED  BY <2>2
<1>6. \A i \in 1 .. m : \A r \in rs[i] : r.units \subseteq 0 .. len - 1
  <2>1. TAKE i \in 1 .. m
  <2>2. TAKE r \in rs[i]
  <2>3. PICK k \in 0 .. 2 : 3 * g[i] + k < len /\ r.units = {3 * g[i] + k}
    BY <1>4
  <2>4. 3 * g[i] + k \in 0 .. len - 1
    BY <1>3, <2>3
  <2>5. QED  BY <2>3, <2>4
<1>7. ASSUME NEW u \in 0 .. len - 1
      PROVE  \E i \in 1 .. m : \E r \in rs[i] : u \in r.units
  <2> DEFINE h == u \div 3
             k == u % 3
  <2>1. h \in 0 .. m - 1 /\ h \in Nat /\ k \in 0 .. 2 /\ u = 3 * h + k
    OBVIOUS
  <2> HIDE DEF h, k
  <2>2. PICK i \in 1 .. m : g[i] = h
    BY <2>1 DEF RowOrders
  <2>3. x(h, k) \in rs[i]
    BY <1>2, <1>3, <2>1, <2>2
  <2>4. u \in x(h, k).units
    <3>1. x(h, k).units = {3 * h + k}
      BY <1>1, <2>1
    <3>2. QED  BY <2>1, <3>1
  <2>5. QED  BY <2>3, <2>4
<1>8. ASSUME NEW i \in 1 .. m, NEW j \in 1 .. m, NEW r \in rs[i], NEW s \in rs[j],
             NEW u \in r.units, u \in s.units
      PROVE  i = j /\ r = s
  <2>1. PICK k \in 0 .. 2 : r = x(g[i], k) /\ r.units = {3 * g[i] + k}
    BY <1>4
  <2>2. PICK l \in 0 .. 2 : s = x(g[j], l) /\ s.units = {3 * g[j] + l}
    BY <1>4
  <2>3. 3 * g[i] + k = 3 * g[j] + l
    BY <1>8, <2>1, <2>2
  <2>4. g[i] = g[j] /\ k = l
    BY <1>3, <2>3, RowsApart
  <2>5. i = j
    BY <2>4 DEF RowOrders
  <2>6. QED  BY <2>1, <2>2, <2>4, <2>5
<1>9. ASSUME NEW i \in 1 .. m, NEW r \in rs[i], NEW s \in rs[i], r.register = s.register
      PROVE  r = s
  <2>1. PICK k \in 0 .. 2 : r = x(g[i], k) /\ r.register = Register(k)
    BY <1>4
  <2>2. PICK l \in 0 .. 2 : s = x(g[i], l) /\ s.register = Register(l)
    BY <1>4
  <2>3. Register(k) = Register(l)
    BY <1>9, <2>1, <2>2
  <2>4. k = l
    BY <2>3, Registers
  <2>5. QED  BY <2>1, <2>2, <2>4, Zenon
<1>10. Covers(rs, 0 .. len - 1)
  BY <1>5, <1>6, <1>7, <1>8, <1>9, Zenon DEF Covers
<1>11. QED  BY <1>10 DEF rs

(* The three kinds of tails *)
LEMMA MurmurCovers ==
    ASSUME NEW n \in Nat
    PROVE  Covers(<<{Read("h", 0, n)}>>, 0 .. n - 1)
<1> DEFINE x == Read("h", 0, n)
<1>1. "h" \in RegisterNames /\ 0 \in Int /\ n \in Int
  BY DEF RegisterNames
<1>2. x \in ReadSet /\ x.units = 0 .. 0 + n - 1
  BY <1>1, ReadFacts
<1>3. x.units = 0 .. n - 1
  BY <1>2
<1> HIDE DEF x
<1>4. Covers(<<{x}>>, 0 .. n - 1)
  BY <1>2, <1>3, OneRead, OneRound
<1>5. QED  BY <1>4 DEF x

LEMMA Tail32Covers ==
    ASSUME NEW len \in Nat
    PROVE  Covers(Tail32(len), 0 .. len - 1)
<1> DEFINE m == (len + 2) \div 3
           g == [i \in 1 .. m |-> m - i]
<1>1. m \in Nat /\ len <= 3 * m
  OBVIOUS
<1>2. Tail32(len) = [r \in 1 .. m |-> Row(m - r, len)]
  BY DEF Tail32
<1> HIDE DEF m
<1>3. g \in RowOrders(m)
  <2>1. \A k \in 0 .. m - 1 : m - k \in 1 .. m /\ g[m - k] = k
    BY <1>1
  <2>2. \A i, j \in 1 .. m : g[i] = g[j] => i = j
    BY <1>1
  <2>3. g \in [1 .. m -> 0 .. m - 1]
    BY <1>1
  <2> HIDE DEF g
  <2>4. QED  BY <2>1, <2>2, <2>3, Zenon DEF RowOrders
<1>4. [i \in 1 .. m |-> Row(g[i], len)] = [r \in 1 .. m |-> Row(m - r, len)]
  BY Zenon
<1> HIDE DEF g
<1>5. Covers([i \in 1 .. m |-> Row(g[i], len)], 0 .. len - 1)
  BY <1>1, <1>3, RowsCover
<1>6. QED  BY <1>2, <1>4, <1>5, Zenon

LEMMA Loop32Covers == Covers(<<Row(0, 9), Row(1, 9), Row(2, 9)>>, 0 .. 9 - 1)
<1> DEFINE g == [i \in 1 .. 3 |-> i - 1]
<1>1. g \in RowOrders(3)
  <2>1. \A k \in 0 .. 3 - 1 : k + 1 \in 1 .. 3 /\ g[k + 1] = k
    OBVIOUS
  <2>2. \A i, j \in 1 .. 3 : g[i] = g[j] => i = j
    OBVIOUS
  <2>3. g \in [1 .. 3 -> 0 .. 3 - 1]
    OBVIOUS
  <2> HIDE DEF g
  <2>4. QED  BY <2>1, <2>2, <2>3, Zenon DEF RowOrders
<1>2. [i \in 1 .. 3 |-> Row(g[i], 9)] = <<Row(0, 9), Row(1, 9), Row(2, 9)>>
  <2>1. g[1] = 0 /\ g[2] = 1 /\ g[3] = 2
    OBVIOUS
  <2> HIDE DEF g
  <2>2. QED  BY <2>1
<1> HIDE DEF g
<1>3. Covers([i \in 1 .. 3 |-> Row(g[i], 9)], 0 .. 9 - 1)
  <2>1. 9 \in Nat /\ 3 \in Nat /\ 9 <= 3 * 3
    OBVIOUS
  <2>2. QED  BY <1>1, <2>1, RowsCover, Zenon
<1>4. QED  BY <1>2, <1>3, Zenon

(* One more read behind the first units of the data *)
LEMMA NextRead ==
    ASSUME NEW R, NEW e \in Nat, RoundCovers(R, 0 .. e - 1),
           NEW k \in 0 .. 2, \A r \in R : r.register # Register(k),
           NEW n \in Nat
    PROVE  /\ RoundCovers(R \cup {Read(Register(k), e, n)}, 0 .. e + n - 1)
           /\ Read(Register(k), e, n).register = Register(k)
<1> DEFINE x == Read(Register(k), e, n)
<1>1. Register(k) \in RegisterNames /\ e \in Int /\ n \in Int
  BY Registers
<1>2. x \in ReadSet /\ x.register = Register(k) /\ x.units = e .. e + n - 1
  BY <1>1, ReadFacts
<1>3. (0 .. e - 1) \cap (e .. e + n - 1) = {} /\ (0 .. e - 1) \cup (e .. e + n - 1) = 0 .. e + n - 1
  OBVIOUS
<1> HIDE DEF x
<1>4. RoundCovers(R \cup {x}, (0 .. e - 1) \cup x.units)
  BY <1>2, <1>3, ReadAdded
<1>5. QED  BY <1>2, <1>3, <1>4 DEF x

(* As many ints as registers are used, and the next register for the rest *)
LEMMA IntsAndRead ==
    ASSUME NEW n \in 0 .. 2, NEW w \in {2, 4}, NEW size \in Nat
    PROVE  /\ RoundCovers(Ints(n, w) \cup {Read(Register(n), w * n, size)}, 0 .. w * n + size - 1)
           /\ \A r \in Ints(n, w) \cup {Read(Register(n), w * n, size)} :
                 \E k \in 0 .. n : r.register = Register(k)
<1> DEFINE x == Read(Register(n), w * n, size)
<1>1. n \in 0 .. 3 /\ w * n \in Nat
  <2>1. CASE w = 2
    BY <2>1
  <2>2. CASE w = 4
    BY <2>2
  <2>3. QED  BY <2>1, <2>2
<1>2. /\ RoundCovers(Ints(n, w), 0 .. w * n - 1)
      /\ \A r \in Ints(n, w) : \E k \in 0 .. n - 1 : r.register = Register(k)
  BY <1>1, IntsCover
<1>3. \A k \in 0 .. n - 1 : k \in 0 .. 2 /\ k # n /\ k \in 0 .. n
  OBVIOUS
<1>4. \A r \in Ints(n, w) : r.register # Register(n)
  BY <1>2, <1>3, Registers
<1> DEFINE e == w * n
<1>5. e \in Nat /\ RoundCovers(Ints(n, w), 0 .. e - 1)
  BY <1>1, <1>2
<1> HIDE DEF e
<1>6. /\ RoundCovers(Ints(n, w) \cup {Read(Register(n), e, size)}, 0 .. e + size - 1)
      /\ Read(Register(n), e, size).register = Register(n)
  BY <1>4, <1>5, NextRead
<1>7. \A r \in Ints(n, w) : \E k \in 0 .. n : r.register = Register(k)
  BY <1>2, <1>3
<1>8. n \in 0 .. n
  OBVIOUS
<1>9. QED  BY <1>6, <1>7, <1>8 DEF e

LEMMA Tail16Covers ==
    ASSUME NEW len \in 0 .. 5
    PROVE  Covers(Tail16(len), 0 .. len - 1)
<1> DEFINE n == len \div 2
           half == IF len % 2 = 1 THEN {Read(Register(n), len - 1, 1)} ELSE {}
<1>1. CASE len = 0
  <2>1. Tail16(len) = <<>> /\ 0 .. len - 1 = {}
    BY <1>1 DEF Tail16
  <2>2. QED  BY <2>1, NoRounds
<1>2. CASE len # 0
  <2>1. Tail16(len) = <<Ints(n, 2) \cup half>>
    BY <1>2, Zenon DEF Tail16
  <2>2. n \in 0 .. 2 /\ n \in 0 .. 3 /\ (len % 2 = 1 => len - 1 = 2 * n) /\ (len % 2 # 1 => len = 2 * n)
    OBVIOUS
  <2>3. CASE len % 2 = 1
    <3>1. half = {Read(Register(n), 2 * n, 1)}
      BY <2>2, <2>3, Zenon
    <3> HIDE DEF half, n
    <3>2. RoundCovers(Ints(n, 2) \cup half, 0 .. 2 * n + 1 - 1)
      BY <2>2, <3>1, IntsAndRead
    <3>3. 0 .. 2 * n + 1 - 1 = 0 .. len - 1
      BY <2>2, <2>3
    <3>4. QED  BY <2>1, <3>2, <3>3, OneRound
  <2>4. CASE len % 2 # 1
    <3>1. Ints(n, 2) \cup half = Ints(n, 2)
      BY <2>4
    <3> HIDE DEF half, n
    <3>2. RoundCovers(Ints(n, 2), 0 .. len - 1)
      BY <2>2, <2>4, IntsCover
    <3>3. QED  BY <2>1, <3>1, <3>2, OneRound
  <2>5. QED  BY <2>3, <2>4
<1>3. QED  BY <1>1, <1>2

LEMMA TwoRounds ==
    ASSUME NEW a, NEW b
    PROVE  <<a>> \o <<b>> = <<a, b>>
<1> DEFINE p == <<a>>
           q == <<b>>
           pq == p \o q
           S == {a, b}
<1>1. p \in Seq(S) /\ q \in Seq(S) /\ Len(p) = 1 /\ Len(q) = 1 /\ p[1] = a /\ q[1] = b
  OBVIOUS
<1> HIDE DEF p, q, S
<1>2. /\ pq \in Seq(S) /\ Len(pq) = Len(p) + Len(q)
      /\ \A i \in 1 .. Len(p) : pq[i] = p[i]
      /\ \A i \in Len(p) + 1 .. Len(pq) : pq[i] = q[i - Len(p)]
  BY <1>1, Concatenation
<1> HIDE DEF pq
<1>3. pq = <<a, b>>
  <2>1. Len(pq) = 2 /\ pq[1] = a
    BY <1>1, <1>2
  <2>2. 2 \in Len(p) + 1 .. Len(pq) /\ 2 - Len(p) = 1
    BY <1>1, <1>2
  <2>3. pq[2] = q[2 - Len(p)]
    BY <1>2, <2>2, Zenon
  <2>4. QED  BY <1>1, <1>2, <2>1, <2>2, <2>3
<1>4. QED  BY <1>3 DEF p, q, pq

LEMMA Tail8Covers ==
    ASSUME NEW len \in 0 .. 11
    PROVE  Covers(Tail8(len), 0 .. len - 1)
<1> DEFINE n == len \div 4
           pairs == IF len % 4 >= 2 THEN {Read(Register(n), 4 * n, 2)} ELSE {}
           single == IF len % 2 = 1
                     THEN {Read(Register(IF len % 4 = 3 THEN (n + 1) % 3 ELSE n), len - 1, 1)}
                     ELSE {}
<1>1. Tail8(len) = CASE len = 0 -> <<>>
                     [] len = 11 -> <<single, Ints(n, 4) \cup pairs>>
                     [] OTHER -> <<Ints(n, 4) \cup pairs \cup single>>
  BY Zenon DEF Tail8
<1>2. n \in 0 .. 2 /\ n \in 0 .. 3 /\ len = 4 * n + (len % 4) /\ len % 4 \in 0 .. 3
  <2>1. n \in 0 .. 2 /\ n \in 0 .. 3
    OBVIOUS
  <2>2. len % 4 \in 0 .. 3
    OBVIOUS
  <2>3. len = 4 * n + (len % 4)
    OBVIOUS
  <2>4. QED  BY <2>1, <2>2, <2>3
<1>3. CASE len = 0
  <2>1. Tail8(len) = <<>> /\ 0 .. len - 1 = {}
    BY <1>1, <1>3
  <2>2. QED  BY <2>1, NoRounds
<1>4. CASE len = 11
  <2>1. n = 2 /\ len % 4 = 3 /\ len % 2 = 1 /\ (n + 1) % 3 = 0 /\ len - 1 = 10 /\ 4 * n = 8
    BY <1>4
  <2>2. single = {Read(Register(0), 10, 1)} /\ pairs = {Read(Register(2), 8, 2)}
    BY <2>1
  <2>3. Tail8(len) = <<{Read(Register(0), 10, 1)}>> \o <<Ints(2, 4) \cup {Read(Register(2), 4 * 2, 2)}>>
    <3>1. Tail8(len) = <<single, Ints(n, 4) \cup pairs>>
      BY <1>1, <1>4
    <3>2. Tail8(len) = <<{Read(Register(0), 10, 1)}, Ints(2, 4) \cup {Read(Register(2), 8, 2)}>>
      BY <2>1, <2>2, <3>1, Zenon
    <3>3. 4 * 2 = 8
      OBVIOUS
    <3>4. QED  BY <3>2, <3>3, TwoRounds, Zenon
  <2>4. Covers(<<{Read(Register(0), 10, 1)}>>, 10 .. 10 + 1 - 1)
    <3>1. Register(0) \in RegisterNames /\ 10 \in Int /\ 1 \in Int
      BY Registers
    <3> DEFINE x == Read(Register(0), 10, 1)
    <3>2. x \in ReadSet /\ x.units = 10 .. 10 + 1 - 1
      BY <3>1, ReadFacts
    <3> HIDE DEF x
    <3>3. Covers(<<{x}>>, 10 .. 10 + 1 - 1)
      BY <3>2, OneRead, OneRound
    <3>4. QED  BY <3>3 DEF x
  <2>5. Covers(<<Ints(2, 4) \cup {Read(Register(2), 4 * 2, 2)}>>, 0 .. 4 * 2 + 2 - 1)
    <3>1. 2 \in 0 .. 2 /\ 4 \in {2, 4} /\ 2 \in Nat
      OBVIOUS
    <3>2. QED  BY <3>1, IntsAndRead, OneRound
  <2>6. /\ (10 .. 10 + 1 - 1) \cap (0 .. 4 * 2 + 2 - 1) = {}
        /\ (10 .. 10 + 1 - 1) \cup (0 .. 4 * 2 + 2 - 1) = 0 .. len - 1
    BY <1>4
  <2> DEFINE p == <<{Read(Register(0), 10, 1)}>>
             q == <<Ints(2, 4) \cup {Read(Register(2), 4 * 2, 2)}>>
             U == 10 .. 10 + 1 - 1
             V == 0 .. 4 * 2 + 2 - 1
  <2>7. Covers(p, U) /\ Covers(q, V) /\ U \cap V = {} /\ U \cup V = 0 .. len - 1 /\ Tail8(len) = p \o q
    BY <2>3, <2>4, <2>5, <2>6, Zenon
  <2> HIDE DEF p, q, U, V
  <2>8. QED  BY <2>7, RoundsJoined
<1>5. CASE len # 0 /\ len # 11
  <2>1. Tail8(len) = <<Ints(n, 4) \cup pairs \cup single>>
    BY <1>1, <1>5, Zenon
  <2>2. CASE len % 4 = 0
    <3>1. pairs = {} /\ single = {} /\ len = 4 * n
      BY <1>2, <2>2
    <3> HIDE DEF pairs, single, n
    <3>2. Ints(n, 4) \cup pairs \cup single = Ints(n, 4)
      BY <3>1
    <3>3. RoundCovers(Ints(n, 4), 0 .. len - 1)
      BY <1>2, <3>1, IntsCover
    <3>4. QED  BY <2>1, <3>2, <3>3, OneRound
  <2>3. CASE len % 4 = 1
    <3>1. pairs = {} /\ len - 1 = 4 * n /\ len % 2 = 1 /\ len % 4 # 3
      BY <1>2, <2>3
    <3>2. single = {Read(Register(n), 4 * n, 1)}
      BY <3>1, Zenon
    <3> HIDE DEF pairs, single, n
    <3>3. Ints(n, 4) \cup pairs \cup single = Ints(n, 4) \cup {Read(Register(n), 4 * n, 1)}
      BY <3>1, <3>2
    <3>4. 0 .. len - 1 = 0 .. 4 * n + 1 - 1
      BY <1>2, <3>1
    <3>5. RoundCovers(Ints(n, 4) \cup {Read(Register(n), 4 * n, 1)}, 0 .. len - 1)
      BY <1>2, <3>4, IntsAndRead
    <3>6. QED  BY <2>1, <3>3, <3>5, OneRound
  <2>4. CASE len % 4 = 2
    <3>1. single = {} /\ len = 4 * n + 2
      BY <1>2, <2>4
    <3>2. pairs = {Read(Register(n), 4 * n, 2)}
      BY <2>4
    <3> HIDE DEF pairs, single, n
    <3>3. Ints(n, 4) \cup pairs \cup single = Ints(n, 4) \cup {Read(Register(n), 4 * n, 2)}
      BY <3>1, <3>2
    <3>4. 0 .. len - 1 = 0 .. 4 * n + 2 - 1
      BY <1>2, <3>1
    <3>5. RoundCovers(Ints(n, 4) \cup {Read(Register(n), 4 * n, 2)}, 0 .. len - 1)
      BY <1>2, <3>4, IntsAndRead
    <3>6. QED  BY <2>1, <3>3, <3>5, OneRound
  <2>5. CASE len % 4 = 3
    <3>1. len % 2 = 1 /\ (n + 1) % 3 = n + 1 /\ n + 1 \in 0 .. 2 /\ len - 1 = 4 * n + 2
      BY <1>2, <1>5, <2>5
    <3>2. pairs = {Read(Register(n), 4 * n, 2)}
      BY <2>5
    <3>3. single = {Read(Register(n + 1), 4 * n + 2, 1)}
      BY <2>5, <3>1, Zenon
    <3> HIDE DEF pairs, single
    <3> DEFINE R == Ints(n, 4) \cup {Read(Register(n), 4 * n, 2)}
               e == 4 * n + 2
               k == n + 1
    <3> HIDE DEF n
    <3>4. RoundCovers(R, 0 .. e - 1) /\ \A r \in R : \E j \in 0 .. n : r.register = Register(j)
      <4>1. 4 \in {2, 4} /\ 2 \in Nat
        OBVIOUS
      <4>2. RoundCovers(R, 0 .. 4 * n + 2 - 1) /\ \A r \in R : \E j \in 0 .. n : r.register = Register(j)
        BY <1>2, <4>1, IntsAndRead, Zenon
      <4>3. 4 * n + 2 - 1 = e - 1
        BY <1>2
      <4>4. QED  BY <4>2, <4>3, Zenon
    <3>5. \A j \in 0 .. n : j \in 0 .. 2 /\ j # k
      BY <1>2
    <3>6. k \in 0 .. 2 /\ e \in Nat /\ 1 \in Nat
      BY <1>2, <3>1
    <3>7. \A r \in R : r.register # Register(k)
      BY <3>4, <3>5, <3>6, Registers
    <3>8. 0 .. e + 1 - 1 = 0 .. len - 1
      BY <1>2, <3>1
    <3>9. Ints(n, 4) \cup pairs \cup single = R \cup {Read(Register(k), e, 1)}
      BY <3>2, <3>3
    <3> HIDE DEF R, e, k
    <3>10. RoundCovers(R \cup {Read(Register(k), e, 1)}, 0 .. e + 1 - 1)
      BY <3>4, <3>6, <3>7, NextRead
    <3>11. QED  BY <2>1, <3>8, <3>9, <3>10, OneRound
  <2>6. QED  BY <1>2, <2>2, <2>3, <2>4, <2>5
<1>6. QED  BY <1>3, <1>4, <1>5

(* What the tail of murmur keeps of the word it reads is what is left. *)
LEMMA TailKept ==
    ASSUME NEW len \in 0 .. WordBytes - 1
    PROVE  TailRead(len).bits \div 8 = len /\ TailRead(len).bytes \in len .. WordBytes
<1>1. WordBytes = 4 \/ WordBytes = 8
  BY HashComputeAssumption
<1>2. CASE len = 7
  BY <1>1, <1>2 DEF TailRead
<1>3. CASE len = 6
  BY <1>1, <1>3 DEF TailRead
<1>4. CASE len = 5
  BY <1>1, <1>4 DEF TailRead
<1>5. CASE len = 4
  BY <1>1, <1>5 DEF TailRead
<1>6. CASE len = 3
  BY <1>1, <1>6 DEF TailRead
<1>7. CASE len \in 0 .. 2
  BY <1>1, <1>7 DEF TailRead
<1>8. QED  BY <1>1, <1>2, <1>3, <1>4, <1>5, <1>6, <1>7

(* A pass of the loop and the code behind it, of every function *)
LEMMA PassCovers ==
    ASSUME NEW f \in HashFunctions
    PROVE  /\ Stride(f) \in Nat \ {0}
           /\ Covers(LoopRounds(f), 0 .. Stride(f) - 1)
           /\ \A len \in 0 .. Stride(f) - 1 : Covers(TailRounds(f, len), 0 .. len - 1)
<1>1. CASE f = "murmur2_U8"
  <2>1. /\ Stride(f) = WordBytes /\ LoopRounds(f) = <<{Read("h", 0, WordBytes)}>>
        /\ \A len : TailRounds(f, len) = TailMurmur(len)
    BY <1>1 DEF Stride, LoopRounds, TailRounds
  <2>2. WordBytes \in Nat \ {0}
    BY HashComputeAssumption
  <2>3. ASSUME NEW len \in 0 .. WordBytes - 1 PROVE Covers(TailMurmur(len), 0 .. len - 1)
    <3>1. CASE len = 0
      <4>1. TailMurmur(len) = <<>> /\ 0 .. len - 1 = {}
        BY <3>1 DEF TailMurmur
      <4>2. QED  BY <4>1, NoRounds
    <3>2. CASE len # 0
      <4>1. TailRead(len).bits \div 8 = len
        BY TailKept
      <4>2. TailMurmur(len) = <<{Read("h", 0, len)}>>
        BY <3>2, <4>1, Zenon DEF TailMurmur
      <4>3. len \in Nat
        BY <2>2
      <4>4. QED  BY <4>2, <4>3, MurmurCovers
    <3>3. QED  BY <3>1, <3>2
  <2>4. Covers(<<{Read("h", 0, WordBytes)}>>, 0 .. WordBytes - 1)
    BY <2>2, MurmurCovers
  <2>5. QED  BY <2>1, <2>2, <2>3, <2>4, Zenon
<1>2. CASE f = "computeU32"
  <2>1. /\ Stride(f) = 9 /\ LoopRounds(f) = <<Row(0, 9), Row(1, 9), Row(2, 9)>>
        /\ \A len : TailRounds(f, len) = Tail32(len)
    BY <1>2 DEF Stride, LoopRounds, TailRounds
  <2>2. 9 \in Nat \ {0} /\ \A len \in 0 .. 9 - 1 : len \in Nat
    OBVIOUS
  <2>3. QED  BY <2>1, <2>2, Tail32Covers, Loop32Covers, Zenon
<1>3. CASE f = "computeU16"
  <2>1. /\ Stride(f) = 6 /\ LoopRounds(f) = <<Ints(3, 2)>>
        /\ \A len : TailRounds(f, len) = Tail16(len)
    BY <1>3 DEF Stride, LoopRounds, TailRounds
  <2>2. 6 \in Nat \ {0} /\ 3 \in 0 .. 3 /\ 2 \in {2, 4} /\ 2 * 3 - 1 = 6 - 1
        /\ \A len \in 0 .. 6 - 1 : len \in 0 .. 5
    OBVIOUS
  <2>3. Covers(<<Ints(3, 2)>>, 0 .. 2 * 3 - 1)
    BY <2>2, IntsCover, OneRound
  <2>4. QED  BY <2>1, <2>2, <2>3, Tail16Covers, Zenon
<1>4. CASE f = "computeU8"
  <2>1. /\ Stride(f) = 12 /\ LoopRounds(f) = <<Ints(3, 4)>>
        /\ \A len : TailRounds(f, len) = Tail8(len)
    BY <1>4 DEF Stride, LoopRounds, TailRounds
  <2>2. 12 \in Nat \ {0} /\ 3 \in 0 .. 3 /\ 4 \in {2, 4} /\ 4 * 3 - 1 = 12 - 1
        /\ \A len \in 0 .. 12 - 1 : len \in 0 .. 11
    OBVIOUS
  <2>3. Covers(<<Ints(3, 4)>>, 0 .. 4 * 3 - 1)
    BY <2>2, IntsCover, OneRound
  <2>4. QED  BY <2>1, <2>2, <2>3, Tail8Covers, Zenon
<1>5. QED  BY <1>1, <1>2, <1>3, <1>4 DEF HashFunctions

(* What has been read up to now is the data up to now. *)
HashInv ==
    /\ function \in HashFunctions
    /\ length \in Nat /\ at \in 0 .. length
    /\ returned \in BOOLEAN
    /\ returned => length - at < Stride(function) /\ Covers(rounds, 0 .. length - 1)
    /\ ~returned => Covers(rounds, 0 .. at - 1)

(* The rounds of a pass are added behind what has been read. *)
LEMMA RoundsAdded ==
    ASSUME NEW rs, NEW a \in Nat, Covers(rs, 0 .. a - 1),
           NEW q, NEW n \in Nat, Covers(q, 0 .. n - 1)
    PROVE  Covers(rs \o Shifted(q, a), 0 .. a + n - 1)
<1> DEFINE U == 0 .. a - 1
           V == {u + a : u \in 0 .. n - 1}
<1>1. U \cap V = {} /\ U \cup V = 0 .. a + n - 1
  <2>1. V = a .. a + n - 1
    <3>1. \A w \in a .. a + n - 1 : w - a \in 0 .. n - 1 /\ (w - a) + a = w
      OBVIOUS
    <3>2. \A u \in 0 .. n - 1 : u + a \in a .. a + n - 1
      OBVIOUS
    <3>3. QED  BY <3>1, <3>2
  <2> HIDE DEF V
  <2>2. QED  BY <2>1
<1>2. a \in Int
  OBVIOUS
<1>3. Covers(Shifted(q, a), V)
  BY <1>2, RoundsShifted
<1> HIDE DEF U, V
<1>4. Covers(rs, U)
  BY DEF U
<1>5. Covers(rs \o Shifted(q, a), U \cup V)
  BY <1>1, <1>3, <1>4, RoundsJoined
<1>6. QED  BY <1>1, <1>5

LEMMA HashInit == InitHash => HashInv
<1> SUFFICES ASSUME InitHash PROVE HashInv
  OBVIOUS
<1>1. function \in HashFunctions /\ length = 0 /\ at = 0 /\ rounds = <<>> /\ returned = TRUE
  BY Zenon DEF InitHash, HashFunctions
<1>2. Stride(function) \in Nat \ {0}
  BY <1>1, PassCovers
<1>3. length \in Nat /\ at \in 0 .. length /\ length - at < Stride(function) /\ 0 .. length - 1 = {}
  BY <1>1, <1>2
<1>4. Covers(rounds, 0 .. length - 1)
  BY <1>1, <1>3, NoRounds, Zenon
<1>5. QED  BY <1>1, <1>3, <1>4, Zenon DEF HashInv

LEMMA HashNext ==
    ASSUME HashInv, [NextHash]_hashVars
    PROVE  HashInv'
<1>1. /\ function \in HashFunctions /\ length \in Nat /\ at \in 0 .. length
      /\ Stride(function) \in Nat \ {0}
  BY PassCovers, Zenon DEF HashInv
<1>2. CASE CallHash
  <2>1. /\ function' \in HashFunctions /\ length' \in 0 .. MaxLength
        /\ at' = 0 /\ rounds' = <<>> /\ returned' = FALSE
    BY <1>2, Zenon DEF CallHash
  <2>2. length' \in Nat /\ at' \in 0 .. length' /\ 0 .. at' - 1 = {}
    BY <2>1, HashComputeAssumption
  <2>3. QED  BY <2>1, <2>2, NoRounds, Zenon DEF HashInv
<1>3. CASE HashLoop
  <2>1. /\ returned' = returned /\ ~returned /\ function' = function /\ length' = length
        /\ length - at >= Stride(function)
        /\ rounds' = rounds \o Shifted(LoopRounds(function), at)
        /\ at' = at + Stride(function)
    BY <1>3, Zenon DEF HashLoop
  <2>2. Covers(rounds, 0 .. at - 1)
    BY <2>1, Zenon DEF HashInv
  <2>3. at \in Nat /\ at' \in 0 .. length
    <3>1. at' = at + Stride(function) /\ length - at >= Stride(function)
      BY <2>1, Zenon
    <3>2. QED  BY <1>1, <3>1
  <2>4. Covers(rounds', 0 .. at' - 1)
    <3>1. Covers(LoopRounds(function), 0 .. Stride(function) - 1)
      BY <1>1, PassCovers, Zenon
    <3>2. Stride(function) \in Nat
      BY <1>1
    <3>3. Covers(rounds \o Shifted(LoopRounds(function), at), 0 .. at + Stride(function) - 1)
      BY <2>2, <2>3, <3>1, <3>2, RoundsAdded, Zenon
    <3>4. /\ rounds' = rounds \o Shifted(LoopRounds(function), at)
          /\ at' = at + Stride(function)
      BY <2>1, Zenon
    <3>5. 0 .. at + Stride(function) - 1 = 0 .. at' - 1
      BY <1>1, <2>3, <3>4
    <3>6. QED  BY <3>3, <3>4, <3>5, Zenon
  <2>5. returned \in BOOLEAN
    BY Zenon DEF HashInv
  <2>6. QED  BY <1>1, <2>1, <2>3, <2>4, <2>5, Zenon DEF HashInv
<1>4. CASE HashTail
  <2>1. /\ returned' = TRUE /\ ~returned /\ function' = function /\ length' = length
        /\ at' = at /\ length - at < Stride(function)
        /\ rounds' = rounds \o Shifted(TailRounds(function, length - at), at)
    BY <1>4, Zenon DEF HashTail
  <2>2. Covers(rounds, 0 .. at - 1)
    BY <2>1, Zenon DEF HashInv
  <2>3. /\ at \in Nat /\ length - at \in Nat /\ length - at \in 0 .. Stride(function) - 1
        /\ at + (length - at) - 1 = length - 1
    <3>1. length - at < Stride(function)
      BY <2>1, Zenon
    <3>2. QED  BY <1>1, <3>1
  <2>4. Covers(TailRounds(function, length - at), 0 .. (length - at) - 1)
    BY <1>1, <2>3, PassCovers, Zenon
  <2>5. Covers(rounds', 0 .. at + (length - at) - 1)
    BY <2>1, <2>2, <2>3, <2>4, RoundsAdded, Zenon
  <2>6. QED  BY <1>1, <2>1, <2>3, <2>5, Zenon DEF HashInv
<1>5. CASE UNCHANGED hashVars
  BY <1>5, Zenon DEF hashVars, HashInv
<1>6. QED  BY <1>2, <1>3, <1>4, <1>5 DEF NextHash

(* For data of any length, and words of 32 or 64 bits, every one of the    *)
(* hash functions reads each unit of its data exactly once and nothing     *)
(* else, gives no register two reads before the next mix, and reads no     *)
(* word beyond the one its data ends in.                                   *)
THEOREM EveryUnitIsMixedOnceHolds == SpecHash => []EveryUnitIsMixedOnce
<1>1. HashInv /\ [NextHash]_hashVars => HashInv'
  BY HashNext
<1>2. HashInv => EveryUnitIsMixedOnce
  <2>1. SUFFICES ASSUME HashInv, returned PROVE EveryUnitIsMixedOnce
    BY Zenon DEF EveryUnitIsMixedOnce
  <2>2. /\ function \in HashFunctions /\ length \in Nat /\ at \in 0 .. length
        /\ length - at < Stride(function) /\ Covers(rounds, 0 .. length - 1)
    BY <2>1, Zenon DEF HashInv
  <2>3. DOMAIN rounds = 1 .. Len(rounds)
    BY <2>2 DEF Covers
  <2>4. ASSUME NEW x
        PROVE  x \in AllReads <=> \E i \in 1 .. Len(rounds) : \E r \in rounds[i] : x = <<i, r>>
    BY <2>3 DEF AllReads
  <2>5. \A x \in AllReads : x[2].units \subseteq 0 .. length - 1
    <3>1. TAKE x \in AllReads
    <3>2. PICK i \in 1 .. Len(rounds) : \E r \in rounds[i] : x = <<i, r>>
      BY <2>4, Zenon
    <3>3. PICK r \in rounds[i] : x = <<i, r>>
      BY <3>2
    <3>4. x[2] = r
      BY <3>3
    <3>5. QED  BY <2>2, <3>4, Zenon DEF Covers
  <2>6. ASSUME NEW x \in AllReads, NEW y \in AllReads
        PROVE  /\ \A u \in x[2].units : u \in y[2].units => x = y
               /\ x[1] = y[1] /\ x[2].register = y[2].register => x = y
    <3>1. PICK i \in 1 .. Len(rounds) : \E r \in rounds[i] : x = <<i, r>>
      BY <2>4, Zenon
    <3>2. PICK r \in rounds[i] : x = <<i, r>>
      BY <3>1
    <3>3. PICK j \in 1 .. Len(rounds) : \E s \in rounds[j] : y = <<j, s>>
      BY <2>4, Zenon
    <3>4. PICK s \in rounds[j] : y = <<j, s>>
      BY <3>3
    <3>5. x[1] = i /\ x[2] = r /\ y[1] = j /\ y[2] = s
      BY <3>2, <3>4
    <3>6. \A u \in r.units : u \in s.units => i = j /\ r = s
      BY <2>2, Zenon DEF Covers
    <3>7. i = j /\ r.register = s.register => r = s
      BY <2>2, Zenon DEF Covers
    <3>8. QED  BY <3>2, <3>4, <3>5, <3>6, <3>7, Zenon
  <2>7. ASSUME NEW u \in 0 .. length - 1
        PROVE  Cardinality({x \in AllReads : u \in x[2].units}) = 1
    <3>1. PICK i \in 1 .. Len(rounds) : \E r \in rounds[i] : u \in r.units
      BY <2>2, Zenon DEF Covers
    <3>2. PICK r \in rounds[i] : u \in r.units
      BY <3>1
    <3> DEFINE z == <<i, r>>
    <3>3. z \in AllReads /\ u \in z[2].units
      <4>1. z[2] = r
        OBVIOUS
      <4>2. z \in AllReads
        BY <2>4, <3>2, Zenon
      <4>3. QED  BY <3>2, <4>1, <4>2, Zenon
    <3> HIDE DEF z
    <3>4. {x \in AllReads : u \in x[2].units} = {z}
      BY <2>6, <3>3, Zenon
    <3>5. QED  BY <3>4, FS_Singleton, Zenon
  <2>8. function = "murmur2_U8" => TailRead(length - at).bytes \in length - at .. WordBytes
    <3>1. SUFFICES ASSUME function = "murmur2_U8"
                   PROVE  TailRead(length - at).bytes \in length - at .. WordBytes
      OBVIOUS
    <3>2. Stride(function) = WordBytes
      BY <3>1 DEF Stride
    <3>3. length - at \in 0 .. WordBytes - 1
      BY <2>2, <3>2, HashComputeAssumption
    <3>4. QED  BY <3>3, TailKept
  <2>9. QED  BY <2>5, <2>6, <2>7, <2>8, Zenon DEF EveryUnitIsMixedOnce
<1>3. QED  BY <1>1, <1>2, HashInit, PTL DEF SpecHash

-----------------------------------------------------------------------------
(* The counters *)

Names == StatNames \cup SubNames
SubStat == [name : Names, counter : Nat]
Stat == [name : Names, counter : Nat, subs : Seq(SubStat)]

(* Whether the index p is what a search for the name n finds *)
Finds(list, n, p) ==
    \/ p = 0 /\ \A j \in 1 .. Len(list) : list[j].name # n
    \/ p \in 1 .. Len(list) /\ list[p].name = n /\ \A j \in 1 .. p - 1 : list[j].name # n

LEMMA Found ==
    ASSUME NEW S, NEW list \in Seq(S), NEW n
    PROVE  Finds(list, n, Position(list, n))
<1> DEFINE I == {i \in 1 .. Len(list) : list[i].name = n}
<1>1. Position(list, n) = IF I = {} THEN 0 ELSE Min(I)
  BY DEF Position, SelectInSeq
<1>2. CASE I = {}
  BY <1>1, <1>2 DEF Finds
<1>3. CASE I # {}
  <2>1. PICK m \in I : \A j \in I : m <= j
    <3>1. I \subseteq Nat
      OBVIOUS
    <3> HIDE DEF I
    <3>2. QED  BY <1>3, <3>1, LeastNat
  <2>2. Min(I) \in I /\ \A j \in I : Min(I) <= j
    BY <2>1 DEF Min
  <2>3. \A j \in 1 .. Min(I) - 1 : j \notin I /\ j \in 1 .. Len(list)
    BY <2>2
  <2>4. Position(list, n) = Min(I)
    BY <1>1, <1>3
  <2>5. QED  BY <2>2, <2>3, <2>4 DEF Finds
<1>4. QED  BY <1>2, <1>3

LEMMA FoundOnce ==
    ASSUME NEW S, NEW list \in Seq(S), NEW n, NEW p, NEW q, Finds(list, n, p), Finds(list, n, q)
    PROVE  p = q
<1>1. CASE p = 0
  BY <1>1 DEF Finds
<1>2. CASE q = 0
  BY <1>2 DEF Finds
<1>3. CASE p # 0 /\ q # 0
  <2>1. /\ p \in 1 .. Len(list) /\ list[p].name = n
        /\ \A j \in 1 .. p - 1 : list[j].name # n
    BY <1>3 DEF Finds
  <2>2. /\ q \in 1 .. Len(list) /\ list[q].name = n
        /\ \A j \in 1 .. q - 1 : list[j].name # n
    BY <1>3 DEF Finds
  <2>3. ~(p < q) /\ ~(q < p)
    BY <2>1, <2>2
  <2>4. QED  BY <2>1, <2>2, <2>3
<1>4. QED  BY <1>1, <1>2, <1>3

(* What a search for n finds in d, where e is in front of the list, and    *)
(* where e is in the place of element ix                                   *)
PushedFinds(list, e, d, n) ==
    /\ e.name = n => Position(d, n) = 1 /\ d[1] = e
    /\ (e.name # n /\ Position(list, n) = 0) => Position(d, n) = 0
    /\ (e.name # n /\ Position(list, n) # 0) =>
         Position(d, n) # 0 /\ d[Position(d, n)] = list[Position(list, n)]

ChangedFinds(list, ix, d, n) ==
    /\ Position(d, n) = Position(list, n)
    /\ Position(list, n) # ix => d[Position(d, n)] = list[Position(list, n)]

(* A new element in front is found by its name; the others stay the same. *)
LEMMA FoundPushed ==
    ASSUME NEW S, NEW list \in Seq(S), NEW e \in S, NEW n, NEW d, d = <<e>> \o list
    PROVE  d \in Seq(S) /\ PushedFinds(list, e, d, n)
<1> DEFINE p == Position(list, n)
<1>1. /\ d \in Seq(S) /\ Len(d) = Len(list) + 1 /\ Len(list) \in Nat
      /\ d[1] = e /\ \A j \in 1 .. Len(list) : d[j + 1] = list[j]
  OBVIOUS
<1>2. \A j \in 2 .. Len(d) : j - 1 \in 1 .. Len(list) /\ d[j] = list[j - 1]
  <2>1. TAKE j \in 2 .. Len(d)
  <2>2. j - 1 \in 1 .. Len(list) /\ (j - 1) + 1 = j
    BY <1>1
  <2>3. QED  BY <1>1, <2>2
<1>3. Finds(list, n, p)
  BY Found
<1> HIDE DEF p
<1>4. ASSUME e.name = n PROVE Position(d, n) = 1
  <2>1. Finds(d, n, 1)
    BY <1>1, <1>4 DEF Finds
  <2>2. QED  BY <1>1, <2>1, Found, FoundOnce
<1>5. ASSUME e.name # n, p = 0 PROVE Position(d, n) = 0
  <2>1. \A j \in 1 .. Len(list) : list[j].name # n
    BY <1>3, <1>5 DEF Finds
  <2>2. ASSUME NEW j \in 1 .. Len(d) PROVE d[j].name # n
    <3>1. CASE j = 1
      BY <1>1, <1>5, <3>1
    <3>2. CASE j # 1
      <4>1. j \in 2 .. Len(d)
        BY <1>1, <3>2
      <4>2. QED  BY <1>2, <2>1, <4>1
    <3>3. QED  BY <3>1, <3>2
  <2>3. Finds(d, n, 0)
    BY <2>2 DEF Finds
  <2>4. QED  BY <1>1, <2>3, Found, FoundOnce
<1>6. ASSUME e.name # n, p # 0 PROVE Position(d, n) # 0 /\ d[Position(d, n)] = list[p]
  <2>1. p \in 1 .. Len(list) /\ list[p].name = n /\ \A j \in 1 .. p - 1 : list[j].name # n
    BY <1>3, <1>6 DEF Finds
  <2>2. ASSUME NEW j \in 1 .. (p + 1) - 1 PROVE d[j].name # n
    <3>1. CASE j = 1
      BY <1>1, <1>6, <3>1
    <3>2. CASE j # 1
      <4>1. j \in 2 .. Len(d) /\ j - 1 \in 1 .. p - 1
        BY <1>1, <2>1, <3>2
      <4>2. QED  BY <1>2, <2>1, <4>1
    <3>3. QED  BY <3>1, <3>2
  <2>3. p + 1 \in 1 .. Len(d) /\ d[p + 1] = list[p] /\ p + 1 # 0
    BY <1>1, <2>1
  <2>4. Finds(d, n, p + 1)
    BY <2>1, <2>2, <2>3 DEF Finds
  <2>5. Position(d, n) = p + 1
    <3>1. Finds(d, n, Position(d, n))
      BY <1>1, Found
    <3> DEFINE q == p + 1
    <3>2. Finds(d, n, q)
      BY <2>4
    <3> HIDE DEF q
    <3>3. Position(d, n) = q
      BY <1>1, <3>1, <3>2, FoundOnce
    <3>4. QED  BY <3>3 DEF q
  <2>6. QED  BY <2>3, <2>5
<1>7. QED  BY <1>1, <1>4, <1>5, <1>6 DEF p, PushedFinds

(* An element that is changed and keeps its name is found where it was. *)
LEMMA FoundChanged ==
    ASSUME NEW S, NEW list \in Seq(S), NEW ix \in 1 .. Len(list), NEW e \in S,
           e.name = list[ix].name, NEW n, NEW d, d = [list EXCEPT ![ix] = e]
    PROVE  /\ d \in Seq(S)
           /\ d[ix] = e
           /\ ChangedFinds(list, ix, d, n)
<1> DEFINE p == Position(list, n)
<1>1. d \in Seq(S) /\ Len(d) = Len(list) /\ DOMAIN list = 1 .. Len(list) /\ Len(list) \in Nat
  OBVIOUS
<1>2. \A j \in 1 .. Len(list) : d[j] = IF j = ix THEN e ELSE list[j]
  OBVIOUS
<1>3. Finds(list, n, p)
  BY Found
<1> HIDE DEF p
<1>4. \A j \in 1 .. Len(list) : d[j].name = list[j].name
  BY <1>2
<1>5. Finds(d, n, p)
  <2>1. CASE p = 0 /\ \A j \in 1 .. Len(list) : list[j].name # n
    BY <1>1, <1>4, <2>1 DEF Finds
  <2>2. CASE p \in 1 .. Len(list) /\ list[p].name = n /\ \A j \in 1 .. p - 1 : list[j].name # n
    <3>1. \A j \in 1 .. p - 1 : j \in 1 .. Len(list)
      BY <1>1, <2>2
    <3>2. QED  BY <1>1, <1>4, <2>2, <3>1 DEF Finds
  <2>3. QED  BY <1>3, <2>1, <2>2 DEF Finds
<1>6. Position(d, n) = p
  BY <1>1, <1>5, Found, FoundOnce
<1>7. p # ix => d[p] = list[p]
  OBVIOUS
<1>8. QED  BY <1>1, <1>2, <1>6, <1>7 DEF p, ChangedFinds

(* What a list of counters shows of a name *)
Shows(list, n) == IF Position(list, n) = 0 THEN 0 ELSE list[Position(list, n)].counter

LEMMA ShowsType ==
    ASSUME NEW list \in Seq(SubStat), NEW n
    PROVE  Shows(list, n) \in Nat
<1>1. Finds(list, n, Position(list, n))
  BY Found
<1>2. Position(list, n) # 0 => list[Position(list, n)] \in SubStat
  BY <1>1 DEF Finds
<1>3. QED  BY <1>2 DEF Shows, SubStat

(* Counting a sub-counter adds one to it and nothing to the others. *)
LEMMA OneMoreShown ==
    ASSUME NEW subs \in Seq(SubStat), NEW s \in Names
    PROVE  /\ SubCounted(subs, s) \in Seq(SubStat)
           /\ Shows(SubCounted(subs, s), s) = Shows(subs, s) + 1
           /\ \A m : m # s => Shows(SubCounted(subs, s), m) = Shows(subs, m)
<1> DEFINE ix == Position(subs, s)
           new == SubCounted(subs, s)
<1>1. Finds(subs, s, ix)
  BY Found
<1>2. CASE ix = 0
  <2> DEFINE e == NewStat(s)
  <2>1. e \in SubStat /\ e.name = s /\ e.counter = 1
    BY DEF NewStat, SubStat
  <2>2. new = <<e>> \o subs
    BY <1>2 DEF SubCounted
  <2> HIDE DEF e, new
  <2>3. new \in Seq(SubStat) /\ \A m : PushedFinds(subs, e, new, m)
    BY <2>1, <2>2, FoundPushed
  <2>4. ASSUME NEW m, m # s PROVE Shows(new, m) = Shows(subs, m)
    <3>1. /\ Position(subs, m) = 0 => Position(new, m) = 0
          /\ Position(subs, m) # 0 =>
               Position(new, m) # 0 /\ new[Position(new, m)] = subs[Position(subs, m)]
      BY <2>1, <2>3, <2>4 DEF PushedFinds
    <3>2. QED  BY <3>1 DEF Shows
  <2>5. Shows(new, s) = Shows(subs, s) + 1
    BY <1>2, <2>1, <2>3 DEF Shows, PushedFinds
  <2>6. QED  BY <2>3, <2>4, <2>5 DEF new
<1>3. CASE ix # 0
  <2> DEFINE e == [subs[ix] EXCEPT !.counter = @ + 1]
  <2>1. ix \in 1 .. Len(subs) /\ subs[ix].name = s /\ subs[ix] \in SubStat
    BY <1>1, <1>3 DEF Finds
  <2>2. e \in SubStat /\ e.name = subs[ix].name /\ e.counter = subs[ix].counter + 1
    BY <2>1 DEF SubStat
  <2>3. new = [subs EXCEPT ![ix] = e]
    BY <1>3 DEF SubCounted
  <2> HIDE DEF e, new, ix
  <2>4. new \in Seq(SubStat) /\ new[ix] = e
    BY <2>1, <2>2, <2>3, FoundChanged
  <2>5. \A m : ChangedFinds(subs, ix, new, m)
    BY <2>1, <2>2, <2>3, FoundChanged
  <2>6. ASSUME NEW m, m # s PROVE Shows(new, m) = Shows(subs, m)
    <3>1. Finds(subs, m, Position(subs, m))
      BY Found
    <3>2. Position(subs, m) # ix
      BY <1>3, <2>1, <2>6, <3>1 DEF Finds
    <3>3. QED  BY <2>5, <3>2 DEF Shows, ChangedFinds
  <2>7. Shows(new, s) = Shows(subs, s) + 1
    <3>1. Position(subs, s) = ix
      BY DEF ix
    <3>2. QED  BY <1>3, <2>2, <2>4, <2>5, <3>1 DEF Shows, ChangedFinds
  <2>8. QED  BY <2>4, <2>6, <2>7 DEF new
<1>4. QED  BY <1>2, <1>3

(* What the calls of a counter and what it shows have to do with each      *)
(* other: nothing is misnamed, or exactly one call of one sub-counter is.  *)
AllNamed(n) == \A s \in SubNames : ShownSub(n, s) = calls[<<n, s>>]

OneMisnamed(n) ==
    \E s0 \in SubNames :
        /\ calls[<<n, s0>>] = ShownSub(n, s0) + 1
        /\ \A s \in SubNames \ {s0} : ShownSub(n, s) = calls[<<n, s>>]

Consistent(n) ==
    /\ Shown(n).subs \in Seq(SubStat)
    /\ Shown(n).counter = calls[<<n, NoSub>>] + ShownSub(n, n)
    /\ \/ ShownSub(n, n) = 0 /\ AllNamed(n)
       \/ ShownSub(n, n) = 1 /\ OneMisnamed(n)

StatsInv ==
    /\ stats \in [Hashes -> Seq(Stat)]
    /\ calls \in [StatNames \X (SubNames \cup {NoSub}) -> Nat]
    /\ \A n \in StatNames : Consistent(n)
    /\ \A n \in StatNames : Position(stats[NameHash[n]], n) = 0 =>
          \A s \in SubNames \cup {NoSub} : calls[<<n, s>>] = 0

LEMMA ShownSubIs ==
    \A n, s : ShownSub(n, s) = Shows(Shown(n).subs, s)
BY DEF ShownSub, Shows

LEMMA NothingFound ==
    \A n : Position(<<>>, n) = 0
<1>1. ASSUME NEW n PROVE Position(<<>>, n) = 0
  <2>1. <<>> \in Seq({}) /\ Len(<<>>) = 0
    OBVIOUS
  <2>2. Finds(<<>>, n, Position(<<>>, n))
    BY <2>1, Found
  <2>3. QED  BY <2>1, <2>2 DEF Finds
<1>2. QED  BY <1>1

LEMMA EntryType ==
    ASSUME NEW n \in StatNames, NEW s \in SubNames \cup {NoSub}
    PROVE  /\ NewEntry(n, s) \in Stat /\ NewEntry(n, s).name = n
           /\ \A e \in Stat : Counted(e, s) \in Stat /\ Counted(e, s).name = e.name
<1>1. NewStat(n) \in SubStat
  BY DEF NewStat, SubStat, Names
<1>2. <<>> \in Seq(SubStat) /\ <<NewStat(n)>> \in Seq(SubStat)
  BY <1>1
<1>3. NewEntry(n, s) \in Stat /\ NewEntry(n, s).name = n
  BY <1>2 DEF NewEntry, Stat, Names
<1>4. ASSUME NEW e \in Stat PROVE Counted(e, s) \in Stat /\ Counted(e, s).name = e.name
  <2>1. s # NoSub => SubCounted(e.subs, s) \in Seq(SubStat)
    BY OneMoreShown DEF Stat, Names
  <2> DEFINE subs == SubCounted(e.subs, s)
  <2>2. Counted(e, s) = IF s = NoSub THEN [e EXCEPT !.counter = e.counter + 1]
                                     ELSE [e EXCEPT !.subs = subs]
    BY DEF Counted
  <2> HIDE DEF subs
  <2>3. s # NoSub => subs \in Seq(SubStat)
    BY <2>1 DEF subs
  <2>4. QED  BY <2>2, <2>3 DEF Stat
<1>5. QED  BY <1>3, <1>4

(* The chain of a hash value after a call *)
NewChain(list, n, s) ==
    IF Position(list, n) = 0
    THEN <<NewEntry(n, s)>> \o list
    ELSE [list EXCEPT ![Position(list, n)] = Counted(list[Position(list, n)], s)]

EntryKept(list, new, m) ==
    /\ Position(new, m) = 0 <=> Position(list, m) = 0
    /\ Position(list, m) # 0 => new[Position(new, m)] = list[Position(list, m)]

LEMMA ChainCounted ==
    ASSUME NEW n \in StatNames, NEW s \in SubNames \cup {NoSub}, NEW list \in Seq(Stat),
           NEW new, new = NewChain(list, n, s)
    PROVE  /\ new \in Seq(Stat)
           /\ Position(new, n) # 0
           /\ new[Position(new, n)] = IF Position(list, n) = 0 THEN NewEntry(n, s)
                                      ELSE Counted(list[Position(list, n)], s)
           /\ \A m : m # n => EntryKept(list, new, m)
<1> DEFINE ix == Position(list, n)
<1>1. Finds(list, n, ix)
  BY Found
<1>2. CASE ix = 0
  <2> DEFINE e == NewEntry(n, s)
  <2>1. e \in Stat /\ e.name = n
    BY EntryType
  <2>2. new = <<e>> \o list
    BY <1>2 DEF NewChain
  <2> HIDE DEF e, ix
  <2>3. new \in Seq(Stat) /\ \A m : PushedFinds(list, e, new, m)
    BY <2>1, <2>2, FoundPushed
  <2>4. ASSUME NEW m, m # n PROVE EntryKept(list, new, m)
    BY <2>1, <2>3, <2>4 DEF PushedFinds, EntryKept
  <2>5. Position(new, n) = 1 /\ new[1] = e
    BY <2>1, <2>3 DEF PushedFinds
  <2>6. QED  BY <1>2, <2>3, <2>4, <2>5 DEF e, ix
<1>3. CASE ix # 0
  <2> DEFINE e == Counted(list[ix], s)
  <2>1. ix \in 1 .. Len(list) /\ list[ix].name = n /\ list[ix] \in Stat
    BY <1>1, <1>3 DEF Finds
  <2>2. e \in Stat /\ e.name = list[ix].name
    BY <2>1, EntryType
  <2>3. new = [list EXCEPT ![ix] = e]
    BY <1>3 DEF NewChain
  <2>4. Position(list, n) = ix
    OBVIOUS
  <2> HIDE DEF e, ix
  <2>5. new \in Seq(Stat) /\ new[ix] = e /\ \A m : ChangedFinds(list, ix, new, m)
    <3>1. ix \in 1 .. Len(list) /\ e \in Stat /\ e.name = list[ix].name
      BY <2>1, <2>2
    <3>2. new \in Seq(Stat) /\ new[ix] = e
      BY <2>3, <3>1
    <3>3. \A m : ChangedFinds(list, ix, new, m)
      BY <2>3, <3>1, FoundChanged
    <3>4. QED  BY <3>2, <3>3
  <2>6. ASSUME NEW m, m # n PROVE EntryKept(list, new, m)
    <3>1. Finds(list, m, Position(list, m))
      BY Found
    <3>2. Position(list, m) # ix
      BY <1>3, <2>1, <2>6, <3>1 DEF Finds
    <3>3. QED  BY <2>5, <3>2 DEF ChangedFinds, EntryKept
  <2>7. Position(new, n) = ix
    BY <2>4, <2>5 DEF ChangedFinds
  <2>8. QED  BY <1>3, <2>4, <2>5, <2>6, <2>7 DEF e
<1>4. QED  BY <1>2, <1>3

LEMMA StatsInit == InitStats => StatsInv
<1> SUFFICES ASSUME InitStats PROVE StatsInv
  OBVIOUS
<1>1. stats = [h \in Hashes |-> <<>>] /\ calls = [c \in StatNames \X (SubNames \cup {NoSub}) |-> 0]
  BY DEF InitStats
<1>2. stats \in [Hashes -> Seq(Stat)] /\ calls \in [StatNames \X (SubNames \cup {NoSub}) -> Nat]
  <2>1. <<>> \in Seq(Stat)
    OBVIOUS
  <2>2. QED  BY <1>1, <2>1
<1>3. \A n \in StatNames : \A s \in SubNames \cup {NoSub} : calls[<<n, s>>] = 0
  BY <1>1
<1>4. ASSUME NEW n \in StatNames PROVE Consistent(n)
  <2>1. stats[NameHash[n]] = <<>>
    BY <1>1 DEF Hashes
  <2>2. Shown(n) = [counter |-> 0, subs |-> <<>>]
    BY <2>1, NothingFound DEF Shown
  <2>3. \A s : ShownSub(n, s) = 0
    BY <2>2, NothingFound DEF ShownSub
  <2>4. <<>> \in Seq(SubStat)
    OBVIOUS
  <2>5. Shown(n).counter = 0 /\ Shown(n).subs = <<>>
    BY <2>2
  <2>6. AllNamed(n)
    BY <1>3, <2>3 DEF AllNamed
  <2>7. QED  BY <1>3, <2>3, <2>4, <2>5, <2>6 DEF Consistent
<1>5. QED  BY <1>2, <1>3, <1>4 DEF StatsInv

(* What a counter shows depends on its entry only. *)
LEMMA OthersConsistent ==
    ASSUME StatsInv, NEW n \in StatNames, NEW s \in SubNames \cup {NoSub}, Count(n, s),
           NEW m \in StatNames, m # n
    PROVE  /\ Consistent(m)'
           /\ Position(stats[NameHash[m]], m)' = 0 =>
                \A t \in SubNames \cup {NoSub} : calls'[<<m, t>>] = 0
<1> DEFINE h == NameHash[n]
           g == NameHash[m]
<1>1. h \in Hashes /\ g \in Hashes
  BY DEF Hashes
<1>2. stats \in [Hashes -> Seq(Stat)]
  BY DEF StatsInv
<1>3. stats' = [stats EXCEPT ![h] = NewChain(stats[h], n, s)]
  BY DEF Count, NewChain
<1>4. \A t \in SubNames \cup {NoSub} : calls'[<<m, t>>] = calls[<<m, t>>]
  BY DEF Count, StatsInv
<1>5. EntryKept(stats[g], stats'[g], m)
  <2>1. CASE g = h
    <3>1. stats'[h] = NewChain(stats[h], n, s) /\ stats[h] \in Seq(Stat)
      BY <1>1, <1>2, <1>3
    <3>2. EntryKept(stats[h], stats'[h], m)
      BY <3>1, ChainCounted
    <3>3. QED  BY <2>1, <3>2
  <2>2. CASE g # h
    <3>1. stats'[g] = stats[g]
      BY <1>1, <1>2, <1>3, <2>2
    <3>2. QED  BY <3>1 DEF EntryKept
  <2>3. QED  BY <2>1, <2>2
<1>6. Shown(m)' = Shown(m)
  BY <1>5 DEF Shown, EntryKept
<1>7. \A t : ShownSub(m, t)' = ShownSub(m, t)
  BY <1>6 DEF ShownSub
<1>8. Consistent(m)
  BY DEF StatsInv
<1>9. Consistent(m)'
  BY <1>4, <1>6, <1>7, <1>8 DEF Consistent, AllNamed, OneMisnamed
<1>10. QED  BY <1>4, <1>5, <1>9 DEF EntryKept, StatsInv

LEMMA OwnConsistent ==
    ASSUME StatNames \cap SubNames = {}, StatsInv,
           NEW n \in StatNames, NEW s \in SubNames \cup {NoSub}, Count(n, s)
    PROVE  /\ Consistent(n)'
           /\ Position(stats[NameHash[n]], n)' # 0
<1> DEFINE h == NameHash[n]
           list == stats[h]
           ix == Position(list, n)
<1>1. h \in Hashes /\ list \in Seq(Stat)
  BY DEF StatsInv, Hashes
<1>2. stats'[h] = NewChain(list, n, s)
  BY <1>1 DEF Count, NewChain, StatsInv
<1>3. /\ Position(stats'[h], n) # 0
      /\ stats'[h][Position(stats'[h], n)] = IF ix = 0 THEN NewEntry(n, s) ELSE Counted(list[ix], s)
  <2> HIDE DEF h, list
  <2>1. QED  BY <1>1, <1>2, ChainCounted
<1>4. LET e == IF ix = 0 THEN NewEntry(n, s) ELSE Counted(list[ix], s)
      IN  Shown(n)' = [counter |-> e.counter, subs |-> e.subs]
  BY <1>3 DEF Shown
<1>5. Shown(n) = IF ix = 0 THEN [counter |-> 0, subs |-> <<>>]
                           ELSE [counter |-> list[ix].counter, subs |-> list[ix].subs]
  BY DEF Shown
<1>6. /\ calls' = [calls EXCEPT ![<<n, s>>] = @ + 1]
      /\ calls \in [StatNames \X (SubNames \cup {NoSub}) -> Nat]
  BY DEF Count, StatsInv
<1>7. /\ calls'[<<n, s>>] = calls[<<n, s>>] + 1
      /\ \A t \in SubNames \cup {NoSub} : t # s => calls'[<<n, t>>] = calls[<<n, t>>]
      /\ \A t \in SubNames \cup {NoSub} : calls[<<n, t>>] \in Nat
  BY <1>6
<1>8. NoSub \notin SubNames /\ n \notin SubNames
  BY StatsAssumption
<1>9. Consistent(n) /\ Shown(n).subs \in Seq(SubStat)
  BY DEF StatsInv, Consistent
<1>10. CASE ix = 0
  <2>1. \A t \in SubNames \cup {NoSub} : calls[<<n, t>>] = 0
    BY <1>10 DEF StatsInv
  <2>2. Shown(n)' = [counter |-> 1, subs |-> IF s = NoSub THEN <<>> ELSE <<NewStat(n)>>]
    BY <1>4, <1>10 DEF NewEntry
  <2>3. CASE s = NoSub
    <3>1. Shown(n)'.counter = 1 /\ Shown(n)'.subs = <<>>
      BY <2>2, <2>3
    <3>2. \A t : ShownSub(n, t)' = 0
      BY <3>1, NothingFound DEF ShownSub
    <3>3. AllNamed(n)'
      BY <1>7, <1>8, <2>1, <2>3, <3>2 DEF AllNamed
    <3>4. <<>> \in Seq(SubStat)
      OBVIOUS
    <3>5. calls'[<<n, NoSub>>] = 1
      BY <1>7, <2>1, <2>3
    <3>6. QED  BY <1>3, <3>1, <3>2, <3>3, <3>4, <3>5 DEF Consistent
  <2>4. CASE s # NoSub
    <3> DEFINE one == <<NewStat(n)>>
    <3>1. Shown(n)'.counter = 1 /\ Shown(n)'.subs = one
      BY <2>2, <2>4
    <3>2. one \in Seq(SubStat) /\ Len(one) = 1 /\ one[1].name = n /\ one[1].counter = 1
      BY DEF NewStat, SubStat, Names
    <3> HIDE DEF one
    <3>3. Position(one, n) = 1
      <4>1. Finds(one, n, 1)
        BY <3>2 DEF Finds
      <4>2. QED  BY <3>2, <4>1, Found, FoundOnce
    <3>4. \A t \in SubNames : Position(one, t) = 0
      <4>1. TAKE t \in SubNames
      <4>2. \A j \in 1 .. Len(one) : one[j].name # t
        BY <1>8, <3>2
      <4>3. Finds(one, t, 0)
        BY <4>2 DEF Finds
      <4>4. QED  BY <3>2, <4>3, Found, FoundOnce
    <3>5. ShownSub(n, n)' = 1 /\ \A t \in SubNames : ShownSub(n, t)' = 0
      BY <3>1, <3>2, <3>3, <3>4 DEF ShownSub
    <3>6. s \in SubNames /\ calls'[<<n, s>>] = 1 /\ calls'[<<n, NoSub>>] = 0
          /\ \A t \in SubNames \ {s} : calls'[<<n, t>>] = 0
      BY <1>7, <1>8, <2>1, <2>4
    <3>7. OneMisnamed(n)'
      BY <3>5, <3>6 DEF OneMisnamed
    <3>8. QED  BY <1>3, <3>1, <3>2, <3>5, <3>6, <3>7 DEF Consistent
  <2>5. QED  BY <2>3, <2>4
<1>11. CASE ix # 0
  <2> DEFINE e == list[ix]
  <2>1. e \in Stat /\ Shown(n).counter = e.counter /\ Shown(n).subs = e.subs
    <3>1. Finds(list, n, ix)
      BY <1>1, Found
    <3>2. ix \in 1 .. Len(list)
      BY <1>11, <3>1 DEF Finds
    <3>3. QED  BY <1>1, <1>5, <1>11, <3>2
  <2>2. Shown(n)'.counter = Counted(e, s).counter /\ Shown(n)'.subs = Counted(e, s).subs
    BY <1>4, <1>11
  <2> HIDE DEF e
  <2>3. CASE s = NoSub
    <3>1. Shown(n)'.counter = Shown(n).counter + 1 /\ Shown(n)'.subs = Shown(n).subs
      BY <2>1, <2>2, <2>3 DEF Counted, Stat
    <3>2. \A t : ShownSub(n, t)' = ShownSub(n, t)
      BY <3>1 DEF ShownSub
    <3>3. \A t \in SubNames : calls'[<<n, t>>] = calls[<<n, t>>]
      BY <1>7, <1>8, <2>3
    <3>4. Shown(n)'.counter = calls'[<<n, NoSub>>] + ShownSub(n, n)'
      <4>1. ShownSub(n, n) \in Nat
        BY <1>9, ShownSubIs, ShowsType
      <4>2. calls'[<<n, NoSub>>] = calls[<<n, NoSub>>] + 1 /\ calls[<<n, NoSub>>] \in Nat
        BY <1>7, <2>3
      <4>3. Shown(n).counter = calls[<<n, NoSub>>] + ShownSub(n, n)
        BY <1>9 DEF Consistent
      <4>4. QED  BY <3>1, <3>2, <4>1, <4>2, <4>3
    <3>5. (AllNamed(n) => AllNamed(n)') /\ (OneMisnamed(n) => OneMisnamed(n)')
      BY <3>2, <3>3 DEF AllNamed, OneMisnamed
    <3>6. QED  BY <1>3, <1>9, <3>1, <3>2, <3>4, <3>5 DEF Consistent
  <2>4. CASE s # NoSub
    <3>1. s \in SubNames /\ s \in Names /\ s # n
      BY <1>8, <2>4 DEF Names
    <3>2. Shown(n)'.counter = Shown(n).counter /\ Shown(n)'.subs = SubCounted(Shown(n).subs, s)
      BY <2>1, <2>2, <2>4 DEF Counted, Stat
    <3>3. /\ Shown(n)'.subs \in Seq(SubStat)
          /\ ShownSub(n, s)' = ShownSub(n, s) + 1
          /\ \A t : t # s => ShownSub(n, t)' = ShownSub(n, t)
      <4>1. /\ SubCounted(Shown(n).subs, s) \in Seq(SubStat)
            /\ Shows(SubCounted(Shown(n).subs, s), s) = Shows(Shown(n).subs, s) + 1
            /\ \A t : t # s => Shows(SubCounted(Shown(n).subs, s), t) = Shows(Shown(n).subs, t)
        BY <1>9, <3>1, OneMoreShown
      <4>2. \A t : ShownSub(n, t)' = Shows(SubCounted(Shown(n).subs, s), t)
        BY <3>2 DEF ShownSub, Shows
      <4>3. QED  BY <3>2, <4>1, <4>2, ShownSubIs
    <3>4. ShownSub(n, n)' = ShownSub(n, n) /\ calls'[<<n, NoSub>>] = calls[<<n, NoSub>>]
      BY <1>7, <2>4, <3>1, <3>3
    <3>5. AllNamed(n) => AllNamed(n)'
      BY <1>7, <3>1, <3>3 DEF AllNamed
    <3>6. OneMisnamed(n) => OneMisnamed(n)'
      <4>1. SUFFICES ASSUME OneMisnamed(n) PROVE OneMisnamed(n)'
        OBVIOUS
      <4>2. PICK s0 \in SubNames : /\ calls[<<n, s0>>] = ShownSub(n, s0) + 1
                                   /\ \A t \in SubNames \ {s0} : ShownSub(n, t) = calls[<<n, t>>]
        BY <4>1 DEF OneMisnamed
      <4>3. \A t \in SubNames : \/ t = s /\ ShownSub(n, t)' = ShownSub(n, t) + 1
                                         /\ calls'[<<n, t>>] = calls[<<n, t>>] + 1
                                \/ t # s /\ ShownSub(n, t)' = ShownSub(n, t)
                                         /\ calls'[<<n, t>>] = calls[<<n, t>>]
        BY <1>7, <3>3
      <4>4. calls'[<<n, s0>>] = ShownSub(n, s0)' + 1
        BY <4>2, <4>3
      <4>5. \A t \in SubNames \ {s0} : ShownSub(n, t)' = calls'[<<n, t>>]
        BY <4>2, <4>3
      <4>6. QED  BY <4>4, <4>5 DEF OneMisnamed
    <3>7. QED  BY <1>3, <1>9, <3>2, <3>3, <3>4, <3>5, <3>6 DEF Consistent
  <2>5. QED  BY <2>3, <2>4
<1>12. QED  BY <1>10, <1>11

LEMMA StatsNext ==
    ASSUME StatNames \cap SubNames = {}, StatsInv, [NextStats]_statsVars
    PROVE  StatsInv'
<1>1. CASE UNCHANGED statsVars
  <2>1. stats' = stats /\ calls' = calls
    BY <1>1 DEF statsVars
  <2>2. \A n : Shown(n)' = Shown(n)
    BY <2>1 DEF Shown
  <2>3. \A n, s : ShownSub(n, s)' = ShownSub(n, s)
    BY <2>2 DEF ShownSub
  <2>4. ASSUME NEW n \in StatNames PROVE Consistent(n)'
    <3>1. Consistent(n)
      BY DEF StatsInv
    <3>2. QED  BY <2>1, <2>2, <2>3, <3>1 DEF Consistent, AllNamed, OneMisnamed
  <2>5. QED  BY <2>1, <2>4 DEF StatsInv
<1>2. ASSUME NEW n \in StatNames, NEW s \in SubNames \cup {NoSub}, Count(n, s)
      PROVE  StatsInv'
  <2> DEFINE h == NameHash[n]
  <2>1. stats' \in [Hashes -> Seq(Stat)]
    <3>1. stats' = [stats EXCEPT ![h] = NewChain(stats[h], n, s)] /\ stats[h] \in Seq(Stat)
          /\ stats \in [Hashes -> Seq(Stat)]
      BY <1>2 DEF Count, NewChain, StatsInv, Hashes
    <3> HIDE DEF h
    <3>2. NewChain(stats[h], n, s) \in Seq(Stat)
      BY <3>1, ChainCounted
    <3>3. QED  BY <3>1, <3>2
  <2>2. calls' \in [StatNames \X (SubNames \cup {NoSub}) -> Nat]
    BY <1>2 DEF Count, StatsInv
  <2>3. \A m \in StatNames : Consistent(m)'
    BY <1>2, OthersConsistent, OwnConsistent
  <2>4. ASSUME NEW m \in StatNames, Position(stats[NameHash[m]], m)' = 0,
               NEW t \in SubNames \cup {NoSub}
        PROVE  calls'[<<m, t>>] = 0
    <3>1. m # n
      BY <1>2, <2>4, OwnConsistent
    <3>2. QED  BY <1>2, <2>4, <3>1, OthersConsistent
  <2>5. QED  BY <2>1, <2>2, <2>3, <2>4 DEF StatsInv
<1>3. QED  BY <1>1, <1>2 DEF NextStats

(* The sums that the property compares *)
CallsOf(n) == [s \in SubNames |-> calls[<<n, s>>]]
ShownOf(n) == [s \in SubNames |-> ShownSub(n, s)]
SubCalls(n) == MapThenSumSet(LAMBDA s : calls[<<n, s>>], SubNames)
SubShown(n) == MapThenSumSet(LAMBDA s : ShownSub(n, s), SubNames)

LEMMA SumsAreFolds ==
    ASSUME NEW n
    PROVE  SubCalls(n) = FoldOf(SubNames, CallsOf(n)) /\ SubShown(n) = FoldOf(SubNames, ShownOf(n))
<1> DEFINE one(s) == CHOOSE x \in s : TRUE
           Folded(f, g) == [s \in SUBSET SubNames |-> IF s = {} THEN 0 ELSE f[one(s)] + g[s \ {one(s)}]]
           Summed(g) == [s \in SUBSET SubNames |-> IF s = {} THEN 0
                                                   ELSE calls[<<n, one(s)>>] + g[s \ {one(s)}]]
           Showed(g) == [s \in SUBSET SubNames |-> IF s = {} THEN 0
                                                   ELSE ShownSub(n, one(s)) + g[s \ {one(s)}]]
<1>1. SubCalls(n) = (CHOOSE g : g = Summed(g))[SubNames]
  BY Zenon DEF SubCalls, MapThenSumSet, MapThenFoldSet
<1>2. SubShown(n) = (CHOOSE g : g = Showed(g))[SubNames]
  BY Zenon DEF SubShown, MapThenSumSet, MapThenFoldSet
<1>3. \A f : FoldOf(SubNames, f) = (CHOOSE g : g = Folded(f, g))[SubNames]
  BY Zenon DEF FoldOf
<1>4. \A g : Summed(g) = Folded(CallsOf(n), g) /\ Showed(g) = Folded(ShownOf(n), g)
  <2>1. \A s \in SUBSET SubNames : s # {} => /\ CallsOf(n)[one(s)] = calls[<<n, one(s)>>]
                                             /\ ShownOf(n)[one(s)] = ShownSub(n, one(s))
    BY DEF CallsOf, ShownOf
  <2> HIDE DEF one
  <2>2. QED  BY <2>1
<1> HIDE DEF Summed, Showed, Folded
<1>5. /\ (CHOOSE g : g = Summed(g)) = (CHOOSE g : g = Folded(CallsOf(n), g))
      /\ (CHOOSE g : g = Showed(g)) = (CHOOSE g : g = Folded(ShownOf(n), g))
  BY <1>4, Zenon
<1>6. QED  BY <1>1, <1>2, <1>3, <1>5, Zenon

LEMMA CountsOfState ==
    ASSUME IsFiniteSet(SubNames), StatNames \cap SubNames = {}, StatsInv, NEW n \in StatNames
    PROVE  /\ Shown(n).counter = calls[<<n, NoSub>>] + ShownSub(n, n)
           /\ SubShown(n) = SubCalls(n) - ShownSub(n, n)
           /\ \A s \in SubNames : /\ calls[<<n, s>>] - ShownSub(n, n) <= ShownSub(n, s)
                                  /\ ShownSub(n, s) <= calls[<<n, s>>]
           /\ ShownSub(n, n) \in {0, 1}
<1> DEFINE f == CallsOf(n)
           g == ShownOf(n)
<1>1. Consistent(n)
  BY DEF StatsInv
<1>2. \A s \in SubNames : calls[<<n, s>>] \in Nat /\ ShownSub(n, s) \in Nat
  BY <1>1, ShownSubIs, ShowsType DEF StatsInv, Consistent
<1>3. f \in [SubNames -> Nat] /\ g \in [SubNames -> Nat]
  BY <1>2 DEF CallsOf, ShownOf
<1>4. \A s \in SubNames : f[s] = calls[<<n, s>>] /\ g[s] = ShownSub(n, s)
  BY DEF CallsOf, ShownOf
<1> HIDE DEF f, g
<1>5. SumOf(f) \in Nat /\ SumOf(g) \in Nat
  BY <1>3, UnitsFinite
<1>6. SubCalls(n) = SumOf(f) /\ SubShown(n) = SumOf(g)
  <2>1. FoldOf(SubNames, f) = SumOf(f) /\ FoldOf(SubNames, g) = SumOf(g)
    BY <1>3, FoldIsSum
  <2>2. QED  BY <2>1, SumsAreFolds DEF f, g
<1>7. CASE ShownSub(n, n) = 0 /\ AllNamed(n)
  <2>1. \A s \in SubNames : f[s] = g[s]
    BY <1>4, <1>7 DEF AllNamed
  <2>2. f = g
    BY <1>3, <2>1
  <2>3. SubShown(n) = SubCalls(n) - ShownSub(n, n)
    BY <1>5, <1>6, <1>7, <2>2
  <2>4. \A s \in SubNames : /\ calls[<<n, s>>] - ShownSub(n, n) <= ShownSub(n, s)
                            /\ ShownSub(n, s) <= calls[<<n, s>>]
    BY <1>2, <1>7 DEF AllNamed
  <2>5. QED  BY <1>1, <1>7, <2>3, <2>4 DEF Consistent
<1>8. CASE ShownSub(n, n) = 1 /\ OneMisnamed(n)
  <2>1. PICK s0 \in SubNames : /\ calls[<<n, s0>>] = ShownSub(n, s0) + 1
                               /\ \A s \in SubNames \ {s0} : ShownSub(n, s) = calls[<<n, s>>]
    BY <1>8 DEF OneMisnamed
  <2>2. f[s0] = g[s0] + 1 /\ g[s0] \in Nat
    BY <1>2, <1>4, <2>1
  <2>3. \A x \in SubNames \ {s0} : g[x] = f[x]
    BY <1>4, <2>1
  <2>4. SumOf(g) + f[s0] = SumOf(f) + g[s0]
    <3>1. OneChanges(SubNames, f, g, s0)
      BY <1>3, <2>3 DEF OneChanges
    <3>2. QED  BY <3>1, SumChanged
  <2>5. SumOf(g) = SumOf(f) - 1
    BY <1>5, <2>2, <2>4
  <2>6. SubShown(n) = SubCalls(n) - ShownSub(n, n)
    BY <1>6, <1>8, <2>5
  <2>7. \A s \in SubNames : /\ calls[<<n, s>>] - ShownSub(n, n) <= ShownSub(n, s)
                            /\ ShownSub(n, s) <= calls[<<n, s>>]
    BY <1>2, <1>8, <2>1
  <2>8. QED  BY <1>1, <1>8, <2>6, <2>7 DEF Consistent
<1>9. QED  BY <1>1, <1>7, <1>8 DEF Consistent

(* Every call of count() is shown exactly once, whatever names share a     *)
(* hash value and however the calls are ordered, but that the first call   *)
(* of a counter, when it is one of a sub-counter, is shown for the counter *)
(* under its own name.  Counters are named differently from sub-counters.  *)
THEOREM CallsAreCountedHolds ==
    ASSUME IsFiniteSet(SubNames), StatNames \cap SubNames = {}
    PROVE  SpecStats => []CallsAreCounted
<1>1. InitStats => StatsInv
  BY StatsInit
<1>2. StatsInv /\ [NextStats]_statsVars => StatsInv'
  BY StatsNext
<1>3. StatsInv => CallsAreCounted
  <2>1. SUFFICES ASSUME StatsInv PROVE CallsAreCounted
    OBVIOUS
  <2>2. \A n \in StatNames :
           /\ Shown(n).counter = calls[<<n, NoSub>>] + ShownSub(n, n)
           /\ SubShown(n) = SubCalls(n) - ShownSub(n, n)
           /\ \A s \in SubNames : /\ calls[<<n, s>>] - ShownSub(n, n) <= ShownSub(n, s)
                                  /\ ShownSub(n, s) <= calls[<<n, s>>]
           /\ ShownSub(n, n) \in {0, 1}
    BY <2>1, CountsOfState
  <2>3. QED
    BY <2>2, Zenon DEF CallsAreCounted, SubShown, SubCalls, MapThenSumSet, MapThenFoldSet
<1>4. QED  BY <1>1, <1>2, <1>3, PTL DEF SpecStats

-----------------------------------------------------------------------------
(* Bit strings *)

(* The first k elements of s in the order R, a set of pairs *)
Before(s, R, i) == {j \in s : <<j, i>> \in R}
FirstOf(s, R, k) == {i \in s : Cardinality(Before(s, R, i)) < k}

IsOrder(s, R) ==
    /\ \A i \in s : <<i, i>> \notin R
    /\ \A i, j \in s : i # j => <<i, j>> \in R \/ <<j, i>> \in R
    /\ \A i, j, l \in s : <<i, j>> \in R /\ <<j, l>> \in R => <<i, l>> \in R

LEMMA BeforeFinite ==
    ASSUME NEW s, IsFiniteSet(s), NEW R, NEW i \in s
    PROVE  IsFiniteSet(Before(s, R, i)) /\ Cardinality(Before(s, R, i)) \in Nat
<1>1. Before(s, R, i) \subseteq s
  BY DEF Before
<1>2. QED  BY <1>1, FS_Subset, FS_CardinalityType

(* What comes later has more before it. *)
LEMMA RankGrows ==
    ASSUME NEW s, IsFiniteSet(s), NEW R, IsOrder(s, R), NEW i \in s, NEW j \in s, <<i, j>> \in R
    PROVE  Cardinality(Before(s, R, i)) < Cardinality(Before(s, R, j))
<1> DEFINE A == Before(s, R, i)
           B == Before(s, R, j)
<1>1. A \subseteq B /\ i \in B /\ i \notin A
  BY DEF Before, IsOrder
<1>2. /\ IsFiniteSet(A) /\ IsFiniteSet(B)
      /\ Cardinality(A) \in Nat /\ Cardinality(B) \in Nat
  BY BeforeFinite
<1>3. A # B
  BY <1>1
<1> HIDE DEF A, B
<1>4. Cardinality(A) <= Cardinality(B) /\ (Cardinality(A) = Cardinality(B) => A = B)
  BY <1>1, <1>2, FS_Subset
<1>5. QED  BY <1>2, <1>3, <1>4 DEF A, B

(* There are k of them, or all, if s has fewer. *)
LEMMA FirstCounted ==
    ASSUME NEW s, IsFiniteSet(s), NEW R, IsOrder(s, R), NEW k \in Nat
    PROVE  /\ IsFiniteSet(FirstOf(s, R, k)) /\ FirstOf(s, R, k) \subseteq s
           /\ Cardinality(s) \in Nat
           /\ Cardinality(FirstOf(s, R, k)) = IF Cardinality(s) <= k THEN Cardinality(s) ELSE k
<1> DEFINE F(m) == FirstOf(s, R, m)
           n == Cardinality(s)
           rank(i) == Cardinality(Before(s, R, i))
           Good == {m \in 0 .. k : Cardinality(F(m)) = IF n <= m THEN n ELSE m}
<1>1. n \in Nat
  BY FS_CardinalityType
<1>2. \A m : F(m) \subseteq s /\ IsFiniteSet(F(m))
  <2>1. \A m : F(m) \subseteq s
    BY DEF FirstOf
  <2>2. QED  BY <2>1, FS_Subset
<1>3. \A i \in s : rank(i) \in Nat
  BY BeforeFinite
<1>4. 0 \in Good
  <2>1. F(0) = {}
    BY <1>3 DEF FirstOf
  <2>2. Cardinality(F(0)) = 0
    BY <2>1, FS_EmptySet
  <2>3. QED  BY <1>1, <2>2
<1>5. ASSUME NEW m \in 1 .. k, m - 1 \in Good PROVE m \in Good
  <2>1. Cardinality(F(m - 1)) = IF n <= m - 1 THEN n ELSE m - 1
    BY <1>5
  <2>2. CASE F(m - 1) = s
    <3>1. F(m) = s
      <4>1. \A i \in s : rank(i) < m - 1
        BY <2>2 DEF FirstOf
      <4>2. \A i \in s : rank(i) < m
        BY <1>3, <4>1
      <4>3. QED  BY <4>2 DEF FirstOf
    <3> HIDE DEF F
    <3>2. n <= m - 1
      BY <1>1, <2>1, <2>2
    <3>3. QED  BY <1>1, <3>1, <3>2
  <2>3. CASE F(m - 1) # s
    <3> DEFINE T == s \ F(m - 1)
               ranks == {rank(i) : i \in T}
    <3>1. ranks \subseteq Nat /\ ranks # {}
      BY <1>2, <1>3, <2>3
    <3>2. PICK r \in ranks : \A q \in ranks : r <= q
      BY <3>1, LeastNat
    <3>3. PICK x \in T : r = rank(x)
      BY <3>2
    <3>4. \A i \in T : rank(x) <= rank(i)
      BY <3>2, <3>3
    <3>5. x \in s /\ rank(x) \in Nat /\ ~(rank(x) < m - 1)
      BY <1>3, <3>3 DEF FirstOf
    <3>6. \A i \in s : <<i, x>> \in R => rank(i) < rank(x)
      BY <3>5, RankGrows
    <3>7. \A i \in s : <<x, i>> \in R => rank(x) < rank(i)
      BY <3>5, RankGrows
    <3>8. Before(s, R, x) = F(m - 1)
      <4>1. ASSUME NEW i \in s, <<i, x>> \in R PROVE i \in F(m - 1)
        <5>1. rank(i) < rank(x) /\ rank(i) \in Nat
          BY <1>3, <3>6, <4>1
        <5>2. i \notin T
          BY <3>4, <3>5, <5>1
        <5>3. QED  BY <5>2
      <4>2. ASSUME NEW i \in F(m - 1) PROVE i \in s /\ <<i, x>> \in R
        <5>1. i \in s /\ rank(i) < m - 1 /\ rank(i) \in Nat
          BY <1>3 DEF FirstOf
        <5>2. i # x /\ ~(<<x, i>> \in R)
          BY <3>5, <3>7, <5>1
        <5>3. QED  BY <3>5, <5>1, <5>2 DEF IsOrder
      <4>3. QED  BY <4>1, <4>2 DEF Before
    <3>9. rank(x) = Cardinality(F(m - 1))
      BY <3>8
    <3>10. rank(x) = m - 1
      BY <1>1, <2>1, <3>5, <3>9
    <3>11. F(m) = F(m - 1) \cup {x}
      <4>1. \A i \in F(m - 1) : i \in F(m)
        <5>1. \A i \in s : rank(i) < m - 1 => rank(i) < m
          BY <1>3
        <5>2. QED  BY <5>1 DEF FirstOf
      <4>2. x \in F(m)
        BY <3>5, <3>10 DEF FirstOf
      <4>3. ASSUME NEW i \in F(m), i \notin F(m - 1), i # x PROVE FALSE
        <5>1. i \in s /\ rank(i) < m /\ rank(i) \in Nat /\ i \in T
          BY <1>3, <4>3 DEF FirstOf
        <5>2. ~(<<i, x>> \in R)
          BY <3>8, <4>3, <5>1 DEF Before
        <5>3. <<x, i>> \in R
          BY <3>5, <4>3, <5>1, <5>2 DEF IsOrder
        <5>4. rank(x) < rank(i)
          BY <3>7, <5>1, <5>3
        <5>5. QED  BY <3>10, <5>1, <5>4
      <4>4. QED  BY <4>1, <4>2, <4>3
    <3>12. x \notin F(m - 1)
      BY <3>3
    <3> HIDE DEF F, T, ranks
    <3>13. Cardinality(F(m)) = Cardinality(F(m - 1)) + 1
      BY <1>2, <3>11, <3>12, FS_AddElement
    <3>14. Cardinality(F(m)) <= n
      BY <1>2, FS_Subset
    <3>15. Cardinality(F(m)) = m
      BY <3>9, <3>10, <3>13
    <3>16. QED  BY <1>1, <3>14, <3>15
  <2>4. QED  BY <2>2, <2>3
<1>6. k \in Good
  <2>1. k \in 0 .. k /\ \A m \in 1 .. k : m - 1 \in Good => m \in Good
    BY <1>5
  <2> HIDE DEF Good
  <2>2. QED  BY <1>4, <2>1, UpTo
<1>7. QED  BY <1>1, <1>2, <1>6

LEMMA LowestCounted ==
    ASSUME NEW s, IsFiniteSet(s), s \subseteq Nat, NEW k \in Nat
    PROVE  /\ IsFiniteSet(Lowest(s, k)) /\ Lowest(s, k) \subseteq s
           /\ Cardinality(s) \in Nat
           /\ Cardinality(Lowest(s, k)) = IF Cardinality(s) <= k THEN Cardinality(s) ELSE k
<1> DEFINE R == {q \in s \X s : q[1] < q[2]}
<1>1. \A i, j \in s : <<i, j>> \in R <=> i < j
  OBVIOUS
<1> HIDE DEF R
<1>2. \A i \in s : Before(s, R, i) = {j \in s : j < i}
  BY <1>1 DEF Before
<1>3. FirstOf(s, R, k) = Lowest(s, k)
  BY <1>2 DEF FirstOf, Lowest
<1>4. IsOrder(s, R)
  BY <1>1 DEF IsOrder
<1>5. QED  BY <1>3, <1>4, FirstCounted

LEMMA HighestCounted ==
    ASSUME NEW s, IsFiniteSet(s), s \subseteq Nat, NEW k \in Nat
    PROVE  /\ IsFiniteSet(Highest(s, k)) /\ Highest(s, k) \subseteq s
           /\ Cardinality(s) \in Nat
           /\ Cardinality(Highest(s, k)) = IF Cardinality(s) <= k THEN Cardinality(s) ELSE k
<1> DEFINE R == {q \in s \X s : q[1] > q[2]}
<1>1. \A i, j \in s : <<i, j>> \in R <=> i > j
  OBVIOUS
<1> HIDE DEF R
<1>2. \A i \in s : Before(s, R, i) = {j \in s : j > i}
  BY <1>1 DEF Before
<1>3. FirstOf(s, R, k) = Highest(s, k)
  BY <1>2 DEF FirstOf, Highest
<1>4. IsOrder(s, R)
  BY <1>1 DEF IsOrder
<1>5. QED  BY <1>3, <1>4, FirstCounted

(* The least is among the first. *)
LEMMA LeastIsLowest ==
    ASSUME NEW s, IsFiniteSet(s), s \subseteq Nat, 0 \in s, NEW k \in Nat \ {0}
    PROVE  0 \in Lowest(s, k)
<1> DEFINE B == {j \in s : j < 0}
<1>1. B = {}
  <2>1. \A j \in s : j \in Nat
    OBVIOUS
  <2>2. \A j \in s : ~(j < 0)
    BY <2>1
  <2>3. QED  BY <2>2
<1>2. Cardinality({j \in s : j < 0}) = 0
  BY <1>1, FS_EmptySet
<1>3. QED  BY <1>2 DEF Lowest

(* Positions *)
BitArrays == [0 .. Words - 1 -> SUBSET Bits]

LEMMA QuotientIs ==
    ASSUME NEW n \in Nat \ {0}, NEW q \in Nat, NEW r \in 0 .. n - 1, NEW x, x = q * n + r
    PROVE  x \div n = q /\ x % n = r
OBVIOUS

LEMMA PositionOf ==
    ASSUME NEW w \in 0 .. Words - 1, NEW b \in Bits
    PROVE  /\ w * WordBits + b \in AllBits
           /\ WordOf(w * WordBits + b) = w /\ BitOf(w * WordBits + b) = b
<1>1. Words \in Nat \ {0} /\ WordBits \in Nat \ {0} /\ b \in 0 .. WordBits - 1 /\ w \in Nat
  BY BitStringAssumption DEF Bits
<1> DEFINE x == w * WordBits + b
<1>2. x \div WordBits = w /\ x % WordBits = b
  BY <1>1, QuotientIs
<1>3. x \in 0 .. Words * WordBits - 1
  <2>1. w + 1 <= Words /\ w + 1 \in Nat
    BY <1>1
  <2>2. (w + 1) * WordBits <= Words * WordBits
    <3>1. PICK d \in Nat : Words = w + 1 + d
      <4>1. Words = w + 1 + (Words - (w + 1)) /\ Words - (w + 1) \in Nat
        BY <1>1, <2>1
      <4>2. QED  BY <4>1
    <3>2. Words * WordBits = (w + 1) * WordBits + d * WordBits /\ d * WordBits \in Nat
      BY <1>1, <3>1
    <3>3. (w + 1) * WordBits \in Nat
      BY <1>1
    <3>4. QED  BY <3>2, <3>3
  <2>3. (w + 1) * WordBits = w * WordBits + WordBits /\ w * WordBits \in Nat /\ Words * WordBits \in Nat
    BY <1>1
  <2>4. QED  BY <1>1, <2>2, <2>3
<1>4. QED  BY <1>2, <1>3 DEF AllBits, WordOf, BitOf

LEMMA PositionParts ==
    ASSUME NEW i \in AllBits
    PROVE  /\ WordOf(i) \in 0 .. Words - 1 /\ BitOf(i) \in Bits /\ i \in Nat
           /\ i = WordOf(i) * WordBits + BitOf(i)
<1>1. /\ Words \in Nat \ {0} /\ WordBits \in Nat \ {0}
      /\ i \in Nat /\ i <= Words * WordBits - 1
  BY BitStringAssumption DEF AllBits
<1> DEFINE w == i \div WordBits
           b == i % WordBits
<1>2. b \in 0 .. WordBits - 1 /\ w \in Nat /\ i = WordBits * w + b
  BY <1>1, DivMod
<1> HIDE DEF w, b
<1>3. WordBits * w = w * WordBits /\ w * WordBits \in Nat
  BY <1>1, <1>2
<1>4. w < Words
  <2>1. SUFFICES ASSUME Words <= w PROVE FALSE
    BY <1>1, <1>2
  <2>2. PICK d \in Nat : w = Words + d
    <3>1. w = Words + (w - Words) /\ w - Words \in Nat
      BY <1>1, <1>2, <2>1
    <3>2. QED  BY <3>1
  <2>3. w * WordBits = Words * WordBits + d * WordBits /\ d * WordBits \in Nat
        /\ Words * WordBits \in Nat
    BY <1>1, <2>2
  <2>4. QED  BY <1>1, <1>2, <1>3, <2>3
<1>5. w \in 0 .. Words - 1 /\ i = w * WordBits + b
  BY <1>1, <1>2, <1>3, <1>4
<1>6. QED  BY <1>1, <1>2, <1>5 DEF w, b, WordOf, BitOf, Bits

(* The positions that are set *)
LEMMA ActiveIs ==
    ASSUME NEW x \in BitArrays
    PROVE  /\ ActiveSet(x) \subseteq AllBits
           /\ \A i \in AllBits : i \in ActiveSet(x) <=> BitOf(i) \in x[WordOf(i)]
<1>1. ASSUME NEW i PROVE i \in ActiveSet(x) <=>
        \E w \in 0 .. Words - 1 : \E b \in x[w] : i = w * WordBits + b
  BY DEF ActiveSet, BitArrays
<1>2. \A w \in 0 .. Words - 1 : x[w] \subseteq Bits
  BY DEF BitArrays
<1>3. \A w \in 0 .. Words - 1 : \A b \in x[w] :
        /\ w * WordBits + b \in AllBits
        /\ WordOf(w * WordBits + b) = w /\ BitOf(w * WordBits + b) = b
  BY <1>2, PositionOf
<1>4. ActiveSet(x) \subseteq AllBits
  BY <1>1, <1>3
<1>5. ASSUME NEW i \in AllBits PROVE i \in ActiveSet(x) <=> BitOf(i) \in x[WordOf(i)]
  <2>1. /\ WordOf(i) \in 0 .. Words - 1 /\ i = WordOf(i) * WordBits + BitOf(i)
    BY PositionParts
  <2>2. QED  BY <1>1, <1>3, <2>1
<1>6. QED  BY <1>4, <1>5

(* Two bits are the same when their words and their places are. *)
LEMMA SameBit ==
    ASSUME NEW i \in AllBits, NEW j \in AllBits, WordOf(i) = WordOf(j), BitOf(i) = BitOf(j)
    PROVE  i = j
BY PositionParts

LEMMA AllBitsFinite ==
    /\ IsFiniteSet(AllBits) /\ AllBits \subseteq Nat
    /\ Words * WordBits \in Nat /\ Cardinality(AllBits) = Words * WordBits
<1>1. Words * WordBits \in Nat
  BY BitStringAssumption
<1> DEFINE N == Words * WordBits
<1>2. N \in Nat
  BY <1>1
<1> HIDE DEF N
<1>3. IsFiniteSet(0 .. N - 1) /\ Cardinality(0 .. N - 1) = N /\ 0 .. N - 1 \subseteq Nat
  BY <1>2, FS_Interval
<1>4. QED  BY <1>1, <1>3 DEF AllBits, N

(* What countBitsN adds up: the bits of the first n words *)
BitsBelow(x, n) == {i \in ActiveSet(x) : i < n * WordBits}

(* The positions of a word *)
WordPositions(x, w) == {w * WordBits + b : b \in x[w]}

LEMMA WordCounted ==
    ASSUME NEW x \in BitArrays, NEW w \in 0 .. Words - 1, NEW B, B \subseteq x[w]
    PROVE  /\ IsFiniteSet(B) /\ Cardinality(B) \in Nat
           /\ IsFiniteSet({w * WordBits + b : b \in B})
           /\ Cardinality({w * WordBits + b : b \in B}) = Cardinality(B)
<1> DEFINE f == [b \in B |-> w * WordBits + b]
           V == {w * WordBits + b : b \in B}
<1>1. B \subseteq Bits /\ w \in Nat /\ WordBits \in Nat
  BY BitStringAssumption DEF BitArrays
<1>2. IsFiniteSet(B) /\ B \subseteq Nat
  <2>1. IsFiniteSet(0 .. WordBits - 1)
    BY <1>1, FS_Interval
  <2>2. B \subseteq 0 .. WordBits - 1
    BY <1>1 DEF Bits
  <2>3. IsFiniteSet(B)
    BY <2>1, <2>2, FS_Subset
  <2>4. \A b \in B : b \in Nat
    BY <1>1, <2>2
  <2>5. QED  BY <2>3, <2>4
<1>3. f \in Bijection(B, V)
  <2>1. w * WordBits \in Nat
    BY <1>1
  <2>2. \A b, c \in B : w * WordBits + b = w * WordBits + c => b = c
    BY <1>2, <2>1
  <2>3. QED  BY <2>2 DEF Bijection, Injection, Surjection, IsInjective
<1> HIDE DEF f
<1>4. IsFiniteSet(V) /\ Cardinality(V) = Cardinality(B)
  BY <1>2, <1>3, FS_Bijection DEF ExistsBijection
<1>5. QED  BY <1>2, <1>4, FS_CardinalityType

LEMMA BelowFinite ==
    ASSUME NEW x \in BitArrays, NEW S, S \subseteq ActiveSet(x)
    PROVE  IsFiniteSet(S) /\ Cardinality(S) \in Nat /\ S \subseteq AllBits
<1>1. S \subseteq AllBits
  BY ActiveIs
<1>2. QED  BY <1>1, AllBitsFinite, FS_Subset, FS_CardinalityType

(* One more word. *)
LEMMA OneMoreWord ==
    ASSUME NEW x \in BitArrays, NEW w \in 0 .. Words - 1
    PROVE  Cardinality(BitsBelow(x, w + 1)) = Cardinality(BitsBelow(x, w)) + countBits(x[w])
<1> DEFINE A == BitsBelow(x, w)
           C == WordPositions(x, w)
<1>1. w \in Nat /\ WordBits \in Nat \ {0} /\ x[w] \subseteq 0 .. WordBits - 1
  BY BitStringAssumption DEF BitArrays, Bits
<1> DEFINE p == w * WordBits
<1>2. p \in Nat /\ (w + 1) * WordBits = p + WordBits
  BY <1>1
<1>3. \A b \in x[w] : p + b \in ActiveSet(x)
  BY DEF ActiveSet, BitArrays
<1>4. \A i \in ActiveSet(x) : i \in Nat /\ (p <= i /\ i < p + WordBits => i \in C)
  <2>1. TAKE i \in ActiveSet(x)
  <2>2. i \in AllBits
    BY ActiveIs
  <2>3. /\ WordOf(i) \in Nat /\ BitOf(i) \in 0 .. WordBits - 1 /\ i \in Nat
        /\ i = WordOf(i) * WordBits + BitOf(i)
        /\ BitOf(i) \in x[WordOf(i)]
    BY <2>2, PositionParts, ActiveIs DEF Bits
  <2>4. ASSUME p <= i, i < p + WordBits PROVE WordOf(i) = w
    <3>1. i - p \in 0 .. WordBits - 1 /\ i = w * WordBits + (i - p)
      BY <1>1, <1>2, <2>3, <2>4
    <3>2. i \div WordBits = w
      BY <1>1, <3>1, QuotientIs
    <3>3. QED  BY <3>2 DEF WordOf
  <2>5. QED  BY <2>3, <2>4 DEF WordPositions
<1> HIDE DEF p
<1>5. \A i \in C : i \in ActiveSet(x) /\ ~(i < p) /\ i < p + WordBits
  <2>1. \A b \in x[w] : b \in 0 .. WordBits - 1
    BY <1>1
  <2>2. \A b \in x[w] : ~(p + b < p) /\ p + b < p + WordBits
    BY <1>1, <1>2, <2>1
  <2>3. QED  BY <1>3, <2>2 DEF WordPositions, p
<1>6. BitsBelow(x, w + 1) = A \cup C /\ A \cap C = {}
  <2>1. \A i \in ActiveSet(x) : i < p + WordBits <=> (i < p \/ i \in C)
    BY <1>1, <1>2, <1>4, <1>5
  <2>2. \A i : i \in A <=> i \in ActiveSet(x) /\ i < p
    BY DEF BitsBelow, p
  <2>3. \A i : i \in BitsBelow(x, w + 1) <=> i \in ActiveSet(x) /\ i < p + WordBits
    BY <1>2 DEF BitsBelow
  <2> HIDE DEF A, C
  <2>4. QED  BY <1>5, <2>1, <2>2, <2>3
<1>7. IsFiniteSet(A) /\ Cardinality(A) \in Nat
  BY BelowFinite DEF BitsBelow
<1>8. IsFiniteSet(C) /\ Cardinality(C) = countBits(x[w]) /\ countBits(x[w]) \in Nat
  BY WordCounted DEF countBits, WordPositions
<1> HIDE DEF A, C
<1>9. Cardinality(A \cap C) = 0
  BY <1>6, FS_EmptySet
<1>10. QED  BY <1>6, <1>7, <1>8, <1>9, FS_Union DEF A

(* The loop of countBitsN *)
LEMMA CountLoop ==
    ASSUME NEW x \in BitArrays, NEW n \in 0 .. Words
    PROVE  LET sum[k \in 0 .. n] == IF k = 0 THEN 0 ELSE sum[k - 1] + countBits(x[k - 1])
           IN  /\ sum \in [0 .. n -> Nat] /\ sum[0] = 0
               /\ \A k \in 1 .. n : sum[k] = sum[k - 1] + countBits(x[k - 1])
<1> DEFINE step == [k \in 1 .. n |-> [v \in Nat |-> v + countBits(x[k - 1])]]
           Sums(g) == [k \in 0 .. n |-> IF k = 0 THEN 0 ELSE g[k - 1] + countBits(x[k - 1])]
           sum == CHOOSE g : g = Sums(g)
<1>1. n \in Nat /\ \A k \in 1 .. n : k - 1 \in 0 .. Words - 1
  BY BitStringAssumption
<1>2. \A k \in 1 .. n : countBits(x[k - 1]) \in Nat
  BY <1>1, WordCounted DEF countBits
<1>3. step \in [1 .. n -> [Nat -> Nat]]
  BY <1>2
<1> HIDE DEF step
<1>4. PICK g : IsLoop(n, Nat, 0, step, g)
  BY <1>1, <1>3, Iteration
<1>5. \A k \in 1 .. n : g[k] = g[k - 1] + countBits(x[k - 1])
  <2>1. TAKE k \in 1 .. n
  <2>2. k - 1 \in 0 .. n /\ g[k - 1] \in Nat /\ g[k] = step[k][g[k - 1]]
    BY <1>1, <1>4 DEF IsLoop
  <2>3. QED  BY <2>2 DEF step
<1>6. g = Sums(g)
  <2>1. g \in [0 .. n -> Nat] /\ g[0] = 0
    BY <1>1, <1>4 DEF IsLoop
  <2>2. \A k \in 0 .. n : g[k] = IF k = 0 THEN 0 ELSE g[k - 1] + countBits(x[k - 1])
    BY <1>1, <1>5, <2>1
  <2>3. QED  BY <2>1, <2>2
<1>7. sum = Sums(sum)
  BY <1>6
<1>8. ASSUME NEW h, h = Sums(h)
      PROVE  /\ h \in [0 .. n -> Nat] /\ h[0] = 0
             /\ \A k \in 1 .. n : h[k] = h[k - 1] + countBits(x[k - 1])
  <2>1. h[0] = 0
    BY <1>1, <1>8
  <2>2. \A k \in 1 .. n : h[k] = h[k - 1] + countBits(x[k - 1])
    BY <1>1, <1>8
  <2> DEFINE Good == {k \in 0 .. n : h[k] \in Nat}
  <2>3. 0 \in Good /\ \A k \in 1 .. n : k - 1 \in Good => k \in Good
    BY <1>1, <1>2, <2>1, <2>2
  <2> HIDE DEF Good
  <2>4. \A k \in 0 .. n : k \in Good
    BY <1>1, <2>3, UpTo
  <2>5. DOMAIN h = 0 .. n /\ h = [k \in DOMAIN h |-> h[k]]
    BY <1>8
  <2>6. QED  BY <2>1, <2>2, <2>4, <2>5 DEF Good
<1> HIDE DEF Sums
<1>9. /\ sum \in [0 .. n -> Nat] /\ sum[0] = 0
      /\ \A k \in 1 .. n : sum[k] = sum[k - 1] + countBits(x[k - 1])
  <2> HIDE DEF sum
  <2>1. QED  BY <1>7, <1>8
<1>10. QED  BY <1>9 DEF Sums

(* countBitsN counts the positions set. *)
LEMMA BitsCounted ==
    ASSUME NEW x \in BitArrays, NEW n \in 0 .. Words
    PROVE  countBitsN(x, n) = Cardinality(BitsBelow(x, n)) /\ countBitsN(x, n) \in Nat
<1> DEFINE Sums(g) == [k \in 0 .. n |-> IF k = 0 THEN 0 ELSE g[k - 1] + countBits(x[k - 1])]
           sum == CHOOSE g : g = Sums(g)
<1>1. /\ sum \in [0 .. n -> Nat] /\ sum[0] = 0
      /\ \A k \in 1 .. n : sum[k] = sum[k - 1] + countBits(x[k - 1])
  BY CountLoop
<1>2. countBitsN(x, n) = sum[n]
  BY Zenon DEF countBitsN
<1> HIDE DEF sum
<1> DEFINE Good == {k \in 0 .. n : sum[k] = Cardinality(BitsBelow(x, k))}
<1>3. n \in Nat /\ \A k \in 1 .. n : k - 1 \in 0 .. Words - 1 /\ (k - 1) + 1 = k
  BY BitStringAssumption
<1>4. 0 \in Good
  <2>1. BitsBelow(x, 0) = {}
    <3>1. 0 * WordBits = 0 /\ \A i \in ActiveSet(x) : i \in Nat
      BY BitStringAssumption, ActiveIs DEF AllBits
    <3>2. \A i \in ActiveSet(x) : ~(i < 0 * WordBits)
      BY <3>1
    <3>3. QED  BY <3>2 DEF BitsBelow
  <2>2. Cardinality(BitsBelow(x, 0)) = 0
    BY <2>1, FS_EmptySet
  <2>3. QED  BY <1>1, <1>3, <2>2
<1>5. ASSUME NEW k \in 1 .. n, k - 1 \in Good PROVE k \in Good
  <2>1. Cardinality(BitsBelow(x, k)) = Cardinality(BitsBelow(x, k - 1)) + countBits(x[k - 1])
    BY <1>3, OneMoreWord
  <2>2. QED  BY <1>1, <1>3, <1>5, <2>1
<1> HIDE DEF Good
<1>6. \A k \in 0 .. n : k \in Good
  BY <1>3, <1>4, <1>5, UpTo
<1>7. n \in Good
  BY <1>3, <1>6
<1>8. QED  BY <1>1, <1>2, <1>3, <1>7 DEF Good

(* All words together *)
LEMMA AllCounted ==
    ASSUME NEW x \in BitArrays
    PROVE  countBitsN(x, Words) = Cardinality(ActiveSet(x)) /\ countBitsN(x, Words) \in Nat
<1>1. BitsBelow(x, Words) = ActiveSet(x)
  <2>1. \A i \in ActiveSet(x) : i \in 0 .. Words * WordBits - 1
    BY ActiveIs DEF AllBits
  <2>2. \A i \in ActiveSet(x) : i < Words * WordBits
    BY <2>1, AllBitsFinite
  <2>3. QED  BY <2>2 DEF BitsBelow
<1>2. Words \in 0 .. Words
  BY BitStringAssumption
<1>3. QED  BY <1>1, <1>2, BitsCounted

(* A bit string is known by its bits. *)
LEMMA ActiveBits ==
    ASSUME NEW y \in BitArrays, NEW S, S \subseteq AllBits,
           \A w \in 0 .. Words - 1 : \A b \in Bits : b \in y[w] <=> w * WordBits + b \in S
    PROVE  ActiveSet(y) = S
<1>1. ASSUME NEW i \in AllBits PROVE i \in ActiveSet(y) <=> i \in S
  <2>1. /\ WordOf(i) \in 0 .. Words - 1 /\ BitOf(i) \in Bits
        /\ i = WordOf(i) * WordBits + BitOf(i)
    BY PositionParts
  <2>2. QED  BY <2>1, ActiveIs
<1>2. QED  BY <1>1, ActiveIs

LEMMA BitIs ==
    ASSUME NEW x \in BitArrays, NEW w \in 0 .. Words - 1, NEW b \in Bits
    PROVE  w * WordBits + b \in AllBits /\ (b \in x[w] <=> w * WordBits + b \in ActiveSet(x))
BY PositionOf, ActiveIs

(* How many bits may still be taken when a word is cut *)
IsCut(draw, nbits, left, cut) ==
    /\ left \in [0 .. Words -> Nat] /\ left[0] = nbits
    /\ \A w \in 1 .. Words : left[w] = left[w - 1] - countBits(cut[w - 1])
    /\ cut = [w \in 0 .. Words - 1 |-> Lowest(draw[w], left[w])]

LEMMA WordFinite ==
    ASSUME NEW x \in BitArrays, NEW w \in 0 .. Words - 1
    PROVE  x[w] \subseteq Bits /\ IsFiniteSet(x[w]) /\ x[w] \subseteq Nat
<1>1. x[w] \subseteq Bits /\ IsFiniteSet(x[w])
  BY WordCounted DEF BitArrays
<1>2. \A b \in Bits : b \in Nat
  BY BitStringAssumption DEF Bits
<1>3. QED  BY <1>1, <1>2

LEMMA CutLoop ==
    ASSUME NEW draw \in BitArrays, NEW nbits \in Nat
    PROVE  \E left : IsCut(draw, nbits, left, CutTo(draw, nbits))
<1> DEFINE taken(w, v) == countBits(Lowest(draw[w], v))
           step == [w \in 1 .. Words |-> [v \in Nat |-> v - taken(w - 1, v)]]
           Lefts(g) == [w \in 0 .. Words |->
                          IF w = 0 THEN nbits ELSE g[w - 1] - taken(w - 1, g[w - 1])]
           left == CHOOSE g : g = Lefts(g)
<1>1. Words \in Nat /\ \A w \in 1 .. Words : w - 1 \in 0 .. Words - 1
  BY BitStringAssumption
<1>2. \A w \in 0 .. Words - 1 : \A v \in Nat : v - taken(w, v) \in Nat
  <2>1. TAKE w \in 0 .. Words - 1
  <2>2. TAKE v \in Nat
  <2>3. /\ Cardinality(draw[w]) \in Nat
        /\ taken(w, v) = IF Cardinality(draw[w]) <= v THEN Cardinality(draw[w]) ELSE v
    BY WordFinite, LowestCounted DEF countBits
  <2>4. QED  BY <2>3
<1>3. step \in [1 .. Words -> [Nat -> Nat]]
  BY <1>1, <1>2
<1> HIDE DEF step
<1>4. PICK g : IsLoop(Words, Nat, nbits, step, g)
  BY <1>1, <1>3, Iteration
<1>5. g \in [0 .. Words -> Nat] /\ g[0] = nbits
  BY <1>4 DEF IsLoop
<1>6. \A w \in 1 .. Words : g[w] = g[w - 1] - taken(w - 1, g[w - 1])
  <2>1. TAKE w \in 1 .. Words
  <2>2. w - 1 \in 0 .. Words /\ g[w - 1] \in Nat /\ g[w] = step[w][g[w - 1]]
    BY <1>1, <1>4 DEF IsLoop
  <2>3. QED  BY <2>2 DEF step
<1>7. g = Lefts(g)
  <2>1. \A w \in 0 .. Words :
          g[w] = IF w = 0 THEN nbits ELSE g[w - 1] - taken(w - 1, g[w - 1])
    BY <1>1, <1>5, <1>6
  <2>2. QED  BY <1>5, <2>1
<1>8. left = Lefts(left)
  BY <1>7
<1>9. CutTo(draw, nbits) = [w \in 0 .. Words - 1 |-> Lowest(draw[w], left[w])]
  <2>1. DOMAIN draw = 0 .. Words - 1
    BY DEF BitArrays
  <2>2. CutTo(draw, nbits) = [w \in DOMAIN draw |-> Lowest(draw[w], left[w])]
    BY Zenon DEF CutTo
  <2> HIDE DEF left
  <2>3. QED  BY <2>1, <2>2
<1> HIDE DEF left
<1>10. /\ DOMAIN left = 0 .. Words /\ left = [w \in 0 .. Words |-> left[w]]
       /\ left[0] = nbits
       /\ \A w \in 1 .. Words : left[w] = left[w - 1] - taken(w - 1, left[w - 1])
  <2>1. DOMAIN left = 0 .. Words
    BY <1>8
  <2>2. left[0] = nbits
    BY <1>1, <1>8
  <2>3. ASSUME NEW w \in 1 .. Words PROVE left[w] = left[w - 1] - taken(w - 1, left[w - 1])
    <3>1. w \in 0 .. Words /\ w # 0
      BY <1>1
    <3> HIDE DEF taken
    <3>2. Lefts(left)[w] = left[w - 1] - taken(w - 1, left[w - 1])
      BY <3>1
    <3> HIDE DEF Lefts
    <3>3. QED  BY <1>8, <3>2
  <2>4. left = [w \in 0 .. Words |-> left[w]]
    BY <1>8
  <2>5. QED  BY <2>1, <2>2, <2>3, <2>4
<1>11. \A w \in 0 .. Words : left[w] \in Nat
  <2> DEFINE Good == {w \in 0 .. Words : left[w] \in Nat}
  <2>1. 0 \in Good
    BY <1>1, <1>10
  <2>2. ASSUME NEW w \in 1 .. Words, w - 1 \in Good PROVE w \in Good
    <3>1. w - 1 \in 0 .. Words - 1 /\ left[w - 1] \in Nat
      BY <1>1, <2>2
    <3>2. left[w - 1] - taken(w - 1, left[w - 1]) \in Nat
      BY <1>2, <3>1
    <3> HIDE DEF taken
    <3>3. left[w] \in Nat
      BY <1>10, <3>2
    <3>4. w \in 0 .. Words
      BY <1>1
    <3>5. QED  BY <3>3, <3>4
  <2> HIDE DEF Good
  <2>3. \A w \in 0 .. Words : w \in Good
    BY <1>1, <2>1, <2>2, UpTo
  <2>4. QED  BY <2>3 DEF Good
<1>12. left \in [0 .. Words -> Nat]
  BY <1>10, <1>11
<1>13. \A w \in 1 .. Words : countBits(CutTo(draw, nbits)[w - 1]) = taken(w - 1, left[w - 1])
  BY <1>1, <1>9
<1> HIDE DEF taken
<1>14. IsCut(draw, nbits, left, CutTo(draw, nbits))
  BY <1>9, <1>10, <1>12, <1>13 DEF IsCut
<1>15. QED  BY <1>14

(* What is drawn is cut to at most as many bits as asked for; the first    *)
(* bit stays if there is any.                                              *)
LEMMA CutCounted ==
    ASSUME NEW draw \in BitArrays, NEW nbits \in Nat
    PROVE  LET cut == CutTo(draw, nbits)
           IN  /\ cut \in BitArrays
               /\ countBitsN(cut, Words) \in 0 .. nbits
               /\ 0 \in draw[0] /\ nbits # 0 => 0 \in ActiveSet(cut)
<1> DEFINE cut == CutTo(draw, nbits)
<1>1. PICK left : IsCut(draw, nbits, left, cut)
  BY CutLoop
<1>2. Words \in Nat \ {0} /\ 0 \in 0 .. Words - 1
      /\ \A w \in 1 .. Words : w - 1 \in 0 .. Words - 1 /\ (w - 1) + 1 = w
  BY BitStringAssumption
<1> HIDE DEF cut
<1>3. \A w \in 0 .. Words - 1 : cut[w] = Lowest(draw[w], left[w]) /\ left[w] \in Nat
  BY <1>1, <1>2 DEF IsCut
<1>4. \A w \in 0 .. Words - 1 : cut[w] \subseteq Bits
  <2>1. \A w \in 0 .. Words - 1 : cut[w] \subseteq draw[w] /\ draw[w] \subseteq Bits
    BY <1>3, WordFinite DEF Lowest
  <2>2. QED  BY <2>1
<1>5. cut \in BitArrays
  <2>1. cut = [w \in 0 .. Words - 1 |-> Lowest(draw[w], left[w])]
    BY <1>1 DEF IsCut
  <2>2. cut = [w \in 0 .. Words - 1 |-> cut[w]]
    BY <2>1
  <2>3. QED  BY <1>4, <2>2 DEF BitArrays
<1> DEFINE Good == {w \in 0 .. Words : Cardinality(BitsBelow(cut, w)) = nbits - left[w]}
<1>6. 0 \in Good
  <2>1. BitsBelow(cut, 0) = {}
    <3>1. 0 * WordBits = 0 /\ \A i \in ActiveSet(cut) : i \in Nat
      BY <1>5, BitStringAssumption, ActiveIs DEF AllBits
    <3>2. \A i \in ActiveSet(cut) : ~(i < 0 * WordBits)
      BY <3>1
    <3>3. QED  BY <3>2 DEF BitsBelow
  <2>2. Cardinality(BitsBelow(cut, 0)) = 0
    BY <2>1, FS_EmptySet
  <2>3. QED  BY <1>1, <1>2, <2>2 DEF IsCut
<1>7. ASSUME NEW w \in 1 .. Words, w - 1 \in Good PROVE w \in Good
  <2>1. Cardinality(BitsBelow(cut, w)) = Cardinality(BitsBelow(cut, w - 1)) + countBits(cut[w - 1])
    BY <1>2, <1>5, OneMoreWord
  <2>2. countBits(cut[w - 1]) \in Nat
    BY <1>2, <1>5, WordCounted DEF countBits
  <2>3. left[w] = left[w - 1] - countBits(cut[w - 1]) /\ left[w] \in Nat /\ left[w - 1] \in Nat
    BY <1>1, <1>2 DEF IsCut
  <2>4. QED  BY <1>2, <1>7, <2>1, <2>2, <2>3
<1> HIDE DEF Good
<1>8. \A w \in 0 .. Words : w \in Good
  BY <1>2, <1>6, <1>7, UpTo
<1>9. countBitsN(cut, Words) \in 0 .. nbits
  <2>1. Words \in Good /\ Words \in 0 .. Words
    BY <1>2, <1>8
  <2>2. countBitsN(cut, Words) = nbits - left[Words] /\ left[Words] \in Nat
    BY <1>1, <1>5, <2>1, BitsCounted DEF Good, IsCut
  <2>3. countBitsN(cut, Words) \in Nat
    BY <1>5, AllCounted
  <2>4. QED  BY <2>2, <2>3
<1>10. ASSUME 0 \in draw[0], nbits # 0 PROVE 0 \in ActiveSet(cut)
  <2>1. left[0] = nbits
    BY <1>1 DEF IsCut
  <2>2. 0 \in cut[0]
    BY <1>2, <1>3, <1>10, <2>1, WordFinite, LeastIsLowest
  <2>3. 0 \in Bits /\ 0 * WordBits + 0 = 0
    BY BitStringAssumption DEF Bits
  <2>4. QED  BY <1>2, <1>5, <2>2, <2>3, BitIs
<1>11. QED  BY <1>5, <1>9, <1>10 DEF cut

LEMMA FilledUp ==
    ASSUME NEW x \in BitArrays, NEW k \in Nat
    PROVE  LET y == FillUp(x, k)
               free == AllBits \ ActiveSet(x)
           IN  /\ y \in BitArrays
               /\ ActiveSet(y) = ActiveSet(x) \cup Lowest(free, k)
<1> DEFINE y == FillUp(x, k)
           added == Lowest(AllBits \ ActiveSet(x), k)
<1>1. y = [w \in 0 .. Words - 1 |-> {b \in Bits : b \in x[w] \/ w * WordBits + b \in added}]
  BY DEF FillUp, BitArrays
<1>2. y \in BitArrays
  BY <1>1 DEF BitArrays
<1>3. added \subseteq AllBits /\ ActiveSet(x) \subseteq AllBits
  BY ActiveIs DEF Lowest
<1>4. \A w \in 0 .. Words - 1 : \A b \in Bits :
        b \in y[w] <=> w * WordBits + b \in ActiveSet(x) \cup added
  BY <1>1, BitIs
<1> HIDE DEF y, added
<1>5. ActiveSet(y) = ActiveSet(x) \cup added
  BY <1>2, <1>3, <1>4, ActiveBits
<1>6. QED  BY <1>2, <1>5 DEF y, added

(* A generated bit string has as many bits as asked for. *)
LEMMA GeneratedCounted ==
    ASSUME NEW nbits \in 0 .. Words * WordBits, NEW bit1 \in BOOLEAN,
           NEW y \in Generated[<<nbits, bit1>>]
    PROVE  /\ y \in BitArrays
           /\ Cardinality(ActiveSet(y)) = nbits
           /\ bit1 /\ nbits > 0 => 0 \in ActiveSet(y)
<1>1. PICK draw \in Draws(bit1) :
        y = LET cut == CutTo(draw, nbits) IN FillUp(cut, nbits - countBitsN(cut, Words))
  BY DEF Generated
<1> DEFINE cut == CutTo(draw, nbits)
           c == countBitsN(cut, Words)
           free == AllBits \ ActiveSet(cut)
           added == Lowest(free, nbits - c)
<1>2. draw \in BitArrays /\ (bit1 => 0 \in draw[0])
  BY BitStringAssumption DEF Draws, BitArrays
<1>3. nbits \in Nat /\ nbits <= Words * WordBits /\ Words * WordBits \in Nat
  BY AllBitsFinite
<1>4. cut \in BitArrays /\ c \in 0 .. nbits /\ (0 \in draw[0] /\ nbits # 0 => 0 \in ActiveSet(cut))
  BY <1>2, <1>3, CutCounted
<1>5. y = FillUp(cut, nbits - c)
  BY <1>1
<1> HIDE DEF cut
<1>6. c = Cardinality(ActiveSet(cut))
  BY <1>4, AllCounted
<1> HIDE DEF c
<1>7. nbits - c \in Nat
  BY <1>3, <1>4
<1>8. y \in BitArrays /\ ActiveSet(y) = ActiveSet(cut) \cup added
  BY <1>4, <1>5, <1>7, FilledUp
<1>9. /\ IsFiniteSet(ActiveSet(cut)) /\ ActiveSet(cut) \subseteq AllBits
      /\ IsFiniteSet(free) /\ free \subseteq Nat
      /\ Cardinality(free) = Words * WordBits - c
  <2>1. ActiveSet(cut) \subseteq AllBits /\ IsFiniteSet(ActiveSet(cut))
    BY <1>4, BelowFinite
  <2>2. AllBits \cap ActiveSet(cut) = ActiveSet(cut)
    BY <2>1
  <2>3. /\ IsFiniteSet(free)
        /\ Cardinality(free) = Cardinality(AllBits) - Cardinality(AllBits \cap ActiveSet(cut))
    BY AllBitsFinite, FS_Difference
  <2>4. QED  BY <1>6, <2>1, <2>2, <2>3, AllBitsFinite
<1>10. IsFiniteSet(added) /\ added \subseteq free /\ Cardinality(added) = nbits - c
  <2>1. /\ IsFiniteSet(added) /\ added \subseteq free /\ Cardinality(free) \in Nat
        /\ Cardinality(added) = IF Cardinality(free) <= nbits - c THEN Cardinality(free) ELSE nbits - c
    BY <1>7, <1>9, LowestCounted
  <2>2. Cardinality(free) >= nbits - c
    BY <1>3, <1>4, <1>9
  <2> DEFINE k == nbits - c
             f == Cardinality(free)
             a == Cardinality(added)
  <2>3. /\ f \in Nat /\ k \in Nat /\ ~(f < k)
        /\ a = IF f <= k THEN f ELSE k
    BY <1>7, <2>1, <2>2
  <2> HIDE DEF k, f, a
  <2>4. a = k
    BY <2>3
  <2>5. QED  BY <2>1, <2>4 DEF k, a
<1>11. ActiveSet(cut) \cap added = {}
  BY <1>10
<1> HIDE DEF free, added
<1>12. Cardinality(ActiveSet(cut) \cap added) = 0
  BY <1>11, FS_EmptySet
<1>13. Cardinality(ActiveSet(y)) = c + (nbits - c) - 0
  BY <1>6, <1>8, <1>9, <1>10, <1>12, FS_Union
<1>14. QED  BY <1>2, <1>3, <1>4, <1>8, <1>13

(* What debug_fixGeneratedBits() writes, for a limit that may be kept *)
Fixed(size) ==
    LET beyond == {i \in ActiveSet(bits) : i >= size}
        moved == Highest(FreeBelow(size), Cardinality(beyond))
    IN  [w \in DOMAIN bits |->
          {b \in Bits : LET i == w * WordBits + b
                        IN  i \in moved \/ (b \in bits[w] /\ i \notin beyond)}]

LEMMA FixedCounted ==
    ASSUME bits \in BitArrays, NEW size \in countBitsN(bits, Words) .. Words * WordBits
    PROVE  /\ Fixed(size) \in BitArrays
           /\ ActiveSet(Fixed(size)) \subseteq AllBits \cap 0 .. size - 1
           /\ Cardinality(ActiveSet(Fixed(size))) = Cardinality(ActiveSet(bits))
           /\ {i \in ActiveSet(bits) : i < size} \subseteq ActiveSet(Fixed(size))
<1> DEFINE A == ActiveSet(bits)
           beyond == {i \in A : i >= size}
           below == {i \in A : i < size}
           free == FreeBelow(size)
           moved == Highest(free, Cardinality(beyond))
           y == Fixed(size)
<1>1. countBitsN(bits, Words) = Cardinality(A) /\ Cardinality(A) \in Nat
      /\ Words * WordBits \in Nat
  BY AllCounted, AllBitsFinite
<1>2. size \in Nat /\ Cardinality(A) <= size /\ size <= Words * WordBits
  BY <1>1
<1>3. A \subseteq AllBits /\ \A i \in A : i \in Nat
  BY ActiveIs, AllBitsFinite
<1>4. /\ IsFiniteSet(A) /\ IsFiniteSet(below) /\ IsFiniteSet(beyond)
      /\ Cardinality(below) \in Nat /\ Cardinality(beyond) \in Nat
  BY BelowFinite
<1>5. A = below \cup beyond /\ below \cap beyond = {}
  BY <1>2, <1>3
<1>6. free = 0 .. size - 1 \ A
  BY DEF FreeBelow
<1>7. (0 .. size - 1) \cap A = below
  BY <1>2, <1>3
<1>8. /\ IsFiniteSet(0 .. size - 1) /\ Cardinality(0 .. size - 1) = size
      /\ 0 .. size - 1 \subseteq Nat /\ 0 .. size - 1 \subseteq AllBits
  <2>1. 0 \in Int /\ size - 1 \in Int
    BY <1>2
  <2>2. /\ IsFiniteSet(0 .. size - 1)
        /\ Cardinality(0 .. size - 1) = IF 0 <= size - 1 THEN (size - 1) - 0 + 1 ELSE 0
    BY <2>1, FS_Interval
  <2>3. (IF 0 <= size - 1 THEN (size - 1) - 0 + 1 ELSE 0) = size
    BY <1>2
  <2>4. \A j \in 0 .. size - 1 : j \in Nat /\ j \in 0 .. Words * WordBits - 1
    BY <1>1, <1>2
  <2>5. QED  BY <2>2, <2>3, <2>4 DEF AllBits
<1> HIDE DEF A, beyond, below, free
<1>9. Cardinality(A) = Cardinality(below) + Cardinality(beyond)
  <2>1. Cardinality(below \cap beyond) = 0
    BY <1>5, FS_EmptySet
  <2>2. QED  BY <1>4, <1>5, <2>1, FS_Union
<1>10. /\ IsFiniteSet(free) /\ free \subseteq Nat
       /\ Cardinality(free) = size - Cardinality(below)
  BY <1>6, <1>7, <1>8, FS_Difference
<1>11. IsFiniteSet(moved) /\ moved \subseteq free /\ Cardinality(moved) = Cardinality(beyond)
  <2>1. /\ IsFiniteSet(moved) /\ moved \subseteq free /\ Cardinality(free) \in Nat
        /\ Cardinality(moved) = IF Cardinality(free) <= Cardinality(beyond)
                                THEN Cardinality(free) ELSE Cardinality(beyond)
    BY <1>4, <1>10, HighestCounted
  <2>2. Cardinality(free) >= Cardinality(beyond)
    BY <1>1, <1>2, <1>4, <1>9, <1>10
  <2> DEFINE k == Cardinality(beyond)
             f == Cardinality(free)
             a == Cardinality(moved)
  <2>3. /\ f \in Nat /\ k \in Nat /\ ~(f < k)
        /\ a = IF f <= k THEN f ELSE k
    BY <1>4, <2>1, <2>2
  <2> HIDE DEF k, f, a
  <2>4. a = k
    BY <2>3
  <2>5. QED  BY <2>1, <2>4 DEF k, a
<1>12. y = [w \in 0 .. Words - 1 |->
              {b \in Bits : \/ w * WordBits + b \in moved
                            \/ b \in bits[w] /\ w * WordBits + b \notin beyond}]
  BY DEF Fixed, BitArrays, A, beyond, free
<1>13. y \in BitArrays
  BY <1>12 DEF BitArrays
<1>14. moved \cup below \subseteq AllBits
  BY <1>3, <1>6, <1>8, <1>11 DEF below
<1>15. \A i \in A : i \notin beyond <=> i \in below
  BY <1>5
<1>16. \A w \in 0 .. Words - 1 : \A b \in Bits :
         b \in y[w] <=> w * WordBits + b \in moved \cup below
  <2>1. \A w \in 0 .. Words - 1 : \A b \in Bits : b \in bits[w] <=> w * WordBits + b \in A
    BY BitIs DEF A
  <2>2. \A i \in below : i \in A
    BY <1>5
  <2> HIDE DEF moved, y
  <2>3. QED  BY <1>12, <1>15, <2>1, <2>2
<1> HIDE DEF moved, y
<1>17. ActiveSet(y) = moved \cup below
  BY <1>13, <1>14, <1>16, ActiveBits
<1>18. moved \cap below = {}
  BY <1>5, <1>6, <1>11
<1>19. Cardinality(ActiveSet(y)) = Cardinality(A)
  <2>1. Cardinality(moved \cap below) = 0
    BY <1>18, FS_EmptySet
  <2>2. Cardinality(moved \cup below) =
          Cardinality(moved) + Cardinality(below) - Cardinality(moved \cap below)
    BY <1>4, <1>11, FS_Union
  <2>3. QED  BY <1>4, <1>9, <1>11, <1>17, <2>1, <2>2
<1>20. ActiveSet(y) \subseteq AllBits \cap 0 .. size - 1
  <2>1. moved \subseteq 0 .. size - 1 /\ below \subseteq 0 .. size - 1
    BY <1>6, <1>7, <1>11
  <2>2. QED  BY <1>14, <1>17, <2>1
<1>21. below \subseteq ActiveSet(y)
  BY <1>17
<1>22. QED  BY <1>13, <1>19, <1>20, <1>21 DEF y, A, below

(* The index of a bit is its rank among those that are set. *)
LEMMA IndexIsRank ==
    ASSUME bits \in BitArrays, NEW i \in AllBits
    PROVE  IndexAt(WordOf(i), BitOf(i)) = Members!Rank(i)
<1> DEFINE w == WordOf(i)
           c == BitOf(i)
           p == w * WordBits
           C == {b \in bits[w] : b < c}
           V == {p + b : b \in C}
           A == BitsBelow(bits, w)
           B == {j \in ActiveSet(bits) : j < i}
<1>1. w \in 0 .. Words - 1 /\ c \in 0 .. WordBits - 1 /\ i = p + c /\ i \in Nat
      /\ w \in 0 .. Words /\ w \in Nat /\ WordBits \in Nat \ {0}
  BY PositionParts, BitStringAssumption DEF Bits
<1>2. p \in Nat
  BY <1>1
<1>3. IndexAt(w, c) = Cardinality(A) + Cardinality(C)
  BY <1>1, BitsCounted DEF IndexAt
<1>4. Members!Rank(i) = Cardinality(B)
  BY Zenon DEF Members!Rank, Members!Cardinality, Cardinality
<1>5. C \subseteq bits[w]
  OBVIOUS
<1>6. /\ IsFiniteSet(C) /\ Cardinality(C) \in Nat
      /\ IsFiniteSet(V) /\ Cardinality(V) = Cardinality(C)
  <2> HIDE DEF w, C
  <2>1. QED  BY <1>1, <1>5, WordCounted
<1>7. IsFiniteSet(A) /\ Cardinality(A) \in Nat
  BY BelowFinite DEF BitsBelow
<1>8. ASSUME NEW j \in ActiveSet(bits)
      PROVE  j \in B <=> j \in A \/ j \in V
  <2>1. j \in AllBits
    BY ActiveIs
  <2> DEFINE v == WordOf(j)
             b == BitOf(j)
  <2>2. /\ v \in Nat /\ b \in 0 .. WordBits - 1 /\ j \in Nat
        /\ j = v * WordBits + b /\ b \in bits[v]
    BY <2>1, PositionParts, ActiveIs DEF Bits
  <2>3. j \in A <=> j < p
    BY DEF BitsBelow
  <2> HIDE DEF v, b, p
  <2>4. ASSUME j < i, ~(j < p) PROVE j \in V
    <3>1. j - p \in 0 .. WordBits - 1 /\ j = w * WordBits + (j - p)
      BY <1>1, <1>2, <2>2, <2>4 DEF p
    <3>2. v = w
      <4>1. j \div WordBits = w
        BY <1>1, <3>1, QuotientIs
      <4>2. QED  BY <4>1 DEF v, WordOf
    <3>3. b \in bits[w] /\ j = p + b /\ b < c
      BY <1>1, <1>2, <2>2, <2>4, <3>2 DEF p
    <3>4. QED  BY <3>3
  <2>5. ASSUME j \in V PROVE j < i
    <3>1. PICK a \in C : j = p + a
      BY <2>5
    <3>2. a \in bits[w] /\ a < c /\ a \in Nat
      <4>1. bits[w] \subseteq Nat
        BY <1>1, WordFinite
      <4>2. QED  BY <4>1
    <3>3. QED  BY <1>1, <1>2, <3>1, <3>2
  <2>6. j < p => j < i
    BY <1>1, <1>2, <2>2
  <2>7. QED  BY <2>3, <2>4, <2>5, <2>6
<1>9. V \subseteq ActiveSet(bits) /\ \A j \in V : ~(j < p)
  <2>1. \A b \in bits[w] : p + b \in ActiveSet(bits)
    BY <1>1 DEF ActiveSet, BitArrays
  <2>2. \A b \in bits[w] : b \in Nat
    BY <1>1, WordFinite
  <2>3. \A b \in bits[w] : ~(p + b < p)
    BY <1>2, <2>2
  <2>4. QED  BY <2>1, <2>3
<1>10. A \subseteq ActiveSet(bits) /\ \A j \in A : j < p
  BY DEF BitsBelow
<1> HIDE DEF A, V, C
<1>11. B = A \cup V /\ A \cap V = {}
  BY <1>8, <1>9, <1>10
<1>12. Cardinality(A \cap V) = 0
  BY <1>11, FS_EmptySet
<1>13. Cardinality(A \cup V) = Cardinality(A) + Cardinality(V) - Cardinality(A \cap V)
  BY <1>6, <1>7, FS_Union
<1> HIDE DEF w, c, B
<1>14. Cardinality(B) = Cardinality(A) + Cardinality(C)
  BY <1>6, <1>7, <1>11, <1>12, <1>13
<1>15. IndexAt(w, c) = Members!Rank(i)
  BY <1>3, <1>4, <1>14
<1>16. QED  BY <1>15 DEF w, c

(* One bit is written. *)
LEMMA OneBitWritten ==
    ASSUME bits \in BitArrays, NEW i \in AllBits, NEW S, S \subseteq {BitOf(i)},
           NEW x, x = [bits EXCEPT ![WordOf(i)] = (@ \ {BitOf(i)}) \cup S]
    PROVE  x \in BitArrays /\ ActiveSet(x) = (ActiveSet(bits) \ {i}) \cup {j \in {i} : S # {}}
<1>1. WordOf(i) \in 0 .. Words - 1 /\ BitOf(i) \in Bits
  BY PositionParts
<1>2. x \in BitArrays
  BY <1>1 DEF BitArrays
<1>3. ASSUME NEW j \in AllBits
      PROVE  j \in ActiveSet(x) <=> IF j = i THEN S # {} ELSE j \in ActiveSet(bits)
  <2>1. WordOf(j) \in 0 .. Words - 1
    BY PositionParts
  <2>2. j \in ActiveSet(x) <=> BitOf(j) \in x[WordOf(j)]
    BY <1>2, ActiveIs
  <2>3. j \in ActiveSet(bits) <=> BitOf(j) \in bits[WordOf(j)]
    BY ActiveIs
  <2>4. CASE WordOf(j) = WordOf(i)
    <3>1. x[WordOf(j)] = (bits[WordOf(j)] \ {BitOf(i)}) \cup S
      BY <1>1, <2>4 DEF BitArrays
    <3>2. BitOf(j) = BitOf(i) <=> j = i
      BY <2>4, SameBit
    <3>3. QED  BY <2>2, <2>3, <3>1, <3>2
  <2>5. CASE WordOf(j) # WordOf(i)
    <3>1. x[WordOf(j)] = bits[WordOf(j)] /\ j # i
      BY <1>1, <2>1, <2>5 DEF BitArrays
    <3>2. QED  BY <2>2, <2>3, <3>1
  <2>6. QED  BY <2>4, <2>5
<1>4. ActiveSet(x) \subseteq AllBits /\ ActiveSet(bits) \subseteq AllBits
  BY <1>2, ActiveIs
<1>5. QED  BY <1>2, <1>3, <1>4

LEMMA MembersCounted ==
    /\ \A S : Members!Cardinality(S) = Cardinality(S)
    /\ Members!Cardinality(AllBits) = Words * WordBits
<1>1. ASSUME NEW S PROVE Members!Cardinality(S) = Cardinality(S)
  BY Zenon DEF Members!Cardinality, Cardinality
<1>2. QED  BY <1>1, AllBitsFinite

(* A call that writes the bits becomes a step that writes the set. *)
LEMMA BecomesIs ==
    ASSUME NEW x, NEW asked, BitsBecome(x, asked)
    PROVE  bits' = x /\ request' = asked /\ Members!Becomes(ActiveSet(x))
<1>1. bits' = x /\ request' = asked /\ indexTable' = NewTable /\ tableOK' = FALSE
  BY DEF BitsBecome
<1>2. NewTable = Members!BlankTable
  BY DEF NewTable, Members!BlankTable
<1>3. QED  BY <1>1, <1>2 DEF Members!Becomes

LEMMA PutStep ==
    ASSUME bits \in BitArrays, SetOneBit
    PROVE  bits' \in BitArrays /\ Members!Put
<1>1. PICK i \in AllBits :
        BitsBecome([bits EXCEPT ![WordOf(i)] = @ \cup {BitOf(i)}], <<"set", i>>)
  BY DEF SetOneBit
<1> DEFINE x == [bits EXCEPT ![WordOf(i)] = @ \cup {BitOf(i)}]
<1>2. x = [bits EXCEPT ![WordOf(i)] = (@ \ {BitOf(i)}) \cup {BitOf(i)}]
  OBVIOUS
<1>3. x \in BitArrays /\ ActiveSet(x) = (ActiveSet(bits) \ {i}) \cup {j \in {i} : {BitOf(i)} # {}}
  <2> HIDE DEF x
  <2>1. QED  BY <1>2, OneBitWritten
<1>4. ActiveSet(x) = ActiveSet(bits) \cup {i}
  <2> HIDE DEF x
  <2>1. QED  BY <1>3
<1>5. bits' = x /\ request' = <<"set", i>> /\ Members!Becomes(ActiveSet(x))
  BY <1>1, BecomesIs
<1> HIDE DEF x
<1>6. request' = <<"set", i>> /\ Members!Becomes(ActiveSet(bits) \cup {i})
  BY <1>4, <1>5
<1>7. QED  BY <1>3, <1>5, <1>6 DEF Members!Put

LEMMA RemoveStep ==
    ASSUME bits \in BitArrays, ResetOneBit
    PROVE  bits' \in BitArrays /\ Members!Remove
<1>1. PICK i \in AllBits :
        BitsBecome([bits EXCEPT ![WordOf(i)] = @ \ {BitOf(i)}], <<"reset", i>>)
  BY DEF ResetOneBit
<1> DEFINE x == [bits EXCEPT ![WordOf(i)] = @ \ {BitOf(i)}]
<1>2. x = [bits EXCEPT ![WordOf(i)] = (@ \ {BitOf(i)}) \cup {}]
  OBVIOUS
<1>3. x \in BitArrays /\ ActiveSet(x) = (ActiveSet(bits) \ {i}) \cup {j \in {i} : {} # {}}
  <2> HIDE DEF x
  <2>1. QED  BY <1>2, OneBitWritten
<1>4. ActiveSet(x) = ActiveSet(bits) \ {i}
  <2> HIDE DEF x
  <2>1. QED  BY <1>3
<1>5. bits' = x /\ request' = <<"reset", i>> /\ Members!Becomes(ActiveSet(x))
  BY <1>1, BecomesIs
<1> HIDE DEF x
<1>6. request' = <<"reset", i>> /\ Members!Becomes(ActiveSet(bits) \ {i})
  BY <1>4, <1>5
<1>7. QED  BY <1>3, <1>5, <1>6 DEF Members!Remove

LEMMA ExchangeStep ==
    ASSUME bits \in BitArrays, ToggleOneBit
    PROVE  bits' \in BitArrays /\ Members!Exchange
<1>1. PICK i \in AllBits :
        BitsBecome([bits EXCEPT ![WordOf(i)] =
                      IF getOneBit(i) THEN @ \ {BitOf(i)} ELSE @ \cup {BitOf(i)}],
                   <<"toggle", i>>)
  BY DEF ToggleOneBit
<1> DEFINE x == [bits EXCEPT ![WordOf(i)] =
                   IF getOneBit(i) THEN @ \ {BitOf(i)} ELSE @ \cup {BitOf(i)}]
           S == IF getOneBit(i) THEN {} ELSE {BitOf(i)}
<1>2. x = [bits EXCEPT ![WordOf(i)] = (@ \ {BitOf(i)}) \cup S]
  OBVIOUS
<1>3. x \in BitArrays /\ ActiveSet(x) = (ActiveSet(bits) \ {i}) \cup {j \in {i} : S # {}}
  <2> HIDE DEF x
  <2>1. S \subseteq {BitOf(i)}
    OBVIOUS
  <2> HIDE DEF S
  <2>2. QED  BY <1>2, <2>1, OneBitWritten
<1>4. getOneBit(i) <=> i \in ActiveSet(bits)
  BY ActiveIs DEF getOneBit
<1>5. ActiveSet(x) = (ActiveSet(bits) \ {i}) \cup ({i} \ ActiveSet(bits))
  <2> HIDE DEF x
  <2>1. S # {} <=> i \notin ActiveSet(bits)
    BY <1>4
  <2> HIDE DEF S
  <2>2. QED  BY <1>3, <2>1
<1>6. bits' = x /\ request' = <<"toggle", i>> /\ Members!Becomes(ActiveSet(x))
  BY <1>1, BecomesIs
<1> HIDE DEF x, S
<1>7. request' = <<"toggle", i>>
      /\ Members!Becomes((ActiveSet(bits) \ {i}) \cup ({i} \ ActiveSet(bits)))
  BY <1>5, <1>6
<1>8. QED  BY <1>3, <1>6, <1>7 DEF Members!Exchange

LEMMA ClearToStep ==
    ASSUME bits \in BitArrays, ResetBits
    PROVE  bits' \in BitArrays /\ Members!ClearTo
<1>1. PICK n \in 0 .. Words :
        BitsBecome([w \in DOMAIN bits |-> IF w < n THEN {} ELSE bits[w]], <<"clear", n * WordBits>>)
  BY DEF ResetBits
<1> DEFINE x == [w \in DOMAIN bits |-> IF w < n THEN {} ELSE bits[w]]
           p == n * WordBits
           S == {j \in ActiveSet(bits) : j >= p}
<1>2. x = [w \in 0 .. Words - 1 |-> IF w < n THEN {} ELSE bits[w]] /\ x \in BitArrays
  BY DEF BitArrays
<1>3. n \in Nat /\ Words \in Nat /\ n <= Words /\ WordBits \in Nat \ {0} /\ p \in Nat
  BY BitStringAssumption
<1>4. p \in 0 .. Words * WordBits
  <2>1. PICK d \in Nat : Words = n + d
    <3>1. Words = n + (Words - n) /\ Words - n \in Nat
      BY <1>3
    <3>2. QED  BY <3>1
  <2>2. Words * WordBits = p + d * WordBits /\ d * WordBits \in Nat
    BY <1>3, <2>1
  <2>3. QED  BY <1>3, <2>2
<1>5. ASSUME NEW i \in AllBits PROVE WordOf(i) < n <=> i < p
  <2> DEFINE v == WordOf(i)
             b == BitOf(i)
  <2>1. v \in Nat /\ b \in 0 .. WordBits - 1 /\ i = v * WordBits + b
    BY PositionParts DEF Bits
  <2> HIDE DEF v, b
  <2>2. ASSUME v < n PROVE i < p
    <3>1. PICK d \in Nat : n = v + 1 + d
      <4>1. n = v + 1 + (n - v - 1) /\ n - v - 1 \in Nat
        BY <1>3, <2>1, <2>2
      <4>2. QED  BY <4>1
    <3>2. p = v * WordBits + WordBits + d * WordBits /\ d * WordBits \in Nat /\ v * WordBits \in Nat
      BY <1>3, <2>1, <3>1
    <3>3. QED  BY <1>3, <2>1, <3>2
  <2>3. ASSUME ~(v < n) PROVE ~(i < p)
    <3>1. PICK d \in Nat : v = n + d
      <4>1. v = n + (v - n) /\ v - n \in Nat
        BY <1>3, <2>1, <2>3
      <4>2. QED  BY <4>1
    <3>2. v * WordBits = p + d * WordBits /\ d * WordBits \in Nat
      BY <1>3, <2>1, <3>1
    <3>3. QED  BY <1>3, <2>1, <3>2
  <2>4. QED  BY <2>2, <2>3 DEF v
<1> HIDE DEF x, p
<1>6. ASSUME NEW i \in AllBits PROVE i \in ActiveSet(x) <=> i \in S
  <2>1. WordOf(i) \in 0 .. Words - 1 /\ i \in Nat
    BY PositionParts
  <2>2. i \in ActiveSet(x) <=> BitOf(i) \in x[WordOf(i)]
    BY <1>2, ActiveIs
  <2>3. i \in ActiveSet(bits) <=> BitOf(i) \in bits[WordOf(i)]
    BY ActiveIs
  <2>4. x[WordOf(i)] = IF i < p THEN {} ELSE bits[WordOf(i)]
    BY <1>2, <1>5, <2>1
  <2>5. i >= p <=> ~(i < p)
    BY <1>3, <2>1
  <2>6. QED  BY <2>2, <2>3, <2>4, <2>5
<1>7. ActiveSet(x) = S
  <2>1. ActiveSet(x) \subseteq AllBits /\ S \subseteq AllBits
    BY <1>2, ActiveIs
  <2>2. QED  BY <1>6, <2>1
<1>8. bits' = x /\ request' = <<"clear", p>> /\ Members!Becomes(ActiveSet(x))
  BY <1>1, BecomesIs DEF x, p
<1>9. request' = <<"clear", p>> /\ Members!Becomes(S)
  BY <1>7, <1>8
<1>10. p \in 0 .. Members!Cardinality(AllBits)
  BY <1>4, MembersCounted
<1>11. Members!ClearTo
  BY <1>9, <1>10 DEF Members!ClearTo
<1>12. QED  BY <1>2, <1>8, <1>11

LEMMA ChooseStep ==
    ASSUME bits \in BitArrays, GenerateBits
    PROVE  bits' \in BitArrays /\ Members!Choose
<1>1. PICK nbits \in 0 .. Words * WordBits, bit1 \in BOOLEAN :
        \E x \in Generated[<<nbits, bit1>>] : BitsBecome(x, <<"generate", nbits, bit1>>)
  BY DEF GenerateBits
<1>2. PICK x \in Generated[<<nbits, bit1>>] : BitsBecome(x, <<"generate", nbits, bit1>>)
  BY <1>1
<1>3. /\ x \in BitArrays
      /\ Cardinality(ActiveSet(x)) = nbits
      /\ bit1 /\ nbits > 0 => 0 \in ActiveSet(x)
  BY GeneratedCounted
<1>4. bits' = x /\ request' = <<"generate", nbits, bit1>> /\ Members!Becomes(ActiveSet(x))
  BY <1>2, BecomesIs
<1>5. ActiveSet(x) \in SUBSET AllBits /\ Members!Cardinality(ActiveSet(x)) = nbits
  BY <1>3, ActiveIs, MembersCounted
<1>6. nbits \in 0 .. Members!Cardinality(AllBits)
  BY MembersCounted
<1>7. QED  BY <1>3, <1>4, <1>5, <1>6 DEF Members!Choose

LEMMA CompressStep ==
    ASSUME bits \in BitArrays, FixGeneratedBits
    PROVE  bits' \in BitArrays /\ Members!Compress
<1>1. PICK size \in countBitsN(bits, Words) .. Words * WordBits :
        BitsBecome(Fixed(size), <<"fix", size>>)
  BY DEF FixGeneratedBits, Fixed
<1> DEFINE x == Fixed(size)
           S == ActiveSet(x)
<1>2. /\ x \in BitArrays
      /\ S \subseteq AllBits \cap 0 .. size - 1
      /\ Cardinality(S) = Cardinality(ActiveSet(bits))
      /\ {i \in ActiveSet(bits) : i < size} \subseteq S
  BY FixedCounted
<1>3. bits' = x /\ request' = <<"fix", size>> /\ Members!Becomes(S)
  BY <1>1, BecomesIs
<1>4. size \in Members!Cardinality(ActiveSet(bits)) .. Members!Cardinality(AllBits)
  BY AllCounted, MembersCounted
<1> HIDE DEF x
<1>5. Members!Cardinality(S) = Members!Cardinality(ActiveSet(bits))
  BY <1>2, MembersCounted
<1> HIDE DEF S
<1>6. QED  BY <1>2, <1>3, <1>4, <1>5 DEF Members!Compress

LEMMA NumberStep ==
    ASSUME bits \in BitArrays, Bits2IndexTable
    PROVE  Members!Number
<1>1. /\ indexTable' = [i \in AllBits |->
                          IF getOneBit(i) THEN IndexAt(WordOf(i), BitOf(i)) ELSE indexTable[i]]
      /\ request' = <<>> /\ tableOK' = FALSE /\ bits' = bits
  BY DEF Bits2IndexTable
<1>2. \A i \in AllBits : (getOneBit(i) <=> i \in ActiveSet(bits))
                         /\ IndexAt(WordOf(i), BitOf(i)) = Members!Rank(i)
  BY ActiveIs, IndexIsRank DEF getOneBit
<1>3. indexTable' = [i \in AllBits |-> IF i \in ActiveSet(bits) THEN Members!Rank(i) ELSE indexTable[i]]
  BY <1>1, <1>2
<1>4. QED  BY <1>1, <1>3 DEF Members!Number

LEMMA JudgeStep ==
    ASSUME bits \in BitArrays, CheckTable
    PROVE  Members!Judge
<1>1. PICK n \in 0 .. Words * WordBits :
        tableOK' = /\ \A i \in AllBits :
                        getOneBit(i) => indexTable[i] = IndexAt(WordOf(i), BitOf(i))
                   /\ countBitsN(bits, Words) = n
  BY Zenon DEF CheckTable
<1>2. request' = <<>> /\ bits' = bits /\ indexTable' = indexTable
  BY DEF CheckTable
<1>3. \A i \in AllBits : (getOneBit(i) <=> i \in ActiveSet(bits))
                         /\ IndexAt(WordOf(i), BitOf(i)) = Members!Rank(i)
  BY ActiveIs, IndexIsRank DEF getOneBit
<1>4. (\A i \in AllBits : getOneBit(i) => indexTable[i] = IndexAt(WordOf(i), BitOf(i)))
        <=> \A i \in ActiveSet(bits) : indexTable[i] = Members!Rank(i)
  BY <1>3, ActiveIs
<1>5. countBitsN(bits, Words) = n <=> n = Members!Cardinality(ActiveSet(bits))
  BY AllCounted, MembersCounted
<1>6. tableOK' = /\ n = Members!Cardinality(ActiveSet(bits))
                 /\ \A i \in ActiveSet(bits) : indexTable[i] = Members!Rank(i)
  BY <1>1, <1>4, <1>5, Zenon
<1>7. n \in 0 .. Members!Cardinality(AllBits)
  BY MembersCounted
<1>8. QED  BY <1>2, <1>6, <1>7, Zenon DEF Members!Judge

LEMMA BitStringNext ==
    ASSUME bits \in BitArrays, [NextBitString]_bitStringVars
    PROVE  bits' \in BitArrays /\ [Members!NextBitSet]_(Members!bitSetVars)
<1>1. CASE SetOneBit
  BY <1>1, PutStep DEF Members!NextBitSet
<1>2. CASE ResetOneBit
  BY <1>2, RemoveStep DEF Members!NextBitSet
<1>3. CASE ToggleOneBit
  BY <1>3, ExchangeStep DEF Members!NextBitSet
<1>4. CASE ResetBits
  BY <1>4, ClearToStep DEF Members!NextBitSet
<1>5. CASE GenerateBits
  BY <1>5, ChooseStep DEF Members!NextBitSet
<1>6. CASE FixGeneratedBits
  BY <1>6, CompressStep DEF Members!NextBitSet
<1>7. CASE Bits2IndexTable
  BY <1>7, NumberStep DEF Members!NextBitSet, Bits2IndexTable
<1>8. CASE WriteTable
  <2>1. Members!Damage
    BY <1>8 DEF WriteTable, Members!Damage
  <2>2. QED  BY <1>8, <2>1 DEF Members!NextBitSet, WriteTable
<1>9. CASE CheckTable
  BY <1>9, JudgeStep DEF Members!NextBitSet, CheckTable
<1>10. CASE UNCHANGED bitStringVars
  BY <1>10 DEF bitStringVars, Members!bitSetVars
<1>11. QED  BY <1>1, <1>2, <1>3, <1>4, <1>5, <1>6, <1>7, <1>8, <1>9, <1>10 DEF NextBitString

BitsInv == bits \in BitArrays

(* For any number of words of any width, the functions on bit strings are  *)
(* what their callers take them for: sets of positions.  Generated strings *)
(* have as many bits as asked for, fixing loses none, and the index table  *)
(* numbers the positions in order and is accepted exactly when it does.    *)
THEOREM ImplementsBitSetHolds == SpecBitString => ImplementsBitSet
<1>1. InitBitString => BitsInv /\ Members!InitBitSet
  <2>1. SUFFICES ASSUME InitBitString PROVE bits \in BitArrays /\ Members!InitBitSet
    BY DEF BitsInv
  <2>2. bits \in BitArrays /\ ActiveSet(bits) = {}
    <3>1. bits = [w \in 0 .. Words - 1 |-> {}]
      BY <2>1 DEF InitBitString
    <3>2. QED  BY <3>1 DEF BitArrays, ActiveSet
  <2>3. QED  BY <2>1, <2>2 DEF BitsInv, InitBitString, Members!InitBitSet, NewTable, Members!BlankTable
<1>2. BitsInv /\ [NextBitString]_bitStringVars
        => BitsInv' /\ [Members!NextBitSet]_(Members!bitSetVars)
  BY BitStringNext DEF BitsInv
<1>3. QED  BY <1>1, <1>2, PTL DEF SpecBitString, ImplementsBitSet, Members!SpecBitSet

-----------------------------------------------------------------------------
(* The functions without state *)

LEMMA TwoElements ==
    ASSUME NEW a, NEW b, a # b
    PROVE  Cardinality({a, b}) = 2
<1>1. IsFiniteSet({a}) /\ Cardinality({a}) = 1
  BY FS_Singleton
<1>2. Cardinality({a} \cup {b}) = Cardinality({a}) + 1
  BY <1>1, FS_AddElement
<1>3. {a} \cup {b} = {a, b}
  OBVIOUS
<1>4. QED  BY <1>1, <1>2, <1>3

(* The last slash among the first s, or 0 *)
IsLastSlash(path, s, b) ==
    /\ b \in 0 .. s
    /\ b = 0 \/ path[b] = "/"
    /\ \A j \in b + 1 .. s : path[j] # "/"

LEMMA BackIs ==
    ASSUME NEW path, NEW s \in Nat
    PROVE  IsLastSlash(path, s, Back(path, s))
<1>1. \E b \in 0 .. s : IsLastSlash(path, s, b)
  <2>1. CASE \A j \in 1 .. s : path[j] # "/"
    <3>1. IsLastSlash(path, s, 0)
      BY <2>1 DEF IsLastSlash
    <3>2. QED  BY <3>1
  <2>2. CASE \E j \in 1 .. s : path[j] = "/"
    <3> DEFINE S == {j \in 1 .. s : path[j] = "/"}
               T == {s - j : j \in S}
    <3>1. T \subseteq Nat /\ T # {}
      <4>1. \A j \in 1 .. s : s - j \in Nat
        OBVIOUS
      <4>2. QED  BY <2>2, <4>1
    <3> HIDE DEF T
    <3>2. PICK m \in T : \A k \in T : m <= k
      BY <3>1, LeastNat
    <3>3. PICK b \in S : m = s - b
      BY DEF T
    <3>4. ASSUME NEW j \in b + 1 .. s, path[j] = "/" PROVE FALSE
      <4>1. j \in S /\ s - j \in T
        BY <3>4 DEF T
      <4>2. s - b <= s - j /\ b \in Int /\ j \in Int /\ j > b
        BY <3>2, <3>3, <4>1
      <4>3. QED  BY <4>2
    <3>5. IsLastSlash(path, s, b)
      BY <3>4 DEF IsLastSlash
    <3>6. b \in 0 .. s
      OBVIOUS
    <3>7. QED  BY <3>5, <3>6
  <2>3. QED  BY <2>1, <2>2
<1>2. QED  BY <1>1 DEF IsLastSlash, Back

(* The slashes of what is left after some have been skipped *)
LEMMA SlashesLeft ==
    ASSUME NEW E, NEW path \in Seq(E), NEW skipped \in 0 .. Len(path), NEW S,
           S = {i \in skipped + 1 .. Len(path) : path[i] = "/"}
    PROVE  Slashes(SubSeq(path, skipped + 1, Len(path))) = Cardinality({i - skipped : i \in S})
<1> DEFINE rest == SubSeq(path, skipped + 1, Len(path))
<1>1. /\ DOMAIN rest = 1 .. Len(path) - skipped
      /\ \A i \in 1 .. Len(path) - skipped : rest[i] = path[i + skipped]
  BY LenProperties
<1>2. {i \in DOMAIN rest : rest[i] = "/"} = {i - skipped : i \in S}
  <2> HIDE DEF rest
  <2>1. Len(path) \in Nat
    BY LenProperties
  <2>2. \A i \in S : i - skipped \in 1 .. Len(path) - skipped /\ (i - skipped) + skipped = i
    BY <2>1
  <2>3. \A i \in 1 .. Len(path) - skipped : i + skipped \in skipped + 1 .. Len(path) /\ (i + skipped) - skipped = i
    BY <2>1
  <2>4. \A i \in 1 .. Len(path) - skipped : rest[i] = "/" => \E j \in S : i = j - skipped
    BY <1>1, <2>3
  <2>5. \A i \in S : rest[i - skipped] = "/"
    BY <1>1, <2>2
  <2>6. QED  BY <1>1, <2>2, <2>4, <2>5
<1>3. QED  BY <1>2 DEF Slashes

LEMMA ShortNameIs ==
    ASSUME NEW path \in Paths, WellFormed(path)
    PROVE  IsShortName(path, debug_shortName(path))
<1> DEFINE L == Len(path)
           E == {"/", "tests", "name"}
           name == Back(path, L)
           module == Back(path, name - 1)
           third == Back(path, module - 1)
           skipped == debug_shortName(path)
           All == {i \in 1 .. L : path[i] = "/"}
           After(b) == {i \in b + 1 .. L : path[i] = "/"}
           dir == SelectLastInSubSeq(path, 1, L, LAMBDA t : t = "/")
<1>1. path \in Seq(E) /\ L \in Nat /\ DOMAIN path = 1 .. L
  <2>1. PICK n \in 1 .. PathLength : path \in [1 .. n -> E]
    BY DEF Paths
  <2>2. n \in Nat
    BY HelpersAssumption
  <2>3. path \in Seq(E)
    <3> HIDE DEF E
    <3>1. QED  BY <2>1, <2>2, SeqDef
  <2>4. QED  BY <2>3, LenProperties
<1> HIDE DEF L, E
<1>2. IsLastSlash(path, L, name)
  BY <1>1, BackIs
<1>3. name # 0 => IsLastSlash(path, name - 1, module)
  <2>1. name # 0 => name - 1 \in Nat
    BY <1>1, <1>2 DEF IsLastSlash
  <2> HIDE DEF name
  <2>2. QED  BY <2>1, BackIs
<1>4. name # 0 /\ module # 0 => IsLastSlash(path, module - 1, third)
  <2>1. name # 0 /\ module # 0 => module - 1 \in Nat
    BY <1>1, <1>2, <1>3 DEF IsLastSlash
  <2> HIDE DEF name, module
  <2>2. QED  BY <2>1, BackIs
<1>5. skipped = IF name = 0 THEN 0
                ELSE IF module = 0 \/ path[module + 1] # "tests" THEN module ELSE third
  BY <1>1 DEF debug_shortName, L
<1>6. dir = name
  <2>1. dir = IF All # {} THEN Max(All) ELSE 0
    BY Zenon DEF SelectLastInSubSeq
  <2>2. CASE name = 0
    <3>1. All = {}
      BY <1>1, <1>2, <2>2 DEF IsLastSlash
    <3>2. QED  BY <2>1, <2>2, <3>1
  <2>3. CASE name # 0
    <3>1. name \in All /\ \A y \in All : name >= y
      BY <1>1, <1>2, <2>3 DEF IsLastSlash
    <3> HIDE DEF name
    <3>2. \A x \in All : (\A y \in All : x >= y) => x = name
      BY <1>1, <3>1
    <3>3. Max(All) = name
      <4> HIDE DEF All
      <4>1. QED  BY <3>1, <3>2 DEF Max
    <3>4. QED  BY <2>1, <3>1, <3>3
  <2>4. QED  BY <2>2, <2>3
<1> HIDE DEF dir, name, module, third, skipped
<1>7. ASSUME name # 0, module # 0
      PROVE  path[name - 1] = "tests" <=> path[module + 1] = "tests"
  <2>1. /\ name \in 1 .. L /\ module \in 1 .. name - 1
        /\ \A j \in module + 1 .. name - 1 : path[j] # "/"
        /\ path[name] = "/" /\ path[module] = "/"
    BY <1>1, <1>2, <1>3, <1>7 DEF IsLastSlash
  <2>2. \A j \in 1 .. L - 1 : "/" \in {path[j], path[j + 1]}
    BY DEF WellFormed, L
  <2>3. CASE module = name - 1
    BY <1>1, <2>1, <2>3
  <2>4. CASE module + 1 = name - 1
    BY <2>4
  <2>5. CASE module + 1 < name - 1
    <3>1. /\ module + 1 \in 1 .. L - 1
          /\ module + 1 \in module + 1 .. name - 1
          /\ (module + 1) + 1 \in module + 1 .. name - 1
      BY <1>1, <2>1, <2>5
    <3>2. QED  BY <2>1, <2>2, <3>1
  <2>6. QED  BY <1>1, <2>1, <2>3, <2>4, <2>5
<1>8. Slashes(path) = Cardinality(All)
  BY <1>1 DEF Slashes
<1>9. ASSUME NEW b \in 0 .. L
      PROVE  Slashes(SubSeq(path, b + 1, Len(path))) = Cardinality({i - b : i \in After(b)})
  BY <1>1, SlashesLeft DEF L
<1> DEFINE wanted == IF name > 1 /\ path[name - 1] = "tests" THEN 2 ELSE 1
<1>10. IsShortName(path, skipped)
         <=> \/ skipped = 0 /\ Cardinality(All) <= wanted
             \/ /\ skipped > 0 /\ path[skipped] = "/"
                /\ Slashes(SubSeq(path, skipped + 1, Len(path))) = wanted
  BY <1>6, <1>8, Zenon DEF IsShortName, dir, L
<1>11. CASE name = 0
  <2>1. All = {} /\ skipped = 0
    BY <1>1, <1>2, <1>5, <1>11 DEF IsLastSlash
  <2>2. Cardinality(All) = 0
    BY <2>1, FS_EmptySet
  <2>3. QED  BY <1>10, <2>1, <2>2 DEF skipped
<1>12. CASE name # 0 /\ module = 0
  <2>1. /\ name \in 1 .. L /\ path[name] = "/" /\ \A j \in name + 1 .. L : path[j] # "/"
        /\ \A j \in 1 .. name - 1 : path[j] # "/"
    BY <1>1, <1>2, <1>3, <1>12 DEF IsLastSlash
  <2>2. All = {name}
    BY <1>1, <2>1
  <2>3. Cardinality(All) = 1
    BY <2>2, FS_Singleton
  <2>4. skipped = 0
    BY <1>5, <1>12
  <2>5. QED  BY <1>10, <2>3, <2>4 DEF skipped
<1>13. CASE name # 0 /\ module # 0
  <2>1. /\ name \in 1 .. L /\ path[name] = "/" /\ \A j \in name + 1 .. L : path[j] # "/"
        /\ module \in 1 .. name - 1 /\ path[module] = "/"
        /\ \A j \in module + 1 .. name - 1 : path[j] # "/"
        /\ third \in 0 .. module - 1 /\ (third = 0 \/ path[third] = "/")
        /\ \A j \in third + 1 .. module - 1 : path[j] # "/"
    BY <1>1, <1>2, <1>3, <1>4, <1>13 DEF IsLastSlash
  <2>2. CASE path[module + 1] # "tests"
    <3>1. skipped = module /\ wanted = 1
      BY <1>5, <1>7, <1>13, <2>2
    <3>2. After(module) = {name}
      BY <1>1, <2>1
    <3>3. {i - module : i \in After(module)} = {name - module}
      BY <3>2
    <3>4. Slashes(SubSeq(path, module + 1, Len(path))) = 1
      <4>1. module \in 0 .. L
        BY <1>1, <2>1
      <4>2. Slashes(SubSeq(path, module + 1, Len(path))) = Cardinality({name - module})
        BY <1>9, <3>3, <4>1
      <4>3. QED  BY <4>2, FS_Singleton
    <3>5. module > 0
      BY <1>1, <2>1
    <3>6. QED  BY <1>10, <2>1, <3>1, <3>4, <3>5 DEF skipped
  <2>3. CASE path[module + 1] = "tests"
    <3>1. skipped = third /\ wanted = 2
      <4>1. name > 1
        BY <1>1, <2>1
      <4>2. QED  BY <1>5, <1>7, <1>13, <2>3, <4>1
    <3>2. After(third) = {name, module} /\ name # module
      BY <1>1, <2>1
    <3>3. CASE third = 0
      <4>1. All = {name, module}
        BY <3>2, <3>3
      <4>2. Cardinality(All) = 2
        <5>1. Cardinality({name, module}) = 2
          BY <3>2, TwoElements
        <5>2. QED  BY <4>1, <5>1
      <4>3. QED  BY <1>10, <3>1, <3>3, <4>2 DEF skipped
    <3>4. CASE third # 0
      <4>1. third > 0 /\ path[third] = "/" /\ third \in 0 .. L
        BY <1>1, <2>1, <3>4
      <4>2. {i - third : i \in After(third)} = {name - third, module - third}
        BY <3>2
      <4>3. name - third # module - third
        BY <1>1, <2>1
      <4>4. Slashes(SubSeq(path, third + 1, Len(path))) = 2
        <5>1. Cardinality({name - third, module - third}) = 2
          BY <4>3, TwoElements
        <5>2. QED  BY <1>9, <4>1, <4>2, <5>1
      <4>5. QED  BY <1>10, <3>1, <4>1, <4>4 DEF skipped
    <3>5. QED  BY <3>3, <3>4
  <2>4. QED  BY <2>2, <2>3
<1>14. QED  BY <1>11, <1>12, <1>13

(* The unit below a kilo-, mega-, giga- or terabyte *)
Below == {1, 1024, 1024 * 1024, 1024 * 1024 * 1024}

LEMMA TenthsAreNear ==
    ASSUME NEW i \in Nat, NEW V \in Below
    PROVE  LET u == 1024 * V
               error == 10 * (i - (i \div u) * u)
                          - ((((i - (i \div u) * u) \div V) + 50) \div 100) * u
           IN  -u < error /\ error < u
<1>1. CASE V = 1
  BY <1>1, SMT
<1>2. CASE V = 1024
  BY <1>2, SMT
<1>3. CASE V = 1024 * 1024
  BY <1>3, SMT
<1>4. CASE V = 1024 * 1024 * 1024
  BY <1>4, SMT
<1>5. QED  BY <1>1, <1>2, <1>3, <1>4 DEF Below

LEMMA MemoryIs ==
    ASSUME NEW i \in MemorySizes
    PROVE  LET m == debug_printMemory(i) IN IsMemory(i, m[1], m[2], m[3])
<1> DEFINE IsUnit(u) == WholeUnits(i, u) <= 999 /\ \A v \in 0 .. u - 1 : WholeUnits(i, v) > 999
           unit == CHOOSE u \in 0 .. 4 : IsUnit(u)
           main == WholeUnits(i, unit)
           rest == IF unit = 0 THEN 0 ELSE (i - main * UnitBytes(unit)) \div UnitBytes(unit - 1)
<1>1. i \in Nat /\ \E u \in 0 .. 4 : WholeUnits(i, u) <= 999
  BY HelpersAssumption
<1>2. \E u \in 0 .. 4 : IsUnit(u)
  <2> DEFINE T == {u \in 0 .. 4 : WholeUnits(i, u) <= 999}
  <2>1. T \subseteq Nat /\ T # {}
    BY <1>1
  <2>2. PICK m \in T : \A j \in T : m <= j
    <3> HIDE DEF T
    <3>1. QED  BY <2>1, LeastNat
  <2>3. \A v \in 0 .. m - 1 : WholeUnits(i, v) > 999
    <3>1. TAKE v \in 0 .. m - 1
    <3>2. v \in 0 .. 4 /\ ~(m <= v) /\ v \in {0, 1, 2, 3, 4}
      OBVIOUS
    <3>3. ~(WholeUnits(i, v) <= 999)
      BY <2>2, <3>2
    <3>4. WholeUnits(i, v) \in Int
      <4>1. CASE v = 0
        BY <1>1, <4>1, SMT DEF WholeUnits, UnitBytes
      <4>2. CASE v = 1
        BY <1>1, <4>2, SMT DEF WholeUnits, UnitBytes
      <4>3. CASE v = 2
        BY <1>1, <4>3, SMT DEF WholeUnits, UnitBytes
      <4>4. CASE v = 3
        BY <1>1, <4>4, SMT DEF WholeUnits, UnitBytes
      <4>5. CASE v = 4
        BY <1>1, <4>5, SMT DEF WholeUnits, UnitBytes
      <4>6. QED  BY <3>2, <4>1, <4>2, <4>3, <4>4, <4>5
    <3>5. QED  BY <3>3, <3>4
  <2>4. IsUnit(m)
    BY <2>3
  <2>5. m \in 0 .. 4
    OBVIOUS
  <2> HIDE DEF IsUnit
  <2>6. QED  BY <2>4, <2>5
<1>3. unit \in 0 .. 4 /\ IsUnit(unit)
  <2> HIDE DEF IsUnit
  <2>1. QED  BY <1>2
<1>4. debug_printMemory(i) = <<main, (rest + 50) \div 100, unit>>
  BY DEF debug_printMemory
<1> HIDE DEF unit
<1>5. (LET u == UnitBytes(unit)
           error == 10 * (i - main * u) - ((rest + 50) \div 100) * u
       IN  main <= 999 /\ -u < error /\ error < u)
        => IsMemory(i, main, (rest + 50) \div 100, unit)
  BY Zenon DEF IsMemory
<1>6. ASSUME NEW V \in Below, UnitBytes(unit) = 1024 * V, unit # 0, UnitBytes(unit - 1) = V
      PROVE  IsMemory(i, main, (rest + 50) \div 100, unit)
  <2> DEFINE u == 1024 * V
             r == i - (i \div u) * u
             d == ((r \div V) + 50) \div 100
  <2>1. main = i \div u /\ rest = r \div V
    BY <1>6 DEF WholeUnits
  <2>2. -u < 10 * r - d * u /\ 10 * r - d * u < u
    BY <1>1, TenthsAreNear
  <2>3. main <= 999
    BY <1>3
  <2>4. (rest + 50) \div 100 = d /\ i - main * u = r
    BY <2>1
  <2> HIDE DEF main, rest, d, r
  <2>5. QED  BY <1>5, <1>6, <2>2, <2>3, <2>4
<1>7. CASE unit = 0
  <2>1. UnitBytes(unit) = 1 /\ main = i /\ rest = 0 /\ main <= 999
    <3>1. UnitBytes(unit) = 1
      BY <1>7, SMT DEF UnitBytes
    <3>2. QED  BY <1>1, <1>3, <1>7, <3>1 DEF WholeUnits
  <2> HIDE DEF main, rest
  <2>2. (rest + 50) \div 100 = 0
    BY <2>1
  <2>3. QED  BY <1>1, <1>4, <1>5, <2>1, <2>2
<1>8. CASE unit # 0
  <2>1. unit \in {1, 2, 3, 4}
    BY <1>3, <1>8
  <2>2. \E V \in Below : UnitBytes(unit) = 1024 * V /\ UnitBytes(unit - 1) = V
    <3>1. CASE unit = 1
      BY <3>1, SMT DEF Below, UnitBytes
    <3>2. CASE unit = 2
      BY <3>2, SMT DEF Below, UnitBytes
    <3>3. CASE unit = 3
      BY <3>3, SMT DEF Below, UnitBytes
    <3>4. CASE unit = 4
      BY <3>4, SMT DEF Below, UnitBytes
    <3>5. QED  BY <2>1, <3>1, <3>2, <3>3, <3>4
  <2> HIDE DEF main, rest
  <2>3. QED  BY <1>4, <1>6, <1>8, <2>2
<1>9. QED  BY <1>7, <1>8

LEMMA ListType ==
    ASSUME NEW s, NEW list \in Lists(s)
    PROVE  /\ Len(list) \in Nat /\ DOMAIN list = 1 .. Len(list)
           /\ \A k \in 1 .. Len(list) : list[k] \in s
<1>1. PICK n \in 0 .. ListLength : list \in [1 .. n -> s]
  BY DEF Lists
<1>2. n \in Nat
  BY HelpersAssumption
<1>3. list \in Seq(s)
  BY <1>1, <1>2, SeqDef
<1>4. QED  BY <1>3, LenProperties

(* The buckets whose info one of the first r buckets has before them *)
Repeats(chain, r) ==
    {m \in 1 .. Len(chain) : \E c \in 1 .. r : c < m /\ chain[c] = chain[m]}

AddedAt(chain, r) == IF NotCounted(chain, r) THEN Cardinality(Later(chain, r)) ELSE 0

LEMMA RepeatsAdded ==
    ASSUME NEW chain \in Lists(Infos), NEW r \in 1 .. Len(chain)
    PROVE  /\ Cardinality(Repeats(chain, r)) = Cardinality(Repeats(chain, r - 1)) + AddedAt(chain, r)
           /\ AddedAt(chain, r) \in Nat
<1> DEFINE n == Len(chain)
           old == Repeats(chain, r - 1)
           new == Later(chain, r)
<1>1. n \in Nat
  BY ListType
<1>2. IsFiniteSet(1 .. n) /\ old \subseteq 1 .. n /\ new \subseteq 1 .. n
  <2>1. old \subseteq 1 .. n
    BY DEF Repeats
  <2>2. new \subseteq 1 .. n
    <3>1. \A m \in r + 1 .. n : m \in 1 .. n
      BY <1>1
    <3>2. QED  BY <3>1 DEF Later
  <2> HIDE DEF n, old, new
  <2>3. QED  BY <1>1, <2>1, <2>2, FS_Interval
<1>3. IsFiniteSet(old) /\ IsFiniteSet(new)
  BY <1>2, FS_Subset
<1>4. Cardinality(old) \in Nat /\ Cardinality(new) \in Nat
  BY <1>3, FS_CardinalityType
<1>5. Repeats(chain, r) = old \cup new
  <2>1. 1 .. r = (1 .. r - 1) \cup {r} /\ r \in Int
    OBVIOUS
  <2>2. \A m \in 1 .. n : r < m <=> m \in r + 1 .. n
    BY <1>1, <2>1
  <2>3. \A m \in r + 1 .. n : m \in 1 .. n
    BY <1>1
  <2>4. QED  BY <2>1, <2>2, <2>3 DEF Repeats, Later
<1>6. CASE NotCounted(chain, r)
  <2>1. old \cap new = {}
    <3>1. \A c \in 1 .. r - 1 : chain[c] # chain[r]
      BY <1>6 DEF NotCounted
    <3>2. QED  BY <3>1 DEF Repeats, Later
  <2>2. Cardinality(old \cup new) = Cardinality(old) + Cardinality(new) - Cardinality(old \cap new)
    BY <1>3, FS_Union
  <2>3. Cardinality(old \cap new) = 0
    BY <2>1, FS_EmptySet
  <2>4. QED  BY <1>4, <1>5, <1>6, <2>2, <2>3 DEF AddedAt
<1>7. CASE ~NotCounted(chain, r)
  <2>1. PICK c \in 1 .. r - 1 : chain[c] = chain[r]
    BY <1>7 DEF NotCounted
  <2>2. \A m \in new : m \in 1 .. n /\ c < m /\ chain[c] = chain[m]
    <3>1. \A m \in r + 1 .. n : m \in 1 .. n /\ c < m
      BY <1>1
    <3>2. QED  BY <2>1, <3>1 DEF Later
  <2>3. new \subseteq old
    BY <2>2 DEF Repeats
  <2>4. old \cup new = old
    BY <2>3
  <2>5. AddedAt(chain, r) = 0
    BY <1>7 DEF AddedAt
  <2>6. Cardinality(Repeats(chain, r)) = Cardinality(old)
    BY <1>5, <2>4
  <2>7. QED  BY <1>4, <2>5, <2>6
<1>8. QED  BY <1>6, <1>7

LEMMA NoRepeats ==
    ASSUME NEW chain \in Lists(Infos)
    PROVE  Cardinality(Repeats(chain, Len(chain))) = Len(chain) - Cardinality(ToSet(chain))
<1> DEFINE n == Len(chain)
           repeats == Repeats(chain, n)
           firsts == (1 .. n) \ repeats
           V == {chain[x] : x \in firsts}
<1>1. n \in Nat /\ DOMAIN chain = 1 .. n
  BY ListType
<1>2. IsFiniteSet(1 .. n) /\ Cardinality(1 .. n) = n
  <2> HIDE DEF n
  <2>1. QED  BY <1>1, FS_Interval
<1>3. repeats \subseteq 1 .. n /\ firsts \subseteq 1 .. n
      /\ 1 .. n = firsts \cup repeats /\ firsts \cap repeats = {}
  BY DEF Repeats
<1>4. \A m \in firsts : \A c \in 1 .. n : c < m => chain[c] # chain[m]
  BY DEF Repeats
<1>5. ASSUME NEW x \in firsts, NEW y \in firsts, chain[x] = chain[y] PROVE x = y
  <2>1. x \in Int /\ y \in Int /\ x \in 1 .. n /\ y \in 1 .. n
    BY <1>3
  <2>2. ~(x < y) /\ ~(y < x)
    BY <1>4, <1>5, <2>1
  <2>3. QED  BY <2>1, <2>2
<1>6. V = ToSet(chain)
  <2>1. ASSUME NEW i \in 1 .. n PROVE \E x \in firsts : chain[x] = chain[i]
    <3> DEFINE T == {x \in 1 .. n : chain[x] = chain[i]}
    <3>1. T \subseteq Nat /\ T # {}
      OBVIOUS
    <3> HIDE DEF T
    <3>2. PICK x \in T : \A y \in T : x <= y
      BY <3>1, LeastNat
    <3>3. x \in 1 .. n /\ chain[x] = chain[i]
      BY <3>2 DEF T
    <3>4. ASSUME NEW c \in 1 .. n, c < x, chain[c] = chain[x] PROVE FALSE
      <4>1. c \in T
        BY <3>3, <3>4 DEF T
      <4>2. x <= c
        BY <3>2, <4>1
      <4>3. QED  BY <3>3, <3>4, <4>2
    <3>5. x \in firsts
      BY <3>3, <3>4 DEF Repeats
    <3>6. QED  BY <3>3, <3>5
  <2> HIDE DEF firsts
  <2>2. \A v \in ToSet(chain) : v \in V
    BY <1>1, <2>1 DEF ToSet
  <2>3. \A v \in V : v \in ToSet(chain)
    BY <1>1, <1>3 DEF ToSet
  <2>4. QED  BY <2>2, <2>3
<1> HIDE DEF repeats, firsts
<1>7. IsFiniteSet(firsts) /\ IsFiniteSet(repeats)
  BY <1>2, <1>3, FS_Subset
<1>8. Cardinality(V) = Cardinality(firsts)
  BY <1>5, <1>7, ValuesCounted
<1>9. Cardinality(1 .. n) = Cardinality(firsts) + Cardinality(repeats)
  <2>1. Cardinality(firsts \cup repeats)
          = Cardinality(firsts) + Cardinality(repeats) - Cardinality(firsts \cap repeats)
    BY <1>7, FS_Union
  <2>2. Cardinality(firsts \cap repeats) = 0
    BY <1>3, FS_EmptySet
  <2>3. Cardinality(firsts) \in Nat /\ Cardinality(repeats) \in Nat
    BY <1>7, FS_CardinalityType
  <2>4. Cardinality(1 .. n) = Cardinality(firsts \cup repeats)
    BY <1>3, Zenon
  <2>5. QED  BY <2>1, <2>2, <2>3, <2>4
<1>10. Cardinality(firsts) \in Nat /\ Cardinality(repeats) \in Nat
  BY <1>7, FS_CardinalityType
<1> HIDE DEF V, n
<1>11. Cardinality(repeats) = n - Cardinality(ToSet(chain))
  BY <1>1, <1>2, <1>6, <1>8, <1>9, <1>10
<1>12. QED  BY <1>11 DEF repeats, n

LEMMA CollisionsAre ==
    ASSUME NEW chain \in Lists(Infos)
    PROVE  countCollisions(chain) = Len(chain) - Cardinality(ToSet(chain))
<1> DEFINE n == Len(chain)
           Body(f) == [r \in 0 .. n |-> IF r = 0 THEN 0 ELSE f[r - 1] + AddedAt(chain, r)]
           count == CHOOSE f : f = Body(f)
           G == [r \in 0 .. n |-> Cardinality(Repeats(chain, r))]
<1>1. n \in Nat
  BY ListType
<1>2. countCollisions(chain) = count[n]
  BY Zenon DEF countCollisions, AddedAt
<1>3. Repeats(chain, 0) = {}
  BY DEF Repeats
<1>4. \A r \in 0 .. n : G[r] = IF r = 0 THEN 0 ELSE G[r - 1] + AddedAt(chain, r)
  <2>1. TAKE r \in 0 .. n
  <2>2. CASE r = 0
    BY <1>1, <1>3, <2>2, FS_EmptySet
  <2>3. CASE r # 0
    <3>1. r \in 1 .. n /\ r - 1 \in 0 .. n
      BY <1>1, <2>3
    <3>2. G[r] = Cardinality(Repeats(chain, r)) /\ G[r - 1] = Cardinality(Repeats(chain, r - 1))
      BY <3>1
    <3> HIDE DEF G
    <3>3. QED  BY <2>3, <3>1, <3>2, RepeatsAdded
  <2>4. QED  BY <2>2, <2>3
<1>5. G = Body(G)
  <2>1. G = [r \in 0 .. n |-> G[r]]
    OBVIOUS
  <2> HIDE DEF G
  <2>2. QED  BY <1>4, <2>1, Zenon
<1>6. count = Body(count)
  <2> HIDE DEF Body
  <2>1. \E f : f = Body(f)
    BY <1>5
  <2>2. QED  BY <2>1, Zenon
<1>7. \A r \in 0 .. n : count[r] = IF r = 0 THEN 0 ELSE count[r - 1] + AddedAt(chain, r)
  <2> HIDE DEF count
  <2>1. \A r \in 0 .. n : Body(count)[r] = IF r = 0 THEN 0 ELSE count[r - 1] + AddedAt(chain, r)
    BY Zenon
  <2>2. QED  BY <1>6, <2>1, Zenon
<1> HIDE DEF count, G, Body
<1> DEFINE K == {r \in 0 .. n : count[r] = G[r]}
<1>8. 0 \in K
  <2>1. 0 \in 0 .. n
    BY <1>1
  <2>2. QED  BY <1>4, <1>7, <2>1
<1>9. \A r \in 1 .. n : r - 1 \in K => r \in K
  <2>1. TAKE r \in 1 .. n
  <2>2. r \in 0 .. n /\ r # 0
    BY <1>1
  <2>3. QED  BY <1>4, <1>7, <2>2
<1>10. n \in K
  <2> HIDE DEF K
  <2>1. n \in 0 .. n
    BY <1>1
  <2>2. QED  BY <1>1, <1>8, <1>9, <2>1, UpTo
<1>11. count[n] = Cardinality(Repeats(chain, n))
  <2>1. n \in 0 .. n
    BY <1>1
  <2>2. QED  BY <1>10, <2>1 DEF G
<1>12. QED  BY <1>2, <1>11, NoRepeats

(* The next position after i that the filter lets through, or the end *)
IsNext(container, i, j) ==
    /\ j \in i + 1 .. Len(container) + 1
    /\ j = Len(container) + 1 \/ container[j]
    /\ \A k \in i + 1 .. j - 1 : ~container[k]

LEMMA NextExists ==
    ASSUME NEW container \in Lists(BOOLEAN), NEW i \in 0 .. Len(container)
    PROVE  /\ \E j \in i + 1 .. Len(container) + 1 : IsNext(container, i, j)
           /\ IsNext(container, i, SkipToNext(container, i))
<1> DEFINE end == Len(container) + 1
           T == {j \in i + 1 .. end : j = end \/ container[j]}
<1>1. end \in Nat /\ end - 1 = Len(container)
  BY ListType
<1>2. T \subseteq Nat /\ end \in T
  BY <1>1
<1>3. PICK j \in T : \A k \in T : j <= k
  <2> HIDE DEF T
  <2>1. QED  BY <1>2, LeastNat
<1>4. \A k \in i + 1 .. j - 1 : ~container[k]
  <2>1. TAKE k \in i + 1 .. j - 1
  <2>2. k \in i + 1 .. end /\ ~(j <= k)
    BY <1>1
  <2>3. k \notin T
    BY <1>3, <2>2
  <2>4. QED  BY <2>2, <2>3
<1>5. j \in i + 1 .. end /\ IsNext(container, i, j)
  BY <1>4 DEF IsNext
<1>6. QED  BY <1>5 DEF IsNext, SkipToNext

LEMMA BeginIsNext ==
    ASSUME NEW container \in Lists(BOOLEAN)
    PROVE  IsNext(container, 0, FilterBegin(container))
<1>1. Len(container) \in Nat /\ DOMAIN container = 1 .. Len(container)
  BY ListType
<1>2. CASE Len(container) = 0
  <2>1. container = <<>>
    <3>1. PICK n \in 0 .. ListLength : container \in [1 .. n -> BOOLEAN]
      BY DEF Lists
    <3>2. n = 0
      <4>1. 1 .. n = {} /\ n \in Nat
        BY <1>1, <1>2, <3>1, HelpersAssumption
      <4>2. n # 0 => 1 \in 1 .. n
        BY <4>1
      <4>3. QED  BY <4>1, <4>2
    <3>3. QED  BY <3>1, <3>2
  <2>2. FilterBegin(container) = 1
    BY <2>1 DEF FilterBegin
  <2>3. QED  BY <1>2, <2>2 DEF IsNext
<1>3. CASE Len(container) # 0 /\ container[1]
  <2>1. FilterBegin(container) = 1
    BY <1>3 DEF FilterBegin
  <2>2. QED  BY <1>1, <1>3, <2>1 DEF IsNext
<1>4. CASE Len(container) # 0 /\ ~container[1]
  <2> DEFINE j == SkipToNext(container, 1)
  <2>1. 1 \in 0 .. Len(container) /\ container # <<>>
    BY <1>1, <1>4
  <2>2. FilterBegin(container) = j
    BY <1>4, <2>1 DEF FilterBegin
  <2>3. IsNext(container, 1, j)
    BY <2>1, NextExists
  <2> HIDE DEF j
  <2>4. j \in 2 .. Len(container) + 1 /\ \A k \in 2 .. j - 1 : ~container[k]
    BY <2>3 DEF IsNext
  <2>5. \A k \in 1 .. j - 1 : k = 1 \/ k \in 2 .. j - 1
    BY <2>4
  <2>6. \A k \in 1 .. j - 1 : ~container[k]
    BY <1>4, <2>4, <2>5
  <2>7. QED  BY <1>1, <2>2, <2>3, <2>4, <2>6 DEF IsNext
<1>5. QED  BY <1>2, <1>3, <1>4

(* Where the iterator is after k increments *)
IsWalk(container, place) ==
    /\ IsNext(container, 0, place[0])
    /\ \A k \in 1 .. Len(container) :
          LET end == Len(container) + 1
          IN  IF place[k - 1] = end THEN place[k] = end ELSE IsNext(container, place[k - 1], place[k])

LEMMA WalkPlaces ==
    ASSUME NEW container \in Lists(BOOLEAN), NEW place, IsWalk(container, place)
    PROVE  \A k \in 0 .. Len(container) :
              place[k] \in 1 .. Len(container) + 1 /\ (place[k] >= k + 1 \/ place[k] = Len(container) + 1)
<1> DEFINE L == Len(container)
           end == L + 1
           K == {k \in 0 .. L : place[k] \in 1 .. end /\ (place[k] >= k + 1 \/ place[k] = end)}
<1>1. L \in Nat
  BY ListType
<1>2. 0 \in K
  BY <1>1 DEF IsWalk, IsNext
<1>3. ASSUME NEW k \in 1 .. L, k - 1 \in K PROVE k \in K
  <2>1. place[k - 1] \in 1 .. end /\ (place[k - 1] >= k \/ place[k - 1] = end)
    BY <1>3
  <2>2. CASE place[k - 1] = end
    <3>1. place[k] = end
      BY <2>2 DEF IsWalk
    <3>2. QED  BY <1>1, <3>1
  <2>3. CASE place[k - 1] # end
    <3>1. place[k] \in place[k - 1] + 1 .. end
      BY <2>3 DEF IsWalk, IsNext
    <3>2. place[k] \in 1 .. end /\ place[k] >= k + 1
      BY <1>1, <2>1, <2>3, <3>1
    <3>3. QED  BY <3>2
  <2>4. QED  BY <2>2, <2>3
<1>4. \A k \in 0 .. L : k \in K
  <2> HIDE DEF K, L
  <2>1. QED  BY <1>1, <1>2, <1>3, UpTo
<1>5. QED  BY <1>4

(* The walk up to the end: the positions let through, in their order *)
LEMMA WalkVisits ==
    ASSUME NEW container \in Lists(BOOLEAN), NEW place, IsWalk(container, place),
           NEW m \in 0 .. Len(container), place[m] = Len(container) + 1,
           \A k \in 0 .. m - 1 : place[k] # Len(container) + 1
    PROVE  /\ \A k \in 0 .. m - 1 : place[k] \in 1 .. Len(container) /\ container[place[k]]
           /\ \A i \in 1 .. Len(container) : container[i] => \E k \in 0 .. m - 1 : place[k] = i
           /\ \A j, k \in 0 .. m - 1 : j < k => place[j] < place[k]
<1> DEFINE L == Len(container)
           end == L + 1
<1>1. L \in Nat /\ m \in Nat
  BY ListType
<1>2. \A k \in 0 .. L : place[k] \in 1 .. end
  BY WalkPlaces
<1>3. \A k \in 0 .. m - 1 : place[k] # end
  OBVIOUS
<1>4. \A k \in 1 .. m : k \in 1 .. L /\ k - 1 \in 0 .. m - 1 /\ IsNext(container, place[k - 1], place[k])
  <2>1. TAKE k \in 1 .. m
  <2>2. k \in 1 .. L /\ k - 1 \in 0 .. m - 1
    BY <1>1
  <2>3. QED  BY <1>3, <2>2 DEF IsWalk
<1>5. ASSUME NEW k \in 0 .. m - 1 PROVE place[k] \in 1 .. L /\ container[place[k]]
  <2>1. place[k] \in 1 .. end /\ place[k] # end
    <3>1. k \in 0 .. L
      BY <1>1
    <3>2. QED  BY <1>2, <1>3, <3>1
  <2>2. place[k] \in 1 .. L
    BY <1>1, <2>1
  <2>3. container[place[k]]
    <3>1. CASE k = 0
      BY <2>1, <3>1 DEF IsWalk, IsNext
    <3>2. CASE k # 0
      <4>1. k \in 1 .. m
        BY <1>1, <3>2
      <4>2. IsNext(container, place[k - 1], place[k])
        BY <1>4, <4>1
      <4>3. QED  BY <2>1, <4>2 DEF IsNext
    <3>3. QED  BY <3>1, <3>2
  <2>4. QED  BY <2>2, <2>3
<1>6. ASSUME NEW i \in 1 .. L, container[i] PROVE \E k \in 0 .. m - 1 : place[k] = i
  <2> DEFINE K == {k \in 0 .. m : (\E j \in 0 .. k : place[j] = i) \/ i > place[k]}
  <2>1. 0 \in K
    <3>1. place[0] \in 1 .. end /\ \A k \in 1 .. place[0] - 1 : ~container[k]
      BY <1>1, <1>2 DEF IsWalk, IsNext
    <3>2. i \notin 1 .. place[0] - 1
      BY <1>6, <3>1
    <3>3. i = place[0] \/ i > place[0]
      BY <1>1, <3>1, <3>2
    <3>4. 0 \in 0 .. m /\ 0 \in 0 .. 0
      BY <1>1
    <3>5. QED  BY <3>3, <3>4
  <2>2. ASSUME NEW k \in 1 .. m, k - 1 \in K PROVE k \in K
    <3>1. k \in 0 .. m /\ k \in 0 .. k /\ \A j \in 0 .. k - 1 : j \in 0 .. k
      BY <1>1
    <3>2. CASE \E j \in 0 .. k - 1 : place[j] = i
      BY <3>1, <3>2
    <3>3. CASE i > place[k - 1]
      <4>1. /\ place[k] \in place[k - 1] + 1 .. end
            /\ \A j \in place[k - 1] + 1 .. place[k] - 1 : ~container[j]
        BY <1>4 DEF IsNext
      <4>2. i \notin place[k - 1] + 1 .. place[k] - 1
        BY <1>6, <4>1
      <4>3. place[k - 1] \in Int
        <5>1. k - 1 \in 0 .. L
          BY <1>1
        <5>2. QED  BY <1>2, <5>1
      <4>4. i = place[k] \/ i > place[k]
        BY <1>1, <3>3, <4>1, <4>2, <4>3
      <4>5. QED  BY <3>1, <4>4
    <3>4. QED  BY <2>2, <3>2, <3>3
  <2>3. m \in K
    <3> HIDE DEF K
    <3>1. m \in 0 .. m
      BY <1>1
    <3>2. \A k \in 0 .. m : k \in K
      BY <1>1, <2>1, <2>2, UpTo
    <3>3. QED  BY <3>1, <3>2
  <2>4. ~(i > place[m]) /\ i # place[m]
    BY <1>1
  <2>5. PICK j \in 0 .. m : place[j] = i
    BY <2>3, <2>4
  <2>6. j # m
    BY <2>4, <2>5
  <2>7. j \in 0 .. m - 1
    BY <1>1, <2>6
  <2>8. QED  BY <2>5, <2>7
<1>7. ASSUME NEW j \in 0 .. m - 1, NEW l \in 0 .. m - 1, j < l PROVE place[j] < place[l]
  <2> DEFINE K == {k \in 0 .. m : j < k => place[j] < place[k]}
  <2>1. 0 \in K
    BY <1>1
  <2>2. ASSUME NEW k \in 1 .. m, k - 1 \in K PROVE k \in K
    <3>1. k \in 0 .. m /\ k - 1 \in 0 .. L /\ j \in 0 .. L
      BY <1>1
    <3>2. place[k] \in place[k - 1] + 1 .. end
      BY <1>4 DEF IsNext
    <3>3. place[k - 1] \in Int /\ place[j] \in Int
      BY <1>2, <3>1
    <3>4. place[k - 1] < place[k] /\ place[k] \in Int
      BY <1>1, <3>2, <3>3
    <3>5. j < k => j = k - 1 \/ j < k - 1
      OBVIOUS
    <3>6. j < k - 1 => place[j] < place[k - 1]
      BY <2>2
    <3>7. j < k => place[j] < place[k]
      BY <3>3, <3>4, <3>5, <3>6
    <3>8. QED  BY <3>1, <3>7
  <2>3. l \in 0 .. m
    BY <1>1
  <2>4. l \in K
    <3> HIDE DEF K
    <3>1. QED  BY <1>1, <2>1, <2>2, <2>3, UpTo
  <2>5. QED  BY <1>7, <2>4
<1>8. QED  BY <1>5, <1>6, <1>7

LEMMA FilterIs ==
    ASSUME NEW container \in Lists(BOOLEAN)
    PROVE  LET visited == Visited(container)
           IN  /\ ToSet(visited) = {i \in DOMAIN container : container[i]}
               /\ \A j, k \in DOMAIN visited : j < k => visited[j] < visited[k]
<1> DEFINE L == Len(container)
           end == L + 1
           Body(f) == [k \in 0 .. L |->
                         IF k = 0 THEN FilterBegin(container)
                         ELSE IF f[k - 1] = end THEN end ELSE SkipToNext(container, f[k - 1])]
           place == CHOOSE f : f = Body(f)
           steps == CHOOSE n \in 0 .. L : place[n] = end /\ \A k \in 0 .. n - 1 : place[k] # end
           visited == [k \in 1 .. steps |-> place[k - 1]]
           S == 1 .. end
           step == [k \in 1 .. L |->
                      [y \in S |-> IF y = end THEN end ELSE SkipToNext(container, y)]]
<1>1. Visited(container) = visited
  BY Zenon DEF Visited
<1>2. L \in Nat /\ DOMAIN container = 1 .. L
  BY ListType
<1>3. IsNext(container, 0, FilterBegin(container)) /\ FilterBegin(container) \in S
  BY BeginIsNext DEF IsNext
<1>4. ASSUME NEW y \in S, y # end
      PROVE  IsNext(container, y, SkipToNext(container, y)) /\ SkipToNext(container, y) \in S
  <2>1. y \in 0 .. L
    BY <1>2, <1>4
  <2>2. IsNext(container, y, SkipToNext(container, y))
    BY <2>1, NextExists
  <2>3. SkipToNext(container, y) \in y + 1 .. end
    BY <2>2 DEF IsNext
  <2>4. QED  BY <1>2, <2>1, <2>2, <2>3
<1>5. step \in [1 .. L -> [S -> S]]
  <2>1. end \in S
    BY <1>2
  <2> HIDE DEF S, end, L
  <2>2. QED  BY <1>4, <2>1
<1>6. PICK g : IsLoop(L, S, FilterBegin(container), step, g)
  <2> HIDE DEF step, S, L
  <2>1. QED  BY <1>2, <1>3, <1>5, Iteration
<1>7. /\ g \in [0 .. L -> S] /\ g[0] = FilterBegin(container)
      /\ \A k \in 1 .. L : g[k] = step[k][g[k - 1]]
  BY <1>6 DEF IsLoop
<1>8. ASSUME NEW k \in 0 .. L
      PROVE  g[k] = IF k = 0 THEN FilterBegin(container)
                    ELSE IF g[k - 1] = end THEN end ELSE SkipToNext(container, g[k - 1])
  <2>1. CASE k = 0
    BY <1>7, <2>1
  <2>2. CASE k # 0
    <3>1. k \in 1 .. L /\ k - 1 \in 0 .. L
      BY <1>2, <2>2
    <3>2. g[k - 1] \in S /\ g[k] = step[k][g[k - 1]]
      BY <1>7, <3>1
    <3> DEFINE y == g[k - 1]
    <3> HIDE DEF y, S
    <3>3. step[k][y] = IF y = end THEN end ELSE SkipToNext(container, y)
      BY <3>1, <3>2 DEF y
    <3>4. QED  BY <2>2, <3>2, <3>3 DEF y
  <2>3. QED  BY <2>1, <2>2
<1>9. g = Body(g)
  <2>1. g = [k \in 0 .. L |-> g[k]]
    BY <1>7
  <2>2. QED  BY <1>8, <2>1, Zenon
<1>10. place = Body(place)
  <2> HIDE DEF Body
  <2>1. \E f : f = Body(f)
    BY <1>9
  <2>2. QED  BY <2>1, Zenon
<1>11. \A k \in 0 .. L : place[k] = IF k = 0 THEN FilterBegin(container)
                                 ELSE IF place[k - 1] = end THEN end ELSE SkipToNext(container, place[k - 1])
  <2> HIDE DEF place
  <2>1. \A k \in 0 .. L : Body(place)[k] = IF k = 0 THEN FilterBegin(container)
                                 ELSE IF place[k - 1] = end THEN end ELSE SkipToNext(container, place[k - 1])
    BY Zenon
  <2>2. QED  BY <1>10, <2>1, Zenon
<1> HIDE DEF place, Body, step
<1>12. \A k \in 0 .. L : place[k] \in S
  <2> DEFINE K == {k \in 0 .. L : place[k] \in S}
  <2>1. 0 \in K
    BY <1>2, <1>3, <1>11
  <2>2. ASSUME NEW k \in 1 .. L, k - 1 \in K PROVE k \in K
    <3>1. k \in 0 .. L /\ k # 0 /\ place[k - 1] \in S /\ end \in S
      BY <1>2, <2>2
    <3> HIDE DEF S
    <3>2. place[k] = IF place[k - 1] = end THEN end ELSE SkipToNext(container, place[k - 1])
      BY <1>11, <3>1
    <3>3. place[k] \in S
      BY <1>4, <3>1, <3>2
    <3>4. QED  BY <3>1, <3>3
  <2>3. \A k \in 0 .. L : k \in K
    <3> HIDE DEF K, L
    <3>1. QED  BY <1>2, <2>1, <2>2, UpTo
  <2>4. QED  BY <2>3
<1>13. IsWalk(container, place)
  <2>1. IsNext(container, 0, place[0])
    BY <1>2, <1>3, <1>11
  <2>2. ASSUME NEW k \in 1 .. L
        PROVE  IF place[k - 1] = end THEN place[k] = end ELSE IsNext(container, place[k - 1], place[k])
    <3>1. k \in 0 .. L /\ k # 0 /\ k - 1 \in 0 .. L
      BY <1>2
    <3>2. place[k] = IF place[k - 1] = end THEN end ELSE SkipToNext(container, place[k - 1])
      BY <1>11, <3>1
    <3>3. place[k - 1] \in S
      BY <1>12, <3>1
    <3> HIDE DEF S, end
    <3>4. QED  BY <1>4, <3>2, <3>3
  <2>3. QED  BY <2>1, <2>2, Zenon DEF IsWalk
<1>14. \E n \in 0 .. L : place[n] = end /\ \A k \in 0 .. n - 1 : place[k] # end
  <2> DEFINE T == {k \in 0 .. L : place[k] = end}
  <2>1. place[L] = end
    <3>1. L \in 0 .. L
      BY <1>2
    <3>2. place[L] \in 1 .. end /\ (place[L] >= L + 1 \/ place[L] = end)
      BY <1>13, <3>1, WalkPlaces
    <3>3. QED  BY <1>2, <3>2
  <2>2. T \subseteq Nat /\ T # {}
    BY <1>2, <2>1
  <2>3. PICK n \in T : \A k \in T : n <= k
    <3> HIDE DEF T
    <3>1. QED  BY <2>2, LeastNat
  <2>4. \A k \in 0 .. n - 1 : place[k] # end
    <3>1. TAKE k \in 0 .. n - 1
    <3>2. k \in 0 .. L /\ ~(n <= k)
      BY <1>2
    <3>3. QED  BY <2>3, <3>2
  <2>5. QED  BY <2>3, <2>4
<1>15. steps \in 0 .. L /\ place[steps] = end /\ \A k \in 0 .. steps - 1 : place[k] # end
  BY <1>14
<1> DEFINE m == steps
<1> HIDE DEF steps
<1>16. /\ \A k \in 0 .. m - 1 : place[k] \in 1 .. L /\ container[place[k]]
       /\ \A i \in 1 .. L : container[i] => \E k \in 0 .. m - 1 : place[k] = i
       /\ \A j, k \in 0 .. m - 1 : j < k => place[j] < place[k]
  BY <1>13, <1>15, WalkVisits
<1>17. m \in Nat /\ DOMAIN visited = 1 .. m
  BY <1>2, <1>15
<1>18. \A k \in 1 .. m : visited[k] = place[k - 1] /\ k - 1 \in 0 .. m - 1
  BY <1>17
<1>19. \A k \in 0 .. m - 1 : k + 1 \in 1 .. m /\ visited[k + 1] = place[k]
  BY <1>17
<1> HIDE DEF visited, m, L
<1>20. ToSet(visited) = {i \in DOMAIN container : container[i]}
  <2>1. \A i \in ToSet(visited) : i \in 1 .. L /\ container[i]
    BY <1>16, <1>17, <1>18 DEF ToSet
  <2>2. \A i \in 1 .. L : container[i] => i \in ToSet(visited)
    BY <1>16, <1>17, <1>19 DEF ToSet
  <2>3. QED  BY <1>2, <2>1, <2>2
<1>21. \A j, k \in DOMAIN visited : j < k => visited[j] < visited[k]
  <2>1. SUFFICES ASSUME NEW j \in 1 .. m, NEW k \in 1 .. m, j < k PROVE visited[j] < visited[k]
    BY <1>17
  <2>2. j - 1 \in 0 .. m - 1 /\ k - 1 \in 0 .. m - 1 /\ j - 1 < k - 1
    BY <1>17, <2>1
  <2>3. QED  BY <1>16, <1>18, <2>2
<1>22. QED  BY <1>1, <1>20, <1>21

LEMMA SymRelationIs ==
    ASSUME NEW s, NEW t
    PROVE  base_symRelation(RelationOf(s, t)) = RelationOf(t, s)
<1>1. CASE s \subseteq t /\ t \subseteq s
  BY <1>1 DEF base_symRelation, RelationOf, base_SUPERSET, base_SUBSET
<1>2. CASE s \subseteq t /\ ~(t \subseteq s)
  BY <1>2 DEF base_symRelation, RelationOf, base_SUPERSET, base_SUBSET
<1>3. CASE ~(s \subseteq t) /\ t \subseteq s
  BY <1>3 DEF base_symRelation, RelationOf, base_SUPERSET, base_SUBSET
<1>4. CASE ~(s \subseteq t) /\ ~(t \subseteq s)
  BY <1>4 DEF base_symRelation, RelationOf, base_SUPERSET, base_SUBSET
<1>5. QED  BY <1>1, <1>2, <1>3, <1>4

LEMMA ConversionsAre ==
    ASSUME NEW s, NEW t
    PROVE  LET rel == RelationOf(s, t)
           IN  /\ base_sub2super(rel) = base_SUPERSET <=> s \subseteq t
               /\ base_super2sub(rel) = base_SUBSET <=> t \subseteq s
<1> USE DEF base_sub2super, base_super2sub, RelationOf, base_SUPERSET, base_SUBSET
<1>1. CASE s \subseteq t /\ t \subseteq s
  BY <1>1
<1>2. CASE s \subseteq t /\ ~(t \subseteq s)
  BY <1>2
<1>3. CASE ~(s \subseteq t) /\ t \subseteq s
  BY <1>3
<1>4. CASE ~(s \subseteq t) /\ ~(t \subseteq s)
  BY <1>4
<1>5. QED  BY <1>1, <1>2, <1>3, <1>4

First(x, n) == [k \in 1 .. n |-> x[k]]

LEMMA FirstOfArray ==
    ASSUME NEW x \in IntArrays, NEW n \in 0 .. 2
    PROVE  SubSeq(x, 1, n) = First(x, n)
<1>1. x \in Seq(Values) /\ Len(x) = 2
  <2>1. x \in [1 .. 2 -> Values]
    BY DEF IntArrays
  <2>2. x \in Seq(Values)
    BY <2>1, SeqDef
  <2>3. DOMAIN x = 1 .. Len(x) /\ Len(x) \in Nat
    BY <2>2, LenProperties
  <2>4. 1 .. Len(x) = 1 .. 2
    BY <2>1, <2>3
  <2>5. 2 \in 1 .. Len(x) /\ (Len(x) # 0 => Len(x) \in 1 .. 2)
    BY <2>3, <2>4
  <2>6. QED  BY <2>2, <2>3, <2>5
<1> DEFINE d == SubSeq(x, 1, n)
<1>2. d \in Seq(Values) /\ Len(d) = n /\ \A k \in 1 .. n : d[k] = x[k]
  BY <1>1
<1> HIDE DEF d
<1>3. d = [k \in 1 .. n |-> d[k]]
  BY <1>2, LenProperties
<1>4. d = First(x, n)
  BY <1>2, <1>3, Zenon DEF First
<1>5. QED  BY <1>4 DEF d

LEMMA AccumulatedIs ==
    ASSUME NEW diff, NEW n
    PROVE  Accumulated(diff, n) = {} <=> \A k \in 1 .. n : diff[k] = {}
BY DEF Accumulated

LEMMA XorIs ==
    ASSUME NEW a, NEW b
    PROVE  Xor(a, b) = {} <=> a = b
BY DEF Xor, SymDiff

LEMMA ComparisonsAre ==
    ASSUME NEW x \in IntArrays, NEW y \in IntArrays, NEW n \in 0 .. 2
    PROVE  /\ base_areBitsReset(x, n) <=> SubSeq(x, 1, n) = [k \in 1 .. n |-> {}]
           /\ base_areBitsEqual(x, y, n) <=> SubSeq(x, 1, n) = SubSeq(y, 1, n)
           /\ base_areEqual(x, y, n) <=> SubSeq(x, 1, n) = SubSeq(y, 1, n)
           /\ \A v : base_diff(x, n, v) = {} <=> ToSet(SubSeq(x, 1, n)) \subseteq {v}
<1>1. SubSeq(x, 1, n) = First(x, n) /\ SubSeq(y, 1, n) = First(y, n)
  BY FirstOfArray
<1>2. First(x, n) = [k \in 1 .. n |-> {}] <=> \A k \in 1 .. n : x[k] = {}
  BY DEF First
<1>3. First(x, n) = First(y, n) <=> \A k \in 1 .. n : x[k] = y[k]
  BY DEF First
<1>4. base_areBitsReset(x, n) <=> \A k \in 1 .. n : x[k] = {}
  BY AccumulatedIs DEF base_areBitsReset
<1>5. base_areBitsEqual(x, y, n) <=> \A k \in 1 .. n : x[k] = y[k]
  <2> DEFINE d == [k \in 1 .. n |-> Xor(x[k], y[k])]
  <2>1. \A k \in 1 .. n : d[k] = {} <=> x[k] = y[k]
    BY XorIs
  <2>2. base_areBitsEqual(x, y, n) <=> Accumulated(d, n) = {}
    BY DEF base_areBitsEqual
  <2> HIDE DEF d
  <2>3. QED  BY <2>1, <2>2, AccumulatedIs
<1>6. base_areEqual(x, y, n) <=> \A k \in 1 .. n : x[k] = y[k]
  <2>1. x # NullArray /\ y # NullArray
    <3>1. DOMAIN x = 1 .. 2 /\ DOMAIN y = 1 .. 2 /\ 1 \in 1 .. 2
      BY DEF IntArrays
    <3>2. DOMAIN NullArray = {}
      BY DEF NullArray
    <3>3. QED  BY <3>1, <3>2
  <2>2. QED  BY <2>1 DEF base_areEqual
<1>7. ASSUME NEW v PROVE base_diff(x, n, v) = {} <=> ToSet(First(x, n)) \subseteq {v}
  <2> DEFINE d == [k \in 1 .. n |-> Xor(x[k], v)]
  <2>1. \A k \in 1 .. n : d[k] = {} <=> x[k] = v
    BY XorIs
  <2>2. base_diff(x, n, v) = Accumulated(d, n)
    BY DEF base_diff
  <2> HIDE DEF d
  <2>3. base_diff(x, n, v) = {} <=> \A k \in 1 .. n : x[k] = v
    BY <2>1, <2>2, AccumulatedIs
  <2>4. ToSet(First(x, n)) \subseteq {v} <=> \A k \in 1 .. n : x[k] = v
    BY DEF ToSet, First
  <2>5. QED  BY <2>3, <2>4
<1>8. QED  BY <1>1, <1>2, <1>3, <1>4, <1>5, <1>6, <1>7

LEMMA NullIsEqualToNull ==
    ASSUME NEW x, NEW y, NullArray \in {x, y}, NEW n
    PROVE  base_areEqual(x, y, n) <=> x = y
BY DEF base_areEqual

LEMMA HelpersInit == InitHelpers => ResultsAreAsDefined
<1> SUFFICES ASSUME InitHelpers PROVE ResultsAreAsDefined
  OBVIOUS
<1>1. call[1] = "none"
  BY DEF InitHelpers, NoCall
<1>2. QED  BY <1>1 DEF ResultsAreAsDefined

LEMMA SameTruth ==
    ASSUME NEW a \in BOOLEAN, NEW b \in BOOLEAN, a <=> b
    PROVE  a = b
OBVIOUS

LEMMA HelpersNext ==
    ASSUME ResultsAreAsDefined, [NextHelpers]_helperVars
    PROVE  ResultsAreAsDefined'
<1>1. CASE CallShortName
  <2>1. PICK p \in Paths :
          WellFormed(p) /\ Called("shortName", p, <<debug_shortName(p)>>)
    BY <1>1 DEF CallShortName
  <2>2. call'[1] = "shortName" /\ call'[2] = p /\ call'[3][1] = debug_shortName(p)
    BY <2>1 DEF Called
  <2>3. IsShortName(p, debug_shortName(p))
    BY <2>1, ShortNameIs
  <2>4. QED  BY <2>2, <2>3 DEF ResultsAreAsDefined
<1>2. CASE CallPrintMemory
  <2>1. PICK i \in MemorySizes : Called("printMemory", <<i>>, debug_printMemory(i))
    BY <1>2 DEF CallPrintMemory
  <2>2. call'[1] = "printMemory" /\ call'[2][1] = i /\ call'[3] = debug_printMemory(i)
    BY <2>1 DEF Called
  <2>3. IsMemory(i, debug_printMemory(i)[1], debug_printMemory(i)[2], debug_printMemory(i)[3])
    BY MemoryIs
  <2>4. QED  BY <2>2, <2>3 DEF ResultsAreAsDefined
<1>3. CASE CallCountCollisions
  <2>1. PICK c \in Lists(Infos) : Called("collisions", c, <<countCollisions(c)>>)
    BY <1>3 DEF CallCountCollisions
  <2>2. call'[1] = "collisions" /\ call'[2] = c /\ call'[3][1] = countCollisions(c)
    BY <2>1 DEF Called
  <2>3. countCollisions(c) = Len(c) - Cardinality(ToSet(c))
    BY CollisionsAre
  <2>4. QED  BY <2>2, <2>3 DEF ResultsAreAsDefined
<1>4. CASE CallFilter
  <2>1. PICK c \in Lists(BOOLEAN) : Called("filter", c, Visited(c))
    BY <1>4 DEF CallFilter
  <2>2. call'[1] = "filter" /\ call'[2] = c /\ call'[3] = Visited(c)
    BY <2>1 DEF Called
  <2>3. /\ ToSet(Visited(c)) = {i \in DOMAIN c : c[i]}
        /\ \A j, k \in DOMAIN Visited(c) : j < k => Visited(c)[j] < Visited(c)[k]
    BY FilterIs
  <2>4. QED  BY <2>2, <2>3 DEF ResultsAreAsDefined
<1>5. CASE CallSymRelation
  <2>1. PICK s \in SUBSET Infos, t \in SUBSET Infos :
          Called("symRelation", <<s, t>>, <<base_symRelation(RelationOf(s, t))>>)
    BY <1>5 DEF CallSymRelation
  <2>2. /\ call'[1] = "symRelation" /\ call'[2][1] = s /\ call'[2][2] = t
        /\ call'[3][1] = base_symRelation(RelationOf(s, t))
    BY <2>1 DEF Called
  <2>3. call'[3][1] = RelationOf(t, s)
    BY <2>2, SymRelationIs
  <2>4. QED  BY <2>2, <2>3 DEF ResultsAreAsDefined
<1>6. CASE CallConversions
  <2>1. PICK s \in SUBSET Infos, t \in SUBSET Infos :
          Called("conversions", <<s, t>>,
                 <<base_sub2super(RelationOf(s, t)), base_super2sub(RelationOf(s, t))>>)
    BY <1>6 DEF CallConversions
  <2>2. /\ call'[1] = "conversions" /\ call'[2][1] = s /\ call'[2][2] = t
        /\ call'[3][1] = base_sub2super(RelationOf(s, t))
        /\ call'[3][2] = base_super2sub(RelationOf(s, t))
    BY <2>1 DEF Called
  <2>3. /\ call'[3][1] = base_SUPERSET <=> s \subseteq t
        /\ call'[3][2] = base_SUBSET <=> t \subseteq s
    BY <2>2, ConversionsAre
  <2>4. QED  BY <2>2, <2>3 DEF ResultsAreAsDefined
<1>7. CASE CallCompare
  <2>1. PICK x \in IntArrays, y \in IntArrays, n \in 0 .. 2 :
          Called("compare", <<x, y, n>>,
                 <<base_areBitsReset(x, n), base_areBitsEqual(x, y, n), base_areEqual(x, y, n)>>)
    BY <1>7 DEF CallCompare
  <2>2. /\ call'[1] = "compare"
        /\ call'[2][1] = x /\ call'[2][2] = y /\ call'[2][3] = n
    BY <2>1 DEF Called
  <2>3. /\ call'[3][1] = base_areBitsReset(x, n)
        /\ call'[3][2] = base_areBitsEqual(x, y, n)
        /\ call'[3][3] = base_areEqual(x, y, n)
    BY <2>1 DEF Called
  <2>4. /\ base_areBitsReset(x, n) = (SubSeq(x, 1, n) = [k \in 1 .. n |-> {}])
        /\ base_areBitsEqual(x, y, n) = (SubSeq(x, 1, n) = SubSeq(y, 1, n))
        /\ base_areEqual(x, y, n) = (SubSeq(x, 1, n) = SubSeq(y, 1, n))
    <3>1. base_areBitsReset(x, n) = (SubSeq(x, 1, n) = [k \in 1 .. n |-> {}])
      BY ComparisonsAre DEF base_areBitsReset
    <3>2. base_areBitsEqual(x, y, n) = (SubSeq(x, 1, n) = SubSeq(y, 1, n))
      <4>1. base_areBitsEqual(x, y, n) <=> SubSeq(x, 1, n) = SubSeq(y, 1, n)
        BY ComparisonsAre
      <4>2. base_areBitsEqual(x, y, n) \in BOOLEAN
        BY Zenon DEF base_areBitsEqual
      <4>3. QED  BY <4>1, <4>2, SameTruth, Zenon
    <3>3. base_areEqual(x, y, n) = (SubSeq(x, 1, n) = SubSeq(y, 1, n))
      <4>1. base_areEqual(x, y, n) <=> SubSeq(x, 1, n) = SubSeq(y, 1, n)
        BY ComparisonsAre
      <4>2. base_areEqual(x, y, n) \in BOOLEAN
        BY Zenon DEF base_areEqual
      <4>3. QED  BY <4>1, <4>2, SameTruth, Zenon
    <3>4. QED  BY <3>1, <3>2, <3>3, Zenon
  <2>5. call'[3][1] = (SubSeq(x, 1, n) = [k \in 1 .. n |-> {}])
    BY <2>3, <2>4, Zenon
  <2>6. \A i \in 2 .. 3 : call'[3][i] = (SubSeq(x, 1, n) = SubSeq(y, 1, n))
    <3>1. \A i \in 2 .. 3 : i = 2 \/ i = 3
      OBVIOUS
    <3>2. QED  BY <2>3, <2>4, <3>1, Zenon
  <2>7. QED  BY <2>2, <2>5, <2>6, Zenon DEF ResultsAreAsDefined
<1>8. CASE CallCompareNull
  <2>1. PICK x \in IntArrays \cup {NullArray}, y \in IntArrays \cup {NullArray}, n \in 0 .. 2 :
          /\ NullArray \in {x, y}
          /\ Called("compareNull", <<x, y>>, <<base_areEqual(x, y, n)>>)
    BY <1>8 DEF CallCompareNull
  <2>2. call'[1] = "compareNull" /\ call'[2][1] = x /\ call'[2][2] = y
    BY <2>1 DEF Called
  <2>3. call'[3][1] = base_areEqual(x, y, n)
    BY <2>1 DEF Called
  <2>4. base_areEqual(x, y, n) = (x = y)
    BY <2>1, NullIsEqualToNull, Zenon DEF base_areEqual
  <2>5. QED  BY <2>2, <2>3, <2>4, Zenon DEF ResultsAreAsDefined
<1>9. CASE CallDiff
  <2>1. PICK x \in IntArrays, v \in Values, n \in 0 .. 2 :
          Called("diff", <<x, v, n>>, <<base_diff(x, n, v)>>)
    BY <1>9 DEF CallDiff
  <2>2. /\ call'[1] = "diff" /\ call'[2][1] = x /\ call'[2][2] = v /\ call'[2][3] = n
        /\ call'[3][1] = base_diff(x, n, v)
    BY <2>1 DEF Called
  <2>3. base_diff(x, n, v) = {} <=> ToSet(SubSeq(x, 1, n)) \subseteq {v}
    BY ComparisonsAre
  <2>4. QED  BY <2>2, <2>3 DEF ResultsAreAsDefined
<1>10. CASE UNCHANGED helperVars
  BY <1>10, Zenon DEF ResultsAreAsDefined, helperVars
<1>11. QED
  BY <1>1, <1>2, <1>3, <1>4, <1>5, <1>6, <1>7, <1>8, <1>9, <1>10 DEF NextHelpers

(* The functions without state compute what their comments say of them,    *)
(* for paths, chains and containers of any length, any two sets and any    *)
(* arrays, and for quantities of memory below 1000 terabytes.              *)
THEOREM ResultsAreAsDefinedHolds == SpecHelpers => []ResultsAreAsDefined
<1>1. QED  BY HelpersInit, HelpersNext, PTL DEF SpecHelpers
=============================================================================
