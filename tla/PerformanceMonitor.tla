-------------------------- MODULE PerformanceMonitor --------------------------
(***************************************************************************)
(* The usage of the CPU that the publisher writes on every picture         *)
(* (src/PerformanceMonitor.cpp).  A sample compares three counters with    *)
(* those of the sample before: times(), which advances once per Tick, and  *)
(* the ticks that the process has spent in user code and in the system.    *)
(* When times() has not advanced, or a counter is smaller than it was, the *)
(* sample is skipped.  Time is counted in units finer than a tick, and the *)
(* clock of the pictures and times() advance together (nobody sets the     *)
(* clock).  Memory sizes are left out, no step depends on them.            *)
(***************************************************************************)
EXTENDS Integers

CONSTANTS
    interval_,              \* between two samples
    number_of_processors_,
    Tick,                   \* between two values of times()
    MaxDelay,               \* bound: from taking last_perf_time_ to the sample
    MaxWait,                \* bound: between two pictures
    UIntMax                 \* the largest unsigned int

\* In the program a second, ten milliseconds, two reads of /proc and 32 bits.
ASSUME MonitorAssumption ==
    /\ interval_ \in Nat /\ number_of_processors_ \in Nat \ {0} /\ Tick \in Nat \ {0}
    /\ MaxDelay \in Nat /\ MaxDelay + Tick <= interval_
    /\ MaxWait \in Nat /\ MaxWait > interval_
    /\ UIntMax \in Nat /\ UIntMax >= 300

VARIABLES
    cpu_usage_,
    sincePerf,       \* age of last_perf_time_
    sinceTick,       \* age of the tick that the last sample fell into
    wentBack,        \* history: the last sample found a counter smaller than before
    refreshed        \* history: a picture has taken a new sample

vars == <<cpu_usage_, sincePerf, sinceTick, wentBack, refreshed>>

\* Regression: the result is kept in an int.
SkippedSigned == -1

\* A skipped sample: -1, returned as an unsigned int.
Skipped == (-1) % (UIntMax + 1)

TypeOK ==
    /\ cpu_usage_ \in 0 .. UIntMax
    /\ sincePerf \in 0 .. interval_
    /\ sinceTick \in 0 .. interval_ + Tick - 1
    /\ wentBack \in BOOLEAN /\ refreshed \in BOOLEAN

\* The most the two counters of the process can have gone on by while times()
\* did by that many ticks: all processors were busy a little longer, and the
\* counters are cut down to whole ticks one by one.
MostUsed(ticks) == number_of_processors_ * (ticks + 1) + 1

\* The quotient, cut off: what is a whole percentage may come out as a double
\* just below it.
Percentages(used, ticks) ==
    LET available == ticks * number_of_processors_
        percent == (100 * used) \div available
    IN  {percent} \cup {p \in {percent - 1} : p >= 0 /\ (100 * used) % available = 0}

Sample(ticks, back) ==
    IF ticks = 0 \/ back
      THEN {Skipped}
      ELSE UNION {Percentages(used, ticks) : used \in 0 .. MostUsed(ticks)}

\* A counter that has overflowed, or that the system has corrected, is smaller
\* than it was; age is that of the tick of the sample before.
GetCurrentCpuUsage(age) ==
    \E back \in BOOLEAN :
        /\ cpu_usage_' \in Sample(age \div Tick, back)
        /\ wentBack' = back
        /\ sinceTick' = age % Tick

\* The constructor samples twice with nothing but the count of the processors
\* in between: usually the second sample is skipped.
Init ==
    /\ sincePerf \in 0 .. MaxDelay
    /\ wentBack \in BOOLEAN
    /\ \E age \in 0 .. MaxDelay + Tick - 1 :
          /\ cpu_usage_ \in Sample(age \div Tick, wentBack)
          /\ sinceTick = age % Tick
    /\ refreshed = FALSE

Keeps(wait) ==
    /\ sincePerf + wait <= interval_
    /\ sincePerf' = sincePerf + wait
    /\ sinceTick' = sinceTick + wait
    /\ UNCHANGED <<cpu_usage_, wentBack, refreshed>>

\* Regression: last_perf_time_ is not taken anew, so every picture samples.
RefreshesAlways(wait) ==
    /\ sincePerf + wait > interval_
    /\ \E delay \in 0 .. MaxDelay : GetCurrentCpuUsage(sinceTick + wait + delay)
    /\ sincePerf' = interval_
    /\ refreshed' = TRUE

Refreshes(wait) ==
    /\ sincePerf + wait > interval_
    /\ \E delay \in 0 .. MaxDelay :
          /\ sincePerf' = delay
          /\ GetCurrentCpuUsage(sinceTick + wait + delay)
    /\ refreshed' = TRUE

\* Called for every picture, a while after the last call.
GetPerformanceString == \E wait \in 0 .. MaxWait : Keeps(wait) \/ Refreshes(wait)

Spec == Init /\ [][GetPerformanceString]_vars

---------------------------------------------------------------------------
\* The ticks that pass between two samples of pictures at least.
LeastTicks == (interval_ + 1 - MaxDelay) \div Tick

\* From the first new sample on, unless a counter has gone back, what is
\* displayed is the usage between two samples: at most 100 and what cutting
\* the counters down to ticks adds to it (one or two when there are a hundred
\* ticks).  No sequence of pictures makes two samples meet in one tick
\* (get_performance_string, get_current_cpu_usage).
UsageIsPercent ==
    refreshed /\ ~wentBack =>
        cpu_usage_ <= 100 + (100 * (number_of_processors_ + 1))
                              \div (number_of_processors_ * LeastTicks)
=============================================================================
