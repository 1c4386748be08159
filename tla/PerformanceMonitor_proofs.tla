---------------------- MODULE PerformanceMonitor_proofs ----------------------
(* Proofs about the performance monitor, for every interval, tick, delay    *)
(* and number of processors.                                                *)
EXTENDS PerformanceMonitor, TLAPS

---------------------------------------------------------------------------
(* Division of naturals.                                                   *)

LEMMA Division ==
    ASSUME NEW a \in Nat, NEW w \in Nat \ {0}
    PROVE  /\ a \div w \in Nat /\ a % w \in 0 .. w - 1
           /\ a = w * (a \div w) + (a % w)
  OBVIOUS

LEMMA Quotient ==
    ASSUME NEW a \in Nat, NEW w \in Nat \ {0}
    PROVE  a \div w \in Nat /\ w * (a \div w) <= a /\ a < w * (a \div w) + w
<1> DEFINE q == a \div w
<1> DEFINE r == a % w
<1>1. q \in Nat /\ r \in 0 .. w - 1 /\ a = w * q + r
  BY Division
<1> HIDE DEF q, r
<1>2. w * q \in Int
  BY <1>1
<1> QED
  BY <1>1, <1>2 DEF q

LEMMA TimesMonotone ==
    ASSUME NEW k \in Nat, NEW x \in Int, NEW y \in Int, x <= y
    PROVE  k * x <= k * y
<1>1. k * (y - x) >= 0 /\ k * (y - x) = k * y - k * x
  OBVIOUS
<1>2. k * x \in Int /\ k * y \in Int
  OBVIOUS
<1> QED
  BY <1>1, <1>2

\* A quotient is at most what it is of a larger dividend and a smaller divisor.
LEMMA QuotientBound ==
    ASSUME NEW c \in Nat, NEW v \in Nat \ {0}, NEW w \in Nat \ {0}, v <= w,
           NEW a \in Nat, a <= 100 * w + c
    PROVE  a \div w <= 100 + c \div v
<1> DEFINE q == a \div w
<1> DEFINE s == c \div v
<1>1. q \in Nat /\ w * q <= a /\ s \in Nat /\ c < v * s + v
  BY Quotient
<1> HIDE DEF q, s
<1>2. SUFFICES ASSUME q >= 101 + s PROVE FALSE
  BY <1>1 DEF q, s
<1>3. w * (101 + s) <= w * q
  BY <1>1, <1>2, TimesMonotone
<1>4. (s + 1) * v <= (s + 1) * w
  BY <1>1, TimesMonotone
<1>5. w * (101 + s) = 100 * w + (s + 1) * w /\ (s + 1) * v = v * s + v
  BY <1>1
<1>6. w * q \in Int /\ (s + 1) * w \in Int /\ (s + 1) * v \in Int /\ v * s \in Int
  BY <1>1
<1> QED
  BY <1>1, <1>3, <1>4, <1>5, <1>6

LEMMA Limits ==
    /\ interval_ \in Nat /\ number_of_processors_ \in Nat \ {0} /\ Tick \in Nat \ {0}
    /\ MaxDelay \in Nat /\ MaxDelay + Tick <= interval_
    /\ MaxWait \in Nat /\ UIntMax \in Nat /\ UIntMax >= 300
  BY MonitorAssumption

---------------------------------------------------------------------------
(* What a sample can be.                                                   *)

\* The bound of UsageIsPercent when that many ticks have passed at least.
Bound(ticks) ==
    100 + (100 * (number_of_processors_ + 1)) \div (number_of_processors_ * ticks)

LEMMA PercentBound ==
    ASSUME NEW ticks \in Nat, NEW least \in Nat \ {0}, least <= ticks,
           NEW used \in 0 .. MostUsed(ticks), NEW p \in Percentages(used, ticks)
    PROVE  p \in Nat /\ p <= Bound(least)
<1> DEFINE n == number_of_processors_
<1> DEFINE c == 100 * (n + 1)
<1> DEFINE v == n * least
<1> DEFINE w == ticks * n
<1> DEFINE q == (100 * used) \div w
<1>0. n \in Nat \ {0} /\ MostUsed(ticks) = n * (ticks + 1) + 1
  BY Limits DEF MostUsed
<1>1. p = q \/ (p = q - 1 /\ p >= 0)
  BY DEF Percentages
<1>2. Bound(least) = 100 + c \div v
  BY DEF Bound
<1> HIDE DEF n
<1>3. c \in Nat /\ n * ticks \in Nat /\ w = n * ticks
  BY <1>0
<1>4. v \in Nat \ {0} /\ v <= w
  <2>1. n * 1 <= n * least /\ n * least <= n * ticks
    BY <1>0, TimesMonotone
  <2> QED
    BY <1>0, <1>3, <2>1
<1>5. 100 * used \in Nat /\ 100 * used <= 100 * w + c
  <2>1. used \in Nat /\ used <= n * ticks + n + 1
    BY <1>0, <1>3
  <2> QED
    BY <1>0, <1>3, <2>1
<1>6. w \in Nat \ {0}
  BY <1>3, <1>4
<1> HIDE DEF c, v, w
<1>7. q \in Nat /\ q <= 100 + c \div v
  BY <1>3, <1>4, <1>5, <1>6, QuotientBound, Division
<1>8. c \div v \in Nat
  BY <1>3, <1>4, Division
<1> HIDE DEF q
<1> QED
  BY <1>1, <1>2, <1>7, <1>8

LEMMA SampleType ==
    ASSUME NEW ticks \in Nat, NEW back \in BOOLEAN, NEW p \in Sample(ticks, back)
    PROVE  /\ p \in 0 .. UIntMax
           /\ \A least \in Nat \ {0} : ~back /\ least <= ticks => p <= Bound(least)
<1>1. CASE ticks = 0 \/ back
  <2>1. p = (-1) % (UIntMax + 1)
    BY <1>1 DEF Sample, Skipped
  <2>2. p \in 0 .. UIntMax
    BY <2>1, Limits
  <2> QED
    BY <1>1, <2>2
<1>2. CASE ~(ticks = 0 \/ back)
  <2>1. PICK used \in 0 .. MostUsed(ticks) : p \in Percentages(used, ticks)
    BY <1>2 DEF Sample
  <2>2. \A least \in Nat \ {0} : least <= ticks => p \in Nat /\ p <= Bound(least)
    BY <2>1, PercentBound
  <2>3. Bound(1) <= 300
    <3> DEFINE n == number_of_processors_
    <3>1. n \in Nat \ {0}
      BY Limits
    <3>2. Bound(1) = 100 + (100 * (n + 1)) \div (n * 1)
      BY DEF Bound
    <3> HIDE DEF n
    <3>3. n * 1 = n /\ 100 * (n + 1) \in Nat /\ 100 * (n + 1) <= 100 * n + 100 * n
      BY <3>1
    <3>4. (100 * (n + 1)) \div n \in Nat /\ n * ((100 * (n + 1)) \div n) <= 100 * (n + 1)
      BY <3>1, <3>3, Quotient
    <3> DEFINE q == (100 * (n + 1)) \div n
    <3>5. q \in Nat /\ n * q <= 200 * n
      BY <3>1, <3>3, <3>4
    <3> HIDE DEF q
    <3>6. q <= 200
      <4>1. SUFFICES ASSUME q >= 201 PROVE FALSE
        BY <3>5
      <4>2. n * 201 <= n * q
        BY <3>1, <3>5, <4>1, TimesMonotone
      <4> QED
        BY <3>1, <3>5, <4>2
    <3> QED
      BY <3>2, <3>3, <3>5, <3>6 DEF q
  <2>4. p \in Nat /\ p <= Bound(1)
    BY <1>2, <2>2
  <2>5. Bound(1) \in Int
    BY Limits DEF Bound
  <2> QED
    BY <2>2, <2>3, <2>4, <2>5, Limits
<1> QED
  BY <1>1, <1>2

---------------------------------------------------------------------------
(***************************************************************************)
(* UsageIsPercent is not inductive: that ticks pass between two samples    *)
(* needs that the tick of a sample is at least as old as the sample, which *)
(* is at most MaxDelay younger than last_perf_time_.                       *)
(***************************************************************************)
MonitorInv ==
    /\ cpu_usage_ \in 0 .. UIntMax /\ wentBack \in BOOLEAN /\ refreshed \in BOOLEAN
    /\ sincePerf \in 0 .. interval_ /\ sinceTick \in Nat
    /\ sincePerf - MaxDelay <= sinceTick /\ sinceTick <= sincePerf + Tick - 1
    /\ refreshed /\ ~wentBack => cpu_usage_ <= Bound(LeastTicks)

LEMMA InitMonitor == Init => MonitorInv
<1> SUFFICES ASSUME Init PROVE MonitorInv
  OBVIOUS
<1>1. sincePerf \in 0 .. MaxDelay /\ wentBack \in BOOLEAN /\ refreshed = FALSE
  BY DEF Init
<1>2. PICK age \in 0 .. MaxDelay + Tick - 1 :
         cpu_usage_ \in Sample(age \div Tick, wentBack) /\ sinceTick = age % Tick
  BY DEF Init
<1>3. age \in Nat
  BY Limits
<1>4. age \div Tick \in Nat /\ sinceTick \in 0 .. Tick - 1
  BY <1>2, <1>3, Limits, Division
<1>5. cpu_usage_ \in 0 .. UIntMax
  BY <1>1, <1>2, <1>4, SampleType
<1>6. /\ sincePerf \in 0 .. interval_ /\ sinceTick \in Nat
      /\ sincePerf - MaxDelay <= sinceTick /\ sinceTick <= sincePerf + Tick - 1
  BY <1>1, <1>4, Limits
<1>7. refreshed \in BOOLEAN /\ ~refreshed
  BY <1>1
<1> QED
  BY <1>1, <1>5, <1>6, <1>7, Zenon DEF MonitorInv

\* Since the last sample at least that many ticks have passed.
LEMMA TicksPass ==
    ASSUME NEW age \in Nat, age >= interval_ + 1 - MaxDelay
    PROVE  LeastTicks \in Nat \ {0} /\ LeastTicks <= age \div Tick /\ age \div Tick \in Nat
<1> DEFINE a == interval_ + 1 - MaxDelay
<1> DEFINE q == a \div Tick
<1> DEFINE r == age \div Tick
<1>1. a \in Nat /\ a >= Tick /\ Tick \in Nat \ {0}
  BY Limits
<1>2. /\ q \in Nat /\ Tick * q <= a /\ a < Tick * q + Tick
      /\ r \in Nat /\ age < Tick * r + Tick
  BY <1>1, Quotient
<1>3. LeastTicks = q
  BY DEF LeastTicks
<1> HIDE DEF a, q, r
<1>4. q # 0
  BY <1>1, <1>2
<1>5. q <= r
  <2>1. SUFFICES ASSUME r + 1 <= q PROVE FALSE
    BY <1>2
  <2>2. Tick * (r + 1) <= Tick * q
    BY <1>1, <1>2, <2>1, TimesMonotone
  <2>3. Tick * (r + 1) = Tick * r + Tick /\ Tick * r \in Nat /\ Tick * q \in Nat
    BY <1>1, <1>2
  <2>4. a <= age
    BY DEF a
  <2> QED
    BY <1>1, <1>2, <2>2, <2>3, <2>4
<1> QED
  BY <1>2, <1>3, <1>4, <1>5 DEF r

LEMMA NextMonitor == MonitorInv /\ [GetPerformanceString]_vars => MonitorInv'
<1> SUFFICES ASSUME MonitorInv, [GetPerformanceString]_vars PROVE MonitorInv'
  OBVIOUS
<1> USE DEF MonitorInv
<1>1. ASSUME NEW wait \in 0 .. MaxWait, Keeps(wait) PROVE MonitorInv'
  BY <1>1, Limits DEF Keeps
<1>2. ASSUME NEW wait \in 0 .. MaxWait, Refreshes(wait) PROVE MonitorInv'
  <2>1. PICK delay \in 0 .. MaxDelay :
           sincePerf' = delay /\ GetCurrentCpuUsage(sinceTick + wait + delay)
    BY <1>2 DEF Refreshes
  <2>2. sincePerf + wait > interval_ /\ refreshed'
    BY <1>2 DEF Refreshes
  <2> DEFINE age == sinceTick + wait + delay
  <2>3. age \in Nat /\ age >= interval_ + 1 - MaxDelay
    BY <2>2, Limits
  <2>4. cpu_usage_' \in Sample(age \div Tick, wentBack') /\ wentBack' \in BOOLEAN
        /\ sinceTick' = age % Tick
    BY <2>1 DEF GetCurrentCpuUsage
  <2> HIDE DEF age
  <2>5. LeastTicks \in Nat \ {0} /\ LeastTicks <= age \div Tick /\ age \div Tick \in Nat
    BY <2>3, TicksPass
  <2>6. cpu_usage_' \in 0 .. UIntMax /\ (~wentBack' => cpu_usage_' <= Bound(LeastTicks))
    BY <2>4, <2>5, SampleType
  <2>7. sinceTick' \in 0 .. Tick - 1
    BY <2>3, <2>4, Limits, Division
  <2> QED
    BY <2>1, <2>2, <2>4, <2>6, <2>7, Limits
<1>3. CASE UNCHANGED vars
  BY <1>3 DEF vars
<1> QED
  BY <1>1, <1>2, <1>3 DEF GetPerformanceString

---------------------------------------------------------------------------
(* The theorems.                                                           *)

\* What is displayed is an unsigned int, and the ages have their bounds
\* (get_performance_string, get_current_cpu_usage).
THEOREM TypeCorrect == Spec => []TypeOK
<1>1. MonitorInv => TypeOK
  BY Limits DEF MonitorInv, TypeOK
<1> QED
  BY InitMonitor, NextMonitor, <1>1, PTL DEF Spec

\* Whatever the interval, the tick, the delays and the number of processors,
\* as long as a delay and a tick fit into the interval: a new sample that finds
\* no counter gone back is a usage, at most 100 and the rounding, and is never
\* skipped (get_performance_string, get_current_cpu_usage).
THEOREM UsageStaysPercent == Spec => []UsageIsPercent
<1>1. MonitorInv => UsageIsPercent
  BY DEF MonitorInv, UsageIsPercent, Bound
<1> QED
  BY InitMonitor, NextMonitor, <1>1, PTL DEF Spec
=============================================================================
