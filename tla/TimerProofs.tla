---------------------------- MODULE TimerProofs -----------------------------
(***************************************************************************)
(* For any tick rate, delays and width of the counter: the frequency that  *)
(* ftimer_init finds is sound, and calibrating again does not set the      *)
(* clock back.                                                             *)
(***************************************************************************)
EXTENDS Timer, TLAPS

Ticks == 0 .. UINT64 - 1

\* Division with remainder, for a divisor w > 0.
LEMMA DivMod ==
  ASSUME NEW x \in Nat, NEW w \in Nat \ {0}
  PROVE  /\ x = w * (x \div w) + (x % w)
         /\ x % w \in Nat /\ x % w < w /\ x \div w \in Nat
BY Z3

\* The remainder of a number below the divisor, or at most one divisor off.
LEMMA ModSmall ==
  ASSUME NEW x \in Int, NEW w \in Nat \ {0}, 0 <= x, x < w
  PROVE  x % w = x
BY Z3

LEMMA ModAbove ==
  ASSUME NEW x \in Int, NEW w \in Nat \ {0}, w <= x, x - w < w
  PROVE  x % w = x - w
BY Z3

LEMMA ModNegative ==
  ASSUME NEW x \in Int, NEW w \in Nat \ {0}, -w <= x, x < 0
  PROVE  x % w = x + w
BY Z3

LEMMA QuotientSmall ==
  ASSUME NEW q \in Nat, NEW r \in Nat, NEW w \in Nat \ {0}, w * q + r < w * w
  PROVE  q < w
BY Z3

LEMMA WidthPositive == UINT64 \in Nat \ {0} /\ UINT64 = Word * Word /\ Word \in Nat \ {0}
<1>1. Word \in Nat \ {0}
  BY TimerAssumption
<1> QED
  BY <1>1, Z3 DEF UINT64

\* The two words of a time stamp hold the whole counter.
LEMMA RoundTrip ==
  ASSUME NEW x \in Ticks
  PROVE  HRT_GET_TIME(HRT_GET_TIMESTAMP(x)) = x
<1> DEFINE W == Word
           q == x \div W
           r == x % W
<1>1. x \in Nat /\ x < UINT64
  BY WidthPositive DEF Ticks
<1>2. x = W * q + r /\ r \in Nat /\ r < W /\ q \in Nat /\ W \in Nat \ {0}
  BY <1>1, WidthPositive, DivMod
<1>3. q < W
  <2>1. W * q + r < W * W
    BY <1>1, <1>2, WidthPositive
  <2> HIDE DEF W, q, r
  <2> QED
    BY <1>2, <2>1, QuotientSmall
<1>4. q % W = q
  <2>1. q \in Int /\ 0 <= q
    BY <1>2
  <2> QED
    BY <1>2, <1>3, <2>1, ModSmall, Zenon
<1>5. HRT_GET_TIME(HRT_GET_TIMESTAMP(x)) = q * W + r
  BY <1>4 DEF HRT_GET_TIME, HRT_GET_TIMESTAMP
<1> HIDE DEF W, q, r
<1> QED
  BY <1>2, <1>5

\* A sleep is measured exactly, also when the counter wraps around in it.
LEMMA MeasuredExactly ==
  ASSUME tsc \in Ticks, NEW d \in Delays
  PROVE  /\ Measured(1, d) = TicksPerSecond + d
         /\ TicksPerSecond + d < UINT64 - 2
         /\ \A n \in 1 .. 3 : After(n, d) \in Ticks
<1>1. /\ UINT64 \in Nat \ {0} /\ TicksPerSecond \in Nat \ {0} /\ d \in Nat
      /\ 3 * TicksPerSecond + d < UINT64 - 2 /\ tsc \in Nat /\ tsc < UINT64
  BY WidthPositive, TimerAssumption DEF Ticks
<1>2. ASSUME NEW n \in 1 .. 3 PROVE After(n, d) \in Ticks
  <2>1. tsc + n * TicksPerSecond + d \in Nat
    BY <1>1
  <2> QED
    BY <1>1, <2>1, DivMod DEF After, Ticks
<1>3. Measured(1, d) = (After(1, d) - tsc) % UINT64
  BY <1>2, RoundTrip DEF Measured, HRT_GET_ELAPSED_TICKS
<1>4. After(1, d) = (tsc + TicksPerSecond + d) % UINT64
  BY <1>1 DEF After
<1>5. TicksPerSecond + d \in Nat /\ TicksPerSecond + d < UINT64 - 2
  BY <1>1
<1>6. ASSUME tsc + TicksPerSecond + d < UINT64 PROVE Measured(1, d) = TicksPerSecond + d
  <2>1. After(1, d) = tsc + TicksPerSecond + d
    <3>1. tsc + TicksPerSecond + d \in Int /\ 0 <= tsc + TicksPerSecond + d
      BY <1>1
    <3>2. (tsc + TicksPerSecond + d) % UINT64 = tsc + TicksPerSecond + d
      BY <1>1, <1>6, <3>1, ModSmall, Zenon
    <3> QED
      BY <1>4, <3>2
  <2>2. After(1, d) - tsc = TicksPerSecond + d
    BY <1>1, <2>1
  <2>3. TicksPerSecond + d \in Int /\ 0 <= TicksPerSecond + d /\ TicksPerSecond + d < UINT64
    BY <1>1, <1>5
  <2>4. (TicksPerSecond + d) % UINT64 = TicksPerSecond + d
    BY <1>1, <2>3, ModSmall, Zenon
  <2> QED
    BY <1>3, <2>2, <2>4
<1>7. ASSUME tsc + TicksPerSecond + d >= UINT64 PROVE Measured(1, d) = TicksPerSecond + d
  <2>1. After(1, d) = (tsc + TicksPerSecond + d) - UINT64
    <3>1. /\ tsc + TicksPerSecond + d \in Int /\ UINT64 <= tsc + TicksPerSecond + d
          /\ (tsc + TicksPerSecond + d) - UINT64 < UINT64
      BY <1>1, <1>7
    <3>2. (tsc + TicksPerSecond + d) % UINT64 = (tsc + TicksPerSecond + d) - UINT64
      BY <1>1, <3>1, ModAbove, Zenon
    <3> QED
      BY <1>4, <3>2
  <2>2. After(1, d) - tsc = TicksPerSecond + d - UINT64
    BY <1>1, <2>1
  <2>3. /\ TicksPerSecond + d - UINT64 \in Int /\ -UINT64 <= TicksPerSecond + d - UINT64
        /\ TicksPerSecond + d - UINT64 < 0
    BY <1>1, <1>5
  <2>4. (TicksPerSecond + d - UINT64) % UINT64 = (TicksPerSecond + d - UINT64) + UINT64
    BY <1>1, <2>3, ModNegative, Zenon
  <2>5. (TicksPerSecond + d - UINT64) + UINT64 = TicksPerSecond + d
    BY <1>1
  <2> QED
    BY <1>3, <2>2, <2>4, <2>5
<1>8. Measured(1, d) = TicksPerSecond + d
  BY <1>1, <1>6, <1>7
<1> QED
  BY <1>2, <1>5, <1>8

Control == {"idle", "sanity", "calibrate", "write", "exit"}

\* What the minima and the frequency are, and when a calibration cannot find a
\* larger frequency than the one in use: once .cpu_freq is there it never
\* disappears, so that a frequency read from it is not calibrated again.
TimerInv ==
  /\ tsc \in Ticks
  /\ min \in [Process -> Nat] /\ count \in [Process -> Nat]
  /\ freq \in Nat /\ file.freq \in Nat
  /\ \A p \in Process : min[p] = UINT64 - 2 \/ Plausible(min[p])
  /\ \A p \in Process : count[p] > 0 => Plausible(min[p])
  /\ pc \in [Process -> Control]
  /\ pc["query"] = "write" => Plausible(min["query"])
  /\ freq # 0 /\ (pc["client"] = "calibrate" \/ file.state = "missing") =>
       min["client"] <= freq
  /\ FrequencySound

LEMMA TimerInit == Init => TimerInv
<1> SUFFICES ASSUME Init PROVE TimerInv
  OBVIOUS
<1>1. UINT64 \in Nat \ {0}
  BY WidthPositive
<1>2. UINT64 - 2 \in Nat
  <2>1. PICK d \in Delays : 3 * TicksPerSecond + d < UINT64 - 2
    BY TimerAssumption
  <2> QED
    BY <1>1, <2>1, TimerAssumption
<1>3. tsc \in Ticks
  BY <1>1 DEF Init, Ticks
<1>4. /\ min = [p \in Process |-> UINT64 - 2] /\ count = [p \in Process |-> 0]
      /\ freq = 0 /\ file.state = "missing" /\ file.freq = 0
      /\ pc = [p \in Process |-> IF p = "query" THEN "sanity" ELSE "idle"]
  BY DEF Init
<1>5. /\ min \in [Process -> Nat] /\ count \in [Process -> Nat] /\ freq \in Nat
      /\ \A p \in Process : min[p] = UINT64 - 2 /\ count[p] = 0
  BY <1>2, <1>4
<1>6. pc \in [Process -> Control] /\ pc["query"] = "sanity"
  BY <1>4 DEF Process, Control
<1> QED
  BY <1>3, <1>4, <1>5, <1>6 DEF TimerInv, FrequencySound

\* A round of calibration finds a plausible minimum.
LEMMA CalibrateKeepsInv ==
  ASSUME TimerInv, NEW p \in Process, Calibrate(p)
  PROVE  TimerInv' /\ freq' = freq
<1>1. /\ UNCHANGED <<file, freq, pc>> /\ pc[p] = "calibrate" /\ tsc \in Ticks
      /\ min \in [Process -> Nat] /\ count \in [Process -> Nat]
      /\ min[p] = UINT64 - 2 \/ Plausible(min[p])
  BY DEF Calibrate, TimerInv
<1>2. PICK d \in Delays :
        /\ tsc' = After(1, d)
        /\ IF Measured(1, d) < min[p]
           THEN /\ min' = [min EXCEPT ![p] = Measured(1, d)]
                /\ count' = [count EXCEPT ![p] = 0]
           ELSE count' = [count EXCEPT ![p] = @ + 1] /\ UNCHANGED min
  BY DEF Calibrate
<1>3. /\ Measured(1, d) = TicksPerSecond + d /\ TicksPerSecond + d < UINT64 - 2
      /\ After(1, d) \in Ticks
  BY <1>1, MeasuredExactly
<1>4. TicksPerSecond \in Nat /\ d \in Nat /\ UINT64 \in Nat
  BY TimerAssumption, WidthPositive
<1>5. Measured(1, d) \in Nat /\ Plausible(Measured(1, d))
  BY <1>3, <1>4 DEF Plausible
<1>6. /\ min' \in [Process -> Nat] /\ count' \in [Process -> Nat]
      /\ Plausible(min'[p]) /\ min'[p] <= min[p]
      /\ \A q \in Process \ {p} : min'[q] = min[q] /\ count'[q] = count[q]
  <2>1. CASE Measured(1, d) < min[p]
    BY <1>1, <1>2, <1>5, <2>1
  <2>2. CASE ~(Measured(1, d) < min[p])
    <3>1. Plausible(min[p])
      BY <1>1, <1>3, <1>4, <2>2
    <3> QED
      BY <1>1, <1>2, <2>2, <3>1
  <2> QED
    BY <2>1, <2>2
<1>7. \A q \in Process : /\ min'[q] = UINT64 - 2 \/ Plausible(min'[q])
                        /\ count'[q] > 0 => Plausible(min'[q])
  BY <1>6 DEF TimerInv
<1>8. pc'["query"] = "write" => Plausible(min'["query"])
  BY <1>1, <1>6 DEF TimerInv, Process
<1>9. freq' # 0 /\ (pc'["client"] = "calibrate" \/ file'.state = "missing") =>
        min'["client"] <= freq'
  BY <1>1, <1>6 DEF TimerInv, Process
<1>10. FrequencySound' /\ pc' \in [Process -> Control] /\ freq' \in Nat /\ file'.freq \in Nat
  BY <1>1 DEF FrequencySound, TimerInv
<1> QED
  BY <1>1, <1>2, <1>3, <1>6, <1>7, <1>8, <1>9, <1>10 DEF TimerInv

\* The other steps of the two processes.
LEMMA TimerStep == TimerInv /\ [Next]_vars => TimerInv'
<1> SUFFICES ASSUME TimerInv, [Next]_vars PROVE TimerInv'
  OBVIOUS
<1>1. CASE FtimerInit
  <2>1. CASE file.state = "missing" /\ pc' = [pc EXCEPT !["client"] = "calibrate"]
             /\ count' = [count EXCEPT !["client"] = 0] /\ UNCHANGED freq
    BY <1>1, <2>1 DEF FtimerInit, TimerInv, FrequencySound, Process, Control
  <2>2. CASE file.state = "empty" /\ pc' = [pc EXCEPT !["client"] = "exit"]
             /\ UNCHANGED <<freq, count>>
    BY <1>1, <2>2 DEF FtimerInit, TimerInv, FrequencySound, Process, Control
  <2>3. CASE file.state = "full" /\ freq' = file.freq /\ UNCHANGED <<pc, count>>
    <3>1. Plausible(file.freq) /\ pc["client"] = "idle"
      BY <1>1, <2>3 DEF FtimerInit, TimerInv, FrequencySound
    <3> QED
      BY <1>1, <2>3, <3>1 DEF FtimerInit, TimerInv, FrequencySound, Process, Control
  <2> QED
    BY <1>1, <2>1, <2>2, <2>3 DEF FtimerInit
<1>2. CASE FtimerInitEnd
  <2>1. Plausible(min["client"])
    BY <1>2 DEF FtimerInitEnd, Calibrated, TimerInv, Process
  <2> QED
    BY <1>2, <2>1 DEF FtimerInitEnd, TimerInv, FrequencySound, Process, Control
<1>3. ASSUME NEW n \in 1 .. 3, SanityCheck(n) PROVE TimerInv'
  <2>1. tsc' \in Ticks
    BY <1>3, MeasuredExactly DEF SanityCheck, TimerInv
  <2> QED
    BY <1>3, <2>1 DEF SanityCheck, TimerInv, FrequencySound
<1>4. CASE QueryDecide
  BY <1>4 DEF QueryDecide, TimerInv, FrequencySound, Process, Control
<1>5. CASE QueryOpen
  <2>1. Plausible(min["query"])
    BY <1>5 DEF QueryOpen, Calibrated, TimerInv, Process
  <2> QED
    BY <1>5, <2>1 DEF QueryOpen, TimerInv, FrequencySound, Process, Control
<1>6. CASE QueryWrite
  BY <1>6 DEF QueryWrite, TimerInv, FrequencySound, Process, Control
<1>7. CASE QueryKilled
  BY <1>7 DEF QueryKilled, TimerInv, FrequencySound, Process, Control
<1>8. ASSUME NEW p \in Process, Calibrate(p) PROVE TimerInv'
  BY <1>8, CalibrateKeepsInv
<1>9. CASE UNCHANGED vars
  BY <1>9 DEF vars, TimerInv, FrequencySound
<1> QED
  BY <1>1, <1>2, <1>3, <1>4, <1>5, <1>6, <1>7, <1>8, <1>9
    DEF Next, Client, Query, Terminated, Process

\* The frequency in use and the one in .cpu_freq are at least the true one, and
\* too large by no more than the longest delay of a sleep, for any tick rate and
\* any width of the counter's words.
THEOREM FrequencyIsSound == Spec => []FrequencySound
<1>1. TimerInv => FrequencySound
  BY DEF TimerInv
<1> QED
  BY <1>1, TimerInit, TimerStep, PTL DEF Spec

\* ftimer_init in a process that has a frequency never sets the clock back by
\* calibrating again, because HRT_CALIBRATE keeps its minimum from call to call
\* and a frequency that was read from .cpu_freq is read again.
THEOREM ClockIsNotSetBack == Spec => ClockNotSetBack
<1>1. TimerInv /\ [Next]_vars =>
        [freq # 0 /\ freq' > freq => file.state = "full" /\ freq' = file.freq]_vars
  <2> SUFFICES ASSUME TimerInv, Next, freq # 0, freq' > freq
               PROVE  file.state = "full" /\ freq' = file.freq
    OBVIOUS
  <2>1. freq \in Nat /\ min["client"] \in Nat
    BY DEF TimerInv, Process
  <2>2. CASE FtimerInit
    BY <2>1, <2>2 DEF FtimerInit
  <2>3. CASE FtimerInitEnd
    BY <2>1, <2>3 DEF FtimerInitEnd, Calibrated, TimerInv
  <2>4. CASE Calibrate("client") \/ Query \/ Terminated
    BY <2>1, <2>4 DEF Calibrate, Query, Terminated, SanityCheck, QueryDecide, QueryOpen,
      QueryWrite, QueryKilled, vars
  <2> QED
    BY <2>2, <2>3, <2>4 DEF Next, Client
<1> QED
  BY <1>1, TimerInit, TimerStep, PTL DEF Spec, ClockNotSetBack
=============================================================================
