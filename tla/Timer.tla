------------------------------- MODULE Timer --------------------------------
(***************************************************************************)
(* timer/: libftimer.so in a traced process, which calls ftimer_init once  *)
(* for the tool (init_libtdg) and possibly again itself, as the example    *)
(* programs do; and query_cpu_freq, which may be run before, during or     *)
(* never, and may be killed at any moment.  They share the file .cpu_freq. *)
(*                                                                         *)
(* The time stamp counter has two words of WordBits bits.  A sleep of n    *)
(* seconds lasts n * TicksPerSecond ticks and a little longer, by one of   *)
(* Delays.  Text and decimal conversion of a frequency are exact for the   *)
(* numbers that occur, so the file is modelled by its number.              *)
(***************************************************************************)
EXTENDS Integers

CONSTANTS TicksPerSecond, Delays, WordBits,
          MaxInits   \* bound: calls of ftimer_init in the traced process

Word == 2 ^ WordBits
UINT64 == Word * Word

\* The counter does not wrap around within the longest sleep.
ASSUME TimerAssumption ==
  /\ TicksPerSecond \in Nat \ {0} /\ Delays \subseteq Nat /\ Delays # {}
  /\ WordBits \in Nat /\ Word \in Nat \ {0} /\ MaxInits \in Nat
  /\ \A d \in Delays : 3 * TicksPerSecond + d < UINT64 - 2

VARIABLES
  tsc,     \* the time stamp counter
  file,    \* .cpu_freq: whether it is missing, empty or full, and the number in it
  freq,    \* g_timerfreq of the traced process
  min,     \* process -> the static variable min of HRT_CALIBRATE
  count,   \* process -> notsmaller
  sanity,  \* sanity_check: the variables sanity and s
  inits,   \* calls of ftimer_init so far
  pc       \* process -> what it does next

vars == <<tsc, file, freq, min, count, sanity, inits, pc>>

Process == {"client", "query"}

-----------------------------------------------------------------------------
(* x86_64-gcc-rdtsc.h.                                                     *)

HRT_GET_TIMESTAMP(ticks) == [l |-> ticks % Word, h |-> (ticks \div Word) % Word]

HRT_GET_TIME(t) == t.h * Word + t.l

\* Mutation: only the low words are compared.
HRT_GET_ELAPSED_TICKS_Low(t1, t2) == (t2.l - t1.l) % Word

HRT_GET_ELAPSED_TICKS(t1, t2) == (HRT_GET_TIME(t2) - HRT_GET_TIME(t1)) % UINT64

\* The ticks measured over sleep(n), when it takes d ticks too long.
After(n, d) == (tsc + n * TicksPerSecond + d) % UINT64

Measured(n, d) ==
  HRT_GET_ELAPSED_TICKS(HRT_GET_TIMESTAMP(tsc), HRT_GET_TIMESTAMP(After(n, d)))

\* Mutation: a measurement that is not larger starts the count anew.
Calibrate_NotLarger(p) ==
  /\ pc[p] = "calibrate" /\ count[p] < 3
  /\ \E d \in Delays :
       /\ tsc' = After(1, d)
       /\ IF Measured(1, d) <= min[p]
          THEN /\ min' = [min EXCEPT ![p] = Measured(1, d)]
               /\ count' = [count EXCEPT ![p] = 0]
          ELSE count' = [count EXCEPT ![p] = @ + 1] /\ UNCHANGED min
  /\ UNCHANGED <<file, freq, sanity, inits, pc>>

\* One round of the loop of HRT_CALIBRATE.
Calibrate(p) ==
  /\ pc[p] = "calibrate" /\ count[p] < 3
  /\ \E d \in Delays :
       /\ tsc' = After(1, d)
       /\ IF Measured(1, d) < min[p]
          THEN /\ min' = [min EXCEPT ![p] = Measured(1, d)]
               /\ count' = [count EXCEPT ![p] = 0]
          ELSE count' = [count EXCEPT ![p] = @ + 1] /\ UNCHANGED min
  /\ UNCHANGED <<file, freq, sanity, inits, pc>>

Calibrated(p) == pc[p] = "calibrate" /\ count[p] = 3

-----------------------------------------------------------------------------
(* timer.c: init_clock_time, as ftimer_init.                               *)

\* Mutation: min starts anew with every calibration.
FtimerInit_ResetsMin ==
  /\ pc["client"] = "idle" /\ inits < MaxInits /\ inits' = inits + 1
  /\ \/ /\ file.state = "missing" /\ pc' = [pc EXCEPT !["client"] = "calibrate"]
        /\ count' = [count EXCEPT !["client"] = 0]
        /\ min' = [min EXCEPT !["client"] = UINT64 - 2] /\ UNCHANGED freq
     \/ /\ file.state = "empty" /\ pc' = [pc EXCEPT !["client"] = "exit"]
        /\ UNCHANGED <<freq, count, min>>
     \/ file.state = "full" /\ freq' = file.freq /\ UNCHANGED <<pc, count, min>>
  /\ UNCHANGED <<tsc, file, sanity>>

FtimerInit ==
  /\ pc["client"] = "idle" /\ inits < MaxInits /\ inits' = inits + 1
  /\ \/ /\ file.state = "missing" /\ pc' = [pc EXCEPT !["client"] = "calibrate"]
        /\ count' = [count EXCEPT !["client"] = 0] /\ UNCHANGED freq
     \/ /\ file.state = "empty" /\ pc' = [pc EXCEPT !["client"] = "exit"]
        /\ UNCHANGED <<freq, count>>
     \/ file.state = "full" /\ freq' = file.freq /\ UNCHANGED <<pc, count>>
  /\ UNCHANGED <<tsc, file, min, sanity>>

FtimerInitEnd ==
  /\ Calibrated("client") /\ freq' = min["client"]
  /\ pc' = [pc EXCEPT !["client"] = "idle"]
  /\ UNCHANGED <<tsc, file, min, count, sanity, inits>>

-----------------------------------------------------------------------------
(* query_cpu_freq.cc.                                                      *)

Abs(x) == IF x < 0 THEN -x ELSE x

\* fabs(s - sn / n) > s * 0.05.
Bogus(s, sn, n) == 20 * Abs(n * s - sn) > n * s

\* sanity_check, one sleep at a time.  A failed test does not end it.
SanityCheck(n) ==
  /\ pc["query"] = "sanity" /\ sanity.slept = n - 1
  /\ \E d \in Delays :
       /\ tsc' = After(n, d)
       /\ sanity' = [sane  |-> sanity.sane /\ (n > 1 => ~Bogus(sanity.s, Measured(n, d), n)),
                     s     |-> Measured(n, d) \div n,
                     slept |-> n]
  /\ UNCHANGED <<file, freq, min, count, inits, pc>>

\* main after sanity_check.
QueryDecide ==
  /\ pc["query"] = "sanity" /\ sanity.slept = 3
  /\ pc' = [pc EXCEPT !["query"] = IF sanity.sane THEN "calibrate" ELSE "exit"]
  /\ UNCHANGED <<tsc, file, freq, min, count, sanity, inits>>

\* freq_file.open truncates the file, or fails.
QueryOpen ==
  /\ Calibrated("query")
  /\ \/ file' = [state |-> "empty", freq |-> 0] /\ pc' = [pc EXCEPT !["query"] = "write"]
     \/ pc' = [pc EXCEPT !["query"] = "exit"] /\ UNCHANGED file
  /\ UNCHANGED <<tsc, freq, min, count, sanity, inits>>

QueryWrite ==
  /\ pc["query"] = "write" /\ file' = [state |-> "full", freq |-> min["query"]]
  /\ pc' = [pc EXCEPT !["query"] = "exit"]
  /\ UNCHANGED <<tsc, freq, min, count, sanity, inits>>

\* query_cpu_freq is killed.
QueryKilled ==
  /\ pc["query"] # "exit" /\ pc' = [pc EXCEPT !["query"] = "exit"]
  /\ UNCHANGED <<tsc, file, freq, min, count, sanity, inits>>

-----------------------------------------------------------------------------

Init ==
  /\ tsc \in {0, UINT64 - 1}
  /\ file = [state |-> "missing", freq |-> 0] /\ freq = 0
  /\ min = [p \in Process |-> UINT64 - 2] /\ count = [p \in Process |-> 0]
  /\ sanity = [sane |-> TRUE, s |-> 0, slept |-> 0] /\ inits = 0
  /\ pc = [p \in Process |-> IF p = "query" THEN "sanity" ELSE "idle"]

Client == FtimerInit \/ Calibrate("client") \/ FtimerInitEnd

Query ==
  \/ \E n \in 1 .. 3 : SanityCheck(n)
  \/ QueryDecide \/ Calibrate("query") \/ QueryOpen \/ QueryWrite \/ QueryKilled

Terminated ==
  /\ pc["query"] = "exit"
  /\ pc["client"] = "exit" \/ (pc["client"] = "idle" /\ inits = MaxInits)
  /\ UNCHANGED vars

Next == Client \/ Query \/ Terminated

\* The operating system wakes the traced process up after every sleep.
Spec == Init /\ [][Next]_vars /\ WF_vars(Calibrate("client") \/ FtimerInitEnd)

-----------------------------------------------------------------------------
(* Properties.                                                             *)

Plausible(f) ==
  f >= TicksPerSecond /\ \E d \in Delays : f <= TicksPerSecond + d

\* However the counter's words carry and wrap around, and wherever the number
\* comes from: the frequency is at least the true one, so that no measured time
\* is too long, and too large by no more than one sleep took too long.
FrequencySound ==
  /\ freq # 0 => Plausible(freq)
  /\ file.state = "full" => Plausible(file.freq)

\* ftimer_msec divides the counter by g_timerfreq, so a larger frequency sets
\* the clock back, and addTime would see negative intervals.  A second
\* ftimer_init in the traced process can do so only by reading .cpu_freq; a
\* second calibration cannot.
ClockNotSetBack ==
  [][freq # 0 /\ freq' > freq => file.state = "full" /\ freq' = file.freq]_vars

\* ftimer_init returns or ends the process: calibration does not go on for
\* ever, although every smaller measurement starts the count anew.
CalibrationEnds == pc["client"] = "calibrate" ~> pc["client"] = "idle"

\* "checks if `.cpu_freq` exists, and if it does, the library will read the
\* frequency from this file. Otherwise it will query the CPU frequency by
\* itself": ftimer_init always obtains a frequency.
InitObtainsFrequency == pc["client"] # "exit"
=============================================================================
