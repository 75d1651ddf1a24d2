\* The same, for the documented use of .cpu_freq.
CONSTANTS
  TicksPerSecond = 21
  Delays = {0, 1, 4}
  WordBits = 4
  MaxInits = 2

SPECIFICATION Spec

INVARIANT
  InitObtainsFrequency
