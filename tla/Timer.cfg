\* A tick rate that makes the low word carry in every sleep, short and long delays.
CONSTANTS
  TicksPerSecond = 21
  Delays = {0, 1, 4}
  WordBits = 4
  MaxInits = 2

SPECIFICATION Spec

INVARIANT
  FrequencySound

PROPERTIES
  ClockNotSetBack
  CalibrationEnds
