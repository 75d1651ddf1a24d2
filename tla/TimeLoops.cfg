\* Time and counters: a loop or a barrier in a region of two threads.
CONSTANTS
  t0 = t0
  t1 = t1
  NULL = NULL
  Master = t0
  Threads = {t0, t1}
  Teams = {{t0, t1}}
  Shortfall = 0
  Constructs = {"barrier", "loop"}
  NestInLoops = FALSE
  MaxRegions = 1
  MaxConstructs = 1
  MaxChunks = 2
  MaxTasks = 0
  MaxTime = 2

SPECIFICATION MSpec

INVARIANTS
  ChargedOnce
  CountersOfOwnChunk
