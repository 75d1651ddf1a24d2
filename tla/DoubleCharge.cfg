\* Time: a task interrupts a chunk.
CONSTANTS
  t0 = t0
  t1 = t1
  NULL = NULL
  Master = t0
  Threads = {t0, t1}
  Teams = {{t0}}
  Shortfall = 0
  Constructs = {"loop"}
  NestInLoops = FALSE
  MaxRegions = 1
  MaxConstructs = 1
  MaxChunks = 1
  MaxTasks = 1
  MaxTime = 2

SPECIFICATION MSpec

INVARIANTS
  ChargedOnce
