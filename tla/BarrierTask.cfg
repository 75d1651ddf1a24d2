\* Time: a task is executed in a barrier.
CONSTANTS
  t0 = t0
  t1 = t1
  NULL = NULL
  Master = t0
  Threads = {t0, t1}
  Teams = {{t0, t1}}
  Shortfall = 0
  Constructs = {"barrier"}
  NestInLoops = FALSE
  MaxRegions = 1
  MaxConstructs = 0
  MaxChunks = 1
  MaxTasks = 1
  MaxTime = 2

SPECIFICATION MSpec

INVARIANTS
  ChargedOnce
