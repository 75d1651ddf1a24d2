\* Time: a task opens a region, and another task follows it outside of any region.
CONSTANTS
  t0 = t0
  t1 = t1
  NULL = NULL
  Master = t0
  Threads = {t0}
  Teams = {{t0}}
  Shortfall = 0
  Constructs = {"barrier"}
  NestInLoops = FALSE
  MaxRegions = 1
  MaxConstructs = 1
  MaxChunks = 1
  MaxTasks = 2
  MaxTime = 1

SPECIFICATION MSpec

INVARIANTS
  ChargedOnce
