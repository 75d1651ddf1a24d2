\* A team that is smaller than requested.
CONSTANTS
  t0 = t0
  t1 = t1
  t2 = t2
  NULL = NULL
  Master = t0
  Threads = {t0, t1}
  Teams = {{t0, t1}}
  Shortfall = 1
  Constructs = {"barrier"}
  NestInLoops = FALSE
  MaxRegions = 1
  MaxConstructs = 1
  MaxChunks = 1
  MaxTasks = 0

SPECIFICATION Spec

INVARIANTS
  ResetWhenAllArrived
