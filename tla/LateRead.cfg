\* The master deletes the region's data while a worker leaves the join barrier.
CONSTANTS
  t0 = t0
  t1 = t1
  t2 = t2
  NULL = NULL
  Master = t0
  Threads = {t0, t1}
  Teams = {{t0, t1}}
  Shortfall = 0
  Constructs = {"barrier"}
  NestInLoops = FALSE
  MaxRegions = 1
  MaxConstructs = 0
  MaxChunks = 1
  MaxTasks = 0

SPECIFICATION Spec

INVARIANTS
  RegionAliveWhenRead
