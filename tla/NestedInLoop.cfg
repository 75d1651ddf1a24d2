\* A loop body opens a parallel region.
CONSTANTS
  t0 = t0
  t1 = t1
  t2 = t2
  NULL = NULL
  Master = t0
  Threads = {t0, t1}
  Teams = {{t0}}
  Shortfall = 0
  Constructs = {"loop"}
  NestInLoops = TRUE
  MaxRegions = 2
  MaxConstructs = 1
  MaxChunks = 1
  MaxTasks = 0

SPECIFICATION Spec

INVARIANTS
  SourceAndSink
