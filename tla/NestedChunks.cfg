\* Time and counters: tasks and regions with loops inside chunks of one thread.
CONSTANTS
  t0 = t0
  t1 = t1
  NULL = NULL
  Master = t0
  Threads = {t0}
  Teams = {{t0}}
  Shortfall = 0
  Constructs = {"loop"}
  NestInLoops = TRUE
  MaxRegions = 2
  MaxConstructs = 1
  MaxChunks = 2
  MaxTasks = 1
  MaxTime = 1

SPECIFICATION MSpec

INVARIANTS
  NoTimeLost
  ChargedOnceUninterrupted
  StoppedAtThreadEnd
