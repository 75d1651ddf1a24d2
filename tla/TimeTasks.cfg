\* Time: an explicit task that is created and executed anywhere, also in a
\* barrier or a chunk.
CONSTANTS
  t0 = t0
  t1 = t1
  NULL = NULL
  Master = t0
  Threads = {t0, t1}
  Teams = {{t0, t1}}
  Shortfall = 0
  Constructs = {"barrier", "loop"}
  NestInLoops = FALSE
  MaxRegions = 1
  MaxConstructs = 1
  MaxChunks = 1
  MaxTasks = 1
  MaxTime = 1

SPECIFICATION MSpec

INVARIANTS
  NoTimeLost
  ChargedOnceUninterrupted

PROPERTY
  OneClockPerInterval
