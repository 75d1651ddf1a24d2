\* Loops: a fixed team, two regions, in each a loop or a barrier and the join.
CONSTANTS
  t0 = t0
  t1 = t1
  t2 = t2
  NULL = NULL
  Master = t0
  Threads = {t0, t1}
  Teams = {{t0, t1}}
  Shortfall = 0
  Constructs = {"barrier", "loop"}
  NestInLoops = FALSE
  MaxRegions = 2
  MaxConstructs = 1
  MaxChunks = 2
  MaxTasks = 0

SPECIFICATION Spec

INVARIANTS
  EdgesMirrored
  Acyclic
  SourceAndSink
  LoopCounterIdentifiesLoop

PROPERTY
  ProgramOrder
