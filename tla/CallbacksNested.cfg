\* Nested regions and an explicit task, with teams of one and of two.
CONSTANTS
  t0 = t0
  t1 = t1
  t2 = t2
  NULL = NULL
  Master = t0
  Threads = {t0, t1, t2}
  Teams = {{t0, t1}, {t0, t2}, {t1, t2}, {t0}, {t1}}
  Shortfall = 0
  Constructs = {"barrier"}
  NestInLoops = FALSE
  MaxRegions = 2
  MaxConstructs = 0
  MaxChunks = 1
  MaxTasks = 1

SPECIFICATION Spec

INVARIANTS
  TypeOK
  FreedOnlyReadAtJoin
  NoDangling
  EdgesMirrored
  SourceAndSink

PROPERTY
  ProgramOrder
