\* Barriers: teams of three and of two, a barrier and the join in each of two regions.
CONSTANTS
  t0 = t0
  t1 = t1
  t2 = t2
  NULL = NULL
  Master = t0
  Threads = {t0, t1, t2}
  Teams = {{t0, t1, t2}, {t0, t1}}
  Shortfall = 0
  Constructs = {"barrier"}
  NestInLoops = FALSE
  MaxRegions = 2
  MaxConstructs = 1
  MaxChunks = 1
  MaxTasks = 0

SPECIFICATION Spec

INVARIANTS
  Acyclic
  SameBarrierSameNode
  ResetWhenAllArrived
  BarrierJoinsTeam
  TeamUnordered

PROPERTY
  ImplementsBarrierCounter
