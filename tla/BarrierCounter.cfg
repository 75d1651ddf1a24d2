\* Teams of two to four threads that go through up to four barriers.  Threads
\* never hold more than two nodes, the third can be a wrong one.
CONSTANTS
  t0 = t0
  t1 = t1
  t2 = t2
  t3 = t3
  n1 = n1
  n2 = n2
  n3 = n3
  NULL = NULL
  Threads = {t0, t1, t2, t3}
  Nodes = {n1, n2, n3}
  MaxBarriers = 4
  Regions = {1}

SPECIFICATION Spec

INVARIANTS
  CountsArrivals
  SameRoundSameNode

PROPERTY
  ImplementsTeamBarrier
