\* Two threads around a barrier, three calls each.
CONSTANTS
  t0 = t0
  t1 = t1
  barrier = barrier
  sink = sink
  n0 = n0
  n1 = n1
  NULL = NULL
  Threads = {t0, t1}
  Nodes = {barrier, sink, n0, n1}
  Pairs <- TeamPairs
  MaxCalls = 3

SPECIFICATION Spec

INVARIANTS
  TypeOK
  RaceFree
  EdgesAgree

PROPERTY
  ImplementsAtomic
