\* Every acyclic graph of up to four nodes and four edges, some of five nodes, and
\* every string on three of them.
CONSTANTS
  NULL = NULL
  TypeOf <- MCTypeOf
  NodeSets <- MCNodeSets
  Times = {0, 1}
  Elapsed = {0, 1}
  MaxEdges = 4
  Inputs <- MCInputs

SPECIFICATION Spec

INVARIANTS
  TopoSorted
  CriticalPathCorrect
  SpanWithinWork
  QuartilesOrdered
  RequestedMetricsPrinted
  DotShowsCriticalPath
