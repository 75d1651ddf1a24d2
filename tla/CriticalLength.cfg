\* The length of the critical path.
CONSTANTS
  NULL = NULL
  TypeOf <- MCTypeOf
  NodeSets = {{0, 1}}
  Times = {1}
  Elapsed = {0}
  MaxEdges = 1
  Inputs <- Usual

SPECIFICATION Spec

INVARIANTS
  CriticalLengthCountsTasks
