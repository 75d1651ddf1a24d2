---------------------------- MODULE MCGraphLocks ----------------------------
(***************************************************************************)
(* An instance of GraphLocks for TLC: the calls of two threads of a team   *)
(* around a barrier.                                                       *)
(***************************************************************************)
EXTENDS GraphLocks

CONSTANTS
  t0, t1,        \* the threads; t0 has thread number 0
  barrier, sink, \* nodes the team shares
  n0, n1         \* a node of either thread

\* node -> barrier -> node, node -> sink, and for thread 0 barrier -> sink.
TeamPairs ==
  [t \in {t0, t1} |->
    LET n == IF t = t0 THEN n0 ELSE n1
    IN  {<<n, barrier>>, <<barrier, n>>} \cup (IF t = t0 THEN {<<barrier, sink>>} ELSE {<<n, sink>>})]
=============================================================================
