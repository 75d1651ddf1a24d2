------------------------------ MODULE Metrics -------------------------------
(***************************************************************************)
(* finalize_libtdg of init.cc and what it calls: the parsing of            *)
(* TDG_TOOL_METRICS, the metrics of metrics.cc, and Graph::topoSort and    *)
(* compute_stats of graph.cc.  The graph is finished and only one thread   *)
(* is left, so a metric's init or printMetric is one action.  The metrics  *)
(* share the nodes' _visited, _level, _pathLength, _pathTime,              *)
(* _prevCritical and _isCritical, which nothing ever resets.               *)
(*                                                                         *)
(* Times are whole milliseconds.  Averages and deviations, and the text    *)
(* around the numbers, are left out.                                       *)
(***************************************************************************)
EXTENDS Tokens, Integers, FiniteSets, Sequences, SequencesExt

CONSTANTS
  NodeSets,    \* the sets of ids that the nodes of a graph can have
  TypeOf,      \* id -> Node::NodeType
  Times,       \* the times nodes can have
  Elapsed,     \* the time that can pass since g_finalNode's _lastTime
  MaxEdges,    \* bound: edges of the graph
  Inputs(_, _),\* for edges and times, what TDG_TOOL_METRICS and g_finalNode can be
  NULL

ASSUME MetricsAssumption ==
  /\ \A ids \in NodeSets : ids \subseteq Nat /\ 0 \in ids
  /\ MaxEdges \in Nat
  /\ Times \subseteq Nat /\ Elapsed \subseteq Nat

VARIABLES
  edges,    \* the edges in the order in which they were connected
  time,     \* id -> _totalTime
  finalNode,\* g_finalNode: the id of a node, or NULL
  env,      \* TDG_TOOL_METRICS
  metrics,  \* g_metrics: the kind of each metric and what it has computed
  attr,     \* the nodes' attributes, by name
  printed,  \* what the metrics have printed so far
  pc        \* the next step of finalize_libtdg, and the metric it is about

vars == <<edges, time, finalNode, env, metrics, attr, printed, pc>>

\* The order of the vectors _exitEdges and _entryEdges is that of the edges.
Exits(n) ==
  LET out == SelectSeq(edges, LAMBDA e : e[1] = n) IN [i \in DOMAIN out |-> out[i][2]]

Entries(n) ==
  LET in == SelectSeq(edges, LAMBDA e : e[2] = n) IN [i \in DOMAIN in |-> in[i][1]]

\* The ids in the std::map _graphNodes, which is ordered by id.
Nodes == DOMAIN time

GraphNodes == SetToSortSeq(Nodes, <)

-----------------------------------------------------------------------------
(* Graph::topoSort.                                                        *)

\* visitNode: s has the nodes visited and the list.
RECURSIVE VisitNode(_, _)
VisitNode(n, s) ==
  LET seen  == [s EXCEPT !.visited = @ \cup {n}]
      below == FoldLeft(LAMBDA r, m : IF m \in r.visited THEN r ELSE VisitNode(m, r),
                        seen, Exits(n))
  IN  [below EXCEPT !.list = <<n>> \o @]

DepthFirst(visited) ==
  FoldLeft(LAMBDA r, n : IF n \in r.visited THEN r ELSE VisitNode(n, r),
           [visited |-> visited, list |-> <<>>], GraphNodes)

Levels(level, list) ==
  FoldLeft(LAMBDA l, n : [l EXCEPT ![n] = Max({0} \cup {l[m] + 1 : m \in ToSet(Entries(n))})],
           level, list)

\* One round of the last loop: the nodes of level i move in front of start,
\* the first node after the previous rounds' nodes whose level is not i.
Gather(list, begin, level, i) ==
  LET others == {k \in begin .. Len(list) : level[list[k]] # i}
      start  == IF others = {} THEN Len(list) + 1 ELSE Min(others)
      rest   == SubSeq(list, start, Len(list))
      ofLevel == SelectSeq(rest, LAMBDA n : level[n] = i)
  IN  [list  |-> SubSeq(list, 1, start - 1) \o ofLevel
                   \o SelectSeq(rest, LAMBDA n : level[n] # i),
       begin |-> start + Len(ofLevel)]

SortByLevel(list, level) ==
  LET maxLevel == Max({-1} \cup {level[n] : n \in ToSet(list)})
      Round[i \in Nat] ==
        IF i = 0 THEN [list |-> list, begin |-> 1]
                 ELSE Gather(Round[i - 1].list, Round[i - 1].begin, level, i - 1)
  IN  Round[Max({0, maxLevel})].list

\* Mutation: nodes in the order in which their visits end.
TopoSort_Postorder(a) ==
  LET dfs   == DepthFirst(a.visited)
      level == Levels(a.level, Reverse(dfs.list))
  IN  [list |-> SortByLevel(Reverse(dfs.list), level),
       attr |-> [a EXCEPT !.visited = dfs.visited, !.level = level]]

TopoSort(a) ==
  LET dfs   == DepthFirst(a.visited)
      level == Levels(a.level, dfs.list)
  IN  [list |-> SortByLevel(dfs.list, level),
       attr |-> [a EXCEPT !.visited = dfs.visited, !.level = level]]

-----------------------------------------------------------------------------
(* CriticalPathMetric.                                                     *)

\* Mutation: the predecessor is recorded whether or not it is better.
Relax_AnyPred(n, a) ==
  FoldLeft(LAMBDA b, m : [time |-> Max({a.pathTime[m] + time[n], b.time}), prev |-> m],
           [time |-> time[n], prev |-> a.prevCritical[n]], Entries(n))

\* The best way to reach n: the time of the path, and its last node before n.
Relax(n, a) ==
  FoldLeft(LAMBDA b, m : IF a.pathTime[m] + time[n] > b.time
                         THEN [time |-> a.pathTime[m] + time[n], prev |-> m] ELSE b,
           [time |-> time[n], prev |-> a.prevCritical[n]], Entries(n))

\* The loop body of computeCriticalPath for node n.
ScanNode(s, n) ==
  LET best == Relax(n, s.attr)
      len  == Max({0} \cup {s.attr.pathLength[m] + 1 : m \in ToSet(Entries(n))})
  IN  [attr |-> [s.attr EXCEPT !.pathLength[n] = len, !.pathTime[n] = best.time,
                               !.prevCritical[n] = best.prev],
       len  |-> Max({len, s.len}),
       time |-> Max({best.time, s.time}),
       last |-> IF best.time > s.time THEN n ELSE s.last]

\* The nodes from n back along _prevCritical.
RECURSIVE CriticalNodes(_, _)
CriticalNodes(n, prev) ==
  IF n = NULL THEN {} ELSE {n} \cup CriticalNodes(prev[n], prev)

\* Mutation: the critical nodes are not marked.
ComputeCriticalPath_Unmarked(a) ==
  LET topo == TopoSort(a)
      scan == FoldLeft(ScanNode, [attr |-> topo.attr, len |-> 0, time |-> 0, last |-> NULL],
                       topo.list)
  IN  [time |-> scan.time, len |-> scan.len, attr |-> scan.attr]

ComputeCriticalPath(a) ==
  LET topo == TopoSort(a)
      scan == FoldLeft(ScanNode, [attr |-> topo.attr, len |-> 0, time |-> 0, last |-> NULL],
                       topo.list)
  IN  [time |-> scan.time, len |-> scan.len,
       attr |-> [scan.attr EXCEPT
                   !.critical = @ \cup CriticalNodes(scan.last, scan.attr.prevCritical)]]

-----------------------------------------------------------------------------
(* TotalTimeMetric.                                                        *)

Sum(s) == FoldLeft(+, 0, s)

TimesOf(types) ==
  LET ns == SelectSeq(GraphNodes, LAMBDA n : TypeOf[n] \in types)
  IN  [i \in DOMAIN ns |-> time[ns[i]]]

AllTypes == {TypeOf[n] : n \in Nodes}

\* Mutation: the array is not sorted.
ComputeStats_Unsorted(arr) ==
  LET At(i)  == arr[i + 1]
      half   == Len(arr) \div 2
  IN  [sorted |-> arr, total |-> Sum(arr),
       median2 |-> IF Len(arr) % 2 = 0 THEN At(half) + At(half - 1) ELSE 2 * At(half)]

\* compute_stats, for an array that is not empty: it leaves the array sorted.
\* The median is doubled.
ComputeStats(arr) ==
  LET sorted == SortSeq(arr, <)
      At(i)  == sorted[i + 1]
      half   == Len(arr) \div 2
  IN  [sorted |-> sorted, total |-> Sum(arr),
       median2 |-> IF Len(arr) % 2 = 0 THEN At(half) + At(half - 1) ELSE 2 * At(half)]

TotalTimePrint(m) ==
  LET At(i) == m.sorted[i + 1]
      n     == Len(m.sorted)
  IN  [kind |-> "tim", total |-> m.total, tasks |-> n, median2 |-> m.median2,
       chunks |-> m.chunks, explicit |-> m.explicit,
       quartiles |-> <<At(0), At(n \div 4), At(n \div 2), At((n * 3) \div 4), At(n - 1)>>]

\* Mutation: the total is that of the chunks.
TotalTimeInit_ChunksOnly ==
  LET stats == ComputeStats(TimesOf(AllTypes))
  IN  [kind |-> "tim", sorted |-> stats.sorted,
       total |-> Sum(TimesOf({"CHUNK_TASK"})), median2 |-> stats.median2,
       chunks |-> Sum(TimesOf({"CHUNK_TASK"})), explicit |-> Sum(TimesOf({"EXP_TASK"}))]

TotalTimeInit ==
  LET stats == ComputeStats(TimesOf(AllTypes))
  IN  [kind |-> "tim", sorted |-> stats.sorted,
       total |-> stats.total, median2 |-> stats.median2,
       chunks |-> Sum(TimesOf({"CHUNK_TASK"})), explicit |-> Sum(TimesOf({"EXP_TASK"}))]

-----------------------------------------------------------------------------
(* The files: Graph::printDotFile and LogFileMetric.                       *)

\* A node's line: critical nodes get a double circle.
PrintToStream(n) ==
  [time |-> time[n], type |-> TypeOf[n], doublecircle |-> n \in attr.critical]

PrintDotFile ==
  [kind |-> "dot", nodes |-> [n \in Nodes |-> PrintToStream(n)],
   edges |-> {<<n, m>> \in Nodes \X Nodes : m \in ToSet(Exits(n))}]

PrintLogFile == [kind |-> "log", times |-> TimesOf({"CHUNK_TASK"})]

-----------------------------------------------------------------------------
(* finalize_libtdg.                                                        *)

Kinds == {"tim", "cri", "dot", "log"}

\* An element of g_metrics that no token matched is never assigned.
NewMetric(token) ==
  [kind |-> IF Len(token) = 1 /\ token[1] \in Kinds THEN token[1] ELSE "uninitialized"]

NoAttributes ==
  [visited |-> {}, critical |-> {},
   level        |-> [n \in Nodes |-> -1],
   pathLength   |-> [n \in Nodes |-> 0],
   pathTime     |-> [n \in Nodes |-> 0],
   prevCritical |-> [n \in Nodes |-> NULL]]

\* The edges of a path lead from node to node.
IsPath(p, es) == \A i \in 1 .. Len(p) - 1 : <<p[i], p[i + 1]>> \in es

AcyclicOver(es, ids) ==
  \A p \in [1 .. Cardinality(ids) + 1 -> ids] : ~IsPath(p, es)

\* The graphs that can have been built: acyclic, no edge twice, and the root,
\* which has id 0, is the only node without a predecessor.
Rooted(es, ids) == {e[2] : e \in es} = ids \ {0}

Graphs(ids) ==
  LET pairs == {e \in ids \X (ids \ {0}) : e[1] # e[2]}
      sets  == UNION {kSubset(k, pairs) : k \in Cardinality(ids) - 1 .. MaxEdges}
  IN  UNION {SetToSeqs(es) : es \in {s \in sets : Rooted(s, ids) /\ AcyclicOver(s, ids)}}

Init ==
  /\ \E ids \in NodeSets : edges \in Graphs(ids) /\ time \in [ids -> Times]
  /\ \E i \in Inputs(edges, time) : env = i[1] /\ finalNode = i[2]
  /\ metrics = <<>> /\ attr = NoAttributes /\ printed = <<>> /\ pc = <<"start", 1>>

FinalizeStart ==
  /\ pc[1] = "start"
  /\ \/ finalNode = NULL /\ UNCHANGED time
     \/ /\ finalNode # NULL
        /\ \E d \in Elapsed : time' = [time EXCEPT ![finalNode] = @ + d]
  /\ LET tokens == ParseTokens(env)
     IN  metrics' = [i \in DOMAIN tokens |-> NewMetric(tokens[i])]
  /\ pc' = <<"init", 1>>
  /\ UNCHANGED <<edges, finalNode, env, attr, printed>>

\* A call through an uninitialized pointer may do anything: nothing is said of
\* the program after it.
Broken(i) == metrics[i].kind = "uninitialized"

MetricInit ==
  LET i == pc[2] IN
  /\ pc[1] = "init"
  /\ IF i > Len(metrics)
     THEN pc' = <<"print", 1>> /\ UNCHANGED metrics
     ELSE /\ metrics' = IF metrics[i].kind = "tim" THEN [metrics EXCEPT ![i] = TotalTimeInit]
                                                   ELSE metrics
          /\ pc' = IF Broken(i) THEN <<"undefined", i>> ELSE <<"init", i + 1>>
  /\ UNCHANGED <<edges, time, finalNode, env, attr, printed>>

MetricPrint ==
  LET i == pc[2] IN
  /\ pc[1] = "print" /\ i <= Len(metrics)
  /\ \/ /\ metrics[i].kind = "tim"
        /\ printed' = Append(printed, TotalTimePrint(metrics[i])) /\ UNCHANGED attr
     \/ /\ metrics[i].kind = "cri"
        /\ LET cri == ComputeCriticalPath(attr)
           IN  /\ printed' = Append(printed, [kind |-> "cri", time |-> cri.time, len |-> cri.len])
               /\ attr' = cri.attr
     \/ metrics[i].kind = "dot" /\ printed' = Append(printed, PrintDotFile) /\ UNCHANGED attr
     \/ metrics[i].kind = "log" /\ printed' = Append(printed, PrintLogFile) /\ UNCHANGED attr
  /\ pc' = <<"print", i + 1>>
  /\ UNCHANGED <<edges, time, finalNode, env, metrics>>

\* The file of dot or log cannot be opened: exit( -2 ).
OpenFails ==
  /\ pc[1] = "print" /\ pc[2] <= Len(metrics) /\ metrics[pc[2]].kind \in {"dot", "log"}
  /\ pc' = <<"exit", pc[2]>>
  /\ UNCHANGED <<edges, time, finalNode, env, metrics, attr, printed>>

\* The metrics and the graph are deleted.
FinalizeEnd ==
  /\ pc[1] = "print" /\ pc[2] > Len(metrics)
  /\ pc' = <<"done", 1>>
  /\ UNCHANGED <<edges, time, finalNode, env, metrics, attr, printed>>

Terminated == pc[1] \in {"done", "undefined", "exit"} /\ UNCHANGED vars

Next == FinalizeStart \/ MetricInit \/ MetricPrint \/ OpenFails \/ FinalizeEnd \/ Terminated

Spec == Init /\ [][Next]_vars

-----------------------------------------------------------------------------
(* Properties.                                                             *)

EdgeSet == ToSet(edges)

\* All paths of the graph: a node, or a path and one more edge.
Paths ==
  LET ofLength[k \in 1 .. Cardinality(Nodes)] ==
        IF k = 1 THEN {<<n>> : n \in Nodes}
        ELSE UNION {{Append(p, e[2]) : e \in {d \in EdgeSet : d[1] = p[k - 1]}} :
                     p \in ofLength[k - 1]}
  IN  UNION {ofLength[k] : k \in 1 .. Cardinality(Nodes)}

PathTime(p) == Sum([i \in DOMAIN p |-> time[p[i]]])

\* topoSort lists every node once, behind all its predecessors and by levels,
\* and the level of a node is the length of the longest path to it.
TopoSorted ==
  pc = <<"init", 1>> =>
    LET topo  == TopoSort(NoAttributes)
        list  == topo.list
        level == topo.attr.level
        all   == Paths
    IN  /\ Len(list) = Cardinality(Nodes) /\ ToSet(list) = Nodes
        /\ \A i, j \in DOMAIN list : <<list[i], list[j]>> \in EdgeSet => i < j
        /\ \A i, j \in DOMAIN list : i < j => level[list[i]] <= level[list[j]]
        /\ \A n \in Nodes :
             level[n] = Max({Len(p) - 1 : p \in {q \in all : q[Len(q)] = n}})

\* The positions in printed of the outputs of one kind.
PrintedBy(kind) == {i \in DOMAIN printed : printed[i].kind = kind}

\* The output of the first cri.  A later one finds every node visited and
\* prints an empty path.
FirstCri == printed[Min(PrintedBy("cri"))]

\* The nodes in S are the longest path of the graph in terms of time; when no
\* node took any time no node is marked.
IsCriticalPath(S) ==
  LET all     == Paths
      longest == Max({PathTime(p) : p \in all})
  IN  IF longest = 0 THEN S = {} ELSE \E p \in all : ToSet(p) = S /\ PathTime(p) = longest

\* The first cri prints the time of the longest path and marks its nodes.
CriticalPathCorrect ==
  pc[1] = "done" /\ PrintedBy("cri") # {} =>
    /\ FirstCri.time = Max({PathTime(p) : p \in Paths})
    /\ IsCriticalPath(attr.critical)

\* "the critical path length in terms of [...] number of tasks": the length
\* printed is the number of nodes on the path with the most nodes.
CriticalLengthCountsTasks ==
  PrintedBy("cri") # {} => FirstCri.len = Max({Len(p) : p \in Paths})

\* The critical path that cri prints is no longer than the work that tim
\* prints, whichever is printed first and although g_finalNode's time is
\* completed only by finalize_libtdg.
SpanWithinWork ==
  \A i \in PrintedBy("tim") :
    /\ PrintedBy("cri") # {} => FirstCri.time <= printed[i].total
    /\ printed[i].chunks + printed[i].explicit <= printed[i].total

\* The five numbers of tim go from the least to the greatest time of a node, in
\* order, and the median lies between the quartiles: the indices that printMetric
\* takes are those of the sorted array, whether the number of nodes is even or
\* odd, a multiple of four or not, and down to a graph of the root alone.
QuartilesOrdered ==
  \A i \in PrintedBy("tim") :
    LET q == printed[i].quartiles
    IN  /\ q[1] = Min(Range(time)) /\ q[5] = Max(Range(time))
        /\ \A k \in 1 .. 4 : q[k] <= q[k + 1]
        /\ 2 * q[2] <= printed[i].median2 /\ printed[i].median2 <= 2 * q[4]

\* The DOT file shows the critical path if and only if cri comes before dot in
\* TDG_TOOL_METRICS, and then all of it.
DotShowsCriticalPath ==
  \A i \in PrintedBy("dot") :
    LET circled == {n \in Nodes : printed[i].nodes[n].doublecircle}
    IN  IF \E j \in PrintedBy("cri") : j < i THEN IsCriticalPath(circled) ELSE circled = {}

\* The string is a list of metrics, separated by commas.
WellFormed(str) ==
  str = <<>> \/ (Len(str) % 2 = 1 /\ \A k \in DOMAIN str :
                  IF k % 2 = 1 THEN str[k] \in Kinds ELSE str[k] = ",")

\* finalize_libtdg calls through an uninitialized pointer exactly for strings
\* that are not a list of metrics, a comma at the end included; for the others
\* every metric is printed once, in the order of the list, up to the first
\* whose file cannot be opened.
RequestedMetricsPrinted ==
  /\ pc[1] = "undefined" => ~WellFormed(env)
  /\ pc[1] \in {"done", "exit"} =>
       /\ WellFormed(env)
       /\ Len(printed) = IF pc[1] = "done" THEN (Len(env) + 1) \div 2 ELSE pc[2] - 1
       /\ \A i \in DOMAIN printed : printed[i].kind = env[2 * i - 1]
=============================================================================
