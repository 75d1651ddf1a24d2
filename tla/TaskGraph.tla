----------------------------- MODULE TaskGraph -----------------------------
(***************************************************************************)
(* The task dependency graph of graph.h and graph.cc as a value, and the   *)
(* operations of class Graph on it.  A graph is a record                   *)
(*   nodes    the map _graphNodes: node -> type of every live node,        *)
(*   exits    the edges held by the _exitEdges vectors of the sources,     *)
(*   entries  the edges held by the _entryEdges vectors of the targets.    *)
(* An Edge is the pair of its ends.  exits and entries map an edge to the  *)
(* number of times the vectors hold it: an edge may be held more than      *)
(* once, the order inside a vector is abstracted.                          *)
(***************************************************************************)
EXTENDS Integers, FiniteSets

\* Node::NodeType.
NodeType ==
  {"ROOT_TASK", "IMP_TASK", "WS_TASK", "CHUNK_TASK", "EXP_TASK", "BARRIER", "TASKWAIT"}

\* f with f[k] = v, whether or not k was in its domain.
Put(f, k, v) == [x \in DOMAIN f \cup {k} |-> IF x = k THEN v ELSE f[x]]

\* f without k.
Drop(f, k) == [x \in DOMAIN f \ {k} |-> f[x]]

EmptyFcn == [x \in {} |-> 0]

\* vector::push_back of edge e, and vector::erase of the first such edge.
PushBack(v, e) == Put(v, e, IF e \in DOMAIN v THEN v[e] + 1 ELSE 1)

\* Mutation: the slot of the edge stays in the vector.
Erase_KeepsSlot(v, e) == IF e \notin DOMAIN v THEN v ELSE Put(v, e, v[e] - 1)

Erase(v, e) ==
  IF e \notin DOMAIN v THEN v ELSE IF v[e] = 1 THEN Drop(v, e) ELSE Put(v, e, v[e] - 1)

EmptyGraph == [nodes |-> EmptyFcn, exits |-> EmptyFcn, entries |-> EmptyFcn]

-----------------------------------------------------------------------------

AddNode(g, n, type) ==
  [nodes |-> Put(g.nodes, n, type), exits |-> g.exits, entries |-> g.entries]

IsConnectedWith(g, source, target) == <<source, target>> \in DOMAIN g.exits

\* Mutation: the edge is added without the isConnectedWith test.
ConnectNodes_Unchecked(g, source, target) ==
  [nodes   |-> g.nodes,
   exits   |-> PushBack(g.exits, <<source, target>>),
   entries |-> PushBack(g.entries, <<source, target>>)]

ConnectNodes(g, source, target) ==
  IF IsConnectedWith(g, source, target)
  THEN g
  ELSE [nodes   |-> g.nodes,
        exits   |-> PushBack(g.exits, <<source, target>>),
        entries |-> PushBack(g.entries, <<source, target>>)]

DisconnectNodes(g, source, target) ==
  [nodes   |-> g.nodes,
   exits   |-> Erase(g.exits, <<source, target>>),
   entries |-> Erase(g.entries, <<source, target>>)]

\* removeNode followed by delete: the map entry goes, and with the node its
\* own two vectors.  Edges to the node held by other nodes are not touched.
DeleteNode(g, n) ==
  [nodes   |-> Drop(g.nodes, n),
   exits   |-> [e \in {d \in DOMAIN g.exits : d[1] # n} |-> g.exits[e]],
   entries |-> [e \in {d \in DOMAIN g.entries : d[2] # n} |-> g.entries[e]]]

-----------------------------------------------------------------------------
(* Queries used by the properties.                                         *)

Edges(g) == DOMAIN g.exits

Preds(g, n) == {e[1] : e \in {d \in DOMAIN g.entries : d[2] = n}}

Succs(g, n) == {e[2] : e \in {d \in DOMAIN g.exits : d[1] = n}}

\* The nodes that a path of zero or more edges leads to from a node of S.
ReachableFrom(g, S) ==
  LET R[k \in 0..Cardinality(DOMAIN g.nodes)] ==
        IF k = 0 THEN S
                 ELSE LET P == R[k - 1]
                      IN  P \cup {e[2] : e \in {d \in Edges(g) : d[1] \in P}}
  IN  R[Cardinality(DOMAIN g.nodes)]

HasPath(g, m, n) == n \in ReachableFrom(g, {m})

\* Removing the nodes without a remaining predecessor, over and over, removes
\* every node exactly when there is no cycle.
IsAcyclic(g) ==
  LET Left[k \in 0..Cardinality(DOMAIN g.nodes)] ==
        IF k = 0 THEN DOMAIN g.nodes
                 ELSE LET P == Left[k - 1]
                      IN  {n \in P : \E m \in P : <<m, n>> \in Edges(g)}
  IN  Left[Cardinality(DOMAIN g.nodes)] = {}
=============================================================================
