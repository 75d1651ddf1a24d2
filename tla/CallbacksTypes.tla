--------------------------- MODULE CallbacksTypes ---------------------------
(***************************************************************************)
(* Proofs about Callbacks, part 1: what follows from the invariants in a   *)
(* state, that every step keeps the types of the variables, and that       *)
(* LifetimeInv is preserved when threads, the initial task, regions and    *)
(* implicit tasks begin and end.                                           *)
(***************************************************************************)
EXTENDS CallbacksInvariant, TLAPS

\* The parts of the task names.
LEMMA TaskNames ==
  ASSUME NEW k \in Nat, NEW t \in Threads
  PROVE  /\ Implicit(k, t) \in Task /\ Explicit(k, t) \in Task /\ InitialTask \in Task
         /\ Implicit(k, t)[1] = "implicit" /\ Implicit(k, t)[2] = k /\ Implicit(k, t)[3] = t
         /\ Explicit(k, t)[1] = "explicit" /\ Explicit(k, t)[2] = k /\ Explicit(k, t)[3] = t
         /\ InitialTask[1] = "initial" /\ InitialTask[3] = Master
  BY ThreadsAssumption DEF Implicit, Explicit, InitialTask, Task

\* The graph operations on the node map.
GraphNodes(g) == g.nodes \in [DOMAIN g.nodes -> NodeType] /\ DOMAIN g.nodes \subseteq Node

LEMMA AddNodeType ==
  ASSUME NEW g, GraphNodes(g), NEW n \in Node, NEW type \in NodeType
  PROVE  GraphNodes(CreateCleanNode(g, n, type))
<1>1. CreateCleanNode(g, n, type).nodes = Put(g.nodes, n, type)
  BY DEF CreateCleanNode, AddNode
<1>2. Put(g.nodes, n, type) \in [DOMAIN Put(g.nodes, n, type) -> NodeType]
  BY DEF Put, GraphNodes
<1>3. DOMAIN Put(g.nodes, n, type) \subseteq Node
  BY DEF Put, GraphNodes
<1> QED
  BY <1>1, <1>2, <1>3 DEF GraphNodes

LEMMA ConnectType ==
  ASSUME NEW g, GraphNodes(g), NEW m, NEW n
  PROVE  GraphNodes(ConnectNodes(g, m, n)) /\ GraphNodes(DisconnectNodes(g, m, n))
  BY DEF GraphNodes, ConnectNodes, DisconnectNodes

LEMMA DeleteType ==
  ASSUME NEW g, GraphNodes(g), NEW n
  PROVE  GraphNodes(DeleteNode(g, n))
<1>1. DeleteNode(g, n).nodes = Drop(g.nodes, n)
  BY DEF DeleteNode
<1>2. Drop(g.nodes, n) \in [DOMAIN Drop(g.nodes, n) -> NodeType]
  BY DEF Drop, GraphNodes
<1>3. DOMAIN Drop(g.nodes, n) \subseteq Node
  BY DEF Drop, GraphNodes
<1> QED
  BY <1>1, <1>2, <1>3 DEF GraphNodes

LEMMA NewNodeType ==
  ASSUME TypeOK, NEW t \in Threads, NEW i \in {1, 2}
  PROVE  NewNode(t, i) \in Node
  BY DEF TypeOK, NewNode, Node

LEMMA CreateNodeType ==
  ASSUME NEW g, GraphNodes(g), NEW n \in Node, NEW type \in NodeType, NEW m
  PROVE  GraphNodes(CreateNewNode(g, n, type, m))
  BY AddNodeType, ConnectType DEF CreateNewNode

\* The records that callbacks update keep their types.
LEMMA ArrivedType ==
  ASSUME NEW p \in ParallelRegionData, NEW b \in Node \cup {NULL}
  PROVE  /\ Arrived(p, b) \in ParallelRegionData
         /\ Arrived(p, b).parent = p.parent /\ Arrived(p, b).sink = p.sink
         /\ Arrived(p, b).teamSize = p.teamSize /\ Arrived(p, b).barrier = b
<1> DEFINE k == IF ~FirstAtBarrier(p) /\ p.cnt + 1 >= p.teamSize THEN 0 ELSE p.cnt + 1
<1>1. k \in Nat
  BY DEF ParallelRegionData
<1>2. Arrived(p, b) = [p EXCEPT !.cnt = k, !.barrier = b]
  BY DEF Arrived
<1> HIDE DEF k
<1> QED
  BY Zenon, <1>1, <1>2 DEF ParallelRegionData

LEMMA ResumeType ==
  ASSUME NEW e \in ExplicitTask, NEW s \in Suspended
  PROVE  /\ [e EXCEPT !.resume = s] \in ExplicitTask
         /\ [e EXCEPT !.resume = s].resume = s
  BY DEF ExplicitTask

LEMMA NodeUpdateType ==
  ASSUME NEW f, f \in [DOMAIN f -> TaskData], NEW x \in DOMAIN f, NEW n \in Node
  PROVE  /\ [f EXCEPT ![x].node = n] \in [DOMAIN f -> TaskData]
         /\ DOMAIN [f EXCEPT ![x].node = n] = DOMAIN f
  BY DEF TaskData

-----------------------------------------------------------------------------

LEMMA InitOK == Init => TypeOK /\ LifetimeInv
<1> SUFFICES ASSUME Init PROVE TypeOK /\ LifetimeInv
  OBVIOUS
<1>1. TypeOK
  BY DEF Init, TypeOK, EmptyGraph, EmptyFcn, Location
<1>2. LifetimeInv
  BY DEF Init, LifetimeInv, EmptyFcn, ThreadInv, RegionInv, ExclusiveInv
<1> QED
  BY <1>1, <1>2

\* A region without data has all its implicit tasks at the join.
LEMMA RegionOpen ==
  ASSUME TypeOK, LifetimeInv, NEW x \in DOMAIN reached, ~AtJoin(x)
  PROVE  x[2] \in DOMAIN parInfo
<1>1. ReachedInv(x)
  BY DEF LifetimeInv
<1>2. RegionInv(x[2])
  BY <1>1 DEF LifetimeInv, ReachedInv
<1> QED
  BY <1>1, <1>2 DEF ReachedInv, RegionInv

\* The invariant implies the property.
LEMMA LifetimeImplies ==
  ASSUME TypeOK, LifetimeInv
  PROVE  FreedOnlyReadAtJoin
<1>1. ASSUME NEW t \in Threads
      PROVE  /\ pc[t] \in {"run", "fork", "arrive", "barrier", "wake", "leave"} =>
                  cur[t] \in DOMAIN taskData
             /\ pc[t] \in {"arrive", "joined"} \/ InImplicitTask(t) => cur[t][2] \in DOMAIN parInfo
             /\ ReadsDeleted(t) => AtJoin(cur[t]) /\ t # regions[cur[t][2]].thread
             /\ pc[t] \notin {"down", "ended"} => t \in DOMAIN threadData
  <2>1. ThreadInv(t)
    BY DEF LifetimeInv
  <2>2. CASE pc[t] = "joined"
    <3>1. cur[t] \in DOMAIN reached /\ cur[t][3] = t
      BY <2>1, <2>2 DEF ThreadInv, InUse, Executor
    <3> QED
      BY <2>1, <2>2, <3>1 DEF ThreadInv, InUse, InImplicitTask, ReadsDeleted
  <2>3. CASE pc[t] = "arrive" \/ InImplicitTask(t)
    <3>1. cur[t] \in DOMAIN reached /\ ~AtJoin(cur[t])
      BY <2>1, <2>3 DEF ThreadInv, InUse, InUserCode, InImplicitTask
    <3>2. cur[t][2] \in DOMAIN parInfo
      BY <3>1, RegionOpen
    <3> QED
      BY Zenon, <2>1, <2>3, <3>2 DEF ThreadInv, InImplicitTask, ReadsDeleted
  <2>4. ASSUME ReadsDeleted(t)
        PROVE  AtJoin(cur[t]) /\ t # regions[cur[t][2]].thread
    <3>1. /\ cur[t] \in DOMAIN reached /\ cur[t][3] = t
          /\ t = regions[cur[t][2]].thread => cur[t][2] \in DOMAIN parInfo
      BY <2>1, <2>4 DEF ThreadInv, InUse, Executor, ReadsDeleted
    <3> QED
      BY <2>4, <3>1, RegionOpen DEF ReadsDeleted
  <2>5. CASE pc[t] \notin {"arrive", "joined"} /\ ~InImplicitTask(t)
    BY <2>1, <2>4, <2>5 DEF ThreadInv
  <2> QED
    BY <2>2, <2>3, <2>5
<1>2. ASSUME NEW r \in DOMAIN regions
      PROVE  /\ r \in DOMAIN parInfo => parInfo[r].parent \in DOMAIN taskData
             /\ r \notin DOMAIN parInfo => \A t \in regions[r].team : ~Assigned(t, r)
  BY DEF LifetimeInv, RegionInv, Assigned
<1>3. ASSUME NEW y \in DOMAIN tasks, tasks[y].resume # NULL
      PROVE  tasks[y].resume.task \in DOMAIN taskData
  BY <1>3 DEF LifetimeInv, TaskInv
<1> QED
  BY <1>1, <1>2, <1>3 DEF FreedOnlyReadAtJoin

\* The implicit task that a thread executes, or with which it enters a barrier.
LEMMA CurrentImplicit ==
  ASSUME TypeOK, LifetimeInv, NEW t \in Threads, pc[t] = "arrive" \/ InImplicitTask(t)
  PROVE  /\ cur[t] \in DOMAIN taskData /\ taskData[cur[t]] \in TaskData
         /\ cur[t] \in DOMAIN reached /\ reached[cur[t]] \in Nat
         /\ cur[t][2] \in DOMAIN parInfo /\ parInfo[cur[t][2]] \in ParallelRegionData
         /\ cur[t][2] \in DOMAIN regions
         /\ cur[t] = Implicit(cur[t][2], t) /\ ~AtJoin(cur[t])
<1>1. ThreadInv(t)
  BY DEF LifetimeInv
<1>2. cur[t] \in DOMAIN taskData /\ cur[t][2] \in DOMAIN parInfo
  BY LifetimeImplies DEF FreedOnlyReadAtJoin, InImplicitTask
<1>3. cur[t] \in DOMAIN reached /\ ~AtJoin(cur[t]) /\ cur[t][3] = t
  BY <1>1 DEF ThreadInv, InUse, InUserCode, InImplicitTask, Executor
<1>4. cur[t] = Implicit(cur[t][2], t)
  BY <1>3 DEF LifetimeInv, ReachedInv
<1> QED
  BY <1>2, <1>3, <1>4 DEF TypeOK

-----------------------------------------------------------------------------

\* Extend changes at most the script of the current region, at its end.
LEMMA ExtendFact ==
  ASSUME TypeOK, NEW t \in Threads, NEW c \in Construct, cur[t][2] \in DOMAIN regions
  PROVE  /\ Extend(t, c) \in Seq(Region) /\ DOMAIN Extend(t, c) = DOMAIN regions
         /\ \A i \in DOMAIN regions :
              /\ Extend(t, c)[i].team = regions[i].team
              /\ Extend(t, c)[i].thread = regions[i].thread
              /\ Extend(t, c)[i].parent = regions[i].parent
              /\ \/ Extend(t, c)[i].script = regions[i].script
                 \/ /\ i = cur[t][2] /\ ~(reached[cur[t]] < Len(regions[i].script))
                    /\ Extend(t, c)[i].script = Append(regions[i].script, c)
<1> DEFINE r == cur[t][2]
<1>1. CASE reached[cur[t]] < Len(regions[r].script)
  BY <1>1 DEF Extend, TypeOK
<1>2. CASE ~(reached[cur[t]] < Len(regions[r].script))
  <2> DEFINE new == [regions[r] EXCEPT !.script = Append(regions[r].script, c)]
  <2>1. Extend(t, c) = [regions EXCEPT ![r] = new]
    BY <1>2 DEF Extend
  <2>2. regions \in Seq(Region) /\ regions[r] \in Region
    BY DEF TypeOK
  <2>3. /\ new \in Region /\ new.team = regions[r].team /\ new.thread = regions[r].thread
        /\ new.parent = regions[r].parent /\ new.script = Append(regions[r].script, c)
    <3>1. Append(regions[r].script, c) \in Seq(Construct)
      BY <2>2 DEF Region
    <3> QED
      BY Zenon, <2>2, <3>1 DEF Region
  <2> HIDE DEF new
  <2>4. Extend(t, c) \in Seq(Region) /\ DOMAIN Extend(t, c) = DOMAIN regions
    BY <2>1, <2>2, <2>3
  <2>5. Extend(t, c)[r] = new /\ \A i \in DOMAIN regions : i # r => Extend(t, c)[i] = regions[i]
    BY <2>1, <2>2
  <2> QED
    BY Zenon, <1>2, <2>3, <2>4, <2>5
<1> QED
  BY <1>1, <1>2

\* The construct that a thread begins is the next one of the extended script.
LEMMA ExtendNext ==
  ASSUME TypeOK, LifetimeInv, NEW t \in Threads, InImplicitTask(t), NEW c \in Construct,
         MayBegin(t, c), regions' = Extend(t, c)
  PROVE  /\ regions'[cur[t][2]].script \in Seq(Construct)
         /\ reached[cur[t]] < Len(regions'[cur[t][2]].script)
         /\ regions'[cur[t][2]].script[reached[cur[t]] + 1] = c
         /\ \A i \in 1..reached[cur[t]] :
              regions'[cur[t][2]].script[i] = regions[cur[t][2]].script[i]
<1> DEFINE r   == cur[t][2]
           k   == reached[cur[t]]
           old == regions[r].script
           new == regions'[r].script
<1>1. k \in Nat /\ r \in DOMAIN regions /\ cur[t] \in DOMAIN reached
  BY Zenon, CurrentImplicit
<1>2. regions[r] \in Region /\ k <= Len(old)
  BY <1>1 DEF TypeOK, LifetimeInv, ReachedInv
<1>3. old \in Seq(Construct)
  BY Zenon, <1>2 DEF Region
<1>4. CASE k < Len(old)
  <2>1. new = old
    BY <1>4 DEF Extend
  <2>2. k + 1 <= Len(old)
    BY <1>1, <1>3, <1>4
  <2>3. old[k + 1] = c
    BY <2>2 DEF MayBegin
  <2> QED
    BY <1>3, <1>4, <2>1, <2>3
<1>5. CASE ~(k < Len(old))
  <2>1. k = Len(old)
    BY <1>1, <1>2, <1>3, <1>5
  <2>2. new = Append(old, c)
    <3>1. regions' = [regions EXCEPT ![r].script = Append(@, c)]
      BY Zenon, <1>5 DEF Extend
    <3> QED
      BY <1>1, <1>2, <3>1 DEF Region, TypeOK
  <2> HIDE DEF k, old, new
  <2>3. new \in Seq(Construct) /\ k < Len(new) /\ new[k + 1] = c /\ \A i \in 1..k : new[i] = old[i]
    BY <1>1, <1>3, <2>1, <2>2
  <2> QED
    BY <2>3 DEF k, old, new
<1> QED
  BY Zenon, <1>4, <1>5

\* The variables keep their types.
LEMMA TypeStep ==
  ASSUME TypeOK, LifetimeInv, [Next]_vars
  PROVE  TypeOK'
<1> USE DEF TypeOK
<1>0. FreedOnlyReadAtJoin
  BY LifetimeImplies
<1>1. CASE UNCHANGED vars
  BY <1>1 DEF vars, toolVars, runtimeVars
<1>2. ASSUME NEW t \in Threads, CbThreadBegin(t)
      PROVE  TypeOK'
  <2> USE <1>2 DEF CbThreadBegin
  <2>1. threadData' \in [DOMAIN threadData' -> Nat] /\ DOMAIN threadData' \subseteq Threads
    BY DEF Put
  <2> QED
    BY <2>1 DEF Location
<1>3. ASSUME NEW t \in Threads, CbThreadEnd(t)
      PROVE  TypeOK'
  <2> USE <1>3 DEF CbThreadEnd
  <2>1. threadData' \in [DOMAIN threadData' -> Nat] /\ DOMAIN threadData' \subseteq Threads
    BY DEF Drop
  <2> QED
    BY <2>1 DEF Location
<1>4. ASSUME CbTaskCreateInitial
      PROVE  TypeOK'
  <2> USE <1>4, ThreadsAssumption DEF CbTaskCreateInitial
  <2> DEFINE n == NewNode(Master, 1)
             d == [node |-> n, ws |-> NULL, barrier |-> NULL, sink |-> NULL, threadNum |-> 0]
  <2>1. n \in Node
    BY NewNodeType
  <2>2. GraphNodes(tdg')
    BY Zenon, <2>1, AddNodeType DEF GraphNodes, NodeType
  <2>3. d \in TaskData
    BY <2>1 DEF TaskData
  <2>4. taskData' \in [DOMAIN taskData' -> TaskData] /\ DOMAIN taskData' \subseteq Task
    BY <2>3, TaskNames DEF Put
  <2>5. nextNode' \in [Threads -> Nat]
    BY DEF Allocate
  <2>6. cur' \in [Threads -> Task \cup {NULL}]
    BY TaskNames
  <2> QED
    BY <2>1, <2>2, <2>4, <2>5, <2>6 DEF GraphNodes, Location
<1>5. ASSUME NEW t \in Threads, NEW team \in Teams,
             NEW requested \in Cardinality(team) .. Cardinality(team) + Shortfall,
             CbParallelBegin(t, team, requested)
      PROVE  TypeOK'
  <2> USE <1>5 DEF CbParallelBegin
  <2> DEFINE n == NewNode(t, 1)
             p == [parent |-> cur[t], sink |-> n, teamSize |-> requested,
                   cnt |-> 0, barrier |-> NULL]
             region == [team |-> team, thread |-> t, parent |-> cur[t], script |-> <<>>]
  <2>1. n \in Node /\ cur[t] \in Task
    BY Zenon, <1>0, NewNodeType DEF FreedOnlyReadAtJoin
  <2>2. GraphNodes(tdg')
    BY Zenon, <2>1, AddNodeType DEF GraphNodes, NodeType
  <2>3. requested \in Nat
    BY TeamsAssumption, BoundsAssumption
  <2>4. p \in ParallelRegionData
    BY <2>1, <2>3 DEF ParallelRegionData
  <2>5. region \in Region
    BY <2>1, TeamsAssumption DEF Region
  <2>6. /\ regions' \in Seq(Region) /\ Len(regions') = Len(regions) + 1
        /\ DOMAIN regions = 1..Len(regions) /\ DOMAIN regions' = 1..Len(regions')
        /\ Len(regions) \in Nat
    BY <2>5
  <2>7. parInfo' \in [DOMAIN parInfo' -> ParallelRegionData]
        /\ DOMAIN parInfo' \subseteq DOMAIN regions'
    BY <2>4, <2>6 DEF Put
  <2>8. nextNode' \in [Threads -> Nat]
    BY DEF Allocate
  <2> QED
    BY Zenon, <2>2, <2>6, <2>7, <2>8 DEF GraphNodes, Location
<1>6. ASSUME NEW t \in Threads, NEW r \in DOMAIN regions, CbImplicitTaskBegin(t, r)
      PROVE  TypeOK'
  <2> USE <1>6 DEF CbImplicitTaskBegin
  <2> DEFINE n == NewNode(t, 1)
             d == [node |-> n, ws |-> NULL, barrier |-> NULL, sink |-> parInfo[r].sink,
                   threadNum |-> IF t = regions[r].thread THEN 0 ELSE 1]
  <2>1. n \in Node /\ parInfo[r].sink \in Node /\ r \in Nat
    BY <1>0, NewNodeType DEF FreedOnlyReadAtJoin, ParallelRegionData, Assigned
  <2>2. GraphNodes(tdg')
    BY Zenon, <2>1, CreateNodeType DEF GraphNodes, NodeType
  <2>3. d \in TaskData
    BY Zenon, <2>1 DEF TaskData
  <2>4. Implicit(r, t) \in Task
    BY Zenon, <2>1, TaskNames
  <2>5. taskData' \in [DOMAIN taskData' -> TaskData] /\ DOMAIN taskData' \subseteq Task
    BY <2>3, <2>4 DEF Put
  <2>6. reached' \in [DOMAIN reached' -> Nat] /\ DOMAIN reached' \subseteq Task
    BY <2>4 DEF Put
  <2>7. nextNode' \in [Threads -> Nat]
    BY DEF Allocate
  <2> QED
    BY Zenon, <2>2, <2>4, <2>5, <2>6, <2>7 DEF GraphNodes, Location
<1>7. ASSUME NEW t \in Threads, CbImplicitTaskEnd(t)
      PROVE  TypeOK'
  <2> USE <1>7 DEF CbImplicitTaskEnd
  <2>1. GraphNodes(tdg')
    BY Zenon, ConnectType, DeleteType DEF JoinGraph, GraphNodes
  <2>2. taskData' \in [DOMAIN taskData' -> TaskData] /\ DOMAIN taskData' \subseteq Task
    BY DEF Drop
  <2>3. pc' \in [Threads -> Location] /\ cur' \in [Threads -> Task \cup {NULL}]
    BY Zenon DEF Location
  <2> QED
    BY <2>1, <2>2, <2>3 DEF GraphNodes
<1>8. ASSUME NEW t \in Threads, CbParallelEnd(t)
      PROVE  TypeOK'
  <2> USE <1>8 DEF CbParallelEnd
  <2> DEFINE r == cur[t][2]
  <2>1. r \in DOMAIN parInfo
    BY <1>0 DEF FreedOnlyReadAtJoin
  <2>2. parInfo[r].parent \in DOMAIN taskData /\ parInfo[r].sink \in Node
    BY Zenon, <1>0, <2>1 DEF FreedOnlyReadAtJoin, ParallelRegionData
  <2>3. taskData' \in [DOMAIN taskData' -> TaskData] /\ DOMAIN taskData' \subseteq Task
    <3>1. taskData' = [taskData EXCEPT ![parInfo[r].parent].node = parInfo[r].sink]
      BY Zenon DEF CbParallelEnd
    <3> QED
      BY <2>2, <3>1, NodeUpdateType
  <2>4. parInfo' \in [DOMAIN parInfo' -> ParallelRegionData]
        /\ DOMAIN parInfo' \subseteq DOMAIN regions'
    BY Zenon DEF Drop
  <2>5. cur' \in [Threads -> Task \cup {NULL}]
    <3>1. regions[r] \in Region
      BY <2>1
    <3> QED
      BY Zenon, <3>1 DEF Region
  <2> QED
    BY Zenon, <2>2, <2>3, <2>4, <2>5 DEF Location
<1>9. ASSUME NEW t \in Threads, NEW c \in {"barrier", "join"}, CbSyncRegionBegin(t, c)
      PROVE  TypeOK'
  <2> DEFINE x == cur[t]
             p == parInfo[x[2]]
             n == taskData[x].node
             first == FirstAtBarrier(p)
             b == IF first THEN NewNode(t, 1) ELSE p.barrier
  <2>1. /\ x \in DOMAIN taskData /\ taskData[x] \in TaskData /\ p \in ParallelRegionData
        /\ x \in DOMAIN reached /\ x[2] \in DOMAIN parInfo /\ x[2] \in DOMAIN regions
    BY Zenon, <1>9, CurrentImplicit DEF CbSyncRegionBegin
  <2>2. b \in Node \cup {NULL} /\ NewNode(t, 1) \in Node
    BY Zenon, <2>1, NewNodeType DEF ParallelRegionData
  <2>3. regions' \in Seq(Region) /\ DOMAIN regions' = DOMAIN regions
    BY <1>9, <2>1, ExtendFact DEF Construct, CbSyncRegionBegin
  <2>4. /\ UNCHANGED <<finalNode, threadData, chunkInfo, tasks, chunksLeft, cur>>
        /\ pc' \in [Threads -> Location]
    BY Zenon, <1>9 DEF CbSyncRegionBegin, Location
  <2>5. CASE p.teamSize > 1
    <3>1. /\ tdg' = IF first THEN CreateNewNode(tdg, b, "BARRIER", n)
                             ELSE ConnectNodes(tdg, n, b)
          /\ Allocate(t, IF first THEN 1 ELSE 0)
          /\ parInfo' = [parInfo EXCEPT ![x[2]] = Arrived(p, b)]
          /\ taskData' = [taskData EXCEPT ![x].barrier = b]
          /\ UNCHANGED reached
      BY <1>9, <2>5 DEF CbSyncRegionBegin
    <3>2. GraphNodes(tdg')
      BY Zenon, <2>2, <3>1, CreateNodeType, ConnectType DEF GraphNodes, NodeType
    <3>3. nextNode' \in [Threads -> Nat]
      <4>1. (IF first THEN 1 ELSE 0) \in Nat
        OBVIOUS
      <4> HIDE DEF first
      <4> QED
        BY <3>1, <4>1 DEF Allocate
    <3>4. Arrived(p, b) \in ParallelRegionData
      BY <2>1, <2>2, ArrivedType
    <3>5. parInfo' \in [DOMAIN parInfo' -> ParallelRegionData]
          /\ DOMAIN parInfo' \subseteq DOMAIN regions'
      BY Zenon, <2>3, <3>1, <3>4
    <3>6. taskData' \in [DOMAIN taskData' -> TaskData] /\ DOMAIN taskData' \subseteq Task
      BY Zenon, <2>1, <2>2, <3>1 DEF TaskData
    <3> QED
      BY Zenon, <2>3, <2>4, <3>1, <3>2, <3>3, <3>5, <3>6 DEF GraphNodes
  <2>6. CASE ~(p.teamSize > 1)
    <3>1. /\ reached' = [reached EXCEPT ![x] = reached[x] + 1]
          /\ UNCHANGED <<tdg, taskData, parInfo, nextNode>>
      BY <1>9, <2>6 DEF CbSyncRegionBegin
    <3> QED
      BY <2>1, <2>3, <2>4, <3>1
  <2> QED
    BY <2>5, <2>6
<1>10. ASSUME NEW t \in Threads, CbSyncRegionArrive(t)
       PROVE  TypeOK'
  <2> USE <1>10 DEF CbSyncRegionArrive
  <2> DEFINE x == cur[t]
             n == NewNode(t, 1)
  <2>1. x \in DOMAIN taskData /\ taskData[x] \in TaskData /\ n \in Node /\ x \in DOMAIN reached
    BY CurrentImplicit, NewNodeType
  <2>2. GraphNodes(tdg')
    BY Zenon, <2>1, CreateNodeType, ConnectType DEF GraphNodes, NodeType
  <2>3. taskData' \in [DOMAIN taskData' -> TaskData] /\ DOMAIN taskData' \subseteq Task
    BY Zenon, <2>1 DEF TaskData
  <2>4. nextNode' \in [Threads -> Nat]
    BY DEF Allocate
  <2>5. reached' \in [DOMAIN reached' -> Nat] /\ DOMAIN reached' = DOMAIN reached
    BY <2>1
  <2> QED
    BY Zenon, <2>2, <2>3, <2>4, <2>5 DEF GraphNodes, Location
<1>11. ASSUME NEW t \in Threads, CbSyncRegionEnd(t)
       PROVE  TypeOK'
  BY <1>11 DEF CbSyncRegionEnd, Past, toolVars, Location
<1>12. ASSUME NEW t \in Threads, CbExtLoopBegin(t)
       PROVE  TypeOK'
  <2> USE <1>12 DEF CbExtLoopBegin
  <2> DEFINE x == cur[t]
             ws == [start |-> NewNode(t, 1), sink |-> NewNode(t, 2), lastChunk |-> NULL]
  <2>1. /\ x \in DOMAIN taskData /\ taskData[x] \in TaskData
        /\ x \in DOMAIN reached /\ x[2] \in DOMAIN regions
    BY CurrentImplicit
  <2>2. NewNode(t, 1) \in Node /\ NewNode(t, 2) \in Node
    BY NewNodeType
  <2>3. GraphNodes(tdg')
    BY Zenon, <2>2, CreateNodeType, AddNodeType DEF GraphNodes, NodeType
  <2>4. ws \in WorksharingData
    BY <2>2 DEF WorksharingData
  <2>5. taskData' \in [DOMAIN taskData' -> TaskData] /\ DOMAIN taskData' \subseteq Task
    BY Zenon, <2>1, <2>4 DEF TaskData
  <2>6. regions' \in Seq(Region) /\ DOMAIN regions' = DOMAIN regions
    BY <2>1, ExtendFact DEF Construct
  <2>7. nextNode' \in [Threads -> Nat]
    BY DEF Allocate
  <2>8. reached' \in [DOMAIN reached' -> Nat] /\ DOMAIN reached' = DOMAIN reached
    BY <2>1
  <2> QED
    BY <2>3, <2>5, <2>6, <2>7, <2>8 DEF GraphNodes
<1>13. ASSUME NEW t \in Threads, NEW lastChunk \in BOOLEAN, CbExtChunk(t, lastChunk)
       PROVE  TypeOK'
  <2> DEFINE x == cur[t]
             ws == taskData[x].ws
             n == NewNode(t, 1)
  <2>1. /\ x \in DOMAIN taskData /\ taskData[x] \in TaskData /\ n \in Node /\ ws # NULL
        /\ UNCHANGED <<finalNode, parInfo, threadData, regions, reached, tasks, cur, pc>>
    BY <1>13, CurrentImplicit, NewNodeType DEF CbExtChunk
  <2>2. CASE lastChunk
    BY Zenon, <1>13, <2>1, <2>2 DEF CbExtChunk
  <2>3. CASE ~lastChunk
    <3>1. /\ tdg' = ConnectNodes(CreateNewNode(tdg, n, "CHUNK_TASK", ws.start), n, ws.sink)
          /\ taskData' = [taskData EXCEPT ![x].ws.lastChunk = n]
          /\ Allocate(t, 1)
      BY <1>13, <2>3 DEF CbExtChunk
    <3>2. GraphNodes(tdg')
      BY Zenon, <2>1, <3>1, CreateNodeType, ConnectType DEF GraphNodes, NodeType
    <3>3. taskData' \in [DOMAIN taskData' -> TaskData] /\ DOMAIN taskData' \subseteq Task
      BY Zenon, <2>1, <3>1 DEF TaskData, WorksharingData
    <3>4. nextNode' \in [Threads -> Nat]
      BY <3>1 DEF Allocate
    <3> QED
      BY <2>1, <3>2, <3>3, <3>4 DEF GraphNodes
  <2> QED
    BY Zenon, <2>2, <2>3
<1>14. ASSUME NEW t \in Threads, CbExtLoopEnd(t)
       PROVE  TypeOK'
  <2> USE <1>14 DEF CbExtLoopEnd
  <2> DEFINE x == cur[t]
  <2>1. /\ x \in DOMAIN taskData /\ taskData[x] \in TaskData
        /\ taskData[x].ws \in WorksharingData /\ t \in DOMAIN threadData
    BY <1>0, CurrentImplicit DEF TaskData, FreedOnlyReadAtJoin, InImplicitTask
  <2>2. GraphNodes(tdg')
    BY Zenon, ConnectType DEF GraphNodes, LoopEndGraph
  <2>3. taskData' \in [DOMAIN taskData' -> TaskData] /\ DOMAIN taskData' \subseteq Task
    BY Zenon, <2>1 DEF TaskData, WorksharingData
  <2>4. threadData' \in [DOMAIN threadData' -> Nat] /\ DOMAIN threadData' = DOMAIN threadData
    BY <2>1
  <2> QED
    BY Zenon, <2>2, <2>3, <2>4 DEF GraphNodes
<1>15. ASSUME NEW t \in Threads, CbTaskCreateExplicit(t)
       PROVE  TypeOK'
  <2> USE <1>15 DEF CbTaskCreateExplicit
  <2> DEFINE x == cur[t]
             n == NewNode(t, 1)
             y == Explicit(n[2], t)
             d == [node |-> n, ws |-> NULL, barrier |-> NULL, sink |-> NULL, threadNum |-> 0]
             e == [region |-> BindingRegion(x), round |-> Round(x), resume |-> NULL]
  <2>1. x \in DOMAIN taskData /\ x \in Task /\ n \in Node /\ n[2] \in Nat
    BY <1>0, NewNodeType DEF FreedOnlyReadAtJoin, Node
  <2>2. GraphNodes(tdg')
    BY Zenon, <2>1, CreateNodeType DEF GraphNodes, NodeType
  <2>3. d \in TaskData /\ y \in Task
    BY Zenon, <2>1, TaskNames DEF TaskData
  <2>4. taskData' \in [DOMAIN taskData' -> TaskData] /\ DOMAIN taskData' \subseteq Task
    BY Zenon, <2>3 DEF Put
  <2>5. e \in ExplicitTask
    <3>1. InUse(x)
      BY <2>1, NullAssumption DEF LifetimeInv, ThreadInv
    <3>2. BindingRegion(x) \in Nat /\ Round(x) \in Nat
      BY <2>1, <3>1 DEF InUse, Started, BindingRegion, Round, Task, ExplicitTask
    <3> QED
      BY Zenon, <3>2 DEF ExplicitTask
  <2>6. tasks' \in [DOMAIN tasks' -> ExplicitTask] /\ DOMAIN tasks' \subseteq Task
    BY <2>3, <2>5 DEF Put
  <2>7. nextNode' \in [Threads -> Nat]
    BY DEF Allocate
  <2> QED
    BY Zenon, <2>2, <2>4, <2>6, <2>7 DEF GraphNodes
<1>16. ASSUME NEW t \in Threads, NEW y \in DOMAIN tasks, CbTaskScheduleStart(t, y)
       PROVE  TypeOK'
  <2> USE <1>16 DEF CbTaskScheduleStart
  <2> DEFINE s == [thread |-> t, task |-> cur[t], pc |-> pc[t]]
  <2>1. s \in Suspended
    BY <1>0 DEF FreedOnlyReadAtJoin, Suspended
  <2>2. tasks' \in [DOMAIN tasks' -> ExplicitTask] /\ DOMAIN tasks' \subseteq Task
    <3>1. tasks' = [tasks EXCEPT ![y] = [tasks[y] EXCEPT !.resume = s]]
      OBVIOUS
    <3>2. [tasks[y] EXCEPT !.resume = s] \in ExplicitTask
      BY <2>1, ResumeType
    <3> QED
      BY <3>1, <3>2
  <2> QED
    BY <2>2 DEF toolVars, Location
<1>17. ASSUME NEW t \in Threads, CbTaskScheduleEnd(t)
       PROVE  TypeOK'
  <2> USE <1>17 DEF CbTaskScheduleEnd
  <2>1. tasks[cur[t]].resume \in Suspended
    <3>1. Started(cur[t])
      BY NullAssumption, <1>0 DEF LifetimeInv, ThreadInv, InUse, FreedOnlyReadAtJoin
    <3> QED
      BY Zenon, <3>1 DEF Started, ExplicitTask
  <2>2. tasks' \in [DOMAIN tasks' -> ExplicitTask] /\ DOMAIN tasks' \subseteq Task
    BY DEF Drop
  <2> QED
    BY <2>1, <2>2 DEF toolVars, Location, Suspended
<1>18. ASSUME NEW t \in Threads, CbSyncRegionLoad(t)
       PROVE  TypeOK'
  BY <1>18 DEF CbSyncRegionLoad, Past, toolVars, Location
<1>19. CASE Terminated
  BY <1>19 DEF Terminated, vars, toolVars, runtimeVars
<1> QED
  BY Zenon, <1>1, <1>2, <1>3, <1>4, <1>5, <1>6, <1>7, <1>8, <1>9, <1>10, <1>11, <1>12,
     <1>13, <1>14, <1>15, <1>16, <1>17, <1>18, <1>19
  DEF Next, Step

-----------------------------------------------------------------------------

\* The runtime's view of regions and tasks does not change.
LEMMA Frame ==
  ASSUME UNCHANGED <<regions, reached, parInfo, tasks>>
  PROVE  /\ \A x : InUse(x)' <=> InUse(x)
         /\ \A x : Executor(x)' = Executor(x)
         /\ \A x : InUserCode(x)' <=> InUserCode(x)
         /\ \A x : AtJoin(x)' <=> AtJoin(x)
         /\ \A x : AllArrived(x)' <=> AllArrived(x)
  BY DEF InUse, Executor, InUserCode, AtJoin, AllArrived, Started

\* No two threads execute the same task.
LEMMA CurrentDistinct ==
  ASSUME LifetimeInv, NEW t \in Threads, NEW u \in Threads, cur[t] = cur[u], cur[t] # NULL
  PROVE  t = u
  BY DEF LifetimeInv, ThreadInv

\* What a started task suspends is a task.
LEMMA SuspendedTask ==
  ASSUME TypeOK, NEW y \in DOMAIN tasks, tasks[y].resume # NULL
  PROVE  tasks[y].resume \in Suspended /\ tasks[y].resume.task \in Task
<1>1. tasks[y] \in ExplicitTask
  BY DEF TypeOK
<1> QED
  BY <1>1 DEF ExplicitTask, Suspended

\* Threads come and go.
LEMMA ThreadBeginStep ==
  ASSUME TypeOK, LifetimeInv, NEW t \in Threads, CbThreadBegin(t)
  PROVE  LifetimeInv'
<1> USE DEF CbThreadBegin
<1>1. ASSUME NEW u \in Threads PROVE ThreadInv(u)'
  BY Frame DEF LifetimeInv, ThreadInv, Put, TypeOK
<1>2. ASSUME NEW r \in DOMAIN regions' PROVE RegionInv(r)'
  BY Zenon, Frame DEF LifetimeInv, RegionInv
<1>3. ASSUME NEW x \in DOMAIN reached' PROVE ReachedInv(x)'
  BY Zenon DEF LifetimeInv, ReachedInv
<1>4. ASSUME NEW x \in DOMAIN taskData' PROVE DataInv(x)'
  BY Zenon DEF LifetimeInv, DataInv
<1>5. ASSUME NEW y \in DOMAIN tasks' PROVE TaskInv(y)'
  BY Frame DEF LifetimeInv, TaskInv
<1>6. ExclusiveInv'
  BY DEF LifetimeInv, ExclusiveInv, TypeOK
<1> QED
  BY Zenon, <1>1, <1>2, <1>3, <1>4, <1>5, <1>6 DEF LifetimeInv

LEMMA ThreadEndStep ==
  ASSUME TypeOK, LifetimeInv, NEW t \in Threads, CbThreadEnd(t)
  PROVE  LifetimeInv'
<1> USE DEF CbThreadEnd
<1>1. ASSUME NEW u \in Threads PROVE ThreadInv(u)'
  <2>1. CASE u = t
    BY Zenon, <2>1 DEF ThreadInv, TypeOK
  <2>2. CASE u # t
    BY <2>2, Frame DEF LifetimeInv, ThreadInv, Drop, TypeOK
  <2> QED
    BY <2>1, <2>2
<1>2. ASSUME NEW r \in DOMAIN regions' PROVE RegionInv(r)'
  BY Zenon, Frame DEF LifetimeInv, RegionInv
<1>3. ASSUME NEW x \in DOMAIN reached' PROVE ReachedInv(x)'
  BY Zenon DEF LifetimeInv, ReachedInv
<1>4. ASSUME NEW x \in DOMAIN taskData' PROVE DataInv(x)'
  BY Zenon DEF LifetimeInv, DataInv
<1>5. ASSUME NEW y \in DOMAIN tasks' PROVE TaskInv(y)'
  BY Zenon, Frame DEF LifetimeInv, TaskInv
<1>6. ExclusiveInv'
  <2>1. \A r \in DOMAIN parInfo : regions[r].parent \in Task
    BY DEF TypeOK, LifetimeInv, RegionInv
  <2>2. ASSUME NEW y \in DOMAIN tasks, tasks[y].resume # NULL
        PROVE  tasks[y].resume.task \in Task
    BY Zenon, <2>2, SuspendedTask
  <2> QED
    BY <2>1, <2>2, NullAssumption DEF LifetimeInv, ExclusiveInv, TypeOK
<1> QED
  BY <1>1, <1>2, <1>3, <1>4, <1>5, <1>6 DEF LifetimeInv

LEMMA TaskCreateInitialStep ==
  ASSUME TypeOK, LifetimeInv, CbTaskCreateInitial
  PROVE  LifetimeInv'
<1>0. /\ InitialTask[1] = "initial" /\ InitialTask[3] = Master /\ InitialTask # NULL
      /\ \A x \in DOMAIN taskData : x # InitialTask
  <2>1. InitialTask \in Task /\ InitialTask[1] = "initial" /\ InitialTask[3] = Master
    BY ThreadsAssumption DEF InitialTask, Task
  <2>2. \A x \in DOMAIN taskData : x # InitialTask
    BY Zenon DEF CbTaskCreateInitial
  <2> QED
    BY <2>1, <2>2, NullAssumption
<1> USE ThreadsAssumption DEF CbTaskCreateInitial
<1>1. ASSUME NEW u \in Threads PROVE ThreadInv(u)'
  <2>1. CASE u = Master
    <3>1. cur'[u] = InitialTask /\ pc'[u] = "run" /\ u \in DOMAIN threadData'
      BY Zenon, <2>1 DEF TypeOK, LifetimeInv, ThreadInv
    <3>2. InUse(InitialTask)' /\ Executor(InitialTask)' = u /\ InUserCode(InitialTask)'
      BY Zenon, <1>0, <2>1 DEF InUse, Executor, InUserCode
    <3>3. InitialTask \in DOMAIN taskData'
      BY Zenon DEF Put
    <3> QED
      BY Zenon, <1>0, <3>1, <3>2, <3>3 DEF ThreadInv
  <2>2. CASE u # Master
    BY <2>2, Frame DEF LifetimeInv, ThreadInv, Put, TypeOK
  <2> QED
    BY Zenon, <2>1, <2>2
<1>2. ASSUME NEW r \in DOMAIN regions' PROVE RegionInv(r)'
  BY Zenon, Frame DEF LifetimeInv, RegionInv, Put
<1>3. ASSUME NEW x \in DOMAIN reached' PROVE ReachedInv(x)'
  BY Zenon DEF LifetimeInv, ReachedInv
<1>4. ASSUME NEW x \in DOMAIN taskData' PROVE DataInv(x)'
  BY <1>0 DEF LifetimeInv, DataInv, Put, Allocate, TypeOK, Task
<1>5. ASSUME NEW y \in DOMAIN tasks' PROVE TaskInv(y)'
  BY Zenon, Frame DEF LifetimeInv, TaskInv, Put
<1>6. ExclusiveInv'
  <2>1. \A r \in DOMAIN parInfo : regions[r].parent \in DOMAIN taskData
    BY DEF TypeOK, LifetimeInv, RegionInv
  <2>2. \A y \in DOMAIN tasks : tasks[y].resume # NULL => tasks[y].resume.task \in DOMAIN taskData
    BY Zenon DEF LifetimeInv, TaskInv
  <2> QED
    BY <1>0, <2>1, <2>2 DEF LifetimeInv, ExclusiveInv, TypeOK
<1> QED
  BY <1>1, <1>2, <1>3, <1>4, <1>5, <1>6 DEF LifetimeInv

-----------------------------------------------------------------------------
\* Regions open and close, implicit tasks begin and end.
LEMMA ParallelBeginStep ==
  ASSUME TypeOK, LifetimeInv, NEW t \in Threads, NEW team, NEW requested,
         CbParallelBegin(t, team, requested)
  PROVE  LifetimeInv'
<1> DEFINE k == Len(regions) + 1
           x0 == cur[t]
<1>1. /\ pc[t] = "run" /\ pc' = [pc EXCEPT ![t] = "fork"]
      /\ UNCHANGED <<finalNode, taskData, threadData, chunkInfo, reached, tasks, chunksLeft, cur>>
  BY Zenon DEF CbParallelBegin
<1>2. /\ Len(regions) \in Nat /\ DOMAIN regions = 1..Len(regions)
      /\ DOMAIN regions' = DOMAIN regions \cup {k} /\ k \notin DOMAIN regions
      /\ \A r \in DOMAIN regions : regions'[r] = regions[r]
      /\ regions'[k].thread = t /\ regions'[k].parent = x0 /\ regions'[k].script = <<>>
  BY DEF CbParallelBegin, TypeOK
<1>3. /\ DOMAIN parInfo' = DOMAIN parInfo \cup {k} /\ parInfo'[k].parent = x0
      /\ \A r \in DOMAIN parInfo : parInfo'[r] = parInfo[r]
  <2>1. Len(regions') = k
    BY DEF CbParallelBegin, TypeOK
  <2>2. k \notin DOMAIN parInfo
    BY Zenon, <1>2 DEF TypeOK
  <2> QED
    BY Zenon, <2>1, <2>2 DEF CbParallelBegin, Put
<1>4. /\ x0 \in DOMAIN taskData /\ x0 \in Task /\ x0 # NULL
      /\ InUse(x0) /\ InUserCode(x0) /\ Executor(x0) = t
  BY Zenon, <1>1, LifetimeImplies, NullAssumption DEF FreedOnlyReadAtJoin, LifetimeInv, ThreadInv, TypeOK
<1>5. \A x \in DOMAIN reached : x[2] \in DOMAIN regions
  BY DEF LifetimeInv, ReachedInv
<1>6. \A x : InUse(x) => InUse(x)'
  BY Zenon, <1>1, <1>2, <1>3, <1>5 DEF InUse, Started
<1>7. \A x : Executor(x)' = Executor(x)
  BY <1>1 DEF Executor
<1>8. \A x \in DOMAIN reached : (AtJoin(x)' <=> AtJoin(x)) /\ (AllArrived(x)' <=> AllArrived(x))
  BY Zenon, <1>1, <1>2, <1>5 DEF AtJoin, AllArrived
<1>9. \A x : InUse(x) /\ InUserCode(x) => InUserCode(x)'
  BY <1>8 DEF InUse, InUserCode
<1>10. ASSUME NEW u \in Threads PROVE ThreadInv(u)'
  <2>1. ThreadInv(u)
    BY Zenon DEF LifetimeInv
  <2>2. CASE u = t
    BY <1>1, <1>4, <1>6, <1>7, <1>9, <2>1, <2>2 DEF ThreadInv, TypeOK
  <2>3. CASE u # t
    <3>1. cur'[u] = cur[u] /\ pc'[u] = pc[u]
      BY Zenon, <1>1, <2>3 DEF TypeOK
    <3>2. pc[u] \in {"arrive", "wake", "leave", "joined"} =>
            cur[u] \in DOMAIN reached /\ cur[u][2] \in DOMAIN regions
      BY <1>5, <2>1 DEF ThreadInv, InUse
    <3> QED
      BY Zenon, <1>1, <1>2, <1>6, <1>7, <1>8, <1>9, <2>1, <3>1, <3>2 DEF ThreadInv
  <2> QED
    BY <2>2, <2>3
<1>11. ASSUME NEW r \in DOMAIN regions' PROVE RegionInv(r)'
  <2>1. CASE r = k
    BY <1>1, <1>2, <1>3, <1>4, <1>6, <1>7, <1>9, <2>1 DEF RegionInv
  <2>2. CASE r # k
    <3>1. r \in DOMAIN regions /\ RegionInv(r) /\ regions'[r] = regions[r]
      BY Zenon, <1>2, <2>2 DEF LifetimeInv
    <3> QED
      BY Zenon, <1>1, <1>3, <1>6, <1>7, <1>8, <1>9, <2>2, <3>1 DEF RegionInv, Implicit
  <2> QED
    BY Zenon, <2>1, <2>2
<1>12. ASSUME NEW x \in DOMAIN reached' PROVE ReachedInv(x)'
  BY Zenon, <1>1, <1>2, <1>5 DEF LifetimeInv, ReachedInv, Implicit
<1>13. ASSUME NEW x \in DOMAIN taskData' PROVE DataInv(x)'
  BY SMT, Z3, <1>1, <1>2, <1>5 DEF LifetimeInv, DataInv, CbParallelBegin, Allocate, TypeOK, Task
<1>14. ASSUME NEW y \in DOMAIN tasks' PROVE TaskInv(y)'
  BY Zenon, <1>1, <1>6, <1>7, <1>9 DEF LifetimeInv, TaskInv
<1>15. ExclusiveInv'
  <2>1. ExclusiveInv
    BY DEF LifetimeInv
  <2>2. \A r \in DOMAIN parInfo : r \in DOMAIN regions /\ regions'[r] = regions[r]
    BY Zenon, <1>2 DEF TypeOK
  <2>3. \A r \in DOMAIN parInfo : regions[r].parent # x0
    BY Zenon, <1>1, <2>1 DEF ExclusiveInv
  <2>4. \A u \in Threads : u # t => cur[u] # x0
    BY Zenon, <1>4, CurrentDistinct
  <2>5. \A r, s \in DOMAIN parInfo' : regions'[r].parent = regions'[s].parent => r = s
    BY <1>2, <1>3, <2>1, <2>2, <2>3 DEF ExclusiveInv
  <2>6. \A u \in Threads, r \in DOMAIN parInfo' : cur'[u] = regions'[r].parent => pc'[u] = "fork"
    BY <1>1, <1>2, <1>3, <2>1, <2>2, <2>4 DEF ExclusiveInv, TypeOK
  <2>7. \A y \in DOMAIN tasks : tasks[y].resume # NULL =>
          \A r \in DOMAIN parInfo' : regions'[r].parent # tasks[y].resume.task
    BY <1>2, <1>3, <2>1, <2>2 DEF ExclusiveInv
  <2> QED
    BY <1>1, <2>1, <2>5, <2>6, <2>7 DEF ExclusiveInv
<1> QED
  BY Zenon, <1>10, <1>11, <1>12, <1>13, <1>14, <1>15 DEF LifetimeInv

LEMMA ImplicitTaskBeginStep ==
  ASSUME TypeOK, LifetimeInv, NEW t \in Threads, NEW r0 \in DOMAIN regions,
         CbImplicitTaskBegin(t, r0)
  PROVE  LifetimeInv'
<1> DEFINE x0 == Implicit(r0, t)
<1>1. /\ pc' = [pc EXCEPT ![t] = "run"] /\ cur' = [cur EXCEPT ![t] = x0]
      /\ UNCHANGED <<finalNode, parInfo, threadData, chunkInfo, regions, tasks, chunksLeft>>
      /\ pc[t] \in {"fork", "idle"} /\ t \in regions[r0].team /\ x0 \notin DOMAIN reached
  BY DEF CbImplicitTaskBegin, Assigned
<1>2. /\ x0 \in Task /\ x0[1] = "implicit" /\ x0[2] = r0 /\ x0[3] = t /\ x0 # NULL
      /\ x0 = Implicit(x0[2], x0[3])
  <2>1. r0 \in Nat
    BY DEF TypeOK
  <2>2. x0 \in Task /\ x0[1] = "implicit" /\ x0[2] = r0 /\ x0[3] = t
    BY <2>1, TaskNames
  <2> QED
    BY <2>2, NullAssumption
<1>3. r0 \in DOMAIN parInfo
  BY Zenon, <1>1 DEF LifetimeInv, RegionInv
<1>4. /\ DOMAIN reached' = DOMAIN reached \cup {x0} /\ reached'[x0] = 0
      /\ \A x \in DOMAIN reached : reached'[x] = reached[x]
  BY Zenon, <1>1 DEF CbImplicitTaskBegin, Put
<1>5. x0 \notin DOMAIN taskData
  BY Zenon, <1>1, <1>2 DEF LifetimeInv, DataInv
<1>6. /\ DOMAIN taskData' = DOMAIN taskData \cup {x0}
      /\ taskData'[x0].threadNum = IF t = regions[r0].thread THEN 0 ELSE 1
      /\ \A x \in DOMAIN taskData : taskData'[x] = taskData[x]
  BY Zenon, <1>5 DEF CbImplicitTaskBegin, Put
<1>7. \A x : InUse(x) => InUse(x)' /\ x # x0
  BY Zenon, <1>1, <1>2, <1>4 DEF InUse, Started
<1>8. \A x : Executor(x)' = Executor(x)
  BY Zenon, <1>1 DEF Executor
<1>9. \A x \in DOMAIN reached : (AtJoin(x)' <=> AtJoin(x)) /\ (AllArrived(x) => AllArrived(x)')
  BY <1>1, <1>4 DEF AtJoin, AllArrived, Implicit
<1>10. \A x : InUse(x) /\ InUserCode(x) => InUserCode(x)'
  BY Zenon, <1>9 DEF InUse, InUserCode
<1>11. InUse(x0)' /\ Executor(x0)' = t /\ InUserCode(x0)'
  <2>1. ~AtJoin(x0)'
    <3>1. regions[r0].script \in Seq(Construct)
      <4>1. regions[r0] \in Region
        BY DEF TypeOK
      <4> QED
        BY <4>1 DEF Region
    <3>2. AtJoin(x0)' <=> LET script == regions'[x0[2]].script
                          IN  reached'[x0] \in DOMAIN script /\ script[reached'[x0]] = "join"
      BY Zenon DEF AtJoin
    <3>3. regions'[x0[2]].script = regions[r0].script /\ reached'[x0] = 0
      BY <1>1, <1>2, <1>4
    <3> HIDE DEF x0
    <3> QED
      BY <3>1, <3>2, <3>3
  <2> QED
    BY Zenon, <1>1, <1>2, <1>3, <1>4, <2>1 DEF InUse, Executor, InUserCode
<1>12. ASSUME NEW u \in Threads PROVE ThreadInv(u)'
  <2>1. ThreadInv(u)
    BY DEF LifetimeInv
  <2>2. CASE u = t
    <3>1. cur'[u] = x0 /\ pc'[u] = "run"
      BY <1>1, <2>2 DEF TypeOK
    <3> QED
      BY Zenon, <1>1, <1>2, <1>6, <1>11, <2>1, <2>2, <3>1 DEF ThreadInv
  <2>3. CASE u # t
    <3>1. cur'[u] = cur[u] /\ pc'[u] = pc[u]
      BY Zenon, <1>1, <2>3 DEF TypeOK
    <3>2. pc[u] \in {"arrive", "wake", "leave", "joined"} => cur[u] \in DOMAIN reached
      BY Zenon, <2>1 DEF ThreadInv, InUse
    <3> QED
      BY Zenon, <1>1, <1>4, <1>6, <1>7, <1>8, <1>9, <1>10, <2>1, <3>1, <3>2 DEF ThreadInv
  <2> QED
    BY <2>2, <2>3
<1>13. ASSUME NEW r \in DOMAIN regions' PROVE RegionInv(r)'
  <2>1. RegionInv(r)
    BY <1>1 DEF LifetimeInv
  <2> QED
    BY Zenon, <1>1, <1>4, <1>6, <1>7, <1>8, <1>9, <1>10, <2>1 DEF RegionInv, Implicit
<1>14. ASSUME NEW x \in DOMAIN reached' PROVE ReachedInv(x)'
  <2>1. CASE x = x0
    <3>1. Len(regions[r0].script) \in Nat
      BY DEF TypeOK, Region
    <3> QED
      BY <1>1, <1>2, <1>4, <2>1, <3>1 DEF ReachedInv, Implicit
  <2>2. CASE x # x0
    BY <1>1, <1>4, <2>2 DEF LifetimeInv, ReachedInv, Implicit
  <2> QED
    BY Zenon, <2>1, <2>2
<1>15. ASSUME NEW x \in DOMAIN taskData' PROVE DataInv(x)'
  <2>1. CASE x = x0
    BY SMT, Z3, <1>1, <1>2, <1>4, <1>6, <2>1 DEF DataInv
  <2>2. CASE x # x0
    BY <1>1, <1>4, <1>6, <2>2
       DEF LifetimeInv, DataInv, CbImplicitTaskBegin, Allocate, TypeOK, Task
  <2> QED
    BY Zenon, <2>1, <2>2
<1>16. ASSUME NEW y \in DOMAIN tasks' PROVE TaskInv(y)'
  BY Zenon, <1>1, <1>6, <1>7, <1>8, <1>10 DEF LifetimeInv, TaskInv
<1>17. ExclusiveInv'
  <2>1. \A r \in DOMAIN parInfo : regions[r].parent # x0
    BY <1>7 DEF LifetimeInv, RegionInv, TypeOK
  <2>2. \A y \in DOMAIN tasks : tasks[y].resume # NULL => tasks[y].resume.task # x0
    BY Zenon, <1>7 DEF LifetimeInv, TaskInv
  <2> QED
    BY <1>1, <2>1, <2>2 DEF LifetimeInv, ExclusiveInv, TypeOK
<1> QED
  BY SMT, Z3, <1>12, <1>13, <1>14, <1>15, <1>16, <1>17 DEF LifetimeInv

LEMMA ImplicitTaskEndStep ==
  ASSUME TypeOK, LifetimeInv, NEW t \in Threads, CbImplicitTaskEnd(t)
  PROVE  LifetimeInv'
<1> DEFINE x0 == cur[t]
<1>1. /\ pc[t] = "leave" /\ taskData' = Drop(taskData, x0)
      /\ UNCHANGED <<finalNode, parInfo, threadData, chunkInfo, nextNode,
                     regions, reached, tasks, chunksLeft>>
  BY Zenon DEF CbImplicitTaskEnd
<1>2. /\ x0 \in DOMAIN taskData /\ x0[1] = "implicit" /\ x0 # NULL
      /\ Executor(x0) = t /\ InUse(x0) /\ AtJoin(x0) /\ AllArrived(x0)
  BY Zenon, <1>1, NullAssumption DEF LifetimeInv, ThreadInv, TypeOK
<1>3. taskData[x0].threadNum = 0 <=> regions[x0[2]].thread = t
  BY Zenon, <1>2 DEF LifetimeInv, DataInv, Executor
<1>4. DOMAIN taskData' = DOMAIN taskData \ {x0}
      /\ \A x \in DOMAIN taskData' : taskData'[x] = taskData[x]
  BY <1>1 DEF Drop
<1>5. /\ \A u \in Threads : u # t => cur'[u] = cur[u] /\ pc'[u] = pc[u]
      /\ \/ cur'[t] = x0 /\ pc'[t] = "joined" /\ taskData[x0].threadNum = 0
         \/ cur'[t] = NULL /\ pc'[t] = "idle"
  BY Zenon DEF CbImplicitTaskEnd, TypeOK
<1>6. \A u \in Threads : u # t => cur[u] # x0
  BY Zenon, <1>2, CurrentDistinct
<1>7. \A r \in DOMAIN parInfo : regions[r].parent # x0
  BY <1>1 DEF LifetimeInv, ExclusiveInv
<1>8. \A y \in DOMAIN tasks : tasks[y].resume # NULL => tasks[y].resume.task # x0
  BY DEF LifetimeInv, ExclusiveInv
<1>9. ASSUME NEW u \in Threads PROVE ThreadInv(u)'
  <2>1. ThreadInv(u)
    BY DEF LifetimeInv
  <2>2. CASE u = t
    BY Zenon, <1>1, <1>2, <1>3, <1>5, <2>1, <2>2, Frame DEF ThreadInv
  <2>3. CASE u # t
    BY Zenon, <1>1, <1>4, <1>5, <1>6, <2>1, <2>3, Frame DEF ThreadInv
  <2> QED
    BY <2>2, <2>3
<1>10. ASSUME NEW r \in DOMAIN regions' PROVE RegionInv(r)'
  BY Zenon, <1>1, <1>4, <1>7, Frame DEF LifetimeInv, RegionInv
<1>11. ASSUME NEW x \in DOMAIN reached' PROVE ReachedInv(x)'
  BY Zenon, <1>1 DEF LifetimeInv, ReachedInv
<1>12. ASSUME NEW x \in DOMAIN taskData' PROVE DataInv(x)'
  BY <1>1, <1>4 DEF LifetimeInv, DataInv
<1>13. ASSUME NEW y \in DOMAIN tasks' PROVE TaskInv(y)'
  BY Zenon, <1>1, <1>2, <1>4, <1>8, Frame DEF LifetimeInv, TaskInv
<1>14. ExclusiveInv'
  <2>1. \A r \in DOMAIN parInfo : regions[r].parent \in Task
    BY Zenon DEF TypeOK, LifetimeInv, RegionInv
  <2>2. ASSUME NEW y \in DOMAIN tasks, tasks[y].resume # NULL
        PROVE  tasks[y].resume.task \in Task
    BY <2>2, SuspendedTask
  <2>3. /\ ExclusiveInv
        /\ \A u \in Threads :
             (cur'[u] = cur[u] /\ pc'[u] = pc[u]) \/ cur'[u] = x0 \/ cur'[u] = NULL
    BY Zenon, <1>5 DEF LifetimeInv
  <2>4. \A u \in Threads, r \in DOMAIN parInfo : cur'[u] = regions[r].parent => pc'[u] = "fork"
    <3>1. \A r \in DOMAIN parInfo : regions[r].parent # NULL
      BY <2>1, NullAssumption
    <3> QED
      BY Zenon, <1>7, <2>3, <3>1 DEF ExclusiveInv
  <2>5. \A y \in DOMAIN tasks : tasks[y].resume # NULL =>
          \A u \in Threads : cur'[u] # tasks[y].resume.task
    <3>1. \A y \in DOMAIN tasks : tasks[y].resume # NULL => tasks[y].resume.task # NULL
      BY <2>2, NullAssumption
    <3> QED
      BY Zenon, <1>8, <2>3, <3>1 DEF ExclusiveInv
  <2> QED
    BY Zenon, <1>1, <2>3, <2>4, <2>5 DEF ExclusiveInv
<1> QED
  BY <1>9, <1>10, <1>11, <1>12, <1>13, <1>14 DEF LifetimeInv

LEMMA ParallelEndStep ==
  ASSUME TypeOK, LifetimeInv, NEW t \in Threads, CbParallelEnd(t)
  PROVE  LifetimeInv'
<1> DEFINE x0 == cur[t]
           r0 == x0[2]
           x1 == regions[r0].parent
<1>1. /\ pc[t] = "joined" /\ cur' = [cur EXCEPT ![t] = x1] /\ pc' = [pc EXCEPT ![t] = "run"]
      /\ UNCHANGED <<tdg, threadData, chunkInfo, nextNode, regions, reached, tasks, chunksLeft>>
  BY DEF CbParallelEnd
<1>2. /\ x0 \in DOMAIN reached /\ x0[3] = t /\ x0 # NULL /\ regions[r0].thread = t
      /\ AtJoin(x0) /\ AllArrived(x0) /\ r0 \in DOMAIN parInfo
  BY Zenon, SMT, Z3, <1>1 DEF LifetimeInv, ThreadInv, InUse, Executor
<1>3. r0 \in DOMAIN regions /\ x0 = Implicit(r0, t)
  BY Zenon, <1>2 DEF LifetimeInv, ReachedInv
<1>4. /\ parInfo[r0].parent = x1 /\ InUse(x1) /\ InUserCode(x1) /\ x1 \in DOMAIN taskData
      /\ Executor(x1) = t
  BY Zenon, <1>2, <1>3 DEF LifetimeInv, RegionInv
<1>5. DOMAIN parInfo' = DOMAIN parInfo \ {r0} /\ \A r \in DOMAIN parInfo' : parInfo'[r] = parInfo[r]
  BY Zenon DEF CbParallelEnd, Drop
<1>6. /\ DOMAIN taskData' = DOMAIN taskData
      /\ \A x \in DOMAIN taskData : taskData'[x].threadNum = taskData[x].threadNum
  <2>1. taskData[x1] \in TaskData
    BY <1>4 DEF TypeOK
  <2> QED
    BY <1>4, <2>1 DEF CbParallelEnd, TaskData
<1>7. ASSUME NEW x, InUse(x), x # x0 PROVE InUse(x)'
  <2>1. CASE x[1] = "implicit" /\ x[3] = regions[x[2]].thread
    <3>1. x \in DOMAIN reached /\ x[2] \in DOMAIN parInfo
      BY Zenon, <1>7, <2>1 DEF InUse
    <3>2. x = Implicit(x[2], x[3])
      BY <3>1 DEF LifetimeInv, ReachedInv
    <3>3. x[2] # r0
      BY Zenon, <1>2, <1>3, <1>7, <2>1, <3>2
    <3> QED
      BY Zenon, <1>1, <1>5, <2>1, <3>1, <3>3 DEF InUse
  <2>2. CASE ~(x[1] = "implicit" /\ x[3] = regions[x[2]].thread)
    BY Zenon, <1>1, <1>7, <2>2 DEF InUse, Started
  <2> QED
    BY Zenon, <2>1, <2>2
<1>8. /\ \A x : Executor(x)' = Executor(x)
      /\ \A x : InUserCode(x)' <=> InUserCode(x)
      /\ \A x : AtJoin(x)' <=> AtJoin(x)
      /\ \A x : AllArrived(x)' <=> AllArrived(x)
  BY Zenon, <1>1 DEF Executor, InUserCode, AtJoin, AllArrived
<1>9. \A u \in Threads : u # t => cur[u] # x0
  BY Zenon, <1>2, CurrentDistinct
<1>10. \A r \in DOMAIN parInfo : regions[r].parent # x0
  BY Zenon, <1>1 DEF LifetimeInv, ExclusiveInv
<1>11. \A y \in DOMAIN tasks : tasks[y].resume # NULL => tasks[y].resume.task # x0
  BY Zenon DEF LifetimeInv, ExclusiveInv
<1>12. x1 # x0 /\ x1 # NULL
  <2>1. x1 \in Task
    BY <1>4 DEF TypeOK
  <2> QED
    BY Zenon, <1>2, <1>10, <2>1, NullAssumption
<1>13. ASSUME NEW u \in Threads PROVE ThreadInv(u)'
  <2>1. ThreadInv(u)
    BY Zenon DEF LifetimeInv
  <2>2. CASE u = t
    <3>1. cur'[u] = x1 /\ pc'[u] = "run"
      BY Zenon, <1>1, <2>2 DEF TypeOK
    <3>2. PICK x : x = x1
      OBVIOUS
    <3>3. InUse(x)' /\ Executor(x)' = t /\ InUserCode(x)'
      BY Zenon, <1>4, <1>7, <1>8, <1>12, <3>2
    <3>4. u \in DOMAIN threadData'
      BY Zenon, <1>1, <2>1, <2>2 DEF ThreadInv
    <3>5. cur'[u] = x /\ x # NULL /\ x \in DOMAIN taskData'
      BY Zenon, <1>4, <1>6, <1>12, <3>1, <3>2
    <3> QED
      BY Zenon, <2>2, <3>1, <3>3, <3>4, <3>5 DEF ThreadInv
  <2>3. CASE u # t
    <3>1. cur'[u] = cur[u] /\ pc'[u] = pc[u] /\ cur[u] # x0
      BY <1>1, <1>9, <2>3 DEF TypeOK
    <3>2. InUse(cur[u]) => InUse(cur[u])'
      BY Zenon, <1>7, <3>1
    <3> QED
      BY Zenon, <1>1, <1>6, <1>8, <2>1, <3>1, <3>2 DEF ThreadInv
  <2> QED
    BY <2>2, <2>3
<1>14. ASSUME NEW r \in DOMAIN regions' PROVE RegionInv(r)'
  <2>1. RegionInv(r)
    BY <1>1 DEF LifetimeInv
  <2>2. CASE r = r0
    <3>1. ASSUME NEW u \in regions[r0].team
          PROVE  Implicit(r0, u) \in DOMAIN reached /\ AtJoin(Implicit(r0, u))
      <4>1. /\ Implicit(r0, u) \in DOMAIN reached
            /\ reached[Implicit(r0, u)] >= reached[x0]
        BY <1>2 DEF AllArrived
      <4>2. reached[x0] = Len(regions[r0].script)
        BY Zenon, <1>2, <2>1, <2>2 DEF AtJoin, RegionInv
      <4>3. Implicit(r0, u)[2] = r0
        BY Zenon DEF Implicit
      <4>4. reached[Implicit(r0, u)] <= Len(regions[r0].script)
        BY Zenon, <4>1, <4>3 DEF LifetimeInv, ReachedInv
      <4>5. reached[Implicit(r0, u)] \in Nat /\ reached[x0] \in Nat
        BY Zenon, <1>2, <4>1 DEF TypeOK
      <4>6. reached[Implicit(r0, u)] = reached[x0]
        BY <4>1, <4>2, <4>4, <4>5
      <4> QED
        BY Zenon, <1>2, <4>1, <4>3, <4>6 DEF AtJoin
    <3> QED
      BY Zenon, <1>1, <1>5, <1>8, <2>1, <2>2, <3>1 DEF RegionInv, Implicit
  <2>3. CASE r # r0
    <3>1. r \in DOMAIN parInfo' <=> r \in DOMAIN parInfo
      BY Zenon, <1>5, <2>3
    <3>2. r \in DOMAIN parInfo => InUse(regions[r].parent)'
      BY SMT, Z3, <1>1, <1>7, <1>10, <2>1 DEF RegionInv
    <3> QED
      BY Zenon, <1>1, <1>5, <1>6, <1>8, <2>1, <3>1, <3>2 DEF RegionInv, Implicit
  <2> QED
    BY Zenon, <2>2, <2>3
<1>15. ASSUME NEW x \in DOMAIN reached' PROVE ReachedInv(x)'
  BY <1>1 DEF LifetimeInv, ReachedInv
<1>16. ASSUME NEW x \in DOMAIN taskData' PROVE DataInv(x)'
  BY <1>1, <1>6 DEF LifetimeInv, DataInv
<1>17. ASSUME NEW y \in DOMAIN tasks' PROVE TaskInv(y)'
  <2>1. TaskInv(y)
    BY Zenon, <1>1 DEF LifetimeInv
  <2>2. tasks[y].resume # NULL => InUse(tasks[y].resume.task)'
    BY SMT, Z3, <1>1, <1>7, <1>11, <2>1 DEF TaskInv
  <2> QED
    BY Zenon, <1>1, <1>6, <1>8, <2>1, <2>2 DEF TaskInv
<1>18. ExclusiveInv'
  <2>1. ExclusiveInv
    BY Zenon DEF LifetimeInv
  <2>2. \A u \in Threads, r \in DOMAIN parInfo' : cur'[u] = regions[r].parent => pc'[u] = "fork"
    BY Zenon, <1>1, <1>2, <1>5, <2>1 DEF ExclusiveInv, TypeOK
  <2>3. \A y \in DOMAIN tasks : tasks[y].resume # NULL =>
          \A u \in Threads : cur'[u] # tasks[y].resume.task
    BY <1>1, <1>2, <2>1 DEF ExclusiveInv, TypeOK
  <2> QED
    BY <1>1, <1>5, <2>1, <2>2, <2>3 DEF ExclusiveInv
<1> QED
  BY Zenon, <1>13, <1>14, <1>15, <1>16, <1>17, <1>18 DEF LifetimeInv
=============================================================================
