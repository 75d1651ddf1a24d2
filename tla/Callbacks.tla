----------------------------- MODULE Callbacks -----------------------------
(***************************************************************************)
(* The OMPT callbacks of callbacks.cc, invoked by the threads of an OpenMP *)
(* program while they build the task dependency graph.                     *)
(*                                                                         *)
(* The first group of variables is the tool's state, the second is the     *)
(* OpenMP runtime, which is external: it only decides which callback a     *)
(* thread invokes next.  A callback is one action, except cb_sync_region,  *)
(* which other threads can overtake once it has released _barrier_mutex,   *)
(* and, at the end of a barrier, between the load of parallel_data->ptr    *)
(* and the use of what it points to.                                       *)
(* Graph operations are atomic here; module GraphLocks has their locking.  *)
(* Clock readings and PAPI counters do not influence the graph and are     *)
(* left out.                                                               *)
(*                                                                         *)
(* Nodes: the atomic Node::_nextId only makes ids unique, so a node is     *)
(* named by the thread that allocated it and that thread's allocation      *)
(* count; threads that do not interact then commute.                       *)
(***************************************************************************)
EXTENDS TaskGraph, Sequences

CONSTANTS
  Threads,        \* the OS threads the runtime can use
  Master,         \* the initial thread
  NULL,           \* the null pointer
  Teams,          \* the teams the runtime can form
  Shortfall,      \* how many threads a team may have less than requested
  Constructs,     \* the constructs the program uses, of "barrier" and "loop"
  NestInLoops,    \* whether a loop body may open a parallel region
  MaxRegions,     \* bound: parallel regions in a run
  MaxConstructs,  \* bound: barriers and loops in a region, before the join
  MaxChunks,      \* bound: cb_ext_chunk calls per thread and loop
  MaxTasks        \* bound: explicit tasks in a run

ASSUME ThreadsAssumption == Master \in Threads

ASSUME TeamsAssumption ==
  /\ Teams \subseteq SUBSET Threads
  /\ \A team \in Teams : IsFiniteSet(team) /\ Cardinality(team) \in Nat

ASSUME BoundsAssumption ==
  /\ Shortfall \in Nat /\ NestInLoops \in BOOLEAN /\ Constructs \subseteq {"barrier", "loop"}
  /\ MaxRegions \in Nat /\ MaxConstructs \in Nat
  /\ MaxChunks \in Nat /\ MaxTasks \in Nat

VARIABLES
  tdg,         \* *g_tdg
  finalNode,   \* g_finalNode
  taskData,    \* task -> its live TaskData
  parInfo,     \* region -> its live ParallelRegionData (parallel_data->ptr)
  threadData,  \* thread -> its live ThreadData, only _loopCounter
  chunkInfo,   \* chunk node -> its _loopCounter, and the loop it belongs to
  nextNode,    \* thread -> number of nodes it has allocated

  regions,     \* the parallel regions begun so far
  reached,     \* implicit task -> number of constructs of its region it has begun
  tasks,       \* the unfinished explicit tasks
  chunksLeft,  \* implicit task in a loop -> chunk calls still allowed
  cur,         \* thread -> the task it executes, or NULL
  pc           \* thread -> where it is between two callbacks

toolVars == <<tdg, finalNode, taskData, parInfo, threadData, chunkInfo, nextNode>>
runtimeVars == <<regions, reached, tasks, chunksLeft, cur, pc>>
vars == <<toolVars, runtimeVars>>

-----------------------------------------------------------------------------
(* Tasks, nodes and regions.                                               *)

Node == Threads \X Nat

InitialTask == <<"initial", 0, Master>>
Implicit(r, t) == <<"implicit", r, t>>
Explicit(k, t) == <<"explicit", k, t>>

Task == {"initial", "implicit", "explicit"} \X Nat \X Threads

\* WorksharingData, TaskData, ParallelRegionData.
WorksharingData ==
  [start : Node, sink : Node, lastChunk : Node \cup {NULL}]

TaskData ==
  [node      : Node,
   ws        : WorksharingData \cup {NULL},
   barrier   : Node \cup {NULL},
   sink      : Node \cup {NULL},
   threadNum : Nat]

ParallelRegionData ==
  [parent   : Task,
   sink     : Node,
   teamSize : Nat,
   cnt      : Nat,
   barrier  : Node \cup {NULL}]

Construct == {"barrier", "loop", "join"}

\* A region: its threads, the encountering thread (thread number 0), the
\* encountering task, and the constructs its code has been seen to contain.
Region ==
  [team : SUBSET Threads, thread : Threads, parent : Task, script : Seq(Construct)]

\* An unfinished explicit task: the region it binds to, the number of
\* constructs begun when it was created, and, once it executes, its thread
\* and what that thread returns to.
Suspended == [thread : Threads, task : Task, pc : {"run", "barrier"}]

ExplicitTask ==
  [region : Nat, round : Nat, resume : Suspended \cup {NULL}]

ASSUME NullAssumption == NULL \notin Task \cup Node \cup WorksharingData \cup Suspended

\* down     not known to the tool           barrier  waiting in a barrier
\* idle     a worker without a task         leave    past the join barrier
\* run      executing a task                joined   its implicit task ended
\* fork     between parallel begin and      ended    cb_thread_end returned
\*          its implicit task
\* arrive   inside cb_sync_region, after _barrier_mutex.unlock()
\* wake     inside cb_sync_region at the end of a barrier, par_info loaded
Location ==
  {"down", "idle", "run", "fork", "arrive", "barrier", "wake", "leave", "joined", "ended"}

-----------------------------------------------------------------------------
(* create_clean_node and create_new_node.  NewNode(t, i) is the i-th node  *)
(* that the current callback of thread t allocates.                        *)

NewNode(t, i) == <<t, nextNode[t] + i - 1>>

Allocate(t, k) == nextNode' = [nextNode EXCEPT ![t] = @ + k]

CreateCleanNode(g, n, type) == AddNode(g, n, type)

CreateNewNode(g, n, type, parent) ==
  ConnectNodes(CreateCleanNode(g, n, type), parent, n)

-----------------------------------------------------------------------------
(* The runtime.                                                            *)

BindingRegion(x) ==
  CASE x[1] = "initial"  -> 0
    [] x[1] = "implicit" -> x[2]
    [] x[1] = "explicit" -> tasks[x].region

Round(x) ==
  CASE x[1] = "initial"  -> 0
    [] x[1] = "implicit" -> reached[x]
    [] x[1] = "explicit" -> tasks[x].round

\* The runtime has put thread t in the team of region r and t has not begun
\* its implicit task.
Assigned(t, r) == t \in regions[r].team /\ Implicit(r, t) \notin DOMAIN reached

\* Thread t executes an implicit task in user code.
InImplicitTask(t) == pc[t] = "run" /\ cur[t][1] = "implicit"

\* All threads of a team meet the same constructs: the first to get to
\* position reached + 1 decides what stands there, the others follow.
MayBegin(t, c) ==
  LET x      == cur[t]
      script == regions[x[2]].script
      s      == reached[x] + 1
  IN  IF s <= Len(script)
      THEN script[s] = c
      ELSE c = "join" \/ (c \in Constructs /\ s <= MaxConstructs)

Extend(t, c) ==
  LET x == cur[t]
      r == x[2]
  IN  IF reached[x] < Len(regions[r].script)
      THEN regions
      ELSE [regions EXCEPT ![r].script = Append(@, c)]

\* Every thread of the team has arrived at the barrier where implicit task x
\* waits, and the explicit tasks created before it are complete.
AllArrived(x) ==
  \A u \in regions[x[2]].team :
    /\ Implicit(x[2], u) \in DOMAIN reached
    /\ reached[Implicit(x[2], u)] >= reached[x]

Released(x) ==
  /\ AllArrived(x)
  /\ \A y \in DOMAIN tasks : tasks[y].region = x[2] => tasks[y].round >= reached[x]

\* The construct that implicit task x began last is the join barrier.
AtJoin(x) ==
  LET script == regions[x[2]].script
  IN  reached[x] \in DOMAIN script /\ script[reached[x]] = "join"

\* A thread the runtime can put in a new team.  A worker is available once
\* the join barrier lets it go, even when the callbacks for that are to come.
Available(t) ==
  /\ \A r \in DOMAIN regions : ~Assigned(t, r)
  /\ \/ pc[t] \in {"down", "idle"}
     \/ /\ pc[t] \in {"barrier", "wake", "leave"}
        /\ regions[cur[t][2]].thread # t
        /\ AtJoin(cur[t]) /\ Released(cur[t])

-----------------------------------------------------------------------------
(* Threads and the initial task.                                           *)

\* Workers are started when a team needs them.
CbThreadBegin(t) ==
  /\ pc[t] = "down"
  /\ t = Master \/ \E r \in DOMAIN regions : Assigned(t, r)
  /\ threadData' = Put(threadData, t, 0)
  /\ pc' = [pc EXCEPT ![t] = "idle"]
  /\ UNCHANGED <<tdg, finalNode, taskData, parInfo, chunkInfo, nextNode,
                 regions, reached, tasks, chunksLeft, cur>>

CbThreadEnd(t) ==
  /\ \/ /\ t = Master /\ pc[t] = "run" /\ cur[t] = InitialTask /\ tasks = EmptyFcn
     \/ /\ t # Master /\ pc[t] = "idle" /\ pc[Master] = "ended"
  /\ threadData' = Drop(threadData, t)
  /\ pc' = [pc EXCEPT ![t] = "ended"]
  /\ cur' = [cur EXCEPT ![t] = NULL]
  /\ UNCHANGED <<tdg, finalNode, taskData, parInfo, chunkInfo, nextNode,
                 regions, reached, tasks, chunksLeft>>

\* cb_task_create with ompt_task_initial.
CbTaskCreateInitial ==
  LET n == NewNode(Master, 1) IN
  /\ pc[Master] = "idle" /\ InitialTask \notin DOMAIN taskData
  /\ tdg' = CreateCleanNode(tdg, n, "ROOT_TASK")
  /\ Allocate(Master, 1)
  /\ taskData' = Put(taskData, InitialTask,
                     [node |-> n, ws |-> NULL, barrier |-> NULL,
                      sink |-> NULL, threadNum |-> 0])
  /\ finalNode' = n
  /\ cur' = [cur EXCEPT ![Master] = InitialTask]
  /\ pc' = [pc EXCEPT ![Master] = "run"]
  /\ UNCHANGED <<parInfo, threadData, chunkInfo, regions, reached, tasks, chunksLeft>>

-----------------------------------------------------------------------------
(* Parallel regions and implicit tasks.                                    *)

CbParallelBegin(t, team, requested) ==
  /\ pc[t] = "run" /\ Len(regions) < MaxRegions
  /\ NestInLoops \/ taskData[cur[t]].ws = NULL
  /\ team \in Teams /\ t \in team
  /\ \A u \in team \ {t} : Available(u)
  /\ tdg' = CreateCleanNode(tdg, NewNode(t, 1), "IMP_TASK")
  /\ Allocate(t, 1)
  /\ regions' = Append(regions, [team |-> team, thread |-> t,
                                 parent |-> cur[t], script |-> <<>>])
  /\ parInfo' = Put(parInfo, Len(regions'),
                    [parent |-> cur[t], sink |-> NewNode(t, 1),
                     teamSize |-> requested, cnt |-> 0, barrier |-> NULL])
  /\ pc' = [pc EXCEPT ![t] = "fork"]
  /\ UNCHANGED <<finalNode, taskData, threadData, chunkInfo,
                 reached, tasks, chunksLeft, cur>>

\* Mutation: the new node becomes the current node of the parent task as well.
CbImplicitTaskBegin_MovesParent(t, r) ==
  LET p == parInfo[r]
      n == NewNode(t, 1)
  IN
  /\ Assigned(t, r)
  /\ pc[t] = IF t = regions[r].thread THEN "fork" ELSE "idle"
  /\ tdg' = CreateNewNode(tdg, n, "IMP_TASK", taskData[p.parent].node)
  /\ Allocate(t, 1)
  /\ taskData' = Put([taskData EXCEPT ![p.parent].node = n], Implicit(r, t),
                     [node |-> n, ws |-> NULL, barrier |-> NULL, sink |-> p.sink,
                      threadNum |-> IF t = regions[r].thread THEN 0 ELSE 1])
  /\ reached' = Put(reached, Implicit(r, t), 0)
  /\ cur' = [cur EXCEPT ![t] = Implicit(r, t)]
  /\ pc' = [pc EXCEPT ![t] = "run"]
  /\ UNCHANGED <<finalNode, parInfo, threadData, chunkInfo, regions, tasks, chunksLeft>>

\* cb_implicit_task with ompt_scope_begin.  Only whether a thread number is 0
\* matters, 1 stands for the others.
CbImplicitTaskBegin(t, r) ==
  LET p == parInfo[r]
      n == NewNode(t, 1)
  IN
  /\ Assigned(t, r)
  /\ pc[t] = IF t = regions[r].thread THEN "fork" ELSE "idle"
  /\ tdg' = CreateNewNode(tdg, n, "IMP_TASK", taskData[p.parent].node)
  /\ Allocate(t, 1)
  /\ taskData' = Put(taskData, Implicit(r, t),
                     [node |-> n, ws |-> NULL, barrier |-> NULL, sink |-> p.sink,
                      threadNum |-> IF t = regions[r].thread THEN 0 ELSE 1])
  /\ reached' = Put(reached, Implicit(r, t), 0)
  /\ cur' = [cur EXCEPT ![t] = Implicit(r, t)]
  /\ pc' = [pc EXCEPT ![t] = "run"]
  /\ UNCHANGED <<finalNode, parInfo, threadData, chunkInfo, regions, tasks, chunksLeft>>

\* Mutations: the node is deleted but stays connected; no edge to the sink.
JoinGraph_NoDisconnect(d) ==
  IF d.barrier = NULL
  THEN ConnectNodes(tdg, d.node, d.sink)
  ELSE LET g == DeleteNode(tdg, d.node)
       IN  IF d.threadNum = 0 THEN ConnectNodes(g, d.barrier, d.sink) ELSE g

JoinGraph_NoSink(d) ==
  IF d.barrier = NULL
  THEN ConnectNodes(tdg, d.node, d.sink)
  ELSE DeleteNode(DisconnectNodes(tdg, d.barrier, d.node), d.node)

\* The graph after implicit task d ended: the node made for the code after the
\* last barrier is taken out again, and the barrier leads to the sink.
JoinGraph(d) ==
  IF d.barrier = NULL
  THEN ConnectNodes(tdg, d.node, d.sink)
  ELSE LET g == DeleteNode(DisconnectNodes(tdg, d.barrier, d.node), d.node)
       IN  IF d.threadNum = 0 THEN ConnectNodes(g, d.barrier, d.sink) ELSE g

\* cb_implicit_task with ompt_scope_end.  A worker may be as late as it likes.
CbImplicitTaskEnd(t) ==
  LET x == cur[t] IN
  /\ pc[t] = "leave"
  /\ tdg' = JoinGraph(taskData[x])
  /\ taskData' = Drop(taskData, x)
  /\ IF taskData[x].threadNum = 0
     THEN pc' = [pc EXCEPT ![t] = "joined"] /\ UNCHANGED cur
     ELSE pc' = [pc EXCEPT ![t] = "idle"] /\ cur' = [cur EXCEPT ![t] = NULL]
  /\ UNCHANGED <<finalNode, parInfo, threadData, chunkInfo, nextNode,
                 regions, reached, tasks, chunksLeft>>

CbParallelEnd(t) ==
  LET r == cur[t][2]
      p == parInfo[r]
  IN
  /\ pc[t] = "joined"
  /\ taskData' = [taskData EXCEPT ![p.parent].node = p.sink]
  /\ finalNode' = p.sink
  /\ parInfo' = Drop(parInfo, r)
  /\ cur' = [cur EXCEPT ![t] = regions[r].parent]
  /\ pc' = [pc EXCEPT ![t] = "run"]
  /\ UNCHANGED <<tdg, threadData, chunkInfo, nextNode,
                 regions, reached, tasks, chunksLeft>>

-----------------------------------------------------------------------------
(* Barriers: cb_sync_region with ompt_sync_region_barrier.                 *)

\* What the critical section of _barrier_mutex makes of the region's data
\* when a thread arrives; first is the test _barrier_cnt++ == 0.
FirstAtBarrier(p) == p.cnt = 0

\* Mutations of the test for the last arrival: one too many, one too few, and
\* the team size subtracted before the arrival is counted.
Arrived_Late(p, b) ==
  [p EXCEPT !.cnt = IF ~FirstAtBarrier(p) /\ p.cnt + 1 > p.teamSize
                    THEN 0 ELSE p.cnt + 1,
            !.barrier = b]

Arrived_Early(p, b) ==
  [p EXCEPT !.cnt = IF ~FirstAtBarrier(p) /\ p.cnt + 1 >= p.teamSize - 1
                    THEN 0 ELSE p.cnt + 1,
            !.barrier = b]

Arrived_Underflow(p, b) ==
  [p EXCEPT !.cnt = IF ~FirstAtBarrier(p) /\ p.cnt + 1 >= p.teamSize
                    THEN p.cnt - p.teamSize ELSE p.cnt + 1,
            !.barrier = b]

Arrived(p, b) ==
  [p EXCEPT !.cnt = IF ~FirstAtBarrier(p) /\ p.cnt + 1 >= p.teamSize
                    THEN 0 ELSE p.cnt + 1,
            !.barrier = b]

\* ompt_scope_begin up to the release of _barrier_mutex.  For a team of one
\* the callback does nothing.
CbSyncRegionBegin(t, c) ==
  LET x     == cur[t]
      p     == parInfo[x[2]]
      n     == taskData[x].node
      first == FirstAtBarrier(p)
      b     == IF first THEN NewNode(t, 1) ELSE p.barrier
  IN
  /\ InImplicitTask(t) /\ taskData[x].ws = NULL
  /\ MayBegin(t, c)
  /\ regions' = Extend(t, c)
  /\ IF p.teamSize > 1
     THEN /\ tdg' = IF first THEN CreateNewNode(tdg, b, "BARRIER", n)
                             ELSE ConnectNodes(tdg, n, b)
          /\ Allocate(t, IF first THEN 1 ELSE 0)
          /\ parInfo' = [parInfo EXCEPT ![x[2]] = Arrived(@, b)]
          /\ taskData' = [taskData EXCEPT ![x].barrier = b]
          /\ pc' = [pc EXCEPT ![t] = "arrive"]
          /\ UNCHANGED reached
     ELSE /\ reached' = [reached EXCEPT ![x] = @ + 1]
          /\ pc' = [pc EXCEPT ![t] = "barrier"]
          /\ UNCHANGED <<tdg, taskData, parInfo, nextNode>>
  /\ UNCHANGED <<finalNode, threadData, chunkInfo, tasks, chunksLeft, cur>>

\* The rest of ompt_scope_begin: the node for the code after the barrier.  The
\* callback made the barrier itself (new_barrier) if that is its latest node.
CbSyncRegionArrive(t) ==
  LET x == cur[t]
      b == taskData[x].barrier
      n == NewNode(t, 1)
      g == CreateNewNode(tdg, n, "IMP_TASK", b)
      newBarrier == b = <<t, nextNode[t] - 1>>
  IN
  /\ pc[t] = "arrive"
  /\ tdg' = IF newBarrier THEN ConnectNodes(g, b, n) ELSE g
  /\ Allocate(t, 1)
  /\ taskData' = [taskData EXCEPT ![x].node = n]
  /\ reached' = [reached EXCEPT ![x] = @ + 1]
  /\ pc' = [pc EXCEPT ![t] = "barrier"]
  /\ UNCHANGED <<finalNode, parInfo, threadData, chunkInfo,
                 regions, tasks, chunksLeft, cur>>

\* Where a thread gets to when cb_sync_region returns from ompt_scope_end.
Past(x) == IF AtJoin(x) THEN "leave" ELSE "run"

\* ompt_scope_end, the load of par_info.  A worker may find NULL there, once
\* cb_parallel_end has deleted the region's data; the callback then does nothing.
CbSyncRegionLoad(t) ==
  /\ pc[t] = "barrier" /\ Released(cur[t])
  /\ pc' = [pc EXCEPT ![t] = IF cur[t][2] \in DOMAIN parInfo THEN "wake" ELSE Past(cur[t])]
  /\ UNCHANGED <<toolVars, regions, reached, tasks, chunksLeft, cur>>

\* The rest of ompt_scope_end follows par_info, which may have been deleted
\* since.  What _team_size > 1 evaluates to only decides whether the clock of
\* the current node is restarted.
CbSyncRegionEnd(t) ==
  /\ pc[t] = "wake"
  /\ pc' = [pc EXCEPT ![t] = Past(cur[t])]
  /\ UNCHANGED <<toolVars, regions, reached, tasks, chunksLeft, cur>>

-----------------------------------------------------------------------------
(* Worksharing loops: cb_ext_loop and cb_ext_chunk.                        *)

CbExtLoopBegin(t) ==
  LET x     == cur[t]
      start == NewNode(t, 1)
      sink  == NewNode(t, 2)
  IN
  /\ InImplicitTask(t) /\ taskData[x].ws = NULL
  /\ MayBegin(t, "loop")
  /\ tdg' = CreateCleanNode(CreateNewNode(tdg, start, "WS_TASK", taskData[x].node),
                            sink, "IMP_TASK")
  /\ Allocate(t, 2)
  /\ taskData' = [taskData EXCEPT ![x].ws =
                    [start |-> start, sink |-> sink, lastChunk |-> NULL]]
  /\ regions' = Extend(t, "loop")
  /\ reached' = [reached EXCEPT ![x] = @ + 1]
  /\ chunksLeft' = Put(chunksLeft, x, MaxChunks)
  /\ UNCHANGED <<finalNode, parInfo, threadData, chunkInfo, tasks, cur, pc>>

\* A call with last_chunk set makes no node; the runtime makes no call after it.
CbExtChunk(t, lastChunk) ==
  LET x  == cur[t]
      ws == taskData[x].ws
      n  == NewNode(t, 1)
  IN
  /\ InImplicitTask(t) /\ ws # NULL /\ chunksLeft[x] > 0
  /\ IF lastChunk
     THEN /\ chunksLeft' = [chunksLeft EXCEPT ![x] = 0]
          /\ UNCHANGED <<tdg, taskData, chunkInfo, nextNode>>
     ELSE /\ chunksLeft' = [chunksLeft EXCEPT ![x] = @ - 1]
          /\ tdg' = ConnectNodes(CreateNewNode(tdg, n, "CHUNK_TASK", ws.start), n, ws.sink)
          /\ Allocate(t, 1)
          /\ chunkInfo' = Put(chunkInfo, n, [counter |-> threadData[t],
                                             loop |-> <<x[2], reached[x]>>])
          /\ taskData' = [taskData EXCEPT ![x].ws.lastChunk = n]
  /\ UNCHANGED <<finalNode, parInfo, threadData, regions, reached, tasks, cur, pc>>

\* Mutation: the start node of a loop without chunks is not connected.
LoopEndGraph_NoSink(ws) == tdg

LoopEndGraph(ws) ==
  IF ws.lastChunk = NULL THEN ConnectNodes(tdg, ws.start, ws.sink) ELSE tdg

\* Mutation: only threads that got a chunk count the loop.
CbExtLoopEnd_CountsChunks(t) ==
  LET x  == cur[t]
      ws == taskData[x].ws
  IN
  /\ InImplicitTask(t) /\ ws # NULL
  /\ tdg' = LoopEndGraph(ws)
  /\ taskData' = [taskData EXCEPT ![x].node = ws.sink, ![x].ws = NULL]
  /\ threadData' = [threadData EXCEPT ![t] = IF ws.lastChunk = NULL THEN @ ELSE @ + 1]
  /\ chunksLeft' = Drop(chunksLeft, x)
  /\ UNCHANGED <<finalNode, parInfo, chunkInfo, nextNode, regions, reached, tasks, cur, pc>>

CbExtLoopEnd(t) ==
  LET x  == cur[t]
      ws == taskData[x].ws
  IN
  /\ InImplicitTask(t) /\ ws # NULL
  /\ tdg' = LoopEndGraph(ws)
  /\ taskData' = [taskData EXCEPT ![x].node = ws.sink, ![x].ws = NULL]
  /\ threadData' = [threadData EXCEPT ![t] = @ + 1]
  /\ chunksLeft' = Drop(chunksLeft, x)
  /\ UNCHANGED <<finalNode, parInfo, chunkInfo, nextNode, regions, reached, tasks, cur, pc>>

-----------------------------------------------------------------------------
(* Explicit tasks.                                                         *)

ExplicitTasks == {x \in DOMAIN taskData : x[1] = "explicit"}

\* cb_task_create with ompt_task_explicit.  A task that is executed has its
\* TaskData (FreedOnlyReadAtJoin), so the callback's provision for a parent
\* without one is never needed here.
CbTaskCreateExplicit(t) ==
  LET x == cur[t]
      n == NewNode(t, 1)
      y == Explicit(n[2], t)
  IN
  /\ pc[t] = "run" /\ Cardinality(ExplicitTasks) < MaxTasks
  /\ tdg' = CreateNewNode(tdg, n, "EXP_TASK", taskData[x].node)
  /\ Allocate(t, 1)
  /\ taskData' = Put(taskData, y, [node |-> n, ws |-> NULL, barrier |-> NULL,
                                   sink |-> NULL, threadNum |-> 0])
  /\ tasks' = Put(tasks, y, [region |-> BindingRegion(x), round |-> Round(x),
                             resume |-> NULL])
  /\ UNCHANGED <<finalNode, parInfo, threadData, chunkInfo,
                 regions, reached, chunksLeft, cur, pc>>

\* cb_task_schedule when a thread takes up a task of its region.  The callback
\* only moves clock readings.
CbTaskScheduleStart(t, y) ==
  /\ pc[t] \in {"run", "barrier"}
  /\ tasks[y].resume = NULL /\ tasks[y].region = BindingRegion(cur[t])
  /\ tasks' = [tasks EXCEPT ![y].resume =
                [thread |-> t, task |-> cur[t], pc |-> pc[t]]]
  /\ cur' = [cur EXCEPT ![t] = y]
  /\ pc' = [pc EXCEPT ![t] = "run"]
  /\ UNCHANGED <<toolVars, regions, reached, chunksLeft>>

\* Mutation: the TaskData of the resumed task is freed with the completed one.
CbTaskScheduleEnd_FreesResumed(t) ==
  /\ pc[t] = "run" /\ cur[t][1] = "explicit"
  /\ taskData' = Drop(taskData, tasks[cur[t]].resume.task)
  /\ tasks' = Drop(tasks, cur[t])
  /\ cur' = [cur EXCEPT ![t] = tasks[cur[t]].resume.task]
  /\ pc' = [pc EXCEPT ![t] = tasks[cur[t]].resume.pc]
  /\ UNCHANGED <<tdg, finalNode, parInfo, threadData, chunkInfo, nextNode,
                 regions, reached, chunksLeft>>

\* cb_task_schedule when the task completes.
CbTaskScheduleEnd(t) ==
  /\ pc[t] = "run" /\ cur[t][1] = "explicit"
  /\ tasks' = Drop(tasks, cur[t])
  /\ cur' = [cur EXCEPT ![t] = tasks[cur[t]].resume.task]
  /\ pc' = [pc EXCEPT ![t] = tasks[cur[t]].resume.pc]
  /\ UNCHANGED <<toolVars, regions, reached, chunksLeft>>

-----------------------------------------------------------------------------

Init ==
  /\ tdg = EmptyGraph /\ finalNode = NULL
  /\ taskData = EmptyFcn /\ parInfo = EmptyFcn
  /\ threadData = EmptyFcn /\ chunkInfo = EmptyFcn
  /\ nextNode = [t \in Threads |-> 0]
  /\ regions = <<>> /\ reached = EmptyFcn /\ tasks = EmptyFcn
  /\ chunksLeft = EmptyFcn
  /\ cur = [t \in Threads |-> NULL] /\ pc = [t \in Threads |-> "down"]

Step(t) ==
  \/ CbThreadBegin(t)
  \/ CbThreadEnd(t)
  \/ t = Master /\ CbTaskCreateInitial
  \/ \E team \in Teams :
       \E requested \in Cardinality(team) .. Cardinality(team) + Shortfall :
         CbParallelBegin(t, team, requested)
  \/ \E r \in DOMAIN regions : CbImplicitTaskBegin(t, r)
  \/ CbImplicitTaskEnd(t)
  \/ CbParallelEnd(t)
  \/ \E c \in {"barrier", "join"} : CbSyncRegionBegin(t, c)
  \/ CbSyncRegionArrive(t)
  \/ CbSyncRegionLoad(t)
  \/ CbSyncRegionEnd(t)
  \/ CbExtLoopBegin(t)
  \/ \E lastChunk \in BOOLEAN : CbExtChunk(t, lastChunk)
  \/ CbExtLoopEnd(t)
  \/ CbTaskCreateExplicit(t)
  \/ \E y \in DOMAIN tasks : CbTaskScheduleStart(t, y)
  \/ CbTaskScheduleEnd(t)

\* The program is over: no thread of the pool is alive.
Terminated ==
  /\ \A t \in Threads : pc[t] = "ended" \/ (t # Master /\ pc[t] = "down")
  /\ UNCHANGED vars

Next == (\E t \in Threads : Step(t)) \/ Terminated

Spec == Init /\ [][Next]_vars

-----------------------------------------------------------------------------
(* Properties.                                                             *)

\* The variables have their types; a task or region that was freed is gone.
TypeOK ==
  /\ tdg.nodes \in [DOMAIN tdg.nodes -> NodeType] /\ DOMAIN tdg.nodes \subseteq Node
  /\ finalNode \in Node \cup {NULL}
  /\ taskData \in [DOMAIN taskData -> TaskData] /\ DOMAIN taskData \subseteq Task
  /\ parInfo \in [DOMAIN parInfo -> ParallelRegionData]
  /\ DOMAIN parInfo \subseteq DOMAIN regions
  /\ threadData \in [DOMAIN threadData -> Nat] /\ DOMAIN threadData \subseteq Threads
  /\ nextNode \in [Threads -> Nat]
  /\ regions \in Seq(Region)
  /\ reached \in [DOMAIN reached -> Nat] /\ DOMAIN reached \subseteq Task
  /\ tasks \in [DOMAIN tasks -> ExplicitTask] /\ DOMAIN tasks \subseteq Task
  /\ cur \in [Threads -> Task \cup {NULL}]
  /\ pc \in [Threads -> Location]

\* A worker is about to read _team_size through a pointer that it loaded while
\* the region's data was alive and that cb_parallel_end has deleted since.
ReadsDeleted(t) == pc[t] = "wake" /\ cur[t][2] \notin DOMAIN parInfo

\* cb_sync_region reads _team_size, at the end of a barrier, from a region's
\* data that is still alive.
RegionAliveWhenRead == \A t \in Threads : ~ReadsDeleted(t)

\* The one use of freed data there is: the read of _team_size by a worker at the
\* end of the join barrier, never by the encountering thread and never at
\* another barrier.  Apart from it, every task that a thread can return to, and
\* every task a region was opened from, still has its TaskData, and every
\* callback that follows parallel_data->ptr finds a live ParallelRegionData,
\* although cb_parallel_end deletes it while workers are still leaving.
FreedOnlyReadAtJoin ==
  /\ \A t \in Threads :
       /\ pc[t] \in {"run", "fork", "arrive", "barrier", "wake", "leave"} =>
            cur[t] \in DOMAIN taskData
       /\ pc[t] \in {"arrive", "joined"} \/ InImplicitTask(t) => cur[t][2] \in DOMAIN parInfo
       /\ ReadsDeleted(t) => AtJoin(cur[t]) /\ t # regions[cur[t][2]].thread
       /\ pc[t] \notin {"down", "ended"} => t \in DOMAIN threadData
  /\ \A r \in DOMAIN regions :
       /\ r \in DOMAIN parInfo => parInfo[r].parent \in DOMAIN taskData
       /\ r \notin DOMAIN parInfo => \A t \in regions[r].team : ~Assigned(t, r)
  /\ \A y \in DOMAIN tasks :
       tasks[y].resume # NULL => tasks[y].resume.task \in DOMAIN taskData

\* The nodes that the tool's data structures point to.
Held ==
  {taskData[x].node : x \in DOMAIN taskData}
    \cup (UNION {{taskData[x].barrier, taskData[x].sink} : x \in DOMAIN taskData})
    \cup (UNION {{taskData[x].ws.start, taskData[x].ws.sink, taskData[x].ws.lastChunk} :
                  x \in {y \in DOMAIN taskData : taskData[y].ws # NULL}})
    \cup (UNION {{parInfo[r].sink, parInfo[r].barrier} : r \in DOMAIN parInfo})
    \cup {finalNode}

\* No pointer to a deleted node survives: neither in an edge vector, where
\* finalize_libtdg would follow it, nor in the callbacks' own data.
NoDangling ==
  /\ \A e \in DOMAIN tdg.exits \cup DOMAIN tdg.entries :
       e[1] \in DOMAIN tdg.nodes /\ e[2] \in DOMAIN tdg.nodes
  /\ Held \subseteq DOMAIN tdg.nodes \cup {NULL}

\* The exit edges of the sources and the entry edges of the targets are the
\* same edges, each held once.
EdgesMirrored ==
  /\ tdg.exits = tdg.entries
  /\ \A e \in DOMAIN tdg.exits : tdg.exits[e] = 1

\* What is built is a DAG at every moment.
Acyclic == IsAcyclic(tdg)

\* The number of barriers of its region that implicit task x has entered.
BarriersEntered(x) ==
  LET s == reached[x] + (IF pc[x[3]] = "arrive" /\ cur[x[3]] = x THEN 1 ELSE 0)
  IN  Cardinality({i \in 1..s : regions[x[2]].script[i] # "loop"})

ImplicitTasks == {x \in DOMAIN taskData : x[1] = "implicit"}

\* Two threads of a team hold the same barrier node exactly when they have
\* entered equally many barriers, however fast one of them gets to the next
\* barrier while the other is still on its way out of the last one.
SameBarrierSameNode ==
  \A x, y \in ImplicitTasks :
    x[2] = y[2] =>
      (BarriersEntered(x) = BarriersEntered(y)) <=> (taskData[x].barrier = taskData[y].barrier)

\* The barriers thread u has entered in region r, 0 before its implicit task.
Entered(r, u) ==
  IF Implicit(r, u) \in DOMAIN reached THEN BarriersEntered(Implicit(r, u)) ELSE 0

\* "all the threads reached the barrier": _barrier_cnt is back at 0 exactly
\* when every thread of the team has entered the latest barrier any of them
\* has entered.
ResetWhenAllArrived ==
  \A r \in DOMAIN parInfo :
    parInfo[r].teamSize > 1 =>
      (parInfo[r].cnt = 0 <=>
         regions[r].team = {u \in regions[r].team :
           \A v \in regions[r].team : Entered(r, v) <= Entered(r, u)})

\* A thread that runs on after a barrier leaves behind a barrier node which
\* exactly one node of every thread of the team leads to.
BarrierJoinsTeam ==
  \A x \in ImplicitTasks :
    LET b == taskData[x].barrier
        P == Preds(tdg, b)
    IN  b # NULL /\ cur[x[3]] = x /\ pc[x[3]] \in {"run", "leave"} =>
          /\ {n[1] : n \in P} = regions[x[2]].team
          /\ Cardinality(P) = Cardinality(regions[x[2]].team)

\* The graph orders no more than the program does: the nodes that the threads
\* of a team come from when they meet at a barrier are not ordered by a path,
\* neither while the barrier fills up nor by anything added later.
TeamUnordered ==
  \A b \in {n \in DOMAIN tdg.nodes : tdg.nodes[n] = "BARRIER"} :
    \A m, n \in Preds(tdg, b) : m # n => ~HasPath(tdg, m, n)

\* The graph orders no less than the program does: when a task moves on to
\* another node, a path leads from the old one to the new one.
ProgramOrder ==
  [][\A x \in DOMAIN taskData \cap DOMAIN taskData' :
       taskData'[x].node # taskData[x].node =>
         HasPath(tdg', taskData[x].node, taskData'[x].node)]_vars

\* Outside parallel regions, when the last late worker has removed its node,
\* the graph has one source, the root, and, apart from explicit tasks and what
\* they started, one sink: g_finalNode, where the initial task is.
Quiescent ==
  InitialTask \in DOMAIN taskData /\ parInfo = EmptyFcn /\ ImplicitTasks = {}

SourceAndSink ==
  LET root   == CHOOSE n \in DOMAIN tdg.nodes : tdg.nodes[n] = "ROOT_TASK"
      tasked == ReachableFrom(tdg, {n \in DOMAIN tdg.nodes : tdg.nodes[n] = "EXP_TASK"})
      last   == taskData[InitialTask].node
  IN  Quiescent =>
        /\ ReachableFrom(tdg, {root}) = DOMAIN tdg.nodes
        /\ \A n \in DOMAIN tdg.nodes \ tasked : HasPath(tdg, n, last)
        /\ (\A i \in DOMAIN regions : regions[i].parent[1] # "explicit") => finalNode = last

\* "Each thread increases the loop counter independently, so the value should
\* be the same for each thread": chunks of one loop carry one counter.
LoopCounterAgrees ==
  \A m, n \in DOMAIN chunkInfo :
    chunkInfo[m].loop = chunkInfo[n].loop => chunkInfo[m].counter = chunkInfo[n].counter

\* With a team that never changes the counter that cb_ext_chunk stores, and
\* the chunk log prints, even identifies the loop.
LoopCounterIdentifiesLoop ==
  \A m, n \in DOMAIN chunkInfo :
    chunkInfo[m].loop = chunkInfo[n].loop <=> chunkInfo[m].counter = chunkInfo[n].counter
=============================================================================
