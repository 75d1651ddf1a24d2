------------------------- MODULE CallbacksInvariant -------------------------
(***************************************************************************)
(* The inductive invariant behind FreedOnlyReadAtJoin: who may still refer *)
(* to the TaskData of a task and to the ParallelRegionData of a region.    *)
(***************************************************************************)
EXTENDS Callbacks

\* Explicit task y has been taken up by a thread.
Started(y) == y \in DOMAIN tasks /\ tasks[y].resume # NULL

\* The thread on whose stack task x is.
Executor(x) == IF x[1] = "explicit" THEN tasks[x].resume.thread ELSE x[3]

\* Task x is under execution or suspended: it is known to the runtime, and the
\* region of a master thread's implicit task is still there.
InUse(x) ==
  /\ x[1] = "explicit" => Started(x)
  /\ x[1] = "implicit" =>
       /\ x \in DOMAIN reached
       /\ x[3] = regions[x[2]].thread => x[2] \in DOMAIN parInfo

\* User code of task x is to be executed: x is not an implicit task past its
\* last construct.
InUserCode(x) == x[1] = "implicit" => ~AtJoin(x)

\* What a thread executes.
ThreadInv(t) ==
  /\ pc[t] \notin {"down", "ended"} => t \in DOMAIN threadData
  /\ pc[t] \in {"down", "idle", "ended"} <=> cur[t] = NULL
  /\ cur[t] # NULL => /\ InUse(cur[t]) /\ Executor(cur[t]) = t
                      /\ pc[t] # "joined" => cur[t] \in DOMAIN taskData
  /\ pc[t] \in {"arrive", "barrier", "wake", "leave", "joined"} => cur[t][1] = "implicit"
  /\ pc[t] \in {"run", "fork", "arrive"} => InUserCode(cur[t])
  /\ pc[t] = "arrive" => reached[cur[t]] < Len(regions[cur[t][2]].script)
  /\ pc[t] \in {"leave", "joined"} => AtJoin(cur[t])
  /\ pc[t] \in {"wake", "leave", "joined"} => AllArrived(cur[t])
  /\ pc[t] = "joined" => regions[cur[t][2]].thread = t

\* A region keeps its data, and its parent task, until all implicit tasks have
\* begun and are at the join, which is the last construct.
RegionInv(r) ==
  /\ \A i \in DOMAIN regions[r].script :
       regions[r].script[i] = "join" => i = Len(regions[r].script)
  /\ r \in DOMAIN parInfo =>
       LET x == regions[r].parent IN
       /\ parInfo[r].parent = x
       /\ InUse(x) /\ InUserCode(x) /\ x \in DOMAIN taskData
       /\ Executor(x) = regions[r].thread
  /\ r \notin DOMAIN parInfo =>
       \A u \in regions[r].team :
         Implicit(r, u) \in DOMAIN reached /\ AtJoin(Implicit(r, u))

\* An implicit task belongs to a region, and is not past its last construct.
ReachedInv(x) ==
  /\ x = Implicit(x[2], x[3])
  /\ x[2] \in DOMAIN regions /\ x[3] \in regions[x[2]].team
  /\ reached[x] <= Len(regions[x[2]].script)

\* TaskData belongs to tasks that have begun or were created.
DataInv(x) ==
  /\ x[1] = "implicit" =>
       /\ x \in DOMAIN reached
       /\ taskData[x].threadNum = 0 <=> x[3] = regions[x[2]].thread
  /\ x[1] = "explicit" => x[2] < nextNode[x[3]]

\* What an explicit task suspends.
TaskInv(y) ==
  /\ y[1] = "explicit" /\ y \in DOMAIN taskData
  /\ tasks[y].resume # NULL =>
       LET s == tasks[y].resume IN
       /\ InUse(s.task) /\ s.task \in DOMAIN taskData
       /\ Executor(s.task) = s.thread
       /\ s.pc = "barrier" => s.task[1] = "implicit"
       /\ s.pc = "run" => InUserCode(s.task)

\* A task is in one place: it is what a thread executes, the parent of a
\* region, or what an explicit task suspends.  (A thread in "fork" has handed
\* its task to the region.)
ExclusiveInv ==
  /\ \A r, s \in DOMAIN parInfo : regions[r].parent = regions[s].parent => r = s
  /\ \A t \in Threads, r \in DOMAIN parInfo : cur[t] = regions[r].parent => pc[t] = "fork"
  /\ \A y, z \in DOMAIN tasks :
       tasks[y].resume # NULL /\ tasks[z].resume # NULL
         /\ tasks[y].resume.task = tasks[z].resume.task => y = z
  /\ \A y \in DOMAIN tasks, t \in Threads :
       tasks[y].resume # NULL => cur[t] # tasks[y].resume.task
  /\ \A y \in DOMAIN tasks, r \in DOMAIN parInfo :
       tasks[y].resume # NULL => regions[r].parent # tasks[y].resume.task

\* The lifetimes of the tool's data: what later callbacks use, and until when.
LifetimeInv ==
  /\ \A t \in Threads : ThreadInv(t)
  /\ \A r \in DOMAIN regions : RegionInv(r)
  /\ \A x \in DOMAIN reached : ReachedInv(x)
  /\ \A x \in DOMAIN taskData : DataInv(x)
  /\ \A y \in DOMAIN tasks : TaskInv(y)
  /\ ExclusiveInv

-----------------------------------------------------------------------------
(* The inductive invariant behind NoDangling and EdgesMirrored: which      *)
(* nodes the callbacks may still connect or delete.                        *)

\* Implicit task x waits in a barrier, is in the callback at its end, or has
\* left the join barrier.
Waits(x) ==
  \/ cur[x[3]] = x /\ pc[x[3]] \in {"barrier", "wake", "leave"}
  \/ \E y \in DOMAIN tasks :
       /\ tasks[y].resume # NULL
       /\ tasks[y].resume.task = x /\ tasks[y].resume.pc = "barrier"

\* The node of x is the one made for the code after the barrier x waits in.
Private(x) ==
  x \in DOMAIN taskData /\ x[1] = "implicit" /\ taskData[x].barrier # NULL /\ Waits(x)

\* The pointers of TaskData d other than its current node.
Pointers(d) ==
  {d.barrier, d.sink}
    \cup (IF d.ws = NULL THEN {} ELSE {d.ws.start, d.ws.sink, d.ws.lastChunk})

\* The nodes a callback can get to by some other way than as the node of a
\* task that waits.
Shared ==
  {taskData[x].node : x \in {y \in DOMAIN taskData : ~Private(y)}}
    \cup (UNION {Pointers(taskData[x]) : x \in DOMAIN taskData})
    \cup (UNION {{parInfo[r].sink, parInfo[r].barrier} : r \in DOMAIN parInfo})
    \cup {finalNode}

\* A node that cb_implicit_task may delete is known to its own task only, and
\* the barrier's edge to it is its only edge.
PrivateInv(x) ==
  LET n == taskData[x].node IN
  /\ n \in DOMAIN tdg.nodes \ Shared
  /\ \A y \in DOMAIN taskData : Private(y) /\ y # x => taskData[y].node # n
  /\ \A e \in DOMAIN tdg.exits : e[1] = n \/ e[2] = n => e = <<taskData[x].barrier, n>>

\* The pointers that callbacks follow without a test are set.
PointerInv ==
  /\ \A t \in Threads : pc[t] = "arrive" => taskData[cur[t]].barrier # NULL
  /\ \A x \in DOMAIN taskData : x[1] = "implicit" =>
       /\ taskData[x].sink # NULL
       /\ x[2] \in DOMAIN parInfo /\ parInfo[x[2]].teamSize <= 1 => taskData[x].barrier = NULL
  /\ \A r \in DOMAIN parInfo : parInfo[r].cnt > 0 => parInfo[r].barrier # NULL

\* The edges and pointers of the graph under construction.
GraphInv ==
  /\ EdgesMirrored
  /\ DOMAIN tdg.exits \subseteq (DOMAIN tdg.nodes) \X (DOMAIN tdg.nodes)
  /\ \A n \in DOMAIN tdg.nodes : n[2] < nextNode[n[1]]
  /\ Shared \subseteq DOMAIN tdg.nodes \cup {NULL}
  /\ \A x \in DOMAIN taskData : Private(x) => PrivateInv(x)
  /\ PointerInv

-----------------------------------------------------------------------------
(* The inductive invariant behind SameBarrierSameNode, ResetWhenAllArrived *)
(* and ImplementsBarrierCounter: who has entered which barriers, when the  *)
(* teams have the requested sizes.                                         *)

\* The barriers of region r are recorded: the team is not of one thread.
Recorded(r) == r \in DOMAIN regions /\ Cardinality(regions[r].team) > 1

\* Implicit task x is in cb_sync_region or in the barrier it was called for.
InBarrier(x) ==
  \/ cur[x[3]] = x /\ pc[x[3]] \in {"arrive", "barrier"}
  \/ \E y \in DOMAIN tasks :
       /\ tasks[y].resume # NULL
       /\ tasks[y].resume.task = x /\ tasks[y].resume.pc = "barrier"

\* All threads of the team have entered the barriers that implicit task x is
\* done with; a task that ended is done with the join.
PassedInv(x) ==
  /\ \A u \in regions[x[2]].team :
       BarriersEntered(x) <= Entered(x[2], u) + (IF InBarrier(x) THEN 1 ELSE 0)
  /\ x \notin DOMAIN taskData => AtJoin(x) /\ AllArrived(x)

\* The sizes that the counting relies on.
SizeInv ==
  /\ Len(regions) <= MaxRegions
  /\ \A r \in DOMAIN regions :
       /\ regions[r].team \in Teams
       /\ \A i \in DOMAIN regions[r].script :
            i <= MaxConstructs + (IF regions[r].script[i] = "join" THEN 1 ELSE 0)
  /\ \A r \in DOMAIN parInfo : parInfo[r].teamSize = Cardinality(regions[r].team)

RoundInv ==
  /\ SizeInv
  /\ \A x \in DOMAIN reached : PassedInv(x)
  /\ \A t \in Threads : pc[t] = "joined" => cur[t] \notin DOMAIN taskData
  /\ \A x \in ImplicitTasks :
       Recorded(x[2]) => (BarriersEntered(x) > 0 <=> taskData[x].barrier # NULL)

\* What the barriers of region r look like: the team, the barriers entered and
\* the node held by each thread, the counter and the node of the region.
TeamOf(r) == IF Recorded(r) THEN regions[r].team ELSE {}

EnteredIn(r) ==
  [t \in Threads |-> IF Recorded(r) THEN Entered(r, t) ELSE 0]

NodeIn(r) ==
  [t \in Threads |->
     IF Recorded(r) /\ Implicit(r, t) \in DOMAIN taskData
     THEN taskData[Implicit(r, t)].barrier ELSE NULL]

CountIn(r) == IF Recorded(r) /\ r \in DOMAIN parInfo THEN parInfo[r].cnt ELSE 0
BarrierIn(r) == IF Recorded(r) /\ r \in DOMAIN parInfo THEN parInfo[r].barrier ELSE NULL
=============================================================================
