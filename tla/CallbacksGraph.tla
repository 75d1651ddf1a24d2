--------------------------- MODULE CallbacksGraph ---------------------------
(***************************************************************************)
(* Proofs about Callbacks, part 3: every callback keeps GraphInv.          *)
(***************************************************************************)
EXTENDS CallbacksProofs

LEMMA ThreadGraph ==
  ASSUME TypeOK, LifetimeInv, GraphInv, NEW t \in Threads, CbThreadBegin(t) \/ CbThreadEnd(t)
  PROVE  GraphInv'
<1>1. /\ UNCHANGED <<tdg, finalNode, taskData, parInfo, nextNode, tasks>>
      /\ pc[t] \notin {"barrier", "wake", "leave"}
  BY DEF CbThreadBegin, CbThreadEnd
<1>2. /\ pc'[t] \in {"idle", "ended"}
      /\ \A u \in Threads : u # t => cur'[u] = cur[u] /\ pc'[u] = pc[u]
  BY DEF CbThreadBegin, CbThreadEnd, TypeOK
<1>3. \A x \in Task : Waits(x)' <=> Waits(x)
  BY <1>1, <1>2, WaitsFrame
<1> QED
  BY <1>1, <1>2, <1>3, QuietStep

LEMMA SyncRegionEndGraph ==
  ASSUME TypeOK, LifetimeInv, GraphInv, NEW t \in Threads,
         CbSyncRegionLoad(t) \/ CbSyncRegionEnd(t)
  PROVE  GraphInv'
<1>1. /\ UNCHANGED <<tdg, finalNode, taskData, parInfo, nextNode, tasks, cur>>
      /\ pc[t] \in {"barrier", "wake"}
  BY DEF CbSyncRegionLoad, CbSyncRegionEnd, toolVars
<1>2. pc'[t] \in {"wake", "leave", "run"} /\ \A u \in Threads : u # t => pc'[u] = pc[u]
  BY DEF CbSyncRegionLoad, CbSyncRegionEnd, Past, TypeOK
<1>3. ASSUME NEW x \in Task, Waits(x)' PROVE Waits(x)
  <2>1. x[3] \in Threads
    BY DEF Task
  <2> QED
    BY <1>1, <1>2, <1>3, <2>1 DEF Waits
<1> QED
  BY <1>1, <1>2, <1>3, QuietStep

LEMMA TaskScheduleStartGraph ==
  ASSUME TypeOK, LifetimeInv, GraphInv, NEW t \in Threads, NEW y \in DOMAIN tasks,
         CbTaskScheduleStart(t, y)
  PROVE  GraphInv'
<1>1. /\ UNCHANGED <<tdg, finalNode, taskData, parInfo, nextNode>>
      /\ pc[t] \in {"run", "barrier"}
  BY Zenon DEF CbTaskScheduleStart, toolVars
<1>2. pc'[t] = "run" /\ \A u \in Threads : u # t => cur'[u] = cur[u] /\ pc'[u] = pc[u]
  BY DEF CbTaskScheduleStart, TypeOK
<1>3. /\ DOMAIN tasks' = DOMAIN tasks /\ \A z \in DOMAIN tasks : z # y => tasks'[z] = tasks[z]
      /\ tasks'[y].resume.task = cur[t] /\ tasks'[y].resume.pc = pc[t]
  <2>1. tasks[y] \in ExplicitTask
    BY DEF TypeOK
  <2>2. tasks' = [tasks EXCEPT ![y].resume = [thread |-> t, task |-> cur[t], pc |-> pc[t]]]
    BY Zenon DEF CbTaskScheduleStart
  <2> QED
    BY <2>1, <2>2 DEF ExplicitTask
<1>4. pc[t] = "barrier" => cur[t][3] = t
  BY DEF LifetimeInv, ThreadInv, Executor
<1>5. ASSUME NEW x \in Task, Waits(x)' PROVE Waits(x)
  <2>1. x[3] \in Threads
    BY DEF Task
  <2>2. CASE tasks'[y].resume.task = x /\ tasks'[y].resume.pc = "barrier"
    BY Zenon, <1>3, <1>4, <2>2 DEF Waits
  <2>3. CASE ~(tasks'[y].resume.task = x /\ tasks'[y].resume.pc = "barrier")
    BY <1>2, <1>3, <1>5, <2>1, <2>3 DEF Waits
  <2> QED
    BY <2>2, <2>3
<1> QED
  BY <1>1, <1>2, <1>5, QuietStep

LEMMA TaskScheduleEndGraph ==
  ASSUME TypeOK, LifetimeInv, GraphInv, NEW t \in Threads, CbTaskScheduleEnd(t)
  PROVE  GraphInv'
<1>1. PICK s : s = tasks[cur[t]].resume
  OBVIOUS
<1>2. /\ UNCHANGED <<tdg, finalNode, taskData, parInfo, nextNode>>
      /\ pc[t] = "run" /\ cur[t][1] = "explicit" /\ tasks' = Drop(tasks, cur[t])
      /\ cur' = [cur EXCEPT ![t] = s.task] /\ pc' = [pc EXCEPT ![t] = s.pc]
  BY SMT, Z3, <1>1 DEF CbTaskScheduleEnd, toolVars
<1>3. cur[t] \in DOMAIN tasks /\ s # NULL
  BY <1>1, <1>2 DEF LifetimeInv, ThreadInv, InUse, Started
<1>4. s.pc \in {"run", "barrier"}
  BY <1>1, <1>3, SuspendedTask DEF Suspended
<1>5. /\ cur'[t] = s.task /\ pc'[t] = s.pc
      /\ \A u \in Threads : u # t => cur'[u] = cur[u] /\ pc'[u] = pc[u]
  BY <1>2 DEF TypeOK
<1>6. DOMAIN tasks' \subseteq DOMAIN tasks /\ \A z \in DOMAIN tasks' : tasks'[z] = tasks[z]
  BY <1>2 DEF Drop
<1>7. ASSUME NEW x \in Task, Waits(x)' PROVE Waits(x)
  <2>1. x[3] \in Threads
    BY DEF Task
  <2>2. CASE x[3] = t /\ cur'[t] = x /\ pc'[t] \in {"barrier", "wake", "leave"}
    BY Zenon, <1>1, <1>3, <1>4, <1>5, <2>2 DEF Waits
  <2>3. CASE ~(x[3] = t /\ cur'[t] = x /\ pc'[t] \in {"barrier", "wake", "leave"})
    BY <1>5, <1>6, <1>7, <2>1, <2>3 DEF Waits
  <2> QED
    BY <2>2, <2>3
<1> QED
  BY <1>2, <1>4, <1>5, <1>7, QuietStep

LEMMA TaskCreateInitialGraph ==
  ASSUME TypeOK, TypeOK', LifetimeInv, GraphInv, CbTaskCreateInitial
  PROVE  GraphInv'
<1> DEFINE n == NewNode(Master, 1)
           F == {n}
<1>1. /\ pc[Master] = "idle" /\ InitialTask \notin DOMAIN taskData
      /\ tdg' = CreateCleanNode(tdg, n, "ROOT_TASK") /\ finalNode' = n
      /\ nextNode' = [nextNode EXCEPT ![Master] = @ + 1] /\ UNCHANGED <<parInfo, tasks>>
      /\ taskData' = Put(taskData, InitialTask, [node |-> n, ws |-> NULL, barrier |-> NULL,
                                                 sink |-> NULL, threadNum |-> 0])
      /\ cur' = [cur EXCEPT ![Master] = InitialTask] /\ pc' = [pc EXCEPT ![Master] = "run"]
  BY Zenon DEF CbTaskCreateInitial, Allocate
<1>2. /\ n \in Node /\ n[1] = Master /\ n[2] = nextNode[Master] /\ nextNode[Master] \in Nat
      /\ n \notin DOMAIN tdg.nodes
  BY FreshNode, ThreadsAssumption DEF TypeOK
<1> HIDE DEF n
<1>3. /\ pc'[Master] = "run" /\ cur'[Master] = InitialTask /\ Master \in Threads
      /\ \A u \in Threads : u # Master => cur'[u] = cur[u] /\ pc'[u] = pc[u]
  BY <1>1, ThreadsAssumption DEF TypeOK
<1>4. \A x \in Task : Waits(x)' <=> Waits(x)
  BY <1>1, <1>3, WaitsFrame
<1>5. /\ Consistent(tdg') /\ DOMAIN tdg'.nodes = DOMAIN tdg.nodes \cup F
      /\ DOMAIN tdg'.exits = DOMAIN tdg.exits
  BY Zenon, <1>1, GraphConsistent, CleanNodeGraph
<1>6. /\ \A u \in Threads : nextNode'[u] >= nextNode[u]
      /\ n[2] < nextNode'[n[1]]
  BY SMT, Z3, <1>1, <1>2, <1>3 DEF TypeOK
<1>7. /\ DOMAIN taskData' = DOMAIN taskData \cup {InitialTask}
      /\ \A x \in DOMAIN taskData : taskData'[x] = taskData[x]
      /\ taskData'[InitialTask].node = n /\ taskData'[InitialTask].ws = NULL
      /\ taskData'[InitialTask].barrier = NULL /\ taskData'[InitialTask].sink = NULL
  BY Zenon, <1>1 DEF Put
<1>8. InitialTask[1] = "initial" /\ ~Waits(InitialTask)
  <2>1. InitialTask[1] = "initial" /\ InitialTask[3] = Master /\ InitialTask # NULL
    BY Zenon, <1>3, TaskNames, NullAssumption
  <2>2. cur[Master] = NULL
    BY Zenon, <1>1, <1>3 DEF LifetimeInv, ThreadInv
  <2>3. \A y \in DOMAIN tasks : tasks[y].resume # NULL => tasks[y].resume.task # InitialTask
    BY Zenon, <1>1 DEF LifetimeInv, TaskInv
  <2> QED
    BY <2>1, <2>2, <2>3 DEF Waits
<1>9. PointerInv'
  BY Zenon, <1>1, <1>3, <1>7, <1>8, PointerStep
<1>10. /\ taskData'[InitialTask].node \in Shared \cup F
       /\ \A m \in Pointers(taskData'[InitialTask]) : m \in Shared \cup F \cup {NULL}
       /\ \A x \in DOMAIN taskData' :
            x # InitialTask => x \in DOMAIN taskData /\ taskData'[x] = taskData[x]
  BY Zenon, <1>7 DEF Pointers
<1>11. /\ finalNode' \in Shared \cup F \cup {NULL}
       /\ \A r \in DOMAIN parInfo' : /\ parInfo'[r].sink \in Shared \cup F \cup {NULL}
                                     /\ parInfo'[r].barrier \in Shared \cup F \cup {NULL}
       /\ \A m \in F : m \notin DOMAIN tdg.nodes /\ m[2] < nextNode'[m[1]]
  BY <1>1, <1>2, <1>6, SharedIntro
<1> HIDE DEF F
<1> QED
  BY Zenon, <1>4, <1>5, <1>6, <1>8, <1>9, <1>10, <1>11, TaskStep

LEMMA ParallelBeginGraph ==
  ASSUME TypeOK, TypeOK', LifetimeInv, GraphInv, NEW t \in Threads, NEW team, NEW requested,
         CbParallelBegin(t, team, requested)
  PROVE  GraphInv'
<1> DEFINE n == NewNode(t, 1)
           F == {n}
           k == Len(regions')
<1>1. /\ pc[t] = "run" /\ pc' = [pc EXCEPT ![t] = "fork"]
      /\ tdg' = CreateCleanNode(tdg, n, "IMP_TASK")
      /\ nextNode' = [nextNode EXCEPT ![t] = @ + 1]
      /\ parInfo' = Put(parInfo, k, [parent |-> cur[t], sink |-> n, teamSize |-> requested,
                                     cnt |-> 0, barrier |-> NULL])
      /\ UNCHANGED <<finalNode, taskData, tasks, cur>>
  BY Zenon DEF CbParallelBegin, Allocate
<1>2. /\ n \in Node /\ n[1] = t /\ n[2] = nextNode[t] /\ nextNode[t] \in Nat
      /\ n \notin DOMAIN tdg.nodes
  BY SMT, Z3, FreshNode DEF TypeOK
<1>3. k \notin DOMAIN regions
  BY DEF CbParallelBegin, TypeOK
<1> HIDE DEF n, k
<1>4. pc'[t] = "fork" /\ \A u \in Threads : u # t => cur'[u] = cur[u] /\ pc'[u] = pc[u]
  BY Zenon, <1>1 DEF TypeOK
<1>5. \A x \in Task : Waits(x)' <=> Waits(x)
  BY <1>1, <1>4, WaitsFrame
<1>6. /\ Consistent(tdg') /\ DOMAIN tdg'.nodes = DOMAIN tdg.nodes \cup F
      /\ DOMAIN tdg'.exits = DOMAIN tdg.exits
  BY Zenon, <1>1, GraphConsistent, CleanNodeGraph
<1>7. (\A u \in Threads : nextNode'[u] >= nextNode[u]) /\ n[2] < nextNode'[n[1]]
  BY <1>1, <1>2 DEF TypeOK
<1>8. /\ DOMAIN parInfo' = DOMAIN parInfo \cup {k}
      /\ \A r \in DOMAIN parInfo : r # k => parInfo'[r] = parInfo[r]
      /\ parInfo'[k].sink = n /\ parInfo'[k].cnt = 0 /\ parInfo'[k].barrier = NULL
  BY Zenon, <1>1 DEF Put
<1>9. \A x \in DOMAIN taskData : x[1] = "implicit" => x[2] # k
  BY Zenon, <1>3 DEF LifetimeInv, DataInv, ReachedInv
<1>10. PointerInv'
  <2>1. pc'[t] # "arrive" /\ UNCHANGED taskData
    BY <1>1, <1>4
  <2>2. \A r \in DOMAIN parInfo' :
          \/ r \in DOMAIN parInfo /\ parInfo'[r] = parInfo[r]
          \/ parInfo'[r].cnt = 0 /\ \A x \in DOMAIN taskData' : x[1] = "implicit" => x[2] # r
    BY Zenon, <1>8, <1>9, <2>1
  <2> QED
    BY <1>4, <2>1, <2>2, PointerStep
<1>11. /\ finalNode' \in Shared \cup F \cup {NULL}
       /\ \A r \in DOMAIN parInfo' : /\ parInfo'[r].sink \in Shared \cup F \cup {NULL}
                                     /\ parInfo'[r].barrier \in Shared \cup F \cup {NULL}
       /\ \A m \in F : m \notin DOMAIN tdg.nodes /\ m[2] < nextNode'[m[1]]
       /\ \A x \in DOMAIN taskData : \A m \in Pointers(taskData[x]) : m \in Shared \cup F \cup {NULL}
  BY <1>1, <1>2, <1>7, <1>8, SharedIntro
<1>12. \A e \in DOMAIN tdg'.exits :
         e \in DOMAIN tdg.exits \/ (e[1] \in Shared \cup F /\ e[2] \in Shared \cup F)
  BY Zenon, <1>6
<1>13. \A x \in DOMAIN taskData' :
         /\ \/ /\ x \in DOMAIN taskData /\ taskData'[x].node = taskData[x].node
               /\ taskData'[x].barrier = taskData[x].barrier
            \/ ~Waits(x) /\ taskData'[x].node \in Shared \cup F
         /\ \A m \in Pointers(taskData'[x]) : m \in Shared \cup F \cup {NULL}
  BY <1>1, <1>11
<1> HIDE DEF F
<1> QED
  BY Zenon, <1>5, <1>6, <1>7, <1>10, <1>11, <1>12, <1>13, GrowStep

LEMMA ImplicitTaskBeginGraph ==
  ASSUME TypeOK, TypeOK', LifetimeInv, GraphInv, NEW t \in Threads, NEW r0 \in DOMAIN regions,
         CbImplicitTaskBegin(t, r0)
  PROVE  GraphInv'
<1> DEFINE n  == NewNode(t, 1)
           F  == {n}
           x0 == Implicit(r0, t)
           p0 == parInfo[r0]
           m0 == taskData[p0.parent].node
<1>1. /\ pc[t] \in {"fork", "idle"} /\ x0 \notin DOMAIN reached /\ t \in regions[r0].team
      /\ tdg' = CreateNewNode(tdg, n, "IMP_TASK", m0)
      /\ nextNode' = [nextNode EXCEPT ![t] = @ + 1]
      /\ taskData' = Put(taskData, x0,
                         [node |-> n, ws |-> NULL, barrier |-> NULL, sink |-> p0.sink,
                          threadNum |-> IF t = regions[r0].thread THEN 0 ELSE 1])
      /\ cur' = [cur EXCEPT ![t] = x0] /\ pc' = [pc EXCEPT ![t] = "run"]
      /\ UNCHANGED <<finalNode, parInfo, tasks>>
  BY Zenon DEF CbImplicitTaskBegin, Allocate, Assigned
<1>2. /\ n \in Node /\ n[1] = t /\ n[2] = nextNode[t] /\ nextNode[t] \in Nat
      /\ n \notin DOMAIN tdg.nodes
  BY FreshNode DEF TypeOK
<1>3. r0 \in DOMAIN parInfo
  BY Zenon, <1>1 DEF LifetimeInv, RegionInv
<1>4. m0 \in Shared /\ m0 \in DOMAIN tdg.nodes
  BY <1>3, ParentNotWaiting, NodeLive
<1>5. x0 \in Task /\ x0[1] = "implicit" /\ x0[3] = t /\ x0 # NULL /\ x0 \notin DOMAIN taskData
  <2>1. r0 \in Nat
    BY DEF TypeOK
  <2>2. x0 \in Task /\ x0[1] = "implicit" /\ x0[3] = t
    BY <2>1, TaskNames
  <2> QED
    BY Zenon, <1>1, <2>2, NullAssumption DEF LifetimeInv, DataInv
<1>6. ~Waits(x0)
  <2>1. cur[t] # x0
    BY Zenon, <1>1, <1>5 DEF LifetimeInv, ThreadInv, InUse
  <2>2. \A y \in DOMAIN tasks : tasks[y].resume # NULL => tasks[y].resume.task # x0
    BY Zenon, <1>5 DEF LifetimeInv, TaskInv
  <2> QED
    BY Zenon, <1>5, <2>1, <2>2 DEF Waits
<1>7. p0.sink \in Shared /\ p0.sink # NULL
  BY SMT, Z3, <1>3, SharedIntro, NullAssumption DEF TypeOK, ParallelRegionData
<1> HIDE DEF n, x0, m0, p0
<1>8. /\ pc'[t] = "run" /\ pc[t] \notin {"barrier", "wake", "leave"}
      /\ \A u \in Threads : u # t => cur'[u] = cur[u] /\ pc'[u] = pc[u]
  BY <1>1 DEF TypeOK
<1>9. \A x \in Task : Waits(x)' <=> Waits(x)
  BY Zenon, <1>1, <1>8, WaitsFrame
<1>10. /\ Consistent(tdg') /\ DOMAIN tdg'.nodes = DOMAIN tdg.nodes \cup F
       /\ DOMAIN tdg'.exits = DOMAIN tdg.exits \cup {<<m0, n>>}
  <2>1. Consistent(tdg)
    BY Zenon, GraphConsistent
  <2>2. tdg' = CreateNewNode(tdg, n, "IMP_TASK", m0) /\ m0 \in DOMAIN tdg.nodes
    BY Zenon, <1>1, <1>4
  <2> QED
    BY <2>1, <2>2, NewNodeGraph
<1>11. (\A u \in Threads : nextNode'[u] >= nextNode[u]) /\ n[2] < nextNode'[n[1]]
  BY <1>1, <1>2 DEF TypeOK
<1>12. /\ DOMAIN taskData' = DOMAIN taskData \cup {x0}
       /\ \A x \in DOMAIN taskData : taskData'[x] = taskData[x]
       /\ taskData'[x0].node = n /\ taskData'[x0].ws = NULL
       /\ taskData'[x0].barrier = NULL /\ taskData'[x0].sink = p0.sink
  BY Zenon, <1>1, <1>5 DEF Put
<1>13. PointerInv'
  <2>1. pc'[t] # "arrive" /\ \A r \in DOMAIN parInfo' : r \in DOMAIN parInfo /\ parInfo'[r] = parInfo[r]
    BY Zenon, <1>1, <1>8
  <2>2. \A x \in DOMAIN taskData' :
          \/ /\ x \in DOMAIN taskData /\ taskData'[x].barrier = taskData[x].barrier
             /\ taskData'[x].sink = taskData[x].sink
          \/ taskData'[x].barrier = NULL /\ taskData'[x].sink # NULL
    BY Zenon, <1>7, <1>12
  <2> QED
    BY <1>8, <1>12, <2>1, <2>2, PointerStep
<1>14. /\ taskData'[x0].node \in Shared \cup F
       /\ \A m \in Pointers(taskData'[x0]) : m \in Shared \cup F \cup {NULL}
       /\ \A x \in DOMAIN taskData' : x # x0 => x \in DOMAIN taskData /\ taskData'[x] = taskData[x]
  BY <1>7, <1>12 DEF Pointers
<1>15. /\ finalNode' \in Shared \cup F \cup {NULL}
       /\ \A r \in DOMAIN parInfo' : /\ parInfo'[r].sink \in Shared \cup F \cup {NULL}
                                     /\ parInfo'[r].barrier \in Shared \cup F \cup {NULL}
       /\ \A m \in F : m \notin DOMAIN tdg.nodes /\ m[2] < nextNode'[m[1]]
  BY Zenon, <1>1, <1>2, <1>11, SharedIntro
<1>16. \A e \in DOMAIN tdg'.exits :
         e \in DOMAIN tdg.exits \/ (e[1] \in Shared \cup F /\ e[2] \in Shared \cup F)
  BY <1>4, <1>10
<1> HIDE DEF F
<1> QED
  BY Zenon, <1>6, <1>9, <1>10, <1>11, <1>13, <1>14, <1>15, <1>16, TaskStep

LEMMA ParallelEndGraph ==
  ASSUME TypeOK, TypeOK', LifetimeInv, GraphInv, NEW t \in Threads, CbParallelEnd(t)
  PROVE  GraphInv'
<1> DEFINE F  == {}
           r0 == cur[t][2]
           p0 == parInfo[r0]
           x0 == p0.parent
<1>1. /\ pc[t] = "joined" /\ taskData' = [taskData EXCEPT ![x0].node = p0.sink]
      /\ finalNode' = p0.sink /\ parInfo' = Drop(parInfo, r0)
      /\ cur' = [cur EXCEPT ![t] = regions[r0].parent] /\ pc' = [pc EXCEPT ![t] = "run"]
      /\ UNCHANGED <<tdg, nextNode, tasks>>
  BY Zenon DEF CbParallelEnd
<1>2. r0 \in DOMAIN parInfo
  BY <1>1, LifetimeImplies DEF FreedOnlyReadAtJoin
<1>3. x0 \in DOMAIN taskData /\ ~Waits(x0)
  BY <1>2, ParentNotWaiting
<1>4. p0.sink \in Shared
  BY Zenon, <1>2, SharedIntro
<1> HIDE DEF r0, p0, x0
<1>5. pc'[t] = "run" /\ \A u \in Threads : u # t => cur'[u] = cur[u] /\ pc'[u] = pc[u]
  BY <1>1 DEF TypeOK
<1>6. \A x \in Task : Waits(x)' <=> Waits(x)
  BY Zenon, <1>1, <1>5, WaitsFrame
<1>7. taskData[x0] \in TaskData
  BY <1>3 DEF TypeOK
<1>8. /\ DOMAIN taskData' = DOMAIN taskData
      /\ \A x \in DOMAIN taskData : x # x0 => taskData'[x] = taskData[x]
      /\ taskData'[x0].node = p0.sink /\ taskData'[x0].ws = taskData[x0].ws
      /\ taskData'[x0].barrier = taskData[x0].barrier /\ taskData'[x0].sink = taskData[x0].sink
  BY <1>1, <1>3, <1>7 DEF TaskData
<1>9. DOMAIN parInfo' \subseteq DOMAIN parInfo /\ \A r \in DOMAIN parInfo' : parInfo'[r] = parInfo[r]
  BY <1>1 DEF Drop
<1>10. \A x \in DOMAIN taskData : /\ taskData'[x].barrier = taskData[x].barrier
                                  /\ taskData'[x].sink = taskData[x].sink
  BY Zenon, <1>8
<1>11. PointerInv'
  BY Zenon, <1>5, <1>8, <1>9, <1>10, PointerStep
<1>12. /\ taskData'[x0].node \in Shared \cup F
       /\ \A m \in Pointers(taskData'[x0]) : m \in Shared \cup F \cup {NULL}
       /\ \A x \in DOMAIN taskData' : x # x0 => x \in DOMAIN taskData /\ taskData'[x] = taskData[x]
  BY Zenon, <1>3, <1>4, <1>8, SharedIntro DEF Pointers
<1>13. /\ finalNode' \in Shared \cup F \cup {NULL}
       /\ \A r \in DOMAIN parInfo' : /\ parInfo'[r].sink \in Shared \cup F \cup {NULL}
                                     /\ parInfo'[r].barrier \in Shared \cup F \cup {NULL}
       /\ \A m \in F : m \notin DOMAIN tdg.nodes /\ m[2] < nextNode'[m[1]]
       /\ \A u \in Threads : nextNode'[u] >= nextNode[u]
       /\ \A e \in DOMAIN tdg'.exits :
            e \in DOMAIN tdg.exits \/ (e[1] \in Shared \cup F /\ e[2] \in Shared \cup F)
       /\ DOMAIN tdg'.nodes = DOMAIN tdg.nodes \cup F
  BY <1>1, <1>4, <1>9, SharedIntro DEF TypeOK
<1>14. Consistent(tdg')
  BY <1>1, GraphConsistent
<1> HIDE DEF F
<1> QED
  BY Zenon, <1>3, <1>6, <1>11, <1>12, <1>13, <1>14, TaskStep

LEMMA TaskCreateExplicitGraph ==
  ASSUME TypeOK, TypeOK', LifetimeInv, GraphInv, NEW t \in Threads, CbTaskCreateExplicit(t)
  PROVE  GraphInv'
<1> DEFINE n  == NewNode(t, 1)
           F  == {n}
           y  == Explicit(n[2], t)
           m0 == taskData[cur[t]].node
<1>1. /\ pc[t] = "run" /\ tdg' = CreateNewNode(tdg, n, "EXP_TASK", m0)
      /\ nextNode' = [nextNode EXCEPT ![t] = @ + 1]
      /\ taskData' = Put(taskData, y, [node |-> n, ws |-> NULL, barrier |-> NULL,
                                       sink |-> NULL, threadNum |-> 0])
      /\ UNCHANGED <<finalNode, parInfo, cur, pc>>
      /\ \E k, j : tasks' = Put(tasks, y, [region |-> k, round |-> j, resume |-> NULL])
  BY Zenon DEF CbTaskCreateExplicit, Allocate
<1>2. /\ n \in Node /\ n[1] = t /\ n[2] = nextNode[t] /\ nextNode[t] \in Nat
      /\ n \notin DOMAIN tdg.nodes
  BY FreshNode DEF TypeOK
<1>3. cur[t] # NULL /\ cur[t] \in DOMAIN taskData
  BY Zenon, <1>1 DEF LifetimeInv, ThreadInv
<1>4. m0 \in Shared /\ m0 \in DOMAIN tdg.nodes
  BY Zenon, <1>1, <1>3, RunningNotWaiting, NodeLive
<1>5. /\ y \in Task /\ y[1] = "explicit" /\ y[3] = t /\ y # NULL
      /\ y \notin DOMAIN taskData /\ y \notin DOMAIN tasks
  <2>1. y \in Task /\ y[1] = "explicit" /\ y[2] = nextNode[t] /\ y[3] = t
    BY <1>2, TaskNames
  <2>2. ~(y[2] < nextNode[y[3]])
    BY <1>2, <2>1
  <2> QED
    BY Zenon, <2>1, <2>2, NullAssumption DEF LifetimeInv, DataInv, TaskInv
<1>6. ~Waits(y)
  <2>1. \A z \in DOMAIN tasks : tasks[z].resume # NULL => tasks[z].resume.task # y
    BY Zenon, <1>5 DEF LifetimeInv, TaskInv
  <2> QED
    BY Zenon, <1>3, <1>5, <2>1 DEF Waits
<1> HIDE DEF n, y, m0
<1>7. \A x \in Task : Waits(x)' <=> Waits(x)
  <2>1. /\ DOMAIN tasks' = DOMAIN tasks \cup {y} /\ tasks'[y].resume = NULL
        /\ \A z \in DOMAIN tasks : tasks'[z] = tasks[z]
    <3>1. PICK k, j : tasks' = Put(tasks, y, [region |-> k, round |-> j, resume |-> NULL])
      BY Zenon, <1>1
    <3> QED
      BY Zenon, <1>5, <3>1 DEF Put
  <2> QED
    BY <1>1, <2>1 DEF Waits
<1>8. /\ Consistent(tdg') /\ DOMAIN tdg'.nodes = DOMAIN tdg.nodes \cup F
      /\ DOMAIN tdg'.exits = DOMAIN tdg.exits \cup {<<m0, n>>}
  <2>1. Consistent(tdg)
    BY Zenon, GraphConsistent
  <2>2. tdg' = CreateNewNode(tdg, n, "EXP_TASK", m0) /\ m0 \in DOMAIN tdg.nodes
    BY Zenon, <1>1, <1>4
  <2> QED
    BY <2>1, <2>2, NewNodeGraph
<1>9. (\A u \in Threads : nextNode'[u] >= nextNode[u]) /\ n[2] < nextNode'[n[1]]
  BY <1>1, <1>2 DEF TypeOK
<1>10. /\ DOMAIN taskData' = DOMAIN taskData \cup {y}
       /\ \A x \in DOMAIN taskData : taskData'[x] = taskData[x]
       /\ taskData'[y].node = n /\ taskData'[y].ws = NULL
       /\ taskData'[y].barrier = NULL /\ taskData'[y].sink = NULL
  BY Zenon, <1>1, <1>5 DEF Put
<1>11. PointerInv'
  <2>1. pc'[t] # "arrive" /\ \A u \in Threads : u # t => cur'[u] = cur[u] /\ pc'[u] = pc[u]
    <3>1. pc' = pc /\ cur' = cur /\ pc[t] = "run"
      BY Zenon, <1>1
    <3> QED
      BY <3>1
  <2> QED
    BY <1>1, <1>5, <1>10, <2>1, PointerStep
<1>12. /\ taskData'[y].node \in Shared \cup F
       /\ \A m \in Pointers(taskData'[y]) : m \in Shared \cup F \cup {NULL}
       /\ \A x \in DOMAIN taskData' : x # y => x \in DOMAIN taskData /\ taskData'[x] = taskData[x]
  BY <1>10 DEF Pointers
<1>13. /\ finalNode' \in Shared \cup F \cup {NULL}
       /\ \A r \in DOMAIN parInfo' : /\ parInfo'[r].sink \in Shared \cup F \cup {NULL}
                                     /\ parInfo'[r].barrier \in Shared \cup F \cup {NULL}
       /\ \A m \in F : m \notin DOMAIN tdg.nodes /\ m[2] < nextNode'[m[1]]
  BY Zenon, <1>1, <1>2, <1>9, SharedIntro
<1>14. \A e \in DOMAIN tdg'.exits :
         e \in DOMAIN tdg.exits \/ (e[1] \in Shared \cup F /\ e[2] \in Shared \cup F)
  BY <1>4, <1>8
<1> HIDE DEF F
<1> QED
  BY Zenon, <1>6, <1>7, <1>8, <1>9, <1>11, <1>12, <1>13, <1>14, TaskStep

\* The nodes of an open loop can be connected.
LEMMA LoopLive ==
  ASSUME TypeOK, GraphInv, NEW x \in DOMAIN taskData, taskData[x].ws # NULL
  PROVE  LET ws == taskData[x].ws
         IN  /\ ws \in WorksharingData
             /\ ws.start \in Shared /\ ws.start \in DOMAIN tdg.nodes
             /\ ws.sink \in Shared /\ ws.sink \in DOMAIN tdg.nodes
<1> DEFINE ws == taskData[x].ws
<1>1. ws \in WorksharingData
  BY DEF TypeOK, TaskData
<1>2. ws.start \in Node /\ ws.sink \in Node
  BY <1>1 DEF WorksharingData
<1>3. ws.start \in Shared /\ ws.sink \in Shared
  BY SharedIntro DEF Pointers
<1> QED
  BY <1>1, <1>2, <1>3, SharedLive, NullAssumption

LEMMA ExtLoopBeginGraph ==
  ASSUME TypeOK, TypeOK', LifetimeInv, GraphInv, NEW t \in Threads, CbExtLoopBegin(t)
  PROVE  GraphInv'
<1> DEFINE start == NewNode(t, 1)
           sink  == NewNode(t, 2)
           F     == {start, sink}
           x0    == cur[t]
           m0    == taskData[x0].node
           ws    == [start |-> start, sink |-> sink, lastChunk |-> NULL]
           g     == CreateNewNode(tdg, start, "WS_TASK", m0)
<1>1. /\ InImplicitTask(t) /\ tdg' = CreateCleanNode(g, sink, "IMP_TASK")
      /\ nextNode' = [nextNode EXCEPT ![t] = @ + 2]
      /\ taskData' = [taskData EXCEPT ![x0].ws = ws]
      /\ UNCHANGED <<finalNode, parInfo, tasks, cur, pc>>
  BY Zenon DEF CbExtLoopBegin, Allocate
<1>2. /\ start \in Node /\ start[1] = t /\ start[2] = nextNode[t] /\ nextNode[t] \in Nat
      /\ start \notin DOMAIN tdg.nodes
  BY FreshNode DEF TypeOK
<1>3. /\ sink \in Node /\ sink[1] = t /\ sink[2] = nextNode[t] + 1
      /\ sink \notin DOMAIN tdg.nodes
  BY SMT, Z3, FreshNode DEF TypeOK
<1>4. x0 \in DOMAIN taskData /\ taskData[x0] \in TaskData /\ x0 # NULL /\ pc[t] = "run"
  BY <1>1, CurrentImplicit, NullAssumption DEF TypeOK, InImplicitTask
<1>5. m0 \in Shared /\ m0 \in DOMAIN tdg.nodes /\ ~Waits(x0)
  BY <1>4, RunningNotWaiting, NodeLive
<1>6. \A x \in Task : Waits(x)' <=> Waits(x)
  BY <1>1 DEF Waits
<1>7. ws # NULL
  <2>1. ws \in WorksharingData
    BY Zenon, <1>2, <1>3 DEF WorksharingData
  <2> QED
    BY <2>1, NullAssumption
<1>8. ws.start = start /\ ws.sink = sink /\ ws.lastChunk = NULL
  BY Zenon
<1> HIDE DEF start, sink, x0, m0, ws
<1>9. /\ Consistent(g) /\ DOMAIN g.nodes = DOMAIN tdg.nodes \cup {start}
      /\ DOMAIN g.exits = DOMAIN tdg.exits \cup {<<m0, start>>}
  BY <1>5, GraphConsistent, NewNodeGraph
<1> HIDE DEF g
<1>10. /\ Consistent(tdg') /\ DOMAIN tdg'.nodes = DOMAIN tdg.nodes \cup F
       /\ DOMAIN tdg'.exits = DOMAIN tdg.exits \cup {<<m0, start>>}
  BY <1>1, <1>9, CleanNodeGraph
<1>11. /\ \A u \in Threads : nextNode'[u] >= nextNode[u]
       /\ start[2] < nextNode'[start[1]] /\ sink[2] < nextNode'[sink[1]]
  BY <1>1, <1>2, <1>3 DEF TypeOK
<1>12. /\ DOMAIN taskData' = DOMAIN taskData
       /\ \A x \in DOMAIN taskData : x # x0 => taskData'[x] = taskData[x]
       /\ taskData'[x0].node = taskData[x0].node /\ taskData'[x0].ws = ws
       /\ taskData'[x0].barrier = taskData[x0].barrier /\ taskData'[x0].sink = taskData[x0].sink
  BY <1>1, <1>4 DEF TaskData
<1>13. PointerInv'
  <2>1. pc'[t] # "arrive" /\ \A u \in Threads : u # t => cur'[u] = cur[u] /\ pc'[u] = pc[u]
    BY Zenon, <1>1, <1>4
  <2>2. \A x \in DOMAIN taskData : /\ taskData'[x].barrier = taskData[x].barrier
                                   /\ taskData'[x].sink = taskData[x].sink
    BY Zenon, <1>12
  <2> QED
    BY <1>1, <1>12, <2>1, <2>2, PointerStep
<1>14. /\ taskData'[x0].node \in Shared \cup F
       /\ \A m \in Pointers(taskData'[x0]) : m \in Shared \cup F \cup {NULL}
       /\ \A x \in DOMAIN taskData' : x # x0 => x \in DOMAIN taskData /\ taskData'[x] = taskData[x]
  BY <1>4, <1>5, <1>7, <1>8, <1>12, SharedIntro DEF Pointers, m0
<1>15. /\ finalNode' \in Shared \cup F \cup {NULL}
       /\ \A r \in DOMAIN parInfo' : /\ parInfo'[r].sink \in Shared \cup F \cup {NULL}
                                     /\ parInfo'[r].barrier \in Shared \cup F \cup {NULL}
       /\ \A m \in F : m \notin DOMAIN tdg.nodes /\ m[2] < nextNode'[m[1]]
  BY <1>1, <1>2, <1>3, <1>11, SharedIntro
<1>16. \A e \in DOMAIN tdg'.exits :
         e \in DOMAIN tdg.exits \/ (e[1] \in Shared \cup F /\ e[2] \in Shared \cup F)
  BY <1>5, <1>10
<1> HIDE DEF F
<1> QED
  BY Zenon, <1>5, <1>6, <1>10, <1>11, <1>13, <1>14, <1>15, <1>16, TaskStep

LEMMA ExtChunkGraph ==
  ASSUME TypeOK, TypeOK', LifetimeInv, GraphInv, NEW t \in Threads, NEW last \in BOOLEAN,
         CbExtChunk(t, last)
  PROVE  GraphInv'
<1> DEFINE n  == NewNode(t, 1)
           F  == {n}
           x0 == cur[t]
           ws == taskData[x0].ws
           g  == CreateNewNode(tdg, n, "CHUNK_TASK", ws.start)
<1>1. InImplicitTask(t) /\ ws # NULL /\ UNCHANGED <<finalNode, parInfo, tasks, cur, pc>>
  BY Zenon DEF CbExtChunk
<1>2. \A x \in Task : Waits(x)' <=> Waits(x)
  BY <1>1 DEF Waits
<1>3. pc'[t] # "arrive" /\ \A u \in Threads : u # t => cur'[u] = cur[u] /\ pc'[u] = pc[u]
  BY <1>1 DEF InImplicitTask
<1>4. CASE last
  <2>1. UNCHANGED <<tdg, finalNode, taskData, parInfo, nextNode>>
    BY Zenon, <1>1, <1>4 DEF CbExtChunk
  <2> QED
    BY <1>2, <1>3, <2>1, QuietStep
<1>5. CASE ~last
  <2>1. /\ tdg' = ConnectNodes(g, n, ws.sink) /\ nextNode' = [nextNode EXCEPT ![t] = @ + 1]
        /\ taskData' = [taskData EXCEPT ![x0].ws.lastChunk = n]
    BY Zenon, <1>5 DEF CbExtChunk, Allocate
  <2>2. /\ n \in Node /\ n[1] = t /\ n[2] = nextNode[t] /\ nextNode[t] \in Nat
        /\ n \notin DOMAIN tdg.nodes
    BY FreshNode DEF TypeOK
  <2>3. x0 \in DOMAIN taskData /\ taskData[x0] \in TaskData /\ x0 # NULL /\ pc[t] = "run"
    BY Zenon, <1>1, CurrentImplicit, NullAssumption DEF TypeOK, InImplicitTask
  <2>4. ~Waits(x0) /\ taskData[x0].node \in Shared
    BY Zenon, <2>3, RunningNotWaiting, NodeLive
  <2>5. /\ ws \in WorksharingData /\ ws.start \in Shared /\ ws.start \in DOMAIN tdg.nodes
        /\ ws.sink \in Shared /\ ws.sink \in DOMAIN tdg.nodes
    BY <1>1, <2>3, LoopLive
  <2>6. /\ DOMAIN taskData' = DOMAIN taskData
        /\ \A x \in DOMAIN taskData : x # x0 => taskData'[x] = taskData[x]
        /\ taskData'[x0].node = taskData[x0].node
        /\ taskData'[x0].barrier = taskData[x0].barrier /\ taskData'[x0].sink = taskData[x0].sink
        /\ taskData'[x0].ws = [ws EXCEPT !.lastChunk = n]
    BY Zenon, <2>1, <2>3 DEF TaskData
  <2>7. /\ taskData'[x0].ws.start = ws.start /\ taskData'[x0].ws.sink = ws.sink
        /\ taskData'[x0].ws.lastChunk = n
    BY <2>5, <2>6 DEF WorksharingData
  <2> HIDE DEF n, x0, ws
  <2>8. /\ Consistent(g) /\ DOMAIN g.nodes = DOMAIN tdg.nodes \cup {n}
        /\ DOMAIN g.exits = DOMAIN tdg.exits \cup {<<ws.start, n>>}
    BY <2>5, GraphConsistent, NewNodeGraph
  <2> HIDE DEF g
  <2>9. /\ Consistent(tdg') /\ DOMAIN tdg'.nodes = DOMAIN tdg.nodes \cup F
        /\ DOMAIN tdg'.exits = DOMAIN tdg.exits \cup {<<ws.start, n>>, <<n, ws.sink>>}
    <3>1. PICK h, m, s : h = g /\ m = n /\ s = ws.sink
      BY Zenon
    <3>2. Consistent(h) /\ m \in DOMAIN h.nodes /\ s \in DOMAIN h.nodes
      BY <2>5, <2>8, <3>1
    <3>3. /\ Consistent(ConnectNodes(h, m, s))
          /\ DOMAIN ConnectNodes(h, m, s).nodes = DOMAIN h.nodes
          /\ DOMAIN ConnectNodes(h, m, s).exits = DOMAIN h.exits \cup {<<m, s>>}
      BY Zenon, <3>2, ConnectGraph
    <3> QED
      BY <2>1, <2>8, <3>1, <3>3
  <2>10. (\A u \in Threads : nextNode'[u] >= nextNode[u]) /\ n[2] < nextNode'[n[1]]
    BY SMT, Z3, <2>1, <2>2 DEF TypeOK
  <2>11. PointerInv'
    <3>1. \A x \in DOMAIN taskData : /\ taskData'[x].barrier = taskData[x].barrier
                                     /\ taskData'[x].sink = taskData[x].sink
      BY <2>6
    <3> QED
      BY <1>1, <1>3, <2>6, <3>1, PointerStep
  <2>12. /\ taskData'[x0].node \in Shared \cup F
         /\ \A m \in Pointers(taskData'[x0]) : m \in Shared \cup F \cup {NULL}
         /\ \A x \in DOMAIN taskData' : x # x0 => x \in DOMAIN taskData /\ taskData'[x] = taskData[x]
    BY <2>3, <2>4, <2>5, <2>6, <2>7, SharedIntro DEF Pointers
  <2>13. /\ finalNode' \in Shared \cup F \cup {NULL}
         /\ \A r \in DOMAIN parInfo' : /\ parInfo'[r].sink \in Shared \cup F \cup {NULL}
                                       /\ parInfo'[r].barrier \in Shared \cup F \cup {NULL}
         /\ \A m \in F : m \notin DOMAIN tdg.nodes /\ m[2] < nextNode'[m[1]]
    BY <1>1, <2>2, <2>10, SharedIntro
  <2>14. \A e \in DOMAIN tdg'.exits :
           e \in DOMAIN tdg.exits \/ (e[1] \in Shared \cup F /\ e[2] \in Shared \cup F)
    BY <2>5, <2>9
  <2> HIDE DEF F
  <2> QED
    BY Zenon, <1>2, <2>4, <2>9, <2>10, <2>11, <2>12, <2>13, <2>14, TaskStep
<1> QED
  BY <1>4, <1>5

LEMMA ExtLoopEndGraph ==
  ASSUME TypeOK, TypeOK', LifetimeInv, GraphInv, NEW t \in Threads, CbExtLoopEnd(t)
  PROVE  GraphInv'
<1> DEFINE F  == {}
           x0 == cur[t]
           ws == taskData[x0].ws
<1>1. /\ InImplicitTask(t) /\ ws # NULL /\ tdg' = LoopEndGraph(ws)
      /\ taskData' = [taskData EXCEPT ![x0].node = ws.sink, ![x0].ws = NULL]
      /\ UNCHANGED <<finalNode, parInfo, nextNode, tasks, cur, pc>>
  BY Zenon DEF CbExtLoopEnd
<1>2. \A x \in Task : Waits(x)' <=> Waits(x)
  BY <1>1 DEF Waits
<1>3. pc'[t] # "arrive" /\ \A u \in Threads : u # t => cur'[u] = cur[u] /\ pc'[u] = pc[u]
  BY Zenon, <1>1 DEF InImplicitTask
<1>4. x0 \in DOMAIN taskData /\ taskData[x0] \in TaskData /\ x0 # NULL /\ pc[t] = "run"
  BY <1>1, CurrentImplicit, NullAssumption DEF TypeOK, InImplicitTask
<1>5. ~Waits(x0)
  BY <1>4, RunningNotWaiting
<1>6. /\ ws \in WorksharingData /\ ws.start \in Shared /\ ws.start \in DOMAIN tdg.nodes
      /\ ws.sink \in Shared /\ ws.sink \in DOMAIN tdg.nodes
  BY <1>1, <1>4, LoopLive
<1>7. /\ DOMAIN taskData' = DOMAIN taskData
      /\ \A x \in DOMAIN taskData : x # x0 => taskData'[x] = taskData[x]
      /\ taskData'[x0].node = ws.sink /\ taskData'[x0].ws = NULL
      /\ taskData'[x0].barrier = taskData[x0].barrier /\ taskData'[x0].sink = taskData[x0].sink
  BY Zenon, <1>1, <1>4 DEF TaskData
<1> HIDE DEF x0, ws
<1>8. /\ Consistent(tdg') /\ DOMAIN tdg'.nodes = DOMAIN tdg.nodes
      /\ DOMAIN tdg'.exits \subseteq DOMAIN tdg.exits \cup {<<ws.start, ws.sink>>}
  <2>1. Consistent(tdg)
    BY GraphConsistent
  <2>2. tdg' = tdg \/ tdg' = ConnectNodes(tdg, ws.start, ws.sink)
    BY <1>1 DEF LoopEndGraph
  <2>3. PICK g, m, s : g = tdg /\ m = ws.start /\ s = ws.sink
    BY Zenon
  <2>4. LET h == ConnectNodes(g, m, s)
        IN  /\ Consistent(h) /\ DOMAIN h.nodes = DOMAIN g.nodes
            /\ DOMAIN h.exits = DOMAIN g.exits \cup {<<m, s>>}
    BY <1>6, <2>1, <2>3, ConnectGraph
  <2> QED
    BY <2>1, <2>2, <2>3, <2>4
<1>9. PointerInv'
  <2>1. \A x \in DOMAIN taskData : /\ taskData'[x].barrier = taskData[x].barrier
                                   /\ taskData'[x].sink = taskData[x].sink
    BY Zenon, <1>7
  <2> QED
    BY <1>1, <1>3, <1>7, <2>1, PointerStep
<1>10. /\ taskData'[x0].node \in Shared \cup F
       /\ \A m \in Pointers(taskData'[x0]) : m \in Shared \cup F \cup {NULL}
       /\ \A x \in DOMAIN taskData' : x # x0 => x \in DOMAIN taskData /\ taskData'[x] = taskData[x]
  BY Zenon, <1>4, <1>6, <1>7, SharedIntro DEF Pointers
<1>11. /\ finalNode' \in Shared \cup F \cup {NULL}
       /\ \A r \in DOMAIN parInfo' : /\ parInfo'[r].sink \in Shared \cup F \cup {NULL}
                                     /\ parInfo'[r].barrier \in Shared \cup F \cup {NULL}
       /\ \A m \in F : m \notin DOMAIN tdg.nodes /\ m[2] < nextNode'[m[1]]
       /\ \A u \in Threads : nextNode'[u] >= nextNode[u]
       /\ \A e \in DOMAIN tdg'.exits :
            e \in DOMAIN tdg.exits \/ (e[1] \in Shared \cup F /\ e[2] \in Shared \cup F)
       /\ DOMAIN tdg'.nodes = DOMAIN tdg.nodes \cup F
  BY <1>1, <1>6, <1>8, SharedIntro DEF TypeOK
<1> HIDE DEF F
<1> QED
  BY Zenon, <1>2, <1>5, <1>8, <1>9, <1>10, <1>11, TaskStep

LEMMA SyncRegionBeginGraph ==
  ASSUME TypeOK, TypeOK', LifetimeInv, GraphInv, NEW t \in Threads, NEW c, CbSyncRegionBegin(t, c)
  PROVE  GraphInv'
<1> DEFINE x0    == cur[t]
           r0    == x0[2]
           p0    == parInfo[r0]
           m0    == taskData[x0].node
           first == FirstAtBarrier(p0)
           b     == IF first THEN NewNode(t, 1) ELSE p0.barrier
<1>1. InImplicitTask(t) /\ UNCHANGED <<finalNode, tasks, cur>>
  BY Zenon DEF CbSyncRegionBegin
<1>2. /\ x0 \in DOMAIN taskData /\ taskData[x0] \in TaskData /\ x0 # NULL /\ pc[t] = "run"
      /\ x0 = Implicit(r0, t) /\ r0 \in DOMAIN parInfo /\ p0 \in ParallelRegionData
  BY Zenon, <1>1, CurrentImplicit, NullAssumption DEF TypeOK, InImplicitTask
<1>3. ~Waits(x0) /\ m0 \in Shared /\ m0 \in DOMAIN tdg.nodes /\ x0[1] = "implicit"
  BY Zenon, <1>1, <1>2, RunningNotWaiting, NodeLive DEF InImplicitTask
<1>4. p0.teamSize \in Nat /\ p0.cnt \in Nat /\ p0.barrier \in Node \cup {NULL}
  BY <1>2 DEF ParallelRegionData
<1>5. CASE ~(p0.teamSize > 1)
  <2>1. UNCHANGED <<tdg, taskData, parInfo, nextNode>> /\ pc' = [pc EXCEPT ![t] = "barrier"]
    BY Zenon, <1>5 DEF CbSyncRegionBegin
  <2>2. pc'[t] = "barrier" /\ \A u \in Threads : u # t => cur'[u] = cur[u] /\ pc'[u] = pc[u]
    BY Zenon, <1>1, <2>1 DEF TypeOK
  <2>3. taskData[x0].barrier = NULL
    BY <1>2, <1>3, <1>4, <1>5 DEF GraphInv, PointerInv
  <2>4. ASSUME NEW x \in Task, Waits(x)' PROVE Waits(x) \/ taskData[x].barrier = NULL
    <3>1. x[3] \in Threads
      BY DEF Task
    <3> QED
      BY Zenon, <1>1, <2>2, <2>3, <2>4, <3>1 DEF Waits
  <2> QED
    BY Zenon, <1>1, <2>1, <2>2, <2>4, QuietStep
<1>6. CASE p0.teamSize > 1
  <2> DEFINE F == IF first THEN {b} ELSE {}
  <2>1. /\ tdg' = IF first THEN CreateNewNode(tdg, b, "BARRIER", m0) ELSE ConnectNodes(tdg, m0, b)
        /\ nextNode' = [nextNode EXCEPT ![t] = @ + IF first THEN 1 ELSE 0]
        /\ parInfo' = [parInfo EXCEPT ![r0] = Arrived(p0, b)]
        /\ taskData' = [taskData EXCEPT ![x0].barrier = b] /\ pc' = [pc EXCEPT ![t] = "arrive"]
    BY <1>6 DEF CbSyncRegionBegin, Allocate
  <2>2. /\ b \in Node /\ b # NULL
        /\ first => b \notin DOMAIN tdg.nodes /\ b[1] = t /\ b[2] = nextNode[t]
        /\ ~first => b \in Shared /\ b \in DOMAIN tdg.nodes
    <3>1. CASE first
      BY <3>1, FreshNode, NullAssumption DEF TypeOK
    <3>2. CASE ~first
      <4>1. p0.barrier # NULL
        BY <1>2, <1>4, <3>2 DEF GraphInv, PointerInv, FirstAtBarrier
      <4>2. p0.barrier \in Shared
        BY Zenon, <1>2, SharedIntro
      <4> QED
        BY Zenon, <1>4, <3>2, <4>1, <4>2, SharedLive
    <3> QED
      BY Zenon, <3>1, <3>2
  <2>3. /\ pc'[t] = "arrive"
        /\ \A u \in Threads : u # t => cur'[u] = cur[u] /\ pc'[u] = pc[u]
    BY Zenon, <1>1, <2>1 DEF TypeOK
  <2>4. \A x \in Task : Waits(x)' <=> Waits(x)
    BY <1>1, <1>2, <2>3, WaitsFrame
  <2>5. /\ DOMAIN taskData' = DOMAIN taskData
        /\ \A x \in DOMAIN taskData : x # x0 => taskData'[x] = taskData[x]
        /\ taskData'[x0].node = m0 /\ taskData'[x0].ws = taskData[x0].ws
        /\ taskData'[x0].barrier = b /\ taskData'[x0].sink = taskData[x0].sink
    BY Zenon, <1>2, <2>1 DEF TaskData
  <2>6. /\ DOMAIN parInfo' = DOMAIN parInfo
        /\ \A r \in DOMAIN parInfo : r # r0 => parInfo'[r] = parInfo[r]
        /\ parInfo'[r0].sink = p0.sink /\ parInfo'[r0].barrier = b
        /\ parInfo'[r0].teamSize = p0.teamSize
    <3>1. parInfo'[r0] = Arrived(p0, b)
      BY <1>2, <2>1
    <3>2. Arrived(p0, b).sink = p0.sink /\ Arrived(p0, b).teamSize = p0.teamSize
          /\ Arrived(p0, b).barrier = b
      BY Zenon, <1>2, <2>2, ArrivedType
    <3> QED
      BY <1>2, <2>1, <3>1, <3>2
  <2> HIDE DEF b, first, m0, p0, r0, x0
  <2>7. /\ Consistent(tdg') /\ DOMAIN tdg'.nodes = DOMAIN tdg.nodes \cup F
        /\ DOMAIN tdg'.exits = DOMAIN tdg.exits \cup {<<m0, b>>}
    <3>1. PICK g, m, n : g = tdg /\ m = m0 /\ n = b
      BY Zenon
    <3>2. Consistent(g) /\ m \in DOMAIN g.nodes
      BY <1>3, <3>1, GraphConsistent
    <3>3. CASE first
      BY <2>1, <3>1, <3>2, <3>3, NewNodeGraph
    <3>4. CASE ~first
      BY <2>1, <2>2, <3>1, <3>2, <3>4, ConnectGraph
    <3> QED
      BY <3>3, <3>4
  <2>8. /\ \A u \in Threads : nextNode'[u] >= nextNode[u]
        /\ \A n \in F : n \notin DOMAIN tdg.nodes /\ n[2] < nextNode'[n[1]]
    BY <2>1, <2>2 DEF TypeOK
  <2>9. PointerInv'
    <3>1. PointerInv
      BY DEF GraphInv
    <3>2. ASSUME NEW u \in Threads, pc'[u] = "arrive" PROVE taskData'[cur'[u]].barrier # NULL
      <4>1. CASE u = t
        BY Zenon, <1>1, <2>2, <2>5, <4>1 DEF x0
      <4>2. CASE u # t
        <5>1. cur'[u] = cur[u] /\ pc[u] = "arrive"
          BY Zenon, <2>3, <3>2, <4>2
        <5>2. cur[u] \in DOMAIN taskData /\ cur[u] # NULL
          BY <5>1 DEF LifetimeInv, ThreadInv
        <5>3. cur[u] # x0
          BY Zenon, <4>2, <5>2, CurrentDistinct DEF x0
        <5> QED
          BY <2>5, <3>1, <5>1, <5>2, <5>3 DEF PointerInv
      <4> QED
        BY Zenon, <4>1, <4>2
    <3>3. ASSUME NEW x \in DOMAIN taskData', x[1] = "implicit"
          PROVE  /\ taskData'[x].sink # NULL
                 /\ x[2] \in DOMAIN parInfo' /\ parInfo'[x[2]].teamSize <= 1 =>
                      taskData'[x].barrier = NULL
      <4>1. \A r \in DOMAIN parInfo : parInfo'[r].teamSize = parInfo[r].teamSize
        BY Zenon, SMT, Z3, <2>6 DEF p0
      <4>2. CASE x = x0
        BY SMT, Z3, <1>2, <1>4, <1>6, <2>5, <2>6, <3>1, <3>3, <4>2 DEF PointerInv, r0, p0
      <4>3. CASE x # x0
        BY <2>5, <2>6, <3>1, <3>3, <4>1, <4>3 DEF PointerInv
      <4> QED
        BY <4>2, <4>3
    <3>4. ASSUME NEW r \in DOMAIN parInfo', parInfo'[r].cnt > 0 PROVE parInfo'[r].barrier # NULL
      BY <2>2, <2>6, <3>1, <3>4 DEF PointerInv
    <3> QED
      BY <3>2, <3>3, <3>4 DEF PointerInv
  <2>10. b \in Shared \cup F
    BY Zenon, <2>2
  <2>11. /\ taskData'[x0].node \in Shared \cup F
         /\ \A m \in Pointers(taskData'[x0]) : m \in Shared \cup F \cup {NULL}
         /\ \A x \in DOMAIN taskData' : x # x0 => x \in DOMAIN taskData /\ taskData'[x] = taskData[x]
    BY <1>2, <1>3, <2>5, <2>10, SharedIntro DEF Pointers
  <2>12. /\ finalNode' \in Shared \cup F \cup {NULL}
         /\ \A r \in DOMAIN parInfo' : /\ parInfo'[r].sink \in Shared \cup F \cup {NULL}
                                       /\ parInfo'[r].barrier \in Shared \cup F \cup {NULL}
    <3>1. finalNode' \in Shared
      BY Zenon, <1>1, SharedIntro
    <3>2. \A r \in DOMAIN parInfo : parInfo[r].sink \in Shared /\ parInfo[r].barrier \in Shared
      BY Zenon, SharedIntro
    <3>3. \A r \in DOMAIN parInfo' : parInfo'[r].sink = parInfo[r].sink
      BY Zenon, <2>6 DEF p0
    <3>4. \A r \in DOMAIN parInfo' : parInfo'[r].barrier = parInfo[r].barrier \/ parInfo'[r].barrier = b
      BY Zenon, <2>6
    <3> QED
      BY Zenon, <2>6, <2>10, <3>1, <3>2, <3>3, <3>4
  <2>13. \A e \in DOMAIN tdg'.exits :
           e \in DOMAIN tdg.exits \/ (e[1] \in Shared \cup F /\ e[2] \in Shared \cup F)
    BY <1>3, <2>7, <2>10
  <2> HIDE DEF F
  <2> QED
    BY Zenon, <1>3, <2>4, <2>7, <2>8, <2>9, <2>11, <2>12, <2>13, TaskStep
<1> QED
  BY <1>5, <1>6

LEMMA SyncRegionArriveGraph ==
  ASSUME TypeOK, TypeOK', LifetimeInv, GraphInv, NEW t \in Threads, CbSyncRegionArrive(t)
  PROVE  GraphInv'
<1>0. PICK x0 : x0 = cur[t]
  BY Zenon
<1> DEFINE b == taskData[x0].barrier
           n == NewNode(t, 1)
           F == {n}
           g == CreateNewNode(tdg, n, "IMP_TASK", b)
<1>1. /\ pc[t] = "arrive" /\ (tdg' = g \/ tdg' = ConnectNodes(g, b, n))
      /\ nextNode' = [nextNode EXCEPT ![t] = @ + 1]
      /\ taskData' = [taskData EXCEPT ![x0].node = n]
      /\ pc' = [pc EXCEPT ![t] = "barrier"]
      /\ UNCHANGED <<finalNode, parInfo, tasks, cur>>
  BY Zenon, <1>0 DEF CbSyncRegionArrive, Allocate
<1>2. /\ x0 \in DOMAIN taskData /\ taskData[x0] \in TaskData /\ x0 # NULL
      /\ x0 = Implicit(x0[2], t)
  BY <1>0, <1>1, CurrentImplicit, NullAssumption DEF TypeOK
<1>3. ~Waits(x0) /\ x0[1] = "implicit" /\ x0[3] = t
  BY <1>0, <1>1, <1>2, RunningNotWaiting DEF Implicit
<1>4. b # NULL /\ b \in Shared /\ b \in DOMAIN tdg.nodes
  <2>1. b # NULL
    BY Zenon, <1>0, <1>1 DEF GraphInv, PointerInv
  <2>2. b \in Shared
    BY Zenon, <1>2, SharedIntro DEF Pointers
  <2> QED
    BY Zenon, <2>1, <2>2, SharedLive
<1>5. n \in Node /\ n # NULL /\ n \notin DOMAIN tdg.nodes /\ n[1] = t /\ n[2] = nextNode[t]
  BY FreshNode, NullAssumption DEF TypeOK
<1>6. /\ pc'[t] = "barrier" /\ cur' = cur
      /\ \A u \in Threads : u # t => cur'[u] = cur[u] /\ pc'[u] = pc[u]
  BY <1>1 DEF TypeOK
<1>7. ASSUME NEW x \in Task, x # x0 PROVE Waits(x)' <=> Waits(x)
  <2>1. x[3] \in Threads
    BY Zenon DEF Task
  <2> QED
    BY <1>0, <1>1, <1>6, <1>7, <2>1 DEF Waits
<1>8. Waits(x0)'
  BY <1>0, <1>3, <1>6 DEF Waits
<1>9. /\ DOMAIN taskData' = DOMAIN taskData
      /\ \A x \in DOMAIN taskData : x # x0 => taskData'[x] = taskData[x]
      /\ taskData'[x0].node = n /\ taskData'[x0].ws = taskData[x0].ws
      /\ taskData'[x0].barrier = b /\ taskData'[x0].sink = taskData[x0].sink
  BY Zenon, <1>1, <1>2 DEF TaskData
<1> HIDE DEF g, n, b
<1>10. /\ Consistent(tdg') /\ DOMAIN tdg'.nodes = DOMAIN tdg.nodes \cup F
       /\ DOMAIN tdg'.exits = DOMAIN tdg.exits \cup {<<b, n>>}
  <2>1. PICK h, m, k : h = tdg /\ m = b /\ k = n
    BY Zenon
  <2>2. Consistent(h) /\ m \in DOMAIN h.nodes
    BY <1>4, <2>1, GraphConsistent
  <2>3. PICK i : i = CreateNewNode(h, k, "IMP_TASK", m)
    BY Zenon
  <2>4. /\ Consistent(i) /\ DOMAIN i.nodes = DOMAIN h.nodes \cup {k}
        /\ DOMAIN i.exits = DOMAIN h.exits \cup {<<m, k>>}
    BY <2>2, <2>3, NewNodeGraph
  <2>5. tdg' = i \/ tdg' = ConnectNodes(i, m, k)
    BY <1>1, <2>1, <2>3 DEF g
  <2>6. m \in DOMAIN i.nodes /\ k \in DOMAIN i.nodes
    BY Zenon, <2>2, <2>4
  <2>7. LET j == ConnectNodes(i, m, k)
        IN  /\ Consistent(j) /\ DOMAIN j.nodes = DOMAIN i.nodes
            /\ DOMAIN j.exits = DOMAIN i.exits \cup {<<m, k>>}
    BY <2>4, <2>6, ConnectGraph
  <2> QED
    BY <2>1, <2>4, <2>5, <2>7
<1>11. PointerInv'
  <2>1. \A x \in DOMAIN taskData : /\ taskData'[x].barrier = taskData[x].barrier
                                   /\ taskData'[x].sink = taskData[x].sink
    BY Zenon, <1>9 DEF b
  <2> QED
    BY <1>0, <1>1, <1>6, <1>9, <2>1, PointerStep
<1>12. DOMAIN taskData \subseteq Task /\ NULL \notin DOMAIN tdg.nodes
  BY Zenon, NullAssumption DEF TypeOK
<1>13. ASSUME NEW x \in DOMAIN taskData, x # x0 PROVE Private(x)' <=> Private(x)
  BY Zenon, <1>7, <1>9, <1>12, <1>13 DEF Private
<1>14. Private(x0)'
  BY Zenon, <1>2, <1>3, <1>4, <1>8, <1>9 DEF Private
<1>15. Shared' \subseteq Shared
  <2>1. ASSUME NEW x \in DOMAIN taskData', ~Private(x)' PROVE taskData'[x].node \in Shared
    BY <1>9, <1>13, <1>14, <2>1, SharedIntro
  <2>2. \A x \in DOMAIN taskData' : \A m \in Pointers(taskData'[x]) : m \in Shared
    BY <1>9, SharedIntro DEF Pointers, b
  <2>3. /\ \A r \in DOMAIN parInfo' : parInfo'[r].sink \in Shared /\ parInfo'[r].barrier \in Shared
        /\ finalNode' \in Shared
    BY Zenon, <1>1, SharedIntro
  <2> QED
    BY Zenon, <2>1, <2>2, <2>3, SharedStep
<1>16. n \notin Shared'
  BY Zenon, <1>5, <1>15, SharedLive
<1>17. ASSUME NEW e \in DOMAIN tdg'.exits, e[1] = n \/ e[2] = n PROVE e = <<b, n>>
  BY Zenon, <1>5, <1>10, <1>17 DEF GraphInv
<1>18. ASSUME NEW m \in DOMAIN tdg'.nodes PROVE m[2] < nextNode'[m[1]]
  <2>1. CASE m = n
    BY <1>1, <1>5, <2>1 DEF TypeOK
  <2>2. CASE m \in DOMAIN tdg.nodes
    <3>1. m \in Node /\ m[2] < nextNode[m[1]]
      BY <2>2 DEF TypeOK, GraphInv
    <3>2. m[1] \in Threads /\ m[2] \in Nat
      BY Zenon, <3>1 DEF Node
    <3> QED
      BY SMT, Z3, <1>1, <3>1, <3>2 DEF TypeOK
  <2> QED
    BY Zenon, <1>10, <2>1, <2>2
<1>19. /\ F \cap DOMAIN tdg.nodes = {}
       /\ \A m \in Shared' : m \in Shared \cup F \cup {NULL}
       /\ \A e \in DOMAIN tdg'.exits :
            e \in DOMAIN tdg.exits \/ (e[1] \in Shared \cup F /\ e[2] \in Shared \cup F)
  BY <1>4, <1>5, <1>10, <1>15
<1>20. GetsNode(x0, F)
  BY Zenon, <1>9, <1>16, <1>17 DEF GetsNode
<1>21. ASSUME NEW x \in DOMAIN taskData', Private(x)'
       PROVE  \/ /\ x \in DOMAIN taskData /\ Private(x) /\ taskData'[x].node = taskData[x].node
                 /\ taskData'[x].barrier = taskData[x].barrier
              \/ x = x0 /\ GetsNode(x, F)
  BY <1>9, <1>13, <1>20, <1>21
<1> HIDE DEF F
<1>22. FrameStep(F, x0)
  BY Zenon, <1>10, <1>12, <1>18, <1>19, <1>21 DEF FrameStep
<1> QED
  BY <1>11, <1>22, GraphFrame

LEMMA ImplicitTaskEndGraph ==
  ASSUME TypeOK, TypeOK', LifetimeInv, GraphInv, NEW t \in Threads, CbImplicitTaskEnd(t)
  PROVE  GraphInv'
<1> DEFINE x0 == cur[t]
           d  == taskData[x0]
<1>1. /\ pc[t] = "leave" /\ tdg' = JoinGraph(d) /\ taskData' = Drop(taskData, x0)
      /\ \/ pc' = [pc EXCEPT ![t] = "joined"] /\ UNCHANGED cur
         \/ pc' = [pc EXCEPT ![t] = "idle"] /\ cur' = [cur EXCEPT ![t] = NULL]
      /\ UNCHANGED <<finalNode, parInfo, nextNode, tasks>>
  BY DEF CbImplicitTaskEnd
<1>2. ThreadInv(t)
  BY Zenon DEF LifetimeInv
<1>3. /\ x0 # NULL /\ x0 \in DOMAIN taskData /\ x0[1] = "implicit" /\ x0[3] = t
      /\ d \in TaskData
  BY Zenon, <1>1, <1>2 DEF ThreadInv, Executor, TypeOK
<1>4. /\ pc'[t] \in {"joined", "idle"} /\ cur'[t] \in {x0, NULL}
      /\ \A u \in Threads : u # t => cur'[u] = cur[u] /\ pc'[u] = pc[u]
  BY Zenon, <1>1 DEF TypeOK
<1>5. ASSUME NEW x \in Task, x # x0 PROVE Waits(x)' <=> Waits(x)
  <2>1. x[3] \in Threads
    BY DEF Task
  <2> QED
    BY <1>1, <1>4, <1>5, <2>1 DEF Waits
<1>6. /\ DOMAIN taskData' = DOMAIN taskData \ {x0}
      /\ \A x \in DOMAIN taskData' : taskData'[x] = taskData[x]
  BY Zenon, <1>1 DEF Drop
<1>7. DOMAIN taskData \subseteq Task /\ NULL \notin DOMAIN tdg.nodes
  BY Zenon, NullAssumption DEF TypeOK
<1>8. ASSUME NEW x \in DOMAIN taskData' PROVE Private(x)' <=> Private(x)
  BY Zenon, <1>5, <1>6, <1>7, <1>8 DEF Private
<1>9. PointerInv'
  <2>1. \A r \in DOMAIN parInfo' : r \in DOMAIN parInfo /\ parInfo'[r] = parInfo[r]
    BY Zenon, <1>1
  <2> QED
    BY <1>4, <1>6, <2>1, PointerStep
<1>10. d.sink \in Shared /\ d.sink # NULL /\ d.sink \in DOMAIN tdg.nodes
  <2>1. d.sink # NULL
    BY Zenon, <1>3 DEF GraphInv, PointerInv
  <2>2. d.sink \in Shared
    BY Zenon, <1>3, SharedIntro DEF Pointers
  <2> QED
    BY Zenon, <2>1, <2>2, SharedLive
<1>11. Shared' \subseteq Shared
  <2>1. ASSUME NEW x \in DOMAIN taskData', ~Private(x)' PROVE taskData'[x].node \in Shared
    BY Zenon, <1>6, <1>8, <2>1, SharedIntro
  <2>2. \A x \in DOMAIN taskData' : \A m \in Pointers(taskData'[x]) : m \in Shared
    BY Zenon, <1>6, SharedIntro
  <2>3. /\ \A r \in DOMAIN parInfo' : parInfo'[r].sink \in Shared /\ parInfo'[r].barrier \in Shared
        /\ finalNode' \in Shared
    BY <1>1, SharedIntro
  <2> QED
    BY Zenon, <2>1, <2>2, <2>3, SharedStep
<1>12. PICK h, m, s, b : h = tdg /\ m = d.node /\ s = d.sink /\ b = d.barrier
  BY Zenon
<1>13. Consistent(h) /\ s \in DOMAIN h.nodes
  BY <1>10, <1>12, GraphConsistent
<1>14. CASE b = NULL
  <2>1. tdg' = ConnectNodes(h, m, s) /\ ~Private(x0)
    BY Zenon, <1>1, <1>12, <1>14 DEF JoinGraph, Private
  <2>2. m \in Shared /\ m \in DOMAIN h.nodes
    <3>1. m \in Shared /\ m # NULL
      BY Zenon, <1>3, <1>12, <2>1, SharedIntro, NullAssumption DEF TaskData
    <3> QED
      BY Zenon, <1>12, <3>1, SharedLive
  <2>3. /\ Consistent(tdg') /\ DOMAIN tdg'.nodes = DOMAIN tdg.nodes
        /\ DOMAIN tdg'.exits = DOMAIN tdg.exits \cup {<<m, s>>}
    <3>1. PICK g : g = ConnectNodes(h, m, s)
      BY Zenon
    <3>2. /\ Consistent(g) /\ DOMAIN g.nodes = DOMAIN h.nodes
          /\ DOMAIN g.exits = DOMAIN h.exits \cup {<<m, s>>}
      BY SMT, Z3, <1>13, <2>2, <3>1, ConnectGraph
    <3> QED
      BY Zenon, <1>12, <2>1, <3>1, <3>2
  <2> DEFINE F == {}
  <2>4. /\ F \cap DOMAIN tdg.nodes = {} /\ DOMAIN tdg'.nodes = DOMAIN tdg.nodes \cup F
        /\ \A k \in Shared' : k \in Shared \cup F \cup {NULL}
        /\ \A e \in DOMAIN tdg'.exits :
             e \in DOMAIN tdg.exits \/ (e[1] \in Shared \cup F /\ e[2] \in Shared \cup F)
        /\ \A k \in DOMAIN tdg'.nodes : k[2] < nextNode'[k[1]]
    <3>1. \A k \in DOMAIN tdg'.nodes : k[2] < nextNode'[k[1]]
      BY Zenon, <1>1, <2>3 DEF GraphInv
    <3>2. s \in Shared
      BY Zenon, <1>10, <1>12
    <3> QED
      BY <1>11, <2>2, <2>3, <3>1, <3>2
  <2>5. ASSUME NEW x \in DOMAIN taskData', Private(x)'
        PROVE  /\ x \in DOMAIN taskData /\ Private(x) /\ taskData'[x].node = taskData[x].node
               /\ taskData'[x].barrier = taskData[x].barrier
    BY <1>6, <1>8, <2>5
  <2> HIDE DEF F
  <2>6. FrameStep(F, NULL)
    BY Zenon, <1>7, <2>3, <2>4, <2>5 DEF FrameStep
  <2> QED
    BY <1>9, <2>6, GraphFrame
<1>15. CASE b # NULL
  <2>1. Private(x0)
    BY Zenon, <1>1, <1>3, <1>12, <1>15 DEF Private, Waits
  <2>2. /\ m \in DOMAIN tdg.nodes /\ m \notin Shared
        /\ \A y \in DOMAIN taskData : Private(y) /\ y # x0 => taskData[y].node # m
        /\ \A e \in DOMAIN h.exits : e[1] = m \/ e[2] = m => e = <<b, m>>
    BY <1>3, <1>12, <2>1, PrivateNode
  <2>3. b \in Shared /\ b \in DOMAIN tdg.nodes
    <3>1. b \in Shared
      BY <1>3, <1>12, SharedIntro DEF Pointers
    <3> QED
      BY Zenon, <1>15, <3>1, SharedLive
  <2>4. PICK g : g = DeleteNode(DisconnectNodes(h, b, m), m)
    BY Zenon
  <2>5. /\ Consistent(g) /\ DOMAIN g.nodes = DOMAIN h.nodes \ {m}
        /\ DOMAIN g.exits \subseteq DOMAIN h.exits
    BY <1>13, <2>2, <2>4, RemoveGraph
  <2>6. tdg' = g \/ tdg' = ConnectNodes(g, b, s)
    BY Zenon, <1>1, <1>12, <1>15, <2>4 DEF JoinGraph
  <2>7. b \in DOMAIN g.nodes /\ s \in DOMAIN g.nodes
    BY Zenon, <1>10, <1>12, <2>2, <2>3, <2>5
  <2>8. LET k == ConnectNodes(g, b, s)
        IN  /\ Consistent(k) /\ DOMAIN k.nodes = DOMAIN g.nodes
            /\ DOMAIN k.exits = DOMAIN g.exits \cup {<<b, s>>}
    BY SMT, Z3, <2>5, <2>7, ConnectGraph
  <2>9. /\ Consistent(tdg') /\ DOMAIN tdg'.nodes = DOMAIN tdg.nodes \ {m}
        /\ \A e \in DOMAIN tdg'.exits : e \in DOMAIN tdg.exits \/ e = <<b, s>>
    BY <1>12, <2>5, <2>6, <2>8
  <2>10. EdgesMirrored' /\ DOMAIN tdg'.exits \subseteq (DOMAIN tdg'.nodes) \X (DOMAIN tdg'.nodes)
    BY Zenon, <2>9 DEF Consistent, EdgesMirrored
  <2>11. \A n \in DOMAIN tdg'.nodes : n[2] < nextNode'[n[1]]
    BY <1>1, <2>9 DEF GraphInv
  <2>12. Shared' \subseteq DOMAIN tdg'.nodes \cup {NULL}
    BY Zenon, <1>11, <2>2, <2>9 DEF GraphInv
  <2>13. ASSUME NEW x \in DOMAIN taskData', Private(x)' PROVE PrivateInv(x)'
    <3> DEFINE n == taskData[x].node
    <3>1. x \in DOMAIN taskData /\ Private(x) /\ taskData'[x] = taskData[x] /\ x # x0
      BY <1>6, <1>8, <2>13
    <3>2. /\ n \in DOMAIN tdg.nodes /\ n \notin Shared
          /\ \A y \in DOMAIN taskData : Private(y) /\ y # x => taskData[y].node # n
          /\ \A e \in DOMAIN tdg.exits : e[1] = n \/ e[2] = n => e = <<taskData[x].barrier, n>>
      BY Zenon, <3>1, PrivateNode
    <3>3. n \in DOMAIN tdg'.nodes \ Shared'
      BY Zenon, <1>11, <2>2, <2>9, <3>1, <3>2
    <3>4. \A y \in DOMAIN taskData' : Private(y)' /\ y # x => taskData'[y].node # n
      BY <1>6, <1>8, <3>2
    <3>5. n # b /\ n # s
      BY Zenon, <1>10, <1>12, <2>3, <3>2
    <3> HIDE DEF n
    <3>6. \A e \in DOMAIN tdg'.exits : e[1] = n \/ e[2] = n => e = <<taskData[x].barrier, n>>
      BY SMT, Z3, <2>9, <3>2, <3>5
    <3> QED
      BY Zenon, <3>1, <3>3, <3>4, <3>6 DEF PrivateInv, n
  <2> QED
    BY Zenon, <1>9, <2>10, <2>11, <2>12, <2>13 DEF GraphInv
<1> QED
  BY Zenon, <1>14, <1>15

-----------------------------------------------------------------------------

LEMMA InitGraph == Init => GraphInv
<1> SUFFICES ASSUME Init PROVE GraphInv
  BY Zenon
<1>1. /\ DOMAIN tdg.nodes = {} /\ DOMAIN tdg.exits = {} /\ tdg.exits = tdg.entries
      /\ finalNode = NULL /\ DOMAIN taskData = {} /\ DOMAIN parInfo = {}
      /\ \A t \in Threads : pc[t] = "down"
  BY Zenon DEF Init, EmptyGraph, EmptyFcn
<1>2. Shared \subseteq {NULL}
  BY SMT, <1>1 DEF Shared
<1> QED
  BY <1>1, <1>2 DEF GraphInv, PointerInv, EdgesMirrored

LEMMA GraphStep ==
  ASSUME TypeOK, TypeOK', LifetimeInv, GraphInv, [Next]_vars
  PROVE  GraphInv'
<1>1. ASSUME NEW t \in Threads, Step(t) PROVE GraphInv'
  BY <1>1, ThreadGraph, TaskCreateInitialGraph, ParallelBeginGraph, ImplicitTaskBeginGraph,
     ImplicitTaskEndGraph, ParallelEndGraph, SyncRegionBeginGraph, SyncRegionArriveGraph,
     SyncRegionEndGraph, ExtLoopBeginGraph, ExtChunkGraph, ExtLoopEndGraph,
     TaskCreateExplicitGraph, TaskScheduleStartGraph, TaskScheduleEndGraph
  DEF Step
<1>2. CASE UNCHANGED vars
  <2>1. UNCHANGED <<tdg, finalNode, taskData, parInfo, nextNode, tasks, cur, pc>>
    BY <1>2 DEF vars, toolVars, runtimeVars
  <2>2. \A x : Private(x)' <=> Private(x)
    BY Zenon, <2>1 DEF Private, Waits
  <2>3. Shared' \subseteq Shared
    BY <2>1, <2>2, SharedIntro, SharedStep
  <2>4. \A x : PrivateInv(x) => PrivateInv(x)'
    BY Zenon, <2>1, <2>2, <2>3 DEF PrivateInv
  <2>5. PointerInv => PointerInv'
    BY Zenon, <2>1 DEF PointerInv
  <2> QED
    BY Zenon, <2>1, <2>2, <2>3, <2>4, <2>5 DEF GraphInv, EdgesMirrored
<1> QED
  BY Zenon, <1>1, <1>2 DEF Next, Terminated

\* What GraphInv says of every pointer, private nodes included.
LEMMA GraphInvImplies ==
  ASSUME GraphInv
  PROVE  NoDangling
<1>1. ASSUME NEW n \in Held PROVE n \in DOMAIN tdg.nodes \cup {NULL}
  <2>1. \/ \E x \in DOMAIN taskData : n = taskData[x].node \/ n \in Pointers(taskData[x])
        \/ \E r \in DOMAIN parInfo : n \in {parInfo[r].sink, parInfo[r].barrier}
        \/ n = finalNode
    BY SMT, <1>1 DEF Held, Pointers
  <2>2. ASSUME NEW x \in DOMAIN taskData, n = taskData[x].node, Private(x)
        PROVE  n \in DOMAIN tdg.nodes
    BY Zenon, <2>2, PrivateNode
  <2>3. n \in Shared \/ n \in DOMAIN tdg.nodes
    BY Zenon, <2>1, <2>2, SharedIntro
  <2> QED
    BY Zenon, <2>3, SharedLive
<1>2. DOMAIN tdg.entries = DOMAIN tdg.exits
  BY Zenon DEF GraphInv, EdgesMirrored
<1>3. \A e \in DOMAIN tdg.exits : e[1] \in DOMAIN tdg.nodes /\ e[2] \in DOMAIN tdg.nodes
  BY DEF GraphInv
<1> QED
  BY <1>1, <1>2, <1>3 DEF NoDangling
=============================================================================
