--------------------------- MODULE CallbacksProofs --------------------------
(***************************************************************************)
(* Proofs about Callbacks, part 2: the other callbacks keep LifetimeInv;   *)
(* what a step has to show in order to keep GraphInv.                      *)
(***************************************************************************)
EXTENDS CallbacksTypes


\* A thread begins, or has begun, the next construct of its region: at most
\* the end of that region's script and the thread's own position change.
ConstructStep(t) ==
  /\ regions' \in Seq(Region) /\ DOMAIN regions' = DOMAIN regions
  /\ \A i \in DOMAIN regions :
       /\ regions'[i].team = regions[i].team
       /\ regions'[i].thread = regions[i].thread
       /\ regions'[i].parent = regions[i].parent
       /\ \/ regions'[i].script = regions[i].script
          \/ /\ i = cur[t][2] /\ ~(reached[cur[t]] < Len(regions[i].script))
             /\ \E c \in Construct : regions'[i].script = Append(regions[i].script, c)
  /\ reached' = reached \/ reached' = [reached EXCEPT ![cur[t]] = reached[cur[t]] + 1]
  /\ reached'[cur[t]] <= Len(regions'[cur[t][2]].script)
  /\ DOMAIN parInfo' = DOMAIN parInfo /\ tasks' = tasks

LEMMA ConstructFrame ==
  ASSUME TypeOK, LifetimeInv, NEW t \in Threads, pc[t] = "arrive" \/ InImplicitTask(t),
         ConstructStep(t)
  PROVE  /\ \A x : InUse(x) => InUse(x)'
         /\ \A x : Executor(x)' = Executor(x)
         /\ \A x \in DOMAIN reached : x # cur[t] => (AtJoin(x)' <=> AtJoin(x))
         /\ \A x \in DOMAIN reached : x # cur[t] /\ AllArrived(x) => AllArrived(x)'
         /\ \A x \in DOMAIN reached' : ReachedInv(x)'
         /\ \A r \in DOMAIN regions : \A i \in DOMAIN regions'[r].script :
              regions'[r].script[i] = "join" => i = Len(regions'[r].script)
<1> DEFINE c0 == cur[t]
<1>1. /\ c0 \in DOMAIN reached /\ reached[c0] \in Nat /\ c0[2] \in DOMAIN regions
      /\ c0 = Implicit(c0[2], t) /\ ~AtJoin(c0)
  BY CurrentImplicit
<1>2. \A x \in DOMAIN reached : ReachedInv(x) /\ reached[x] \in Nat
  BY DEF LifetimeInv, TypeOK
<1>3. DOMAIN reached' = DOMAIN reached
  BY DEF ConstructStep
<1>4. \A x \in DOMAIN reached : reached'[x] \in Nat /\ reached'[x] >= reached[x]
                                /\ (x # c0 => reached'[x] = reached[x])
  BY <1>1, <1>2 DEF ConstructStep
<1>5. ASSUME NEW r \in DOMAIN regions
      PROVE  /\ regions[r].script \in Seq(Construct) /\ regions'[r].script \in Seq(Construct)
             /\ regions[r].team = regions'[r].team /\ regions[r].thread = regions'[r].thread
  <2>1. regions[r] \in Region /\ regions'[r] \in Region
    BY DEF TypeOK, ConstructStep
  <2> QED
    BY <2>1 DEF Region, ConstructStep
<1>6. ASSUME NEW r \in DOMAIN regions
      PROVE  /\ Len(regions'[r].script) >= Len(regions[r].script)
             /\ \A i \in 1..Len(regions[r].script) :
                  regions'[r].script[i] = regions[r].script[i]
  <2>1. CASE regions'[r].script = regions[r].script
    BY <1>5, <2>1
  <2>2. CASE \E c \in Construct : regions'[r].script = Append(regions[r].script, c)
    BY <1>5, <2>2
  <2> QED
    BY Zenon, <2>1, <2>2 DEF ConstructStep
<1>7. \A x : InUse(x) => InUse(x)'
  BY <1>2, <1>3, <1>5 DEF InUse, Started, ReachedInv, ConstructStep
<1>8. \A x : Executor(x)' = Executor(x)
  BY DEF Executor, ConstructStep
<1>9. ASSUME NEW x \in DOMAIN reached, x # c0
      PROVE  AtJoin(x)' <=> AtJoin(x)
  <2> DEFINE old == regions[x[2]].script
             new == regions'[x[2]].script
  <2>1. /\ x[2] \in DOMAIN regions /\ reached[x] \in Nat /\ reached[x] <= Len(old)
        /\ reached'[x] = reached[x]
    BY <1>2, <1>4, <1>9 DEF ReachedInv
  <2>2. old \in Seq(Construct) /\ new \in Seq(Construct) /\ Len(new) >= Len(old)
        /\ \A i \in 1..Len(old) : new[i] = old[i]
    BY <1>5, <1>6, <2>1
  <2>3. AtJoin(x) <=> reached[x] \in DOMAIN old /\ old[reached[x]] = "join"
    BY DEF AtJoin
  <2>4. AtJoin(x)' <=> reached'[x] \in DOMAIN new /\ new[reached'[x]] = "join"
    BY DEF AtJoin
  <2> HIDE DEF old, new
  <2> QED
    BY <2>1, <2>2, <2>3, <2>4
<1>10. ASSUME NEW x \in DOMAIN reached, x # c0, AllArrived(x)
       PROVE  AllArrived(x)'
  <2>1. x[2] \in DOMAIN regions /\ regions'[x[2]].team = regions[x[2]].team
        /\ reached'[x] = reached[x] /\ reached[x] \in Nat
    BY <1>2, <1>4, <1>5, <1>10 DEF ReachedInv
  <2>2. ASSUME NEW u \in regions[x[2]].team
        PROVE  /\ Implicit(x[2], u) \in DOMAIN reached'
               /\ reached'[Implicit(x[2], u)] >= reached'[x]
    <3>1. Implicit(x[2], u) \in DOMAIN reached /\ reached[Implicit(x[2], u)] >= reached[x]
      BY <1>10 DEF AllArrived
    <3> QED
      BY <1>2, <1>3, <1>4, <2>1, <3>1
  <2> QED
    BY <2>1, <2>2 DEF AllArrived, Implicit
<1>11. ASSUME NEW x \in DOMAIN reached'
       PROVE  ReachedInv(x)'
  <2>1. /\ x \in DOMAIN reached /\ x = Implicit(x[2], x[3]) /\ x[2] \in DOMAIN regions
        /\ x[3] \in regions[x[2]].team /\ reached[x] <= Len(regions[x[2]].script)
    BY <1>2, <1>3 DEF ReachedInv
  <2>2. reached'[x] <= Len(regions'[x[2]].script)
    <3>1. CASE x = c0
      BY <3>1 DEF ConstructStep
    <3>2. CASE x # c0
      BY <1>2, <1>4, <1>5, <1>6, <2>1, <3>2
    <3> QED
      BY <3>1, <3>2
  <2> QED
    BY <1>5, <2>1, <2>2 DEF ReachedInv, Implicit, ConstructStep
<1>12. ASSUME NEW r \in DOMAIN regions, NEW i \in DOMAIN regions'[r].script,
              regions'[r].script[i] = "join"
       PROVE  i = Len(regions'[r].script)
  <2>1. \A j \in DOMAIN regions[r].script :
          regions[r].script[j] = "join" => j = Len(regions[r].script)
    BY DEF LifetimeInv, RegionInv
  <2>2. CASE regions'[r].script = regions[r].script
    BY <1>12, <2>1, <2>2
  <2>3. CASE regions'[r].script # regions[r].script
    <3>1. r = c0[2] /\ ~(reached[c0] < Len(regions[r].script))
      BY <2>3 DEF ConstructStep
    <3>2. PICK c \in Construct : regions'[r].script = Append(regions[r].script, c)
      BY <2>3 DEF ConstructStep
    <3>3. reached[c0] = Len(regions[r].script)
      BY SMT, Z3, <1>1, <1>2, <1>5, <3>1 DEF ReachedInv
    <3>4. \A j \in DOMAIN regions[r].script : regions[r].script[j] # "join"
      BY <1>1, <1>5, <2>1, <3>1, <3>3 DEF AtJoin
    <3> QED
      BY <1>5, <1>12, <3>2, <3>4
  <2> QED
    BY <2>2, <2>3
<1> QED
  BY <1>7, <1>8, <1>9, <1>10, <1>11, <1>12

\* What the steps of barriers and loops do besides ConstructStep.
ConstructOutcome(t) ==
  /\ DOMAIN threadData' = DOMAIN threadData /\ cur' = cur
  /\ \A u \in Threads : u # t => pc'[u] = pc[u]
  /\ pc'[t] \in {"run", "arrive", "barrier"}
  /\ pc'[t] # "barrier" => ~AtJoin(cur[t])'
  /\ pc'[t] = "arrive" => reached'[cur[t]] < Len(regions'[cur[t][2]].script)
  /\ DOMAIN taskData' = DOMAIN taskData
  /\ \A x \in DOMAIN taskData : taskData'[x].threadNum = taskData[x].threadNum
  /\ \A r \in DOMAIN parInfo : parInfo'[r].parent = parInfo[r].parent
  /\ \A u \in Threads : nextNode'[u] \in Nat /\ nextNode'[u] >= nextNode[u]

LEMMA ConstructInv ==
  ASSUME TypeOK, LifetimeInv, NEW t \in Threads, pc[t] = "arrive" \/ InImplicitTask(t),
         ConstructStep(t), ConstructOutcome(t)
  PROVE  LifetimeInv'
<1> DEFINE x0 == cur[t]
<1>1. x0 \in DOMAIN taskData /\ x0 \in DOMAIN reached /\ ~AtJoin(x0) /\ x0 # NULL
      /\ x0[1] = "implicit"
  BY CurrentImplicit, NullAssumption DEF TypeOK, Implicit
<1>2. pc[t] \in {"run", "arrive"}
  BY DEF InImplicitTask
<1>3. /\ \A x : InUse(x) => InUse(x)'
      /\ \A x : Executor(x)' = Executor(x)
      /\ \A x \in DOMAIN reached : x # x0 => (AtJoin(x)' <=> AtJoin(x))
      /\ \A x \in DOMAIN reached : x # x0 /\ AllArrived(x) => AllArrived(x)'
  BY Zenon, ConstructFrame
<1>4. \A x : InUse(x) /\ x # x0 /\ InUserCode(x) => InUserCode(x)'
  BY Zenon, <1>3 DEF InUse, InUserCode
<1>5. \A u \in Threads : u # t => cur[u] # x0
  BY <1>1, CurrentDistinct
<1>6. \A r \in DOMAIN parInfo : regions[r].parent # x0
  BY <1>2 DEF LifetimeInv, ExclusiveInv
<1>7. \A y \in DOMAIN tasks : tasks[y].resume # NULL => tasks[y].resume.task # x0
  BY DEF LifetimeInv, ExclusiveInv
<1>8. \A u \in Threads : cur'[u] = cur[u]
  BY Zenon DEF ConstructOutcome
<1>9. ASSUME NEW u \in Threads PROVE ThreadInv(u)'
  <2>1. ThreadInv(u)
    BY DEF LifetimeInv
  <2>2. CASE u = t
    <3>1. InUse(x0) /\ Executor(x0) = t /\ t \in DOMAIN threadData
      BY Zenon, <1>1, <1>2, <2>1, <2>2 DEF ThreadInv
    <3>2. InUse(cur[u])' /\ Executor(cur[u])' = t
      BY Zenon, <1>3, <1>8, <2>2, <3>1
    <3> QED
      BY Zenon, <1>1, <1>2, <1>8, <2>1, <2>2, <3>1, <3>2 DEF ThreadInv, ConstructOutcome, InUserCode
  <2>3. CASE u # t
    <3>1. pc'[u] = pc[u] /\ cur'[u] = cur[u] /\ cur[u] # x0
      BY Zenon, <1>5, <1>8, <2>3 DEF ConstructOutcome
    <3>2. PICK x : x = cur[u]
      OBVIOUS
    <3>3. pc[u] \in {"arrive", "wake", "leave", "joined"} => x \in DOMAIN reached
      BY Zenon, <2>1, <3>2 DEF ThreadInv, InUse
    <3>4. /\ pc[u] \in {"leave", "joined"} => AtJoin(x)'
          /\ pc[u] \in {"wake", "leave", "joined"} => AllArrived(x)'
      BY Zenon, <1>3, <2>1, <3>1, <3>2, <3>3 DEF ThreadInv
    <3>5. pc[u] = "arrive" \/ pc[u] = "joined" => x[2] \in DOMAIN regions
      BY <3>3 DEF LifetimeInv, ReachedInv
    <3>6. pc[u] = "arrive" => reached'[x] < Len(regions'[x[2]].script)
      <4> SUFFICES ASSUME pc[u] = "arrive" PROVE reached'[x] < Len(regions'[x[2]].script)
        OBVIOUS
      <4>1. x \in DOMAIN reached /\ x[2] \in DOMAIN regions /\ reached'[x] = reached[x]
        BY <3>1, <3>2, <3>3, <3>5 DEF ConstructStep
      <4>2. regions[x[2]] \in Region /\ reached[x] \in Nat
        BY <4>1 DEF TypeOK
      <4>3. regions[x[2]].script \in Seq(Construct)
        BY <4>2 DEF Region
      <4>4. Len(regions'[x[2]].script) >= Len(regions[x[2]].script)
        BY <4>1, <4>3 DEF ConstructStep
      <4>5. reached[x] < Len(regions[x[2]].script)
        BY Zenon, <2>1, <3>2 DEF ThreadInv
      <4>6. Len(regions'[x[2]].script) \in Nat
        BY <4>1, <4>3 DEF ConstructStep
      <4> QED
        BY <4>1, <4>2, <4>3, <4>4, <4>5, <4>6
    <3>7. /\ x # NULL => InUse(x)' /\ Executor(x)' = u
                         /\ (pc[u] # "joined" => x \in DOMAIN taskData')
          /\ pc[u] \in {"run", "fork", "arrive"} => InUserCode(x)'
      BY Zenon, <1>3, <1>4, <2>1, <3>1, <3>2 DEF ThreadInv, ConstructOutcome
    <3>8. pc[u] = "joined" => regions'[x[2]].thread = u
      BY Zenon, <2>1, <3>2, <3>5 DEF ThreadInv, ConstructStep
    <3>9. pc[u] \notin {"down", "ended"} => u \in DOMAIN threadData'
      BY Zenon, <2>1 DEF ThreadInv, ConstructOutcome
    <3> QED
      BY Zenon, <2>1, <3>1, <3>2, <3>4, <3>6, <3>7, <3>8, <3>9 DEF ThreadInv
  <2> QED
    BY <2>2, <2>3
<1>10. ASSUME NEW r \in DOMAIN regions' PROVE RegionInv(r)'
  <2>1. r \in DOMAIN regions /\ RegionInv(r)
    BY Zenon DEF LifetimeInv, ConstructStep
  <2>2. \A i \in DOMAIN regions'[r].script :
          regions'[r].script[i] = "join" => i = Len(regions'[r].script)
    BY <2>1, ConstructFrame
  <2>3. /\ regions'[r].team = regions[r].team /\ regions'[r].thread = regions[r].thread
        /\ regions'[r].parent = regions[r].parent /\ DOMAIN parInfo' = DOMAIN parInfo
    BY Zenon, <2>1 DEF ConstructStep
  <2>4. ASSUME r \in DOMAIN parInfo
        PROVE  (LET x == regions[r].parent IN
                /\ parInfo[r].parent = x
                /\ InUse(x) /\ InUserCode(x) /\ x \in DOMAIN taskData
                /\ Executor(x) = regions[r].thread)'
    <3>1. PICK x : x = regions[r].parent
      OBVIOUS
    <3>2. /\ InUse(x) /\ InUserCode(x) /\ x \in DOMAIN taskData /\ parInfo[r].parent = x
          /\ Executor(x) = regions[r].thread /\ x # x0
      BY Zenon, <1>6, <2>1, <2>4, <3>1 DEF RegionInv
    <3>3. /\ InUse(x)' /\ InUserCode(x)' /\ x \in DOMAIN taskData' /\ parInfo'[r].parent = x
          /\ Executor(x)' = regions'[r].thread
      BY Zenon, <1>3, <1>4, <2>3, <2>4, <3>2 DEF ConstructOutcome
    <3> QED
      BY Zenon, <2>3, <3>1, <3>3
  <2>5. ASSUME r \notin DOMAIN parInfo, NEW u \in regions[r].team
        PROVE  Implicit(r, u) \in DOMAIN reached' /\ AtJoin(Implicit(r, u))'
    <3>1. Implicit(r, u) \in DOMAIN reached /\ AtJoin(Implicit(r, u))
      BY Zenon, <2>1, <2>5 DEF RegionInv
    <3> QED
      BY Zenon, <1>1, <1>3, <3>1 DEF ConstructStep, Implicit
  <2> QED
    BY Zenon, <2>2, <2>3, <2>4, <2>5 DEF RegionInv, Implicit
<1>11. ASSUME NEW x \in DOMAIN reached' PROVE ReachedInv(x)'
  BY ConstructFrame
<1>12. ASSUME NEW x \in DOMAIN taskData' PROVE DataInv(x)'
  <2>1. x \in DOMAIN taskData /\ DataInv(x) /\ x \in Task
    BY DEF LifetimeInv, ConstructOutcome, TypeOK
  <2>2. x[1] = "implicit" => x \in DOMAIN reached'
                             /\ regions'[x[2]].thread = regions[x[2]].thread
    BY Zenon, <2>1 DEF DataInv, ConstructStep, LifetimeInv, ReachedInv
  <2>3. x[2] \in Nat /\ x[3] \in Threads /\ nextNode[x[3]] \in Nat
    BY <2>1 DEF Task, TypeOK
  <2> QED
    BY <2>1, <2>2, <2>3 DEF DataInv, ConstructOutcome
<1>13. ASSUME NEW y \in DOMAIN tasks' PROVE TaskInv(y)'
  <2>1. y \in DOMAIN tasks /\ TaskInv(y) /\ tasks' = tasks /\ DOMAIN taskData' = DOMAIN taskData
    BY Zenon DEF LifetimeInv, ConstructStep, ConstructOutcome
  <2> QED
    BY Zenon, <1>3, <1>4, <1>7, <2>1 DEF TaskInv
<1>14. ExclusiveInv'
  <2>1. \A r \in DOMAIN parInfo : regions'[r].parent = regions[r].parent
    BY DEF TypeOK, ConstructStep
  <2>2. DOMAIN parInfo' = DOMAIN parInfo /\ tasks' = tasks
    BY Zenon DEF ConstructStep
  <2>3. \A u \in Threads, r \in DOMAIN parInfo : cur'[u] = regions'[r].parent => pc'[u] = "fork"
    BY <1>6, <1>8, <2>1 DEF LifetimeInv, ExclusiveInv, ConstructOutcome
  <2>4. ExclusiveInv
    BY DEF LifetimeInv
  <2>5. /\ \A r, s \in DOMAIN parInfo : regions'[r].parent = regions'[s].parent => r = s
        /\ \A y \in DOMAIN tasks, r \in DOMAIN parInfo :
             tasks[y].resume # NULL => regions'[r].parent # tasks[y].resume.task
    BY <2>1, <2>4 DEF ExclusiveInv
  <2>6. \A y \in DOMAIN tasks, u \in Threads :
          tasks[y].resume # NULL => cur'[u] # tasks[y].resume.task
    BY <1>8, <2>4 DEF ExclusiveInv
  <2> QED
    BY Zenon, <2>2, <2>3, <2>4, <2>5, <2>6 DEF ExclusiveInv
<1> QED
  BY <1>9, <1>10, <1>11, <1>12, <1>13, <1>14 DEF LifetimeInv

\* Extending the script and staying, or moving on by one, is a ConstructStep.
LEMMA ExtendStep ==
  ASSUME TypeOK, LifetimeInv, NEW t \in Threads, InImplicitTask(t), NEW c \in Construct,
         MayBegin(t, c), regions' = Extend(t, c),
         reached' = reached \/ reached' = [reached EXCEPT ![cur[t]] = @ + 1],
         DOMAIN parInfo' = DOMAIN parInfo, tasks' = tasks
  PROVE  ConstructStep(t)
<1> DEFINE k == reached[cur[t]]
<1>1. k \in Nat /\ cur[t][2] \in DOMAIN regions /\ cur[t] \in DOMAIN reached
  BY Zenon, CurrentImplicit
<1>2. reached'[cur[t]] \in {k, k + 1}
  BY Zenon, <1>1 DEF TypeOK
<1>3. /\ regions' \in Seq(Region) /\ DOMAIN regions' = DOMAIN regions
      /\ \A i \in DOMAIN regions :
           /\ regions'[i].team = regions[i].team
           /\ regions'[i].thread = regions[i].thread
           /\ regions'[i].parent = regions[i].parent
           /\ \/ regions'[i].script = regions[i].script
              \/ /\ i = cur[t][2] /\ ~(k < Len(regions[i].script))
                 /\ regions'[i].script = Append(regions[i].script, c)
  BY <1>1, ExtendFact
<1>4. /\ regions'[cur[t][2]].script \in Seq(Construct)
      /\ k < Len(regions'[cur[t][2]].script)
  BY Zenon, ExtendNext
<1>5. reached'[cur[t]] <= Len(regions'[cur[t][2]].script)
  BY <1>1, <1>2, <1>4
<1> QED
  BY Zenon, <1>3, <1>5 DEF ConstructStep

LEMMA SyncRegionBeginStep ==
  ASSUME TypeOK, LifetimeInv, NEW t \in Threads, NEW c \in {"barrier", "join"},
         CbSyncRegionBegin(t, c)
  PROVE  LifetimeInv'
<1> DEFINE x0 == cur[t]
           r0 == x0[2]
<1>1. /\ InImplicitTask(t) /\ MayBegin(t, c) /\ regions' = Extend(t, c)
      /\ UNCHANGED <<finalNode, threadData, chunkInfo, tasks, chunksLeft, cur>>
  BY DEF CbSyncRegionBegin
<1>2. /\ x0 \in DOMAIN taskData /\ taskData[x0] \in TaskData
      /\ x0 \in DOMAIN reached /\ reached[x0] \in Nat
      /\ r0 \in DOMAIN parInfo /\ parInfo[r0] \in ParallelRegionData
      /\ ~AtJoin(x0)
  BY <1>1, CurrentImplicit
<1>3. /\ regions'[r0].script \in Seq(Construct)
      /\ reached[x0] < Len(regions'[r0].script)
      /\ \A i \in 1..reached[x0] : regions'[r0].script[i] = regions[r0].script[i]
  BY Zenon, <1>1, ExtendNext DEF Construct
<1>4. regions[r0] \in Region /\ reached[x0] <= Len(regions[r0].script)
  BY <1>2 DEF TypeOK, LifetimeInv, ReachedInv
<1>5. /\ DOMAIN taskData' = DOMAIN taskData
      /\ \A x \in DOMAIN taskData : taskData'[x].threadNum = taskData[x].threadNum
  <2>1. taskData' = taskData \/ \E b : taskData' = [taskData EXCEPT ![x0].barrier = b]
    BY Zenon DEF CbSyncRegionBegin
  <2>2. CASE taskData' = taskData
    BY <2>2
  <2>3. ASSUME NEW b, taskData' = [taskData EXCEPT ![x0].barrier = b]
        PROVE  /\ DOMAIN taskData' = DOMAIN taskData
               /\ \A x \in DOMAIN taskData : taskData'[x].threadNum = taskData[x].threadNum
    BY <1>2, <2>3 DEF TaskData
  <2> QED
    BY Zenon, <2>1, <2>2, <2>3
<1>6. /\ DOMAIN parInfo' = DOMAIN parInfo
      /\ \A r \in DOMAIN parInfo : parInfo'[r].parent = parInfo[r].parent
  <2>1. parInfo' = parInfo \/ \E b : parInfo' = [parInfo EXCEPT ![r0] = Arrived(@, b)]
    BY Zenon DEF CbSyncRegionBegin
  <2>2. \A b : Arrived(parInfo[r0], b).parent = parInfo[r0].parent
    BY <1>2 DEF ParallelRegionData, Arrived
  <2> QED
    BY Zenon, <1>2, <2>1, <2>2 DEF TypeOK
<1>7. \A u \in Threads : nextNode'[u] \in Nat /\ nextNode'[u] >= nextNode[u]
  <2>1. nextNode' = nextNode \/ \E k \in {0, 1} : nextNode' = [nextNode EXCEPT ![t] = @ + k]
    BY Zenon DEF CbSyncRegionBegin, Allocate
  <2> QED
    BY <2>1 DEF TypeOK
<1>8. \/ reached' = reached /\ pc' = [pc EXCEPT ![t] = "arrive"]
      \/ reached' = [reached EXCEPT ![x0] = @ + 1] /\ pc' = [pc EXCEPT ![t] = "barrier"]
  BY DEF CbSyncRegionBegin
<1>9. ConstructStep(t)
  BY <1>1, <1>6, <1>8, ExtendStep DEF Construct
<1>10. reached' = reached => ~AtJoin(cur[t])'
  <2> SUFFICES ASSUME reached' = reached, AtJoin(cur[t])' PROVE FALSE
    OBVIOUS
  <2>1. cur' = cur
    BY <1>1
  <2>2. regions[r0].script \in Seq(Construct)
    BY Zenon, <1>4 DEF Region
  <2>3. /\ reached[x0] \in DOMAIN regions'[r0].script
        /\ regions'[r0].script[reached[x0]] = "join"
    BY <2>1 DEF AtJoin
  <2> DEFINE k   == reached[x0]
             old == regions[r0].script
             new == regions'[r0].script
  <2>4. /\ k \in Nat /\ k <= Len(old) /\ \A i \in 1..k : new[i] = old[i]
        /\ old \in Seq(Construct) /\ new \in Seq(Construct)
        /\ k \in DOMAIN new /\ new[k] = "join"
    BY Zenon, <1>2, <1>3, <1>4, <2>2, <2>3
  <2>5. ~(k \in DOMAIN old /\ old[k] = "join")
    BY Zenon, <1>2 DEF AtJoin
  <2> HIDE DEF k, old, new
  <2> QED
    BY <2>4, <2>5
<1>11. ConstructOutcome(t)
  <2>1. CASE reached' = reached /\ pc' = [pc EXCEPT ![t] = "arrive"]
    BY Zenon, <1>1, <1>3, <1>5, <1>6, <1>7, <1>10, <2>1 DEF ConstructOutcome, TypeOK
  <2>2. CASE pc' = [pc EXCEPT ![t] = "barrier"]
    BY <1>1, <1>5, <1>6, <1>7, <2>2 DEF ConstructOutcome, TypeOK
  <2> QED
    BY Zenon, <1>8, <2>1, <2>2
<1> QED
  BY <1>1, <1>9, <1>11, ConstructInv

LEMMA SyncRegionArriveStep ==
  ASSUME TypeOK, LifetimeInv, NEW t \in Threads, CbSyncRegionArrive(t)
  PROVE  LifetimeInv'
<1> DEFINE x0 == cur[t]
<1>1. /\ pc[t] = "arrive" /\ pc' = [pc EXCEPT ![t] = "barrier"]
      /\ reached' = [reached EXCEPT ![x0] = @ + 1]
      /\ UNCHANGED <<finalNode, parInfo, threadData, chunkInfo, regions, tasks, chunksLeft, cur>>
  BY DEF CbSyncRegionArrive
<1>2. /\ x0 \in DOMAIN taskData /\ taskData[x0] \in TaskData
      /\ x0 \in DOMAIN reached /\ reached[x0] \in Nat /\ x0[2] \in DOMAIN regions
  BY <1>1, CurrentImplicit
<1>3. reached[x0] < Len(regions[x0[2]].script) /\ Len(regions[x0[2]].script) \in Nat
  <2>1. regions[x0[2]] \in Region
    BY <1>2 DEF TypeOK
  <2>2. regions[x0[2]].script \in Seq(Construct)
    BY <2>1 DEF Region
  <2>3. ThreadInv(t)
    BY DEF LifetimeInv
  <2>4. reached[x0] < Len(regions[x0[2]].script)
    BY Zenon, <1>1, <2>3 DEF ThreadInv
  <2> QED
    BY <2>2, <2>4
<1>4. ConstructStep(t)
  <2>1. reached'[x0] <= Len(regions[x0[2]].script)
    BY <1>1, <1>2, <1>3
  <2> QED
    BY <1>1, <2>1 DEF ConstructStep, TypeOK
<1>5. ConstructOutcome(t)
  <2>1. /\ DOMAIN taskData' = DOMAIN taskData
        /\ \A x \in DOMAIN taskData : taskData'[x].threadNum = taskData[x].threadNum
    BY <1>2 DEF CbSyncRegionArrive, TaskData, TypeOK
  <2>2. \A u \in Threads : nextNode'[u] \in Nat /\ nextNode'[u] >= nextNode[u]
    BY DEF CbSyncRegionArrive, Allocate, TypeOK
  <2> QED
    BY <1>1, <2>1, <2>2 DEF ConstructOutcome, TypeOK
<1> QED
  BY <1>1, <1>4, <1>5, ConstructInv

\* A thread gets on in cb_sync_region at the end of a barrier, or past it.
LEMMA BarrierEndStep ==
  ASSUME TypeOK, LifetimeInv, NEW t \in Threads, NEW l \in {"wake", "leave", "run"},
         pc[t] \in {"barrier", "wake"}, AllArrived(cur[t]),
         l = "leave" => AtJoin(cur[t]), l = "run" => ~AtJoin(cur[t]),
         pc' = [pc EXCEPT ![t] = l],
         UNCHANGED <<toolVars, regions, reached, tasks, chunksLeft, cur>>
  PROVE  LifetimeInv'
<1>1. UNCHANGED <<tdg, finalNode, taskData, parInfo, threadData, chunkInfo, nextNode,
                  regions, reached, tasks, chunksLeft, cur>>
  BY DEF toolVars
<1>2. ASSUME NEW u \in Threads PROVE ThreadInv(u)'
  <2>1. ThreadInv(u)
    BY Zenon DEF LifetimeInv
  <2>2. CASE u = t
    <3>1. pc'[u] = l
      BY <2>2 DEF TypeOK
    <3>2. CASE l = "wake"
      BY Zenon, <1>1, <2>1, <2>2, <3>1, <3>2, Frame DEF ThreadInv
    <3>3. CASE l = "leave"
      BY Zenon, <1>1, <2>1, <2>2, <3>1, <3>3, Frame DEF ThreadInv
    <3>4. CASE l = "run"
      BY Zenon, <1>1, <2>1, <2>2, <3>1, <3>4, Frame DEF ThreadInv, InUserCode
    <3> QED
      BY <3>2, <3>3, <3>4
  <2>3. CASE u # t
    BY <1>1, <2>1, <2>3, Frame DEF ThreadInv, TypeOK
  <2> QED
    BY <2>2, <2>3
<1>3. ASSUME NEW r \in DOMAIN regions' PROVE RegionInv(r)'
  BY Zenon, <1>1, Frame DEF LifetimeInv, RegionInv
<1>4. ASSUME NEW x \in DOMAIN reached' PROVE ReachedInv(x)'
  BY Zenon, <1>1 DEF LifetimeInv, ReachedInv
<1>5. ASSUME NEW x \in DOMAIN taskData' PROVE DataInv(x)'
  BY <1>1 DEF LifetimeInv, DataInv
<1>6. ASSUME NEW y \in DOMAIN tasks' PROVE TaskInv(y)'
  BY Zenon, <1>1, Frame DEF LifetimeInv, TaskInv
<1>7. ExclusiveInv'
  <2>1. \A u \in Threads : pc[u] = "fork" => pc'[u] = "fork"
    BY <1>1 DEF TypeOK
  <2> QED
    BY <1>1, <2>1 DEF LifetimeInv, ExclusiveInv
<1> QED
  BY <1>2, <1>3, <1>4, <1>5, <1>6, <1>7 DEF LifetimeInv

LEMMA SyncRegionLoadStep ==
  ASSUME TypeOK, LifetimeInv, NEW t \in Threads, CbSyncRegionLoad(t)
  PROVE  LifetimeInv'
<1>1. PICK l : l = IF cur[t][2] \in DOMAIN parInfo THEN "wake" ELSE Past(cur[t])
  OBVIOUS
<1>2. /\ l \in {"wake", "leave", "run"}
      /\ (l = "leave" => AtJoin(cur[t])) /\ (l = "run" => ~AtJoin(cur[t]))
  BY <1>1 DEF Past
<1>3. /\ pc[t] \in {"barrier", "wake"} /\ AllArrived(cur[t]) /\ pc' = [pc EXCEPT ![t] = l]
      /\ UNCHANGED <<toolVars, regions, reached, tasks, chunksLeft, cur>>
  BY Zenon, <1>1 DEF CbSyncRegionLoad, Released
<1> QED
  BY Zenon, <1>2, <1>3, BarrierEndStep

LEMMA SyncRegionEndStep ==
  ASSUME TypeOK, LifetimeInv, NEW t \in Threads, CbSyncRegionEnd(t)
  PROVE  LifetimeInv'
<1>1. PICK l : l = Past(cur[t])
  OBVIOUS
<1>2. /\ l \in {"wake", "leave", "run"}
      /\ (l = "leave" => AtJoin(cur[t])) /\ (l = "run" => ~AtJoin(cur[t]))
  BY <1>1 DEF Past
<1>3. /\ pc[t] = "wake" /\ pc' = [pc EXCEPT ![t] = l]
      /\ UNCHANGED <<toolVars, regions, reached, tasks, chunksLeft, cur>>
  BY Zenon, <1>1 DEF CbSyncRegionEnd
<1>4. pc[t] \in {"barrier", "wake"} /\ AllArrived(cur[t])
  BY Zenon, <1>3 DEF LifetimeInv, ThreadInv
<1> QED
  BY Zenon, <1>2, <1>3, <1>4, BarrierEndStep

LEMMA ExtLoopBeginStep ==
  ASSUME TypeOK, LifetimeInv, NEW t \in Threads, CbExtLoopBegin(t)
  PROVE  LifetimeInv'
<1> DEFINE x0 == cur[t]
<1>1. /\ InImplicitTask(t) /\ MayBegin(t, "loop") /\ regions' = Extend(t, "loop")
      /\ reached' = [reached EXCEPT ![x0] = @ + 1]
      /\ UNCHANGED <<finalNode, parInfo, threadData, chunkInfo, tasks, cur, pc>>
  BY DEF CbExtLoopBegin
<1>2. /\ x0 \in DOMAIN taskData /\ taskData[x0] \in TaskData
      /\ x0 \in DOMAIN reached /\ reached[x0] \in Nat
  BY Zenon, <1>1, CurrentImplicit
<1>3. ConstructStep(t)
  BY Zenon, <1>1, ExtendStep DEF Construct
<1>4. ~AtJoin(cur[t])'
  <2>1. regions'[x0[2]].script[reached[x0] + 1] = "loop"
    BY Zenon, <1>1, ExtendNext DEF Construct
  <2>2. reached'[x0] = reached[x0] + 1 /\ cur' = cur
    BY SMT, Z3, <1>1, <1>2
  <2> QED
    BY Zenon, <2>1, <2>2 DEF AtJoin
<1>5. ConstructOutcome(t)
  <2>1. /\ DOMAIN taskData' = DOMAIN taskData
        /\ \A x \in DOMAIN taskData : taskData'[x].threadNum = taskData[x].threadNum
    BY <1>2 DEF CbExtLoopBegin, TaskData, TypeOK
  <2>2. \A u \in Threads : nextNode'[u] \in Nat /\ nextNode'[u] >= nextNode[u]
    BY SMT, Z3 DEF CbExtLoopBegin, Allocate, TypeOK
  <2> QED
    BY <1>1, <1>4, <2>1, <2>2 DEF ConstructOutcome, InImplicitTask
<1> QED
  BY Zenon, <1>1, <1>3, <1>5, ConstructInv

\* The steps inside a loop do not concern the runtime's view of the region.
LEMMA InLoopStep ==
  ASSUME TypeOK, LifetimeInv, NEW t \in Threads, InImplicitTask(t),
         UNCHANGED <<parInfo, regions, reached, tasks, cur, pc>>,
         DOMAIN threadData' = DOMAIN threadData, DOMAIN taskData' = DOMAIN taskData,
         \A x \in DOMAIN taskData : taskData'[x].threadNum = taskData[x].threadNum,
         \A u \in Threads : nextNode'[u] \in Nat /\ nextNode'[u] >= nextNode[u]
  PROVE  LifetimeInv'
<1>1. cur[t] \in DOMAIN reached /\ ~AtJoin(cur[t])
  BY Zenon, CurrentImplicit
<1>2. ConstructStep(t)
  BY <1>1 DEF ConstructStep, LifetimeInv, ReachedInv, TypeOK
<1>3. ConstructOutcome(t)
  BY Zenon, <1>1, Frame DEF ConstructOutcome, InImplicitTask
<1> QED
  BY <1>2, <1>3, ConstructInv

LEMMA ExtChunkStep ==
  ASSUME TypeOK, LifetimeInv, NEW t \in Threads, NEW lastChunk, CbExtChunk(t, lastChunk)
  PROVE  LifetimeInv'
<1> DEFINE x0 == cur[t]
<1>1. InImplicitTask(t) /\ UNCHANGED <<parInfo, threadData, regions, reached, tasks, cur, pc>>
  BY Zenon DEF CbExtChunk
<1>2. x0 \in DOMAIN taskData /\ taskData[x0] \in TaskData
  BY <1>1, CurrentImplicit
<1>3. \/ taskData' = taskData /\ nextNode' = nextNode
      \/ /\ \E n : taskData' = [taskData EXCEPT ![x0].ws.lastChunk = n]
         /\ nextNode' = [nextNode EXCEPT ![t] = @ + 1]
  BY Zenon DEF CbExtChunk, Allocate
<1>4. /\ DOMAIN taskData' = DOMAIN taskData
      /\ \A x \in DOMAIN taskData : taskData'[x].threadNum = taskData[x].threadNum
  <2>1. CASE taskData' = taskData
    BY <2>1
  <2>2. ASSUME NEW n, taskData' = [taskData EXCEPT ![x0].ws.lastChunk = n]
        PROVE  /\ DOMAIN taskData' = DOMAIN taskData
               /\ \A x \in DOMAIN taskData : taskData'[x].threadNum = taskData[x].threadNum
    BY <1>2, <2>2 DEF TaskData
  <2> QED
    BY Zenon, <1>3, <2>1, <2>2
<1>5. nextNode' = nextNode \/ nextNode' = [nextNode EXCEPT ![t] = @ + 1]
  BY DEF CbExtChunk, Allocate
<1>6. \A u \in Threads : nextNode'[u] \in Nat /\ nextNode'[u] >= nextNode[u]
  <2>1. nextNode \in [Threads -> Nat]
    BY Zenon DEF TypeOK
  <2> QED
    BY <1>5, <2>1
<1> QED
  BY Zenon, <1>1, <1>4, <1>6, InLoopStep

LEMMA ExtLoopEndStep ==
  ASSUME TypeOK, LifetimeInv, NEW t \in Threads, CbExtLoopEnd(t)
  PROVE  LifetimeInv'
<1> DEFINE x0 == cur[t]
<1>1. /\ InImplicitTask(t) /\ UNCHANGED <<parInfo, nextNode, regions, reached, tasks, cur, pc>>
      /\ taskData' = [taskData EXCEPT ![x0].node = taskData[x0].ws.sink, ![x0].ws = NULL]
      /\ DOMAIN threadData' = DOMAIN threadData
  BY DEF CbExtLoopEnd
<1>2. x0 \in DOMAIN taskData /\ taskData[x0] \in TaskData
  BY <1>1, CurrentImplicit
<1>3. /\ DOMAIN taskData' = DOMAIN taskData
      /\ \A x \in DOMAIN taskData : taskData'[x].threadNum = taskData[x].threadNum
  BY <1>1, <1>2 DEF TaskData
<1>4. \A u \in Threads : nextNode'[u] \in Nat /\ nextNode'[u] >= nextNode[u]
  BY <1>1 DEF TypeOK
<1> QED
  BY <1>1, <1>3, <1>4, InLoopStep

LEMMA TaskCreateExplicitStep ==
  ASSUME TypeOK, LifetimeInv, NEW t \in Threads, CbTaskCreateExplicit(t)
  PROVE  LifetimeInv'
<1>1. PICK y : y = Explicit(NewNode(t, 1)[2], t)
  OBVIOUS
<1>2. /\ UNCHANGED <<finalNode, parInfo, threadData, chunkInfo, regions, reached, chunksLeft, cur, pc>>
      /\ nextNode' = [nextNode EXCEPT ![t] = @ + 1]
  BY Zenon DEF CbTaskCreateExplicit, Allocate
<1>3. y[1] = "explicit" /\ y[2] = nextNode[t] /\ y[3] = t /\ y \in Task
  <2>1. NewNode(t, 1)[2] = nextNode[t] /\ nextNode[t] \in Nat
    BY DEF NewNode, TypeOK
  <2> QED
    BY <1>1, <2>1, TaskNames
<1>4. y \notin DOMAIN taskData /\ y \notin DOMAIN tasks
  <2>1. ~(y[2] < nextNode[y[3]])
    BY <1>3 DEF TypeOK
  <2> QED
    BY <1>3, <2>1 DEF LifetimeInv, DataInv, TaskInv
<1>5. /\ DOMAIN taskData' = DOMAIN taskData \cup {y}
      /\ \A x \in DOMAIN taskData : taskData'[x] = taskData[x]
      /\ DOMAIN tasks' = DOMAIN tasks \cup {y} /\ tasks'[y].resume = NULL
      /\ \A x \in DOMAIN tasks : tasks'[x] = tasks[x]
  BY Zenon, <1>1, <1>4 DEF CbTaskCreateExplicit, Put
<1>6. \A x : InUse(x) => InUse(x)' /\ Executor(x)' = Executor(x)
  BY <1>2, <1>5 DEF InUse, Started, Executor
<1>7. /\ \A x : AtJoin(x)' <=> AtJoin(x)
      /\ \A x : AllArrived(x)' <=> AllArrived(x)
      /\ \A x : InUserCode(x)' <=> InUserCode(x)
  BY <1>2 DEF AtJoin, AllArrived, InUserCode
<1>8. ASSUME NEW u \in Threads PROVE ThreadInv(u)'
  BY Zenon, <1>2, <1>5, <1>6, <1>7 DEF LifetimeInv, ThreadInv
<1>9. ASSUME NEW r \in DOMAIN regions' PROVE RegionInv(r)'
  BY Zenon, <1>2, <1>5, <1>6, <1>7 DEF LifetimeInv, RegionInv
<1>10. ASSUME NEW x \in DOMAIN reached' PROVE ReachedInv(x)'
  BY Zenon, <1>2 DEF LifetimeInv, ReachedInv
<1>11. ASSUME NEW x \in DOMAIN taskData' PROVE DataInv(x)'
  <2>1. CASE x = y
    BY <1>2, <1>3, <2>1 DEF DataInv, TypeOK
  <2>2. CASE x # y
    <3>1. DataInv(x) /\ x \in Task /\ taskData'[x] = taskData[x]
      BY <1>5, <2>2 DEF LifetimeInv, TypeOK
    <3>2. x[2] \in Nat /\ x[3] \in Threads
      BY <3>1 DEF Task
    <3> QED
      BY <1>2, <3>1, <3>2 DEF DataInv, TypeOK
  <2> QED
    BY <2>1, <2>2
<1>12. ASSUME NEW z \in DOMAIN tasks' PROVE TaskInv(z)'
  <2>1. CASE z = y
    BY Zenon, <1>3, <1>5, <2>1 DEF TaskInv
  <2>2. CASE z # y
    <3>1. TaskInv(z) /\ tasks'[z] = tasks[z]
      BY Zenon, <1>5, <2>2 DEF LifetimeInv
    <3> QED
      BY Zenon, <1>5, <1>6, <1>7, <3>1 DEF TaskInv
  <2> QED
    BY <2>1, <2>2
<1>13. ExclusiveInv'
  <2>1. ExclusiveInv
    BY Zenon DEF LifetimeInv
  <2>2. \A z \in DOMAIN tasks' :
          tasks'[z].resume # NULL => z \in DOMAIN tasks /\ tasks'[z] = tasks[z]
    BY Zenon, <1>5
  <2> QED
    BY <1>2, <2>1, <2>2 DEF ExclusiveInv
<1> QED
  BY <1>8, <1>9, <1>10, <1>11, <1>12, <1>13 DEF LifetimeInv

LEMMA TaskScheduleStartStep ==
  ASSUME TypeOK, LifetimeInv, NEW t \in Threads, NEW y \in DOMAIN tasks, CbTaskScheduleStart(t, y)
  PROVE  LifetimeInv'
<1>1. /\ pc[t] \in {"run", "barrier"} /\ tasks[y].resume = NULL
      /\ cur' = [cur EXCEPT ![t] = y] /\ pc' = [pc EXCEPT ![t] = "run"]
      /\ UNCHANGED <<tdg, finalNode, taskData, parInfo, threadData, chunkInfo, nextNode,
                     regions, reached, chunksLeft>>
  BY DEF CbTaskScheduleStart, toolVars
<1>2. PICK x0 : x0 = cur[t]
  BY Zenon
<1>3. PICK s : s = [thread |-> t, task |-> cur[t], pc |-> pc[t]]
  BY Zenon, SMT, Z3
<1>4. tasks' = [tasks EXCEPT ![y].resume = s]
  BY <1>3 DEF CbTaskScheduleStart
<1>5. /\ x0 # NULL /\ x0 \in Task /\ x0 \in DOMAIN taskData /\ InUse(x0) /\ Executor(x0) = t
      /\ (pc[t] = "barrier" => x0[1] = "implicit") /\ (pc[t] = "run" => InUserCode(x0))
  BY Zenon, <1>1, <1>2 DEF LifetimeInv, ThreadInv, TypeOK
<1>6. s.thread = t /\ s.task = x0 /\ s.pc = pc[t] /\ s # NULL
  <2>1. s \in Suspended
    BY Zenon, <1>1, <1>2, <1>3, <1>5 DEF Suspended
  <2> QED
    BY Zenon, <1>2, <1>3, <2>1, NullAssumption
<1>7. y[1] = "explicit" /\ y \in DOMAIN taskData /\ y \in Task /\ y # NULL
  BY NullAssumption DEF LifetimeInv, TaskInv, TypeOK
<1>8. /\ DOMAIN tasks' = DOMAIN tasks /\ tasks'[y].resume = s
      /\ \A z \in DOMAIN tasks : z # y => tasks'[z] = tasks[z]
  <2>1. tasks[y] \in ExplicitTask
    BY Zenon DEF TypeOK
  <2> QED
    BY <1>4, <2>1 DEF ExplicitTask
<1>9. \A x : InUse(x) => x # y /\ InUse(x)' /\ Executor(x)' = Executor(x)
  BY <1>1, <1>7, <1>8 DEF InUse, Started, Executor
<1>10. InUse(y)' /\ Executor(y)' = t /\ InUserCode(y)'
  BY Zenon, <1>6, <1>7, <1>8 DEF InUse, Started, Executor, InUserCode
<1>11. /\ \A x : AtJoin(x)' <=> AtJoin(x)
       /\ \A x : AllArrived(x)' <=> AllArrived(x)
       /\ \A x : InUserCode(x)' <=> InUserCode(x)
  BY Zenon, <1>1 DEF AtJoin, AllArrived, InUserCode
<1>12. ASSUME NEW u \in Threads PROVE ThreadInv(u)'
  <2>1. ThreadInv(u)
    BY DEF LifetimeInv
  <2>2. CASE u = t
    <3>1. cur'[u] = y /\ pc'[u] = "run" /\ u \in DOMAIN threadData'
      BY <1>1, <2>1, <2>2 DEF ThreadInv, TypeOK
    <3> QED
      BY Zenon, <1>1, <1>7, <1>10, <2>2, <3>1 DEF ThreadInv
  <2>3. CASE u # t
    <3>1. cur'[u] = cur[u] /\ pc'[u] = pc[u]
      BY <1>1, <2>3 DEF TypeOK
    <3> QED
      BY Zenon, <1>1, <1>9, <1>11, <2>1, <3>1 DEF ThreadInv
  <2> QED
    BY <2>2, <2>3
<1>13. ASSUME NEW r \in DOMAIN regions' PROVE RegionInv(r)'
  BY Zenon, <1>1, <1>9, <1>11 DEF LifetimeInv, RegionInv
<1>14. ASSUME NEW x \in DOMAIN reached' PROVE ReachedInv(x)'
  BY Zenon, <1>1 DEF LifetimeInv, ReachedInv
<1>15. ASSUME NEW x \in DOMAIN taskData' PROVE DataInv(x)'
  BY Zenon, <1>1 DEF LifetimeInv, DataInv
<1>16. ASSUME NEW z \in DOMAIN tasks' PROVE TaskInv(z)'
  <2>1. CASE z = y
    <3>1. InUse(x0)' /\ Executor(x0)' = t /\ (pc[t] = "run" => InUserCode(x0)')
      BY <1>5, <1>9, <1>11
    <3> QED
      BY Zenon, <1>1, <1>5, <1>6, <1>7, <1>8, <2>1, <3>1 DEF TaskInv
  <2>2. CASE z # y
    <3>1. TaskInv(z) /\ tasks'[z] = tasks[z] /\ taskData' = taskData
      BY <1>1, <1>8, <2>2 DEF LifetimeInv
    <3> QED
      BY Zenon, SMT, Z3, <1>9, <1>11, <3>1 DEF TaskInv
  <2> QED
    BY Zenon, <2>1, <2>2
<1>17. ExclusiveInv'
  <2>1. ExclusiveInv
    BY DEF LifetimeInv
  <2>2. \A r \in DOMAIN parInfo : regions[r].parent # y /\ regions[r].parent # x0
    BY Zenon, <1>1, <1>2, <1>9, <2>1 DEF ExclusiveInv, LifetimeInv, RegionInv, TypeOK
  <2>3. \A z \in DOMAIN tasks : tasks[z].resume # NULL =>
          tasks[z].resume.task # y /\ tasks[z].resume.task # x0
    BY Zenon, <1>2, <1>9, <2>1 DEF ExclusiveInv, LifetimeInv, TaskInv
  <2>4. \A u \in Threads : u # t => cur'[u] = cur[u] /\ pc'[u] = pc[u] /\ cur[u] # x0
    BY Zenon, <1>1, <1>2, <1>5, CurrentDistinct DEF TypeOK
  <2>5. cur'[t] = y /\ x0 # y
    BY <1>1, <1>5, <1>9 DEF TypeOK
  <2>6. \A u \in Threads, r \in DOMAIN parInfo : cur'[u] = regions[r].parent => pc'[u] = "fork"
    BY Zenon, <2>1, <2>2, <2>4, <2>5 DEF ExclusiveInv
  <2>7. \A z \in DOMAIN tasks : tasks'[z].resume # NULL =>
          \/ z = y /\ tasks'[z].resume.task = x0
          \/ z # y /\ tasks[z].resume # NULL /\ tasks'[z].resume.task = tasks[z].resume.task
    BY Zenon, <1>6, <1>8
  <2>8. \A z, w \in DOMAIN tasks :
          tasks'[z].resume # NULL /\ tasks'[w].resume # NULL
            /\ tasks'[z].resume.task = tasks'[w].resume.task => z = w
    BY Zenon, <2>1, <2>3, <2>7 DEF ExclusiveInv
  <2>9. \A z \in DOMAIN tasks, u \in Threads :
          tasks'[z].resume # NULL => cur'[u] # tasks'[z].resume.task
    BY SMT, Z3, <2>1, <2>3, <2>4, <2>5, <2>7 DEF ExclusiveInv
  <2>10. \A z \in DOMAIN tasks, r \in DOMAIN parInfo :
          tasks'[z].resume # NULL => regions[r].parent # tasks'[z].resume.task
    BY <2>1, <2>2, <2>7 DEF ExclusiveInv
  <2> QED
    BY Zenon, <1>1, <1>8, <2>1, <2>6, <2>8, <2>9, <2>10 DEF ExclusiveInv
<1> QED
  BY <1>12, <1>13, <1>14, <1>15, <1>16, <1>17 DEF LifetimeInv

LEMMA TaskScheduleEndStep ==
  ASSUME TypeOK, LifetimeInv, NEW t \in Threads, CbTaskScheduleEnd(t)
  PROVE  LifetimeInv'
<1>1. PICK y : y = cur[t]
  OBVIOUS
<1>2. PICK s : s = tasks[y].resume
  OBVIOUS
<1>3. /\ pc[t] = "run" /\ y[1] = "explicit" /\ tasks' = Drop(tasks, y)
      /\ cur' = [cur EXCEPT ![t] = s.task] /\ pc' = [pc EXCEPT ![t] = s.pc]
      /\ UNCHANGED <<tdg, finalNode, taskData, parInfo, threadData, chunkInfo, nextNode,
                     regions, reached, chunksLeft>>
  BY Zenon, <1>1, <1>2 DEF CbTaskScheduleEnd, toolVars
<1>4. y # NULL /\ y \in DOMAIN tasks /\ s # NULL /\ s.thread = t
  BY Zenon, <1>1, <1>2, <1>3 DEF LifetimeInv, ThreadInv, InUse, Started, Executor
<1>5. s \in Suspended
  BY <1>2, <1>4, SuspendedTask
<1>6. s.task \in Task /\ s.task # NULL /\ s.pc \in {"run", "barrier"}
  BY <1>5, NullAssumption DEF Suspended
<1>7. /\ InUse(s.task) /\ s.task \in DOMAIN taskData /\ Executor(s.task) = t /\ s.task # y
      /\ (s.pc = "barrier" => s.task[1] = "implicit") /\ (s.pc = "run" => InUserCode(s.task))
  BY Zenon, <1>1, <1>2, <1>4 DEF LifetimeInv, TaskInv, ExclusiveInv
<1>8. DOMAIN tasks' = DOMAIN tasks \ {y} /\ \A z \in DOMAIN tasks' : tasks'[z] = tasks[z]
  BY Zenon, <1>3 DEF Drop
<1>9. \A x : InUse(x) /\ x # y => InUse(x)' /\ Executor(x)' = Executor(x)
  BY Zenon, <1>3, <1>8 DEF InUse, Started, Executor
<1>10. /\ \A x : AtJoin(x)' <=> AtJoin(x)
       /\ \A x : AllArrived(x)' <=> AllArrived(x)
       /\ \A x : InUserCode(x)' <=> InUserCode(x)
  BY <1>3 DEF AtJoin, AllArrived, InUserCode
<1>11. \A u \in Threads : u # t => cur[u] # y
  BY <1>1, <1>4, CurrentDistinct
<1>12. \A r \in DOMAIN parInfo : regions[r].parent # y
  BY Zenon, <1>1, <1>3 DEF LifetimeInv, ExclusiveInv
<1>13. \A z \in DOMAIN tasks : tasks[z].resume # NULL => tasks[z].resume.task # y
  BY <1>1 DEF LifetimeInv, ExclusiveInv
<1>14. ASSUME NEW u \in Threads PROVE ThreadInv(u)'
  <2>1. ThreadInv(u)
    BY DEF LifetimeInv
  <2>2. CASE u = t
    <3>1. cur'[u] = s.task /\ pc'[u] = s.pc /\ u \in DOMAIN threadData'
      BY <1>3, <2>1, <2>2 DEF ThreadInv, TypeOK
    <3>2. InUse(s.task)' /\ Executor(s.task)' = t /\ (s.pc = "run" => InUserCode(s.task)')
      BY Zenon, <1>7, <1>9, <1>10
    <3> QED
      BY Zenon, <1>3, <1>6, <1>7, <2>2, <3>1, <3>2 DEF ThreadInv
  <2>3. CASE u # t
    <3>1. cur'[u] = cur[u] /\ pc'[u] = pc[u] /\ cur[u] # y
      BY <1>3, <1>11, <2>3 DEF TypeOK
    <3> QED
      BY Zenon, <1>3, <1>9, <1>10, <2>1, <3>1 DEF ThreadInv
  <2> QED
    BY <2>2, <2>3
<1>15. ASSUME NEW r \in DOMAIN regions' PROVE RegionInv(r)'
  BY Zenon, <1>3, <1>9, <1>10, <1>12 DEF LifetimeInv, RegionInv
<1>16. ASSUME NEW x \in DOMAIN reached' PROVE ReachedInv(x)'
  BY Zenon, <1>3 DEF LifetimeInv, ReachedInv
<1>17. ASSUME NEW x \in DOMAIN taskData' PROVE DataInv(x)'
  BY Zenon, <1>3 DEF LifetimeInv, DataInv
<1>18. ASSUME NEW z \in DOMAIN tasks' PROVE TaskInv(z)'
  <2>1. z \in DOMAIN tasks /\ TaskInv(z) /\ tasks'[z] = tasks[z] /\ taskData' = taskData
    BY SMT, Z3, <1>3, <1>8 DEF LifetimeInv
  <2> QED
    BY Zenon, <1>9, <1>10, <1>13, <2>1 DEF TaskInv
<1>19. ExclusiveInv'
  <2>1. ExclusiveInv
    BY Zenon DEF LifetimeInv
  <2>2. cur'[t] = s.task /\ \A u \in Threads : u # t => cur'[u] = cur[u] /\ pc'[u] = pc[u]
    BY <1>3 DEF TypeOK
  <2>3. \A r \in DOMAIN parInfo : regions[r].parent # s.task
    BY Zenon, <1>2, <1>4, <2>1 DEF ExclusiveInv
  <2>4. \A z \in DOMAIN tasks' : tasks[z].resume # NULL => tasks[z].resume.task # s.task
    BY Zenon, <1>2, <1>4, <1>8, <2>1 DEF ExclusiveInv
  <2>5. \A u \in Threads, r \in DOMAIN parInfo : cur'[u] = regions[r].parent => pc'[u] = "fork"
    BY Zenon, <2>1, <2>2, <2>3 DEF ExclusiveInv
  <2>6. \A z \in DOMAIN tasks' : tasks[z].resume # NULL =>
          \A u \in Threads : cur'[u] # tasks[z].resume.task
    BY SMT, Z3, <1>8, <2>1, <2>2, <2>4 DEF ExclusiveInv
  <2> QED
    BY <1>3, <1>8, <2>1, <2>5, <2>6 DEF ExclusiveInv
<1> QED
  BY <1>14, <1>15, <1>16, <1>17, <1>18, <1>19 DEF LifetimeInv

-----------------------------------------------------------------------------

LEMMA LifetimeStep ==
  ASSUME TypeOK, LifetimeInv, [Next]_vars
  PROVE  LifetimeInv'
<1>1. ASSUME NEW t \in Threads, Step(t) PROVE LifetimeInv'
  BY <1>1, ThreadBeginStep, ThreadEndStep, TaskCreateInitialStep, ParallelBeginStep,
     ImplicitTaskBeginStep, ImplicitTaskEndStep, ParallelEndStep, SyncRegionBeginStep,
     SyncRegionArriveStep, SyncRegionLoadStep, SyncRegionEndStep, ExtLoopBeginStep, ExtChunkStep, ExtLoopEndStep,
     TaskCreateExplicitStep, TaskScheduleStartStep, TaskScheduleEndStep
  DEF Step
<1>2. CASE UNCHANGED vars
  <2>1. UNCHANGED <<tdg, finalNode, taskData, parInfo, threadData, chunkInfo, nextNode,
                    regions, reached, tasks, chunksLeft, cur, pc>>
    BY <1>2 DEF vars, toolVars, runtimeVars
  <2>2. /\ \A u \in Threads : ThreadInv(u) => ThreadInv(u)'
        /\ \A r : RegionInv(r) => RegionInv(r)'
    BY Zenon, <2>1, Frame DEF ThreadInv, RegionInv
  <2>3. /\ \A x : ReachedInv(x) => ReachedInv(x)'
        /\ \A x : DataInv(x) => DataInv(x)'
    BY Zenon, <2>1 DEF ReachedInv, DataInv
  <2>4. (\A y : TaskInv(y) => TaskInv(y)') /\ (ExclusiveInv => ExclusiveInv')
    BY Zenon, <2>1, Frame DEF TaskInv, ExclusiveInv
  <2> QED
    BY <2>1, <2>2, <2>3, <2>4 DEF LifetimeInv
<1> QED
  BY Zenon, <1>1, <1>2 DEF Next, Terminated

-----------------------------------------------------------------------------
(* The graph.                                                              *)

\* The edges are held once on either side, between live nodes.
Consistent(g) ==
  /\ g.exits = g.entries /\ \A e \in DOMAIN g.exits : g.exits[e] = 1
  /\ DOMAIN g.exits \subseteq (DOMAIN g.nodes) \X (DOMAIN g.nodes)

LEMMA CleanNodeGraph ==
  ASSUME NEW g, Consistent(g), NEW n, NEW type
  PROVE  LET h == CreateCleanNode(g, n, type)
         IN  /\ Consistent(h) /\ DOMAIN h.nodes = DOMAIN g.nodes \cup {n}
             /\ DOMAIN h.exits = DOMAIN g.exits
<1> DEFINE h == CreateCleanNode(g, n, type)
<1>1. h.nodes = Put(g.nodes, n, type) /\ h.exits = g.exits /\ h.entries = g.entries
  BY DEF CreateCleanNode, AddNode
<1>2. DOMAIN h.nodes = DOMAIN g.nodes \cup {n}
  BY Zenon, <1>1 DEF Put
<1> QED
  BY <1>1, <1>2 DEF Consistent

LEMMA ConnectGraph ==
  ASSUME NEW g, Consistent(g), NEW m \in DOMAIN g.nodes, NEW n \in DOMAIN g.nodes
  PROVE  LET h == ConnectNodes(g, m, n)
         IN  /\ Consistent(h) /\ DOMAIN h.nodes = DOMAIN g.nodes
             /\ DOMAIN h.exits = DOMAIN g.exits \cup {<<m, n>>}
<1> DEFINE h == ConnectNodes(g, m, n)
<1>1. CASE <<m, n>> \in DOMAIN g.exits
  BY Zenon, <1>1 DEF ConnectNodes, IsConnectedWith
<1>2. CASE <<m, n>> \notin DOMAIN g.exits
  <2>1. /\ h.nodes = g.nodes /\ h.exits = PushBack(g.exits, <<m, n>>)
        /\ h.entries = PushBack(g.entries, <<m, n>>)
    BY Zenon, <1>2 DEF ConnectNodes, IsConnectedWith
  <2>2. h.exits = [x \in DOMAIN g.exits \cup {<<m, n>>} |->
                     IF x = <<m, n>> THEN 1 ELSE g.exits[x]]
    BY <1>2, <2>1 DEF PushBack, Put
  <2>3. /\ DOMAIN h.exits = DOMAIN g.exits \cup {<<m, n>>}
        /\ \A e \in DOMAIN h.exits : h.exits[e] = 1
    BY <2>2 DEF Consistent
  <2>4. h.exits = h.entries
    BY <2>1 DEF Consistent
  <2>5. <<m, n>> \in (DOMAIN g.nodes) \X (DOMAIN g.nodes)
    BY Zenon
  <2> QED
    BY <2>1, <2>3, <2>4, <2>5 DEF Consistent
<1> QED
  BY Zenon, <1>1, <1>2

LEMMA NewNodeGraph ==
  ASSUME NEW g, Consistent(g), NEW m \in DOMAIN g.nodes, NEW n, NEW type
  PROVE  LET h == CreateNewNode(g, n, type, m)
         IN  /\ Consistent(h) /\ DOMAIN h.nodes = DOMAIN g.nodes \cup {n}
             /\ DOMAIN h.exits = DOMAIN g.exits \cup {<<m, n>>}
<1> DEFINE c == CreateCleanNode(g, n, type)
<1>1. /\ Consistent(c) /\ DOMAIN c.nodes = DOMAIN g.nodes \cup {n}
      /\ DOMAIN c.exits = DOMAIN g.exits
  BY CleanNodeGraph
<1>2. CreateNewNode(g, n, type, m) = ConnectNodes(c, m, n)
  BY DEF CreateNewNode
<1> HIDE DEF c
<1>3. m \in DOMAIN c.nodes /\ n \in DOMAIN c.nodes
  BY Zenon, <1>1
<1> QED
  BY <1>1, <1>2, <1>3, ConnectGraph

\* A node with one edge, from b, is taken out without a trace.
LEMMA RemoveGraph ==
  ASSUME NEW g, Consistent(g), NEW b, NEW n,
         \A e \in DOMAIN g.exits : e[1] = n \/ e[2] = n => e = <<b, n>>
  PROVE  LET h == DeleteNode(DisconnectNodes(g, b, n), n)
         IN  /\ Consistent(h) /\ DOMAIN h.nodes = DOMAIN g.nodes \ {n}
             /\ DOMAIN h.exits \subseteq DOMAIN g.exits
<1> DEFINE d == DisconnectNodes(g, b, n)
           h == DeleteNode(d, n)
           E == {e \in DOMAIN g.exits : e # <<b, n>>}
<1>1. d.nodes = g.nodes /\ d.exits = Erase(g.exits, <<b, n>>) /\ d.entries = d.exits
  BY Zenon DEF DisconnectNodes, Consistent
<1>2. DOMAIN d.exits = E /\ \A e \in E : d.exits[e] = 1
  <2>1. CASE <<b, n>> \in DOMAIN g.exits
    <3>1. g.exits[<<b, n>>] = 1
      BY Zenon, <2>1 DEF Consistent
    <3>2. d.exits = [x \in DOMAIN g.exits \ {<<b, n>>} |-> g.exits[x]]
      BY Zenon, <1>1, <2>1, <3>1 DEF Erase, Drop
    <3> QED
      BY <3>2 DEF Consistent
  <2>2. CASE <<b, n>> \notin DOMAIN g.exits
    BY Zenon, <1>1, <2>2 DEF Erase, Consistent
  <2> QED
    BY <2>1, <2>2
<1> HIDE DEF d
<1>3. /\ h.nodes = Drop(d.nodes, n)
      /\ h.exits = [e \in {c \in DOMAIN d.exits : c[1] # n} |-> d.exits[e]]
      /\ h.entries = [e \in {c \in DOMAIN d.entries : c[2] # n} |-> d.entries[e]]
  BY Zenon DEF DeleteNode
<1>4. {c \in DOMAIN d.exits : c[1] # n} = E /\ {c \in DOMAIN d.entries : c[2] # n} = E
  BY Zenon, <1>1, <1>2
<1>5. h.exits = h.entries /\ DOMAIN h.exits = E /\ \A e \in E : h.exits[e] = 1
  BY Zenon, <1>1, <1>2, <1>3, <1>4
<1>6. DOMAIN h.nodes = DOMAIN g.nodes \ {n}
  BY SMT, Z3, <1>1, <1>3 DEF Drop
<1>7. ASSUME NEW e \in E
      PROVE  e \in (DOMAIN g.nodes \ {n}) \X (DOMAIN g.nodes \ {n})
  <2>1. e \in (DOMAIN g.nodes) \X (DOMAIN g.nodes) /\ e[1] # n /\ e[2] # n
    BY <1>7 DEF Consistent
  <2> QED
    BY <2>1
<1> HIDE DEF h, E
<1>8. Consistent(h)
  BY <1>5, <1>6, <1>7 DEF Consistent
<1>9. DOMAIN h.exits \subseteq DOMAIN g.exits
  BY Zenon, <1>5 DEF E
<1> QED
  BY Zenon, <1>6, <1>8, <1>9 DEF h, d

-----------------------------------------------------------------------------
(* What a step has to show.                                                *)

LEMMA SharedIntro ==
  /\ \A x \in DOMAIN taskData :
       /\ \A n \in Pointers(taskData[x]) : n \in Shared
       /\ ~Private(x) => taskData[x].node \in Shared
  /\ \A r \in DOMAIN parInfo : parInfo[r].sink \in Shared /\ parInfo[r].barrier \in Shared
  /\ finalNode \in Shared
  BY SMT DEF Shared

LEMMA SharedStep ==
  ASSUME NEW S,
         \A x \in DOMAIN taskData' :
           /\ \A n \in Pointers(taskData'[x]) : n \in S
           /\ ~Private(x)' => taskData'[x].node \in S,
         \A r \in DOMAIN parInfo' : parInfo'[r].sink \in S /\ parInfo'[r].barrier \in S,
         finalNode' \in S
  PROVE  Shared' \subseteq S
<1>1. ASSUME NEW n, n \in Shared' PROVE n \in S
  BY SMT, <1>1 DEF Shared
<1> QED
  BY <1>1

\* The node of a task that waits is reached through that task only.
LEMMA PrivateNode ==
  ASSUME GraphInv, NEW x \in DOMAIN taskData, Private(x)
  PROVE  /\ taskData[x].node \in DOMAIN tdg.nodes /\ taskData[x].node \notin Shared
         /\ \A y \in DOMAIN taskData : Private(y) /\ y # x => taskData[y].node # taskData[x].node
         /\ \A e \in DOMAIN tdg.exits : e[1] = taskData[x].node \/ e[2] = taskData[x].node =>
              e = <<taskData[x].barrier, taskData[x].node>>
  BY Zenon DEF GraphInv, PrivateInv

\* In this step x gets a node of its own out of F, with one edge.
GetsNode(x, F) ==
  LET n == taskData'[x].node IN
  /\ n \in F /\ n \notin Shared'
  /\ \A e \in DOMAIN tdg'.exits : e[1] = n \/ e[2] = n => e = <<taskData'[x].barrier, n>>

\* A step that adds the nodes F and edges between shared or new nodes, shares
\* no other nodes, except those of tasks that wait no longer, and lets at most
\* task x0 begin to wait, with a new node that has one edge.
FrameStep(F, x0) ==
  /\ Consistent(tdg') /\ DOMAIN tdg'.nodes = DOMAIN tdg.nodes \cup F
  /\ F \cap DOMAIN tdg.nodes = {}
  /\ \A n \in DOMAIN tdg'.nodes : n[2] < nextNode'[n[1]]
  /\ \A e \in DOMAIN tdg'.exits :
       e \in DOMAIN tdg.exits \/ (e[1] \in Shared \cup F /\ e[2] \in Shared \cup F)
  /\ \A n \in Shared' :
       \/ n \in Shared \cup F \cup {NULL}
       \/ \E y \in DOMAIN taskData : Private(y) /\ ~Private(y)' /\ n = taskData[y].node
  /\ \A x \in DOMAIN taskData' : Private(x)' =>
       \/ /\ x \in DOMAIN taskData /\ Private(x) /\ taskData'[x].node = taskData[x].node
          /\ taskData'[x].barrier = taskData[x].barrier
       \/ x = x0 /\ GetsNode(x, F)
  /\ NULL \notin DOMAIN tdg.nodes

\* GraphInv is kept by such a step.
LEMMA GraphFrame ==
  ASSUME GraphInv, NEW F, NEW x0, FrameStep(F, x0), PointerInv'
  PROVE  GraphInv'
<1> USE DEF FrameStep
<1>1. \A n \in Shared' : n \in DOMAIN tdg'.nodes \cup {NULL}
  BY PrivateNode DEF GraphInv
<1>2. ASSUME NEW x \in DOMAIN taskData', Private(x)',
             x \in DOMAIN taskData, Private(x), taskData'[x].node = taskData[x].node,
             taskData'[x].barrier = taskData[x].barrier
      PROVE  PrivateInv(x)'
  <2> DEFINE n == taskData[x].node
  <2>1. /\ n \in DOMAIN tdg.nodes /\ n \notin Shared /\ n # NULL /\ n \notin F
        /\ \A y \in DOMAIN taskData : Private(y) /\ y # x => taskData[y].node # n
        /\ \A e \in DOMAIN tdg.exits : e[1] = n \/ e[2] = n => e = <<taskData[x].barrier, n>>
    BY <1>2, PrivateNode
  <2> HIDE DEF n
  <2>2. n \notin Shared'
    BY Zenon, <1>2, <2>1
  <2>3. ASSUME NEW y \in DOMAIN taskData', Private(y)', y # x
        PROVE  taskData'[y].node # n
    BY Zenon, <2>1, <2>3 DEF GetsNode
  <2>4. ASSUME NEW e \in DOMAIN tdg'.exits, e[1] = n \/ e[2] = n
        PROVE  e = <<taskData[x].barrier, n>>
    BY Zenon, <2>1, <2>4
  <2> QED
    BY Zenon, <1>2, <2>1, <2>2, <2>3, <2>4 DEF PrivateInv, n
<1>3. ASSUME NEW x \in DOMAIN taskData', Private(x)', x = x0, GetsNode(x, F)
      PROVE  PrivateInv(x)'
  <2>1. ASSUME NEW y \in DOMAIN taskData', Private(y)', y # x
        PROVE  taskData'[y].node # taskData'[x].node
    BY <1>3, <2>1, PrivateNode DEF GetsNode
  <2> QED
    BY Zenon, <1>3, <2>1 DEF PrivateInv, GetsNode
<1>4. \A x \in DOMAIN taskData' : Private(x)' => PrivateInv(x)'
  BY Zenon, <1>2, <1>3
<1>5. EdgesMirrored' /\ DOMAIN tdg'.exits \subseteq (DOMAIN tdg'.nodes) \X (DOMAIN tdg'.nodes)
  BY Zenon DEF Consistent, EdgesMirrored
<1> QED
  BY Zenon, <1>1, <1>4, <1>5 DEF GraphInv

\* Who waits does not change when thread t neither enters nor leaves a barrier.
LEMMA WaitsFrame ==
  ASSUME TypeOK, NEW t \in Threads, NEW x \in Task, tasks' = tasks,
         \A u \in Threads : u # t => cur'[u] = cur[u] /\ pc'[u] = pc[u],
         pc[t] \notin {"barrier", "wake", "leave"}, pc'[t] \notin {"barrier", "wake", "leave"}
  PROVE  Waits(x)' <=> Waits(x)
<1>1. x[3] \in Threads
  BY Zenon DEF Task
<1> QED
  BY <1>1 DEF Waits

\* A task does not wait while a thread executes it, nor while it has a region.
LEMMA RunningNotWaiting ==
  ASSUME TypeOK, LifetimeInv, NEW t \in Threads, cur[t] # NULL,
         pc[t] \notin {"barrier", "wake", "leave"}
  PROVE  ~Waits(cur[t])
<1>1. cur[t][3] \in Threads
  BY DEF TypeOK, Task
<1>2. ASSUME cur[cur[t][3]] = cur[t] PROVE cur[t][3] = t
  BY Zenon, <1>1, <1>2, CurrentDistinct
<1> QED
  BY <1>2 DEF Waits, LifetimeInv, ExclusiveInv

LEMMA ParentNotWaiting ==
  ASSUME TypeOK, LifetimeInv, NEW r \in DOMAIN parInfo
  PROVE  /\ regions[r].parent = parInfo[r].parent /\ parInfo[r].parent \in DOMAIN taskData
         /\ ~Waits(parInfo[r].parent)
<1>1. /\ parInfo[r].parent = regions[r].parent /\ parInfo[r].parent \in DOMAIN taskData
  BY Zenon DEF TypeOK, LifetimeInv, RegionInv
<1>2. parInfo[r].parent[3] \in Threads
  BY Zenon, <1>1 DEF TypeOK, Task
<1> QED
  BY Zenon, <1>1, <1>2 DEF Waits, LifetimeInv, ExclusiveInv

\* GraphInv is kept by a step after which the same tasks wait, with the same
\* nodes and barriers.
LEMMA GrowStep ==
  ASSUME TypeOK, TypeOK', GraphInv, NEW F,
         \A x \in Task : Waits(x)' <=> Waits(x),
         Consistent(tdg'), DOMAIN tdg'.nodes = DOMAIN tdg.nodes \cup F,
         \A n \in F : n \notin DOMAIN tdg.nodes /\ n[2] < nextNode'[n[1]],
         \A u \in Threads : nextNode'[u] >= nextNode[u],
         \A e \in DOMAIN tdg'.exits :
           e \in DOMAIN tdg.exits \/ (e[1] \in Shared \cup F /\ e[2] \in Shared \cup F),
         \A x \in DOMAIN taskData' :
           /\ \/ /\ x \in DOMAIN taskData /\ taskData'[x].node = taskData[x].node
                 /\ taskData'[x].barrier = taskData[x].barrier
              \/ ~Waits(x) /\ taskData'[x].node \in Shared \cup F
           /\ \A n \in Pointers(taskData'[x]) : n \in Shared \cup F \cup {NULL},
         \A r \in DOMAIN parInfo' : /\ parInfo'[r].sink \in Shared \cup F \cup {NULL}
                                    /\ parInfo'[r].barrier \in Shared \cup F \cup {NULL},
         finalNode' \in Shared \cup F \cup {NULL},
         PointerInv'
  PROVE  GraphInv'
<1> DEFINE S == Shared \cup F \cup {NULL}
<1>1. DOMAIN taskData \subseteq Task /\ DOMAIN taskData' \subseteq Task
  BY DEF TypeOK
<1>2. ASSUME NEW x \in DOMAIN taskData',
             x \in DOMAIN taskData, taskData'[x].node = taskData[x].node,
             taskData'[x].barrier = taskData[x].barrier
      PROVE  Private(x)' <=> Private(x)
  BY Zenon, SMT, Z3, <1>1, <1>2 DEF Private
<1>3. ASSUME NEW x \in DOMAIN taskData', ~Waits(x)
      PROVE  ~Private(x)'
  BY SMT, Z3, <1>1, <1>3 DEF Private
<1>4. ASSUME NEW x \in DOMAIN taskData', ~Private(x)'
      PROVE  taskData'[x].node \in S
  BY <1>2, <1>4, SharedIntro
<1>5. Shared' \subseteq S
  <2> HIDE DEF S
  <2> QED
    BY Zenon, <1>4, SharedStep DEF S
<1>6. ASSUME NEW x \in DOMAIN taskData', Private(x)'
      PROVE  /\ x \in DOMAIN taskData /\ Private(x) /\ taskData'[x].node = taskData[x].node
             /\ taskData'[x].barrier = taskData[x].barrier
  BY Zenon, <1>2, <1>3, <1>6
<1>7. NULL \notin DOMAIN tdg.nodes
  BY Zenon, NullAssumption DEF TypeOK
<1>8. ASSUME NEW n \in DOMAIN tdg'.nodes PROVE n[2] < nextNode'[n[1]]
  <2>1. CASE n \in DOMAIN tdg.nodes
    <3>1. n \in Node /\ n[2] < nextNode[n[1]]
      BY Zenon, <2>1 DEF TypeOK, GraphInv
    <3>2. n[1] \in Threads /\ n[2] \in Nat
      BY Zenon, SMT, Z3, <3>1 DEF Node
    <3> QED
      BY <3>1, <3>2 DEF TypeOK
  <2> QED
    BY Zenon, <2>1
<1>9. F \cap DOMAIN tdg.nodes = {}
  OBVIOUS
<1>10. FrameStep(F, NULL)
  BY Zenon, SMT, Z3, <1>5, <1>6, <1>7, <1>8, <1>9 DEF FrameStep
<1> QED
  BY Zenon, <1>10, GraphFrame

LEMMA FreshNode ==
  ASSUME TypeOK, GraphInv, NEW t \in Threads, NEW i \in {1, 2}
  PROVE  /\ NewNode(t, i) \in Node /\ NewNode(t, i)[1] = t
         /\ NewNode(t, i)[2] \in Nat /\ NewNode(t, i)[2] = (nextNode[t] + i) - 1
         /\ NewNode(t, i) \notin DOMAIN tdg.nodes
<1>1. nextNode[t] \in Nat
  BY DEF TypeOK
<1>2. NewNode(t, i)[1] = t /\ NewNode(t, i)[2] = (nextNode[t] + i) - 1 /\ NewNode(t, i) \in Node
  BY <1>1 DEF NewNode, Node
<1> QED
  BY <1>1, <1>2 DEF GraphInv

LEMMA SharedLive ==
  ASSUME GraphInv, NEW n \in Shared, n # NULL
  PROVE  n \in DOMAIN tdg.nodes
  BY Zenon DEF GraphInv

\* The node of a task that does not wait can be connected.
LEMMA NodeLive ==
  ASSUME TypeOK, GraphInv, NEW x \in DOMAIN taskData, ~Waits(x)
  PROVE  taskData[x].node \in Shared /\ taskData[x].node \in DOMAIN tdg.nodes
<1>1. taskData[x].node \in Shared
  BY Zenon, SharedIntro DEF Private
<1>2. taskData[x].node # NULL
  BY Zenon, NullAssumption DEF TypeOK, TaskData
<1> QED
  BY Zenon, <1>1, <1>2, SharedLive

LEMMA GraphConsistent ==
  ASSUME GraphInv
  PROVE  Consistent(tdg)
  BY Zenon DEF GraphInv, Consistent, EdgesMirrored

\* PointerInv is kept when thread t is not in the middle of cb_sync_region, and
\* tasks and regions keep their barriers or begin without one.
LEMMA PointerStep ==
  ASSUME LifetimeInv, GraphInv, NEW t \in Threads, pc'[t] # "arrive",
         \A u \in Threads : u # t => cur'[u] = cur[u] /\ pc'[u] = pc[u],
         \A x \in DOMAIN taskData : x # cur[t] => taskData'[x].barrier = taskData[x].barrier,
         \A x \in DOMAIN taskData' : x[1] = "implicit" =>
           \/ /\ x \in DOMAIN taskData /\ taskData'[x].barrier = taskData[x].barrier
              /\ taskData'[x].sink = taskData[x].sink
           \/ taskData'[x].barrier = NULL /\ taskData'[x].sink # NULL,
         \A r \in DOMAIN parInfo' :
           \/ /\ r \in DOMAIN parInfo /\ parInfo'[r].teamSize = parInfo[r].teamSize
              /\ parInfo'[r].cnt = parInfo[r].cnt /\ parInfo'[r].barrier = parInfo[r].barrier
           \/ /\ parInfo'[r].cnt = 0
              /\ \A x \in DOMAIN taskData' : x[1] = "implicit" => x[2] # r
  PROVE  PointerInv'
<1>1. PointerInv
  BY DEF GraphInv
<1>2. ASSUME NEW u \in Threads, pc'[u] = "arrive"
      PROVE  taskData'[cur'[u]].barrier # NULL
  <2>1. u # t /\ cur'[u] = cur[u] /\ pc[u] = "arrive"
    BY SMT, Z3, <1>2
  <2>2. cur[u] \in DOMAIN taskData /\ cur[u] # NULL
    BY <2>1 DEF LifetimeInv, ThreadInv
  <2>3. cur[u] # cur[t]
    BY Zenon, <2>1, <2>2, CurrentDistinct
  <2>4. taskData'[cur[u]].barrier = taskData[cur[u]].barrier
    BY Zenon, <2>2, <2>3
  <2>5. taskData[cur[u]].barrier # NULL
    BY Zenon, <1>1, <2>1 DEF PointerInv
  <2> QED
    BY Zenon, <2>1, <2>4, <2>5
<1>3. ASSUME NEW x \in DOMAIN taskData', x[1] = "implicit"
      PROVE  /\ taskData'[x].sink # NULL
             /\ x[2] \in DOMAIN parInfo' /\ parInfo'[x[2]].teamSize <= 1 =>
                  taskData'[x].barrier = NULL
  BY Zenon, SMT, Z3, <1>1, <1>3 DEF PointerInv
<1>4. ASSUME NEW r \in DOMAIN parInfo', parInfo'[r].cnt > 0
      PROVE  parInfo'[r].barrier # NULL
  BY <1>1, <1>4 DEF PointerInv
<1> QED
  BY Zenon, <1>2, <1>3, <1>4 DEF PointerInv

\* A step that leaves the tool's data alone and lets nobody enter a barrier for
\* which there is a node.
LEMMA QuietStep ==
  ASSUME TypeOK, LifetimeInv, GraphInv, UNCHANGED <<tdg, finalNode, taskData, parInfo, nextNode>>,
         NEW t \in Threads, pc'[t] # "arrive",
         \A u \in Threads : u # t => cur'[u] = cur[u] /\ pc'[u] = pc[u],
         \A x \in Task : Waits(x)' => Waits(x) \/ taskData[x].barrier = NULL
  PROVE  GraphInv'
<1>1. PointerInv'
  BY Zenon, PointerStep
<1>2. DOMAIN taskData \subseteq Task
  BY Zenon DEF TypeOK
<1>3. \A x \in DOMAIN taskData : Private(x)' => Private(x)
  BY Zenon, <1>2 DEF Private
<1>4. ASSUME NEW n \in Shared'
      PROVE  \/ n \in Shared
             \/ \E y \in DOMAIN taskData : Private(y) /\ ~Private(y)' /\ n = taskData[y].node
  <2> DEFINE S == Shared \cup {taskData[y].node : y \in {z \in DOMAIN taskData :
                                                          Private(z) /\ ~Private(z)'}}
  <2>1. ASSUME NEW x \in DOMAIN taskData', ~Private(x)' PROVE taskData'[x].node \in S
    BY Zenon, <2>1, SharedIntro
  <2>2. \A x \in DOMAIN taskData' : \A m \in Pointers(taskData'[x]) : m \in S
    BY Zenon, SharedIntro
  <2>3. \A r \in DOMAIN parInfo' : parInfo'[r].sink \in S /\ parInfo'[r].barrier \in S
    BY Zenon, SharedIntro
  <2>4. finalNode' \in S
    BY Zenon, SharedIntro
  <2> HIDE DEF S
  <2>5. Shared' \subseteq S
    BY Zenon, <2>1, <2>2, <2>3, <2>4, SharedStep
  <2> QED
    BY Zenon, <1>4, <2>5 DEF S
<1>5. Consistent(tdg')
  BY Zenon, GraphConsistent
<1>6. NULL \notin DOMAIN tdg.nodes
  BY Zenon, NullAssumption DEF TypeOK
<1>7. \A n \in DOMAIN tdg'.nodes : n[2] < nextNode'[n[1]]
  BY Zenon DEF GraphInv
<1> DEFINE F == {}
<1>8. DOMAIN tdg'.nodes = DOMAIN tdg.nodes \cup F /\ F \cap DOMAIN tdg.nodes = {}
  BY SMT, Z3
<1>9. /\ \A e \in DOMAIN tdg'.exits : e \in DOMAIN tdg.exits
      /\ \A n \in Shared' :
           \/ n \in Shared \cup F \cup {NULL}
           \/ \E y \in DOMAIN taskData : Private(y) /\ ~Private(y)' /\ n = taskData[y].node
      /\ \A x \in DOMAIN taskData' : Private(x)' =>
           /\ x \in DOMAIN taskData /\ Private(x) /\ taskData'[x].node = taskData[x].node
           /\ taskData'[x].barrier = taskData[x].barrier
  BY <1>3, <1>4
<1> HIDE DEF F
<1>10. FrameStep(F, NULL)
  BY Zenon, <1>5, <1>6, <1>7, <1>8, <1>9 DEF FrameStep
<1> QED
  BY Zenon, <1>1, <1>10, GraphFrame

\* The same when only task x1, which does not wait, gets new pointers.
LEMMA TaskStep ==
  ASSUME TypeOK, TypeOK', GraphInv, NEW F, NEW x1, ~Waits(x1),
         \A x \in Task : Waits(x)' <=> Waits(x),
         Consistent(tdg'), DOMAIN tdg'.nodes = DOMAIN tdg.nodes \cup F,
         \A n \in F : n \notin DOMAIN tdg.nodes /\ n[2] < nextNode'[n[1]],
         \A u \in Threads : nextNode'[u] >= nextNode[u],
         \A e \in DOMAIN tdg'.exits :
           e \in DOMAIN tdg.exits \/ (e[1] \in Shared \cup F /\ e[2] \in Shared \cup F),
         \A x \in DOMAIN taskData' : x # x1 => x \in DOMAIN taskData /\ taskData'[x] = taskData[x],
         taskData'[x1].node \in Shared \cup F,
         \A n \in Pointers(taskData'[x1]) : n \in Shared \cup F \cup {NULL},
         \A r \in DOMAIN parInfo' : /\ parInfo'[r].sink \in Shared \cup F \cup {NULL}
                                    /\ parInfo'[r].barrier \in Shared \cup F \cup {NULL},
         finalNode' \in Shared \cup F \cup {NULL},
         PointerInv'
  PROVE  GraphInv'
<1>1. ASSUME NEW x \in DOMAIN taskData'
      PROVE  /\ \/ /\ x \in DOMAIN taskData /\ taskData'[x].node = taskData[x].node
                   /\ taskData'[x].barrier = taskData[x].barrier
                \/ ~Waits(x) /\ taskData'[x].node \in Shared \cup F
             /\ \A n \in Pointers(taskData'[x]) : n \in Shared \cup F \cup {NULL}
  BY SharedIntro
<1> QED
  BY Zenon, <1>1, GrowStep
=============================================================================
