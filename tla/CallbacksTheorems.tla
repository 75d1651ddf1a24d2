------------------------- MODULE CallbacksTheorems --------------------------
(***************************************************************************)
(* Proofs about Callbacks, part 5: the barriers of every region implement  *)
(* BarrierCounter, and what holds of all behaviours.                       *)
(***************************************************************************)
EXTENDS CallbacksGraph, CallbacksRounds, CallbacksBarriers

\* The variables of BarrierCounter when only region r changes.
LEMMA MapUpdate ==
  ASSUME NEW r \in 1..MaxRegions, \A q \in (1..MaxRegions) \ {r} : Same(q)
  PROVE  /\ regionTeam' = [regionTeam EXCEPT ![r] = TeamOf(r)']
         /\ regionEntered' = [regionEntered EXCEPT ![r] = EnteredIn(r)']
         /\ regionNode' = [regionNode EXCEPT ![r] = NodeIn(r)']
         /\ regionCnt' = [regionCnt EXCEPT ![r] = CountIn(r)']
         /\ regionBarrier' = [regionBarrier EXCEPT ![r] = BarrierIn(r)']
<1>1. \A q \in 1..MaxRegions : q # r =>
        /\ TeamOf(q)' = TeamOf(q) /\ EnteredIn(q)' = EnteredIn(q) /\ NodeIn(q)' = NodeIn(q)
        /\ CountIn(q)' = CountIn(q) /\ BarrierIn(q)' = BarrierIn(q)
  BY Zenon DEF Same
<1>2. regionTeam' = [regionTeam EXCEPT ![r] = TeamOf(r)']
  BY Zenon, <1>1 DEF regionTeam
<1>3. regionEntered' = [regionEntered EXCEPT ![r] = EnteredIn(r)']
  BY Zenon, <1>1 DEF regionEntered
<1>4. regionNode' = [regionNode EXCEPT ![r] = NodeIn(r)']
  BY Zenon, <1>1 DEF regionNode
<1>5. regionCnt' = [regionCnt EXCEPT ![r] = CountIn(r)']
  BY Zenon, <1>1 DEF regionCnt
<1>6. regionBarrier' = [regionBarrier EXCEPT ![r] = BarrierIn(r)']
  BY Zenon, <1>1 DEF regionBarrier
<1> QED
  BY <1>2, <1>3, <1>4, <1>5, <1>6

LEMMA MapSame ==
  ASSUME \A r \in 1..MaxRegions : Same(r)
  PROVE  UNCHANGED B!vars
<1>1. regionTeam' = regionTeam /\ regionEntered' = regionEntered /\ regionNode' = regionNode
  BY DEF Same, regionTeam, regionEntered, regionNode
<1>2. regionCnt' = regionCnt /\ regionBarrier' = regionBarrier
  BY DEF Same, regionCnt, regionBarrier
<1> QED
  BY <1>1, <1>2 DEF B!vars

LEMMA MapRegion ==
  ASSUME NEW r \in 1..MaxRegions
  PROVE  /\ regionTeam[r] = TeamOf(r) /\ regionEntered[r] = EnteredIn(r)
         /\ regionNode[r] = NodeIn(r) /\ regionCnt[r] = CountIn(r)
         /\ regionBarrier[r] = BarrierIn(r)
  BY DEF regionTeam, regionEntered, regionNode, regionCnt, regionBarrier

\* The operators that BarrierCounter takes from FiniteSets are those used here.
LEMMA SameFinite ==
  \A S : B!IsFiniteSet(S) <=> IsFiniteSet(S)
  BY Zenon DEF B!IsFiniteSet, IsFiniteSet

LEMMA SameCardinality ==
  \A S : B!Cardinality(S) = Cardinality(S)
  BY Zenon DEF B!Cardinality, Cardinality

LEMMA ImplicitTaskEndMaps ==
  ASSUME TypeOK, LifetimeInv, RoundInv, NEW t \in Threads, CbImplicitTaskEnd(t)
  PROVE  (\A r \in 1..MaxRegions : Same(r)) \/ \E r \in 1..MaxRegions : B!Leave(r, t)
<1>1. PICK x : x = cur[t]
  OBVIOUS
<1>2. /\ KeepsRounds /\ regions' = regions /\ parInfo' = parInfo
      /\ x \in DOMAIN reached /\ AtJoin(x) /\ AllArrived(x)
      /\ x \in DOMAIN taskData /\ x \notin DOMAIN taskData'
      /\ \A z \in DOMAIN reached : BarriersEntered(z)' = BarriersEntered(z)
      /\ \A z : z # x => KeepsNode(z)
  BY Zenon, <1>1, ImplicitTaskEndRounds
<1>3. PICK r : r = x[2]
  BY Zenon, SMT, Z3
<1>4. /\ r \in DOMAIN regions /\ x = Implicit(r, t) /\ x[1] = "implicit"
      /\ t \in regions[r].team
  <2>1. x[3] = t
    BY <1>1, <1>2 DEF CbImplicitTaskEnd, LifetimeInv, ThreadInv, Executor
  <2> QED
    BY <1>2, <1>3, <2>1, PosFacts
<1>5. \A q : /\ TeamOf(q)' = TeamOf(q) /\ EnteredIn(q)' = EnteredIn(q)
             /\ (Recorded(q)' <=> Recorded(q))
             /\ CountIn(q)' = CountIn(q) /\ BarrierIn(q)' = BarrierIn(q)
  BY Zenon, <1>2, RegionSame
<1>6. \A q : q # r => Same(q)
  <2>1. \A q : q # r => NodeIn(q)' = NodeIn(q)
    BY Zenon, <1>2, <1>3, RegionSame
  <2> QED
    BY Zenon, <1>5, <2>1 DEF Same
<1>7. CASE ~Recorded(r)
  <2>1. NodeIn(r)' = NodeIn(r)
    BY Zenon, <1>5, <1>7 DEF NodeIn
  <2> QED
    BY Zenon, <1>5, <1>6, <2>1 DEF Same
<1>8. CASE Recorded(r)
  <2>1. r \in 1..MaxRegions
    BY <1>4, BoundsAssumption DEF TypeOK, RoundInv, SizeInv
  <2>2. NodeIn(r)' = [NodeIn(r) EXCEPT ![t] = NULL]
    <3>1. ASSUME NEW u \in Threads, u # t PROVE NodeIn(r)'[u] = NodeIn(r)[u]
      <4>1. PICK z : z = Implicit(r, u)
        BY Zenon, SMT, Z3
      <4>2. z # x
        BY <1>4, <3>1, <4>1 DEF Implicit
      <4> QED
        BY Zenon, <1>2, <4>1, <4>2, ThreadSame
    <3>2. NodeIn(r)'[t] = NULL
      BY Zenon, <1>2, <1>4 DEF NodeIn
    <3> QED
      BY Zenon, <3>1, <3>2 DEF NodeIn
  <2>3. NodeIn(r)[t] # NULL
    <3>1. BarriersEntered(x) > 0 /\ x \in ImplicitTasks
      BY <1>2, <1>4, JoinFacts DEF ImplicitTasks
    <3>2. NodeIn(r)[t] = taskData[x].barrier
      BY Zenon, <1>2, <1>4, <1>8 DEF NodeIn
    <3> QED
      BY Zenon, <1>3, <1>8, <3>1, <3>2 DEF RoundInv
  <2>4. TeamOf(r) = regions[r].team
    BY <1>8 DEF TeamOf
  <2>5. regions[r].team \subseteq Threads
    <3>1. regions[r] \in Region
      BY SMT, Z3, <1>4 DEF TypeOK
    <3> QED
      BY Zenon, <3>1 DEF Region
  <2>6. ASSUME NEW u \in TeamOf(r) PROVE EnteredIn(r)[u] = EnteredIn(r)[t]
    <3>1. PICK z : z = Implicit(r, u)
      BY Zenon, SMT, Z3
    <3>2. z \in DOMAIN reached /\ BarriersEntered(z) = BarriersEntered(x)
      BY Zenon, <1>2, <1>3, <2>4, <3>1, JoinedFacts
    <3> QED
      BY Zenon, <1>2, <1>4, <1>8, <2>4, <2>5, <3>1, <3>2 DEF EnteredIn, Entered
  <2>7. B!Leave(r, t)
    <3>1. /\ regionTeam' = [regionTeam EXCEPT ![r] = TeamOf(r)']
          /\ regionEntered' = [regionEntered EXCEPT ![r] = EnteredIn(r)']
          /\ regionNode' = [regionNode EXCEPT ![r] = NodeIn(r)']
          /\ regionCnt' = [regionCnt EXCEPT ![r] = CountIn(r)']
          /\ regionBarrier' = [regionBarrier EXCEPT ![r] = BarrierIn(r)']
      BY Zenon, <1>6, <2>1, MapUpdate
    <3>2. /\ regionTeam[r] = TeamOf(r) /\ regionEntered[r] = EnteredIn(r)
          /\ regionNode[r] = NodeIn(r) /\ regionCnt[r] = CountIn(r)
          /\ regionBarrier[r] = BarrierIn(r)
      BY Zenon, <2>1, MapRegion
    <3>3. regionNode' = [regionNode EXCEPT ![r][t] = NULL]
      BY <2>2, <3>1, <3>2
    <3>4. UNCHANGED <<regionTeam, regionEntered, regionCnt, regionBarrier>>
      BY <1>5 DEF regionTeam, regionEntered, regionCnt, regionBarrier
    <3> QED
      BY <1>4, <2>3, <2>4, <2>6, <3>2, <3>3, <3>4 DEF B!Leave
  <2> QED
    BY Zenon, <2>1, <2>7
<1> QED
  BY <1>7, <1>8

LEMMA ParallelEndMaps ==
  ASSUME TypeOK, LifetimeInv, LifetimeInv', RoundInv, NEW t \in Threads, CbParallelEnd(t)
  PROVE  (\A r \in 1..MaxRegions : Same(r)) \/ \E r \in 1..MaxRegions : B!Destroy(r)
<1>1. PICK x : x = cur[t]
  OBVIOUS
<1>2. PICK r : r = x[2]
  OBVIOUS
<1>3. /\ StillStep(t) /\ regions' = regions /\ parInfo' = Drop(parInfo, r)
      /\ x \in DOMAIN reached /\ AtJoin(x) /\ x \notin DOMAIN taskData
  BY Zenon, <1>1, <1>2, ParallelEndRounds
<1>4. /\ r \in DOMAIN regions /\ x = Implicit(r, x[3]) /\ x[3] \in Threads
      /\ x[3] \in regions[r].team
  BY <1>2, <1>3, PosFacts
<1>5. r \notin DOMAIN parInfo' /\ \A q : q # r =>
        \/ q \notin DOMAIN parInfo /\ q \notin DOMAIN parInfo'
        \/ q \in DOMAIN parInfo /\ q \in DOMAIN parInfo' /\ parInfo'[q] = parInfo[q]
  BY Zenon, <1>3 DEF Drop
<1>6. \A q : /\ TeamOf(q)' = TeamOf(q) /\ EnteredIn(q)' = EnteredIn(q)
             /\ NodeIn(q)' = NodeIn(q) /\ (Recorded(q)' <=> Recorded(q))
  BY Zenon, <1>3, StillStepSame
<1>7. \A q : q # r => Same(q)
  BY Zenon, <1>3, <1>5, StillStepSame
<1>8. CASE ~Recorded(r)
  <2>1. Same(r)
    BY Zenon, <1>6, <1>8 DEF Same, CountIn, BarrierIn
  <2> QED
    BY Zenon, <1>7, <2>1
<1>9. CASE Recorded(r)
  <2>1. r \in 1..MaxRegions
    BY <1>4, BoundsAssumption DEF TypeOK, RoundInv, SizeInv
  <2>2. CountIn(r)' = 0 /\ BarrierIn(r)' = NULL
    BY Zenon, <1>5 DEF CountIn, BarrierIn
  <2>3. /\ regionCnt' = [regionCnt EXCEPT ![r] = CountIn(r)']
        /\ regionBarrier' = [regionBarrier EXCEPT ![r] = BarrierIn(r)']
    BY Zenon, <1>7, <2>1, MapUpdate
  <2>4. UNCHANGED <<regionTeam, regionEntered, regionNode>>
    BY <1>6 DEF regionTeam, regionEntered, regionNode
  <2>5. ~B!Open(r)
    <3>1. /\ regionTeam[r] = TeamOf(r) /\ regionEntered[r] = EnteredIn(r)
          /\ regionNode[r] = NodeIn(r)
      BY Zenon, <2>1, MapRegion
    <3>2. x[3] \in TeamOf(r)
      BY Zenon, <1>4, <1>9 DEF TeamOf
    <3>3. NodeIn(r)[x[3]] = NULL
      BY Zenon, <1>3, <1>4 DEF NodeIn
    <3>4. EnteredIn(r)[x[3]] = BarriersEntered(x)
      BY Zenon, <1>3, <1>4, <1>9 DEF EnteredIn, Entered
    <3>5. BarriersEntered(x) > 0
      BY <1>3, JoinFacts
    <3> QED
      BY Zenon, <3>1, <3>2, <3>3, <3>4, <3>5 DEF B!Open
  <2>6. B!Destroy(r)
    BY Zenon, <2>2, <2>3, <2>4, <2>5 DEF B!Destroy
  <2> QED
    BY Zenon, <2>1, <2>6
<1> QED
  BY <1>8, <1>9

LEMMA ParallelBeginMaps ==
  ASSUME TypeOK, LifetimeInv, LifetimeInv', RoundInv, NEW t \in Threads, NEW team,
         CbParallelBegin(t, team, Cardinality(team))
  PROVE  (\A r \in 1..MaxRegions : Same(r)) \/ \E r \in 1..MaxRegions : B!Form(r)
<1>1. PICK r : r = Len(regions) + 1
  OBVIOUS
<1>2. /\ StillStep(t) /\ r \in 1..MaxRegions /\ r \notin DOMAIN regions
      /\ DOMAIN regions' = DOMAIN regions \cup {r}
      /\ regions'[r].team = team /\ team \in Teams
      /\ DOMAIN parInfo' = DOMAIN parInfo \cup {r}
      /\ parInfo'[r].cnt = 0 /\ parInfo'[r].barrier = NULL
      /\ \A q \in DOMAIN parInfo : parInfo'[q] = parInfo[q]
      /\ taskData' = taskData /\ reached' = reached
  BY Zenon, <1>1, ParallelBeginRounds
<1>3. \A q : q # r => Same(q)
  <2>1. ASSUME NEW q, q # r
        PROVE  /\ q \in DOMAIN regions' => q \in DOMAIN regions
               /\ \/ q \notin DOMAIN parInfo /\ q \notin DOMAIN parInfo'
                  \/ q \in DOMAIN parInfo /\ q \in DOMAIN parInfo' /\ parInfo'[q] = parInfo[q]
    BY Zenon, <1>2, <2>1
  <2> QED
    BY Zenon, <1>2, <2>1, StillStepSame
<1>4. /\ ~Recorded(r) /\ TeamOf(r) = {} /\ CountIn(r) = 0 /\ BarrierIn(r) = NULL
      /\ EnteredIn(r) = [u \in Threads |-> 0] /\ NodeIn(r) = [u \in Threads |-> NULL]
  BY Zenon, <1>2 DEF Recorded, TeamOf, CountIn, BarrierIn, EnteredIn, NodeIn
<1>5. ASSUME NEW u \in Threads, NEW x, x = Implicit(r, u)
      PROVE  x \notin DOMAIN reached' /\ x \notin DOMAIN taskData'
  <2>1. x[2] = r /\ x[1] = "implicit"
    BY <1>5 DEF Implicit
  <2> QED
    <3>1. x \notin DOMAIN reached
      BY Zenon, <1>2, <2>1 DEF LifetimeInv, ReachedInv
    <3>2. x \notin DOMAIN taskData
      BY Zenon, <2>1, <3>1 DEF LifetimeInv, DataInv
    <3> QED
      BY Zenon, <1>2, <3>1, <3>2
<1>6. /\ CountIn(r)' = 0 /\ BarrierIn(r)' = NULL
      /\ EnteredIn(r)' = [u \in Threads |-> 0] /\ NodeIn(r)' = [u \in Threads |-> NULL]
      /\ Recorded(r)' <=> Cardinality(team) > 1
      /\ TeamOf(r)' = IF Recorded(r)' THEN team ELSE {}
  <2>1. CountIn(r)' = 0 /\ BarrierIn(r)' = NULL
    BY Zenon, <1>2 DEF CountIn, BarrierIn
  <2>2. EnteredIn(r)' = [u \in Threads |-> 0]
    BY Zenon, <1>5 DEF EnteredIn, Entered
  <2>3. NodeIn(r)' = [u \in Threads |-> NULL]
    BY Zenon, <1>5 DEF NodeIn
  <2> QED
    BY Zenon, <1>2, <2>1, <2>2, <2>3 DEF Recorded, TeamOf
<1>7. CASE ~(Cardinality(team) > 1)
  <2>1. Same(r)
    BY Zenon, <1>4, <1>6, <1>7 DEF Same
  <2> QED
    BY Zenon, <1>3, <2>1
<1>8. CASE Cardinality(team) > 1
  <2>1. /\ regionTeam' = [regionTeam EXCEPT ![r] = TeamOf(r)']
        /\ regionTeam[r] = TeamOf(r)
    BY Zenon, <1>2, <1>3, MapUpdate, MapRegion
  <2>2. UNCHANGED <<regionEntered, regionNode, regionCnt, regionBarrier>>
    <3>1. \A q \in 1..MaxRegions :
            /\ EnteredIn(q)' = EnteredIn(q) /\ NodeIn(q)' = NodeIn(q)
            /\ CountIn(q)' = CountIn(q) /\ BarrierIn(q)' = BarrierIn(q)
      BY Zenon, <1>3, <1>4, <1>6 DEF Same
    <3> QED
      BY <3>1 DEF regionEntered, regionNode, regionCnt, regionBarrier
  <2>3. team \in SUBSET Threads /\ B!IsFiniteSet(team) /\ B!Cardinality(team) > 1
    BY Zenon, <1>2, <1>8, TeamsAssumption, SameFinite, SameCardinality
  <2>4. regionTeam[r] = {} /\ regionTeam' = [regionTeam EXCEPT ![r] = team]
    BY Zenon, <1>4, <1>6, <1>8, <2>1
  <2>5. B!Form(r)
    BY Zenon, <2>2, <2>3, <2>4 DEF B!Form
  <2> QED
    BY Zenon, <1>2, <2>5
<1> QED
  BY <1>7, <1>8

LEMMA SyncRegionEnterMaps ==
  ASSUME TypeOK, TypeOK', LifetimeInv, RoundInv, GraphInv,
         NEW t \in Threads, NEW c \in {"barrier", "join"},
         CbSyncRegionBegin(t, c), parInfo[cur[t][2]].teamSize > 1
  PROVE  \E r \in 1..MaxRegions : B!Enter(r, t)
<1>1. PICK x : x = cur[t]
  BY Zenon, SMT, Z3
<1>2. PICK r : r = x[2]
  OBVIOUS
<1>3. PICK b : b = EnteredNode(t, x)
  OBVIOUS
<1>4. /\ r \in DOMAIN parInfo /\ x \in DOMAIN taskData /\ x \in DOMAIN reached
      /\ r \in DOMAIN regions /\ x = Implicit(r, t) /\ parInfo[r] \in ParallelRegionData
      /\ InImplicitTask(t)
  BY Zenon, <1>1, <1>2, CurrentImplicit DEF CbSyncRegionBegin
<1>5. /\ parInfo[r].teamSize = Cardinality(regions[r].team) /\ Recorded(r)
      /\ TeamOf(r) = regions[r].team /\ t \in regions[r].team /\ r \in 1..MaxRegions
  <2>1. parInfo[r].teamSize = Cardinality(regions[r].team) /\ Recorded(r)
    BY Zenon, <1>1, <1>2, <1>4 DEF Recorded, RoundInv, SizeInv
  <2>2. t \in regions[r].team
    <3>1. x[3] = t /\ x[3] \in regions[x[2]].team
      BY SMT, Z3, <1>4, PosFacts DEF Implicit
    <3> QED
      BY Zenon, <1>2, <3>1
  <2>3. r \in 1..MaxRegions
    BY <1>4, BoundsAssumption DEF TypeOK, RoundInv, SizeInv
  <2> QED
    BY Zenon, <2>1, <2>2, <2>3 DEF TeamOf
<1>6. /\ \A q : q # r => Same(q)
      /\ TeamOf(r)' = TeamOf(r)
      /\ EnteredIn(r)' = [EnteredIn(r) EXCEPT ![t] = @ + 1]
      /\ NodeIn(r)' = [NodeIn(r) EXCEPT ![t] = b]
      /\ CountIn(r)' = Arrived(parInfo[r], b).cnt /\ BarrierIn(r)' = b
  <2>1. /\ \A q : q # r => Same(q)
        /\ TeamOf(r)' = TeamOf(r)
        /\ EnteredIn(r)' = [EnteredIn(r) EXCEPT ![t] = @ + 1]
    BY <1>1, <1>2, <1>3, SyncRegionEnterSees
  <2>2. NodeIn(r)' = [NodeIn(r) EXCEPT ![t] = b]
    <3>1. \A u \in Threads : NodeIn(r)'[u] = IF u = t THEN b ELSE NodeIn(r)[u]
      BY <1>1, <1>2, <1>3, SyncRegionEnterSees
    <3>2. NodeIn(r)' = [u \in Threads |-> NodeIn(r)'[u]]
      BY Zenon DEF NodeIn
    <3>3. NodeIn(r) = [u \in Threads |-> NodeIn(r)[u]]
      BY Zenon DEF NodeIn
    <3> QED
      BY <3>1, <3>2, <3>3
  <2>3. CountIn(r)' = Arrived(parInfo[r], b).cnt /\ BarrierIn(r)' = b
    BY <1>1, <1>2, <1>3, SyncRegionEnterSees
  <2> QED
    BY Zenon, <2>1, <2>2, <2>3
<1>7. /\ b # NULL
      /\ parInfo[r].cnt = 0 => \A z \in DOMAIN taskData : taskData[z].barrier # b
      /\ parInfo[r].cnt # 0 => b = parInfo[r].barrier
  <2>1. parInfo[r].cnt # 0 => b = parInfo[r].barrier
    BY Zenon, <1>2, <1>3 DEF EnteredNode, FirstAtBarrier
  <2> QED
    BY Zenon, <1>2, <1>3, <1>4, <2>1, EnteredNodeFacts
<1>8. /\ regionTeam[r] = regions[r].team /\ regionEntered[r] = EnteredIn(r)
      /\ regionNode[r] = NodeIn(r) /\ regionCnt[r] = parInfo[r].cnt
      /\ regionBarrier[r] = parInfo[r].barrier
  BY Zenon, <1>4, <1>5, MapRegion DEF CountIn, BarrierIn
<1>9. /\ regionTeam' = [regionTeam EXCEPT ![r] = TeamOf(r)']
      /\ regionEntered' = [regionEntered EXCEPT ![r] = EnteredIn(r)']
      /\ regionNode' = [regionNode EXCEPT ![r] = NodeIn(r)']
      /\ regionCnt' = [regionCnt EXCEPT ![r] = CountIn(r)']
      /\ regionBarrier' = [regionBarrier EXCEPT ![r] = BarrierIn(r)']
  BY Zenon, <1>5, <1>6, MapUpdate
<1>10. /\ t \in regionTeam[r] /\ B!Open(r) /\ B!AllIn(r, t)
       /\ regionEntered[r][t] < MaxConstructs + 1
  <2>1. ~InBarrier(x)
    BY Zenon, <1>1, <1>3, SyncRegionEnterRounds
  <2>2. /\ \A u \in regions[r].team :
             /\ BarriersEntered(x) <= Entered(r, u)
             /\ Entered(r, u) > 0 => /\ Implicit(r, u) \in DOMAIN taskData
                                     /\ taskData[Implicit(r, u)].barrier # NULL
        /\ BarriersEntered(x) < MaxConstructs + 1
    BY Zenon, <1>1, <1>2, <1>4, <1>5, <2>1, MayEnter
  <2>3. \A u \in regions[r].team :
          /\ EnteredIn(r)[u] = Entered(r, u)
          /\ Entered(r, u) > 0 => NodeIn(r)[u] # NULL
    <3>1. regions[r].team \subseteq Threads
      <4>1. regions[r] \in Region
        BY <1>4 DEF TypeOK
      <4> QED
        BY Zenon, <4>1 DEF Region
    <3> QED
      BY Zenon, <1>5, <2>2, <3>1 DEF EnteredIn, NodeIn
  <2>4. Entered(r, t) = BarriersEntered(x)
    BY Zenon, <1>4 DEF Entered
  <2> QED
    BY Zenon, <1>5, <1>8, <2>2, <2>3, <2>4 DEF B!Open, B!AllIn
<1>11. regionEntered' = [regionEntered EXCEPT ![r][t] = @ + 1]
  BY Zenon, <1>6, <1>8, <1>9
<1>12. /\ regionBarrier' \in [1..MaxRegions -> Node \cup {NULL}] /\ regionBarrier'[r] = b
       /\ \A q \in (1..MaxRegions) \ {r} : regionBarrier'[q] = regionBarrier[q]
  <2>1. ASSUME NEW q \in 1..MaxRegions PROVE BarrierIn(q)' \in Node \cup {NULL}
    <3>1. ASSUME q \in DOMAIN parInfo' PROVE parInfo'[q].barrier \in Node \cup {NULL}
      <4>1. parInfo'[q] \in ParallelRegionData
        BY Zenon, <3>1 DEF TypeOK
      <4> QED
        BY Zenon, <4>1 DEF ParallelRegionData
    <3> QED
      BY Zenon, <3>1 DEF BarrierIn
  <2>2. regionBarrier' \in [1..MaxRegions -> Node \cup {NULL}]
    BY Zenon, <2>1 DEF regionBarrier
  <2>3. regionBarrier'[r] = b
    BY Zenon, <1>5, <1>6 DEF regionBarrier
  <2>4. \A q \in (1..MaxRegions) \ {r} : regionBarrier'[q] = regionBarrier[q]
    BY Zenon, <1>6 DEF regionBarrier, Same
  <2> QED
    BY Zenon, <2>2, <2>3, <2>4
<1>13. regionNode' = [regionNode EXCEPT ![r][t] = regionBarrier'[r]]
  BY Zenon, <1>6, <1>8, <1>9, <1>12
<1>14. IF regionCnt[r] = 0 THEN regionBarrier'[r] \notin {regionNode[r][u] : u \in regionTeam[r]}
                           ELSE regionBarrier'[r] = regionBarrier[r]
  <2>1. CASE parInfo[r].cnt = 0
    <3>1. ASSUME NEW u \in regions[r].team PROVE NodeIn(r)[u] # b
      <4>1. u \in Threads
        <5>1. regions[r] \in Region
          BY <1>4 DEF TypeOK
        <5> QED
          BY Zenon, <5>1 DEF Region
      <4> QED
        BY Zenon, <1>7, <2>1, <4>1 DEF NodeIn
    <3> QED
      BY Zenon, <1>8, <1>12, <2>1, <3>1
  <2>2. CASE parInfo[r].cnt # 0
    BY Zenon, <1>7, <1>8, <1>12, <2>2
  <2> QED
    BY <2>1, <2>2
<1>15. regionCnt' = [regionCnt EXCEPT ![r] = B!Count(r)]
  <2>1. Arrived(parInfo[r], b).cnt = IF parInfo[r].cnt > 0 /\ parInfo[r].cnt + 1 >= parInfo[r].teamSize
                                     THEN 0 ELSE parInfo[r].cnt + 1
    BY <1>4 DEF Arrived, FirstAtBarrier, ParallelRegionData
  <2>2. B!Count(r) = Arrived(parInfo[r], b).cnt
    BY Zenon, <1>5, <1>8, <2>1, SameCardinality DEF B!Count
  <2> QED
    BY Zenon, <1>6, <1>9, <2>2
<1>16. regionTeam' = regionTeam
  <2>1. \A q : TeamOf(q)' = TeamOf(q)
    BY Zenon, <1>6 DEF Same
  <2> QED
    BY Zenon, <2>1 DEF regionTeam
<1>17. B!Enter(r, t)
  BY Zenon, <1>7, <1>10, <1>11, <1>12, <1>13, <1>14, <1>15, <1>16 DEF B!Enter
<1> QED
  BY Zenon, <1>5, <1>17

LEMMA InitMaps ==
  ASSUME Init
  PROVE  B!Init
<1>1. \A r : ~Recorded(r)
  BY Zenon, RoundInit DEF Recorded
<1> QED
  BY Zenon, <1>1 DEF B!Init, regionTeam, regionEntered, regionNode, regionCnt, regionBarrier,
                     TeamOf, EnteredIn, NodeIn, CountIn, BarrierIn

\* Each step keeps what BarrierCounter sees or is one of its steps.
LEMMA StepMaps ==
  ASSUME Shortfall = 0, TypeOK, TypeOK', LifetimeInv, LifetimeInv', GraphInv, RoundInv,
         [Next]_vars
  PROVE  [B!Next]_B!vars
<1>1. ASSUME NEW t \in Threads, Step(t) PROVE [B!Next]_B!vars
  <2>1. Quiet \/ BarrierStep(t)
    BY Zenon, <1>1, StepRounds
  <2>2. ASSUME \A r \in 1..MaxRegions : Same(r) PROVE UNCHANGED B!vars
    BY Zenon, <2>2, MapSame
  <2>3. CASE Quiet
    BY Zenon, <2>2, <2>3, QuietSame
  <2>4. ASSUME NEW team, CbParallelBegin(t, team, Cardinality(team)) PROVE [B!Next]_B!vars
    BY Zenon, <2>2, <2>4, ParallelBeginMaps DEF B!Next
  <2>5. CASE CbImplicitTaskEnd(t)
    BY Zenon, <2>2, <2>5, ImplicitTaskEndMaps DEF B!Next
  <2>6. CASE CbParallelEnd(t)
    BY Zenon, <2>2, <2>6, ParallelEndMaps DEF B!Next
  <2>7. ASSUME NEW c \in {"barrier", "join"}, CbSyncRegionBegin(t, c),
               parInfo[cur[t][2]].teamSize > 1
        PROVE  [B!Next]_B!vars
    BY Zenon, <2>7, SyncRegionEnterMaps DEF B!Next
  <2> QED
    BY Zenon, <2>1, <2>3, <2>4, <2>5, <2>6, <2>7 DEF BarrierStep
<1>2. CASE UNCHANGED vars
  <2>1. /\ regions' = regions /\ taskData' = taskData /\ parInfo' = parInfo
        /\ \A r, u : Entered(r, u)' = Entered(r, u)
    BY Zenon, <1>2, RoundStutter
  <2>2. \A r \in 1..MaxRegions : Same(r)
    BY Zenon, <2>1 DEF Same, Recorded, TeamOf, EnteredIn, NodeIn, CountIn, BarrierIn
  <2> QED
    BY Zenon, <2>2, MapSame
<1> QED
  BY Zenon, <1>1, <1>2 DEF Next, Terminated

-----------------------------------------------------------------------------
(* The theorems.                                                           *)

\* Every variable keeps its type; in particular _barrier_cnt never becomes
\* negative and no callback writes a field of data that is gone.
THEOREM TypeCorrect == Spec => []TypeOK
<1>1. Init => TypeOK /\ LifetimeInv
  BY SMT, Z3, InitOK
<1>2. TypeOK /\ LifetimeInv /\ [Next]_vars => TypeOK' /\ LifetimeInv'
  BY TypeStep, LifetimeStep
<1> QED
  BY <1>1, <1>2, PTL DEF Spec

\* The lifetimes of TaskData and ParallelRegionData are as the invariant says.
THEOREM Lifetimes == Spec => []LifetimeInv
<1>1. Init => TypeOK /\ LifetimeInv
  BY SMT, Z3, InitOK
<1>2. TypeOK /\ LifetimeInv /\ [Next]_vars => TypeOK' /\ LifetimeInv'
  BY TypeStep, LifetimeStep
<1> QED
  BY <1>1, <1>2, PTL DEF Spec

\* The late read of _team_size at the end of the join barrier, by a worker, is
\* the only use of deleted TaskData, ParallelRegionData or ThreadData: nested
\* regions, suspended tasks and workers that are late elsewhere add none, however
\* many threads, regions, constructs and tasks there are, and even when the
\* runtime forms smaller teams than requested.
THEOREM LifetimeSafety == Spec => []FreedOnlyReadAtJoin
<1>1. TypeOK /\ LifetimeInv => FreedOnlyReadAtJoin
  BY LifetimeImplies
<1> QED
  BY <1>1, TypeCorrect, Lifetimes, PTL

\* The graph under construction is as GraphInv says.
THEOREM GraphInvariant == Spec => []GraphInv
<1>1. Init => GraphInv
  BY InitGraph
<1>2. TypeOK /\ TypeOK' /\ LifetimeInv /\ GraphInv /\ [Next]_vars => GraphInv'
  BY GraphStep
<1> QED
  BY <1>1, <1>2, TypeCorrect, Lifetimes, PTL DEF Spec

\* cb_implicit_task deletes the node made for the code after the last barrier
\* while other threads go on building the graph: no edge vector and no pointer
\* in TaskData, ParallelRegionData, WorksharingData or _final_node is left with
\* it, for any number of threads, nested regions, loops and tasks.
THEOREM NodesStayLive == Spec => []NoDangling
<1>1. GraphInv => NoDangling
  BY GraphInvImplies
<1> QED
  BY <1>1, GraphInvariant, PTL

\* connect_nodes and disconnect_nodes keep the exit edges of the sources and the
\* entry edges of the targets the same, each edge held once, and cb_implicit_task only
\* ever deletes a node that no other node has an edge from or to: ~Node leaves
\* the edges that other nodes hold alone.
THEOREM EdgeVectorsAgree == Spec => []EdgesMirrored
<1>1. GraphInv => EdgesMirrored
  BY DEF GraphInv
<1> QED
  BY <1>1, GraphInvariant, PTL

\* The threads of a team go through its barriers in rounds, when the teams have
\* the sizes that cb_parallel_begin was told.
THEOREM Rounds ==
  ASSUME Shortfall = 0
  PROVE  Spec => []RoundInv
<1>1. Init => RoundInv
  BY RoundInit
<1>2. TypeOK /\ TypeOK' /\ LifetimeInv /\ LifetimeInv' /\ GraphInv /\ RoundInv /\ [Next]_vars
        => RoundInv'
  BY RoundNext
<1> QED
  BY <1>1, <1>2, TypeCorrect, Lifetimes, GraphInvariant, PTL DEF Spec

\* The barriers of all regions follow the protocol of BarrierCounter: forks,
\* nested regions, loops, explicit tasks and late workers that run between
\* two arrivals neither change a region's counter or barrier node nor let a
\* thread arrive twice.
THEOREM CallbacksImplementBarrierCounter ==
  ASSUME Shortfall = 0
  PROVE  Spec => ImplementsBarrierCounter
<1>1. Init => B!Init
  BY InitMaps
<1>2. TypeOK /\ TypeOK' /\ LifetimeInv /\ LifetimeInv' /\ GraphInv /\ RoundInv /\ [Next]_vars
        => [B!Next]_B!vars
  BY StepMaps
<1> QED
  BY <1>1, <1>2, TypeCorrect, Lifetimes, GraphInvariant, Rounds, PTL
  DEF Spec, ImplementsBarrierCounter, B!Spec

\* Two implicit tasks of a team of one are the same.
LEMMA TeamOfOne ==
  ASSUME TypeOK, LifetimeInv, SizeInv, NEW x \in ImplicitTasks, NEW y \in ImplicitTasks,
         x[2] = y[2], ~Recorded(x[2])
  PROVE  x = y
<1>1. x \in DOMAIN reached /\ y \in DOMAIN reached
  BY SMT, Z3 DEF ImplicitTasks, LifetimeInv, DataInv
<1>2. PICK team : team = regions[x[2]].team
  BY Zenon, SMT, Z3
<1>3. /\ x[3] \in team /\ y[3] \in team /\ x = Implicit(x[2], x[3]) /\ y = Implicit(x[2], y[3])
      /\ x[2] \in DOMAIN regions
  BY <1>1, <1>2, PosFacts
<1>4. IsFiniteSet(team) /\ Cardinality(team) \in Nat
  BY <1>2, <1>3, TeamsAssumption DEF SizeInv
<1>5. ~(Cardinality(team) > 1)
  BY <1>2, <1>3 DEF Recorded
<1>6. Cardinality(team) = 0 \/ Cardinality(team) = 1
  BY <1>4, <1>5
<1>7. Cardinality(team) # 0
  BY Zenon, <1>3, <1>4, FS_EmptySet
<1>8. PICK u : team = {u}
  BY Zenon, <1>4, <1>6, <1>7, FS_Singleton
<1> QED
  BY Zenon, <1>3, <1>8

LEMMA SameNode ==
  TypeOK /\ LifetimeInv /\ RoundInv /\ B!SameRoundSameNode => SameBarrierSameNode
<1> SUFFICES ASSUME TypeOK, LifetimeInv, RoundInv, B!SameRoundSameNode,
                    NEW x \in ImplicitTasks, NEW y \in ImplicitTasks, x[2] = y[2]
             PROVE  BarriersEntered(x) = BarriersEntered(y)
                      <=> taskData[x].barrier = taskData[y].barrier
  BY Zenon DEF SameBarrierSameNode
<1>1. CASE ~Recorded(x[2])
  <2>1. x = y
    BY SMT, Z3, <1>1, TeamOfOne DEF RoundInv
  <2> QED
    BY SMT, Z3, <2>1
<1>2. CASE Recorded(x[2])
  <2>1. x \in DOMAIN reached /\ y \in DOMAIN reached /\ x \in DOMAIN taskData /\ y \in DOMAIN taskData
    BY SMT, Z3 DEF ImplicitTasks, LifetimeInv, DataInv
  <2>2. PICK r, t, u : r = x[2] /\ t = x[3] /\ u = y[3]
    BY Zenon, SMT, Z3
  <2>3. /\ r \in DOMAIN regions /\ t \in regions[r].team /\ u \in regions[r].team
        /\ t \in Threads /\ u \in Threads /\ x = Implicit(r, t) /\ y = Implicit(r, u)
        /\ BarriersEntered(x) \in Nat /\ BarriersEntered(y) \in Nat
    BY <2>1, <2>2, PosFacts
  <2>4. r \in 1..MaxRegions
    BY <2>3, BoundsAssumption DEF RoundInv, SizeInv, TypeOK
  <2>5. /\ BarriersEntered(x) > 0 <=> taskData[x].barrier # NULL
        /\ BarriersEntered(y) > 0 <=> taskData[y].barrier # NULL
    BY Zenon, <1>2 DEF RoundInv
  <2>6. regionTeam[r] = regions[r].team
    BY Zenon, <1>2, <2>2, <2>4 DEF regionTeam, TeamOf
  <2>7. regionEntered[r][t] = BarriersEntered(x) /\ regionEntered[r][u] = BarriersEntered(y)
    BY Zenon, <1>2, <2>1, <2>2, <2>3, <2>4 DEF regionEntered, EnteredIn, Entered
  <2>8. regionNode[r][t] = taskData[x].barrier /\ regionNode[r][u] = taskData[y].barrier
    BY Zenon, <1>2, <2>1, <2>2, <2>3, <2>4 DEF regionNode, NodeIn
  <2>9. taskData[x].barrier # NULL /\ taskData[y].barrier # NULL =>
          (taskData[x].barrier = taskData[y].barrier <=> BarriersEntered(x) = BarriersEntered(y))
    <3>1. \A a, b \in regionTeam[r] :
            regionNode[r][a] # NULL /\ regionNode[r][b] # NULL =>
              (regionNode[r][a] = regionNode[r][b] <=> regionEntered[r][a] = regionEntered[r][b])
      BY Zenon, <2>4 DEF B!SameRoundSameNode
    <3>2. t \in regionTeam[r] /\ u \in regionTeam[r]
      BY Zenon, <2>3, <2>6
    <3>3. regionNode[r][t] # NULL /\ regionNode[r][u] # NULL =>
            (regionNode[r][t] = regionNode[r][u] <=> regionEntered[r][t] = regionEntered[r][u])
      BY Zenon, <3>1, <3>2
    <3> QED
      BY <2>7, <2>8, <3>3
  <2>10. BarriersEntered(x) = BarriersEntered(y) =>
           (BarriersEntered(x) > 0 <=> BarriersEntered(y) > 0)
    BY Zenon, SMT, Z3
  <2>11. ~(BarriersEntered(x) > 0) /\ ~(BarriersEntered(y) > 0) =>
           BarriersEntered(x) = BarriersEntered(y)
    BY <2>3
  <2> QED
    BY Zenon, <2>5, <2>9, <2>10, <2>11
<1> QED
  BY <1>1, <1>2

LEMMA CountedReset ==
  TypeOK /\ LifetimeInv /\ RoundInv /\ B!CountsArrivals => ResetWhenAllArrived
<1> SUFFICES ASSUME TypeOK, LifetimeInv, RoundInv, B!CountsArrivals,
                    NEW r \in DOMAIN parInfo, parInfo[r].teamSize > 1
             PROVE  parInfo[r].cnt = 0 <=>
                      regions[r].team = {u \in regions[r].team :
                        \A v \in regions[r].team : Entered(r, v) <= Entered(r, u)}
  BY Zenon, SMT, Z3 DEF ResetWhenAllArrived
<1>1. r \in DOMAIN regions /\ r \in 1..MaxRegions
  BY SMT, Z3, BoundsAssumption DEF RoundInv, SizeInv, TypeOK, FreedOnlyReadAtJoin
<1>2. Recorded(r) /\ regions[r].team \in Teams
  BY SMT, Z3, <1>1 DEF RoundInv, SizeInv, Recorded
<1>3. PICK team : team = regions[r].team
  BY Zenon, SMT, Z3
<1>4. \A u \in team : u \in Threads /\ Entered(r, u) \in Nat
  BY <1>1, <1>2, <1>3, TeamsAssumption, EnteredFacts
<1>5. PICK ahead : ahead = {t \in team : \E u \in team : Entered(r, t) > Entered(r, u)}
  BY Zenon
<1>6. B!Ahead(r) = ahead
  <2>1. regionTeam[r] = team
    BY Zenon, <1>1, <1>2, <1>3 DEF regionTeam, TeamOf
  <2>2. \A u \in team : regionEntered[r][u] = Entered(r, u)
    BY Zenon, <1>1, <1>2, <1>4 DEF regionEntered, EnteredIn
  <2> QED
    BY Zenon, SMT, Z3, <1>5, <2>1, <2>2 DEF B!Ahead
<1>7. parInfo[r].cnt = Cardinality(ahead)
  <2>1. regionCnt[r] = parInfo[r].cnt
    BY Zenon, <1>1, <1>2 DEF regionCnt, CountIn
  <2> QED
    BY Zenon, <1>1, <1>6, <2>1, SameCardinality DEF B!CountsArrivals
<1>8. IsFiniteSet(ahead)
  <2>1. IsFiniteSet(team) /\ ahead \in SUBSET team
    BY <1>2, <1>3, <1>5, TeamsAssumption
  <2> QED
    BY <2>1, FS_Subset, Zenon
<1>9. Cardinality(ahead) = 0 <=> ahead = {}
  BY Zenon, <1>8, FS_EmptySet
<1>10. ahead = {} <=> team = {u \in team : \A v \in team : Entered(r, v) <= Entered(r, u)}
  BY SMT, Z3, <1>4, <1>5
<1> QED
  BY Zenon, <1>3, <1>7, <1>9, <1>10

-----------------------------------------------------------------------------
(* What BarrierProofs proves of the counter, for the regions of Callbacks. *)

P == INSTANCE BarrierProofs WITH
  Regions <- 1..MaxRegions, Nodes <- Node, MaxBarriers <- MaxConstructs + 1,
  team <- regionTeam, entered <- regionEntered, node <- regionNode,
  cnt <- regionCnt, barrier <- regionBarrier

LEMMA ProvedFinite ==
  \A S : (P!IsFiniteSet(S) <=> B!IsFiniteSet(S)) /\ P!Cardinality(S) = B!Cardinality(S)
  BY Zenon DEF P!IsFiniteSet, B!IsFiniteSet, P!Cardinality, B!Cardinality

LEMMA ProvedCounter == P!Spec <=> B!Spec
<1>1. P!Init <=> B!Init
  BY Zenon DEF P!Init, B!Init
<1>2. ASSUME NEW r \in 1..MaxRegions PROVE P!Form(r) <=> B!Form(r)
  BY Zenon, ProvedFinite DEF P!Form, B!Form
<1>3. ASSUME NEW r \in 1..MaxRegions PROVE P!Destroy(r) <=> B!Destroy(r)
  BY Zenon DEF P!Destroy, B!Destroy, P!Open, B!Open
<1>4. ASSUME NEW r \in 1..MaxRegions, NEW t \in Threads PROVE P!Enter(r, t) <=> B!Enter(r, t)
  <2>1. P!Count(r) = B!Count(r)
    BY Zenon, ProvedFinite DEF P!Count, B!Count
  <2> QED
    BY Zenon, <2>1 DEF P!Enter, B!Enter, P!Open, B!Open, P!AllIn, B!AllIn
<1>5. ASSUME NEW r \in 1..MaxRegions, NEW t \in Threads PROVE P!Leave(r, t) <=> B!Leave(r, t)
  BY Zenon DEF P!Leave, B!Leave
<1>6. P!Next <=> B!Next
  BY Zenon, <1>2, <1>3, <1>4, <1>5 DEF P!Next, B!Next
<1>7. UNCHANGED P!vars <=> UNCHANGED B!vars
  BY Zenon DEF P!vars, B!vars
<1> QED
  BY <1>1, <1>6, <1>7, PTL DEF P!Spec, B!Spec

LEMMA ProvedAssumption == NULL \notin Node /\ MaxConstructs + 1 \in Nat
  BY NullAssumption, BoundsAssumption

\* Two threads of a team hold the same node exactly when they have entered
\* equally many of the region's barriers, in every behaviour of the callbacks:
\* however late one of them is, cb_sync_region never gives it the node of a
\* barrier it is not in.
THEOREM BarriersAreNodes ==
  ASSUME Shortfall = 0
  PROVE  Spec => []SameBarrierSameNode
<1>1. P!SameRoundSameNode <=> B!SameRoundSameNode
  BY Zenon DEF P!SameRoundSameNode, B!SameRoundSameNode
<1>2. P!Spec => []P!SameRoundSameNode
  BY ProvedAssumption, P!NodesFollowRounds
<1> QED
  BY <1>1, <1>2, ProvedCounter, TypeCorrect, Lifetimes, Rounds,
     CallbacksImplementBarrierCounter, SameNode, PTL
  DEF ImplementsBarrierCounter

\* The counter of a region is 0 exactly when every thread of the team has
\* entered the latest barrier, for teams of any size, nested or not: the test
\* "all the threads reached the barrier" of cb_sync_region is right.
THEOREM CounterResets ==
  ASSUME Shortfall = 0
  PROVE  Spec => []ResetWhenAllArrived
<1>1. P!CountsArrivals <=> B!CountsArrivals
  BY Zenon, ProvedFinite DEF P!CountsArrivals, B!CountsArrivals, P!Ahead, B!Ahead
<1>2. P!Spec => []P!CountsArrivals
  BY ProvedAssumption, P!CounterCounts
<1> QED
  BY <1>1, <1>2, ProvedCounter, TypeCorrect, Lifetimes, Rounds,
     CallbacksImplementBarrierCounter, CountedReset, PTL
  DEF ImplementsBarrierCounter
=============================================================================
