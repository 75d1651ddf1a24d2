-------------------------- MODULE CallbacksRounds ---------------------------
(***************************************************************************)
(* Proofs about Callbacks, part 4: the threads of a team go through its    *)
(* barriers in rounds (RoundInv), if the teams have the requested sizes.   *)
(***************************************************************************)
EXTENDS CallbacksTypes, FiniteSetTheorems

\* The number of barriers among the first s constructs of a script.
CountBarriers(script, s) == Cardinality({i \in 1..s : script[i] # "loop"})

LEMMA CountFacts ==
  ASSUME NEW f, NEW s \in Nat
  PROVE  /\ CountBarriers(f, 0) = 0 /\ CountBarriers(f, s) \in Nat
         /\ CountBarriers(f, s) <= s
         /\ CountBarriers(f, s + 1) =
              IF f[s + 1] # "loop" THEN CountBarriers(f, s) + 1 ELSE CountBarriers(f, s)
<1> DEFINE S(k) == {i \in 1..k : f[i] # "loop"}
<1>1. IsFiniteSet(1..s) /\ Cardinality(1..s) = s
  BY FS_Interval
<1>2. IsFiniteSet(S(s)) /\ Cardinality(S(s)) \in Nat /\ Cardinality(S(s)) <= s
  <2>1. S(s) \in SUBSET (1..s)
    OBVIOUS
  <2> QED
    BY <1>1, <2>1, FS_Subset, FS_CardinalityType
<1>3. S(0) = {} /\ Cardinality({}) = 0
  <2>1. S(0) = {}
    BY SMT
  <2> QED
    BY <2>1, FS_EmptySet, Zenon
<1>4. CASE f[s + 1] # "loop"
  <2>1. S(s + 1) = S(s) \cup {s + 1} /\ s + 1 \notin S(s)
    BY <1>4, SMT
  <2>2. Cardinality(S(s) \cup {s + 1}) = Cardinality(S(s)) + 1
    BY Zenon, <1>2, <2>1, FS_AddElement
  <2> QED
    BY <1>2, <1>3, <1>4, <2>1, <2>2 DEF CountBarriers
<1>5. CASE f[s + 1] = "loop"
  <2>1. S(s + 1) = S(s)
    BY <1>5, SMT
  <2> QED
    BY Zenon, <1>2, <1>3, <1>5, <2>1 DEF CountBarriers
<1> QED
  BY <1>4, <1>5

LEMMA CountGrows ==
  ASSUME NEW f, NEW s \in Nat, NEW k \in Nat, s <= k
  PROVE  CountBarriers(f, s) <= CountBarriers(f, k)
<1> DEFINE S(j) == {i \in 1..j : f[i] # "loop"}
<1>1. IsFiniteSet(1..k)
  BY FS_Interval
<1>2. S(k) \in SUBSET (1..k) /\ S(s) \in SUBSET S(k)
  BY SMT
<1>3. IsFiniteSet(S(k))
  BY <1>1, <1>2, FS_Subset, Zenon
<1> HIDE DEF S
<1>4. Cardinality(S(s)) <= Cardinality(S(k))
  BY <1>2, <1>3, FS_Subset
<1> QED
  BY <1>4 DEF CountBarriers, S

LEMMA CountSame ==
  ASSUME NEW f, NEW g, NEW s \in Nat, \A i \in 1..s : f[i] = g[i]
  PROVE  CountBarriers(f, s) = CountBarriers(g, s)
<1>1. {i \in 1..s : f[i] # "loop"} = {i \in 1..s : g[i] # "loop"}
  OBVIOUS
<1> QED
  BY <1>1, Zenon DEF CountBarriers

\* The place of implicit task x among the constructs of its region.
Pos(x) == reached[x] + (IF pc[x[3]] = "arrive" /\ cur[x[3]] = x THEN 1 ELSE 0)

LEMMA PosFacts ==
  ASSUME TypeOK, LifetimeInv, NEW x \in DOMAIN reached
  PROVE  /\ x[2] \in DOMAIN regions /\ x[3] \in regions[x[2]].team /\ x[3] \in Threads
         /\ x = Implicit(x[2], x[3]) /\ x[1] = "implicit"
         /\ Len(regions[x[2]].script) \in Nat
         /\ 1..Pos(x) \subseteq DOMAIN regions[x[2]].script
         /\ reached[x] \in Nat /\ Pos(x) \in Nat
         /\ reached[x] <= Pos(x) /\ Pos(x) <= Len(regions[x[2]].script)
         /\ BarriersEntered(x) = CountBarriers(regions[x[2]].script, Pos(x))
         /\ BarriersEntered(x) \in Nat /\ BarriersEntered(x) <= Pos(x)
<1>1. /\ x[2] \in DOMAIN regions /\ x[3] \in regions[x[2]].team
      /\ x = Implicit(x[2], x[3]) /\ reached[x] <= Len(regions[x[2]].script)
  BY Zenon DEF LifetimeInv, ReachedInv
<1>2. x \in Task /\ x[3] \in Threads /\ reached[x] \in Nat
  BY DEF TypeOK, Task
<1>3. x[1] = "implicit"
  BY <1>1 DEF Implicit
<1>4. regions[x[2]].script \in Seq(Construct)
  <2>1. regions[x[2]] \in Region
    BY <1>1 DEF TypeOK
  <2> QED
    BY Zenon, <2>1 DEF Region
<1>5. /\ Len(regions[x[2]].script) \in Nat
      /\ DOMAIN regions[x[2]].script = 1..Len(regions[x[2]].script)
  BY <1>4
<1>6. ASSUME pc[x[3]] = "arrive", cur[x[3]] = x
      PROVE  reached[x] < Len(regions[x[2]].script)
  BY <1>2, <1>6, Zenon DEF LifetimeInv, ThreadInv
<1>7. /\ Pos(x) \in Nat /\ reached[x] <= Pos(x) /\ Pos(x) <= Len(regions[x[2]].script)
  BY <1>1, <1>2, <1>5, <1>6 DEF Pos
<1>8. BarriersEntered(x) = CountBarriers(regions[x[2]].script, Pos(x))
  BY Zenon DEF BarriersEntered, CountBarriers, Pos
<1>9. 1..Pos(x) \subseteq DOMAIN regions[x[2]].script
  BY <1>5, <1>7
<1>10. BarriersEntered(x) \in Nat /\ BarriersEntered(x) <= Pos(x)
  BY <1>7, <1>8, CountFacts
<1> QED
  BY Zenon, <1>1, <1>2, <1>3, <1>5, <1>7, <1>8, <1>9, <1>10

\* The barriers entered follow the place.
LEMMA EnteredMono ==
  ASSUME TypeOK, LifetimeInv, NEW x \in DOMAIN reached, NEW y \in DOMAIN reached,
         x[2] = y[2], Pos(x) <= Pos(y)
  PROVE  BarriersEntered(x) <= BarriersEntered(y)
<1>1. /\ BarriersEntered(x) = CountBarriers(regions[x[2]].script, Pos(x)) /\ Pos(x) \in Nat
      /\ BarriersEntered(y) = CountBarriers(regions[x[2]].script, Pos(y)) /\ Pos(y) \in Nat
  BY PosFacts
<1> QED
  BY <1>1, CountGrows

\* The barriers entered are counted, in this state and in the next.
BarriersCounted ==
  /\ \A x \in DOMAIN reached : BarriersEntered(x) \in Nat
  /\ \A r, u : Entered(r, u) \in Nat

LEMMA EnteredType == TypeOK => BarriersCounted
<1> SUFFICES ASSUME TypeOK PROVE BarriersCounted
  OBVIOUS
<1>1. ASSUME NEW x \in DOMAIN reached PROVE BarriersEntered(x) \in Nat
  <2>1. Pos(x) \in Nat
    BY DEF TypeOK, Pos
  <2>2. BarriersEntered(x) = CountBarriers(regions[x[2]].script, Pos(x))
    BY Zenon DEF BarriersEntered, CountBarriers, Pos
  <2> QED
    BY <2>1, <2>2, CountFacts
<1> QED
  BY <1>1 DEF BarriersCounted, Entered

LEMMA EnteredTypeNext == TypeOK' => BarriersCounted'
  BY EnteredType, PTL

\* Thread u of the region of x, and what it has entered.
LEMMA EnteredFacts ==
  ASSUME TypeOK, LifetimeInv, NEW r \in Nat, NEW u \in Threads
  PROVE  /\ Entered(r, u) \in Nat
         /\ Implicit(r, u) \in DOMAIN reached => Entered(r, u) = BarriersEntered(Implicit(r, u))
  BY PosFacts DEF Entered

\* Nobody is ahead of a task that all others of its team have caught up with.
LEMMA ArrivedEntered ==
  ASSUME TypeOK, LifetimeInv, NEW x \in DOMAIN reached, AllArrived(x), Pos(x) = reached[x],
         NEW u \in regions[x[2]].team
  PROVE  BarriersEntered(x) <= Entered(x[2], u)
<1>1. /\ Implicit(x[2], u) \in DOMAIN reached /\ reached[Implicit(x[2], u)] >= reached[x]
  BY DEF AllArrived
<1>2. Implicit(x[2], u)[2] = x[2]
  BY DEF Implicit
<1>3. Pos(x) <= Pos(Implicit(x[2], u))
  <2>1. /\ reached[x] \in Nat /\ reached[Implicit(x[2], u)] \in Nat
        /\ Pos(Implicit(x[2], u)) \in Nat
        /\ reached[Implicit(x[2], u)] <= Pos(Implicit(x[2], u))
    BY <1>1, PosFacts
  <2> QED
    BY <1>1, <2>1
<1> QED
  BY <1>1, <1>2, <1>3, EnteredMono DEF Entered

-----------------------------------------------------------------------------
(* What a step may do to the rounds of the tasks.                          *)

\* Teams stay as they are, and a script grows at its end only.
KeepsScripts ==
  \A r \in DOMAIN regions :
    /\ r \in DOMAIN regions' /\ regions'[r].team = regions[r].team
    /\ \A i \in DOMAIN regions[r].script :
         i \in DOMAIN regions'[r].script /\ regions'[r].script[i] = regions[r].script[i]

LEMMA EnteredNext ==
  ASSUME TypeOK, LifetimeInv, KeepsScripts, NEW x \in DOMAIN reached
  PROVE  /\ Pos(x)' = Pos(x) => BarriersEntered(x)' = BarriersEntered(x)
         /\ Pos(x)' = Pos(x) + 1 =>
              BarriersEntered(x)' = IF regions'[x[2]].script[Pos(x) + 1] # "loop"
                                    THEN BarriersEntered(x) + 1 ELSE BarriersEntered(x)
<1> DEFINE f == regions[x[2]].script
           g == regions'[x[2]].script
<1>1. /\ x[2] \in DOMAIN regions /\ Pos(x) \in Nat /\ 1..Pos(x) \subseteq DOMAIN f
      /\ BarriersEntered(x) = CountBarriers(f, Pos(x))
  BY PosFacts
<1>2. CountBarriers(f, Pos(x)) = CountBarriers(g, Pos(x))
  <2>1. \A i \in 1..Pos(x) : f[i] = g[i]
    BY <1>1 DEF KeepsScripts
  <2> QED
    BY <1>1, <2>1, CountSame
<1>3. BarriersEntered(x)' = CountBarriers(g, Pos(x)')
  BY Zenon DEF BarriersEntered, CountBarriers, Pos
<1> HIDE DEF f
<1> QED
  BY <1>1, <1>2, <1>3, CountFacts

\* Implicit task x, known before the step, stays where it is among the barriers
\* or enters one; it leaves a barrier that all have entered.
KeepsTask(x) ==
  /\ x \in DOMAIN reached' /\ reached[x] <= reached'[x]
  /\ \/ /\ BarriersEntered(x)' = BarriersEntered(x)
        /\ \/ InBarrier(x) => InBarrier(x)'
           \/ \A u \in regions[x[2]].team : BarriersEntered(x) <= Entered(x[2], u)
     \/ /\ BarriersEntered(x)' = BarriersEntered(x) + 1
        /\ ~InBarrier(x) /\ InBarrier(x)'
  /\ x \in DOMAIN taskData' => x \in DOMAIN taskData
  /\ x \notin DOMAIN taskData' =>
       \/ x \notin DOMAIN taskData /\ reached'[x] = reached[x]
       \/ AtJoin(x) /\ AllArrived(x) /\ reached'[x] = reached[x]

\* Implicit tasks that begin are before their first barrier.
KeepsRounds ==
  /\ KeepsScripts
  /\ \A x \in DOMAIN reached : KeepsTask(x)
  /\ \A x \in DOMAIN reached' : x \notin DOMAIN reached =>
       BarriersEntered(x)' = 0 /\ x \in DOMAIN taskData'
  /\ \A t \in Threads : pc'[t] = "joined" =>
       \/ pc[t] = "joined" /\ cur'[t] = cur[t]
       \/ cur'[t] \notin DOMAIN taskData'
  /\ \A x \in DOMAIN taskData' : x[1] = "implicit" /\ Recorded(x[2])' =>
       \/ /\ x \in DOMAIN taskData /\ taskData'[x].barrier = taskData[x].barrier
          /\ BarriersEntered(x)' = BarriersEntered(x)
       \/ BarriersEntered(x)' = 0 /\ taskData'[x].barrier = NULL
       \/ BarriersEntered(x)' > 0 /\ taskData'[x].barrier # NULL

LEMMA RoundStep ==
  ASSUME TypeOK, TypeOK', LifetimeInv, LifetimeInv', RoundInv, SizeInv', KeepsRounds
  PROVE  RoundInv'
<1>1. ASSUME NEW r \in DOMAIN regions, NEW u \in regions[r].team
      PROVE  Entered(r, u) \in Nat /\ Entered(r, u)' \in Nat /\ Entered(r, u) <= Entered(r, u)'
  <2>2. Entered(r, u) \in Nat /\ Entered(r, u)' \in Nat
    BY Zenon, EnteredType, EnteredTypeNext DEF BarriersCounted
  <2>3. CASE Implicit(r, u) \in DOMAIN reached
    <3>1. KeepsTask(Implicit(r, u)) /\ BarriersEntered(Implicit(r, u)) \in Nat
      BY Zenon, <2>3, PosFacts DEF KeepsRounds
    <3>2. /\ Implicit(r, u) \in DOMAIN reached'
          /\ BarriersEntered(Implicit(r, u)) <= BarriersEntered(Implicit(r, u))'
      BY <3>1 DEF KeepsTask
    <3>3. /\ Entered(r, u) = BarriersEntered(Implicit(r, u))
          /\ Entered(r, u)' = BarriersEntered(Implicit(r, u))'
      BY Zenon, <2>3, <3>2 DEF Entered
    <3> QED
      BY Zenon, <2>2, <3>2, <3>3
  <2>4. CASE Implicit(r, u) \notin DOMAIN reached
    <3>1. Entered(r, u) = 0
      BY <2>4 DEF Entered
    <3> QED
      BY <2>2, <3>1
  <2> QED
    BY <2>3, <2>4
<1>2. ASSUME NEW x \in DOMAIN reached', NEW u \in regions'[x[2]].team
      PROVE  BarriersEntered(x)' <= Entered(x[2], u)' + (IF InBarrier(x)' THEN 1 ELSE 0)
  <2>1. BarriersEntered(x)' \in Nat
    BY Zenon, EnteredTypeNext DEF BarriersCounted
  <2>2. Entered(x[2], u)' \in Nat
    BY Zenon, EnteredTypeNext DEF BarriersCounted
  <2>3. CASE x \notin DOMAIN reached
    BY <2>2, <2>3 DEF KeepsRounds
  <2>4. CASE x \in DOMAIN reached
    <3>1. KeepsTask(x) /\ PassedInv(x) /\ x[2] \in DOMAIN regions /\ BarriersEntered(x) \in Nat
      BY <2>4, PosFacts DEF KeepsRounds, RoundInv
    <3>2. u \in regions[x[2]].team
      BY <3>1 DEF KeepsRounds, KeepsScripts
    <3>3. BarriersEntered(x) <= Entered(x[2], u) + (IF InBarrier(x) THEN 1 ELSE 0)
      BY Zenon, <3>1, <3>2 DEF PassedInv
    <3>4. Entered(x[2], u) \in Nat /\ Entered(x[2], u) <= Entered(x[2], u)'
      BY <1>1, <3>1, <3>2
    <3>5. CASE BarriersEntered(x)' = BarriersEntered(x) + 1 /\ ~InBarrier(x) /\ InBarrier(x)'
      BY <2>2, <3>1, <3>3, <3>4, <3>5
    <3>6. CASE /\ BarriersEntered(x)' = BarriersEntered(x)
               /\ \/ InBarrier(x) => InBarrier(x)'
                  \/ \A v \in regions[x[2]].team : BarriersEntered(x) <= Entered(x[2], v)
      BY <2>2, <3>1, <3>2, <3>3, <3>4, <3>6
    <3> QED
      BY Zenon, <3>1, <3>5, <3>6 DEF KeepsTask
  <2> QED
    BY <2>3, <2>4
<1>3. ASSUME NEW x \in DOMAIN reached', x \notin DOMAIN taskData'
      PROVE  AtJoin(x)' /\ AllArrived(x)'
  <2>1. x \in DOMAIN reached /\ KeepsTask(x) /\ PassedInv(x)
    BY Zenon, <1>3 DEF KeepsRounds, RoundInv
  <2>2. AtJoin(x) /\ AllArrived(x) /\ reached'[x] = reached[x] /\ x[2] \in DOMAIN regions
    BY <1>3, <2>1, PosFacts DEF KeepsTask, PassedInv
  <2>3. AtJoin(x)'
    <3>1. /\ reached[x] \in DOMAIN regions[x[2]].script
          /\ regions[x[2]].script[reached[x]] = "join"
      BY Zenon, <2>2 DEF AtJoin
    <3>2. /\ reached[x] \in DOMAIN regions'[x[2]].script
          /\ regions'[x[2]].script[reached[x]] = "join"
      BY Zenon, <2>2, <3>1 DEF KeepsRounds, KeepsScripts
    <3> QED
      BY Zenon, <2>2, <3>2 DEF AtJoin
  <2>4. ASSUME NEW u \in regions[x[2]].team
        PROVE  /\ Implicit(x[2], u) \in DOMAIN reached'
               /\ reached'[Implicit(x[2], u)] >= reached'[x]
    <3>1. Implicit(x[2], u) \in DOMAIN reached /\ reached[Implicit(x[2], u)] >= reached[x]
      BY <2>2 DEF AllArrived
    <3>2. KeepsTask(Implicit(x[2], u))
      BY Zenon, <3>1 DEF KeepsRounds
    <3>3. /\ Implicit(x[2], u) \in DOMAIN reached'
          /\ reached[Implicit(x[2], u)] <= reached'[Implicit(x[2], u)]
      BY Zenon, <3>2 DEF KeepsTask
    <3>4. /\ reached[Implicit(x[2], u)] \in Nat /\ reached'[Implicit(x[2], u)] \in Nat
          /\ reached[x] \in Nat
      BY <2>1, <3>1, <3>3 DEF TypeOK
    <3> QED
      BY <2>2, <3>1, <3>3, <3>4
  <2>5. AllArrived(x)'
    BY Zenon, <2>2, <2>4 DEF AllArrived, KeepsRounds, KeepsScripts
  <2> QED
    BY <2>3, <2>5
<1>4. ASSUME NEW t \in Threads, pc'[t] = "joined"
      PROVE  cur'[t] \notin DOMAIN taskData'
  <2>1. CASE pc[t] = "joined" /\ cur'[t] = cur[t]
    <3>1. cur[t] \notin DOMAIN taskData /\ ThreadInv(t)
      BY Zenon, <2>1 DEF RoundInv, LifetimeInv
    <3>2. cur[t] \in DOMAIN reached
      BY <2>1, <3>1 DEF ThreadInv, InUse
    <3> QED
      BY Zenon, <2>1, <3>1, <3>2 DEF KeepsRounds, KeepsTask
  <2> QED
    BY Zenon, <1>4, <2>1 DEF KeepsRounds
<1>5. ASSUME NEW x \in ImplicitTasks', Recorded(x[2])'
      PROVE  BarriersEntered(x)' > 0 <=> taskData'[x].barrier # NULL
  <2>1. x \in DOMAIN taskData' /\ x[1] = "implicit"
    BY DEF ImplicitTasks
  <2>2. CASE /\ x \in DOMAIN taskData /\ taskData'[x].barrier = taskData[x].barrier
             /\ BarriersEntered(x)' = BarriersEntered(x)
    <3>1. x \in ImplicitTasks /\ x \in DOMAIN reached
      BY Zenon, <2>1, <2>2 DEF ImplicitTasks, LifetimeInv, DataInv
    <3>2. x[2] \in DOMAIN regions
      BY <3>1, PosFacts
    <3>3. Recorded(x[2])
      BY Zenon, <1>5, <3>2 DEF Recorded, KeepsRounds, KeepsScripts
    <3> QED
      BY Zenon, <2>2, <3>1, <3>3 DEF RoundInv
  <2>3. CASE BarriersEntered(x)' = 0 /\ taskData'[x].barrier = NULL
    BY <2>3
  <2> QED
    BY Zenon, <1>5, <2>1, <2>2, <2>3 DEF KeepsRounds
<1>6. \A x \in DOMAIN reached' : PassedInv(x)'
  BY Zenon, <1>2, <1>3 DEF PassedInv
<1> QED
  BY Zenon, <1>4, <1>5, <1>6 DEF RoundInv

-----------------------------------------------------------------------------
(* The steps that leave the recorded barriers alone.                       *)

\* The step keeps the barrier node that implicit task x holds.
KeepsNode(x) ==
  /\ x \in DOMAIN taskData =>
       x \in DOMAIN taskData' /\ taskData'[x].barrier = taskData[x].barrier
  /\ x \in DOMAIN taskData' => x \in DOMAIN taskData \/ taskData'[x].barrier = NULL

KeepsNodes == \A x : x[1] = "implicit" => KeepsNode(x)

Quiet ==
  /\ KeepsRounds /\ KeepsNodes /\ DOMAIN regions' = DOMAIN regions /\ parInfo' = parInfo
  /\ \A x \in DOMAIN reached : Recorded(x[2]) => BarriersEntered(x)' = BarriersEntered(x)

\* What BarrierCounter sees of region r.
Same(r) ==
  /\ TeamOf(r)' = TeamOf(r) /\ EnteredIn(r)' = EnteredIn(r) /\ NodeIn(r)' = NodeIn(r)
  /\ CountIn(r)' = CountIn(r) /\ BarrierIn(r)' = BarrierIn(r)

LEMMA RecordedSame ==
  ASSUME KeepsRounds, NEW r, r \in DOMAIN regions' => r \in DOMAIN regions
  PROVE  (Recorded(r)' <=> Recorded(r)) /\ TeamOf(r)' = TeamOf(r)
<1>1. r \in DOMAIN regions => r \in DOMAIN regions' /\ regions'[r].team = regions[r].team
  BY Zenon DEF KeepsRounds, KeepsScripts
<1>2. Recorded(r)' <=> Recorded(r)
  BY Zenon, <1>1 DEF Recorded
<1> QED
  BY Zenon, <1>1, <1>2 DEF TeamOf, Recorded

\* Thread t of region r, seen by BarrierCounter.
LEMMA ThreadSame ==
  ASSUME KeepsRounds, NEW r, r \in DOMAIN regions' => r \in DOMAIN regions,
         NEW t \in Threads, NEW x, x = Implicit(r, t)
  PROVE  /\ (Recorded(r) /\ x \in DOMAIN reached => BarriersEntered(x)' = BarriersEntered(x))
              => EnteredIn(r)'[t] = EnteredIn(r)[t]
         /\ KeepsNode(x) => NodeIn(r)'[t] = NodeIn(r)[t]
<1>1. Recorded(r)' <=> Recorded(r)
  BY Zenon, RecordedSame
<1>2. ASSUME Recorded(r) /\ x \in DOMAIN reached => BarriersEntered(x)' = BarriersEntered(x)
      PROVE  EnteredIn(r)'[t] = EnteredIn(r)[t]
  <2>1. CASE x \in DOMAIN reached
    <3>1. x \in DOMAIN reached'
      BY Zenon, <2>1 DEF KeepsRounds, KeepsTask
    <3> QED
      BY Zenon, <1>1, <1>2, <2>1, <3>1 DEF EnteredIn, Entered
  <2>2. CASE x \notin DOMAIN reached
    <3>1. x \in DOMAIN reached' => BarriersEntered(x)' = 0
      BY Zenon, <2>2 DEF KeepsRounds
    <3> QED
      BY Zenon, <1>1, <2>2, <3>1 DEF EnteredIn, Entered
  <2> QED
    BY <2>1, <2>2
<1>3. ASSUME KeepsNode(x) PROVE NodeIn(r)'[t] = NodeIn(r)[t]
  BY Zenon, <1>1, <1>3 DEF NodeIn, KeepsNode
<1> QED
  BY Zenon, <1>2, <1>3

LEMMA RegionSame ==
  ASSUME KeepsRounds, NEW r, r \in DOMAIN regions' => r \in DOMAIN regions
  PROVE  /\ TeamOf(r)' = TeamOf(r) /\ (Recorded(r)' <=> Recorded(r))
         /\ (\A x \in DOMAIN reached :
               x[2] = r /\ Recorded(r) => BarriersEntered(x)' = BarriersEntered(x))
              => EnteredIn(r)' = EnteredIn(r)
         /\ (\A x : x[1] = "implicit" /\ x[2] = r => KeepsNode(x)) => NodeIn(r)' = NodeIn(r)
         /\ (\/ r \notin DOMAIN parInfo /\ r \notin DOMAIN parInfo'
             \/ r \in DOMAIN parInfo /\ r \in DOMAIN parInfo' /\ parInfo'[r] = parInfo[r])
              => CountIn(r)' = CountIn(r) /\ BarrierIn(r)' = BarrierIn(r)
<1>1. (Recorded(r)' <=> Recorded(r)) /\ TeamOf(r)' = TeamOf(r)
  BY Zenon, RecordedSame
<1>2. ASSUME \A x \in DOMAIN reached :
               x[2] = r /\ Recorded(r) => BarriersEntered(x)' = BarriersEntered(x)
      PROVE  EnteredIn(r)' = EnteredIn(r)
  <2>1. ASSUME NEW t \in Threads PROVE EnteredIn(r)'[t] = EnteredIn(r)[t]
    <3>1. PICK x : x = Implicit(r, t)
      OBVIOUS
    <3>2. x[1] = "implicit" /\ x[2] = r
      BY <3>1 DEF Implicit
    <3>3. Recorded(r) /\ x \in DOMAIN reached => BarriersEntered(x)' = BarriersEntered(x)
      BY Zenon, <1>2, <3>2
    <3> QED
      BY Zenon, <3>1, <3>3, ThreadSame
  <2> QED
    BY <2>1 DEF EnteredIn
<1>3. ASSUME \A x : x[1] = "implicit" /\ x[2] = r => KeepsNode(x)
      PROVE  NodeIn(r)' = NodeIn(r)
  <2>1. ASSUME NEW t \in Threads PROVE NodeIn(r)'[t] = NodeIn(r)[t]
    <3>1. PICK x : x = Implicit(r, t)
      OBVIOUS
    <3>2. x[1] = "implicit" /\ x[2] = r
      BY <3>1 DEF Implicit
    <3> QED
      BY Zenon, <1>3, <3>1, <3>2, ThreadSame
  <2> QED
    BY <2>1 DEF NodeIn
<1>4. ASSUME \/ r \notin DOMAIN parInfo /\ r \notin DOMAIN parInfo'
             \/ r \in DOMAIN parInfo /\ r \in DOMAIN parInfo' /\ parInfo'[r] = parInfo[r]
      PROVE  CountIn(r)' = CountIn(r) /\ BarrierIn(r)' = BarrierIn(r)
  BY Zenon, <1>1, <1>4 DEF CountIn, BarrierIn
<1> QED
  BY Zenon, <1>1, <1>2, <1>3, <1>4

LEMMA QuietSame ==
  ASSUME Quiet, NEW r
  PROVE  Same(r)
  BY Zenon, RegionSame DEF Quiet, KeepsNodes, Same

\* A step of thread t that enters no recorded barrier and ends no task.
Moves(t) ==
  /\ KeepsScripts /\ KeepsNodes
  /\ \A u \in Threads : u # t => cur'[u] = cur[u] /\ pc'[u] = pc[u]
  /\ pc'[t] # "joined"
  /\ \A x \in DOMAIN reached :
       KeepsTask(x) /\ (Recorded(x[2]) => BarriersEntered(x)' = BarriersEntered(x))
  /\ \A x \in DOMAIN reached' : x \notin DOMAIN reached =>
       BarriersEntered(x)' = 0 /\ x \in DOMAIN taskData'

LEMMA MovesRounds ==
  ASSUME TypeOK, LifetimeInv, LifetimeInv', NEW t \in Threads, Moves(t)
  PROVE  KeepsRounds
<1>1. ASSUME NEW u \in Threads, pc'[u] = "joined"
      PROVE  pc[u] = "joined" /\ cur'[u] = cur[u]
  BY Zenon, <1>1 DEF Moves
<1>2. ASSUME NEW x \in DOMAIN taskData', x[1] = "implicit", Recorded(x[2])'
      PROVE  \/ /\ x \in DOMAIN taskData /\ taskData'[x].barrier = taskData[x].barrier
                /\ BarriersEntered(x)' = BarriersEntered(x)
             \/ BarriersEntered(x)' = 0 /\ taskData'[x].barrier = NULL
  <2>1. x \in DOMAIN reached'
    BY Zenon, <1>2 DEF LifetimeInv, DataInv
  <2>2. CASE x \in DOMAIN reached
    <3>1. x[2] \in DOMAIN regions
      BY Zenon, <2>2 DEF LifetimeInv, ReachedInv
    <3>2. Recorded(x[2])
      BY Zenon, <1>2, <3>1 DEF Recorded, Moves, KeepsScripts
    <3>3. KeepsTask(x) /\ BarriersEntered(x)' = BarriersEntered(x)
      BY Zenon, <2>2, <3>2 DEF Moves
    <3>4. x \in DOMAIN taskData
      BY Zenon, <1>2, <3>3 DEF KeepsTask
    <3> QED
      BY Zenon, <1>2, <3>3, <3>4 DEF Moves, KeepsNodes, KeepsNode
  <2>3. CASE x \notin DOMAIN reached
    <3>1. BarriersEntered(x)' = 0 /\ x \notin DOMAIN taskData
      BY Zenon, <1>2, <2>1, <2>3 DEF Moves, LifetimeInv, DataInv
    <3> QED
      BY Zenon, <1>2, <3>1 DEF Moves, KeepsNodes, KeepsNode
  <2> QED
    BY <2>2, <2>3
<1> QED
  BY Zenon, <1>1, <1>2 DEF KeepsRounds, Moves

\* A step of thread t that moves it on past nothing that is a barrier, and
\* leaves the regions alone.
QuietPlace(t) == Moves(t) /\ DOMAIN regions' = DOMAIN regions /\ parInfo' = parInfo

LEMMA QuietPlaceRounds ==
  ASSUME TypeOK, LifetimeInv, LifetimeInv', NEW t \in Threads, QuietPlace(t)
  PROVE  Quiet
<1>1. Moves(t) /\ KeepsScripts
  BY Zenon DEF QuietPlace, Moves
<1>2. KeepsRounds
  BY Zenon, <1>1, MovesRounds
<1> QED
  BY Zenon, <1>1, <1>2 DEF Quiet, QuietPlace, Moves

\* No implicit task begins or ends.
SameNodes ==
  KeepsNodes /\ \A x : x[1] = "implicit" => (x \in DOMAIN taskData' <=> x \in DOMAIN taskData)

\* A step of thread t that changes no place in a region.
StillStep(t) ==
  /\ KeepsScripts /\ reached' = reached
  /\ \A u \in Threads : u # t => cur'[u] = cur[u] /\ pc'[u] = pc[u]
  /\ pc[t] # "arrive" /\ pc'[t] \notin {"arrive", "joined"}
  /\ \A x \in DOMAIN reached :
       \/ InBarrier(x) => InBarrier(x)'
       \/ \A u \in regions[x[2]].team : BarriersEntered(x) <= Entered(x[2], u)
  /\ SameNodes

LEMMA StillStepMoves ==
  ASSUME TypeOK, LifetimeInv, NEW t \in Threads, StillStep(t)
  PROVE  Moves(t)
<1>1. /\ KeepsScripts /\ reached' = reached
      /\ \A u \in Threads : u # t => cur'[u] = cur[u] /\ pc'[u] = pc[u]
      /\ pc[t] # "arrive" /\ pc'[t] # "arrive" /\ pc'[t] # "joined"
      /\ \A x : x[1] = "implicit" => (x \in DOMAIN taskData' <=> x \in DOMAIN taskData)
  BY Zenon DEF StillStep, SameNodes
<1>2. ASSUME NEW x \in DOMAIN reached
      PROVE  BarriersEntered(x)' = BarriersEntered(x) /\ KeepsTask(x)
  <2>1. x[3] \in Threads /\ x[1] = "implicit" /\ reached[x] \in Nat
    BY PosFacts
  <2>2. Pos(x)' = Pos(x)
    <3>1. CASE x[3] = t
      BY Zenon, <1>1, <3>1 DEF Pos
    <3>2. CASE x[3] # t
      BY Zenon, <1>1, <2>1, <3>2 DEF Pos
    <3> QED
      BY <3>1, <3>2
  <2>3. BarriersEntered(x)' = BarriersEntered(x)
    BY Zenon, <1>1, <2>2, EnteredNext
  <2>4. \/ InBarrier(x) => InBarrier(x)'
        \/ \A u \in regions[x[2]].team : BarriersEntered(x) <= Entered(x[2], u)
    BY Zenon DEF StillStep
  <2>5. reached[x] <= reached[x]
    BY <2>1
  <2> QED
    BY Zenon, <1>1, <2>1, <2>3, <2>4, <2>5 DEF KeepsTask
<1>3. KeepsNodes
  BY Zenon DEF StillStep, SameNodes
<1> QED
  BY Zenon, <1>1, <1>2, <1>3 DEF Moves

\* A step that changes no place in a region keeps what is seen of each region
\* whose data it leaves alone.
LEMMA StillStepSame ==
  ASSUME TypeOK, LifetimeInv, LifetimeInv', NEW t \in Threads, StillStep(t),
         NEW r, r \in DOMAIN regions' => r \in DOMAIN regions
  PROVE  /\ TeamOf(r)' = TeamOf(r) /\ EnteredIn(r)' = EnteredIn(r) /\ NodeIn(r)' = NodeIn(r)
         /\ (Recorded(r)' <=> Recorded(r))
         /\ (\/ r \notin DOMAIN parInfo /\ r \notin DOMAIN parInfo'
             \/ r \in DOMAIN parInfo /\ r \in DOMAIN parInfo' /\ parInfo'[r] = parInfo[r])
              => Same(r)
<1>1. Moves(t) /\ KeepsRounds
  BY Zenon, StillStepMoves, MovesRounds
<1>2. /\ \A x \in DOMAIN reached :
           x[2] = r /\ Recorded(r) => BarriersEntered(x)' = BarriersEntered(x)
      /\ \A x : x[1] = "implicit" /\ x[2] = r => KeepsNode(x)
  BY Zenon, <1>1 DEF Moves, KeepsNodes
<1> QED
  BY Zenon, <1>1, <1>2, RegionSame DEF Same

\* A step of thread t that changes neither regions nor places in them.
SettledStep(t) == UNCHANGED <<regions, reached, parInfo>> /\ StillStep(t)

LEMMA SettledStepRounds ==
  ASSUME TypeOK, LifetimeInv, LifetimeInv', RoundInv, NEW t \in Threads, SettledStep(t)
  PROVE  Quiet /\ SizeInv'
<1>1. regions' = regions /\ parInfo' = parInfo /\ Moves(t)
  BY Zenon, StillStepMoves DEF SettledStep
<1>2. QuietPlace(t)
  BY Zenon, <1>1 DEF QuietPlace
<1>3. SizeInv'
  BY Zenon, <1>1 DEF RoundInv, SizeInv
<1> QED
  BY Zenon, <1>2, <1>3, QuietPlaceRounds

\* The tasks that are suspended stay so.
KeepsSuspended ==
  \A y \in DOMAIN tasks : tasks[y].resume # NULL => y \in DOMAIN tasks' /\ tasks'[y] = tasks[y]

\* Nobody enters or leaves a barrier when a thread outside barriers moves.
LEMMA BarrierFrame ==
  ASSUME TypeOK, LifetimeInv, NEW t \in Threads, KeepsSuspended, pc[t] \notin {"arrive", "barrier"},
         \A u \in Threads : u # t => cur'[u] = cur[u] /\ pc'[u] = pc[u],
         NEW x \in DOMAIN reached, InBarrier(x)
  PROVE  InBarrier(x)'
<1>1. x[3] \in Threads
  BY PosFacts
<1>2. CASE cur[x[3]] = x /\ pc[x[3]] \in {"arrive", "barrier"}
  <2>1. x[3] # t
    BY <1>2
  <2> QED
    BY Zenon, <1>1, <1>2, <2>1 DEF InBarrier
<1>3. CASE \E y \in DOMAIN tasks :
             /\ tasks[y].resume # NULL
             /\ tasks[y].resume.task = x /\ tasks[y].resume.pc = "barrier"
  BY Zenon, <1>3 DEF InBarrier, KeepsSuspended
<1> QED
  BY Zenon, <1>2, <1>3 DEF InBarrier

LEMMA NodesFrame ==
  ASSUME DOMAIN taskData' = DOMAIN taskData,
         \A x \in DOMAIN taskData : taskData'[x].barrier = taskData[x].barrier
  PROVE  SameNodes
  BY Zenon DEF SameNodes, KeepsNodes, KeepsNode

LEMMA NodesPut ==
  ASSUME NEW y, y[1] # "implicit", NEW d, taskData' = Put(taskData, y, d)
  PROVE  SameNodes
<1>1. DOMAIN taskData' = DOMAIN taskData \cup {y}
  BY Zenon DEF Put
<1>2. ASSUME NEW x \in DOMAIN taskData, x # y PROVE taskData'[x] = taskData[x]
  BY Zenon, <1>2 DEF Put
<1> QED
  BY Zenon, <1>1, <1>2 DEF SameNodes, KeepsNodes, KeepsNode

\* A thread outside barriers that keeps its place and all implicit tasks.
PlainStep(t) ==
  /\ UNCHANGED <<regions, reached, parInfo>> /\ KeepsSuspended /\ SameNodes
  /\ pc[t] \in {"down", "idle", "run"} /\ pc'[t] \in {"idle", "run", "ended"}
  /\ \A u \in Threads : u # t => cur'[u] = cur[u] /\ pc'[u] = pc[u]

LEMMA PlainStepRounds ==
  ASSUME TypeOK, LifetimeInv, LifetimeInv', RoundInv, NEW t \in Threads, PlainStep(t)
  PROVE  Quiet /\ SizeInv'
<1>1. /\ UNCHANGED <<regions, reached, parInfo>> /\ KeepsSuspended /\ SameNodes
      /\ \A u \in Threads : u # t => cur'[u] = cur[u] /\ pc'[u] = pc[u]
      /\ pc[t] \notin {"arrive", "barrier"}
      /\ pc[t] # "arrive" /\ pc'[t] \notin {"arrive", "joined"}
  BY DEF PlainStep
<1>2. \A x \in DOMAIN reached : InBarrier(x) => InBarrier(x)'
  BY Zenon, <1>1, BarrierFrame
<1>3. SettledStep(t)
  BY Zenon, <1>1, <1>2 DEF SettledStep, StillStep, KeepsScripts
<1> QED
  BY Zenon, <1>3, SettledStepRounds

LEMMA ThreadRounds ==
  ASSUME TypeOK, LifetimeInv, NEW t \in Threads, CbThreadBegin(t) \/ CbThreadEnd(t)
  PROVE  PlainStep(t)
<1>1. /\ UNCHANGED <<taskData, regions, reached, parInfo, tasks>>
      /\ pc[t] \in {"down", "idle", "run"}
      /\ pc' = [pc EXCEPT ![t] = "idle"] \/ pc' = [pc EXCEPT ![t] = "ended"]
      /\ cur' = cur \/ cur' = [cur EXCEPT ![t] = NULL]
  BY DEF CbThreadBegin, CbThreadEnd
<1>2. SameNodes /\ KeepsSuspended
  BY Zenon, <1>1, NodesFrame DEF KeepsSuspended
<1>3. pc \in [Threads -> Location] /\ cur \in [Threads -> Task \cup {NULL}]
  BY Zenon DEF TypeOK
<1>4. /\ pc'[t] \in {"idle", "run", "ended"}
      /\ \A u \in Threads : u # t => cur'[u] = cur[u] /\ pc'[u] = pc[u]
  BY <1>1, <1>3
<1> QED
  BY Zenon, <1>1, <1>2, <1>4 DEF PlainStep

LEMMA TaskCreateInitialRounds ==
  ASSUME TypeOK, LifetimeInv, CbTaskCreateInitial
  PROVE  PlainStep(Master)
<1>1. /\ UNCHANGED <<regions, reached, parInfo, tasks>> /\ pc[Master] = "idle"
      /\ \E d : taskData' = Put(taskData, InitialTask, d)
      /\ pc' = [pc EXCEPT ![Master] = "run"] /\ cur' = [cur EXCEPT ![Master] = InitialTask]
  BY Zenon DEF CbTaskCreateInitial
<1>2. SameNodes /\ KeepsSuspended
  <2>1. InitialTask[1] # "implicit"
    BY DEF InitialTask
  <2>2. PICK d : taskData' = Put(taskData, InitialTask, d)
    BY Zenon, <1>1
  <2> QED
    BY Zenon, <1>1, <2>1, <2>2, NodesPut DEF KeepsSuspended
<1>3. /\ pc \in [Threads -> Location] /\ cur \in [Threads -> Task \cup {NULL}]
      /\ Master \in Threads
  BY Zenon, ThreadsAssumption DEF TypeOK
<1>4. /\ pc'[Master] = "run"
      /\ \A u \in Threads : u # Master => cur'[u] = cur[u] /\ pc'[u] = pc[u]
  BY Zenon, <1>1, <1>3
<1> QED
  BY <1>1, <1>2, <1>4 DEF PlainStep

LEMMA ChunkRounds ==
  ASSUME TypeOK, LifetimeInv, NEW t \in Threads, NEW last, CbExtChunk(t, last) \/ CbExtLoopEnd(t)
  PROVE  PlainStep(t)
<1>1. /\ UNCHANGED <<regions, reached, parInfo, tasks, cur, pc>> /\ pc[t] = "run"
      /\ \/ taskData' = taskData
         \/ \E n : taskData' = [taskData EXCEPT ![cur[t]].ws.lastChunk = n]
         \/ \E n : taskData' = [taskData EXCEPT ![cur[t]].node = n, ![cur[t]].ws = NULL]
  BY Zenon DEF CbExtChunk, CbExtLoopEnd, InImplicitTask
<1>2. cur[t] \in DOMAIN taskData /\ taskData[cur[t]] \in TaskData
  <2>1. InImplicitTask(t)
    BY Zenon DEF CbExtChunk, CbExtLoopEnd
  <2> QED
    BY Zenon, <2>1, CurrentImplicit
<1>3. /\ DOMAIN taskData' = DOMAIN taskData
      /\ \A x \in DOMAIN taskData : taskData'[x].barrier = taskData[x].barrier
  <2>1. CASE taskData' = taskData
    BY Zenon, <2>1
  <2>2. ASSUME NEW n, taskData' = [taskData EXCEPT ![cur[t]].ws.lastChunk = n]
        PROVE  /\ DOMAIN taskData' = DOMAIN taskData
               /\ \A x \in DOMAIN taskData : taskData'[x].barrier = taskData[x].barrier
    BY <1>2, <2>2 DEF TaskData
  <2>3. ASSUME NEW n, taskData' = [taskData EXCEPT ![cur[t]].node = n, ![cur[t]].ws = NULL]
        PROVE  /\ DOMAIN taskData' = DOMAIN taskData
               /\ \A x \in DOMAIN taskData : taskData'[x].barrier = taskData[x].barrier
    BY <1>2, <2>3 DEF TaskData
  <2> QED
    BY Zenon, <1>1, <2>1, <2>2, <2>3
<1>4. SameNodes /\ KeepsSuspended
  BY Zenon, <1>1, <1>3, NodesFrame DEF KeepsSuspended
<1> QED
  BY <1>1, <1>4 DEF PlainStep

LEMMA TaskCreateExplicitRounds ==
  ASSUME TypeOK, LifetimeInv, NEW t \in Threads, CbTaskCreateExplicit(t)
  PROVE  PlainStep(t)
<1> DEFINE y == Explicit(NewNode(t, 1)[2], t)
<1>1. /\ UNCHANGED <<regions, reached, parInfo, cur, pc>> /\ pc[t] = "run"
      /\ \E d : taskData' = Put(taskData, y, d)
      /\ \E e : tasks' = Put(tasks, y, e)
  BY Zenon DEF CbTaskCreateExplicit
<1>2. y[1] = "explicit" /\ ~(y[2] < nextNode[y[3]])
  <2>1. nextNode[t] \in Nat
    BY DEF TypeOK
  <2> QED
    BY <2>1 DEF Explicit, NewNode
<1>3. y \notin DOMAIN tasks
  BY Zenon, <1>2 DEF LifetimeInv, TaskInv, DataInv
<1> HIDE DEF y
<1>4. SameNodes
  <2>1. PICK d : taskData' = Put(taskData, y, d)
    BY Zenon, <1>1
  <2>2. y[1] # "implicit"
    BY <1>2
  <2> QED
    BY Zenon, <2>1, <2>2, NodesPut
<1>5. KeepsSuspended
  <2>1. PICK e : tasks' = Put(tasks, y, e)
    BY Zenon, <1>1
  <2> QED
    BY Zenon, <1>3, <2>1 DEF KeepsSuspended, Put
<1> QED
  BY <1>1, <1>4, <1>5 DEF PlainStep

LEMMA TaskScheduleStartRounds ==
  ASSUME TypeOK, LifetimeInv, NEW t \in Threads, NEW y \in DOMAIN tasks, CbTaskScheduleStart(t, y)
  PROVE  SettledStep(t)
<1> DEFINE s == [thread |-> t, task |-> cur[t], pc |-> pc[t]]
<1>1. /\ UNCHANGED <<taskData, regions, reached, parInfo>> /\ pc[t] \in {"run", "barrier"}
      /\ tasks[y].resume = NULL /\ tasks' = [tasks EXCEPT ![y].resume = s]
      /\ cur' = [cur EXCEPT ![t] = y] /\ pc' = [pc EXCEPT ![t] = "run"]
  BY Zenon DEF CbTaskScheduleStart, toolVars
<1>2. /\ pc \in [Threads -> Location] /\ cur \in [Threads -> Task \cup {NULL}]
      /\ tasks \in [DOMAIN tasks -> ExplicitTask]
  BY Zenon DEF TypeOK
<1>3. /\ pc'[t] = "run" /\ pc[t] # "arrive"
      /\ \A u \in Threads : u # t => cur'[u] = cur[u] /\ pc'[u] = pc[u]
  BY <1>1, <1>2
<1>4. /\ y \in DOMAIN tasks' /\ tasks'[y].resume = s
      /\ \A z \in DOMAIN tasks : z # y => z \in DOMAIN tasks' /\ tasks'[z] = tasks[z]
  BY <1>1, <1>2 DEF ExplicitTask
<1>5. s.task = cur[t] /\ s.pc = pc[t] /\ s # NULL
  <2>1. cur[t] \in Task
    BY <1>1, <1>2 DEF LifetimeInv, ThreadInv
  <2>2. s \in Suspended
    BY <1>1, <2>1 DEF Suspended
  <2> QED
    BY Zenon, <2>2, NullAssumption
<1> HIDE DEF s
<1>6. ASSUME NEW x \in DOMAIN reached, InBarrier(x) PROVE InBarrier(x)'
  <2>1. x[3] \in Threads
    BY PosFacts
  <2>2. CASE cur[x[3]] = x /\ pc[x[3]] \in {"arrive", "barrier"} /\ x[3] = t
    <3>1. s.task = x /\ s.pc = "barrier"
      BY <1>1, <1>5, <2>2
    <3> QED
      BY Zenon, <1>4, <1>5, <3>1 DEF InBarrier
  <2>3. CASE cur[x[3]] = x /\ pc[x[3]] \in {"arrive", "barrier"} /\ x[3] # t
    BY Zenon, <1>3, <2>1, <2>3 DEF InBarrier
  <2>4. CASE \E z \in DOMAIN tasks :
               /\ tasks[z].resume # NULL
               /\ tasks[z].resume.task = x /\ tasks[z].resume.pc = "barrier"
    BY Zenon, <1>1, <1>4, <2>4 DEF InBarrier
  <2> QED
    BY Zenon, <1>6, <2>2, <2>3, <2>4 DEF InBarrier
<1>7. SameNodes
  BY Zenon, <1>1, NodesFrame
<1> QED
  BY <1>1, <1>3, <1>6, <1>7 DEF SettledStep, StillStep, KeepsScripts

LEMMA TaskScheduleEndRounds ==
  ASSUME TypeOK, LifetimeInv, NEW t \in Threads, CbTaskScheduleEnd(t)
  PROVE  SettledStep(t)
<1> DEFINE y == cur[t]
           s == tasks[y].resume
<1>1. /\ UNCHANGED <<taskData, regions, reached, parInfo>> /\ pc[t] = "run"
      /\ y[1] = "explicit" /\ tasks' = Drop(tasks, y)
      /\ cur' = [cur EXCEPT ![t] = s.task] /\ pc' = [pc EXCEPT ![t] = s.pc]
  BY Zenon DEF CbTaskScheduleEnd, toolVars
<1>2. /\ pc \in [Threads -> Location] /\ cur \in [Threads -> Task \cup {NULL}]
      /\ \A z \in DOMAIN tasks : z # y => z \in DOMAIN tasks' /\ tasks'[z] = tasks[z]
  BY Zenon, <1>1 DEF TypeOK, Drop
<1>3. y \in DOMAIN tasks /\ s # NULL /\ s.thread = t
  BY Zenon, <1>1 DEF LifetimeInv, ThreadInv, InUse, Started, Executor
<1>4. s.pc \in {"run", "barrier"} /\ Executor(s.task) = t
  BY Zenon, <1>3, SuspendedTask DEF LifetimeInv, TaskInv, Suspended
<1> HIDE DEF y, s
<1>5. /\ pc'[t] \notin {"arrive", "joined"} /\ pc[t] # "arrive"
      /\ pc'[t] = s.pc /\ cur'[t] = s.task
      /\ \A u \in Threads : u # t => cur'[u] = cur[u] /\ pc'[u] = pc[u]
  BY <1>1, <1>2, <1>4
<1>6. ASSUME NEW x \in DOMAIN reached, InBarrier(x) PROVE InBarrier(x)'
  <2>1. x[3] \in Threads /\ x[1] = "implicit"
    BY PosFacts
  <2>2. CASE cur[x[3]] = x /\ pc[x[3]] \in {"arrive", "barrier"}
    <3>1. x[3] # t
      BY Zenon, <1>1, <2>2
    <3> QED
      BY Zenon, <1>5, <2>1, <2>2, <3>1 DEF InBarrier
  <2>3. CASE s.task = x /\ s.pc = "barrier"
    <3>1. x[3] = t
      BY <1>4, <2>1, <2>3 DEF Executor
    <3> QED
      BY <1>5, <2>3, <3>1 DEF InBarrier
  <2>4. ASSUME NEW z \in DOMAIN tasks, z # y, tasks[z].resume # NULL,
               tasks[z].resume.task = x, tasks[z].resume.pc = "barrier"
        PROVE  InBarrier(x)'
    BY Zenon, <1>2, <2>4 DEF InBarrier
  <2> QED
    BY Zenon, <1>6, <2>2, <2>3, <2>4 DEF InBarrier, s
<1>7. SameNodes
  BY Zenon, <1>1, NodesFrame
<1> QED
  BY <1>1, <1>5, <1>6, <1>7 DEF SettledStep, StillStep, KeepsScripts

LEMMA SyncRegionEndRounds ==
  ASSUME TypeOK, LifetimeInv, NEW t \in Threads, CbSyncRegionLoad(t) \/ CbSyncRegionEnd(t)
  PROVE  SettledStep(t)
<1>1. /\ UNCHANGED <<taskData, regions, reached, parInfo, tasks, cur>>
      /\ pc[t] \in {"barrier", "wake"} /\ AllArrived(cur[t])
      /\ \/ pc' = [pc EXCEPT ![t] = "wake"]
         \/ pc' = [pc EXCEPT ![t] = "leave"] \/ pc' = [pc EXCEPT ![t] = "run"]
  <2>1. CASE CbSyncRegionLoad(t)
    BY Zenon, <2>1 DEF CbSyncRegionLoad, Past, toolVars, Released
  <2>2. CASE CbSyncRegionEnd(t)
    BY Zenon, <2>2 DEF CbSyncRegionEnd, Past, toolVars, LifetimeInv, ThreadInv
  <2> QED
    BY <2>1, <2>2
<1>2. pc \in [Threads -> Location]
  BY Zenon DEF TypeOK
<1>3. /\ pc'[t] \notin {"arrive", "joined"} /\ pc[t] # "arrive"
      /\ \A u \in Threads : u # t => cur'[u] = cur[u] /\ pc'[u] = pc[u]
  BY SMT, Z3, <1>1, <1>2
<1>4. cur[t] \in DOMAIN reached /\ cur[t][3] = t
  BY <1>1 DEF LifetimeInv, ThreadInv, InUse, Executor
<1>5. ASSUME NEW x \in DOMAIN reached, x # cur[t], InBarrier(x) PROVE InBarrier(x)'
  <2>1. x[3] \in Threads
    BY PosFacts
  <2>2. CASE cur[x[3]] = x /\ pc[x[3]] \in {"arrive", "barrier"}
    <3>1. x[3] # t
      BY <1>5, <2>2
    <3> QED
      BY Zenon, <1>1, <1>3, <2>1, <2>2, <3>1 DEF InBarrier
  <2> QED
    BY Zenon, <1>1, <1>5, <2>2 DEF InBarrier
<1>6. \A u \in regions[cur[t][2]].team : BarriersEntered(cur[t]) <= Entered(cur[t][2], u)
  <2>1. Pos(cur[t]) = reached[cur[t]]
    BY <1>1, <1>4 DEF Pos, TypeOK
  <2> QED
    BY Zenon, <1>1, <1>4, <2>1, ArrivedEntered
<1>7. SameNodes
  BY Zenon, <1>1, NodesFrame
<1> QED
  BY Zenon, <1>1, <1>3, <1>5, <1>6, <1>7 DEF SettledStep, StillStep, KeepsScripts

LEMMA ImplicitTaskBeginRounds ==
  ASSUME TypeOK, LifetimeInv, RoundInv, NEW t \in Threads, NEW r0 \in DOMAIN regions,
         CbImplicitTaskBegin(t, r0)
  PROVE  QuietPlace(t) /\ SizeInv'
<1> DEFINE y == Implicit(r0, t)
<1>1. /\ UNCHANGED <<regions, parInfo, tasks>>
      /\ y \notin DOMAIN reached /\ pc[t] \in {"fork", "idle"}
      /\ reached' = Put(reached, y, 0)
      /\ \E d : taskData' = Put(taskData, y, d) /\ d.barrier = NULL
      /\ cur' = [cur EXCEPT ![t] = y] /\ pc' = [pc EXCEPT ![t] = "run"]
  BY SMT, Z3 DEF CbImplicitTaskBegin, Assigned
<1>2. y[1] = "implicit" /\ y[3] = t
  BY DEF Implicit
<1> HIDE DEF y
<1>3. /\ DOMAIN reached' = DOMAIN reached \cup {y} /\ reached'[y] = 0
      /\ \A x \in DOMAIN reached : reached'[x] = reached[x]
  BY Zenon, <1>1 DEF Put
<1>4. /\ DOMAIN taskData' = DOMAIN taskData \cup {y} /\ taskData'[y].barrier = NULL
      /\ \A x \in DOMAIN taskData : taskData'[x] = taskData[x]
      /\ y \notin DOMAIN taskData
  <2>1. y \notin DOMAIN taskData
    BY Zenon, <1>1, <1>2 DEF LifetimeInv, DataInv
  <2>2. PICK d : taskData' = Put(taskData, y, d) /\ d.barrier = NULL
    BY Zenon, <1>1
  <2> QED
    BY Zenon, <2>1, <2>2 DEF Put
<1>5. /\ pc'[t] = "run" /\ pc[t] \notin {"arrive", "barrier"}
      /\ \A u \in Threads : u # t => cur'[u] = cur[u] /\ pc'[u] = pc[u]
  BY <1>1 DEF TypeOK
<1>6. KeepsScripts /\ KeepsNodes /\ SizeInv'
  BY Zenon, <1>1, <1>4 DEF KeepsScripts, KeepsNodes, KeepsNode, RoundInv, SizeInv
<1>7. ASSUME NEW x \in DOMAIN reached
      PROVE  KeepsTask(x) /\ BarriersEntered(x)' = BarriersEntered(x)
  <2>1. x[3] \in Threads /\ reached[x] \in Nat /\ x # y
    BY Zenon, <1>1, PosFacts
  <2>2. Pos(x)' = Pos(x)
    BY <1>3, <1>5, <2>1 DEF Pos
  <2>3. BarriersEntered(x)' = BarriersEntered(x)
    BY Zenon, <1>6, <2>2, EnteredNext
  <2>4. InBarrier(x) => InBarrier(x)'
    BY Zenon, <1>1, <1>5, BarrierFrame DEF KeepsSuspended
  <2>5. reached[x] <= reached[x]
    BY <2>1
  <2> QED
    BY Zenon, <1>3, <1>4, <2>1, <2>3, <2>4, <2>5 DEF KeepsTask
<1>8. BarriersEntered(y)' = 0
  <2>1. Pos(y)' = 0
    BY <1>2, <1>3, <1>5 DEF Pos
  <2>2. BarriersEntered(y)' = CountBarriers(regions'[y[2]].script, Pos(y)')
    BY Zenon DEF BarriersEntered, CountBarriers, Pos
  <2> QED
    BY <2>1, <2>2, CountFacts
<1> QED
  BY Zenon, <1>1, <1>3, <1>4, <1>5, <1>6, <1>7, <1>8 DEF QuietPlace, Moves

LEMMA SyncRegionArriveRounds ==
  ASSUME TypeOK, LifetimeInv, RoundInv, NEW t \in Threads, CbSyncRegionArrive(t)
  PROVE  QuietPlace(t) /\ SizeInv'
<1> DEFINE y == cur[t]
<1>1. /\ UNCHANGED <<regions, parInfo, tasks, cur>> /\ pc[t] = "arrive"
      /\ reached' = [reached EXCEPT ![y] = @ + 1] /\ pc' = [pc EXCEPT ![t] = "barrier"]
      /\ \E n : taskData' = [taskData EXCEPT ![y].node = n]
  BY Zenon DEF CbSyncRegionArrive
<1>2. /\ y \in DOMAIN reached /\ y[3] = t /\ reached[y] \in Nat
      /\ y \in DOMAIN taskData /\ taskData[y] \in TaskData
  BY <1>1, CurrentImplicit DEF Implicit
<1>3. SameNodes
  <2>1. PICK n : taskData' = [taskData EXCEPT ![y].node = n]
    BY Zenon, <1>1
  <2>2. /\ DOMAIN taskData' = DOMAIN taskData
        /\ \A x \in DOMAIN taskData : taskData'[x].barrier = taskData[x].barrier
    BY <1>2, <2>1 DEF TaskData
  <2> QED
    BY Zenon, <2>2, NodesFrame
<1>4. /\ reached'[y] = reached[y] + 1 /\ DOMAIN reached' = DOMAIN reached
      /\ \A x \in DOMAIN reached : x # y => reached'[x] = reached[x]
      /\ pc'[t] = "barrier"
      /\ \A u \in Threads : u # t => pc'[u] = pc[u]
  BY <1>1, <1>2 DEF TypeOK
<1>5. KeepsScripts /\ SizeInv'
  BY Zenon, <1>1 DEF KeepsScripts, RoundInv, SizeInv
<1>6. ASSUME NEW x \in DOMAIN reached
      PROVE  KeepsTask(x) /\ BarriersEntered(x)' = BarriersEntered(x)
  <2>1. x[3] \in Threads /\ reached[x] \in Nat /\ x[1] = "implicit"
    BY PosFacts
  <2>2. Pos(x)' = Pos(x)
    <3>1. CASE x = y
      BY <1>1, <1>2, <1>4, <3>1 DEF Pos
    <3>2. CASE x # y
      BY <1>1, <1>2, <1>4, <2>1, <3>2 DEF Pos
    <3> QED
      BY <3>1, <3>2
  <2>3. BarriersEntered(x)' = BarriersEntered(x)
    BY Zenon, <1>5, <2>2, EnteredNext
  <2>4. InBarrier(x) => InBarrier(x)'
    BY Zenon, <1>1, <1>4, <2>1 DEF InBarrier
  <2>5. reached[x] <= reached'[x] /\ (x # y => reached'[x] = reached[x])
    BY <1>4, <2>1
  <2> QED
    BY Zenon, <1>2, <1>3, <1>4, <2>1, <2>3, <2>4, <2>5 DEF KeepsTask, SameNodes
<1>7. pc'[t] # "joined"
  BY <1>4
<1> QED
  BY Zenon, <1>1, <1>3, <1>4, <1>5, <1>6, <1>7 DEF QuietPlace, Moves, SameNodes

\* Extending the script of the current region keeps the sizes.
LEMMA ExtendRounds ==
  ASSUME TypeOK, LifetimeInv, RoundInv, NEW t \in Threads, InImplicitTask(t),
         NEW c \in Construct, MayBegin(t, c), regions' = Extend(t, c),
         DOMAIN parInfo' = DOMAIN parInfo,
         \A r \in DOMAIN parInfo : parInfo'[r].teamSize = parInfo[r].teamSize
  PROVE  KeepsScripts /\ SizeInv' /\ DOMAIN regions' = DOMAIN regions
<1> DEFINE x == cur[t]
           r0 == x[2]
           old == regions[r0].script
           new == regions'[r0].script
<1>1. x \in DOMAIN reached /\ reached[x] \in Nat /\ r0 \in DOMAIN regions /\ ~AtJoin(x)
  BY Zenon, CurrentImplicit
<1>2. /\ DOMAIN regions' = DOMAIN regions /\ regions' \in Seq(Region)
      /\ \A r \in DOMAIN regions :
           /\ regions'[r].team = regions[r].team
           /\ \/ regions'[r].script = regions[r].script
              \/ /\ r = r0 /\ ~(reached[x] < Len(regions[r].script))
                 /\ regions'[r].script = Append(regions[r].script, c)
  BY Zenon, <1>1, ExtendFact
<1>3. old \in Seq(Construct) /\ reached[x] <= Len(old)
  <2>1. regions[r0] \in Region
    BY <1>1 DEF TypeOK
  <2> QED
    BY Zenon, <1>1, <2>1 DEF Region, LifetimeInv, ReachedInv
<1>4. \A i \in DOMAIN old : i <= MaxConstructs + (IF old[i] = "join" THEN 1 ELSE 0)
  BY Zenon, <1>1 DEF RoundInv, SizeInv
<1> HIDE DEF x, r0
<1>5. ASSUME new = Append(old, c), ~(reached[x] < Len(old))
      PROVE  /\ \A i \in DOMAIN old : i \in DOMAIN new /\ new[i] = old[i]
             /\ \A i \in DOMAIN new : i <= MaxConstructs + (IF new[i] = "join" THEN 1 ELSE 0)
  <2>1. Len(old) \in Nat /\ reached[x] = Len(old) /\ DOMAIN old = 1..Len(old)
    BY <1>1, <1>3, <1>5
  <2>2. c = "join" \/ Len(old) + 1 <= MaxConstructs
    <3>1. ~(reached[x] + 1 <= Len(old))
      BY <2>1
    <3>2. c = "join" \/ reached[x] + 1 <= MaxConstructs
      BY Zenon, <3>1 DEF MayBegin, x, r0
    <3> QED
      BY Zenon, <2>1, <3>2
  <2>3. Len(old) <= MaxConstructs
    <3>1. CASE Len(old) = 0
      BY <3>1, BoundsAssumption
    <3>2. CASE Len(old) # 0
      <4>1. Len(old) \in DOMAIN old
        BY <2>1, <3>2
      <4>2. old[Len(old)] # "join"
        BY Zenon, <1>1, <2>1, <4>1 DEF AtJoin, r0
      <4> QED
        BY <1>4, <2>1, <4>1, <4>2, BoundsAssumption
    <3> QED
      BY Zenon, <3>1, <3>2
  <2> HIDE DEF old
  <2>4. /\ DOMAIN new = 1..(Len(old) + 1) /\ new[Len(old) + 1] = c
        /\ \A i \in 1..Len(old) : new[i] = old[i]
    BY <1>3, <1>5, <2>1
  <2> HIDE DEF new
  <2>5. \A i \in DOMAIN old : i \in DOMAIN new /\ new[i] = old[i]
    BY <2>1, <2>4
  <2>6. ASSUME NEW i \in DOMAIN new
        PROVE  i <= MaxConstructs + (IF new[i] = "join" THEN 1 ELSE 0)
    <3>1. CASE i = Len(old) + 1
      BY <2>1, <2>2, <2>3, <2>4, <3>1, BoundsAssumption
    <3>2. CASE i # Len(old) + 1
      <4>1. i \in DOMAIN old /\ new[i] = old[i]
        BY <2>1, <2>4, <3>2
      <4> QED
        BY Zenon, <1>4, <4>1
    <3> QED
      BY Zenon, <3>1, <3>2
  <2> QED
    BY Zenon, <2>5, <2>6
<1>6. /\ \A i \in DOMAIN old : i \in DOMAIN new /\ new[i] = old[i]
      /\ \A i \in DOMAIN new : i <= MaxConstructs + (IF new[i] = "join" THEN 1 ELSE 0)
  BY Zenon, <1>1, <1>2, <1>4, <1>5
<1>7. KeepsScripts
  BY Zenon, <1>2, <1>6 DEF KeepsScripts
<1>8. Len(regions') = Len(regions)
  BY SMT, Z3, <1>2 DEF TypeOK
<1>9. ASSUME NEW r \in DOMAIN regions'
      PROVE  /\ regions'[r].team \in Teams
             /\ \A i \in DOMAIN regions'[r].script :
                  i <= MaxConstructs + (IF regions'[r].script[i] = "join" THEN 1 ELSE 0)
  <2>1. CASE r = r0
    BY Zenon, <1>2, <1>6, <2>1 DEF RoundInv, SizeInv
  <2>2. CASE r # r0
    <3>1. /\ r \in DOMAIN regions /\ regions'[r].team = regions[r].team
          /\ regions'[r].script = regions[r].script
      BY Zenon, <1>2, <2>2
    <3> QED
      BY Zenon, SMT, <3>1 DEF RoundInv, SizeInv
  <2> QED
    BY <2>1, <2>2
<1>10. ASSUME NEW r \in DOMAIN parInfo'
       PROVE  parInfo'[r].teamSize = Cardinality(regions'[r].team)
  BY Zenon, <1>2 DEF RoundInv, SizeInv, TypeOK
<1>11. Len(regions') <= MaxRegions
  BY Zenon, <1>8 DEF RoundInv, SizeInv
<1> QED
  BY Zenon, <1>2, <1>7, <1>9, <1>10, <1>11 DEF SizeInv

\* A thread that begins a construct moves on by one place, and the others of
\* the team stay where they are.
LEMMA NextConstruct ==
  ASSUME TypeOK, LifetimeInv, NEW t \in Threads, InImplicitTask(t), NEW c \in Construct,
         NEW y, y = cur[t], MayBegin(t, c), regions' = Extend(t, c), KeepsScripts, cur' = cur,
         \A u \in Threads : u # t => pc'[u] = pc[u],
         \/ reached' = [reached EXCEPT ![y] = @ + 1] /\ pc'[t] # "arrive"
         \/ reached' = reached /\ pc'[t] = "arrive"
  PROVE  /\ DOMAIN reached' = DOMAIN reached
         /\ \A x \in DOMAIN reached :
              /\ reached[x] <= reached'[x]
              /\ x # y => /\ reached'[x] = reached[x]
                               /\ BarriersEntered(x)' = BarriersEntered(x)
         /\ BarriersEntered(y)' = IF c # "loop" THEN BarriersEntered(y) + 1
                                               ELSE BarriersEntered(y)
         /\ ~InBarrier(y)
<1>1. y \in DOMAIN reached /\ reached[y] \in Nat /\ y[3] = t /\ y \in DOMAIN taskData
  BY CurrentImplicit DEF Implicit
<1>2. /\ DOMAIN reached' = DOMAIN reached
      /\ \A x \in DOMAIN reached : reached[x] \in Nat /\ reached[x] <= reached'[x]
      /\ \A x \in DOMAIN reached : x # y => reached'[x] = reached[x]
      /\ pc[t] = "run"
  <2>1. \A x \in DOMAIN reached : reached[x] \in Nat
    BY Zenon DEF TypeOK
  <2>2. CASE reached' = [reached EXCEPT ![y] = @ + 1]
    BY SMT, Z3, <1>1, <2>1, <2>2 DEF InImplicitTask
  <2>3. CASE reached' = reached
    BY SMT, Z3, <2>1, <2>3 DEF InImplicitTask
  <2> QED
    BY Zenon, <2>2, <2>3
<1>3. Pos(y) = reached[y] /\ Pos(y)' = Pos(y) + 1
  <2>1. Pos(y) = reached[y]
    BY <1>1, <1>2 DEF Pos
  <2>2. CASE reached' = [reached EXCEPT ![y] = @ + 1] /\ pc'[t] # "arrive"
    <3>1. reached'[y] = reached[y] + 1
      BY <1>1, <2>2 DEF TypeOK
    <3> QED
      BY SMT, Z3, <1>1, <2>1, <2>2, <3>1 DEF Pos
  <2>3. CASE reached' = reached /\ pc'[t] = "arrive"
    BY <1>1, <2>1, <2>3 DEF Pos
  <2> QED
    BY <2>1, <2>2, <2>3
<1>4. regions'[y[2]].script[reached[y] + 1] = c
  BY Zenon, ExtendNext
<1>5. BarriersEntered(y)' = IF c # "loop" THEN BarriersEntered(y) + 1 ELSE BarriersEntered(y)
  BY <1>1, <1>3, <1>4, EnteredNext
<1>6. ASSUME NEW x \in DOMAIN reached, x # y
      PROVE  BarriersEntered(x)' = BarriersEntered(x)
  <2>1. x[3] \in Threads
    BY Zenon, PosFacts
  <2>2. Pos(x)' = Pos(x)
    BY Zenon, <1>2, <1>6, <2>1 DEF Pos
  <2> QED
    BY Zenon, <2>2, EnteredNext
<1>7. ~InBarrier(y)
  <2>1. \A z \in DOMAIN tasks : tasks[z].resume # NULL => y # tasks[z].resume.task
    BY Zenon DEF LifetimeInv, ExclusiveInv
  <2> QED
    BY Zenon, <1>1, <1>2, <2>1 DEF InBarrier
<1> QED
  BY Zenon, <1>2, <1>5, <1>6, <1>7

LEMMA ExtLoopBeginRounds ==
  ASSUME TypeOK, LifetimeInv, RoundInv, NEW t \in Threads, CbExtLoopBegin(t)
  PROVE  QuietPlace(t) /\ SizeInv'
<1> PICK y : y = cur[t]
  OBVIOUS
<1>1. /\ InImplicitTask(t) /\ MayBegin(t, "loop") /\ regions' = Extend(t, "loop")
      /\ reached' = [reached EXCEPT ![y] = @ + 1] /\ UNCHANGED <<parInfo, tasks, cur, pc>>
      /\ \E ws : taskData' = [taskData EXCEPT ![y].ws = ws]
  BY Zenon DEF CbExtLoopBegin
<1>2. "loop" \in Construct /\ pc[t] \notin {"arrive", "joined"}
  BY <1>1 DEF Construct, InImplicitTask
<1>3. y \in DOMAIN taskData /\ taskData[y] \in TaskData
  BY Zenon, <1>1, CurrentImplicit
<1>4. KeepsScripts /\ SizeInv' /\ DOMAIN regions' = DOMAIN regions
  BY Zenon, <1>1, <1>2, ExtendRounds
<1>5. /\ DOMAIN reached' = DOMAIN reached
      /\ \A x \in DOMAIN reached :
           /\ reached[x] <= reached'[x] /\ BarriersEntered(x)' = BarriersEntered(x)
           /\ x # y => reached'[x] = reached[x]
  <2>1. reached' = [reached EXCEPT ![y] = @ + 1] /\ pc'[t] # "arrive"
    BY <1>1, <1>2
  <2>2. \A u \in Threads : u # t => pc'[u] = pc[u]
    BY <1>1
  <2> QED
    BY Zenon, <1>1, <1>2, <1>4, <2>1, <2>2, NextConstruct
<1>6. SameNodes
  <2>1. PICK ws : taskData' = [taskData EXCEPT ![y].ws = ws]
    BY Zenon, <1>1
  <2>2. /\ DOMAIN taskData' = DOMAIN taskData
        /\ \A x \in DOMAIN taskData : taskData'[x].barrier = taskData[x].barrier
    BY <1>3, <2>1 DEF TaskData
  <2> QED
    BY Zenon, <2>2, NodesFrame
<1>7. ASSUME NEW x \in DOMAIN reached PROVE KeepsTask(x)
  <2>1. x[1] = "implicit"
    BY PosFacts
  <2>2. InBarrier(x)' <=> InBarrier(x)
    BY Zenon, <1>1 DEF InBarrier
  <2> QED
    BY Zenon, <1>3, <1>5, <1>6, <2>1, <2>2 DEF KeepsTask, SameNodes
<1>8. pc'[t] # "joined" /\ \A u \in Threads : u # t => cur'[u] = cur[u] /\ pc'[u] = pc[u]
  BY <1>1, <1>2
<1> QED
  BY Zenon, <1>1, <1>4, <1>5, <1>6, <1>7, <1>8 DEF QuietPlace, Moves, SameNodes

\* A team of one: cb_sync_region does nothing.
LEMMA SyncRegionAloneRounds ==
  ASSUME TypeOK, LifetimeInv, RoundInv, NEW t \in Threads, NEW c \in {"barrier", "join"},
         CbSyncRegionBegin(t, c), ~(parInfo[cur[t][2]].teamSize > 1)
  PROVE  QuietPlace(t) /\ SizeInv'
<1> PICK y : y = cur[t]
  BY Zenon
<1>1. /\ InImplicitTask(t) /\ MayBegin(t, c) /\ regions' = Extend(t, c)
      /\ reached' = [reached EXCEPT ![y] = @ + 1] /\ pc' = [pc EXCEPT ![t] = "barrier"]
      /\ UNCHANGED <<taskData, parInfo, tasks, cur>>
  BY Zenon DEF CbSyncRegionBegin
<1>2. c \in Construct /\ c # "loop"
  BY Zenon DEF Construct
<1>3. /\ y[2] \in DOMAIN parInfo /\ y \in DOMAIN taskData /\ y[3] = t
  BY <1>1, CurrentImplicit DEF Implicit
<1>4. ~Recorded(y[2])
  BY Zenon, <1>3 DEF Recorded, RoundInv, SizeInv
<1>5. /\ pc'[t] = "barrier" /\ pc'[t] # "arrive" /\ pc'[t] # "joined"
      /\ \A u \in Threads : u # t => pc'[u] = pc[u]
  BY <1>1 DEF TypeOK
<1>6. KeepsScripts /\ SizeInv' /\ DOMAIN regions' = DOMAIN regions
  BY Zenon, <1>1, <1>2, ExtendRounds
<1>7. /\ DOMAIN reached' = DOMAIN reached
      /\ \A x \in DOMAIN reached :
           /\ reached[x] <= reached'[x]
           /\ x # y => reached'[x] = reached[x] /\ BarriersEntered(x)' = BarriersEntered(x)
      /\ BarriersEntered(y)' = BarriersEntered(y) + 1 /\ ~InBarrier(y)
  BY Zenon, <1>1, <1>2, <1>5, <1>6, NextConstruct
<1>8. SameNodes
  BY Zenon, <1>1, NodesFrame
<1>9. ASSUME NEW x \in DOMAIN reached PROVE KeepsTask(x)
  <2>1. x[1] = "implicit" /\ x[3] \in Threads
    BY PosFacts
  <2>2. CASE x = y
    <3>1. InBarrier(x)'
      <4>1. cur'[y[3]] = y /\ pc'[y[3]] \in {"arrive", "barrier"}
        BY <1>1, <1>3, <1>5
      <4> QED
        BY Zenon, <2>2, <4>1 DEF InBarrier
    <3> QED
      BY Zenon, <1>1, <1>3, <1>7, <2>2, <3>1 DEF KeepsTask
  <2>3. CASE x # y
    <3>1. InBarrier(x) => InBarrier(x)'
      BY Zenon, <1>1, <1>5, <2>1, <2>3 DEF InBarrier
    <3> QED
      BY Zenon, <1>1, <1>7, <2>3, <3>1 DEF KeepsTask
  <2> QED
    BY Zenon, <2>2, <2>3
<1> QED
  BY Zenon, <1>1, <1>4, <1>5, <1>6, <1>7, <1>8, <1>9 DEF QuietPlace, Moves, SameNodes

-----------------------------------------------------------------------------
(* The steps at the ends of regions.                                       *)

\* A task at the join has entered all barriers of its region.
LEMMA JoinFacts ==
  ASSUME TypeOK, LifetimeInv, NEW x \in DOMAIN reached, AtJoin(x)
  PROVE  /\ reached[x] = Len(regions[x[2]].script) /\ Pos(x) = reached[x]
         /\ BarriersEntered(x) > 0
<1> DEFINE f == regions[x[2]].script
           k == reached[x]
<1>1. /\ x[2] \in DOMAIN regions /\ k \in Nat /\ Pos(x) \in Nat /\ Len(f) \in Nat
      /\ k <= Pos(x) /\ Pos(x) <= Len(f) /\ BarriersEntered(x) = CountBarriers(f, Pos(x))
  BY PosFacts
<1>2. k \in DOMAIN f /\ f[k] = "join" /\ k = Len(f)
  BY Zenon, <1>1 DEF AtJoin, LifetimeInv, RegionInv
<1>3. f \in Seq(Construct)
  <2>1. regions[x[2]] \in Region
    BY <1>1 DEF TypeOK
  <2> QED
    BY Zenon, <2>1 DEF Region
<1>4. k - 1 \in Nat /\ (k - 1) + 1 = k /\ Pos(x) = k
  BY <1>1, <1>2, <1>3
<1> HIDE DEF f, k
<1>5. /\ CountBarriers(f, k - 1) \in Nat
      /\ CountBarriers(f, (k - 1) + 1) =
           IF f[(k - 1) + 1] # "loop" THEN CountBarriers(f, k - 1) + 1 ELSE CountBarriers(f, k - 1)
  BY <1>4, CountFacts
<1>6. CountBarriers(f, k) > 0
  BY <1>2, <1>4, <1>5
<1> QED
  BY Zenon, <1>1, <1>2, <1>4, <1>6 DEF f, k

\* When all have arrived there, all of the team have.
LEMMA JoinedFacts ==
  ASSUME TypeOK, LifetimeInv, NEW x \in DOMAIN reached, AtJoin(x), AllArrived(x),
         NEW u \in regions[x[2]].team, NEW y, y = Implicit(x[2], u)
  PROVE  y \in DOMAIN reached /\ AtJoin(y) /\ BarriersEntered(y) = BarriersEntered(x)
<1>1. y \in DOMAIN reached /\ reached[y] >= reached[x] /\ y[2] = x[2]
  BY SMT, Z3 DEF AllArrived, Implicit
<1>2. /\ reached[y] \in Nat /\ reached[x] \in Nat /\ Pos(y) \in Nat
      /\ reached[y] <= Pos(y) /\ Pos(y) <= Len(regions[x[2]].script)
      /\ Len(regions[x[2]].script) \in Nat
      /\ BarriersEntered(x) = CountBarriers(regions[x[2]].script, Pos(x))
      /\ BarriersEntered(y) = CountBarriers(regions[x[2]].script, Pos(y))
  BY <1>1, PosFacts
<1>3. reached[x] = Len(regions[x[2]].script) /\ Pos(x) = reached[x]
  BY Zenon, JoinFacts
<1>4. reached[y] = reached[x] /\ Pos(y) = Pos(x)
  BY <1>1, <1>2, <1>3
<1> QED
  BY Zenon, <1>1, <1>2, <1>4 DEF AtJoin

LEMMA ImplicitTaskEndRounds ==
  ASSUME TypeOK, LifetimeInv, RoundInv, NEW t \in Threads, CbImplicitTaskEnd(t),
         NEW x, x = cur[t]
  PROVE  /\ KeepsRounds /\ SizeInv' /\ UNCHANGED <<regions, parInfo>>
         /\ x \in DOMAIN reached /\ AtJoin(x) /\ AllArrived(x)
         /\ x \in DOMAIN taskData /\ x \notin DOMAIN taskData'
         /\ \A z \in DOMAIN reached : BarriersEntered(z)' = BarriersEntered(z)
         /\ \A z : z # x => KeepsNode(z)
<1>1. /\ pc[t] = "leave" /\ taskData' = Drop(taskData, x)
      /\ UNCHANGED <<parInfo, regions, reached, tasks>>
      /\ \/ pc' = [pc EXCEPT ![t] = "joined"] /\ cur' = cur
         \/ pc' = [pc EXCEPT ![t] = "idle"] /\ cur' = [cur EXCEPT ![t] = NULL]
  BY Zenon, SMT, Z3 DEF CbImplicitTaskEnd
<1>2. /\ x \in DOMAIN taskData /\ x[1] = "implicit" /\ AtJoin(x) /\ AllArrived(x)
      /\ x \in DOMAIN reached
  BY <1>1 DEF LifetimeInv, ThreadInv, InUse
<1>3. /\ DOMAIN taskData' = DOMAIN taskData \ {x}
      /\ \A z \in DOMAIN taskData : z # x => taskData'[z] = taskData[z]
  BY Zenon, <1>1 DEF Drop
<1>4. /\ pc'[t] \in {"joined", "idle"} /\ pc[t] \notin {"arrive", "barrier"}
      /\ pc'[t] = "joined" => cur'[t] = x
      /\ \A u \in Threads : u # t => cur'[u] = cur[u] /\ pc'[u] = pc[u]
  BY <1>1 DEF TypeOK
<1>5. \A z : z # x => KeepsNode(z)
  BY Zenon, <1>3 DEF KeepsNode
<1>6. KeepsScripts /\ SizeInv'
  BY Zenon, <1>1 DEF KeepsScripts, RoundInv, SizeInv
<1>7. ASSUME NEW z \in DOMAIN reached
      PROVE  BarriersEntered(z)' = BarriersEntered(z) /\ KeepsTask(z)
  <2>1. z[3] \in Threads /\ reached[z] \in Nat
    BY Zenon, PosFacts
  <2>2. Pos(z)' = Pos(z)
    BY <1>1, <1>4, <2>1 DEF Pos
  <2>3. BarriersEntered(z)' = BarriersEntered(z)
    BY Zenon, <1>6, <2>2, EnteredNext
  <2>4. InBarrier(z) => InBarrier(z)'
    BY Zenon, <1>1, <1>4, BarrierFrame DEF KeepsSuspended
  <2>5. reached[z] <= reached[z]
    BY <2>1
  <2> QED
    BY Zenon, <1>1, <1>2, <1>3, <2>3, <2>4, <2>5 DEF KeepsTask
<1>8. ASSUME NEW u \in Threads, pc'[u] = "joined"
      PROVE  \/ pc[u] = "joined" /\ cur'[u] = cur[u]
             \/ cur'[u] \notin DOMAIN taskData'
  BY Zenon, <1>3, <1>4, <1>8
<1>9. ASSUME NEW z \in DOMAIN taskData', z[1] = "implicit"
      PROVE  /\ z \in DOMAIN taskData /\ taskData'[z].barrier = taskData[z].barrier
             /\ BarriersEntered(z)' = BarriersEntered(z)
  <2>1. z \in DOMAIN taskData /\ z # x
    BY Zenon, <1>3
  <2>2. z \in DOMAIN reached
    BY Zenon, <1>9, <2>1 DEF LifetimeInv, DataInv
  <2> QED
    BY Zenon, <1>3, <1>7, <2>1, <2>2
<1>10. KeepsRounds
  BY Zenon, <1>1, <1>6, <1>7, <1>8, <1>9 DEF KeepsRounds
<1> QED
  BY Zenon, <1>1, <1>2, <1>3, <1>5, <1>6, <1>7, <1>10

LEMMA ParallelEndRounds ==
  ASSUME TypeOK, LifetimeInv, RoundInv, NEW t \in Threads, CbParallelEnd(t), NEW x, x = cur[t]
  PROVE  /\ StillStep(t) /\ SizeInv'
         /\ regions' = regions /\ parInfo' = Drop(parInfo, x[2])
         /\ x \in DOMAIN reached /\ AtJoin(x) /\ x \notin DOMAIN taskData
<1> DEFINE p == parInfo[x[2]]
<1>1. /\ pc[t] = "joined" /\ taskData' = [taskData EXCEPT ![p.parent].node = p.sink]
      /\ parInfo' = Drop(parInfo, x[2]) /\ UNCHANGED <<regions, reached, tasks>>
      /\ pc' = [pc EXCEPT ![t] = "run"] /\ cur' = [cur EXCEPT ![t] = regions[x[2]].parent]
  BY Zenon, SMT, Z3 DEF CbParallelEnd
<1>2. x \in DOMAIN reached /\ AtJoin(x) /\ x \notin DOMAIN taskData
  <2>1. x \notin DOMAIN taskData
    BY Zenon, <1>1 DEF RoundInv
  <2> QED
    BY <1>1, <2>1 DEF LifetimeInv, ThreadInv, InUse
<1>3. SameNodes
  <2>1. /\ DOMAIN taskData' = DOMAIN taskData
        /\ \A z \in DOMAIN taskData : taskData'[z].barrier = taskData[z].barrier
    <3>1. taskData \in [DOMAIN taskData -> TaskData]
      BY Zenon DEF TypeOK
    <3> QED
      BY Zenon, <1>1, <3>1 DEF TaskData
  <2> QED
    BY Zenon, <2>1, NodesFrame
<1>4. /\ pc'[t] = "run" /\ \A u \in Threads : u # t => cur'[u] = cur[u] /\ pc'[u] = pc[u]
  BY <1>1 DEF TypeOK
<1>5. KeepsScripts /\ KeepsSuspended
  BY Zenon, SMT, Z3, <1>1 DEF KeepsScripts, KeepsSuspended
<1>6. /\ pc[t] \notin {"arrive", "barrier"} /\ pc[t] # "arrive"
      /\ pc'[t] \notin {"arrive", "joined"}
  BY <1>1, <1>4
<1>7. \A z \in DOMAIN reached : InBarrier(z) => InBarrier(z)'
  BY Zenon, <1>4, <1>5, <1>6, BarrierFrame
<1>8. StillStep(t)
  BY Zenon, <1>1, <1>3, <1>4, <1>5, <1>6, <1>7 DEF StillStep
<1>9. SizeInv'
  <2>1. \A r \in DOMAIN parInfo' : r \in DOMAIN parInfo /\ parInfo'[r] = parInfo[r]
    BY Zenon, <1>1 DEF Drop
  <2> QED
    BY Zenon, <1>1, <2>1 DEF RoundInv, SizeInv
<1> QED
  BY Zenon, <1>1, <1>2, <1>8, <1>9

\* The new region: no task of it has begun, and its team has the size that was
\* requested.
LEMMA ParallelBeginRounds ==
  ASSUME TypeOK, LifetimeInv, RoundInv, NEW t \in Threads, NEW team,
         CbParallelBegin(t, team, Cardinality(team)), NEW r, r = Len(regions) + 1
  PROVE  /\ StillStep(t) /\ SizeInv' /\ r \in 1..MaxRegions /\ r \notin DOMAIN regions
         /\ DOMAIN regions' = DOMAIN regions \cup {r}
         /\ regions'[r].team = team /\ team \in Teams
         /\ DOMAIN parInfo' = DOMAIN parInfo \cup {r}
         /\ parInfo'[r].cnt = 0 /\ parInfo'[r].barrier = NULL
         /\ \A q \in DOMAIN parInfo : parInfo'[q] = parInfo[q]
         /\ UNCHANGED <<taskData, reached>>
<1> DEFINE new == [team |-> team, thread |-> t, parent |-> cur[t], script |-> <<>>]
           p == [parent |-> cur[t], sink |-> NewNode(t, 1),
                 teamSize |-> Cardinality(team), cnt |-> 0, barrier |-> NULL]
<1>1. /\ pc[t] = "run" /\ Len(regions) < MaxRegions /\ team \in Teams
      /\ regions' = Append(regions, new) /\ parInfo' = Put(parInfo, Len(regions'), p)
      /\ pc' = [pc EXCEPT ![t] = "fork"] /\ UNCHANGED <<taskData, reached, tasks, cur>>
  BY Zenon DEF CbParallelBegin
<1>2. /\ Len(regions) \in Nat /\ DOMAIN regions = 1..Len(regions)
      /\ \A q \in DOMAIN regions : regions[q] \in Region
  BY DEF TypeOK
<1>3. /\ Len(regions') = r /\ DOMAIN regions' = 1..r /\ regions'[r] = new
      /\ \A q \in 1..Len(regions) : regions'[q] = regions[q]
  <2>1. regions \in Seq(Region)
    BY Zenon DEF TypeOK
  <2>2. Len(regions') = Len(regions) + 1 /\ regions'[Len(regions) + 1] = new
    <3> HIDE DEF new
    <3> QED
      BY SMT, Z3, <1>1, <2>1
  <2>3. \A q \in 1..Len(regions) : regions'[q] = regions[q]
    BY SMT, Z3, <1>1, <2>1
  <2>4. DOMAIN regions' = 1..(Len(regions) + 1)
    BY SMT, Z3, <1>1, <2>1
  <2> QED
    BY Zenon, <2>2, <2>3, <2>4
<1>4. /\ r \in 1..MaxRegions /\ r \notin DOMAIN regions
      /\ DOMAIN regions' = DOMAIN regions \cup {r}
      /\ \A q \in DOMAIN regions : regions'[q] = regions[q]
  BY <1>1, <1>2, <1>3, BoundsAssumption
<1>5. /\ DOMAIN parInfo' = DOMAIN parInfo \cup {r} /\ parInfo'[r] = p
      /\ \A q \in DOMAIN parInfo : parInfo'[q] = parInfo[q]
  <2>1. r \notin DOMAIN parInfo
    BY Zenon, SMT, Z3, <1>4 DEF TypeOK
  <2> QED
    BY Zenon, <1>1, <1>3, <2>1 DEF Put
<1>6. /\ regions'[r].team = team /\ regions'[r].script = <<>>
      /\ parInfo'[r].cnt = 0 /\ parInfo'[r].barrier = NULL
      /\ parInfo'[r].teamSize = Cardinality(team)
  BY <1>3, <1>5
<1>7. SizeInv'
  <2>1. Len(regions') <= MaxRegions
    BY <1>3, <1>4
  <2>2. \A i \in DOMAIN regions'[r].script :
          i <= MaxConstructs + (IF regions'[r].script[i] = "join" THEN 1 ELSE 0)
    BY <1>6
  <2>3. \A q \in DOMAIN parInfo' : parInfo'[q].teamSize = Cardinality(regions'[q].team)
    <3>1. \A q \in DOMAIN parInfo : q \in DOMAIN regions
      BY Zenon, SMT, Z3 DEF TypeOK
    <3> QED
      BY Zenon, <1>4, <1>5, <1>6, <3>1 DEF RoundInv, SizeInv
  <2>4. ASSUME NEW q \in DOMAIN regions'
        PROVE  /\ regions'[q].team \in Teams
               /\ \A i \in DOMAIN regions'[q].script :
                    i <= MaxConstructs + (IF regions'[q].script[i] = "join" THEN 1 ELSE 0)
    <3>1. CASE q = r
      BY Zenon, <1>1, <1>6, <2>2, <3>1
    <3>2. CASE q # r
      BY Zenon, <1>4, <3>2 DEF RoundInv, SizeInv
    <3> QED
      BY <3>1, <3>2
  <2> QED
    BY Zenon, <2>1, <2>3, <2>4 DEF SizeInv
<1>8. KeepsScripts /\ KeepsSuspended /\ SameNodes
  BY Zenon, <1>1, <1>4, NodesFrame DEF KeepsScripts, KeepsSuspended
<1>9. /\ pc[t] \notin {"arrive", "barrier"} /\ pc[t] # "arrive"
      /\ pc'[t] \notin {"arrive", "joined"}
      /\ \A u \in Threads : u # t => cur'[u] = cur[u] /\ pc'[u] = pc[u]
  BY <1>1 DEF TypeOK
<1>10. \A z \in DOMAIN reached : InBarrier(z) => InBarrier(z)'
  BY Zenon, <1>8, <1>9, BarrierFrame
<1>11. StillStep(t)
  BY Zenon, <1>1, <1>8, <1>9, <1>10 DEF StillStep
<1> HIDE DEF p
<1> QED
  BY Zenon, <1>1, <1>4, <1>5, <1>6, <1>7, <1>11

-----------------------------------------------------------------------------
(* The step that enters a recorded barrier.                                *)

\* The node of the barrier that task x enters with thread t.
EnteredNode(t, x) ==
  IF FirstAtBarrier(parInfo[x[2]]) THEN NewNode(t, 1) ELSE parInfo[x[2]].barrier

\* It is set, and no task of a region holds a new one.
LEMMA EnteredNodeFacts ==
  ASSUME TypeOK, GraphInv, NEW t \in Threads, NEW x, x[2] \in DOMAIN parInfo
  PROVE  /\ EnteredNode(t, x) # NULL
         /\ parInfo[x[2]].cnt = 0 =>
              \A z \in DOMAIN taskData : taskData[z].barrier # EnteredNode(t, x)
<1>1. parInfo[x[2]].cnt \in Nat
  <2>1. parInfo[x[2]] \in ParallelRegionData
    BY Zenon DEF TypeOK
  <2> QED
    BY Zenon, <2>1 DEF ParallelRegionData
<1>2. NewNode(t, 1) \in Node /\ NewNode(t, 1) # NULL
  BY Zenon, NewNodeType, NullAssumption
<1>3. CASE parInfo[x[2]].cnt = 0
  <2>1. EnteredNode(t, x) = NewNode(t, 1)
    BY Zenon, <1>3 DEF EnteredNode, FirstAtBarrier
  <2>2. NewNode(t, 1) \notin DOMAIN tdg.nodes
    <3>1. NewNode(t, 1)[1] = t /\ NewNode(t, 1)[2] = nextNode[t] /\ nextNode[t] \in Nat
      BY DEF NewNode, TypeOK
    <3>2. ~(nextNode[t] < nextNode[t])
      BY <3>1
    <3> QED
      BY Zenon, <3>1, <3>2 DEF GraphInv
  <2>3. ASSUME NEW z \in DOMAIN taskData
        PROVE  taskData[z].barrier \in DOMAIN tdg.nodes \cup {NULL}
    <3>1. taskData[z].barrier \in Pointers(taskData[z])
      BY Zenon DEF Pointers
    <3>2. taskData[z].barrier \in Shared
      BY Zenon, <3>1 DEF Shared
    <3> QED
      BY Zenon, <3>2 DEF GraphInv
  <2> QED
    BY Zenon, <1>2, <2>1, <2>2, <2>3
<1>4. CASE parInfo[x[2]].cnt # 0
  <2>1. parInfo[x[2]].cnt > 0
    BY <1>1, <1>4
  <2>2. EnteredNode(t, x) = parInfo[x[2]].barrier
    BY Zenon, <1>4 DEF EnteredNode, FirstAtBarrier
  <2> QED
    BY Zenon, <1>4, <2>1, <2>2 DEF GraphInv, PointerInv
<1> QED
  BY <1>3, <1>4

LEMMA SyncRegionEnterRounds ==
  ASSUME TypeOK, LifetimeInv, RoundInv, GraphInv, NEW t \in Threads, NEW c \in {"barrier", "join"},
         CbSyncRegionBegin(t, c), parInfo[cur[t][2]].teamSize > 1,
         NEW x, x = cur[t], NEW b, b = EnteredNode(t, x)
  PROVE  /\ KeepsRounds /\ SizeInv' /\ DOMAIN regions' = DOMAIN regions
         /\ ~InBarrier(x)
         /\ BarriersEntered(x)' = BarriersEntered(x) + 1
         /\ \A z \in DOMAIN reached : z # x => BarriersEntered(z)' = BarriersEntered(z)
         /\ DOMAIN reached' = DOMAIN reached
<1>1. /\ InImplicitTask(t) /\ MayBegin(t, c) /\ regions' = Extend(t, c)
      /\ parInfo' = [parInfo EXCEPT ![x[2]] = Arrived(@, b)]
      /\ taskData' = [taskData EXCEPT ![x].barrier = b]
      /\ reached' = reached /\ pc' = [pc EXCEPT ![t] = "arrive"]
      /\ UNCHANGED <<tasks, cur>>
  BY Zenon DEF CbSyncRegionBegin, EnteredNode
<1>2. c \in Construct /\ c # "loop"
  BY Zenon DEF Construct
<1>3. /\ x[2] \in DOMAIN parInfo /\ x \in DOMAIN taskData /\ x[3] = t /\ x \in DOMAIN reached
      /\ x[1] = "implicit"
  BY <1>1, CurrentImplicit DEF Implicit
<1>4. /\ pc'[t] = "arrive" /\ pc'[t] # "joined" /\ pc[t] \notin {"arrive", "barrier"}
      /\ \A u \in Threads : u # t => pc'[u] = pc[u]
  BY Zenon, <1>1 DEF TypeOK, InImplicitTask
<1>5. /\ DOMAIN parInfo' = DOMAIN parInfo
      /\ \A r \in DOMAIN parInfo : parInfo'[r].teamSize = parInfo[r].teamSize
  <2>1. parInfo \in [DOMAIN parInfo -> ParallelRegionData]
    BY Zenon DEF TypeOK
  <2>2. Arrived(parInfo[x[2]], b).teamSize = parInfo[x[2]].teamSize
    <3>1. parInfo[x[2]] \in ParallelRegionData
      BY Zenon, <1>3, <2>1
    <3> QED
      BY <3>1 DEF Arrived, ParallelRegionData
  <2> QED
    BY <1>1, <1>3, <2>1, <2>2
<1>6. KeepsScripts /\ SizeInv' /\ DOMAIN regions' = DOMAIN regions
  BY Zenon, <1>1, <1>2, <1>5, ExtendRounds
<1>7. /\ \A z \in DOMAIN reached : z # x => BarriersEntered(z)' = BarriersEntered(z)
      /\ BarriersEntered(x)' = BarriersEntered(x) + 1 /\ ~InBarrier(x)
  BY <1>1, <1>2, <1>4, <1>6, NextConstruct
<1>8. /\ DOMAIN taskData' = DOMAIN taskData /\ taskData'[x].barrier = b
      /\ \A z \in DOMAIN taskData : z # x => taskData'[z] = taskData[z]
  BY <1>1, <1>3 DEF TypeOK, TaskData
<1>9. ASSUME NEW z \in DOMAIN reached PROVE KeepsTask(z)
  <2>1. reached[z] <= reached[z]
    BY PosFacts
  <2>2. CASE z = x
    <3>1. InBarrier(x)'
      <4>1. cur'[x[3]] = x /\ pc'[x[3]] \in {"arrive", "barrier"}
        BY <1>1, <1>3, <1>4
      <4> QED
        BY Zenon, <4>1 DEF InBarrier
    <3> QED
      BY Zenon, <1>1, <1>3, <1>7, <1>8, <2>1, <2>2, <3>1 DEF KeepsTask
  <2>3. CASE z # x
    <3>1. InBarrier(z) => InBarrier(z)'
      BY Zenon, <1>1, <1>4, BarrierFrame DEF KeepsSuspended
    <3> QED
      BY Zenon, <1>1, <1>7, <1>8, <2>1, <2>3, <3>1 DEF KeepsTask
  <2> QED
    BY SMT, Z3, <2>2, <2>3
<1>10. ASSUME NEW z \in DOMAIN taskData', z[1] = "implicit"
       PROVE  \/ /\ z \in DOMAIN taskData /\ taskData'[z].barrier = taskData[z].barrier
                 /\ BarriersEntered(z)' = BarriersEntered(z)
              \/ BarriersEntered(z)' > 0 /\ taskData'[z].barrier # NULL
  <2>1. z \in DOMAIN reached
    BY Zenon, <1>8, <1>10 DEF LifetimeInv, DataInv
  <2>2. CASE z = x
    <3>1. b # NULL
      BY Zenon, <1>3, EnteredNodeFacts
    <3>2. BarriersEntered(x) \in Nat
      BY Zenon, <1>3, EnteredType DEF BarriersCounted
    <3>3. BarriersEntered(x)' > 0
      BY <1>7, <3>2
    <3> QED
      BY Zenon, <1>8, <2>2, <3>1, <3>3
  <2>3. CASE z # x
    BY Zenon, <1>7, <1>8, <2>1, <2>3
  <2> QED
    BY Zenon, <2>2, <2>3
<1>11. \A u \in Threads : pc'[u] = "joined" => pc[u] = "joined" /\ cur'[u] = cur[u]
  BY Zenon, <1>1, <1>4
<1>12. KeepsRounds
  BY Zenon, <1>1, <1>6, <1>9, <1>10, <1>11 DEF KeepsRounds
<1> QED
  BY Zenon, <1>1, <1>6, <1>7, <1>12

\* The thread may enter: all others have entered the barriers before, none has
\* left the join, and the region has room for the barrier.
LEMMA MayEnter ==
  ASSUME TypeOK, LifetimeInv, RoundInv, NEW t \in Threads, InImplicitTask(t),
         NEW x, x = cur[t], Recorded(x[2]), ~InBarrier(x)
  PROVE  /\ \A u \in regions[x[2]].team :
              /\ BarriersEntered(x) <= Entered(x[2], u)
              /\ Entered(x[2], u) > 0 =>
                   /\ Implicit(x[2], u) \in DOMAIN taskData
                   /\ taskData[Implicit(x[2], u)].barrier # NULL
         /\ BarriersEntered(x) < MaxConstructs + 1
<1> DEFINE r == x[2]
           f == regions[r].script
           k == reached[x]
<1>1. /\ x \in DOMAIN reached /\ r \in DOMAIN regions /\ x = Implicit(r, t) /\ ~AtJoin(x)
  BY Zenon, CurrentImplicit
<1>2. t \in regions[r].team /\ x[3] = t
  BY Zenon, <1>1, PosFacts DEF Implicit
<1>3. ASSUME NEW u \in regions[r].team
      PROVE  BarriersEntered(x) <= Entered(r, u)
  <2>1. BarriersEntered(x) <= Entered(r, u) + 0
    BY Zenon, <1>1 DEF RoundInv, PassedInv
  <2>2. Entered(r, u) \in Nat
    BY Zenon, EnteredType DEF BarriersCounted
  <2> QED
    BY <2>1, <2>2
<1>4. ASSUME NEW u \in regions[r].team, Entered(r, u) > 0
      PROVE  Implicit(r, u) \in DOMAIN taskData /\ taskData[Implicit(r, u)].barrier # NULL
  <2>1. PICK y : y = Implicit(r, u)
    BY Zenon
  <2>2. y \in DOMAIN reached /\ BarriersEntered(y) > 0
    BY SMT, Z3, <1>4, <2>1 DEF Entered
  <2>3. y[1] = "implicit" /\ y[2] = r /\ u \in Threads
    BY <2>1, <2>2, PosFacts DEF Implicit
  <2>4. y \in DOMAIN taskData
    <3>1. SUFFICES ASSUME y \notin DOMAIN taskData PROVE FALSE
      OBVIOUS
    <3>2. AtJoin(y) /\ AllArrived(y)
      BY Zenon, <2>2, <3>1 DEF RoundInv, PassedInv
    <3>3. AtJoin(x)
      BY Zenon, <1>1, <1>2, <2>2, <2>3, <3>2, JoinedFacts
    <3> QED
      BY Zenon, <1>1, <3>3
  <2>5. taskData[y].barrier # NULL
    BY Zenon, <2>2, <2>3, <2>4 DEF RoundInv, ImplicitTasks
  <2> QED
    BY Zenon, <2>1, <2>4, <2>5
<1>5. BarriersEntered(x) < MaxConstructs + 1
  <2>1. k \in Nat /\ Pos(x) = k
    BY <1>1, <1>2 DEF TypeOK, Pos, InImplicitTask
  <2>2. BarriersEntered(x) = CountBarriers(f, k)
    BY Zenon, <1>1, <2>1, PosFacts
  <2>3. k <= MaxConstructs
    <3>1. CASE k = 0
      BY <3>1, BoundsAssumption
    <3>2. CASE k # 0
      <4>1. k \in DOMAIN f
        <5>1. 1..k \subseteq DOMAIN f
          BY Zenon, <1>1, <2>1, PosFacts
        <5> QED
          BY <2>1, <3>2, <5>1
      <4>2. k <= MaxConstructs + (IF f[k] = "join" THEN 1 ELSE 0)
        BY Zenon, <1>1, <4>1 DEF RoundInv, SizeInv
      <4>3. f[k] # "join"
        BY Zenon, <1>1, <4>1 DEF AtJoin
      <4> HIDE DEF f, k
      <4> QED
        BY SMT, Z3, <2>1, <4>2, <4>3, BoundsAssumption
    <3> QED
      BY <3>1, <3>2
  <2>4. CountBarriers(f, k) <= k /\ CountBarriers(f, k) \in Nat
    BY Zenon, <2>1, CountFacts
  <2> HIDE DEF f, k
  <2> QED
    BY <2>1, <2>2, <2>3, <2>4, BoundsAssumption
<1> QED
  BY Zenon, <1>3, <1>4, <1>5

\* What is seen of region r = x[2] when t enters a barrier.
LEMMA SyncRegionEnterSees ==
  ASSUME TypeOK, LifetimeInv, RoundInv, GraphInv, NEW t \in Threads, NEW c \in {"barrier", "join"},
         CbSyncRegionBegin(t, c), parInfo[cur[t][2]].teamSize > 1,
         NEW x, x = cur[t], NEW r, r = x[2], NEW b, b = EnteredNode(t, x)
  PROVE  /\ \A q : q # r => Same(q)
         /\ TeamOf(r)' = TeamOf(r)
         /\ EnteredIn(r)' = [EnteredIn(r) EXCEPT ![t] = @ + 1]
         /\ \A u \in Threads : NodeIn(r)'[u] = IF u = t THEN b ELSE NodeIn(r)[u]
         /\ CountIn(r)' = Arrived(parInfo[r], b).cnt /\ BarrierIn(r)' = b
<1>1. /\ KeepsRounds /\ DOMAIN regions' = DOMAIN regions
      /\ parInfo' = [parInfo EXCEPT ![r] = Arrived(@, b)]
      /\ taskData' = [taskData EXCEPT ![x].barrier = b] /\ ~InBarrier(x)
      /\ BarriersEntered(x)' = BarriersEntered(x) + 1
      /\ \A z \in DOMAIN reached : z # x => BarriersEntered(z)' = BarriersEntered(z)
      /\ DOMAIN reached' = DOMAIN reached
  <2>1. /\ KeepsRounds /\ DOMAIN regions' = DOMAIN regions /\ ~InBarrier(x)
        /\ BarriersEntered(x)' = BarriersEntered(x) + 1
        /\ \A z \in DOMAIN reached : z # x => BarriersEntered(z)' = BarriersEntered(z)
        /\ DOMAIN reached' = DOMAIN reached
    BY Zenon, SyncRegionEnterRounds
  <2>2. /\ parInfo' = [parInfo EXCEPT ![r] = Arrived(@, b)]
        /\ taskData' = [taskData EXCEPT ![x].barrier = b]
    BY Zenon DEF CbSyncRegionBegin, EnteredNode
  <2> QED
    BY Zenon, <2>1, <2>2
<1>2. /\ r \in DOMAIN parInfo /\ x \in DOMAIN taskData /\ x \in DOMAIN reached
      /\ r \in DOMAIN regions /\ x = Implicit(r, t) /\ parInfo[r] \in ParallelRegionData
      /\ InImplicitTask(t)
  BY Zenon, CurrentImplicit DEF CbSyncRegionBegin
<1>3. Recorded(r) /\ Recorded(r)' /\ TeamOf(r)' = TeamOf(r)
  <2>1. Recorded(r)
    BY Zenon, <1>2 DEF Recorded, RoundInv, SizeInv
  <2> QED
    BY Zenon, <1>1, <2>1, RecordedSame
<1>4. /\ DOMAIN taskData' = DOMAIN taskData /\ taskData'[x].barrier = b
      /\ \A z \in DOMAIN taskData : z # x => taskData'[z] = taskData[z]
  BY <1>1, <1>2 DEF TypeOK, TaskData
<1>5. \A z : z # x => KeepsNode(z)
  BY Zenon, <1>4 DEF KeepsNode
<1>6. /\ DOMAIN parInfo' = DOMAIN parInfo /\ parInfo'[r] = Arrived(parInfo[r], b)
      /\ \A q \in DOMAIN parInfo : q # r => parInfo'[q] = parInfo[q]
  BY Zenon, <1>1, <1>2 DEF TypeOK
<1>7. ASSUME NEW q, q # r PROVE Same(q)
  <2>1. /\ \A z \in DOMAIN reached : z[2] = q => BarriersEntered(z)' = BarriersEntered(z)
        /\ \A z : z[2] = q => KeepsNode(z)
    BY Zenon, <1>1, <1>5, <1>7
  <2> QED
    BY Zenon, <1>1, <1>6, <1>7, <2>1, RegionSame DEF Same
<1>8. ASSUME NEW u \in Threads, u # t
      PROVE  EnteredIn(r)'[u] = EnteredIn(r)[u] /\ NodeIn(r)'[u] = NodeIn(r)[u]
  <2>1. PICK z : z = Implicit(r, u)
    BY Zenon
  <2>2. z # x
    BY <1>2, <1>8, <2>1 DEF Implicit
  <2>3. /\ z \in DOMAIN reached => BarriersEntered(z)' = BarriersEntered(z)
        /\ KeepsNode(z)
    BY Zenon, <1>1, <1>5, <2>2
  <2> QED
    BY Zenon, <1>1, <2>1, <2>3, ThreadSame
<1>9. EnteredIn(r)[t] = BarriersEntered(x) /\ EnteredIn(r)'[t] = BarriersEntered(x)'
  BY Zenon, <1>1, <1>2, <1>3 DEF EnteredIn, Entered
<1>10. NodeIn(r)'[t] = b
  BY Zenon, <1>2, <1>3, <1>4 DEF NodeIn
<1>11. EnteredIn(r)' = [EnteredIn(r) EXCEPT ![t] = @ + 1]
  <2>1. DOMAIN EnteredIn(r) = Threads /\ DOMAIN EnteredIn(r)' = Threads
    BY Zenon DEF EnteredIn
  <2>2. EnteredIn(r)'[t] = EnteredIn(r)[t] + 1
    BY Zenon, <1>1, <1>9
  <2>3. EnteredIn(r)' = [u \in Threads |-> EnteredIn(r)'[u]]
    BY Zenon DEF EnteredIn
  <2>4. EnteredIn(r) = [u \in Threads |-> EnteredIn(r)[u]]
    BY Zenon DEF EnteredIn
  <2> QED
    BY <1>8, <2>1, <2>2, <2>3, <2>4
<1>12. \A u \in Threads : NodeIn(r)'[u] = IF u = t THEN b ELSE NodeIn(r)[u]
  BY Zenon, <1>8, <1>10
<1>13. CountIn(r)' = Arrived(parInfo[r], b).cnt /\ BarrierIn(r)' = b
  <2>1. Arrived(parInfo[r], b).barrier = b
    BY <1>2 DEF Arrived, ParallelRegionData
  <2> QED
    BY Zenon, <1>2, <1>3, <1>6, <2>1 DEF CountIn, BarrierIn
<1> QED
  BY Zenon, <1>3, <1>7, <1>11, <1>12, <1>13

-----------------------------------------------------------------------------
(* All steps.                                                              *)

LEMMA RoundInit ==
  ASSUME Init
  PROVE  RoundInv /\ DOMAIN regions = {}
<1>1. /\ DOMAIN taskData = {} /\ DOMAIN parInfo = {} /\ DOMAIN reached = {}
      /\ DOMAIN regions = {} /\ Len(regions) = 0
      /\ \A t \in Threads : pc[t] # "joined"
  BY DEF Init, EmptyFcn
<1>2. Len(regions) <= MaxRegions
  BY <1>1, BoundsAssumption
<1> QED
  BY Zenon, <1>1, <1>2 DEF RoundInv, SizeInv, ImplicitTasks

LEMMA RoundStutter ==
  ASSUME RoundInv, UNCHANGED vars
  PROVE  /\ RoundInv' /\ regions' = regions /\ taskData' = taskData /\ parInfo' = parInfo
         /\ \A r, u : Entered(r, u)' = Entered(r, u)
<1>1. /\ taskData' = taskData /\ parInfo' = parInfo /\ regions' = regions
      /\ reached' = reached /\ tasks' = tasks /\ cur' = cur /\ pc' = pc
  BY Zenon DEF vars, toolVars, runtimeVars
<1>2. SizeInv'
  BY Zenon, <1>1 DEF RoundInv, SizeInv
<1>3. /\ \A x : BarriersEntered(x)' = BarriersEntered(x)
      /\ \A x : InBarrier(x)' <=> InBarrier(x)
      /\ \A x : (AtJoin(x)' <=> AtJoin(x)) /\ (AllArrived(x)' <=> AllArrived(x))
      /\ \A r : Recorded(r)' <=> Recorded(r)
  BY Zenon, <1>1 DEF BarriersEntered, InBarrier, AtJoin, AllArrived, Recorded
<1>4. \A r, u : Entered(r, u)' = Entered(r, u)
  BY Zenon, <1>1, <1>3 DEF Entered
<1>5. \A x \in DOMAIN reached' : PassedInv(x)'
  BY Zenon, <1>1, <1>3, <1>4 DEF RoundInv, PassedInv
<1>6. \A x \in ImplicitTasks' :
        Recorded(x[2])' => (BarriersEntered(x)' > 0 <=> taskData'[x].barrier # NULL)
  BY Zenon, <1>1, <1>3 DEF RoundInv, ImplicitTasks
<1> QED
  BY Zenon, <1>1, <1>2, <1>4, <1>5, <1>6 DEF RoundInv

\* The callbacks that change a recorded barrier's data.
BarrierStep(t) ==
  \/ \E team : CbParallelBegin(t, team, Cardinality(team))
  \/ CbImplicitTaskEnd(t)
  \/ CbParallelEnd(t)
  \/ \E c \in {"barrier", "join"} :
       CbSyncRegionBegin(t, c) /\ parInfo[cur[t][2]].teamSize > 1

LEMMA StepRounds ==
  ASSUME Shortfall = 0, TypeOK, LifetimeInv, LifetimeInv', GraphInv, RoundInv,
         NEW t \in Threads, Step(t)
  PROVE  KeepsRounds /\ SizeInv' /\ (Quiet \/ BarrierStep(t))
<1>1. ASSUME Quiet PROVE KeepsRounds
  BY Zenon, <1>1 DEF Quiet
<1>2. ASSUME StillStep(t) PROVE KeepsRounds
  BY Zenon, <1>2, StillStepMoves, MovesRounds
<1>3. CASE CbThreadBegin(t) \/ CbThreadEnd(t)
  BY Zenon, <1>1, <1>3, ThreadRounds, PlainStepRounds
<1>4. CASE t = Master /\ CbTaskCreateInitial
  BY Zenon, <1>1, <1>4, TaskCreateInitialRounds, PlainStepRounds
<1>5. ASSUME NEW team \in Teams,
             NEW requested \in Cardinality(team) .. Cardinality(team) + Shortfall,
             CbParallelBegin(t, team, requested)
      PROVE  KeepsRounds /\ SizeInv' /\ BarrierStep(t)
  <2>1. requested = Cardinality(team)
    <3>1. Cardinality(team) \in Nat
      BY Zenon, TeamsAssumption
    <3> QED
      BY <3>1
  <2>2. CbParallelBegin(t, team, Cardinality(team))
    BY Zenon, <1>5, <2>1
  <2>3. PICK r : r = Len(regions) + 1
    OBVIOUS
  <2>4. StillStep(t) /\ SizeInv'
    BY Zenon, <2>2, <2>3, ParallelBeginRounds
  <2> QED
    BY Zenon, <1>2, <2>2, <2>4 DEF BarrierStep
<1>6. ASSUME NEW r \in DOMAIN regions, CbImplicitTaskBegin(t, r)
      PROVE  KeepsRounds /\ SizeInv' /\ Quiet
  BY Zenon, <1>1, <1>6, ImplicitTaskBeginRounds, QuietPlaceRounds
<1>7. CASE CbImplicitTaskEnd(t)
  <2>1. PICK x : x = cur[t]
    OBVIOUS
  <2> QED
    BY Zenon, <1>7, <2>1, ImplicitTaskEndRounds DEF BarrierStep
<1>8. CASE CbParallelEnd(t)
  <2>1. PICK x : x = cur[t]
    BY Zenon
  <2> QED
    BY Zenon, <1>2, <1>8, <2>1, ParallelEndRounds DEF BarrierStep
<1>9. ASSUME NEW c \in {"barrier", "join"}, CbSyncRegionBegin(t, c)
      PROVE  KeepsRounds /\ SizeInv' /\ (Quiet \/ BarrierStep(t))
  <2>1. CASE parInfo[cur[t][2]].teamSize > 1
    <3>1. PICK x : x = cur[t]
      BY Zenon
    <3>2. PICK b : b = EnteredNode(t, x)
      OBVIOUS
    <3>3. KeepsRounds /\ SizeInv'
      BY Zenon, <1>9, <2>1, <3>1, <3>2, SyncRegionEnterRounds
    <3> QED
      BY Zenon, <1>9, <2>1, <3>3 DEF BarrierStep
  <2>2. CASE ~(parInfo[cur[t][2]].teamSize > 1)
    BY Zenon, <1>1, <1>9, <2>2, SyncRegionAloneRounds, QuietPlaceRounds
  <2> QED
    BY <2>1, <2>2
<1>10. CASE CbSyncRegionArrive(t)
  BY Zenon, <1>1, <1>10, SyncRegionArriveRounds, QuietPlaceRounds
<1>11. CASE CbSyncRegionLoad(t) \/ CbSyncRegionEnd(t)
  BY Zenon, <1>1, <1>11, SyncRegionEndRounds, SettledStepRounds
<1>12. CASE CbExtLoopBegin(t)
  BY Zenon, <1>1, <1>12, ExtLoopBeginRounds, QuietPlaceRounds
<1>13. ASSUME NEW last \in BOOLEAN, CbExtChunk(t, last) \/ CbExtLoopEnd(t)
       PROVE  KeepsRounds /\ SizeInv' /\ Quiet
  BY Zenon, <1>1, <1>13, ChunkRounds, PlainStepRounds
<1>14. CASE CbTaskCreateExplicit(t)
  BY Zenon, <1>1, <1>14, TaskCreateExplicitRounds, PlainStepRounds
<1>15. ASSUME NEW y \in DOMAIN tasks, CbTaskScheduleStart(t, y)
       PROVE  KeepsRounds /\ SizeInv' /\ Quiet
  BY Zenon, <1>1, <1>15, TaskScheduleStartRounds, SettledStepRounds
<1>16. CASE CbTaskScheduleEnd(t)
  BY Zenon, <1>1, <1>16, TaskScheduleEndRounds, SettledStepRounds
<1>17. CASE CbExtLoopEnd(t)
  BY Zenon, <1>13, <1>17
<1> QED
  BY Zenon, <1>3, <1>4, <1>5, <1>6, <1>7, <1>8, <1>9, <1>10, <1>11, <1>12, <1>13, <1>14,
            <1>15, <1>16, <1>17 DEF Step

LEMMA RoundNext ==
  ASSUME Shortfall = 0, TypeOK, TypeOK', LifetimeInv, LifetimeInv', GraphInv, RoundInv,
         [Next]_vars
  PROVE  RoundInv'
<1>1. ASSUME NEW t \in Threads, Step(t) PROVE RoundInv'
  BY Zenon, <1>1, StepRounds, RoundStep
<1>2. CASE UNCHANGED vars
  BY Zenon, <1>2, RoundStutter
<1> QED
  BY Zenon, <1>1, <1>2 DEF Next, Terminated
=============================================================================
