--------------------------- MODULE BarrierProofs ----------------------------
(***************************************************************************)
(* For any teams and any number of barriers: _barrier_cnt counts arrivals, *)
(* the threads of a team agree on the node of every barrier, and the       *)
(* counter implements TeamBarrier.                                         *)
(***************************************************************************)
EXTENDS BarrierCounter, FiniteSetTheorems, TLAPS

\* The types that BarrierInv includes.
BarrierTypes ==
  /\ team \in [Regions -> SUBSET Threads]
  /\ entered \in [Regions -> [Threads -> Nat]]
  /\ node \in [Regions -> [Threads -> Nodes \cup {NULL}]]
  /\ cnt \in [Regions -> Nat] /\ barrier \in [Regions -> Nodes \cup {NULL}]

\* A team and the threads ahead in it can be counted.
LEMMA TeamFinite ==
  ASSUME BarrierInv, NEW r \in Regions
  PROVE  /\ BarrierTypes /\ CounterInv(r)
         /\ team[r] \subseteq Threads /\ \A t \in team[r] : entered[r][t] \in Nat
         /\ IsFiniteSet(team[r]) /\ IsFiniteSet(Ahead(r)) /\ Ahead(r) \subseteq team[r]
         /\ Cardinality(team[r]) \in Nat /\ cnt[r] \in Nat
         /\ cnt[r] = 0 <=> Ahead(r) = {}
<1>1. BarrierTypes /\ CounterInv(r)
  BY DEF BarrierInv, BarrierTypes
<1>2. IsFiniteSet(team[r])
  BY <1>1, Zenon DEF CounterInv
<1>3. IsFiniteSet(Ahead(r)) /\ Ahead(r) \subseteq team[r]
  <2>1. Ahead(r) \in SUBSET team[r]
    BY DEF Ahead
  <2> QED
    BY <1>2, <2>1, FS_Subset
<1>4. cnt[r] = 0 <=> Ahead(r) = {}
  BY <1>1, <1>3, FS_EmptySet, Zenon DEF CounterInv
<1>5. team[r] \subseteq Threads /\ (\A t \in team[r] : entered[r][t] \in Nat) /\ cnt[r] \in Nat
  BY <1>1 DEF BarrierTypes
<1> QED
  BY <1>1, <1>2, <1>3, <1>4, <1>5, FS_CardinalityType

\* What a thread that enters changes: it goes one barrier further, and holds the
\* region's barrier node, which is a new one if nobody was ahead.
LEMMA EnterEffect ==
  ASSUME BarrierInv, NEW r \in Regions, NEW t \in Threads, Enter(r, t)
  PROVE  /\ t \in team[r] /\ team' = team /\ BarrierTypes'
         /\ entered'[r][t] = entered[r][t] + 1
         /\ node'[r][t] = barrier'[r] /\ barrier'[r] \in Nodes
         /\ \A u \in Threads \ {t} :
              entered'[r][u] = entered[r][u] /\ node'[r][u] = node[r][u]
         /\ IF cnt[r] = 0 THEN \A u \in team[r] : node[r][u] # barrier'[r]
                          ELSE barrier'[r] = barrier[r]
         /\ cnt'[r] = Count(r) /\ Open(r) /\ AllIn(r, t)
         /\ \A q \in Regions \ {r} :
              /\ entered'[q] = entered[q] /\ node'[q] = node[q]
              /\ cnt'[q] = cnt[q] /\ barrier'[q] = barrier[q]
<1>1. BarrierTypes /\ cnt[r] \in Nat
  BY TeamFinite
<1>2. /\ t \in team[r] /\ team' = team /\ Open(r) /\ AllIn(r, t)
      /\ entered' = [entered EXCEPT ![r][t] = entered[r][t] + 1]
      /\ node' = [node EXCEPT ![r][t] = barrier'[r]]
      /\ cnt' = [cnt EXCEPT ![r] = Count(r)]
  BY DEF Enter
<1>3. /\ barrier' \in [Regions -> Nodes \cup {NULL}] /\ barrier'[r] \in Nodes
      /\ \A q \in Regions \ {r} : barrier'[q] = barrier[q]
      /\ IF cnt[r] = 0 THEN \A u \in team[r] : node[r][u] # barrier'[r]
                       ELSE barrier'[r] = barrier[r]
  BY DEF Enter
<1>4. Count(r) \in Nat
  BY <1>1 DEF Count
<1>5. /\ entered' \in [Regions -> [Threads -> Nat]] /\ entered'[r][t] = entered[r][t] + 1
      /\ \A u \in Threads \ {t} : entered'[r][u] = entered[r][u]
      /\ \A q \in Regions \ {r} : entered'[q] = entered[q]
  BY <1>1, <1>2 DEF BarrierTypes
<1>6. /\ node' \in [Regions -> [Threads -> Nodes \cup {NULL}]] /\ node'[r][t] = barrier'[r]
      /\ \A u \in Threads \ {t} : node'[r][u] = node[r][u]
      /\ \A q \in Regions \ {r} : node'[q] = node[q]
  BY <1>1, <1>2, <1>3 DEF BarrierTypes
<1>7. /\ cnt' \in [Regions -> Nat] /\ cnt'[r] = Count(r)
      /\ \A q \in Regions \ {r} : cnt'[q] = cnt[q]
  BY <1>1, <1>2, <1>4 DEF BarrierTypes
<1>8. team' \in [Regions -> SUBSET Threads]
  BY <1>1, <1>2 DEF BarrierTypes
<1>9. BarrierTypes'
  BY <1>3, <1>5, <1>6, <1>7, <1>8 DEF BarrierTypes
<1> QED
  BY <1>2, <1>3, <1>5, <1>6, <1>7, <1>9

\* Thread t enters a barrier that nobody is in: all were in step, and t is the
\* only one ahead afterwards.
LEMMA FirstEnters ==
  ASSUME BarrierInv, NEW r \in Regions, NEW t \in Threads, Enter(r, t), cnt[r] = 0
  PROVE  /\ \A u \in team[r] : entered[r][u] = entered[r][t]
         /\ Ahead(r)' = {t} /\ cnt'[r] = 1
<1>1. /\ Ahead(r) = {} /\ IsFiniteSet(team[r]) /\ CounterInv(r) /\ team[r] \subseteq Threads
      /\ \A u \in team[r] : entered[r][u] \in Nat
  BY TeamFinite
<1>2. /\ t \in team[r] /\ team' = team /\ entered'[r][t] = entered[r][t] + 1
      /\ \A u \in Threads \ {t} : entered'[r][u] = entered[r][u]
      /\ cnt'[r] = Count(r)
  BY EnterEffect
<1>3. \A u \in team[r] : entered[r][u] = entered[r][t]
  BY <1>1, <1>2 DEF Ahead
<1>4. PICK v \in team[r] : v # t
  <2>1. Cardinality({t}) = 1 /\ Cardinality(team[r]) > 1
    BY <1>1, <1>2, FS_Singleton, Zenon DEF CounterInv
  <2> QED
    BY <1>2, <2>1
<1>5. \A u \in team[r] \ {t} : entered'[r][u] = entered[r][t]
  BY <1>1, <1>2, <1>3
<1>6. Ahead(r)' = {t}
  <2>1. entered[r][t] \in Nat
    BY <1>1, <1>2
  <2> QED
    BY <1>2, <1>4, <1>5, <2>1 DEF Ahead
<1>7. cnt'[r] = 1
  BY <1>2 DEF Count
<1> QED
  BY <1>3, <1>6, <1>7

\* Thread t follows others into a barrier: the counter goes to 0 exactly when
\* t is the last one.
LEMMA LaterEnters ==
  ASSUME BarrierInv, NEW r \in Regions, NEW t \in Threads, Enter(r, t), cnt[r] # 0
  PROVE  /\ \A u \in Ahead(r) : entered[r][u] = entered[r][t] + 1
         /\ \A u \in team[r] \ Ahead(r) : entered[r][u] = entered[r][t]
         /\ t \notin Ahead(r) /\ Ahead(r) # {}
         /\ Ahead(r)' = IF Ahead(r) \cup {t} = team[r] THEN {} ELSE Ahead(r) \cup {t}
         /\ cnt'[r] = Cardinality(Ahead(r)')
<1>1. /\ Ahead(r) # {} /\ IsFiniteSet(team[r]) /\ IsFiniteSet(Ahead(r)) /\ CounterInv(r)
      /\ Cardinality(team[r]) \in Nat /\ Ahead(r) \subseteq team[r] /\ team[r] \subseteq Threads
      /\ cnt[r] \in Nat /\ \A u \in team[r] : entered[r][u] \in Nat
  BY TeamFinite
<1>2. /\ t \in team[r] /\ team' = team /\ entered'[r][t] = entered[r][t] + 1
      /\ \A u \in Threads \ {t} : entered'[r][u] = entered[r][u]
      /\ cnt'[r] = Count(r) /\ AllIn(r, t)
  BY EnterEffect
<1>3. t \notin Ahead(r)
  BY <1>1, <1>2 DEF Ahead, AllIn
<1>4. \A u \in Ahead(r) : entered[r][u] = entered[r][t] + 1
  <2>1. \A u, v \in team[r] : entered[r][u] <= entered[r][v] + 1
    BY <1>1 DEF CounterInv
  <2> QED
    BY <1>1, <1>2, <2>1 DEF Ahead, AllIn
<1>5. \A u \in team[r] \ Ahead(r) : entered[r][u] = entered[r][t]
  BY <1>1, <1>2 DEF Ahead, AllIn
<1>6. /\ \A u \in Ahead(r) \cup {t} : entered'[r][u] = entered[r][t] + 1
      /\ \A u \in team[r] \ (Ahead(r) \cup {t}) : entered'[r][u] = entered[r][t]
  BY <1>1, <1>2, <1>3, <1>4, <1>5
<1>7. Ahead(r)' = IF Ahead(r) \cup {t} = team[r] THEN {} ELSE Ahead(r) \cup {t}
  <2>1. entered[r][t] \in Nat
    BY <1>1, <1>2
  <2>2. Ahead(r)' = {u \in team[r] : \E w \in team[r] : entered'[r][u] > entered'[r][w]}
    BY <1>2 DEF Ahead
  <2>3. CASE Ahead(r) \cup {t} = team[r]
    BY <1>6, <2>1, <2>2, <2>3
  <2>4. CASE Ahead(r) \cup {t} # team[r]
    <3>1. PICK v \in team[r] : v \notin Ahead(r) \cup {t}
      BY <1>1, <1>2, <2>4
    <3>2. \A u \in Ahead(r)' : u \in Ahead(r) \cup {t}
      BY <1>6, <2>1, <2>2
    <3>3. \A u \in Ahead(r) \cup {t} : u \in Ahead(r)'
      BY <1>1, <1>2, <1>6, <2>1, <2>2, <3>1
    <3>4. Ahead(r)' = Ahead(r) \cup {t}
      BY <3>2, <3>3, Zenon
    <3> QED
      BY <2>4, <3>4
  <2> QED
    BY <2>3, <2>4
<1>8. Cardinality(Ahead(r) \cup {t}) = cnt[r] + 1
  <2>1. cnt[r] = Cardinality(Ahead(r))
    BY <1>1, Zenon DEF CounterInv
  <2> QED
    BY <1>1, <1>3, <2>1, FS_AddElement
<1>9. /\ cnt[r] + 1 <= Cardinality(team[r])
      /\ cnt[r] + 1 = Cardinality(team[r]) => Ahead(r) \cup {t} = team[r]
  <2>1. Ahead(r) \cup {t} \in SUBSET team[r]
    BY <1>1, <1>2
  <2> QED
    BY <1>1, <1>8, <2>1, FS_Subset
<1>10. cnt'[r] = Cardinality(Ahead(r)')
  <2>1. cnt'[r] = IF cnt[r] > 0 /\ cnt[r] + 1 >= Cardinality(team[r]) THEN 0 ELSE cnt[r] + 1
    BY <1>2 DEF Count
  <2>2. CASE Ahead(r) \cup {t} = team[r]
    <3>1. cnt[r] + 1 = Cardinality(team[r])
      BY <1>8, <2>2
    <3>2. cnt'[r] = 0
      BY <1>1, <2>1, <3>1
    <3>3. Ahead(r)' = {}
      BY <1>7, <2>2
    <3> QED
      BY <3>2, <3>3, FS_EmptySet
  <2>3. CASE Ahead(r) \cup {t} # team[r]
    <3>1. cnt'[r] = cnt[r] + 1
      BY <1>1, <1>9, <2>1, <2>3
    <3>2. Ahead(r)' = Ahead(r) \cup {t}
      BY <1>7, <2>3
    <3> QED
      BY <1>8, <3>1, <3>2
  <2> QED
    BY <2>2, <2>3
<1> QED
  BY <1>1, <1>3, <1>4, <1>5, <1>7, <1>10

\* A thread that enters finds its barrier's node with exactly those that are in
\* that barrier already.
LEMMA EnterNode ==
  ASSUME BarrierInv, NEW r \in Regions, NEW t \in Threads, Enter(r, t)
  PROVE  \A u \in team[r] : node[r][u] = barrier'[r] <=> entered[r][u] = entered[r][t] + 1
<1>1. /\ barrier'[r] \in Nodes /\ t \in team[r]
      /\ IF cnt[r] = 0 THEN \A u \in team[r] : node[r][u] # barrier'[r]
                       ELSE barrier'[r] = barrier[r]
  BY EnterEffect
<1>2. CounterInv(r) /\ Ahead(r) \subseteq team[r] /\ \A u \in team[r] : entered[r][u] \in Nat
  BY TeamFinite
<1>3. CASE cnt[r] = 0
  <2>1. \A u \in team[r] : entered[r][u] = entered[r][t]
    BY <1>3, FirstEnters
  <2> QED
    BY <1>1, <1>2, <1>3, <2>1
<1>4. CASE cnt[r] # 0
  <2>1. /\ \A u \in Ahead(r) : entered[r][u] = entered[r][t] + 1
        /\ \A u \in team[r] \ Ahead(r) : entered[r][u] = entered[r][t]
        /\ Ahead(r) # {}
    BY <1>4, LaterEnters
  <2>2. \A u \in Ahead(r) : node[r][u] = barrier'[r]
    BY <1>1, <1>2, <1>4 DEF CounterInv
  <2>3. PICK v \in Ahead(r) : TRUE
    BY <2>1
  <2>4. node[r][v] = barrier'[r] /\ node[r][v] # NULL /\ v \in team[r]
    BY <1>1, <1>2, <2>2, BarrierAssumption
  <2>5. ASSUME NEW u \in team[r], u \notin Ahead(r)
        PROVE  node[r][u] # barrier'[r] /\ entered[r][u] # entered[r][t] + 1
    <3>1. entered[r][u] # entered[r][v] /\ entered[r][u] # entered[r][t] + 1
      BY <1>1, <1>2, <2>1, <2>5
    <3>2. node[r][u] # node[r][v]
      BY <1>2, <2>4, <3>1 DEF CounterInv
    <3> QED
      BY <2>4, <3>1, <3>2
  <2> QED
    BY <2>1, <2>2, <2>5
<1> QED
  BY <1>3, <1>4

\* The other regions are left alone.
LEMMA OtherRegion ==
  ASSUME BarrierInv, NEW q \in Regions,
         team'[q] = team[q], entered'[q] = entered[q], node'[q] = node[q],
         cnt'[q] = cnt[q], barrier'[q] = barrier[q]
  PROVE  CounterInv(q)'
<1>1. CounterInv(q)
  BY DEF BarrierInv
<1>2. Ahead(q)' = Ahead(q) /\ Open(q)' = Open(q)
  BY Zenon DEF Ahead, Open
<1> QED
  BY <1>1, <1>2 DEF CounterInv

LEMMA EnterKeepsInv ==
  ASSUME BarrierInv, NEW r \in Regions, NEW t \in Threads, Enter(r, t)
  PROVE  BarrierInv'
<1>1. /\ t \in team[r] /\ team' = team /\ BarrierTypes' /\ Open(r)
      /\ entered'[r][t] = entered[r][t] + 1
      /\ node'[r][t] = barrier'[r] /\ barrier'[r] \in Nodes
      /\ \A u \in Threads \ {t} :
           entered'[r][u] = entered[r][u] /\ node'[r][u] = node[r][u]
  BY EnterEffect
<1>2. /\ CounterInv(r) /\ team[r] \subseteq Threads /\ entered[r][t] \in Nat
      /\ \A u \in Threads : entered[r][u] \in Nat
  BY TeamFinite DEF BarrierTypes
<1>3. \A u \in team[r] : node[r][u] = barrier'[r] <=> entered[r][u] = entered[r][t] + 1
  BY EnterNode
<1>4. \A u \in team[r] : entered[r][u] = entered[r][t] \/ entered[r][u] = entered[r][t] + 1
  BY FirstEnters, LaterEnters
<1>5. cnt'[r] = Cardinality(Ahead(r)') /\ Ahead(r)' \subseteq team[r]
  <2>1. CASE cnt[r] = 0
    <3>1. Ahead(r)' = {t} /\ cnt'[r] = 1
      BY <2>1, FirstEnters
    <3>2. Cardinality({t}) = 1
      BY FS_Singleton, Zenon
    <3> QED
      BY <1>1, <3>1, <3>2
  <2>2. CASE cnt[r] # 0
    <3>1. Ahead(r)' \subseteq team[r]
      BY <1>1 DEF Ahead
    <3> QED
      BY <2>2, <3>1, LaterEnters
  <2> QED
    BY <2>1, <2>2
<1>6. \A u \in team[r] : entered'[r][u] = entered[r][t] \/ entered'[r][u] = entered[r][t] + 1
  BY <1>1, <1>2, <1>4
<1>7. \A u \in Ahead(r)' : entered'[r][u] = entered[r][t] + 1
  BY <1>1, <1>2, <1>6 DEF Ahead
<1>8. \A u \in Ahead(r)' : node'[r][u] = barrier'[r]
  BY <1>1, <1>2, <1>3, <1>5, <1>7
<1>9. ASSUME NEW u \in team[r], NEW v \in team[r], node'[r][u] # NULL, node'[r][v] # NULL
      PROVE  node'[r][u] = node'[r][v] <=> entered'[r][u] = entered'[r][v]
  <2>1. CASE u = t \/ v = t
    BY <1>1, <1>2, <1>3, <2>1
  <2>2. CASE u # t /\ v # t
    <3>1. /\ node'[r][u] = node[r][u] /\ node'[r][v] = node[r][v]
          /\ entered'[r][u] = entered[r][u] /\ entered'[r][v] = entered[r][v]
      BY <1>1, <1>2, <2>2
    <3> QED
      BY <1>2, <1>9, <3>1 DEF CounterInv
  <2> QED
    BY <2>1, <2>2
<1>10. Open(r)'
  <2>1. \A u \in team[r] : entered'[r][u] > 0 => node'[r][u] # NULL
    BY <1>1, <1>2, BarrierAssumption DEF Open
  <2> QED
    BY <1>1, <2>1 DEF Open
<1>11. \A u, v \in team[r] : entered'[r][u] <= entered'[r][v] + 1
  BY <1>2, <1>6
<1>12. /\ \A u \in Threads : entered'[r][u] = 0 => node'[r][u] = NULL
       /\ \A u \in Threads \ team[r] : entered'[r][u] = 0
  BY <1>1, <1>2 DEF CounterInv
<1>13. IsFiniteSet(team[r]) /\ (team[r] # {} => Cardinality(team[r]) > 1)
  BY <1>2, Zenon DEF CounterInv
<1>14. CounterInv(r)'
  BY <1>1, <1>5, <1>8, <1>9, <1>10, <1>11, <1>12, <1>13, Zenon DEF CounterInv
<1>15. \A q \in Regions \ {r} : CounterInv(q)'
  BY <1>1, EnterEffect, OtherRegion, Zenon
<1> QED
  BY <1>1, <1>14, <1>15, Zenon DEF BarrierInv, BarrierTypes

LEMMA LeaveKeepsInv ==
  ASSUME BarrierInv, NEW r \in Regions, NEW t \in Threads, Leave(r, t)
  PROVE  BarrierInv'
<1>1. /\ BarrierTypes /\ CounterInv(r) /\ team[r] \subseteq Threads
      /\ \A u \in team[r] : entered[r][u] \in Nat
  BY TeamFinite
<1>2. /\ UNCHANGED <<team, entered, cnt, barrier>> /\ t \in team[r]
      /\ node' = [node EXCEPT ![r][t] = NULL]
      /\ \A u \in team[r] : entered[r][u] = entered[r][t]
  BY DEF Leave
<1>3. /\ node'[r][t] = NULL /\ \A u \in Threads \ {t} : node'[r][u] = node[r][u]
      /\ \A q \in Regions \ {r} : node'[q] = node[q]
      /\ node' \in [Regions -> [Threads -> Nodes \cup {NULL}]]
  BY <1>1, <1>2 DEF BarrierTypes
<1>4. Ahead(r) = {} /\ Ahead(r)' = Ahead(r)
  BY <1>1, <1>2 DEF Ahead
<1>5. \A u, v \in team[r] : node'[r][u] # NULL /\ node'[r][v] # NULL =>
        (node'[r][u] = node'[r][v] <=> entered[r][u] = entered[r][v])
  <2>1. \A u \in team[r] : node'[r][u] # NULL => node'[r][u] = node[r][u]
    BY <1>1, <1>3
  <2> QED
    BY <1>1, <2>1 DEF CounterInv
<1>6. \A u \in Threads : entered[r][u] = 0 => node'[r][u] = NULL
  BY <1>1, <1>3, Zenon DEF CounterInv
<1>7. CounterInv(r)'
  BY <1>1, <1>2, <1>4, <1>5, <1>6 DEF CounterInv
<1>8. \A q \in Regions \ {r} : CounterInv(q)'
  BY <1>2, <1>3, OtherRegion, Zenon
<1>9. BarrierTypes'
  BY <1>1, <1>2, <1>3, Zenon DEF BarrierTypes
<1> QED
  BY <1>7, <1>8, <1>9, Zenon DEF BarrierInv, BarrierTypes

LEMMA FormKeepsInv ==
  ASSUME BarrierInv, NEW r \in Regions, Form(r)
  PROVE  BarrierInv'
<1>1. PICK new \in SUBSET Threads :
        IsFiniteSet(new) /\ Cardinality(new) > 1 /\ team' = [team EXCEPT ![r] = new]
  BY Zenon DEF Form
<1>2. /\ BarrierTypes /\ CounterInv(r) /\ cnt[r] = 0 /\ team[r] = {}
      /\ UNCHANGED <<entered, node, cnt, barrier>>
  <2>1. team[r] = {} /\ Ahead(r) = {}
    BY DEF Form, Ahead
  <2> QED
    BY <2>1, TeamFinite DEF Form
<1>3. \A t \in Threads : entered[r][t] = 0 /\ node[r][t] = NULL
  BY <1>2 DEF CounterInv
<1>4. team'[r] = new /\ \A q \in Regions \ {r} : team'[q] = team[q]
  BY <1>1, <1>2 DEF BarrierTypes
<1>5. Ahead(r)' = {}
  BY <1>2, <1>3, <1>4 DEF Ahead
<1>6. cnt'[r] = Cardinality(Ahead(r)')
  BY <1>2, <1>5, FS_EmptySet, Zenon
<1>7. CounterInv(r)'
  BY <1>1, <1>2, <1>3, <1>4, <1>5, <1>6 DEF CounterInv
<1>8. \A q \in Regions \ {r} : CounterInv(q)'
  BY <1>2, <1>4, OtherRegion, Zenon
<1>9. BarrierTypes'
  BY <1>1, <1>2 DEF BarrierTypes
<1> QED
  BY <1>7, <1>8, <1>9, Zenon DEF BarrierInv, BarrierTypes

LEMMA DestroyKeepsInv ==
  ASSUME BarrierInv, NEW r \in Regions, Destroy(r)
  PROVE  BarrierInv'
<1>1. /\ ~Open(r) /\ UNCHANGED <<team, entered, node>>
      /\ cnt' = [cnt EXCEPT ![r] = 0] /\ barrier' = [barrier EXCEPT ![r] = NULL]
  BY DEF Destroy
<1>2. BarrierTypes /\ CounterInv(r) /\ Ahead(r) = {}
  BY <1>1, TeamFinite DEF CounterInv
<1>3. Ahead(r)' = Ahead(r)
  BY <1>1 DEF Ahead
<1>4. cnt'[r] = Cardinality(Ahead(r)')
  BY <1>1, <1>2, <1>3, FS_EmptySet, Zenon DEF BarrierTypes
<1>5. CounterInv(r)'
  BY <1>1, <1>2, <1>3, <1>4 DEF CounterInv
<1>6. \A q \in Regions \ {r} : cnt'[q] = cnt[q] /\ barrier'[q] = barrier[q]
  BY <1>1, <1>2 DEF BarrierTypes
<1>7. \A q \in Regions \ {r} : CounterInv(q)'
  BY <1>1, <1>6, OtherRegion, Zenon
<1>8. BarrierTypes'
  BY <1>1, <1>2 DEF BarrierTypes
<1> QED
  BY <1>5, <1>7, <1>8, Zenon DEF BarrierInv, BarrierTypes

\* Every step of a region keeps the invariant.
LEMMA BarrierStep == BarrierInv /\ [Next]_vars => BarrierInv'
<1> SUFFICES ASSUME BarrierInv, [Next]_vars PROVE BarrierInv'
  OBVIOUS
<1>1. CASE UNCHANGED vars
  <2>1. \A r \in Regions : CounterInv(r)'
    BY <1>1, OtherRegion, Zenon DEF vars
  <2> QED
    BY <1>1, <2>1, Zenon DEF vars, BarrierInv
<1>2. CASE Next
  BY <1>2, FormKeepsInv, DestroyKeepsInv, EnterKeepsInv, LeaveKeepsInv, Zenon DEF Next
<1> QED
  BY <1>1, <1>2

LEMMA BarrierInit == Init => BarrierInv
<1> SUFFICES ASSUME Init PROVE BarrierInv
  OBVIOUS
<1>1. \A r \in Regions :
        /\ team[r] = {} /\ cnt[r] = 0 /\ barrier[r] = NULL
        /\ \A t \in Threads : entered[r][t] = 0 /\ node[r][t] = NULL
  BY DEF Init
<1>2. ASSUME NEW r \in Regions PROVE CounterInv(r)
  <2>1. Ahead(r) = {}
    BY <1>1 DEF Ahead
  <2>2. Cardinality(Ahead(r)) = 0 /\ IsFiniteSet({})
    BY <2>1, FS_EmptySet, Zenon
  <2> QED
    BY <1>1, <2>1, <2>2, Zenon DEF CounterInv
<1> QED
  BY <1>2 DEF Init, BarrierInv

\* _barrier_cnt of cb_sync_region counts the threads that are in a barrier which
\* others have yet to enter, for any size of the team: it is reset exactly when
\* the last thread arrives, never early and never late.
THEOREM CounterCounts == Spec => []CountsArrivals
<1>1. BarrierInv => CountsArrivals
  BY DEF BarrierInv, CounterInv, CountsArrivals
<1> QED
  BY <1>1, BarrierInit, BarrierStep, PTL DEF Spec

\* Any two threads of a team hold the same barrier node exactly when they have
\* entered equally many barriers, for any size of the team and any number of
\* barriers.
THEOREM NodesFollowRounds == Spec => []SameRoundSameNode
<1>1. BarrierInv => SameRoundSameNode
  BY DEF BarrierInv, CounterInv, SameRoundSameNode
<1> QED
  BY <1>1, BarrierInit, BarrierStep, PTL DEF Spec

\* A step of a region is a step of TeamBarrier or changes nothing there.
LEMMA TeamBarrierStep ==
  BarrierInv /\ [Next]_vars => [TeamBarrier!Next]_(TeamBarrier!vars)
<1> SUFFICES ASSUME BarrierInv, [Next]_vars PROVE [TeamBarrier!Next]_(TeamBarrier!vars)
  OBVIOUS
<1>1. ASSUME NEW r \in Regions, Form(r) PROVE TeamBarrier!Form(r)
  BY <1>1, Zenon DEF Form, TeamBarrier!Form
<1>2. ASSUME NEW r \in Regions, Destroy(r) PROVE UNCHANGED TeamBarrier!vars
  BY <1>2, Zenon DEF Destroy, TeamBarrier!vars
<1>3. ASSUME NEW r \in Regions, NEW t \in Threads, Enter(r, t) PROVE TeamBarrier!Enter(r, t)
  <2>1. \A u \in team[r] : node[r][u] = barrier'[r] <=> entered[r][u] = entered[r][t] + 1
    BY <1>3, EnterNode
  <2>2. barrier'[r] \in Nodes /\ node' = [node EXCEPT ![r][t] = barrier'[r]]
    BY <1>3, EnterEffect DEF Enter
  <2> QED
    BY <1>3, <2>1, <2>2, Zenon DEF Enter, AllIn, TeamBarrier!Enter
<1>4. ASSUME NEW r \in Regions, NEW t \in Threads, Leave(r, t) PROVE TeamBarrier!Leave(r, t)
  BY <1>4, Zenon DEF Leave, TeamBarrier!Leave
<1>5. CASE UNCHANGED vars
  BY <1>5 DEF vars, TeamBarrier!vars
<1> QED
  BY <1>1, <1>2, <1>3, <1>4, <1>5, Zenon DEF Next, TeamBarrier!Next

\* The counter of cb_sync_region makes every barrier of a region one node, which
\* all threads of the team get.
THEOREM CounterIsBarrier == Spec => ImplementsTeamBarrier
<1>1. Init => TeamBarrier!Init
  BY DEF Init, TeamBarrier!Init
<1> QED
  BY <1>1, BarrierInit, BarrierStep, TeamBarrierStep, PTL
    DEF Spec, ImplementsTeamBarrier, TeamBarrier!Spec
=============================================================================
