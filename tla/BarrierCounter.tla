-------------------------- MODULE BarrierCounter ----------------------------
(***************************************************************************)
(* The data of parallel regions that cb_sync_region uses to find the node  *)
(* of a barrier: _barrier_cnt, _curr_barrier_node and _team_size of        *)
(* ParallelRegionData, and _curr_barrier_node of the TaskData of every     *)
(* thread.  The code tells the barriers of a region apart by the counter   *)
(* alone.  Callbacks has this protocol inside the whole tool.              *)
(***************************************************************************)
EXTENDS Naturals, FiniteSets

CONSTANTS
  Regions, Threads, Nodes, NULL,
  MaxBarriers  \* bound: barriers of a region, the join included

ASSUME BarrierAssumption == NULL \notin Nodes /\ MaxBarriers \in Nat

VARIABLES
  team,     \* region -> its threads, empty before it begins
  entered,  \* region -> thread -> how many of its barriers it has entered
  node,     \* region -> thread -> TaskData._curr_barrier_node
  cnt,      \* region -> _barrier_cnt
  barrier   \* region -> ParallelRegionData._curr_barrier_node

vars == <<team, entered, node, cnt, barrier>>

Init ==
  /\ team = [r \in Regions |-> {}]
  /\ entered = [r \in Regions |-> [t \in Threads |-> 0]]
  /\ node = [r \in Regions |-> [t \in Threads |-> NULL]]
  /\ cnt = [r \in Regions |-> 0] /\ barrier = [r \in Regions |-> NULL]

\* cb_parallel_begin, for a team whose barriers are recorded.
Form(r) ==
  /\ team[r] = {}
  /\ \E new \in SUBSET Threads :
       /\ IsFiniteSet(new) /\ Cardinality(new) > 1
       /\ team' = [team EXCEPT ![r] = new]
  /\ UNCHANGED <<entered, node, cnt, barrier>>

\* No thread has left the last barrier.
Open(r) == \A u \in team[r] : entered[r][u] > 0 => node[r][u] # NULL

\* The runtime lets a thread out of a barrier when all have entered it.
AllIn(r, t) == \A u \in team[r] : entered[r][t] <= entered[r][u]

\* Mutation: the arrival is counted after the comparison.
Count_Late(r) == IF cnt[r] > 0 /\ cnt[r] >= Cardinality(team[r]) THEN 0 ELSE cnt[r] + 1

\* _barrier_cnt++ and its reset; the first thread never resets it.
Count(r) == IF cnt[r] > 0 /\ cnt[r] + 1 >= Cardinality(team[r]) THEN 0 ELSE cnt[r] + 1

\* The critical section of cb_sync_region with ompt_scope_begin.
Enter(r, t) ==
  /\ t \in team[r] /\ Open(r) /\ AllIn(r, t) /\ entered[r][t] < MaxBarriers
  /\ entered' = [entered EXCEPT ![r][t] = @ + 1]
  /\ barrier' \in [Regions -> Nodes \cup {NULL}] /\ barrier'[r] # NULL
  /\ \A q \in Regions \ {r} : barrier'[q] = barrier[q]
  /\ IF cnt[r] = 0 THEN barrier'[r] \notin {node[r][u] : u \in team[r]}
                   ELSE barrier'[r] = barrier[r]
  /\ node' = [node EXCEPT ![r][t] = barrier'[r]]
  /\ cnt' = [cnt EXCEPT ![r] = Count(r)]
  /\ UNCHANGED team

\* cb_implicit_task with ompt_scope_end, after the last barrier.
Leave(r, t) ==
  /\ t \in team[r] /\ node[r][t] # NULL
  /\ \A u \in team[r] : entered[r][u] = entered[r][t]
  /\ node' = [node EXCEPT ![r][t] = NULL]
  /\ UNCHANGED <<team, entered, cnt, barrier>>

\* cb_parallel_end deletes the region's data; its master has left.
Destroy(r) ==
  /\ ~Open(r)
  /\ cnt' = [cnt EXCEPT ![r] = 0] /\ barrier' = [barrier EXCEPT ![r] = NULL]
  /\ UNCHANGED <<team, entered, node>>

Next ==
  \E r \in Regions : Form(r) \/ Destroy(r) \/ \E t \in Threads : Enter(r, t) \/ Leave(r, t)

Spec == Init /\ [][Next]_vars

-----------------------------------------------------------------------------
(* Properties.                                                             *)

\* The threads that are a barrier ahead of another one of their team.
Ahead(r) == {t \in team[r] : \E u \in team[r] : entered[r][t] > entered[r][u]}

\* "all the threads reached the barrier": as long as some threads of the team
\* are in a barrier that others have yet to enter, _barrier_cnt is the number
\* of the former, and it is 0 when there are none.
CountsArrivals == \A r \in Regions : cnt[r] = Cardinality(Ahead(r))

\* Two threads hold the same barrier node exactly when they have entered
\* equally many barriers, whatever the size of the team and the number of
\* barriers before.
SameRoundSameNode ==
  \A r \in Regions : \A t, u \in team[r] :
    node[r][t] # NULL /\ node[r][u] # NULL =>
      (node[r][t] = node[r][u] <=> entered[r][t] = entered[r][u])

\* The inductive invariant behind these two: the threads of a team are at most
\* one barrier apart, those ahead hold the region's current barrier node, and no
\* thread has left while others are behind.
CounterInv(r) ==
  /\ IsFiniteSet(team[r]) /\ (team[r] # {} => Cardinality(team[r]) > 1)
  /\ \A t, u \in team[r] : entered[r][t] <= entered[r][u] + 1
  /\ \A t \in Threads : entered[r][t] = 0 => node[r][t] = NULL
  /\ \A t \in Threads \ team[r] : entered[r][t] = 0
  /\ \A t \in Ahead(r) : node[r][t] = barrier[r]
  /\ Ahead(r) # {} => Open(r)
  /\ cnt[r] = Cardinality(Ahead(r))
  /\ \A t, u \in team[r] : node[r][t] # NULL /\ node[r][u] # NULL =>
       (node[r][t] = node[r][u] <=> entered[r][t] = entered[r][u])

BarrierInv ==
  /\ team \in [Regions -> SUBSET Threads]
  /\ entered \in [Regions -> [Threads -> Nat]]
  /\ node \in [Regions -> [Threads -> Nodes \cup {NULL}]]
  /\ cnt \in [Regions -> Nat] /\ barrier \in [Regions -> Nodes \cup {NULL}]
  /\ \A r \in Regions : CounterInv(r)

TeamBarrier == INSTANCE TeamBarrier

\* One counter that is reset to 0 makes each barrier one node of the graph that
\* all threads of the team get, in the order of the barriers.
ImplementsTeamBarrier == TeamBarrier!Spec
=============================================================================
