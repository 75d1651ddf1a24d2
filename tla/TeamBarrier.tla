---------------------------- MODULE TeamBarrier -----------------------------
(***************************************************************************)
(* What the barriers of parallel regions are in the graph: the threads of  *)
(* a team go through them in the same order, and there is one node for     *)
(* each, which all of them get.                                            *)
(***************************************************************************)
EXTENDS Naturals

CONSTANTS Regions, Threads, Nodes, NULL

VARIABLES
  team,     \* region -> its threads, empty before it begins
  entered,  \* region -> thread -> how many barriers it has entered
  node      \* region -> thread -> the node of the latest, NULL before and at the end

vars == <<team, entered, node>>

Init ==
  /\ team = [r \in Regions |-> {}]
  /\ entered = [r \in Regions |-> [t \in Threads |-> 0]]
  /\ node = [r \in Regions |-> [t \in Threads |-> NULL]]

Form(r) ==
  /\ team[r] = {} /\ \E new \in SUBSET Threads : team' = [team EXCEPT ![r] = new]
  /\ UNCHANGED <<entered, node>>

\* The thread gets the node of those that are in this barrier already, or a
\* node that nobody of the team has.
Enter(r, t) ==
  /\ t \in team[r] /\ \A u \in team[r] : entered[r][t] <= entered[r][u]
  /\ entered' = [entered EXCEPT ![r][t] = @ + 1]
  /\ \E n \in Nodes :
       /\ node' = [node EXCEPT ![r][t] = n]
       /\ \A u \in team[r] : node[r][u] = n <=> entered[r][u] = entered[r][t] + 1
  /\ UNCHANGED team

\* A thread leaves the last barrier, which all have entered.
Leave(r, t) ==
  /\ t \in team[r] /\ \A u \in team[r] : entered[r][u] = entered[r][t]
  /\ node' = [node EXCEPT ![r][t] = NULL]
  /\ UNCHANGED <<team, entered>>

Next == \E r \in Regions : Form(r) \/ \E t \in Threads : Enter(r, t) \/ Leave(r, t)

Spec == Init /\ [][Next]_vars
=============================================================================
