---------------------------- MODULE AtomicGraph -----------------------------
(***************************************************************************)
(* What Graph::connectNodes and Graph::disconnectNodes promise to the      *)
(* callbacks: the graph is a set of edges, and a call takes effect at one  *)
(* moment between the moment it is made and the moment it returns.         *)
(***************************************************************************)
CONSTANTS
  Threads,  \* the threads that call
  NULL,     \* no call
  Pairs     \* thread -> the pairs of nodes it connects and disconnects

VARIABLES
  edges,  \* the edges of the graph
  call,   \* thread -> the call it is in, or NULL
  done    \* the threads whose call has taken effect

vars == <<edges, call, done>>

\* A call: the function and its two nodes.
Calls(t) == {"connectNodes", "disconnectNodes"} \X Pairs[t]

Init == edges = {} /\ call = [t \in Threads |-> NULL] /\ done = {}

Call(t) ==
  /\ call[t] = NULL
  /\ \E c \in Calls(t) : call' = [call EXCEPT ![t] = c]
  /\ UNCHANGED <<edges, done>>

Effect(t) ==
  /\ call[t] # NULL /\ t \notin done
  /\ edges' = IF call[t][1] = "connectNodes"
              THEN edges \cup {call[t][2]}
              ELSE edges \ {call[t][2]}
  /\ done' = done \cup {t}
  /\ UNCHANGED call

Return(t) ==
  /\ t \in done
  /\ call' = [call EXCEPT ![t] = NULL]
  /\ done' = done \ {t}
  /\ UNCHANGED edges

Next == \E t \in Threads : Call(t) \/ Effect(t) \/ Return(t)

\* Calls take effect and return.
Fairness == \A t \in Threads : WF_vars(Effect(t)) /\ WF_vars(Return(t))

\* The safety part alone, which is what the proof is about.
SafetySpec == Init /\ [][Next]_vars

Spec == SafetySpec /\ Fairness
=============================================================================
