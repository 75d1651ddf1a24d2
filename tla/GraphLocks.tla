----------------------------- MODULE GraphLocks -----------------------------
(***************************************************************************)
(* Graph::connectNodes, Graph::disconnectNodes and Node::isConnectedWith   *)
(* of graph.cc at the granularity of their mutexes.  Every node has an     *)
(* _exitsMutex for its _exitEdges and an _entriesMutex for its             *)
(* _entryEdges.  connectNodes is check-then-act: it tests with one         *)
(* critical section and adds the edge in another.  disconnectNodes erases  *)
(* the edge from the two vectors in two separate critical sections.        *)
(*                                                                         *)
(* The threads are the callbacks' threads.  Pairs says which pairs of      *)
(* nodes the callbacks of a thread connect: one end is a node the thread   *)
(* made for itself, or the thread has number 0 and connects the last       *)
(* barrier to the sink, so no pair belongs to two threads.                 *)
(***************************************************************************)
EXTENDS TaskGraph

CONSTANTS
  Threads,  \* the threads that call
  NULL,     \* no call, and no owner of a mutex
  Nodes,    \* the nodes of the graph
  Pairs,    \* thread -> the pairs of nodes it connects and disconnects
  MaxCalls  \* bound: calls per thread

ASSUME PairsAssumption ==
  /\ Pairs \in [Threads -> SUBSET (Nodes \X Nodes)]
  /\ \A t, u \in Threads : t # u => Pairs[t] \cap Pairs[u] = {}

ASSUME CallsAssumption ==
  /\ MaxCalls \in Nat
  /\ NULL \notin Threads
  /\ NULL \notin {"connectNodes", "disconnectNodes"} \X (Nodes \X Nodes)

VARIABLES
  exits,         \* the edges in the _exitEdges vectors, as in TaskGraph
  entries,       \* the edges in the _entryEdges vectors
  exitsMutex,    \* node -> the thread that holds its _exitsMutex, or NULL
  entriesMutex,  \* node -> the thread that holds its _entriesMutex, or NULL
  call,          \* thread -> the call it is in, or NULL
  pc,            \* thread -> the step it takes next
  calls          \* thread -> number of calls made

vars == <<exits, entries, exitsMutex, entriesMutex, call, pc, calls>>

Calls(t) == {"connectNodes", "disconnectNodes"} \X Pairs[t]

\* The edge, its source and its target in the call of thread t.
Edge(t) == call[t][2]
Source(t) == Edge(t)[1]
Target(t) == Edge(t)[2]

Locations ==
  {"idle", "test", "isConnected", "lockExits", "lockEntries", "pushExit", "pushEntry",
   "unlockExits", "findExit", "eraseExit", "findEntry", "eraseEntry", "return"}

Goto(t, location) == pc' = [pc EXCEPT ![t] = location]

LockExits(t) ==
  /\ exitsMutex[Source(t)] = NULL
  /\ exitsMutex' = [exitsMutex EXCEPT ![Source(t)] = t]

UnlockExits(t) == exitsMutex' = [exitsMutex EXCEPT ![Source(t)] = NULL]

\* Mutation: the entries of the target are not locked.
LockEntries_Skipped(t) == UNCHANGED entriesMutex

LockEntries(t) ==
  /\ entriesMutex[Target(t)] = NULL
  /\ entriesMutex' = [entriesMutex EXCEPT ![Target(t)] = t]

UnlockEntries(t) == entriesMutex' = [entriesMutex EXCEPT ![Target(t)] = NULL]

-----------------------------------------------------------------------------

CallGraph(t) ==
  /\ pc[t] = "idle" /\ calls[t] < MaxCalls
  /\ calls' = [calls EXCEPT ![t] = @ + 1]
  /\ \E c \in Calls(t) :
       /\ call' = [call EXCEPT ![t] = c]
       /\ Goto(t, IF c[1] = "connectNodes" THEN "test" ELSE "findExit")
  /\ UNCHANGED <<exits, entries, exitsMutex, entriesMutex>>

ReturnGraph(t) ==
  /\ pc[t] = "return"
  /\ call' = [call EXCEPT ![t] = NULL]
  /\ Goto(t, "idle")
  /\ UNCHANGED <<exits, entries, exitsMutex, entriesMutex, calls>>

\* Node::isConnectedWith, called by connectNodes.
TestLock(t) ==
  /\ pc[t] = "test"
  /\ LockExits(t)
  /\ Goto(t, "isConnected")
  /\ UNCHANGED <<exits, entries, entriesMutex, call, calls>>

\* Mutation: the edge is added whether or not it is there.
IsConnected_Ignored(t) ==
  /\ pc[t] = "isConnected"
  /\ UnlockExits(t)
  /\ Goto(t, "lockExits")
  /\ UNCHANGED <<exits, entries, entriesMutex, call, calls>>

IsConnected(t) ==
  /\ pc[t] = "isConnected"
  /\ UnlockExits(t)
  /\ Goto(t, IF Edge(t) \in DOMAIN exits THEN "return" ELSE "lockExits")
  /\ UNCHANGED <<exits, entries, entriesMutex, call, calls>>

\* connectNodes, after the test.
ConnectLockExits(t) ==
  /\ pc[t] = "lockExits"
  /\ LockExits(t)
  /\ Goto(t, "lockEntries")
  /\ UNCHANGED <<exits, entries, entriesMutex, call, calls>>

ConnectLockEntries(t) ==
  /\ pc[t] = "lockEntries"
  /\ LockEntries(t)
  /\ Goto(t, "pushExit")
  /\ UNCHANGED <<exits, entries, exitsMutex, call, calls>>

ConnectExit(t) ==
  /\ pc[t] = "pushExit"
  /\ exits' = PushBack(exits, Edge(t))
  /\ Goto(t, "pushEntry")
  /\ UNCHANGED <<entries, exitsMutex, entriesMutex, call, calls>>

ConnectEntry(t) ==
  /\ pc[t] = "pushEntry"
  /\ entries' = PushBack(entries, Edge(t))
  /\ UnlockEntries(t)
  /\ Goto(t, "unlockExits")
  /\ UNCHANGED <<exits, exitsMutex, call, calls>>

ConnectUnlock(t) ==
  /\ pc[t] = "unlockExits"
  /\ UnlockExits(t)
  /\ Goto(t, "return")
  /\ UNCHANGED <<exits, entries, entriesMutex, call, calls>>

\* disconnectNodes.
DisconnectLockExits(t) ==
  /\ pc[t] = "findExit"
  /\ LockExits(t)
  /\ Goto(t, "eraseExit")
  /\ UNCHANGED <<exits, entries, entriesMutex, call, calls>>

DisconnectExit(t) ==
  /\ pc[t] = "eraseExit"
  /\ exits' = Erase(exits, Edge(t))
  /\ UnlockExits(t)
  /\ Goto(t, "findEntry")
  /\ UNCHANGED <<entries, entriesMutex, call, calls>>

DisconnectLockEntries(t) ==
  /\ pc[t] = "findEntry"
  /\ LockEntries(t)
  /\ Goto(t, "eraseEntry")
  /\ UNCHANGED <<exits, entries, exitsMutex, call, calls>>

\* Mutation: the edge stays in the vector of the target.
DisconnectEntry_Kept(t) ==
  /\ pc[t] = "eraseEntry"
  /\ UnlockEntries(t)
  /\ Goto(t, "return")
  /\ UNCHANGED <<exits, entries, exitsMutex, call, calls>>

DisconnectEntry(t) ==
  /\ pc[t] = "eraseEntry"
  /\ entries' = Erase(entries, Edge(t))
  /\ UnlockEntries(t)
  /\ Goto(t, "return")
  /\ UNCHANGED <<exits, exitsMutex, call, calls>>

-----------------------------------------------------------------------------

Init ==
  /\ exits = EmptyFcn /\ entries = EmptyFcn
  /\ exitsMutex = [n \in Nodes |-> NULL] /\ entriesMutex = [n \in Nodes |-> NULL]
  /\ call = [t \in Threads |-> NULL] /\ pc = [t \in Threads |-> "idle"]
  /\ calls = [t \in Threads |-> 0]

\* The steps inside a call.
Work(t) ==
  \/ TestLock(t) \/ IsConnected(t)
  \/ ConnectLockExits(t) \/ ConnectLockEntries(t)
  \/ ConnectExit(t) \/ ConnectEntry(t) \/ ConnectUnlock(t)
  \/ DisconnectLockExits(t) \/ DisconnectExit(t)
  \/ DisconnectLockEntries(t) \/ DisconnectEntry(t)
  \/ ReturnGraph(t)

\* Every thread has made its calls.
Terminated ==
  /\ \A t \in Threads : pc[t] = "idle" /\ calls[t] = MaxCalls
  /\ UNCHANGED vars

Next == (\E t \in Threads : CallGraph(t) \/ Work(t)) \/ Terminated

\* A thread that can take a step takes it: the operating system schedules
\* every thread, and a mutex that stays free is acquired.  No fairness among
\* the threads waiting for one mutex is assumed, and a thread need not call.
Fairness == \A t \in Threads : WF_vars(Work(t))

SafetySpec == Init /\ [][Next]_vars

Spec == SafetySpec /\ Fairness

-----------------------------------------------------------------------------
(* Properties.                                                             *)

\* The variables have their types.
TypeOK ==
  /\ exits \in [DOMAIN exits -> Nat \ {0}] /\ DOMAIN exits \subseteq Nodes \X Nodes
  /\ entries \in [DOMAIN entries -> Nat \ {0}] /\ DOMAIN entries \subseteq Nodes \X Nodes
  /\ exitsMutex \in [Nodes -> Threads \cup {NULL}]
  /\ entriesMutex \in [Nodes -> Threads \cup {NULL}]
  /\ pc \in [Threads -> Locations] /\ calls \in [Threads -> Nat]
  /\ DOMAIN call = Threads
  /\ \A t \in Threads : IF pc[t] = "idle" THEN call[t] = NULL ELSE call[t] \in Calls(t)

\* Thread t reads or writes the _exitEdges of its source, or the _entryEdges
\* of its target.
InExits(t) == pc[t] \in {"isConnected", "pushExit", "eraseExit"}
InEntries(t) == pc[t] \in {"pushEntry", "eraseEntry"}

\* No two threads are in the same std::vector at the same time, which would be
\* a data race.
RaceFree ==
  \A t, u \in Threads :
    /\ t # u /\ InExits(t) /\ InExits(u) => Source(t) # Source(u)
    /\ t # u /\ InEntries(t) /\ InEntries(u) => Target(t) # Target(u)

\* Edge e is in both vectors once or in neither.
Agree(e) ==
  /\ e \in DOMAIN exits <=> e \in DOMAIN entries
  /\ e \in DOMAIN exits => exits[e] = 1 /\ entries[e] = 1

\* An edge that no call is about is in both vectors once or in neither: the
\* check-then-act of connectNodes adds no edge twice, and the two critical
\* sections of disconnectNodes leave no half of an edge behind.
EdgesAgree ==
  \A e \in Nodes \X Nodes :
    (\A t \in Threads : call[t] # NULL => Edge(t) # e) => Agree(e)

\* What thread t holds and knows at every step of a call: the mutexes of the
\* critical sections it is in, and how far its edge has got.
CallInv(t) ==
  /\ pc[t] \in {"isConnected", "lockEntries", "pushExit", "pushEntry", "unlockExits",
               "eraseExit"} => exitsMutex[Source(t)] = t
  /\ pc[t] \in {"pushExit", "pushEntry", "eraseEntry"} => entriesMutex[Target(t)] = t
  /\ pc[t] \in {"test", "isConnected", "findExit", "eraseExit", "unlockExits", "return"} =>
       Agree(Edge(t))
  /\ pc[t] \in {"lockExits", "lockEntries", "pushExit"} =>
       Edge(t) \notin DOMAIN exits /\ Edge(t) \notin DOMAIN entries
  /\ pc[t] = "pushEntry" =>
       /\ Edge(t) \in DOMAIN exits /\ exits[Edge(t)] = 1
       /\ Edge(t) \notin DOMAIN entries
  /\ pc[t] \in {"findEntry", "eraseEntry"} =>
       /\ Edge(t) \notin DOMAIN exits
       /\ Edge(t) \in DOMAIN entries => entries[Edge(t)] = 1
  /\ pc[t] \in {"test", "isConnected", "lockExits", "lockEntries", "pushExit", "pushEntry"} =>
       call[t][1] = "connectNodes"
  /\ pc[t] \in {"findExit", "eraseExit", "findEntry", "eraseEntry"} =>
       call[t][1] = "disconnectNodes"

\* Between test and push, and between the two erasures, nobody but the calling
\* thread touches the edge: what isConnectedWith returned is still true when
\* connectNodes acts on it.
LockInv == \A t \in Threads : CallInv(t)

\* The calls are atomic: a call takes effect when it changes the entries of
\* the target, or when the test finds the edge already there.
Done == {t \in Threads : pc[t] \in {"unlockExits", "return"}}

Atomic == INSTANCE AtomicGraph WITH edges <- DOMAIN entries, done <- Done

\* connectNodes and disconnectNodes implement the atomic graph.
ImplementsAtomicSafety == Atomic!SafetySpec

\* In addition every call takes effect and returns: the two mutexes of
\* connectNodes cannot deadlock.
ImplementsAtomic == Atomic!Spec
=============================================================================
