-------------------------- MODULE GraphLocksProofs --------------------------
(***************************************************************************)
(* For any threads, nodes and disjoint Pairs: the mutexes of graph.cc      *)
(* exclude data races, and connectNodes and disconnectNodes are atomic.    *)
(***************************************************************************)
EXTENDS GraphLocks, TLAPS

\* What PushBack and Erase do to an edge e that is absent, or held at most once.
LEMMA VectorFacts ==
  ASSUME NEW v, NEW e
  PROVE  /\ DOMAIN PushBack(v, e) = DOMAIN v \cup {e}
         /\ e \notin DOMAIN v => PushBack(v, e)[e] = 1
         /\ \A d \in DOMAIN v \ {e} : PushBack(v, e)[d] = v[d]
         /\ (e \in DOMAIN v => v[e] = 1) => DOMAIN Erase(v, e) = DOMAIN v \ {e}
         /\ (e \in DOMAIN v => v[e] = 1) =>
              \A d \in DOMAIN v \ {e} : Erase(v, e)[d] = v[d]
BY DEF PushBack, Erase, Put, Drop

\* PushBack and Erase keep counts positive.
LEMMA VectorType ==
  ASSUME NEW v, NEW e, v \in [DOMAIN v -> Nat \ {0}]
  PROVE  /\ PushBack(v, e) \in [DOMAIN PushBack(v, e) -> Nat \ {0}]
         /\ Erase(v, e) \in [DOMAIN Erase(v, e) -> Nat \ {0}]
         /\ DOMAIN Erase(v, e) \subseteq DOMAIN v
BY DEF PushBack, Erase, Put, Drop

\* The edge of a call belongs to the calling thread alone.
OwnsEdge(t) ==
  /\ call[t] # NULL /\ call[t] \in Calls(t)
  /\ Edge(t) \in Nodes \X Nodes
  /\ Source(t) \in Nodes /\ Target(t) \in Nodes
  /\ \A u \in Threads \ {t} : call[u] # NULL => Edge(u) # Edge(t)

LEMMA EdgeOwned ==
  ASSUME TypeOK, NEW t \in Threads, pc[t] # "idle"
  PROVE  OwnsEdge(t)
BY PairsAssumption, CallsAssumption DEF TypeOK, Calls, Edge, Source, Target, OwnsEdge

\* A step leaves edge e alone.
SameEdge(e) ==
  /\ e \in DOMAIN exits' <=> e \in DOMAIN exits
  /\ e \in DOMAIN exits => exits'[e] = exits[e]
  /\ e \in DOMAIN entries' <=> e \in DOMAIN entries
  /\ e \in DOMAIN entries => entries'[e] = entries[e]

\* A step leaves thread u in its place, with the mutexes it holds.
SameThread(u) ==
  /\ pc'[u] = pc[u] /\ call'[u] = call[u]
  /\ \A n \in Nodes : exitsMutex[n] = u => exitsMutex'[n] = u
  /\ \A n \in Nodes : entriesMutex[n] = u => entriesMutex'[n] = u

\* A step of thread t that is about edge e disturbs no other call.
LEMMA StepFrame ==
  ASSUME TypeOK, LockInv, EdgesAgree, NEW t \in Threads, NEW e,
         \A u \in Threads \ {t} : SameThread(u) /\ (call[u] # NULL => Edge(u) # e),
         \A d : d # e => SameEdge(d),
         call[t] # NULL => Edge(t) = e,
         call'[t] # NULL => Edge(t)' = e,
         call'[t] = NULL => Agree(e)',
         CallInv(t)'
  PROVE  LockInv' /\ EdgesAgree'
<1>1. ASSUME NEW u \in Threads \ {t}, pc[u] # "idle" PROVE CallInv(u)'
  <2>1. SameThread(u) /\ OwnsEdge(u) /\ SameEdge(Edge(u)) /\ CallInv(u)
    BY <1>1, EdgeOwned DEF LockInv, OwnsEdge
  <2>2. Edge(u)' = Edge(u) /\ Source(u)' = Source(u) /\ Target(u)' = Target(u)
    BY <2>1 DEF SameThread, Edge, Source, Target
  <2>3. Agree(Edge(u)) => Agree(Edge(u))'
    BY <2>1, <2>2 DEF SameEdge, Agree
  <2> QED
    BY <2>1, <2>2, <2>3 DEF CallInv, SameThread, SameEdge, OwnsEdge
<1>2. ASSUME NEW u \in Threads \ {t}, pc[u] = "idle" PROVE CallInv(u)'
  BY <1>2 DEF SameThread, CallInv
<1>3. ASSUME NEW d \in Nodes \X Nodes, \A u \in Threads : call'[u] # NULL => Edge(u)' # d
      PROVE  Agree(d)'
  <2>1. CASE d = e
    BY <1>3, <2>1
  <2>2. CASE d # e
    <3>1. \A u \in Threads : call[u] # NULL => Edge(u) # d
      BY <1>3, <2>2 DEF SameThread, Edge
    <3> QED
      BY <2>2, <3>1 DEF EdgesAgree, Agree, SameEdge
  <2> QED
    BY <2>1, <2>2
<1> QED
  BY <1>1, <1>2, <1>3 DEF LockInv, EdgesAgree

\* Init establishes the invariants.
LEMMA LocksInit == Init => TypeOK /\ LockInv /\ EdgesAgree
BY DEF Init, TypeOK, LockInv, CallInv, EdgesAgree, Agree, Locations, EmptyFcn

\* Every step of every thread keeps the invariants.
LEMMA LocksStep ==
  TypeOK /\ LockInv /\ EdgesAgree /\ [Next]_vars => TypeOK' /\ LockInv' /\ EdgesAgree'
<1> SUFFICES ASSUME TypeOK, LockInv, EdgesAgree, [Next]_vars
             PROVE  TypeOK' /\ LockInv' /\ EdgesAgree'
  OBVIOUS
<1> USE DEF Goto
<1>1. ASSUME NEW t \in Threads, CallGraph(t) PROVE TypeOK' /\ LockInv' /\ EdgesAgree'
  <2>1. PICK c \in Calls(t) :
          /\ call' = [call EXCEPT ![t] = c]
          /\ pc' = [pc EXCEPT ![t] = IF c[1] = "connectNodes" THEN "test" ELSE "findExit"]
    BY <1>1 DEF CallGraph
  <2>2. /\ c[2] \in Pairs[t] /\ c[2] \in Nodes \X Nodes /\ c # NULL
        /\ c[1] \in {"connectNodes", "disconnectNodes"}
        /\ \A u \in Threads \ {t} : call[u] # NULL => Edge(u) # c[2]
    <3>1. /\ c[2] \in Pairs[t] /\ c[2] \in Nodes \X Nodes /\ c # NULL
          /\ c[1] \in {"connectNodes", "disconnectNodes"}
      BY <2>1, PairsAssumption, CallsAssumption DEF Calls
    <3>2. ASSUME NEW u \in Threads \ {t}, call[u] # NULL PROVE Edge(u) \in Pairs[u]
      BY <3>2 DEF TypeOK, Calls, Edge
    <3> QED
      BY <3>1, <3>2, PairsAssumption
  <2>3. TypeOK' /\ call[t] = NULL /\ call'[t] = c /\ Edge(t)' = c[2]
    BY <1>1, <2>1 DEF CallGraph, TypeOK, Locations, Calls, Edge
  <2>4. \A u \in Threads \ {t} : SameThread(u)
    BY <1>1, <2>1 DEF CallGraph, SameThread, TypeOK
  <2>5. \A d : SameEdge(d)
    BY <1>1 DEF CallGraph, SameEdge
  <2>6. Agree(c[2])'
    BY <1>1, <2>2, <2>3 DEF CallGraph, EdgesAgree, Agree
  <2>7. CallInv(t)'
    BY <2>1, <2>2, <2>3, <2>6 DEF CallInv, TypeOK
  <2> QED
    BY <2>2, <2>3, <2>4, <2>5, <2>7, StepFrame
<1>2. ASSUME NEW t \in Threads, TestLock(t) PROVE TypeOK' /\ LockInv' /\ EdgesAgree'
  <2>1. OwnsEdge(t) /\ CallInv(t)
    BY <1>2, EdgeOwned DEF TestLock, LockInv
  <2>3. TypeOK' /\ call'[t] = call[t] /\ Edge(t)' = Edge(t)
    BY <1>2, <2>1 DEF TestLock, LockExits, OwnsEdge, TypeOK, CallInv, Agree, Locations, Calls, Edge
  <2>4. CallInv(t)'
    BY <1>2, <2>1, <2>3 DEF TestLock, LockExits, OwnsEdge, TypeOK, CallInv, Agree, Source, Target
  <2>5. \A u \in Threads \ {t} : SameThread(u)
    BY <1>2, <2>1, CallsAssumption DEF TestLock, LockExits, OwnsEdge, SameThread, TypeOK, CallInv
  <2>6. \A d : d # Edge(t) => SameEdge(d)
    BY <1>2 DEF TestLock, SameEdge
  <2> QED
    BY <2>1, <2>3, <2>4, <2>5, <2>6, StepFrame DEF OwnsEdge
<1>3. ASSUME NEW t \in Threads, IsConnected(t) PROVE TypeOK' /\ LockInv' /\ EdgesAgree'
  <2>1. OwnsEdge(t) /\ CallInv(t)
    BY <1>3, EdgeOwned DEF IsConnected, LockInv
  <2>3. TypeOK' /\ call'[t] = call[t] /\ Edge(t)' = Edge(t)
    BY <1>3, <2>1 DEF IsConnected, UnlockExits, OwnsEdge, TypeOK, CallInv, Agree, Locations, Calls, Edge
  <2>4. CallInv(t)'
    BY <1>3, <2>1, <2>3 DEF IsConnected, UnlockExits, OwnsEdge, TypeOK, CallInv, Agree, Source, Target
  <2>5. \A u \in Threads \ {t} : SameThread(u)
    BY <1>3, <2>1, CallsAssumption DEF IsConnected, UnlockExits, OwnsEdge, SameThread, TypeOK, CallInv
  <2>6. \A d : d # Edge(t) => SameEdge(d)
    BY <1>3 DEF IsConnected, SameEdge
  <2> QED
    BY <2>1, <2>3, <2>4, <2>5, <2>6, StepFrame DEF OwnsEdge
<1>4. ASSUME NEW t \in Threads, ConnectLockExits(t) PROVE TypeOK' /\ LockInv' /\ EdgesAgree'
  <2>1. OwnsEdge(t) /\ CallInv(t)
    BY <1>4, EdgeOwned DEF ConnectLockExits, LockInv
  <2>3. TypeOK' /\ call'[t] = call[t] /\ Edge(t)' = Edge(t)
    BY <1>4, <2>1 DEF ConnectLockExits, LockExits, OwnsEdge, TypeOK, CallInv, Agree, Locations, Calls, Edge
  <2>4. CallInv(t)'
    BY <1>4, <2>1, <2>3 DEF ConnectLockExits, LockExits, OwnsEdge, TypeOK, CallInv, Agree, Source, Target
  <2>5. \A u \in Threads \ {t} : SameThread(u)
    BY <1>4, <2>1, CallsAssumption DEF ConnectLockExits, LockExits, OwnsEdge, SameThread, TypeOK, CallInv
  <2>6. \A d : d # Edge(t) => SameEdge(d)
    BY <1>4 DEF ConnectLockExits, SameEdge
  <2> QED
    BY <2>1, <2>3, <2>4, <2>5, <2>6, StepFrame DEF OwnsEdge
<1>5. ASSUME NEW t \in Threads, ConnectLockEntries(t) PROVE TypeOK' /\ LockInv' /\ EdgesAgree'
  <2>1. OwnsEdge(t) /\ CallInv(t)
    BY <1>5, EdgeOwned DEF ConnectLockEntries, LockInv
  <2>3. TypeOK' /\ call'[t] = call[t] /\ Edge(t)' = Edge(t)
    BY <1>5, <2>1 DEF ConnectLockEntries, LockEntries, OwnsEdge, TypeOK, CallInv, Agree, Locations, Calls, Edge
  <2>4. CallInv(t)'
    BY <1>5, <2>1, <2>3 DEF ConnectLockEntries, LockEntries, OwnsEdge, TypeOK, CallInv, Agree, Source, Target
  <2>5. \A u \in Threads \ {t} : SameThread(u)
    BY <1>5, <2>1, CallsAssumption DEF ConnectLockEntries, LockEntries, OwnsEdge, SameThread, TypeOK, CallInv
  <2>6. \A d : d # Edge(t) => SameEdge(d)
    BY <1>5 DEF ConnectLockEntries, SameEdge
  <2> QED
    BY <2>1, <2>3, <2>4, <2>5, <2>6, StepFrame DEF OwnsEdge
<1>6. ASSUME NEW t \in Threads, ConnectExit(t) PROVE TypeOK' /\ LockInv' /\ EdgesAgree'
  <2>1. OwnsEdge(t) /\ CallInv(t)
    BY <1>6, EdgeOwned DEF ConnectExit, LockInv
  <2>2. /\ exits' = PushBack(exits, Edge(t)) /\ exits' \in [DOMAIN exits' -> Nat \ {0}]
        /\ DOMAIN exits' = DOMAIN exits \cup {Edge(t)}
        /\ \A d \in DOMAIN exits \ {Edge(t)} : exits'[d] = exits[d]
        /\ exits'[Edge(t)] = 1
    <3>1. exits \in [DOMAIN exits -> Nat \ {0}] /\ exits' = PushBack(exits, Edge(t))
      BY <1>6 DEF ConnectExit, TypeOK
    <3>2. Edge(t) \notin DOMAIN exits
      BY <1>6, <2>1 DEF ConnectExit, CallInv, Agree
    <3>3. PushBack(exits, Edge(t)) \in [DOMAIN PushBack(exits, Edge(t)) -> Nat \ {0}]
      BY <3>1, VectorType
    <3>4. /\ DOMAIN PushBack(exits, Edge(t)) = DOMAIN exits \cup {Edge(t)}
          /\ \A d \in DOMAIN exits \ {Edge(t)} : PushBack(exits, Edge(t))[d] = exits[d]
          /\ PushBack(exits, Edge(t))[Edge(t)] = 1
      BY <3>2, VectorFacts, Zenon
    <3> QED
      BY <3>1, <3>3, <3>4
  <2>3. TypeOK' /\ call'[t] = call[t] /\ Edge(t)' = Edge(t)
    BY <1>6, <2>1, <2>2 DEF ConnectExit, OwnsEdge, TypeOK, CallInv, Agree, Locations, Calls, Edge
  <2>4. CallInv(t)'
    BY <1>6, <2>1, <2>3, <2>2 DEF ConnectExit, OwnsEdge, TypeOK, CallInv, Agree, Source, Target
  <2>5. \A u \in Threads \ {t} : SameThread(u)
    BY <1>6, <2>1, CallsAssumption DEF ConnectExit, OwnsEdge, SameThread, TypeOK, CallInv
  <2>6. \A d : d # Edge(t) => SameEdge(d)
    BY <1>6, <2>2 DEF ConnectExit, SameEdge
  <2> QED
    BY <2>1, <2>3, <2>4, <2>5, <2>6, StepFrame DEF OwnsEdge
<1>7. ASSUME NEW t \in Threads, ConnectEntry(t) PROVE TypeOK' /\ LockInv' /\ EdgesAgree'
  <2>1. OwnsEdge(t) /\ CallInv(t)
    BY <1>7, EdgeOwned DEF ConnectEntry, LockInv
  <2>2. /\ entries' = PushBack(entries, Edge(t)) /\ entries' \in [DOMAIN entries' -> Nat \ {0}]
        /\ DOMAIN entries' = DOMAIN entries \cup {Edge(t)}
        /\ \A d \in DOMAIN entries \ {Edge(t)} : entries'[d] = entries[d]
        /\ entries'[Edge(t)] = 1
    <3>1. entries \in [DOMAIN entries -> Nat \ {0}] /\ entries' = PushBack(entries, Edge(t))
      BY <1>7 DEF ConnectEntry, TypeOK
    <3>2. Edge(t) \notin DOMAIN entries
      BY <1>7, <2>1 DEF ConnectEntry, CallInv, Agree
    <3>3. PushBack(entries, Edge(t)) \in [DOMAIN PushBack(entries, Edge(t)) -> Nat \ {0}]
      BY <3>1, VectorType
    <3>4. /\ DOMAIN PushBack(entries, Edge(t)) = DOMAIN entries \cup {Edge(t)}
          /\ \A d \in DOMAIN entries \ {Edge(t)} : PushBack(entries, Edge(t))[d] = entries[d]
          /\ PushBack(entries, Edge(t))[Edge(t)] = 1
      BY <3>2, VectorFacts, Zenon
    <3> QED
      BY <3>1, <3>3, <3>4
  <2>3. TypeOK' /\ call'[t] = call[t] /\ Edge(t)' = Edge(t)
    BY <1>7, <2>1, <2>2 DEF ConnectEntry, UnlockEntries, OwnsEdge, TypeOK, CallInv, Agree, Locations, Calls, Edge
  <2>4. CallInv(t)'
    BY <1>7, <2>1, <2>3, <2>2 DEF ConnectEntry, UnlockEntries, OwnsEdge, TypeOK, CallInv, Agree, Source, Target
  <2>5. \A u \in Threads \ {t} : SameThread(u)
    BY <1>7, <2>1, CallsAssumption DEF ConnectEntry, UnlockEntries, OwnsEdge, SameThread, TypeOK, CallInv
  <2>6. \A d : d # Edge(t) => SameEdge(d)
    BY <1>7, <2>2 DEF ConnectEntry, SameEdge
  <2> QED
    BY <2>1, <2>3, <2>4, <2>5, <2>6, StepFrame DEF OwnsEdge
<1>8. ASSUME NEW t \in Threads, ConnectUnlock(t) PROVE TypeOK' /\ LockInv' /\ EdgesAgree'
  <2>1. OwnsEdge(t) /\ CallInv(t)
    BY <1>8, EdgeOwned DEF ConnectUnlock, LockInv
  <2>3. TypeOK' /\ call'[t] = call[t] /\ Edge(t)' = Edge(t)
    BY <1>8, <2>1 DEF ConnectUnlock, UnlockExits, OwnsEdge, TypeOK, CallInv, Agree, Locations, Calls, Edge
  <2>4. CallInv(t)'
    BY <1>8, <2>1, <2>3 DEF ConnectUnlock, UnlockExits, OwnsEdge, TypeOK, CallInv, Agree, Source, Target
  <2>5. \A u \in Threads \ {t} : SameThread(u)
    BY <1>8, <2>1, CallsAssumption DEF ConnectUnlock, UnlockExits, OwnsEdge, SameThread, TypeOK, CallInv
  <2>6. \A d : d # Edge(t) => SameEdge(d)
    BY <1>8 DEF ConnectUnlock, SameEdge
  <2> QED
    BY <2>1, <2>3, <2>4, <2>5, <2>6, StepFrame DEF OwnsEdge
<1>9. ASSUME NEW t \in Threads, DisconnectLockExits(t) PROVE TypeOK' /\ LockInv' /\ EdgesAgree'
  <2>1. OwnsEdge(t) /\ CallInv(t)
    BY <1>9, EdgeOwned DEF DisconnectLockExits, LockInv
  <2>3. TypeOK' /\ call'[t] = call[t] /\ Edge(t)' = Edge(t)
    BY <1>9, <2>1 DEF DisconnectLockExits, LockExits, OwnsEdge, TypeOK, CallInv, Agree, Locations, Calls, Edge
  <2>4. CallInv(t)'
    BY <1>9, <2>1, <2>3 DEF DisconnectLockExits, LockExits, OwnsEdge, TypeOK, CallInv, Agree, Source, Target
  <2>5. \A u \in Threads \ {t} : SameThread(u)
    BY <1>9, <2>1, CallsAssumption DEF DisconnectLockExits, LockExits, OwnsEdge, SameThread, TypeOK, CallInv
  <2>6. \A d : d # Edge(t) => SameEdge(d)
    BY <1>9 DEF DisconnectLockExits, SameEdge
  <2> QED
    BY <2>1, <2>3, <2>4, <2>5, <2>6, StepFrame DEF OwnsEdge
<1>10. ASSUME NEW t \in Threads, DisconnectExit(t) PROVE TypeOK' /\ LockInv' /\ EdgesAgree'
  <2>1. OwnsEdge(t) /\ CallInv(t)
    BY <1>10, EdgeOwned DEF DisconnectExit, LockInv
  <2>2. /\ exits' = Erase(exits, Edge(t)) /\ exits' \in [DOMAIN exits' -> Nat \ {0}]
        /\ DOMAIN exits' = DOMAIN exits \ {Edge(t)}
        /\ \A d \in DOMAIN exits \ {Edge(t)} : exits'[d] = exits[d]
    <3>1. exits \in [DOMAIN exits -> Nat \ {0}] /\ exits' = Erase(exits, Edge(t))
      BY <1>10 DEF DisconnectExit, TypeOK
    <3>2. Edge(t) \in DOMAIN exits => exits[Edge(t)] = 1
      BY <1>10, <2>1 DEF DisconnectExit, CallInv, Agree
    <3>3. Erase(exits, Edge(t)) \in [DOMAIN Erase(exits, Edge(t)) -> Nat \ {0}]
      BY <3>1, VectorType
    <3>4. /\ DOMAIN Erase(exits, Edge(t)) = DOMAIN exits \ {Edge(t)}
          /\ \A d \in DOMAIN exits \ {Edge(t)} : Erase(exits, Edge(t))[d] = exits[d]
      BY <3>2, VectorFacts, Zenon
    <3> QED
      BY <3>1, <3>3, <3>4
  <2>3. TypeOK' /\ call'[t] = call[t] /\ Edge(t)' = Edge(t)
    BY <1>10, <2>1, <2>2 DEF DisconnectExit, UnlockExits, OwnsEdge, TypeOK, CallInv, Agree, Locations, Calls, Edge
  <2>4. CallInv(t)'
    BY <1>10, <2>1, <2>3, <2>2 DEF DisconnectExit, UnlockExits, OwnsEdge, TypeOK, CallInv, Agree, Source, Target
  <2>5. \A u \in Threads \ {t} : SameThread(u)
    BY <1>10, <2>1, CallsAssumption DEF DisconnectExit, UnlockExits, OwnsEdge, SameThread, TypeOK, CallInv
  <2>6. \A d : d # Edge(t) => SameEdge(d)
    BY <1>10, <2>2 DEF DisconnectExit, SameEdge
  <2> QED
    BY <2>1, <2>3, <2>4, <2>5, <2>6, StepFrame DEF OwnsEdge
<1>11. ASSUME NEW t \in Threads, DisconnectLockEntries(t) PROVE TypeOK' /\ LockInv' /\ EdgesAgree'
  <2>1. OwnsEdge(t) /\ CallInv(t)
    BY <1>11, EdgeOwned DEF DisconnectLockEntries, LockInv
  <2>3. TypeOK' /\ call'[t] = call[t] /\ Edge(t)' = Edge(t)
    BY <1>11, <2>1 DEF DisconnectLockEntries, LockEntries, OwnsEdge, TypeOK, CallInv, Agree, Locations, Calls, Edge
  <2>4. CallInv(t)'
    BY <1>11, <2>1, <2>3 DEF DisconnectLockEntries, LockEntries, OwnsEdge, TypeOK, CallInv, Agree, Source, Target
  <2>5. \A u \in Threads \ {t} : SameThread(u)
    BY <1>11, <2>1, CallsAssumption DEF DisconnectLockEntries, LockEntries, OwnsEdge, SameThread, TypeOK, CallInv
  <2>6. \A d : d # Edge(t) => SameEdge(d)
    BY <1>11 DEF DisconnectLockEntries, SameEdge
  <2> QED
    BY <2>1, <2>3, <2>4, <2>5, <2>6, StepFrame DEF OwnsEdge
<1>12. ASSUME NEW t \in Threads, DisconnectEntry(t) PROVE TypeOK' /\ LockInv' /\ EdgesAgree'
  <2>1. OwnsEdge(t) /\ CallInv(t)
    BY <1>12, EdgeOwned DEF DisconnectEntry, LockInv
  <2>2. /\ entries' = Erase(entries, Edge(t)) /\ entries' \in [DOMAIN entries' -> Nat \ {0}]
        /\ DOMAIN entries' = DOMAIN entries \ {Edge(t)}
        /\ \A d \in DOMAIN entries \ {Edge(t)} : entries'[d] = entries[d]
    <3>1. entries \in [DOMAIN entries -> Nat \ {0}] /\ entries' = Erase(entries, Edge(t))
      BY <1>12 DEF DisconnectEntry, TypeOK
    <3>2. Edge(t) \in DOMAIN entries => entries[Edge(t)] = 1
      BY <1>12, <2>1 DEF DisconnectEntry, CallInv, Agree
    <3>3. Erase(entries, Edge(t)) \in [DOMAIN Erase(entries, Edge(t)) -> Nat \ {0}]
      BY <3>1, VectorType
    <3>4. /\ DOMAIN Erase(entries, Edge(t)) = DOMAIN entries \ {Edge(t)}
          /\ \A d \in DOMAIN entries \ {Edge(t)} : Erase(entries, Edge(t))[d] = entries[d]
      BY <3>2, VectorFacts, Zenon
    <3> QED
      BY <3>1, <3>3, <3>4
  <2>3. TypeOK' /\ call'[t] = call[t] /\ Edge(t)' = Edge(t)
    BY <1>12, <2>1, <2>2 DEF DisconnectEntry, UnlockEntries, OwnsEdge, TypeOK, CallInv, Agree, Locations, Calls, Edge
  <2>4. CallInv(t)'
    BY <1>12, <2>1, <2>3, <2>2 DEF DisconnectEntry, UnlockEntries, OwnsEdge, TypeOK, CallInv, Agree, Source, Target
  <2>5. \A u \in Threads \ {t} : SameThread(u)
    BY <1>12, <2>1, CallsAssumption DEF DisconnectEntry, UnlockEntries, OwnsEdge, SameThread, TypeOK, CallInv
  <2>6. \A d : d # Edge(t) => SameEdge(d)
    BY <1>12, <2>2 DEF DisconnectEntry, SameEdge
  <2> QED
    BY <2>1, <2>3, <2>4, <2>5, <2>6, StepFrame DEF OwnsEdge
<1>13. ASSUME NEW t \in Threads, ReturnGraph(t) PROVE TypeOK' /\ LockInv' /\ EdgesAgree'
  <2>1. OwnsEdge(t) /\ CallInv(t)
    BY <1>13, EdgeOwned DEF ReturnGraph, LockInv
  <2>2. PICK e : e = Edge(t)
    OBVIOUS
  <2>3. TypeOK' /\ call'[t] = NULL
    BY <1>13 DEF ReturnGraph, TypeOK, Locations, Calls
  <2>4. CallInv(t)' /\ Agree(e)'
    BY <1>13, <2>1, <2>2 DEF ReturnGraph, TypeOK, CallInv, Agree
  <2>5. \A u \in Threads \ {t} : SameThread(u)
    BY <1>13 DEF ReturnGraph, SameThread, TypeOK
  <2>6. \A d : SameEdge(d)
    BY <1>13 DEF ReturnGraph, SameEdge
  <2> QED
    BY <2>1, <2>2, <2>3, <2>4, <2>5, <2>6, StepFrame DEF OwnsEdge
<1>14. CASE UNCHANGED vars
  BY <1>14 DEF vars, TypeOK, LockInv, CallInv, EdgesAgree, Agree, Edge, Source, Target, Calls
<1> QED
  BY <1>1, <1>2, <1>3, <1>4, <1>5, <1>6, <1>7, <1>8, <1>9, <1>10, <1>11, <1>12, <1>13, <1>14 DEF Next, Work, Terminated

\* The variables of the locking model have their types.
THEOREM LocksTypeCorrect == SafetySpec => []TypeOK
BY LocksInit, LocksStep, PTL DEF SafetySpec

\* No two threads are ever in the same edge vector: every access of graph.cc is
\* made under the mutex of that vector, which its thread holds alone.
THEOREM NoDataRace == SafetySpec => []RaceFree
<1>1. TypeOK /\ LockInv => RaceFree
  <2> SUFFICES ASSUME TypeOK, LockInv, NEW t \in Threads, NEW u \in Threads, t # u
               PROVE  /\ InExits(t) /\ InExits(u) => Source(t) # Source(u)
                      /\ InEntries(t) /\ InEntries(u) => Target(t) # Target(u)
    BY DEF RaceFree
  <2>1. CallInv(t) /\ CallInv(u)
    BY DEF LockInv
  <2> QED
    BY <2>1 DEF CallInv, InExits, InEntries
<1> QED
  BY <1>1, LocksInit, LocksStep, PTL DEF SafetySpec

\* Edges that no call is about are in both vectors once or in neither, although
\* connectNodes tests and adds in separate critical sections.
THEOREM EdgesConsistent == SafetySpec => []EdgesAgree
BY LocksInit, LocksStep, PTL DEF SafetySpec

\* Every step of graph.cc is a step of the atomic graph or changes nothing of it.
LEMMA AtomicStep ==
  ASSUME TypeOK, LockInv, [Next]_vars
  PROVE  [Atomic!Next]_(Atomic!vars)
<1> USE DEF Goto, Atomic!vars
<1>1. ASSUME NEW t \in Threads, CallGraph(t) PROVE Atomic!Call(t)
  <2>1. Done' = Done
    BY <1>1 DEF CallGraph, Done, TypeOK
  <2>2. call[t] = NULL /\ DOMAIN entries' = DOMAIN entries
    BY <1>1 DEF CallGraph, TypeOK
  <2>3. \E c \in Calls(t) : call' = [call EXCEPT ![t] = c]
    BY <1>1 DEF CallGraph
  <2> QED
    BY <2>1, <2>2, <2>3 DEF Atomic!Call, Atomic!Calls, Calls
<1>2. ASSUME NEW t \in Threads, ReturnGraph(t) PROVE Atomic!Return(t)
  <2>1. t \in Done /\ Done' = Done \ {t}
    BY <1>2 DEF ReturnGraph, Done, TypeOK
  <2> QED
    BY <1>2, <2>1 DEF ReturnGraph, Atomic!Return
<1>3. ASSUME NEW t \in Threads, IsConnected(t), Edge(t) \in DOMAIN exits PROVE Atomic!Effect(t)
  <2>1. CallInv(t) /\ OwnsEdge(t)
    BY <1>3, EdgeOwned DEF LockInv, IsConnected
  <2>2. t \notin Done /\ Done' = Done \cup {t}
    BY <1>3 DEF IsConnected, Done, TypeOK
  <2>3. Edge(t) \in DOMAIN entries /\ call[t][1] = "connectNodes" /\ call[t] # NULL
    BY <1>3, <2>1 DEF IsConnected, CallInv, Agree, OwnsEdge
  <2>4. DOMAIN entries' = DOMAIN entries \cup {call[t][2]} /\ call' = call
    BY <1>3, <2>3 DEF IsConnected, Edge
  <2> QED
    BY <2>2, <2>3, <2>4 DEF Atomic!Effect
<1>4. ASSUME NEW t \in Threads, ConnectEntry(t) PROVE Atomic!Effect(t)
  <2>1. CallInv(t) /\ OwnsEdge(t)
    BY <1>4, EdgeOwned DEF LockInv, ConnectEntry
  <2>2. t \notin Done /\ Done' = Done \cup {t}
    BY <1>4 DEF ConnectEntry, Done, TypeOK
  <2>3. call[t][1] = "connectNodes" /\ call[t] # NULL /\ call' = call
    BY <1>4, <2>1 DEF ConnectEntry, CallInv, OwnsEdge
  <2>4. DOMAIN PushBack(entries, Edge(t)) = DOMAIN entries \cup {Edge(t)}
    BY VectorFacts, Zenon
  <2>5. DOMAIN entries' = DOMAIN entries \cup {call[t][2]}
    BY <1>4, <2>4 DEF ConnectEntry, Edge
  <2> QED
    BY <2>2, <2>3, <2>5 DEF Atomic!Effect
<1>5. ASSUME NEW t \in Threads, DisconnectEntry(t) PROVE Atomic!Effect(t)
  <2>1. CallInv(t) /\ OwnsEdge(t)
    BY <1>5, EdgeOwned DEF LockInv, DisconnectEntry
  <2>2. t \notin Done /\ Done' = Done \cup {t}
    BY <1>5 DEF DisconnectEntry, Done, TypeOK
  <2>3. /\ call[t][1] = "disconnectNodes" /\ call[t] # NULL /\ call' = call
        /\ Edge(t) \in DOMAIN entries => entries[Edge(t)] = 1
    BY <1>5, <2>1 DEF DisconnectEntry, CallInv, OwnsEdge
  <2>4. DOMAIN Erase(entries, Edge(t)) = DOMAIN entries \ {Edge(t)}
    BY <2>3, VectorFacts, Zenon
  <2>5. DOMAIN entries' = DOMAIN entries \ {call[t][2]}
    BY <1>5, <2>4 DEF DisconnectEntry, Edge
  <2> QED
    BY <2>2, <2>3, <2>5 DEF Atomic!Effect
<1>6. ASSUME NEW t \in Threads,
             \/ TestLock(t) \/ (IsConnected(t) /\ Edge(t) \notin DOMAIN exits)
             \/ ConnectLockExits(t) \/ ConnectLockEntries(t) \/ ConnectExit(t)
             \/ ConnectUnlock(t) \/ DisconnectLockExits(t) \/ DisconnectExit(t)
             \/ DisconnectLockEntries(t)
      PROVE  UNCHANGED Atomic!vars
  <2>1. Done' = Done
    BY <1>6 DEF Done, TypeOK, TestLock, IsConnected, ConnectLockExits, ConnectLockEntries,
      ConnectExit, ConnectUnlock, DisconnectLockExits, DisconnectExit, DisconnectLockEntries
  <2> QED
    BY <1>6, <2>1 DEF TestLock, IsConnected, ConnectLockExits, ConnectLockEntries,
      ConnectExit, ConnectUnlock, DisconnectLockExits, DisconnectExit, DisconnectLockEntries
<1>7. CASE UNCHANGED vars
  BY <1>7 DEF vars, Done
<1> QED
  BY <1>1, <1>2, <1>3, <1>4, <1>5, <1>6, <1>7 DEF Next, Work, Terminated, Atomic!Next

\* connectNodes and disconnectNodes implement the atomic graph that module
\* Callbacks uses: each call takes effect at one moment, on both vectors.
THEOREM GraphIsAtomic == SafetySpec => ImplementsAtomicSafety
<1>1. Init => Atomic!Init
  BY DEF Init, Atomic!Init, Done, EmptyFcn
<1> QED
  BY <1>1, LocksInit, LocksStep, AtomicStep, PTL
    DEF SafetySpec, ImplementsAtomicSafety, Atomic!SafetySpec
=============================================================================
