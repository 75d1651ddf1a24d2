# Verification of libtdg

libtdg is a tool that OpenMP runtimes load through OMPT (TR4). Its callbacks
build a task dependency graph while the program runs; when the program ends,
metrics are computed over the graph. This directory holds TLA+ models of the
tool, TLC configurations, and TLAPS proofs.

## The system

| Part | Source | State | Operations | Module |
|---|---|---|---|---|
| OMPT callbacks | `callbacks.cc` | `g_tdg`, `g_finalNode`; `TaskData` per task, `ParallelRegionData` per region, `ThreadData` per thread, `WorksharingData` per loop | `cb_thread_begin/end`, `cb_task_create`, `cb_task_schedule`, `cb_parallel_begin/end`, `cb_implicit_task`, `cb_sync_region`, `cb_ext_loop`, `cb_ext_chunk` | `Callbacks` |
| Graph | `graph.h`, `graph.cc` | the map of nodes; for every node two edge vectors with a mutex each | `addNode`, `removeNode`, `connectNodes`, `disconnectNodes`, `isConnectedWith` | `TaskGraph` (values), `GraphLocks` (locking), `AtomicGraph` (what is promised) |
| Metrics | `metrics.cc`, `metrics.h`, `topoSort`, `printDotFile`, `compute_stats` | results of a metric; attributes of the nodes | `init`, `printMetric` of tim, cri, dot, log | `Metrics` |
| Barriers of a region | `callbacks.cc` | `_barrier_cnt`, `_curr_barrier_node`, `_team_size` | `cb_parallel_begin/end`, `cb_sync_region`, `cb_implicit_task` | `BarrierCounter`, `TeamBarrier` (what is promised) |
| Initialisation, finalisation | `init.cc` | `g_metrics`, `g_papiEvents`, the registered callbacks | `ompt_start_tool`, `init_libtdg`, `init_papi_events`, `parse_tokens`, `finalize_libtdg` | `Session`, `Tokens`, `Metrics` (finalisation) |
| Runtime | outside; `ompt.h` declares it | teams, barriers, task scheduling, thread pool | the order of the callbacks | `Callbacks`, second group of variables |
| Time accounting | `addTime`, `setLastTime` in the callbacks | `_totalTime`, `_lastTime` | in every callback | `Measurements` |
| PAPI | `callbacks.cc`, `graph.cc`, `init.cc` | event set per thread | start and stop per chunk, event sets | `Measurements`, `Session` |
| Timer | `timer/` | `g_timerfreq`, `.cpu_freq`, `min` | `ftimer_init`, the calibration, `query_cpu_freq` | `Timer` |
| Empty tool | `callbacks_empty.cc`, `init_empty.cc` | none | none | none |
| Examples | `fib`, `mm`, `test`, `task_test` | | | none: programs to trace |

How the parts interact: the threads of a team run callbacks concurrently. They
share the graph, guarded by the nodes' mutexes, and the `ParallelRegionData`,
of which only barrier counter and barrier node are guarded, by
`_barrier_mutex`. The encountering thread deletes the `ParallelRegionData` in
`cb_parallel_end` while workers may still be between the join barrier and
`cb_implicit_task`. After all callbacks, `finalize_libtdg` reads the graph
alone.

What is hard about it: fast threads enter the next barrier while slow ones are
inside the callback for the last; late workers change the graph after the
region is over; check-then-act and two-part updates in the graph operations;
attributes of nodes that several metrics share; a pointer array that is filled
only for known tokens. `PROJECT.json` lists each hazard at its line, with the
properties that watch it.

## Modules

* `TaskGraph`: a graph as a value. `exits` and `entries` count how often the
  edge vectors hold an edge, so that a doubled or a half edge can be seen. The
  order inside a vector is abstracted here; `Metrics` keeps it.
* `Callbacks`: one action per callback and endpoint, all of it in one step.
  The exception is `cb_sync_region`: `CbSyncRegionBegin` ends with the release
  of `_barrier_mutex`, `CbSyncRegionArrive` makes the node behind the barrier;
  at the end of a barrier `CbSyncRegionLoad` loads `parallel_data->ptr` and
  `CbSyncRegionEnd` reads `_team_size` through it, with `cb_parallel_end` free to
  come in between.
  Its state mirrors the C++ structures: `taskData[x].node` is
  `_curr_task_node`, `.ws` is `_curr_ws_data`, `.barrier` is
  `_curr_barrier_node`; `parInfo[r].cnt` is `_barrier_cnt`, and so on. A freed
  structure leaves the domain of its function. A node is named by its
  allocating thread and that thread's count; the code's ids are only unique.
  The runtime's variables say which callback may come next: `regions` (the
  script of a region grows with the first thread to reach a construct, the
  others follow it), `reached`, `tasks`, `chunksLeft`, `cur`, `pc`.
* `CallbacksInvariant`: the inductive invariants of `Callbacks`. Lemmas that
  every callback preserves them are in `CallbacksTypes` and `CallbacksProofs`
  (types, lifetimes of the data), `CallbacksGraph` (the graph under
  construction) and `CallbacksRounds` (barriers). `CallbacksTheorems` has the
  refinement of `BarrierCounter` and the theorems.
* `GraphLocks`: every lock, vector access and unlock of the graph operations is
  a step. `AtomicGraph` is the specification that a call takes effect at one
  moment between call and return. `GraphLocksProofs` has the proofs.
* `Metrics`: `finalize_libtdg`, token by token and metric by metric, with
  `topoSort`, the critical path, and the statistics as operators that follow
  the code's loops. `Tokens` has `parse_tokens`, for `Session` too.
* `Measurements`: every action of `Callbacks` together with its clock readings
  and PAPI calls. A read of deleted data at the end of `cb_sync_region` may
  return anything. `work` and `interrupted` are history: the time that threads
  spend in tasks, and whether a task was started in a barrier or a loop, or a
  region in a loop.
* `BarrierCounter`: the barriers of the regions and nothing else.
  `TeamBarrier` says what a barrier is: one node per round that all threads of
  the team get. `BarrierProofs` has the proofs. `CallbacksBarriers` maps the
  state of `Callbacks` to that of `BarrierCounter`, all regions at once; regions
  with a team of one, whose barriers the tool does not record, map to none.
* `Timer`: calibration, `.cpu_freq`, and the two programs that use it, of which
  `query_cpu_freq` may be killed at any moment. `TimerProofs` has the proofs.
* `Session`: a process from `ompt_start_tool` to the end of its threads. A
  pointer is set or NULL, and dereferencing NULL is a crash. One operator per
  callback and endpoint says which pointers it needs, sets and resets.
* `MCCallbacks`, `MCGraphLocks`, `MCMetrics`, `MCMeasurements`,
  `MCBarrierCounter`, `MCSession`: instances for TLC.

Operators marked "Mutation" are plausible bugs. `PROJECT.json` says which
property notices which of them; the specifications do not use them.

How the parts fit: `Callbacks` treats graph operations as atomic. `GraphLocks`
justifies that: it implements `AtomicGraph` when no pair of nodes is connected
or disconnected by two threads. The callbacks respect this: one end of every
pair is a node the thread made for itself, except for barrier to sink, which
only thread 0 connects. `Metrics` starts from acyclic graphs with one source
and no double edges. For the bounded programs of the runs, that is what
`Acyclic`, `EdgesMirrored` and `SourceAndSink` say of `Callbacks`. For teams as
large as requested, `Callbacks` implements `BarrierCounter`, and that implements
`TeamBarrier`; TLC checks both on the runs, and both are proved. `Metrics`
and `Measurements` share the one statement of `finalize_libtdg` that charges
`g_finalNode`; `Timer` justifies the clock of `Measurements`, one that only
passes, as long as `.cpu_freq` neither appears nor changes between two calls of
`ftimer_init`.

## Runs

| Run | Question | Bounds |
|---|---|---|
| `barriers` | Do all threads of a team agree on the barrier node, is the counter reset in time, does the graph order what the barrier orders and nothing more? | 3 threads, teams of 3 and 2, 2 regions, each with up to one barrier and the join |
| `loops` | Is a graph with loops connected between root and final node, do counters identify loops? | 2 threads, 2 regions, a loop or a barrier in each, up to 2 chunk calls per thread, so threads get 0, 1 or 2 chunks |
| `nested` | Is a freed structure used, other than by the read at the end of the join barrier, with nested or successive regions, late workers and explicit tasks? | 3 threads, teams of 1 and 2, 2 regions, 1 explicit task |
| `graph_locks` | Are the graph operations free of races, lost or double edges and deadlock, and atomic? | 2 threads, 3 calls each, pairs as around a barrier |
| `finalize` | Do topological sort, critical path and work agree with definitions by enumeration? What is printed for every value of `TDG_TOOL_METRICS`? | all rooted acyclic graphs of 1 to 4 nodes and up to 4 edges, in every order of insertion, and 2 of 5 nodes; times 0 and 1, 0 or 1 added to the final node; on a chain, a diamond and a tree, all strings of up to 5 lexemes |
| `barrier_counter` | Does the counter alone keep the barriers of a region apart? | one region, teams of 2 to 4 threads, 4 barriers, 3 nodes |
| `time_loops` | Is every moment charged to one node, waiting to none, and are counters those of their chunk? | 2 threads, 1 region with a loop or a barrier, 2 chunk calls, 2 ticks, no explicit task |
| `time_tasks` | Is time lost, charged twice without an interrupted barrier or loop, or measured with two clocks when tasks are switched? | 2 threads, 1 region with a loop or a barrier, 1 chunk call, 1 explicit task, 1 tick |
| `timer` | Is the frequency sound, can the clock be set back, does the calibration end? | 21 ticks per second, sleeps late by 0, 1 or 4 ticks, words of 4 bits, 2 calls of `ftimer_init` |
| `session` | Which refused callbacks does a process survive, do event sets have the requested columns? | 2 threads, one region with a loop, every subset of 9 refusable callbacks, 7 values of `TDG_PAPI_METRICS` |

Why the bounds are enough for the interesting cases: a thread can be one
barrier ahead of another, never two, so a barrier followed by the join, or two
regions, shows all overtaking; two regions make one thread late for the first
while the second is open; a diamond is the smallest graph where depth-first
order and levels differ, and it has four nodes and four edges; one to five nodes
give the quartile indices every remainder by four. One tick is
enough to see an interval lost or charged twice, because it can fall between
any two callbacks. With 4-bit words a second of ticks carries from the low word
into the high one and wraps around both.

Two runs show that the code does not do what a comment or the documentation
says; `PROJECT.json` quotes the lines under "findings".

* `team_shortfall`: `_team_size` is the requested size. With fewer threads the
  barrier counter is not reset when all have arrived.
* `double_charge`: a task in a chunk makes `cb_task_schedule`
  (`callbacks.cc:351`) charge the node before the loop with time that the chunk
  is charged with too, and the work that tim prints is too large.

The passing runs exclude the first by their constants (`Shortfall = 0`). For the
second, `time_loops` has no tasks, and `ChargedOnceUninterrupted` of `time_tasks`
says that no time is charged twice, and no waiting is charged, but in three
cases: a task started in a barrier, a task or region started in a loop, and a
`g_finalNode` which is the sink of a region that an explicit task opened. The
configurations below show the other cases.

### Further configurations

These are kept for use by hand and are not listed in `PROJECT.json`. Run
`tlc -config X.cfg M`. All but the last end with a violation.

| Configuration | Module | What TLC shows |
|---|---|---|
| `LoopCounter` | `MCCallbacks` | Threads of one team can have different loop counters, after a region with a loop that only some of them took part in; the comment at `callbacks.cc:512` says they are the same. |
| `CriticalLength` | `MCMetrics` | The length that cri prints counts edges; the README says tasks. |
| `NestedInLoop` | `MCCallbacks` | A parallel region in a loop body is cut off from what follows the loop (`callbacks.cc:506`). The passing runs of `Callbacks` have `NestInLoops = FALSE`. |
| `FinalNode` | `MCMeasurements` | A region opened by an explicit task becomes `g_finalNode` (`callbacks.cc:301`), and `finalize_libtdg` charges its sink with time that other nodes have. |
| `BarrierTask` | `MCMeasurements` | A task executed in a barrier makes the waiting before it part of the node behind the barrier; the comment at `callbacks.cc:431` says waiting is not measured. |
| `LateRead` | `MCCallbacks` | `cb_parallel_end` can delete the `ParallelRegionData` between load and dereference at the end of the join barrier (`callbacks.cc:446`). |
| `TimerFile` | `Timer` | `ftimer_init` ends the program when it finds `.cpu_freq` emptied and not yet written; the README says it reads the frequency or calibrates. |
| `NestedChunks` | `MCMeasurements` | Passes: with loops nested in chunks no time is lost, none is charged twice but in the cases above, and the event set is stopped when its thread ends. |

### Fairness

`Callbacks`, `Measurements`, `Metrics`, `BarrierCounter` and `Session` are checked
for safety only. `Timer` assumes weak fairness of the traced program's
calibration: the operating system wakes it after every sleep. Nothing is assumed
of `query_cpu_freq`. `GraphLocks` assumes weak
fairness of every thread's next step inside a call: the operating system runs
every thread, and a mutex is held only for a bounded number of steps. TLC
shows that this is enough for every call to return, on its instance, where a
thread makes finitely many calls. No fairness is assumed for making calls.

## Proofs

The theorems hold for every value of the constants that satisfies the named
assumptions: `ThreadsAssumption`, `TeamsAssumption`, `BoundsAssumption`,
`NullAssumption` for `Callbacks`; `PairsAssumption` and `CallsAssumption` for
`GraphLocks`; `BarrierAssumption` for `BarrierCounter`; `TimerAssumption` for
`Timer`.

* `TypeCorrect`: `Spec => []TypeOK`.
* `LifetimeSafety`: `Spec => []FreedOnlyReadAtJoin`. Callbacks use live data,
  with one exception that the code has: a worker at the end of the join barrier
  can read `_team_size` from a `ParallelRegionData` that the parent has deleted
  since the worker loaded the pointer (`LateRead`). The theorem says that it
  happens nowhere else. The property is not inductive:
  that `cb_parallel_end` may free the region needs that every worker has begun
  its implicit task and has passed its last construct; that a task which is
  returned to has its data needs that it is in one place only. `LifetimeInv`
  states both: what each thread executes (`ThreadInv`), that a region keeps its
  data and its parent until all its implicit tasks are at the join
  (`RegionInv`), what a suspended task may be (`TaskInv`), and that a task is
  executed, suspended by an explicit task, or the parent of a region, and only
  one of these (`ExclusiveInv`). `Lifetimes` proves it, one lemma per action.
* `NodesStayLive`, `EdgeVectorsAgree`: `NoDangling` and `EdgesMirrored`, from
  `GraphInv` (`GraphInvariant`). Only `cb_implicit_task` deletes a node: the one
  made for the code after the last barrier. `GraphInv` says why nothing leads to
  it any more. While a task waits in a barrier its node is private: no other
  task, region or loop has a pointer to it, and its only edge comes from the
  barrier (`PrivateInv`). All other nodes that something points to are in
  `Shared`, and stay. `PointerInv` adds that the pointers which callbacks follow
  without a test are set. The lemma `GraphFrame` reduces each step to what it
  adds to the graph and to the pointers.
* `CallbacksImplementBarrierCounter`: every step of `Callbacks` is a step of
  `BarrierCounter` in one region, or leaves the barriers of all regions alone.
  It assumes `Shortfall = 0`, teams as large as requested: without that the
  statement is false, which is what `team_shortfall` shows. It rests on
  `RoundInv` (`Rounds`). The runtime lets a thread go on when all threads of
  the team have arrived; the tool counts calls of `cb_sync_region`. `RoundInv`
  relates the two. A task has entered at most one barrier more than any other
  thread of its team, and none more once it runs on (`PassedInv`); a task that
  has ended is past the join; a task holds a barrier node exactly when it has
  entered a barrier. Most callbacks leave all this alone (`Quiet`); the others
  begin an implicit task, enter a barrier or leave the last one.
* `BarriersAreNodes`, `CounterResets`: `SameBarrierSameNode` and
  `ResetWhenAllArrived` for every behaviour of `Callbacks` with
  `Shortfall = 0`. What `BarrierProofs` proves of the counter is carried over by
  the refinement: `P` instantiates `BarrierProofs` with the mapped state.
* `LocksTypeCorrect`, `NoDataRace`, `EdgesConsistent`: type correctness,
  `RaceFree` and `EdgesAgree` from `LockInv`, which says for each location of a
  call which mutexes its thread holds and how the two vectors relate. The key
  lemma, `StepFrame`, says that a step leaves the edges of other threads alone.
* `GraphIsAtomic`: every step of `GraphLocks` is a step of `AtomicGraph` or
  leaves its variables unchanged. The edge counts as there when its target's
  vector holds it.
* `CounterCounts`, `NodesFollowRounds`, `CounterIsBarrier`: `CountsArrivals`,
  `SameRoundSameNode` and `ImplementsTeamBarrier`, from `BarrierInv`. It adds that
  threads are at most one barrier apart and that those ahead hold the region's
  current barrier node; without it a counter value says nothing about who has
  arrived.
* `FrequencyIsSound`, `ClockIsNotSetBack`: `FrequencySound` and
  `ClockNotSetBack`, from `TimerInv`. It adds that every minimum found so far
  is plausible, and that `min`, which survives a calibration, is no larger than
  the frequency in use while there is no file or a calibration runs. The lemma
  `MeasuredExactly` says that a measured sleep is exact in spite of the words'
  width; it rests on lemmas about `%` and `\div`.

Beyond the prover and left to TLC: liveness (the fairness part of
`ImplementsAtomic`, that there is no deadlock, and `CalibrationEnds`),
everything about paths in the graph (`Acyclic`, `ProgramOrder`, `SourceAndSink`,
`TeamUnordered`), because it needs induction over data, and the algorithms of
`Metrics`, which are recursive operators.

## What is not modelled

* What `exit` does to other threads, and whether the runtime then calls
  `finalize_libtdg`; the deletion of the graph against workers whose callbacks
  are late. Both are up to the runtime, which is not in this repository.
* A second initial task. Node ids would no longer be unique.
* A `.cpu_freq` from another machine or from before a change of the clock rate.
* Averages, deviations and the wording of the output; values of PAPI counters.
* The accessors of `Graph` and `Node`; `getConnection` and `maxPredFinishTime`,
  which nobody calls.
* The empty tool, which has no state, and the example programs.

Not proved, though TLC checks them: the time properties of `Measurements`,
`BarrierJoinsTeam` and `LoopCounterIdentifiesLoop` of `Callbacks`, and the
properties of `Session`.
