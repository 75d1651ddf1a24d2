---------------------------- MODULE Measurements ----------------------------
(***************************************************************************)
(* What the callbacks measure while they build the graph: the time they    *)
(* charge to nodes with Node::addTime and Node::setLastTime, and the PAPI  *)
(* counters that run from chunk to chunk.  Every action is the action of   *)
(* module Callbacks together with its measurements.                        *)
(*                                                                         *)
(* now is a clock that only passes; a callback takes no time.  work and    *)
(* interrupted are history variables: the time that threads have spent in  *)
(* tasks, and whether a barrier or a loop was interrupted by another task. *)
(***************************************************************************)
EXTENDS Callbacks, FiniteSetsExt

CONSTANT MaxTime   \* bound: ticks of the clock

ASSUME TimeAssumption == MaxTime \in Nat

VARIABLES
  now,        \* ftimer_msec()
  lastTime,   \* node -> _lastTime, and the thread that took the reading
  totalTime,  \* node -> _totalTime
  counting,   \* thread -> the chunk whose PAPI_start started its event set, or NULL
  papiVals,   \* chunk -> the chunk during which its counts were taken, or NULL
  finalized,  \* finalize_libtdg has charged g_finalNode
  work,
  interrupted

papiVars == <<counting, papiVals>>
mvars == <<vars, now, lastTime, totalTime, papiVars, finalized, work, interrupted>>

-----------------------------------------------------------------------------
(* The clock readings of one callback of thread t: addTime for the nodes   *)
(* of charged, setLastTime for those of stamped.                           *)

\* Mutations: the reading that the interval ended with is not kept; the last
\* interval replaces the time of the node.
AddTime_KeepsLast(t, charged, stamped) ==
  /\ totalTime' = [n \in DOMAIN tdg'.nodes |->
       IF n \in charged THEN totalTime[n] + now - lastTime[n].time
       ELSE IF n \in DOMAIN totalTime THEN totalTime[n] ELSE 0]
  /\ lastTime' = [n \in DOMAIN tdg'.nodes |->
       IF n \in stamped THEN [time |-> now, thread |-> t]
       ELSE IF n \in DOMAIN lastTime THEN lastTime[n] ELSE [time |-> 0, thread |-> NULL]]

AddTime_Assigns(t, charged, stamped) ==
  /\ totalTime' = [n \in DOMAIN tdg'.nodes |->
       IF n \in charged THEN now - lastTime[n].time
       ELSE IF n \in DOMAIN totalTime THEN totalTime[n] ELSE 0]
  /\ lastTime' = [n \in DOMAIN tdg'.nodes |->
       IF n \in charged \cup stamped THEN [time |-> now, thread |-> t]
       ELSE IF n \in DOMAIN lastTime THEN lastTime[n] ELSE [time |-> 0, thread |-> NULL]]

AddTime(t, charged, stamped) ==
  /\ totalTime' = [n \in DOMAIN tdg'.nodes |->
       IF n \in charged THEN totalTime[n] + now - lastTime[n].time
       ELSE IF n \in DOMAIN totalTime THEN totalTime[n] ELSE 0]
  /\ lastTime' = [n \in DOMAIN tdg'.nodes |->
       IF n \in charged \cup stamped THEN [time |-> now, thread |-> t]
       ELSE IF n \in DOMAIN lastTime THEN lastTime[n] ELSE [time |-> 0, thread |-> NULL]]

CurrNode(t) == taskData[cur[t]].node

-----------------------------------------------------------------------------
(* PAPI.  PAPI_start of a running event set and PAPI_stop of one that does *)
(* not run fail and change nothing; the code ignores their results.  An    *)
(* event set has at least one event.                                       *)

\* endPapiCounters of chunk m, unless it is NULL, and then initPapiVals and
\* startPapiCounters of chunk n, unless that is NULL.
SwitchCounters(t, m, n) ==
  LET stops   == m # NULL /\ counting[t] # NULL
      running == IF stops THEN NULL ELSE counting[t]
      vals    == IF stops THEN [papiVals EXCEPT ![m] = counting[t]] ELSE papiVals
  IN  /\ counting' = [counting EXCEPT ![t] = IF running = NULL THEN n ELSE running]
      /\ papiVals' = IF n = NULL THEN vals ELSE Put(vals, n, NULL)

-----------------------------------------------------------------------------
(* The callbacks.  Most of them only read the clock.                       *)

ReadClock(t, charged, stamped) ==
  AddTime(t, charged, stamped) /\ UNCHANGED <<papiVars, now, finalized, work, interrupted>>

ThreadBegin(t) == CbThreadBegin(t) /\ ReadClock(t, {}, {})

ThreadEnd(t) == CbThreadEnd(t) /\ ReadClock(t, {}, {})

TaskCreateInitial ==
  CbTaskCreateInitial /\ ReadClock(Master, {}, {NewNode(Master, 1)})

\* The task that thread t executes waits in a barrier or has a loop open.
InConstruct(t) ==
  \/ pc[t] = "barrier" /\ taskData[cur[t]].barrier # NULL
  \/ taskData[cur[t]].ws # NULL

ParallelBegin(t, team, requested) ==
  /\ CbParallelBegin(t, team, requested)
  /\ AddTime(t, {CurrNode(t)}, {})
  /\ interrupted' = (interrupted \/ InConstruct(t))
  /\ UNCHANGED <<papiVars, now, finalized, work>>

ImplicitTaskBegin(t, r) ==
  CbImplicitTaskBegin(t, r) /\ ReadClock(t, {}, {NewNode(t, 1)})

ImplicitTaskEnd(t) ==
  /\ CbImplicitTaskEnd(t)
  /\ ReadClock(t, IF taskData[cur[t]].barrier = NULL THEN {CurrNode(t)} ELSE {}, {})

ParallelEnd(t) ==
  CbParallelEnd(t) /\ ReadClock(t, {}, {parInfo[cur[t][2]].sink})

SyncRegionBegin(t, c) ==
  LET p == parInfo[cur[t][2]] IN
  /\ CbSyncRegionBegin(t, c)
  /\ ReadClock(t, IF p.teamSize > 1 THEN {CurrNode(t)} ELSE {},
                  IF p.teamSize > 1 /\ FirstAtBarrier(p) THEN {NewNode(t, 1)} ELSE {})

SyncRegionArrive(t) ==
  CbSyncRegionArrive(t) /\ ReadClock(t, {}, {NewNode(t, 1)})

SyncRegionLoad(t) == CbSyncRegionLoad(t) /\ ReadClock(t, {}, {})

\* What par_info->_team_size > 1 can evaluate to: anything when the data has
\* been deleted since it was loaded.
TeamSizeTests(t) ==
  IF ReadsDeleted(t) THEN BOOLEAN ELSE {parInfo[cur[t][2]].teamSize > 1}

SyncRegionEnd(t) ==
  /\ CbSyncRegionEnd(t)
  /\ \E test \in TeamSizeTests(t) : ReadClock(t, {}, IF test THEN {CurrNode(t)} ELSE {})

ExtLoopBegin(t) ==
  CbExtLoopBegin(t) /\ ReadClock(t, {CurrNode(t)}, {NewNode(t, 1)})

\* Mutation: only the call that says it is the last ends the chunk before it.
ExtChunk_EndsLast(t, lastChunk) ==
  LET ws == taskData[cur[t]].ws IN
  /\ CbExtChunk(t, lastChunk)
  /\ AddTime(t, {IF ws.lastChunk = NULL THEN ws.start ELSE ws.lastChunk},
                IF lastChunk THEN {} ELSE {NewNode(t, 1)})
  /\ IF lastChunk THEN SwitchCounters(t, ws.lastChunk, NULL)
                  ELSE SwitchCounters(t, NULL, NewNode(t, 1))
  /\ UNCHANGED <<now, finalized, work, interrupted>>

\* A call with last_chunk set leaves the chunk before it open.
ExtChunk(t, lastChunk) ==
  LET ws == taskData[cur[t]].ws IN
  /\ CbExtChunk(t, lastChunk)
  /\ AddTime(t, IF ws.lastChunk = NULL THEN {ws.start}
                ELSE IF lastChunk THEN {} ELSE {ws.lastChunk},
                IF lastChunk THEN {} ELSE {NewNode(t, 1)})
  /\ IF lastChunk THEN UNCHANGED papiVars ELSE SwitchCounters(t, ws.lastChunk, NewNode(t, 1))
  /\ UNCHANGED <<now, finalized, work, interrupted>>

\* Mutation: the counters of the last chunk go on.
ExtLoopEnd_Counting(t) ==
  LET ws == taskData[cur[t]].ws IN
  /\ CbExtLoopEnd(t)
  /\ ReadClock(t, {IF ws.lastChunk = NULL THEN ws.start ELSE ws.lastChunk}, {ws.sink})

ExtLoopEnd(t) ==
  LET ws == taskData[cur[t]].ws IN
  /\ CbExtLoopEnd(t)
  /\ AddTime(t, {IF ws.lastChunk = NULL THEN ws.start ELSE ws.lastChunk}, {ws.sink})
  /\ SwitchCounters(t, ws.lastChunk, NULL)
  /\ UNCHANGED <<now, finalized, work, interrupted>>

TaskCreateExplicit(t) ==
  CbTaskCreateExplicit(t) /\ ReadClock(t, {}, {NewNode(t, 1)})

\* Mutation: the clock of the task that starts is not reset.
TaskScheduleStart_KeepsLast(t, y) ==
  /\ CbTaskScheduleStart(t, y)
  /\ AddTime(t, {CurrNode(t)}, {})
  /\ interrupted' = (interrupted \/ InConstruct(t))
  /\ UNCHANGED <<papiVars, now, finalized, work>>

TaskScheduleStart(t, y) ==
  /\ CbTaskScheduleStart(t, y)
  /\ AddTime(t, {CurrNode(t)}, {taskData[y].node})
  /\ interrupted' = (interrupted \/ InConstruct(t))
  /\ UNCHANGED <<papiVars, now, finalized, work>>

TaskScheduleEnd(t) ==
  /\ CbTaskScheduleEnd(t)
  /\ ReadClock(t, {CurrNode(t)}, {taskData[tasks[cur[t]].resume.task].node})

\* The first statement of finalize_libtdg, when the initial thread is done.
FinalizeTime ==
  /\ pc[Master] = "ended" /\ ~finalized /\ finalized' = TRUE
  /\ totalTime' = [totalTime EXCEPT ![finalNode] = @ + now - lastTime[finalNode].time]
  /\ lastTime' = [lastTime EXCEPT ![finalNode] = [time |-> now, thread |-> Master]]
  /\ UNCHANGED <<vars, now, papiVars, work, interrupted>>

-----------------------------------------------------------------------------
(* Time passes.                                                            *)

\* Thread t is in a task, or on its way from the last task to finalisation.
\* The barriers of a team of one are part of its task: cb_sync_region ignores
\* them.
Busy(t) ==
  \/ pc[t] = "run"
  \/ pc[t] \in {"barrier", "wake", "leave"} /\ taskData[cur[t]].barrier = NULL
  \/ t = Master /\ pc[t] = "ended" /\ ~finalized

Tick ==
  /\ now < MaxTime /\ now' = now + 1
  /\ work' = work + Quantify(Threads, Busy)
  /\ UNCHANGED <<vars, lastTime, totalTime, papiVars, finalized, interrupted>>

MInit ==
  /\ Init
  /\ now = 0 /\ lastTime = EmptyFcn /\ totalTime = EmptyFcn
  /\ counting = [t \in Threads |-> NULL] /\ papiVals = EmptyFcn
  /\ finalized = FALSE /\ work = 0 /\ interrupted = FALSE

MStep(t) ==
  \/ ThreadBegin(t)
  \/ ThreadEnd(t)
  \/ t = Master /\ TaskCreateInitial
  \/ \E team \in Teams :
       \E requested \in Cardinality(team) .. Cardinality(team) + Shortfall :
         ParallelBegin(t, team, requested)
  \/ \E r \in DOMAIN regions : ImplicitTaskBegin(t, r)
  \/ ImplicitTaskEnd(t)
  \/ ParallelEnd(t)
  \/ \E c \in {"barrier", "join"} : SyncRegionBegin(t, c)
  \/ SyncRegionArrive(t)
  \/ SyncRegionLoad(t)
  \/ SyncRegionEnd(t)
  \/ ExtLoopBegin(t)
  \/ \E lastChunk \in BOOLEAN : ExtChunk(t, lastChunk)
  \/ ExtLoopEnd(t)
  \/ TaskCreateExplicit(t)
  \/ \E y \in DOMAIN tasks : TaskScheduleStart(t, y)
  \/ TaskScheduleEnd(t)

MTerminated == finalized /\ Terminated /\ UNCHANGED mvars

MNext == (\E t \in Threads : MStep(t)) \/ FinalizeTime \/ Tick \/ MTerminated

MSpec == MInit /\ [][MNext]_mvars

-----------------------------------------------------------------------------
(* Properties.                                                             *)

\* The node whose interval is running while thread t is busy: in a loop the
\* chunk, or the loop's start node before the first chunk.
OpenNode(t) ==
  IF pc[t] = "ended" THEN finalNode
  ELSE LET d == taskData[cur[t]]
       IN  IF d.ws = NULL THEN d.node
           ELSE IF d.ws.lastChunk = NULL THEN d.ws.start ELSE d.ws.lastChunk

\* The times of all nodes, which tim adds up, with the intervals that are
\* still to be charged.
Charged ==
  MapThenSumSet(LAMBDA n : totalTime[n], DOMAIN totalTime)
    + MapThenSumSet(LAMBDA t : now - lastTime[OpenNode(t)].time, {t \in Threads : Busy(t)})

\* No moment that a thread spends in a task is lost, neither at a switch of
\* tasks, a loop or a barrier, nor with the nodes that late workers delete.
NoTimeLost == Charged >= work

\* "tim - computes the total number of tasks and total execution time (i.e.,
\* the work)": no moment of a thread is charged to two nodes, and none that it
\* waits in a barrier is charged at all.
ChargedOnce == Charged <= work

\* It is so with three exceptions.  A task that is started in a barrier: then
\* cb_task_schedule charges the node behind the barrier with the time waited.  A
\* task or a region that is started in a loop: the callback charges the node
\* before the loop with the time that the chunks are charged with as well.  And
\* the end of a program in which a task opened the last region: g_finalNode is
\* not where the initial task is, and its reading may be old.  Nothing else is
\* charged twice, whatever the order of barriers, chunks, tasks and regions.
ChargedOnceUninterrupted ==
  \/ interrupted
  \/ pc[Master] = "ended" /\ finalNode # taskData[InitialTask].node
  \/ ChargedOnce

\* An interval is the difference of two readings of one thread's clock, also
\* for tasks that one thread creates and another one executes: time stamp
\* counters of two cores need not agree.
OneClockPerInterval ==
  [][\A n \in DOMAIN totalTime \cap DOMAIN totalTime' :
       totalTime'[n] # totalTime[n] => lastTime'[n].thread = lastTime[n].thread]_mvars

\* The counter values of a chunk that is over were taken from its own start to
\* its own end.
CountersOfOwnChunk ==
  LET open == {taskData[x].ws.lastChunk : x \in {y \in ImplicitTasks : taskData[y].ws # NULL}}
  IN  \A n \in DOMAIN papiVals : papiVals[n] = IF n \in open THEN NULL ELSE n

\* Even when loops are nested through tasks or regions in a chunk, and starts
\* and stops of the event set fail, it is stopped when cb_thread_end cleans it
\* up: PAPI_cleanup_eventset, whose failure would end the program, succeeds.
StoppedAtThreadEnd ==
  \A t \in Threads : pc[t] = "idle" \/ cur[t] \in {NULL, InitialTask} => counting[t] = NULL
=============================================================================
