------------------------------ MODULE Session -------------------------------
(***************************************************************************)
(* A traced process from ompt_start_tool to the end of its threads: the    *)
(* steps of init_libtdg and init_papi_events with their ways out, the      *)
(* callbacks that the runtime agreed to invoke, and the pointers that the  *)
(* callbacks leave for each other in the runtime's ompt_data_t.            *)
(*                                                                         *)
(* The program has one region with a loop and its join barrier.  What the  *)
(* callbacks build is in Callbacks; here a pointer is set or NULL, and     *)
(* dereferencing NULL crashes.  The runtime hands out NULL pointers.       *)
(***************************************************************************)
EXTENDS Tokens

CONSTANTS
  Threads, Master,
  Environments,  \* the values TDG_PAPI_METRICS can have
  KnownEvents,   \* the events PAPI knows
  Refusable,     \* the callbacks ompt_set_callback may refuse
  NULL

\* The team has more than one thread: cb_sync_region ignores the others.
ASSUME SessionAssumption == Master \in Threads /\ Threads # {Master}

VARIABLES
  phase,       \* where the process is
  env,         \* TDG_PAPI_METRICS
  registered,  \* the callbacks the runtime invokes
  papiEvents,  \* g_papiEvents, g_papiNumEvents
  set,         \* the pointers that are not NULL
  eventset,    \* thread -> the events of its _papiEventset
  at           \* thread -> the events it has had so far

vars == <<phase, env, registered, papiEvents, set, eventset, at>>

-----------------------------------------------------------------------------
(* init_libtdg.                                                            *)

\* The callbacks that init_libtdg registers.
Registered ==
  {"thread_begin", "thread_end", "parallel_begin", "parallel_end", "implicit_task", "work",
   "task_schedule", "task_create", "task_dependences", "task_dependence", "sync_region",
   "ext_loop", "ext_chunk"}

\* ompt_start_tool tells the runtime about init_libtdg.
OmptStartTool ==
  /\ phase = "start" /\ phase' = "init"
  /\ UNCHANGED <<env, registered, papiEvents, set, eventset, at>>

\* init_libtdg: ftimer_init may end the process (Timer), and so does a failing
\* lookup of ompt_set_callback.
InitLibtdg ==
  /\ phase = "init" /\ phase' \in {"register", "exit"}
  /\ UNCHANGED <<env, registered, papiEvents, set, eventset, at>>

\* INIT_CALLBACK: a refusal is printed, and otherwise ignored.
InitCallbacks ==
  /\ phase = "register" /\ phase' = "papi"
  /\ \E refused \in SUBSET Refusable : registered' = Registered \ refused
  /\ UNCHANGED <<env, papiEvents, set, eventset, at>>

\* Mutation: an unknown event is skipped.
InitPapiEvents_Skips ==
  /\ phase = "papi" /\ phase' \in {"lookup", "exit"}
  /\ papiEvents' = SelectSeq(ParseTokens(env), LAMBDA token : token \in {<<e>> : e \in KnownEvents})
  /\ UNCHANGED <<env, registered, set, eventset, at>>

\* PAPI_library_init and PAPI_thread_init may fail, and a name may be unknown.
InitPapiEvents ==
  LET tokens == ParseTokens(env) IN
  /\ phase = "papi"
  /\ \/ phase' = "exit" /\ UNCHANGED papiEvents
     \/ /\ \A i \in DOMAIN tokens : tokens[i] \in {<<e>> : e \in KnownEvents}
        /\ phase' = "lookup" /\ papiEvents' = tokens
  /\ UNCHANGED <<env, registered, set, eventset, at>>

\* The lookup of ompt_get_thread_data, and return 1.
InitReturns ==
  /\ phase = "lookup" /\ phase' \in {"run", "exit"}
  /\ UNCHANGED <<env, registered, papiEvents, set, eventset, at>>

-----------------------------------------------------------------------------
(* The callbacks of a thread, in order, and the pointers they need, set    *)
(* and reset.                                                              *)

Script(t) ==
  LET inside == <<"implicit_begin", "loop_begin", "chunk", "loop_end",
                  "sync_begin", "sync_end", "implicit_end">>
  IN  IF t = Master
      THEN <<"thread_begin", "task_create", "parallel_begin">> \o inside
             \o <<"parallel_end", "thread_end">>
      ELSE <<"thread_begin">> \o inside \o <<"thread_end">>

\* The callback function that an event is reported to.
Callback(e) ==
  CASE e \in {"implicit_begin", "implicit_end"} -> "implicit_task"
    [] e \in {"sync_begin", "sync_end"} -> "sync_region"
    [] e \in {"loop_begin", "loop_end"} -> "ext_loop"
    [] e = "chunk" -> "ext_chunk"
    [] OTHER -> e

Position(t, e) == CHOOSE i \in DOMAIN Script(t) : Script(t)[i] = e
Past(t, e) == Position(t, e) <= at[t]

\* The runtime: workers join the region after it began, the join barrier opens
\* when all are in it, and workers may leave the barrier as late as they like.
MayHappen(t, e) ==
  /\ e = "thread_begin" /\ t # Master => Past(Master, "parallel_begin")
  /\ e = "sync_end" => \A u \in Threads : Past(u, "sync_begin")

Thread(t) == <<"thread", t>>
Task(t) == <<"task", t>>
Ws(t) == <<"ws", t>>
InitialTask == <<"task", "initial">>
Region == <<"region">>

\* What a callback dereferences, sets and resets.
Pointers(needs, sets, resets) == [needs |-> needs, sets |-> sets, resets |-> resets]

CbThreadBegin(t) == Pointers({}, {Thread(t)}, {})
CbThreadEnd(t) == Pointers({Thread(t)}, {}, {})

CbTaskCreate == Pointers({}, {InitialTask}, {})

CbParallelBegin == Pointers({InitialTask}, {Region}, {})
CbParallelEnd == Pointers({Region}, {}, {Region})

CbImplicitTaskBegin(t) == Pointers({Region}, {Task(t)}, {})
CbImplicitTaskEnd(t) == Pointers({Task(t)}, {}, {Task(t)})

CbExtLoopBegin(t) == Pointers({Task(t)}, {Ws(t)}, {})
CbExtChunk(t) == Pointers({Task(t), Thread(t), Ws(t)}, {}, {})
CbExtLoopEnd(t) == Pointers({Task(t), Thread(t), Ws(t)}, {}, {Ws(t)})

\* Mutation: cb_sync_region does not test par_info for NULL.
CbSyncRegion_Untested(t) == Pointers({Task(t), Region}, {}, {})

CbSyncRegion(t) == Pointers(IF Region \in set THEN {Task(t)} ELSE {}, {}, {})

\* What the callback for event e of thread t does.
Effect(t, e) ==
  CASE e = "thread_begin"   -> CbThreadBegin(t)
    [] e = "thread_end"     -> CbThreadEnd(t)
    [] e = "task_create"    -> CbTaskCreate
    [] e = "parallel_begin" -> CbParallelBegin
    [] e = "parallel_end"   -> CbParallelEnd
    [] e = "implicit_begin" -> CbImplicitTaskBegin(t)
    [] e = "implicit_end"   -> CbImplicitTaskEnd(t)
    [] e = "loop_begin"     -> CbExtLoopBegin(t)
    [] e = "chunk"          -> CbExtChunk(t)
    [] e = "loop_end"       -> CbExtLoopEnd(t)
    [] OTHER                -> CbSyncRegion(t)

\* cb_thread_begin gives the thread an event set with all events, cb_thread_end
\* destroys it.  Both end the process when PAPI fails.
Eventset(t, e) ==
  CASE e = "thread_begin" -> papiEvents
    [] e = "thread_end"   -> NULL
    [] OTHER              -> eventset[t]

\* The next event of thread t.
Event(t) ==
  LET e == Script(t)[at[t] + 1]
      p == Effect(t, e)
  IN
  /\ phase = "run" /\ at[t] < Len(Script(t)) /\ MayHappen(t, e)
  /\ at' = [at EXCEPT ![t] = @ + 1]
  /\ IF Callback(e) \in registered
     THEN \/ /\ p.needs \subseteq set
             /\ set' = (set \ p.resets) \cup p.sets
             /\ eventset' = [eventset EXCEPT ![t] = Eventset(t, e)] /\ UNCHANGED phase
          \/ e \in {"thread_begin", "thread_end"} /\ p.needs \subseteq set
             /\ phase' = "exit" /\ UNCHANGED <<set, eventset>>
          \/ ~(p.needs \subseteq set) /\ phase' = "crash" /\ UNCHANGED <<set, eventset>>
     ELSE UNCHANGED <<set, eventset, phase>>
  /\ UNCHANGED <<env, registered, papiEvents>>

-----------------------------------------------------------------------------

Init ==
  /\ phase = "start" /\ env \in Environments /\ registered = {} /\ papiEvents = <<>>
  /\ set = {} /\ eventset = [t \in Threads |-> NULL] /\ at = [t \in Threads |-> 0]

Terminated ==
  /\ phase \in {"exit", "crash"} \/ \A t \in Threads : at[t] = Len(Script(t))
  /\ UNCHANGED vars

Next ==
  \/ OmptStartTool \/ InitLibtdg \/ InitCallbacks \/ InitPapiEvents \/ InitReturns
  \/ \E t \in Threads : Event(t)
  \/ Terminated

Spec == Init /\ [][Next]_vars

-----------------------------------------------------------------------------
(* Properties.                                                             *)

\* The callbacks whose pointers a callback relies on.
ReliesOn(c) ==
  CASE c = "thread_end"     -> {"thread_begin"}
    [] c = "parallel_begin" -> {"task_create"}
    [] c \in {"parallel_end", "implicit_task"} -> {"parallel_begin"}
    [] c = "ext_loop"       -> {"implicit_task", "thread_begin"}
    [] c = "ext_chunk"      -> {"ext_loop"}
    [] c = "sync_region" /\ "parallel_begin" \in registered -> {"implicit_task"}
    [] OTHER -> {}

\* INIT_CALLBACK goes on after a refusal.  A process crashes only when a
\* callback was registered without one that it relies on, and then it never
\* gets through a region: the other refusals are harmless, also to a worker that
\* leaves the join barrier after parallel_end.
CrashNeedsRefusal ==
  LET complete == \A c \in registered : ReliesOn(c) \subseteq registered
  IN  /\ phase = "crash" => ~complete
      /\ phase = "run" /\ (\A t \in Threads : at[t] = Len(Script(t))) => complete

\* Every event set holds the names of TDG_PAPI_METRICS, all of them and in that
\* order, whichever thread it belongs to: column i of chunks.log is the i-th
\* name.  No thread begins when one of the names is unknown.
EventColumns ==
  \A t \in Threads : eventset[t] # NULL =>
    /\ eventset[t] = [i \in 1 .. (Len(env) + 1) \div 2 |-> <<env[2 * i - 1]>>]
    /\ \A i \in DOMAIN eventset[t] : eventset[t][i][1] \in KnownEvents
=============================================================================
