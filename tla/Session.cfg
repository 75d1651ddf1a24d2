\* Two threads; any of the callbacks that leave or use pointers may be refused.
CONSTANTS
  t0 = t0
  t1 = t1
  NULL = NULL
  Master = t0
  Threads = {t0, t1}
  KnownEvents = {"cyc", "ins"}
  Environments <- MCEnvironments
  Refusable = {"thread_begin", "thread_end", "parallel_begin", "parallel_end", "implicit_task", "task_create", "sync_region", "ext_loop", "ext_chunk"}

SPECIFICATION Spec

INVARIANTS
  CrashNeedsRefusal
  EventColumns
