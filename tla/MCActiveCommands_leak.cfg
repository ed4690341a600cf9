\* Daemons with and without BUCK2_ERROR_CONCURRENT=true; with it, new() panics
\* when another command is listed.
\* The panic may unwind the task or abort the daemon.
CONSTANTS
  c1 = c1  c2 = c2  c3 = c3
  t1 = t1  t2 = t2  t3 = t3
  NoSnapshot = NoSnapshot
  Commands <- MCCommands
  TraceIds <- MCTraceIds
  TraceOf <- MCTraceOf
SPECIFICATION Spec
INVARIANTS
  ActiveAreLive
CHECK_DEADLOCK FALSE
