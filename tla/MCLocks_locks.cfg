\* Three tasks that make any calls of the kernel, wherever the timer and the
\* keyboard interrupt them.
SPECIFICATION Spec
CONSTANTS
  Task = {t1, t2, t3}
  NoOne = NoOne
  Calls <- TaskCalls
SYMMETRY Tasks
INVARIANTS
  LocksTypeOK
  OffCpuHoldsNothing
  WaitsForPreempted
  LinesWhole
  GuardsFollowCalls
  LinesDoNotWait
\* The kernel may idle for good, and a spinning core has no step.
CHECK_DEADLOCK FALSE
